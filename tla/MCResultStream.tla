--------------------------- MODULE MCResultStream ---------------------------
(***************************************************************************)
(* Every result of at most five chunks and five bytes, delivered in every  *)
(* way: frames split within header and payload, several frames at once.    *)
(* Five chunks of one byte reach the parser's limit on buffered bytes.     *)
(***************************************************************************)
EXTENDS ResultStream
=============================================================================
