--------------------------- MODULE MCRequestList ---------------------------
(***************************************************************************)
(* Three requests and room for two, so that the third makes the broker     *)
(* forget one of two; a refresh and a lookup under way together.           *)
(***************************************************************************)
EXTENDS RequestList
=============================================================================
