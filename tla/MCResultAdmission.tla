------------------------- MODULE MCResultAdmission -------------------------
(***************************************************************************)
(* Two rows may be shown, of a view of up to four, with cells of up to two *)
(* bytes among others that are too large.  Three decoded and eight         *)
(* serialized bytes make every limit the only one that refuses some        *)
(* result, and one that another result meets exactly.                      *)
(***************************************************************************)
EXTENDS ResultAdmission
=============================================================================
