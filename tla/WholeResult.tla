----------------------------- MODULE WholeResult -----------------------------
(***************************************************************************)
(* What opening a result promises the analyst: either the whole result     *)
(* appears, after the server has confirmed at the end of the stream that   *)
(* the request is still available, or nothing appears at all               *)
(* (docs/decisions/0005-result-stream-framing.md).  ResultStream           *)
(* implements it.                                                          *)
(***************************************************************************)
VARIABLES
  available,  \* the request is still complete, unexpired and remembered
  confirmed,  \* the server has sent the completion frame
  shown       \* "nothing" yet, the whole "result", or "refused"

Init == available = TRUE /\ confirmed = FALSE /\ shown = "nothing"

Revoke == available /\ available' = FALSE /\ UNCHANGED <<confirmed, shown>>

Confirm == available /\ ~ confirmed /\ confirmed' = TRUE /\ UNCHANGED <<available, shown>>

Show == confirmed /\ shown = "nothing" /\ shown' = "result" /\ UNCHANGED <<available, confirmed>>

Refuse == shown = "nothing" /\ shown' = "refused" /\ UNCHANGED <<available, confirmed>>

Next == Revoke \/ Confirm \/ Show \/ Refuse

Spec == Init /\ [][Next]_<<available, confirmed, shown>>
=============================================================================
