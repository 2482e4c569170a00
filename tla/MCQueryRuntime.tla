--------------------------- MODULE MCQueryRuntime ---------------------------
(***************************************************************************)
(* The runtime with the capacity of mvp_limits.py, one pending request.    *)
(***************************************************************************)
EXTENDS QueryRuntime

MCThreads == {Loop} \cup Ids
MCHandles == Ids
=============================================================================
