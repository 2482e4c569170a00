------------------------------ MODULE MCBroker ------------------------------
(***************************************************************************)
(* The broker under two threads that call it freely: three submissions,    *)
(* so that with room for two records the third must evict.                 *)
(***************************************************************************)
EXTENDS Broker

MCThreads == {1, 2}
MCCursors == {1, 2}
MCSources == {1}
=============================================================================
