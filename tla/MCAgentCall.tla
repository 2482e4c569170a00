---------------------------- MODULE MCAgentCall ----------------------------
(***************************************************************************)
(* One tool call among other clients of a broker that may hold one pending *)
(* request and remember two, so that the call meets a full broker and may  *)
(* poll for a request that has been evicted.                               *)
(***************************************************************************)
EXTENDS AgentCall

MCIds == 1 .. 3
=============================================================================
