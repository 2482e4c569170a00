-------------------------- MODULE MCViewerSession --------------------------
(***************************************************************************)
(* A page and the workers of three workspaces: the first, the one that     *)
(* replaces it, and the one that replaces that.                            *)
(***************************************************************************)
EXTENDS ViewerSession
=============================================================================
