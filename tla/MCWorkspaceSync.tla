--------------------------- MODULE MCWorkspaceSync ---------------------------
(***************************************************************************)
(* A small instance of WorkspaceSync: two runs of any kinds.               *)
(***************************************************************************)
EXTENDS WorkspaceSync

MCRuns == 1..2
=============================================================================
