----------------------------- MODULE MCPipeline -----------------------------
(***************************************************************************)
(* Model-checking harness for Pipeline: the constants come from the .cfg   *)
(* files, one per topology and scan direction.                             *)
(***************************************************************************)
EXTENDS Pipeline

=============================================================================
