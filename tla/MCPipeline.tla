----------------------------- MODULE MCPipeline -----------------------------
(***************************************************************************)
(* Pipeline for TLC: three runs in one directory, two collection shapes.   *)
(***************************************************************************)
EXTENDS Pipeline
=============================================================================
