---------------------------- MODULE MCPipelineRun ----------------------------
(* Instances of PipelineRun for TLC. *)
EXTENDS PipelineRunProps

CONSTANTS r1, r2, a1

\* Both runs import the same asset.
OneAsset == [r \in Run |-> a1]

=============================================================================
