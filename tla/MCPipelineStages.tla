-------------------------- MODULE MCPipelineStages --------------------------
(* Instances of PipelineStages for TLC.                                    *)
EXTENDS PipelineStages, TLC

StageSymmetry == Permutations(Stage) \cup Permutations(Kiosk)
                   \cup Permutations(Writer)
=============================================================================
