-------------------------- MODULE MCUploadPipeline --------------------------
(* Instances of UploadPipeline for TLC. *)
EXTENDS UploadPipeline, TLC

\* One transfer costs its container, or container and original.
MCOriginalSize == [j \in Jobs |-> 2]
MCPackedSize == [j \in Jobs |-> 1]

JobSymmetry == Permutations(Jobs)
=============================================================================
