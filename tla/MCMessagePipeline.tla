-------------------------- MODULE MCMessagePipeline -------------------------
EXTENDS MessagePipeline, TLC

PipelineSymmetry ==
    Permutations(Devices) \cup Permutations(Params) \cup Permutations(Routines)

=============================================================================
