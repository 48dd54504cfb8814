----------------------------- MODULE MCPipeOwner ---------------------------
(* PipeOwner for TLC: the objects are interchangeable.                     *)
EXTENDS PipeOwner, TLC

Symmetry == Permutations(Objects)

=============================================================================
