---------------------------- MODULE MCPTRPending ----------------------------
(* PTRPending with interchangeable mappings and commits.                   *)
EXTENDS PTRPending, TLC

Symmetry == Permutations(Mapping) \cup Permutations(Committer)
=============================================================================
