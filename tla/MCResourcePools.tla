--------------------------- MODULE MCResourcePools ---------------------------
(* Instances of ResourcePools for TLC. *)
EXTENDS ResourcePools, TLC

Symmetry == Permutations(Workers) \cup Permutations(Requests) \cup Permutations(GroupNames)

=============================================================================
