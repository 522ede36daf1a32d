-------------------------- MODULE MCBackhaulPeers --------------------------
(* Model checking of BackhaulPeers: symmetry of the request slots. *)
EXTENDS BackhaulPeers

Symm == Permutations(Requests)
=============================================================================
