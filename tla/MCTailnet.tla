------------------------------ MODULE MCTailnet ------------------------------
(* Model checking of Tailnet: the names operators give to gateways. *)
EXTENDS Tailnet, TLC

ChosenNames == {<<"my", 1>>, <<"ex", 0>>}
Symmetry == Permutations(Requests)
=============================================================================
