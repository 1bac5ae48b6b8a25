-------------------------- MODULE MCClientNetwork --------------------------
(* ClientNetwork on a small instance. *)
EXTENDS ClientNetwork

TwoLeases == {[address |-> "a1", dns |-> "d1"], [address |-> "a2", dns |-> "d2"]}
Interchangeable == Permutations(Indexes) \cup Permutations(Names) \cup Permutations(Endpoints)
============================================================================
