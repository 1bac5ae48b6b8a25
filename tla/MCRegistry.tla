---------------------------- MODULE MCRegistry -----------------------------
(* Registry alone: two requests with the same nonce. *)
EXTENDS Registry, TLC

Alike == Permutations(Attempts) \cup Permutations(Nonces)
============================================================================
