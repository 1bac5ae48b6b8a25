---------------------------- MODULE MCUsageStore ----------------------------
(* UsageStore on small instances. *)
EXTENDS UsageStore, TLC

Interchangeable == Permutations(Members) \cup Permutations(Devices)
============================================================================
