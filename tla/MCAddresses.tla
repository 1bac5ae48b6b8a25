---------------------------- MODULE MCAddresses ----------------------------
(***************************************************************************)
(* The address pool and the flow table on small instances.  The two share  *)
(* nothing and are checked side by side: subject says which of them a      *)
(* behaviour is of, and the other one rests in an initial state.           *)
(***************************************************************************)
EXTENDS LeasePool, FlowTable, TLC

VARIABLES subject

OneHash == [f \in Flows |-> 1]

\* The same values stand for the clients and for the flows: one permutation serves both.
Alike == Permutations(Clients)
----------------------------------------------------------------------------
Both == <<subject, pool_vars, flow_vars>>

Begin ==
  /\ subject \in {"pool", "flows"}
  /\ Init /\ FlowInit
  /\ subject = "pool" => lanes = {0}

Steps ==
  \/ subject = "pool" /\ Next /\ UNCHANGED <<subject, flow_vars>>
  \/ subject = "flows" /\ FlowNext /\ UNCHANGED <<subject, pool_vars>>

SpecBoth == Begin /\ [][Steps]_Both
============================================================================
