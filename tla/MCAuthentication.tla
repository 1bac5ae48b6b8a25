-------------------------- MODULE MCAuthentication -------------------------
(***************************************************************************)
(* How a client comes in and is sent away, on small instances: the         *)
(* registry with its sessions and drains, and the limit on failed          *)
(* authentications that is asked before it.  The two share nothing and are *)
(* checked side by side: subject says which of them a behaviour is of, and *)
(* the other one rests in an initial state.                                *)
(***************************************************************************)
EXTENDS Registry, AbuseGuard, TLC

VARIABLE subject

\* The same values stand for the attempts and for the guard's callers.
Alike == Permutations(Attempts) \cup Permutations(Admins)
----------------------------------------------------------------------------
Both == <<subject, vars, guard_vars>>

BeginBoth ==
  /\ subject \in {"registry", "guard"}
  /\ Init /\ GuardInit
  /\ subject # "guard" => shards[1].keys = Addresses

\* With the clock and the sources of tokens at their bounds the registry may come to rest.
Steps ==
  \/ subject = "registry" /\ Next /\ UNCHANGED <<subject, guard_vars>>
  \/ subject = "guard" /\ GuardNext /\ UNCHANGED <<subject, vars>>

SpecBoth == BeginBoth /\ [][Steps]_Both
============================================================================
