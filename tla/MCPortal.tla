------------------------------ MODULE MCPortal -----------------------------
(***************************************************************************)
(* The web portal and the counters of a usage session on small instances.  *)
(* They share nothing: subject says which of them a behaviour is of, and   *)
(* the other one rests in an initial state.                                *)
(***************************************************************************)
EXTENDS UsageCounters, Portal, TLC

VARIABLE subject

\* The same values stand for the requests and the threads that count.
Alike == Permutations(Requests)
----------------------------------------------------------------------------
Both == <<subject, vars, portal_vars>>

Begin ==
  /\ subject \in {"counters", "portal"}
  /\ Init /\ PortalInit

Steps ==
  \/ subject = "counters" /\ Next /\ UNCHANGED <<subject, portal_vars>>
  \/ subject = "portal" /\ PortalNext /\ UNCHANGED <<subject, vars>>

SpecBoth == Begin /\ [][Steps]_Both
============================================================================
