----------------------------- MODULE FrontDoor ------------------------------
(***************************************************************************)
(* How connections are let in (porta-server/src/ops/admission.rs, the      *)
(* accept loops of server.rs and transport/http3.rs): the counters that    *)
(* bound them, the permit a connection holds, the QUIC retry, the one      *)
(* tunnel an HTTP/3 connection may carry, and the end of the QUIC          *)
(* listener.                                                               *)
(*                                                                         *)
(* Each listener admits one connection at a time, while the tasks of       *)
(* others verify and drop their permits.  Every access to an atomic        *)
(* counter, and every hold of a shard's lock, is a step.                   *)
(***************************************************************************)
EXTENDS Integers, FiniteSets

CONSTANTS Conns, Sources,
          Kinds,                     \* which transports the connections may use
          MaxGlobal, MaxPerSource, MaxUnverified, RetryThreshold,
          RetryBurst, SourceBurst,   \* of RetryController
          MaxRequests,               \* bound: requests of a QUIC connection at a time
          Nobody                     \* no connection, no source

ASSUME DoorAssumption ==
  /\ IsFiniteSet(Conns) /\ Kinds \subseteq [Conns -> {"tcp", "quic"}]
  /\ {MaxGlobal, MaxPerSource, MaxUnverified, RetryThreshold, RetryBurst, SourceBurst, MaxRequests} \subseteq Nat

VARIABLES kind,          \* the transport of each connection
          active_conns,  \* active_tcp, active_quic
          unverified,    \* unverified_quic
          sources,       \* tcp_sources, quic_sources
          retry,         \* tokens: of all sources, and of each
          conns,         \* where each connection is, and its permit
          busy,          \* the connection each accept loop is busy with
          stopping,      \* the shutdown token
          returned       \* serve_quinn has returned

counters == <<kind, active_conns, unverified, sources>>
door_vars == <<kind, active_conns, unverified, sources, retry, conns, busy, stopping, returned>>
Transports == {"tcp", "quic"}
----------------------------------------------------------------------------
(* source: where it comes from; token: it carries the token of a retry;     *)
(* verified, held: of its permit; slot: tunnel_active; tunnels, tasks: what *)
(* runs of its requests.                                                    *)
Away == [pc |-> "away", source |-> Nobody, token |-> FALSE, verified |-> FALSE, held |-> FALSE,
         slot |-> FALSE, tunnels |-> 0, tasks |-> 0]

DoorInit ==
  /\ kind \in Kinds
  /\ active_conns = [t \in Transports |-> 0] /\ unverified = 0
  /\ sources = [t \in Transports |-> [s \in Sources |-> 0]]
  /\ retry = [all |-> RetryBurst, of |-> [s \in Sources |-> SourceBurst]]
  /\ conns = [c \in Conns |-> Away]
  /\ busy = [t \in Transports |-> Nobody]
  /\ stopping = FALSE /\ returned = FALSE

At(c, pc) == conns[c].pc = pc
Goto(c, pc) == conns' = [conns EXCEPT ![c].pc = pc]
IsFree(t) == busy' = [busy EXCEPT ![t] = Nobody]
----------------------------------------------------------------------------
(* The listeners.  A connection that has to be retried comes back with a    *)
(* token, and may not be retried again.                                     *)
AcceptTcp(c, s) ==
  /\ ~stopping /\ kind[c] = "tcp" /\ At(c, "away") /\ busy["tcp"] = Nobody
  /\ conns' = [conns EXCEPT ![c].pc = "count", ![c].source = s, ![c].verified = TRUE]
  /\ busy' = [busy EXCEPT !["tcp"] = c]
  /\ UNCHANGED <<counters, retry, stopping, returned>>

(* should_retry: under pressure always, and else when the tokens are gone:  *)
(* one of either kind is taken while there is one.                          *)
Pressure == unverified >= RetryThreshold
should_retry(s) == Pressure \/ retry.all = 0 \/ retry.of[s] = 0
Taken(s) == IF Pressure THEN retry
            ELSE [all |-> IF retry.all > 0 THEN retry.all - 1 ELSE 0,
                  of |-> [retry.of EXCEPT ![s] = IF @ > 0 THEN @ - 1 ELSE 0]]

AcceptQuic(c, s) ==
  /\ ~stopping /\ kind[c] = "quic" /\ busy["quic"] = Nobody
  /\ \/ At(c, "away")
     \/ At(c, "retried") /\ conns[c].source = s
  /\ retry' = Taken(s)
  /\ IF should_retry(s) /\ ~conns[c].token
     THEN /\ conns' = [conns EXCEPT ![c].pc = "retried", ![c].source = s, ![c].token = TRUE]
          /\ UNCHANGED busy
     ELSE /\ conns' = [conns EXCEPT ![c].pc = "count", ![c].source = s]
          /\ busy' = [busy EXCEPT !["quic"] = c]
  /\ UNCHANGED <<counters, stopping, returned>>

(* refill_retry, for the bucket of all sources; a source's is not refilled. *)
Refill ==
  /\ retry.all < RetryBurst
  /\ retry' = [retry EXCEPT !.all = RetryBurst]
  /\ UNCHANGED <<counters, conns, busy, stopping, returned>>

(* A client gives up instead of coming back. *)
Forget(c) ==
  /\ At(c, "retried")
  /\ conns' = [conns EXCEPT ![c] = Away]
  /\ UNCHANGED <<counters, retry, busy, stopping, returned>>
----------------------------------------------------------------------------
(* admit. *)
CountActive(c) ==
  LET t == kind[c] IN
  /\ At(c, "count")
  /\ active_conns' = [active_conns EXCEPT ![t] = @ + 1]
  /\ Goto(c, CASE active_conns[t] >= MaxGlobal -> "uncount"
               [] active_conns[t] < MaxGlobal /\ t = "quic" -> "count unverified"
               [] OTHER -> "count source")
  /\ UNCHANGED <<kind, unverified, sources, retry, busy, stopping, returned>>

CountUnverified(c) ==
  /\ At(c, "count unverified")
  /\ unverified' = unverified + 1
  /\ IF unverified >= MaxUnverified THEN Goto(c, "uncount unverified") /\ UNCHANGED busy
     ELSE Goto(c, "handshake") /\ IsFree("quic")
  /\ UNCHANGED <<kind, active_conns, sources, retry, stopping, returned>>

UncountUnverified(c) ==
  /\ At(c, "uncount unverified")
  /\ unverified' = unverified - 1
  /\ Goto(c, "uncount")
  /\ UNCHANGED <<kind, active_conns, sources, retry, busy, stopping, returned>>

CountSource(c) ==
  LET s == conns[c].source IN
  /\ At(c, "count source")
  /\ IF sources["tcp"][s] >= MaxPerSource
     THEN Goto(c, "uncount") /\ UNCHANGED <<sources, busy>>
     ELSE /\ sources' = [sources EXCEPT !["tcp"][s] = @ + 1]
          /\ conns' = [conns EXCEPT ![c].pc = "handshake", ![c].held = TRUE]
          /\ IsFree("tcp")
  /\ UNCHANGED <<kind, active_conns, unverified, retry, stopping, returned>>

(* The connection is refused. *)
Uncount(c) ==
  /\ At(c, "uncount")
  /\ active_conns' = [active_conns EXCEPT ![kind[c]] = @ - 1]
  /\ conns' = [conns EXCEPT ![c] = Away]
  /\ IsFree(kind[c])
  /\ UNCHANGED <<kind, unverified, sources, retry, stopping, returned>>
----------------------------------------------------------------------------
(* The handshake fails or takes too long, or succeeds. *)
HandshakeFails(c) ==
  /\ At(c, "handshake")
  /\ Goto(c, "drop")
  /\ UNCHANGED <<counters, retry, busy, stopping, returned>>

HandshakeDone(c) ==
  /\ At(c, "handshake")
  /\ Goto(c, IF kind[c] = "tcp" THEN "serving" ELSE "verify")
  /\ UNCHANGED <<counters, retry, busy, stopping, returned>>

(* A mutant: the connection counts as verified before its source is looked at. *)
mark_verified_first(c) ==
  LET s == conns[c].source IN
  /\ At(c, "verify")
  /\ unverified' = unverified - 1
  /\ IF sources["quic"][s] >= MaxPerSource THEN Goto(c, "drop") /\ UNCHANGED sources
     ELSE /\ sources' = [sources EXCEPT !["quic"][s] = @ + 1]
          /\ conns' = [conns EXCEPT ![c].pc = "serving", ![c].verified = TRUE, ![c].held = TRUE]
  /\ UNCHANGED <<kind, active_conns, retry, busy, stopping, returned>>

(* mark_verified: the source is counted, and then the connection is no      *)
(* longer an unverified one; or it is closed, still unverified.             *)
mark_verified(c) ==
  LET s == conns[c].source IN
  /\ \/ /\ At(c, "verify") /\ sources["quic"][s] >= MaxPerSource
        /\ Goto(c, "drop") /\ UNCHANGED <<unverified, sources>>
     \/ /\ At(c, "verify") /\ sources["quic"][s] < MaxPerSource
        /\ sources' = [sources EXCEPT !["quic"][s] = @ + 1]
        /\ Goto(c, "verified") /\ UNCHANGED unverified
     \/ /\ At(c, "verified")
        /\ unverified' = unverified - 1
        /\ conns' = [conns EXCEPT ![c].pc = "serving", ![c].verified = TRUE, ![c].held = TRUE]
        /\ UNCHANGED sources
  /\ UNCHANGED <<kind, active_conns, retry, busy, stopping, returned>>
----------------------------------------------------------------------------
(* The requests of an HTTP/3 connection.  The second tunnel at a time is    *)
(* refused; the slot is free again when the tunnel's task ends.             *)
WebRequest(c) ==
  /\ kind[c] = "quic" /\ At(c, "serving") /\ conns[c].tasks < MaxRequests
  /\ conns' = [conns EXCEPT ![c].tasks = @ + 1]
  /\ UNCHANGED <<counters, retry, busy, stopping, returned>>

TunnelRequest(c) ==
  /\ kind[c] = "quic" /\ At(c, "serving") /\ conns[c].tasks < MaxRequests
  /\ conns' = [conns EXCEPT ![c].tasks = @ + 1, ![c].slot = TRUE,
                            ![c].tunnels = IF conns[c].slot THEN @ ELSE @ + 1]
  /\ UNCHANGED <<counters, retry, busy, stopping, returned>>

TunnelStops(c) ==
  /\ conns[c].tunnels > 0
  /\ conns' = [conns EXCEPT ![c].tunnels = @ - 1, ![c].tasks = @ - 1, ![c].slot = FALSE]
  /\ UNCHANGED <<counters, retry, busy, stopping, returned>>

RequestEnds(c) ==
  /\ conns[c].tasks > conns[c].tunnels
  /\ conns' = [conns EXCEPT ![c].tasks = @ - 1]
  /\ UNCHANGED <<counters, retry, busy, stopping, returned>>

(* A connection ends: the peer closes it or it is lost; on QUIC, its tasks  *)
(* are waited for.                                                          *)
ConnectionStops(c) ==
  /\ At(c, "serving")
  /\ Goto(c, IF kind[c] = "quic" THEN "waiting" ELSE "drop")
  /\ UNCHANGED <<counters, retry, busy, stopping, returned>>

TasksOver(c) ==
  /\ At(c, "waiting") /\ conns[c].tasks = 0
  /\ Goto(c, "drop")
  /\ UNCHANGED <<counters, retry, busy, stopping, returned>>

(* AdmissionPermit::drop. *)
Drop(c) ==
  LET t == kind[c] IN
  /\ \/ /\ At(c, "drop")
        /\ active_conns' = [active_conns EXCEPT ![t] = @ - 1]
        /\ Goto(c, "drop unverified") /\ UNCHANGED <<unverified, sources>>
     \/ /\ At(c, "drop unverified")
        /\ unverified' = IF t = "quic" /\ ~conns[c].verified THEN unverified - 1 ELSE unverified
        /\ Goto(c, "drop source") /\ UNCHANGED <<active_conns, sources>>
     \/ /\ At(c, "drop source")
        /\ sources' = IF conns[c].held THEN [sources EXCEPT ![t][conns[c].source] = @ - 1] ELSE sources
        /\ conns' = [conns EXCEPT ![c] = Away] /\ UNCHANGED <<active_conns, unverified>>
  /\ UNCHANGED <<kind, retry, busy, stopping, returned>>
----------------------------------------------------------------------------
(* Shutdown. *)
TokenCancelled ==
  /\ ~stopping /\ stopping' = TRUE
  /\ UNCHANGED <<counters, retry, conns, busy, returned>>

(* A mutant: the endpoint accepts no more, and its connections are left open. *)
CloseNothing(c) == FALSE /\ UNCHANGED door_vars

(* endpoint.close: what every QUIC connection waits for fails. *)
CloseEndpoint(c) ==
  /\ stopping /\ kind[c] = "quic"
  /\ \/ At(c, "handshake") /\ Goto(c, "drop")
     \/ At(c, "serving") /\ Goto(c, "waiting")
  /\ UNCHANGED <<counters, retry, busy, stopping, returned>>

(* Once the connection is closed its requests and its tunnel stop. *)
TasksStop(c) == At(c, "waiting") /\ (TunnelStops(c) \/ RequestEnds(c))

ServeQuinnReturns ==
  /\ stopping /\ ~returned /\ busy["quic"] = Nobody
  /\ \A c \in Conns : kind[c] = "quic" => conns[c].pc \in {"away", "retried"}
  /\ returned' = TRUE
  /\ UNCHANGED <<counters, retry, conns, busy, stopping>>
----------------------------------------------------------------------------
Admit(c) == CountActive(c) \/ CountUnverified(c) \/ UncountUnverified(c) \/ CountSource(c) \/ Uncount(c)

DoorNext ==
  \/ \E c \in Conns : \/ \E s \in Sources : AcceptTcp(c, s) \/ AcceptQuic(c, s)
                      \/ Forget(c) \/ Admit(c)
                      \/ HandshakeFails(c) \/ HandshakeDone(c) \/ mark_verified(c)
                      \/ WebRequest(c) \/ TunnelRequest(c) \/ TunnelStops(c) \/ RequestEnds(c)
                      \/ ConnectionStops(c) \/ TasksOver(c) \/ Drop(c) \/ CloseEndpoint(c)
  \/ Refill \/ TokenCancelled \/ ServeQuinnReturns

DoorSpec == DoorInit /\ [][DoorNext]_door_vars

(* Tasks run; a closed connection's streams fail, which ends its requests.  *)
Task(c, t) ==
  \/ t = "admit" /\ Admit(c)
  \/ t = "verify" /\ mark_verified(c)
  \/ t = "drop" /\ Drop(c)
  \/ t = "close" /\ CloseEndpoint(c)
  \/ t = "stop" /\ TasksStop(c)
  \/ t = "over" /\ TasksOver(c)

Tasks == {"admit", "verify", "drop", "close", "stop", "over"}

DoorFairSpec == /\ DoorSpec /\ WF_door_vars(ServeQuinnReturns)
                /\ \A c \in Conns, t \in Tasks : WF_door_vars(Task(c, t))
----------------------------------------------------------------------------
In(t, pcs) == {c \in Conns : kind[c] = t /\ conns[c].pc \in pcs}

(* Who has been let in, and who a counter of AdmissionController stands for. *)
Admitted == {"handshake", "verify", "verified", "serving", "waiting", "drop"}
Counting == Admitted \cup {"count unverified", "uncount unverified", "count source", "uncount"}
Holding(t, s) == {c \in Conns : /\ kind[c] = t /\ conns[c].source = s
                                /\ conns[c].held \/ conns[c].pc = "verified"}
Unverified == {c \in In("quic", {"handshake", "verify", "verified", "drop", "drop unverified"}) :
                 ~conns[c].verified}

Places == Counting \cup {"away", "retried", "count", "drop unverified", "drop source"}
ConnStates ==
  [pc : Places,
   source : Sources \cup {Nobody}, token : BOOLEAN, verified : BOOLEAN, held : BOOLEAN,
   slot : BOOLEAN, tunnels : Nat, tasks : Nat]

(* The types of the variables; no counter of AdmissionController wraps. *)
DoorTypes ==
  /\ kind \in [Conns -> Transports]
  /\ active_conns \in [Transports -> Nat] /\ unverified \in Nat
  /\ sources \in [Transports -> [Sources -> Nat]]
  /\ retry \in [all : Nat, of : [Sources -> Nat]]
  /\ conns \in [Conns -> ConnStates]
  /\ busy \in [Transports -> Conns \cup {Nobody}]
  /\ stopping \in BOOLEAN /\ returned \in BOOLEAN

(* However admissions, verifications and drops interleave: no more          *)
(* connections than the limits hold a permit, in all, unverified, and of    *)
(* one source; the counters are what the connections account for, so that a *)
(* refusal on any path, a failed handshake or a refused verification leaks  *)
(* nothing and takes nothing twice; and an HTTP/3 connection carries at     *)
(* most one tunnel, whose slot is taken exactly while it runs.              *)
AdmissionIsExact ==
  /\ DoorTypes
  /\ \A t \in Transports :
       /\ Cardinality(In(t, Admitted)) <= MaxGlobal
       /\ active_conns[t] = Cardinality(In(t, Counting))
       /\ \A s \in Sources : /\ Cardinality(Holding(t, s)) <= MaxPerSource
                             /\ sources[t][s] = Cardinality(Holding(t, s))
  /\ Cardinality(Unverified) <= MaxUnverified
  /\ unverified = Cardinality(Unverified \cup In("quic", {"uncount unverified"}))
  /\ \A c \in Conns : conns[c].tunnels <= 1 /\ (conns[c].slot <=> conns[c].tunnels = 1)

(* When the daemon stops, the QUIC listener's task returns: connections in  *)
(* a handshake, connections with requests and tunnels, and one that is just *)
(* being admitted are all brought to their end.                             *)
QuicListenerReturns == []<>(stopping => returned)
=============================================================================
