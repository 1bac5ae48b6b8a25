-------------------------- MODULE FrontDoorProofs --------------------------
(***************************************************************************)
(* The front door is sound for any number of requests, connections and     *)
(* addresses: the drain of requests (ops/shutdown.rs), the admission of    *)
(* connections (ops/admission.rs), the limit on failed authentications     *)
(* (ops/abuse.rs), the idle watch of an HTTP connection (server.rs), the   *)
(* CONNECT requests of the proxy (proxy/service.rs, proxy/dial.rs), and    *)
(* the relay of one.  The six share nothing but what is known of finite    *)
(* sets.                                                                   *)
(***************************************************************************)
EXTENDS Shutdown, FrontDoor, AbuseGuard, HttpConnection, ProxyConnect, ProxyRelay, SequenceTheorems, FiniteSums

(* The drain of requests.                                                  *)

CountedRequests == {r \in Requests : request[r] \in {"counted", "serving", "refused"}}

AfterStop ==
  {"cancel", "stopped", "wait", "look", "sleep", "tracker", "join", "registry", "router",
   "usage", "exited"}

(* active counts the requests between their two updates of it, and run()     *)
(* comes to wait() only after stop().                                        *)
CountInv == active = Cardinality(CountedRequests)

StopInv ==
  /\ main \in AfterStop => ~accepting
  /\ drained => main \in AfterStop

IInv == TypeOK /\ CountInv /\ StopInv /\ DrainedMeansQuiet /\ NoLostIdle
----------------------------------------------------------------------------
LEMMA FiniteCounted == IsFiniteSet(CountedRequests) /\ IsFiniteSet(CountedRequests')
  BY RequestsAssumption, FS_Subset DEF CountedRequests

(* A request that leaves was counted.                                        *)
LEMMA LeaverCounts ==
  ASSUME TypeOK, CountInv, NEW r \in Requests, Leave(r)
  PROVE  /\ active \in Nat /\ active # 0 /\ active' = active - 1
         /\ Cardinality(CountedRequests') = Cardinality(CountedRequests) - 1
<1>1. r \in CountedRequests /\ CountedRequests' = CountedRequests \ {r}
  BY DEF Leave, Moves, CountedRequests, TypeOK
<1>2. Cardinality(CountedRequests') = Cardinality(CountedRequests) - 1 /\ Cardinality(CountedRequests) # 0
  BY <1>1, FiniteCounted, FS_RemoveElement, FS_EmptySet
<1> QED
  BY <1>2 DEF CountInv, TypeOK, Leave

LEMMA InitIInv == Init => IInv
<1> SUFFICES ASSUME Init PROVE IInv
  OBVIOUS
<1>1. CountedRequests = {}
  BY DEF Init, CountedRequests
<1>2. CountInv
  BY <1>1, FS_EmptySet DEF Init, CountInv
<1> QED
  BY <1>2 DEF Init, IInv, TypeOK, StopInv, DrainedMeansQuiet, NoLostIdle, AfterStop

LEMMA NextIInv == IInv /\ [Next]_vars => IInv'
<1> SUFFICES ASSUME IInv, [Next]_vars PROVE IInv'
  OBVIOUS
<1>0. TypeOK /\ CountInv /\ StopInv /\ DrainedMeansQuiet /\ NoLostIdle
  BY DEF IInv
<1> USE DEF tasks, MainGoes, Moves, notify_waiters
<1>1. ASSUME NEW r \in Requests, FirstLook(r) PROVE IInv'
  <2>1. CountedRequests' = CountedRequests
    BY <1>0, <1>1 DEF FirstLook, CountedRequests, TypeOK
  <2> QED
    BY <1>0, <1>1, <2>1 DEF FirstLook, IInv, TypeOK, CountInv, StopInv, DrainedMeansQuiet, NoLostIdle
<1>2. ASSUME NEW r \in Requests, Count(r) PROVE IInv'
  <2>1. r \notin CountedRequests /\ CountedRequests' = CountedRequests \cup {r}
    BY <1>0, <1>2 DEF Count, CountedRequests, TypeOK
  <2>2. CountInv'
    BY <1>0, <1>2, <2>1, FiniteCounted, FS_AddElement DEF Count, CountInv
  <2> QED
    BY <1>0, <1>2, <2>2 DEF Count, IInv, TypeOK, StopInv, DrainedMeansQuiet, NoLostIdle
<1>3. ASSUME NEW r \in Requests, SecondLook(r) PROVE IInv'
  <2>1. CountedRequests' = CountedRequests
    BY <1>0, <1>3 DEF SecondLook, CountedRequests, TypeOK
  <2> QED
    BY <1>0, <1>3, <2>1 DEF SecondLook, IInv, TypeOK, CountInv, StopInv, DrainedMeansQuiet, NoLostIdle
<1>4. ASSUME NEW r \in Requests, Leave(r) PROVE IInv'
  <2>1. /\ active \in Nat /\ active # 0 /\ active' = active - 1
        /\ Cardinality(CountedRequests') = Cardinality(CountedRequests) - 1
    BY <1>0, <1>4, LeaverCounts
  <2>2. TypeOK' /\ CountInv' /\ StopInv' /\ DrainedMeansQuiet'
    BY <1>0, <1>4, <2>1 DEF Leave, TypeOK, CountInv, StopInv, DrainedMeansQuiet
  <2>3. NoLostIdle'
    <3>1. CASE active = 1
      BY <1>0, <1>4, <3>1 DEF Leave, TypeOK, NoLostIdle
    <3>2. CASE active # 1
      BY <1>4, <2>1, <3>2 DEF Leave, NoLostIdle
    <3> QED BY <3>1, <3>2
  <2> QED
    BY <2>2, <2>3 DEF IInv
<1>5. ASSUME NEW r \in Requests, LastNotifies(r) PROVE IInv'
  <2>1. CountedRequests' = CountedRequests
    BY <1>0, <1>5 DEF LastNotifies, CountedRequests, TypeOK
  <2> QED
    BY <1>0, <1>5, <2>1 DEF LastNotifies, IInv, TypeOK, CountInv, StopInv, DrainedMeansQuiet, NoLostIdle
<1>6. ASSUME UNCHANGED <<accepting, active, cancelled, waiter, request, main, drained>>,
             listener' \in {"open", "returned"},
             connection' \in [Connections -> {"none", "open", "ended"}]
      PROVE  IInv'
  BY <1>0, <1>6 DEF IInv, TypeOK, CountInv, CountedRequests, StopInv, DrainedMeansQuiet, NoLostIdle
<1>7. ASSUME NEW c \in Connections, Connecting(c) PROVE IInv'
  <2>1. CASE Accept(c)
    <3>1. connection' \in [Connections -> {"none", "open", "ended"}]
      BY <1>0, <2>1 DEF Accept, TypeOK
    <3>2. listener' \in {"open", "returned"}
      BY <1>0, <2>1 DEF Accept, TypeOK
    <3> QED BY <1>6, <2>1, <3>1, <3>2 DEF Accept
  <2>2. CASE ConnectionEnds(c)
    <3>1. connection' \in [Connections -> {"none", "open", "ended"}]
      BY <1>0, <2>2 DEF ConnectionEnds, TypeOK
    <3>2. listener' \in {"open", "returned"}
      BY <1>0, <2>2 DEF ConnectionEnds, TypeOK
    <3> QED BY <1>6, <2>2, <3>1, <3>2 DEF ConnectionEnds
  <2> QED BY <1>7, <2>1, <2>2 DEF Connecting
<1>8. CASE ListenerReturns \/ ListenerFails
  BY <1>0, <1>6, <1>8 DEF ListenerReturns, ListenerFails, TypeOK
<1>9. CASE RunEnds
  BY <1>0, <1>9 DEF RunEnds, IInv, TypeOK, CountInv, CountedRequests, StopInv, DrainedMeansQuiet, NoLostIdle, AfterStop
<1>10. CASE Stop \/ StopCancels \/ StopNotifies \/ WaitArms
  <2>1. CountInv'
    BY <1>0, <1>10 DEF Stop, StopCancels, StopNotifies, WaitArms, CountInv, CountedRequests
  <2>2. DrainedMeansQuiet' /\ NoLostIdle'
    BY <1>0, <1>10 DEF Stop, StopCancels, StopNotifies, WaitArms, DrainedMeansQuiet, NoLostIdle
  <2>3. CASE Stop
    BY <1>0, <2>1, <2>2, <2>3 DEF Stop, IInv, TypeOK, StopInv, AfterStop
  <2>4. CASE StopCancels
    BY <1>0, <2>1, <2>2, <2>4 DEF StopCancels, IInv, TypeOK, StopInv, AfterStop
  <2>5. CASE StopNotifies
    BY <1>0, <2>1, <2>2, <2>5 DEF StopNotifies, IInv, TypeOK, StopInv, AfterStop
  <2>6. CASE WaitArms
    BY <1>0, <2>1, <2>2, <2>6 DEF WaitArms, IInv, TypeOK, StopInv, AfterStop
  <2> QED
    BY <1>10, <2>3, <2>4, <2>5, <2>6
<1>11. CASE WaitLooks
  <2>1. active = 0 => CountedRequests = {}
    BY <1>0, FiniteCounted, FS_EmptySet DEF CountInv
  <2>2. TypeOK' /\ StopInv'
    BY <1>0, <1>11 DEF WaitLooks, TypeOK, StopInv, AfterStop
  <2>3. CountInv'
    BY <1>0, <1>11 DEF WaitLooks, CountInv, CountedRequests
  <2>4. DrainedMeansQuiet'
    BY <1>11, <2>1 DEF WaitLooks, DrainedMeansQuiet, CountedRequests
  <2>5. NoLostIdle'
    BY <1>0, <1>11 DEF WaitLooks, NoLostIdle, TypeOK
  <2> QED
    BY <2>2, <2>3, <2>4, <2>5 DEF IInv
<1>12. CASE WaitWakes \/ WaitTimesOut \/ TrackerEmpty \/ TrackerTimesOut
  BY <1>0, <1>12 DEF WaitWakes, WaitTimesOut, TrackerEmpty, TrackerTimesOut, IInv, TypeOK, CountInv,
     CountedRequests, StopInv, DrainedMeansQuiet, NoLostIdle, AfterStop
<1>13. CASE JoinListeners \/ CloseRegistry \/ JoinRouter \/ JoinUsage
  BY <1>0, <1>13 DEF JoinListeners, CloseRegistry, JoinRouter, JoinUsage, IInv, TypeOK, CountInv,
     CountedRequests, StopInv, DrainedMeansQuiet, NoLostIdle, AfterStop
<1>14. CASE UNCHANGED vars
  BY <1>0, <1>6, <1>14 DEF vars, TypeOK
<1> QED
  BY <1>1, <1>2, <1>3, <1>4, <1>5, <1>7, <1>8, <1>9, <1>10, <1>11, <1>12, <1>13, <1>14
     DEF Next, Request, Main
----------------------------------------------------------------------------
(* For any number of requests, when Drain::wait has returned true to run()   *)
(* no handler runs, and none ever will.                                      *)
THEOREM DrainIsSound == Spec => []DrainedMeansQuiet
<1>1. IInv => DrainedMeansQuiet
  BY DEF IInv
<1> QED
  BY <1>1, InitIInv, NextIInv, PTL DEF Spec

(* For any number of requests, Drain::wait never sleeps on an idle server    *)
(* that nobody will report.                                                  *)
THEOREM NoIdleIsLost == Spec => []NoLostIdle
<1>1. IInv => NoLostIdle
  BY DEF IInv
<1> QED
  BY <1>1, InitIInv, NextIInv, PTL DEF Spec

(* The drain that main() relies on is exact: neither early nor forgotten. *)
THEOREM DrainsAreExact == Spec => []DrainIsExact
<1>1. DrainedMeansQuiet /\ NoLostIdle => DrainIsExact
  BY DEF DrainIsExact
<1> QED
  BY <1>1, DrainIsSound, NoIdleIsLost, PTL
----------------------------------------------------------------------------
(* The admission of connections: one step moves one connection, and the     *)
(* counters by what that connection accounts for.                           *)

(* Where a connection is says what its permit and its requests can be.      *)
Outside == {"away", "retried", "count", "count unverified", "uncount unverified", "count source",
            "uncount"}
ConnOK(k, r) ==
  /\ r.pc \in Outside => ~r.held
  /\ r.pc # "away" => r.source \in Sources
  /\ r.pc = "count source" => k = "tcp"
  /\ r.pc \in {"count unverified", "uncount unverified", "verify", "verified", "waiting"} => k = "quic"
  /\ k = "quic" /\ r.pc \in Outside \cup {"handshake", "verify", "verified"} => ~r.held /\ ~r.verified
  /\ k = "quic" /\ r.pc \in {"serving", "waiting"} => r.verified
  /\ r.tasks > 0 => r.pc \in {"serving", "waiting"} /\ k = "quic"
  /\ r.tunnels <= r.tasks /\ r.tunnels <= 1 /\ (r.slot <=> r.tunnels = 1)

(* Who has passed the comparison with MaxGlobal. *)
Passed == Counting \ {"uncount"}
Uncounted == Unverified \cup In("quic", {"uncount unverified"})

CountersFit ==
  /\ \A t \in Transports :
       /\ active_conns[t] = Cardinality(In(t, Counting)) /\ Cardinality(In(t, Passed)) <= MaxGlobal
       /\ \A s \in Sources : /\ Cardinality(Holding(t, s)) <= MaxPerSource
                             /\ sources[t][s] = Cardinality(Holding(t, s))
  /\ Cardinality(Unverified) <= MaxUnverified /\ unverified = Cardinality(Uncounted)

DoorInv == DoorTypes /\ (\A c \in Conns : ConnOK(kind[c], conns[c])) /\ CountersFit
----------------------------------------------------------------------------
Bit(b) == IF b THEN 1 ELSE 0

(* Sets of connections that differ in one connection only. *)
LEMMA OneMoves ==
  ASSUME NEW S \in SUBSET Conns, NEW T \in SUBSET Conns, NEW c \in Conns, S \ {c} = T \ {c}
  PROVE  /\ Cardinality(S) \in Nat /\ Cardinality(T) \in Nat
         /\ Cardinality(T) = Cardinality(S) + Bit(c \in T) - Bit(c \in S)
<1>1. IsFiniteSet(S) /\ IsFiniteSet(T)  BY DoorAssumption, FS_Subset
<1>2. Cardinality(S) \in Nat /\ Cardinality(T) \in Nat  BY <1>1, FS_CardinalityType
<1>3. Cardinality(S \ {c}) = Cardinality(S) - Bit(c \in S)
  <2>1. CASE c \in S  BY <2>1, <1>1, <1>2, FS_RemoveElement DEF Bit
  <2>2. CASE c \notin S
    <3>1. S \ {c} = S  BY <2>2
    <3>2. Bit(c \in S) = 0  BY <2>2 DEF Bit
    <3> QED BY <3>1, <3>2, <1>2
  <2> QED BY <2>1, <2>2
<1>4. Cardinality(T \ {c}) = Cardinality(T) - Bit(c \in T)
  <2>1. CASE c \in T  BY <2>1, <1>1, <1>2, FS_RemoveElement DEF Bit
  <2>2. CASE c \notin T
    <3>1. T \ {c} = T  BY <2>2
    <3>2. Bit(c \in T) = 0  BY <2>2 DEF Bit
    <3> QED BY <3>1, <3>2, <1>2
  <2> QED BY <2>1, <2>2
<1> QED BY <1>2, <1>3, <1>4 DEF Bit

(* What one connection accounts for. *)
Counts(t, c) == kind[c] = t /\ conns[c].pc \in Counting
Passes(t, c) == kind[c] = t /\ conns[c].pc \in Passed
Holds(t, s, c) == kind[c] = t /\ conns[c].source = s /\ (conns[c].held \/ conns[c].pc = "verified")
Waits(c) == /\ kind[c] = "quic" /\ ~conns[c].verified
            /\ conns[c].pc \in {"handshake", "verify", "verified", "drop", "drop unverified"}
Unsettled(c) == Waits(c) \/ (kind[c] = "quic" /\ conns[c].pc = "uncount unverified")

(* A step that moves one connection and changes the counters by what that   *)
(* connection accounts for.                                                 *)
OneConnMoves(c) ==
  /\ kind' = kind /\ conns' = [d \in Conns |-> IF d = c THEN conns'[c] ELSE conns[d]]
  /\ conns'[c] \in ConnStates /\ ConnOK(kind[c], conns'[c])
ActiveFollows(c) ==
  /\ active_conns' \in [Transports -> Int]
  /\ \A t \in Transports :
       active_conns'[t] = active_conns[t] + Bit(Counts(t, c)') - Bit(Counts(t, c))
SourcesFollow(c) ==
  /\ sources' \in [Transports -> [Sources -> Int]]
  /\ \A t \in Transports, s \in Sources :
       sources'[t][s] = sources[t][s] + Bit(Holds(t, s, c)') - Bit(Holds(t, s, c))
UnverifiedFollows(c) == unverified' = unverified + Bit(Unsettled(c)') - Bit(Unsettled(c))
CountersFollow(c) == ActiveFollows(c) /\ SourcesFollow(c) /\ UnverifiedFollows(c)
KeepsLimits(c) ==
  /\ \A t \in Transports :
       /\ Passes(t, c)' => Passes(t, c) \/ active_conns[t] < MaxGlobal
       /\ \A s \in Sources : Holds(t, s, c)' => Holds(t, s, c) \/ sources[t][s] < MaxPerSource
  /\ Waits(c)' => Waits(c) \/ unverified < MaxUnverified
RestTyped ==
  /\ retry' \in [all : Nat, of : [Sources -> Nat]]
  /\ busy' \in [Transports -> Conns \cup {Nobody}]
  /\ stopping' \in BOOLEAN /\ returned' \in BOOLEAN

(* A connection as the invariant has it. *)
LEMMA ConnFacts ==
  ASSUME DoorInv, NEW c \in Conns
  PROVE  /\ conns \in [Conns -> ConnStates] /\ conns[c] \in ConnStates
         /\ kind[c] \in Transports /\ ConnOK(kind[c], conns[c])
BY DEF DoorInv, DoorTypes

LEMMA MoveKeeps ==
  ASSUME DoorInv, NEW c \in Conns, OneConnMoves(c), CountersFollow(c), KeepsLimits(c), RestTyped
  PROVE  DoorInv'
<1>1. kind' \in [Conns -> Transports] /\ kind' = kind /\ conns' \in [Conns -> ConnStates]
  BY ConnFacts DEF DoorInv, DoorTypes, OneConnMoves
<1>2. \A d \in Conns : ConnOK(kind[d], conns[d])'
  BY <1>1 DEF DoorInv, OneConnMoves
<1>3. MaxGlobal \in Nat /\ MaxPerSource \in Nat /\ MaxUnverified \in Nat  BY DoorAssumption
<1>4. ASSUME NEW t \in Transports
      PROVE  /\ active_conns'[t] = Cardinality(In(t, Counting)') /\ active_conns'[t] \in Nat
             /\ Cardinality(In(t, Passed)') <= MaxGlobal
  <2>1. Cardinality(In(t, Counting)') = Cardinality(In(t, Counting)) + Bit(Counts(t, c)') - Bit(Counts(t, c))
        /\ Cardinality(In(t, Counting)') \in Nat /\ Cardinality(In(t, Counting)) \in Nat
    <3>1. In(t, Counting)' \ {c} = In(t, Counting) \ {c}  BY <1>1 DEF In, OneConnMoves
    <3>2. In(t, Counting)' \in SUBSET Conns /\ In(t, Counting) \in SUBSET Conns  BY DEF In
    <3>3. (c \in In(t, Counting)') = (Counts(t, c)') /\ (c \in In(t, Counting)) = Counts(t, c)
      BY DEF In, Counts
    <3> QED BY <3>1, <3>2, <3>3, OneMoves
  <2>2. Cardinality(In(t, Passed)') = Cardinality(In(t, Passed)) + Bit(Passes(t, c)') - Bit(Passes(t, c))
        /\ Cardinality(In(t, Passed)') \in Nat /\ Cardinality(In(t, Passed)) \in Nat
    <3>1. In(t, Passed)' \ {c} = In(t, Passed) \ {c}  BY <1>1 DEF In, OneConnMoves
    <3>2. In(t, Passed)' \in SUBSET Conns /\ In(t, Passed) \in SUBSET Conns  BY DEF In
    <3>3. (c \in In(t, Passed)') = (Passes(t, c)') /\ (c \in In(t, Passed)) = Passes(t, c)
      BY DEF In, Passes
    <3> QED BY <3>1, <3>2, <3>3, OneMoves
  <2>3. Cardinality(In(t, Passed)) <= Cardinality(In(t, Counting))
    <3>1. In(t, Passed) \subseteq In(t, Counting) /\ In(t, Counting) \subseteq Conns  BY DEF In, Passed
    <3>2. IsFiniteSet(In(t, Counting))  BY <3>1, DoorAssumption, FS_Subset
    <3> QED BY <3>1, <3>2, FS_Subset
  <2>4. active_conns'[t] = active_conns[t] + Bit(Counts(t, c)') - Bit(Counts(t, c))  BY DEF CountersFollow, ActiveFollows
  <2>5. active_conns[t] = Cardinality(In(t, Counting)) /\ Cardinality(In(t, Passed)) <= MaxGlobal
    BY DEF DoorInv, CountersFit
  <2>6. Passes(t, c)' => Passes(t, c) \/ active_conns[t] < MaxGlobal  BY DEF KeepsLimits
  <2>7. /\ Bit(Passes(t, c)') - Bit(Passes(t, c)) <= 0 \/ active_conns[t] < MaxGlobal
        /\ Bit(Passes(t, c)') - Bit(Passes(t, c)) <= 1
    BY <2>6 DEF Bit
  <2>8. Bit(Passes(t, c)') \in Int /\ Bit(Passes(t, c)) \in Int  BY DEF Bit
  <2>9. Cardinality(In(t, Passed)') <= MaxGlobal  BY <2>1, <2>2, <2>3, <2>5, <2>7, <2>8, <1>3
  <2> QED BY <2>1, <2>4, <2>5, <2>9
<1>5. ASSUME NEW t \in Transports, NEW s \in Sources
      PROVE  /\ sources'[t][s] = Cardinality(Holding(t, s)') /\ sources'[t][s] \in Nat
             /\ Cardinality(Holding(t, s)') <= MaxPerSource
  <2>1. Cardinality(Holding(t, s)') = Cardinality(Holding(t, s)) + Bit(Holds(t, s, c)') - Bit(Holds(t, s, c))
        /\ Cardinality(Holding(t, s)') \in Nat /\ Cardinality(Holding(t, s)) \in Nat
    <3>1. Holding(t, s)' \ {c} = Holding(t, s) \ {c}  BY <1>1 DEF Holding, OneConnMoves
    <3>2. Holding(t, s)' \in SUBSET Conns /\ Holding(t, s) \in SUBSET Conns  BY DEF Holding
    <3>3. (c \in Holding(t, s)') = (Holds(t, s, c)') /\ (c \in Holding(t, s)) = Holds(t, s, c)
      BY DEF Holding, Holds
    <3> QED BY <3>1, <3>2, <3>3, OneMoves
  <2>4. sources'[t][s] = sources[t][s] + Bit(Holds(t, s, c)') - Bit(Holds(t, s, c))  BY DEF CountersFollow, SourcesFollow
  <2>5. sources[t][s] = Cardinality(Holding(t, s)) /\ Cardinality(Holding(t, s)) <= MaxPerSource
    BY DEF DoorInv, CountersFit
  <2>6. Holds(t, s, c)' => Holds(t, s, c) \/ sources[t][s] < MaxPerSource  BY DEF KeepsLimits
  <2>7. /\ Bit(Holds(t, s, c)') - Bit(Holds(t, s, c)) <= 0 \/ sources[t][s] < MaxPerSource
        /\ Bit(Holds(t, s, c)') - Bit(Holds(t, s, c)) <= 1
    BY <2>6 DEF Bit
  <2>8. Bit(Holds(t, s, c)') \in Int /\ Bit(Holds(t, s, c)) \in Int  BY DEF Bit
  <2>9. Cardinality(Holding(t, s)') <= MaxPerSource  BY <2>1, <2>5, <2>7, <2>8, <1>3
  <2> QED BY <2>1, <2>4, <2>5, <2>9
<1>6. unverified' = Cardinality(Uncounted') /\ unverified' \in Nat /\ Cardinality(Unverified') <= MaxUnverified
  <2>1. Cardinality(Uncounted') = Cardinality(Uncounted) + Bit(Unsettled(c)') - Bit(Unsettled(c))
        /\ Cardinality(Uncounted') \in Nat /\ Cardinality(Uncounted) \in Nat
    <3>1. Uncounted' \ {c} = Uncounted \ {c}  BY <1>1 DEF Uncounted, Unverified, In, OneConnMoves
    <3>2. Uncounted' \in SUBSET Conns /\ Uncounted \in SUBSET Conns  BY DEF Uncounted, Unverified, In
    <3>3. Bit(c \in Uncounted') = Bit(Unsettled(c)') /\ Bit(c \in Uncounted) = Bit(Unsettled(c))
      <4>1. c \in Uncounted' <=> Unsettled(c)'  BY DEF Uncounted, Unverified, In, Unsettled, Waits
      <4>2. c \in Uncounted <=> Unsettled(c)  BY DEF Uncounted, Unverified, In, Unsettled, Waits
      <4> QED BY <4>1, <4>2 DEF Bit
    <3> QED BY <3>1, <3>2, <3>3, OneMoves
  <2>2. Cardinality(Unverified') = Cardinality(Unverified) + Bit(Waits(c)') - Bit(Waits(c))
        /\ Cardinality(Unverified') \in Nat /\ Cardinality(Unverified) \in Nat
    <3>1. Unverified' \ {c} = Unverified \ {c}  BY <1>1 DEF Unverified, In, OneConnMoves
    <3>2. Unverified' \in SUBSET Conns /\ Unverified \in SUBSET Conns  BY DEF Unverified, In
    <3>3. Bit(c \in Unverified') = Bit(Waits(c)') /\ Bit(c \in Unverified) = Bit(Waits(c))
      <4>1. c \in Unverified' <=> Waits(c)'  BY DEF Unverified, In, Waits
      <4>2. c \in Unverified <=> Waits(c)  BY DEF Unverified, In, Waits
      <4> QED BY <4>1, <4>2 DEF Bit
    <3> QED BY <3>1, <3>2, <3>3, OneMoves
  <2>3. Cardinality(Unverified) <= Cardinality(Uncounted)
    <3>1. Unverified \subseteq Uncounted /\ Uncounted \subseteq Conns  BY DEF Uncounted, Unverified, In
    <3>2. IsFiniteSet(Uncounted)  BY <3>1, DoorAssumption, FS_Subset
    <3> QED BY <3>1, <3>2, FS_Subset
  <2>4. unverified' = unverified + Bit(Unsettled(c)') - Bit(Unsettled(c))  BY DEF CountersFollow, UnverifiedFollows
  <2>5. unverified = Cardinality(Uncounted) /\ Cardinality(Unverified) <= MaxUnverified
    BY DEF DoorInv, CountersFit
  <2>6. Waits(c)' => Waits(c) \/ unverified < MaxUnverified  BY DEF KeepsLimits
  <2>7. /\ Bit(Waits(c)') - Bit(Waits(c)) <= 0 \/ unverified < MaxUnverified
        /\ Bit(Waits(c)') - Bit(Waits(c)) <= 1
    BY <2>6 DEF Bit
  <2>8. Bit(Waits(c)') \in Int /\ Bit(Waits(c)) \in Int  BY DEF Bit
  <2>9. Cardinality(Unverified') <= MaxUnverified  BY <2>1, <2>2, <2>3, <2>5, <2>7, <2>8, <1>3
  <2> QED BY <2>1, <2>4, <2>5, <2>9
<1>7. DoorTypes'
  <2>1. active_conns' \in [Transports -> Nat]  BY <1>4 DEF CountersFollow, ActiveFollows
  <2>2. sources' \in [Transports -> [Sources -> Nat]]
    <3>1. sources' \in [Transports -> [Sources -> Int]]  BY DEF CountersFollow, SourcesFollow
    <3>2. \A t \in Transports, s \in Sources : sources'[t][s] \in Nat  BY <1>5
    <3>3. \A t \in Transports : sources'[t] \in [Sources -> Nat]  BY <3>1, <3>2
    <3> QED BY <3>1, <3>3
  <2> QED BY <1>1, <1>6, <2>1, <2>2 DEF DoorTypes, RestTyped
<1>8. CountersFit'
  BY <1>4, <1>5, <1>6 DEF CountersFit
<1> QED BY <1>1, <1>2, <1>7, <1>8 DEF DoorInv
----------------------------------------------------------------------------
(* A counter that stays, for a connection it still stands for or still does *)
(* not.                                                                     *)
LEMMA ActiveStays ==
  ASSUME DoorInv, NEW c \in Conns, kind' = kind, active_conns' = active_conns,
         conns[c].pc \in Counting <=> conns'[c].pc \in Counting
  PROVE  ActiveFollows(c)
<1>1. \A t \in Transports : Bit(Counts(t, c)') = Bit(Counts(t, c)) /\ Bit(Counts(t, c)) \in Int
  BY DEF Counts, Bit
<1>2. active_conns \in [Transports -> Int]  BY DEF DoorInv, DoorTypes
<1>3. \A t \in Transports : active_conns[t] \in Int  BY <1>2
<1> QED BY <1>1, <1>2, <1>3 DEF ActiveFollows

LEMMA SourcesStay ==
  ASSUME DoorInv, NEW c \in Conns, kind' = kind, sources' = sources,
         \A s \in Sources : Holds(kind[c], s, c)' <=> Holds(kind[c], s, c)
  PROVE  SourcesFollow(c)
<1>1. \A t \in Transports, s \in Sources : Holds(t, s, c)' <=> Holds(t, s, c)  BY DEF Holds
<1>2. \A t \in Transports, s \in Sources :
        Bit(Holds(t, s, c)') = Bit(Holds(t, s, c)) /\ Bit(Holds(t, s, c)) \in Int
  BY <1>1 DEF Bit
<1>3. sources \in [Transports -> [Sources -> Int]]  BY DEF DoorInv, DoorTypes
<1>4. \A t \in Transports, s \in Sources : sources[t][s] \in Int  BY <1>3
<1> QED BY <1>2, <1>3, <1>4 DEF SourcesFollow

LEMMA UnverifiedStays ==
  ASSUME DoorInv, NEW c \in Conns, unverified' = unverified, Unsettled(c)' <=> Unsettled(c)
  PROVE  UnverifiedFollows(c)
<1>1. Bit(Unsettled(c)') = Bit(Unsettled(c)) /\ Bit(Unsettled(c)) \in Int  BY DEF Bit
<1>2. unverified \in Int  BY DEF DoorInv, DoorTypes
<1> QED BY <1>1, <1>2 DEF UnverifiedFollows

(* A counter that goes up for a connection it did not stand for, or down    *)
(* for one that it stood for.                                               *)
LEMMA ActiveMoves ==
  ASSUME DoorInv, NEW c \in Conns, kind' = kind,
         \/ /\ active_conns' = [active_conns EXCEPT ![kind[c]] = @ + 1]
            /\ conns[c].pc \notin Counting /\ conns'[c].pc \in Counting
         \/ /\ active_conns' = [active_conns EXCEPT ![kind[c]] = @ - 1]
            /\ conns[c].pc \in Counting /\ conns'[c].pc \notin Counting
  PROVE  ActiveFollows(c)
<1>1. active_conns \in [Transports -> Int] /\ kind[c] \in Transports  BY DEF DoorInv, DoorTypes
<1>2. active_conns' \in [Transports -> Int]  BY <1>1
<1>3. ASSUME NEW t \in Transports
      PROVE  active_conns'[t] = active_conns[t] + Bit(Counts(t, c)') - Bit(Counts(t, c))
  <2>1. active_conns[t] \in Int  BY <1>1
  <2> QED BY <1>1, <2>1 DEF Counts, Bit
<1> QED BY <1>2, <1>3 DEF ActiveFollows

LEMMA SourcesMove ==
  ASSUME DoorInv, NEW c \in Conns, NEW src \in Sources, kind' = kind,
         \/ /\ sources' = [sources EXCEPT ![kind[c]][src] = @ + 1]
            /\ \A s \in Sources : ~Holds(kind[c], s, c) /\ (Holds(kind[c], s, c)' <=> s = src)
         \/ /\ sources' = [sources EXCEPT ![kind[c]][src] = @ - 1]
            /\ \A s \in Sources : ~Holds(kind[c], s, c)' /\ (Holds(kind[c], s, c) <=> s = src)
  PROVE  SourcesFollow(c)
<1>1. sources \in [Transports -> [Sources -> Int]] /\ kind[c] \in Transports  BY DEF DoorInv, DoorTypes
<1>2. \A t \in Transports, s \in Sources : sources[t][s] \in Int  BY <1>1
<1>3. sources' \in [Transports -> [Sources -> Int]]  BY <1>1, <1>2
<1>4. ASSUME NEW t \in Transports, NEW s \in Sources
      PROVE  sources'[t][s] = sources[t][s] + Bit(Holds(t, s, c)') - Bit(Holds(t, s, c))
  <2>1. CASE t = kind[c] /\ s = src
    <3>1. \/ sources'[t][s] = sources[t][s] + 1 /\ Holds(t, s, c)' /\ ~Holds(t, s, c)
          \/ sources'[t][s] = sources[t][s] - 1 /\ Holds(t, s, c) /\ ~Holds(t, s, c)'
      BY <2>1, <1>1
    <3> QED BY <3>1, <1>2 DEF Bit
  <2>2. CASE ~(t = kind[c] /\ s = src)
    <3>1. sources'[t][s] = sources[t][s]  BY <2>2, <1>1
    <3>2. ~Holds(t, s, c)' /\ ~Holds(t, s, c)
      <4>1. CASE t = kind[c]  BY <2>2, <4>1
      <4>2. CASE t # kind[c]  BY <4>2 DEF Holds
      <4> QED BY <4>1, <4>2
    <3> QED BY <3>1, <3>2, <1>2 DEF Bit
  <2> QED BY <2>1, <2>2
<1> QED BY <1>3, <1>4 DEF SourcesFollow

LEMMA UnverifiedMoves ==
  ASSUME DoorInv, NEW c \in Conns,
         \/ unverified' = unverified + 1 /\ ~Unsettled(c) /\ Unsettled(c)'
         \/ unverified' = unverified - 1 /\ Unsettled(c) /\ ~Unsettled(c)'
  PROVE  UnverifiedFollows(c)
<1>1. unverified \in Int  BY DEF DoorInv, DoorTypes
<1> QED BY <1>1 DEF UnverifiedFollows, Bit

(* A step that moves one connection and no counter: what the connection     *)
(* accounts for stays the same.                                             *)
LEMMA QuietMoveKeeps ==
  ASSUME DoorInv, NEW c \in Conns, OneConnMoves(c), RestTyped, UNCHANGED counters,
         conns[c].pc \in Counting <=> conns'[c].pc \in Counting,
         conns'[c].pc \in Passed => conns[c].pc \in Passed,
         \A s \in Sources : Holds(kind[c], s, c)' <=> Holds(kind[c], s, c),
         Unsettled(c)' <=> Unsettled(c), Waits(c)' => Waits(c)
  PROVE  DoorInv'
<1>1. kind' = kind /\ active_conns' = active_conns /\ sources' = sources /\ unverified' = unverified
  BY DEF counters
<1>2. CountersFollow(c)  BY <1>1, ActiveStays, SourcesStay, UnverifiedStays DEF CountersFollow
<1>3. KeepsLimits(c)
  <2>1. \A t \in Transports : Passes(t, c)' => Passes(t, c)  BY <1>1 DEF Passes
  <2>2. \A t \in Transports, s \in Sources : Holds(t, s, c)' <=> Holds(t, s, c)  BY <1>1 DEF Holds
  <2> QED BY <2>1, <2>2 DEF KeepsLimits
<1> QED BY <1>2, <1>3, MoveKeeps

LEMMA AcceptTcpKeeps ==
  ASSUME DoorInv, NEW c \in Conns, NEW s \in Sources, AcceptTcp(c, s)
  PROVE  DoorInv'
<1> USE DEF Counting, Admitted
<1>1. OneConnMoves(c)
  <2>0. "count" \in Places  BY DEF Places
  <2>1. conns' = [d \in Conns |-> IF d = c THEN conns'[c] ELSE conns[d]]  BY ConnFacts DEF AcceptTcp
  <2>2. conns'[c] \in ConnStates  BY <2>0, ConnFacts DEF AcceptTcp, ConnStates
  <2>3. /\ conns'[c].pc = "count" /\ conns'[c].source = s /\ conns'[c].held = conns[c].held
        /\ conns'[c].tasks = conns[c].tasks /\ conns'[c].tunnels = conns[c].tunnels
        /\ conns'[c].slot = conns[c].slot
    BY ConnFacts DEF AcceptTcp, ConnStates
  <2>4. ConnOK(kind[c], conns'[c])  BY <2>3, ConnFacts DEF AcceptTcp, At, ConnStates, ConnOK, Outside
  <2> QED BY <2>1, <2>2, <2>4 DEF OneConnMoves, AcceptTcp, counters
<1>2. RestTyped
  BY DEF AcceptTcp, DoorInv, DoorTypes, RestTyped, Transports
<1>3. UNCHANGED counters  BY DEF AcceptTcp
<1>4. conns[c].pc = "away" /\ conns'[c].pc = "count" /\ kind[c] = "tcp" /\ kind' = kind /\ ~conns[c].held
      /\ ~conns'[c].held
  BY ConnFacts DEF AcceptTcp, At, ConnStates, ConnOK, counters, Outside
<1> QED BY <1>1, <1>2, <1>3, <1>4, QuietMoveKeeps DEF Holds, Unsettled, Waits, Passed

(* Goto changes where a connection is and nothing else. *)
LEMMA GotoFacts ==
  ASSUME DoorInv, NEW c \in Conns, NEW p \in Places, Goto(c, p)
  PROVE  /\ conns' = [d \in Conns |-> IF d = c THEN conns'[c] ELSE conns[d]]
         /\ conns'[c] \in ConnStates
         /\ conns'[c].pc = p /\ conns'[c].source = conns[c].source /\ conns'[c].held = conns[c].held
         /\ conns'[c].verified = conns[c].verified /\ conns'[c].slot = conns[c].slot
         /\ conns'[c].tunnels = conns[c].tunnels /\ conns'[c].tasks = conns[c].tasks
         /\ conns[c] \in ConnStates /\ kind[c] \in Transports /\ ConnOK(kind[c], conns[c])
BY ConnFacts DEF Goto, ConnStates

(* A step that only takes a connection from one place to another. *)
LEMMA GotoKeeps ==
  ASSUME DoorInv, NEW c \in Conns, NEW p \in Places, Goto(c, p),
         UNCHANGED <<counters, retry, busy, stopping, returned>>,
         ConnOK(kind[c], conns'[c]),
         conns[c].pc \in Admitted \ {"verified"}, p \in Admitted \ {"verified"},
         kind[c] = "quic" /\ ~conns[c].verified =>
           (p \in {"handshake", "verify", "verified", "drop"} <=>
              conns[c].pc \in {"handshake", "verify", "verified", "drop"})
  PROVE  DoorInv'
<1>1. OneConnMoves(c)  BY GotoFacts DEF OneConnMoves, counters
<1>2. RestTyped  BY DEF RestTyped, DoorInv, DoorTypes
<1>3. UNCHANGED counters  OBVIOUS
<1>4. p \in Passed /\ conns[c].pc \in Passed /\ p \in Counting /\ conns[c].pc \in Counting
  BY DEF Passed, Counting, Admitted
<1>5. kind' = kind  BY DEF counters
<1>6. \A s \in Sources : Holds(kind[c], s, c)' <=> Holds(kind[c], s, c)
  BY <1>5, GotoFacts DEF Holds
<1>7. (Unsettled(c)' <=> Unsettled(c)) /\ (Waits(c)' <=> Waits(c))
  BY <1>5, GotoFacts DEF Unsettled, Waits, Admitted
<1> QED BY <1>1, <1>2, <1>3, <1>4, <1>6, <1>7, GotoFacts, QuietMoveKeeps

LEMMA HandshakesKeep ==
  ASSUME DoorInv, NEW c \in Conns, HandshakeFails(c) \/ HandshakeDone(c)
  PROVE  DoorInv'
<1>1. {"drop", "serving", "verify"} \subseteq Places  BY DEF Places, Counting, Admitted
<1>2. CASE HandshakeFails(c)
  <2>1. Goto(c, "drop") /\ conns[c].pc = "handshake"  BY <1>2 DEF HandshakeFails, At
  <2>2. ConnOK(kind[c], conns'[c])
    <3> DEFINE r == conns[c] n == conns'[c]
    <3>1. /\ n.pc = "drop" /\ n.source = r.source /\ n.held = r.held /\ n.verified = r.verified
          /\ n.slot = r.slot /\ n.tunnels = r.tunnels /\ n.tasks = r.tasks
          /\ r \in ConnStates /\ kind[c] \in Transports /\ ConnOK(kind[c], r)
      BY <1>1, <2>1, GotoFacts
    <3> HIDE DEF r, n
    <3>2. r.tasks \in Nat /\ r.tunnels \in Nat  BY <3>1 DEF ConnStates
    <3>3. ConnOK(kind[c], n)  BY <1>1, <2>1, <3>1, <3>2 DEF ConnOK, Outside, r
    <3> QED BY <3>3 DEF n
  <2> QED BY <1>1, <1>2, <2>1, <2>2, GotoKeeps DEF HandshakeFails, Admitted
<1>3. CASE HandshakeDone(c) /\ kind[c] = "tcp"
  <2>1. Goto(c, "serving") /\ conns[c].pc = "handshake"  BY <1>3 DEF HandshakeDone, At
  <2>2. ConnOK(kind[c], conns'[c])
    <3> DEFINE r == conns[c] n == conns'[c]
    <3>1. /\ n.pc = "serving" /\ n.source = r.source /\ n.held = r.held /\ n.verified = r.verified
          /\ n.slot = r.slot /\ n.tunnels = r.tunnels /\ n.tasks = r.tasks
          /\ r \in ConnStates /\ kind[c] \in Transports /\ ConnOK(kind[c], r)
      BY <1>1, <1>3, <2>1, GotoFacts
    <3> HIDE DEF r, n
    <3>2. r.tasks \in Nat /\ r.tunnels \in Nat  BY <3>1 DEF ConnStates
    <3>3. ConnOK(kind[c], n)  BY <1>1, <1>3, <2>1, <3>1, <3>2 DEF ConnOK, Outside, r
    <3> QED BY <3>3 DEF n
  <2> QED BY <1>1, <1>3, <2>1, <2>2, GotoKeeps DEF HandshakeDone, Admitted
<1>4. CASE HandshakeDone(c) /\ kind[c] # "tcp"
  <2>1. Goto(c, "verify") /\ conns[c].pc = "handshake" /\ kind[c] = "quic"
    BY <1>4, ConnFacts DEF HandshakeDone, At, Transports
  <2>2. ConnOK(kind[c], conns'[c])
    <3> DEFINE r == conns[c] n == conns'[c]
    <3>1. /\ n.pc = "verify" /\ n.source = r.source /\ n.held = r.held /\ n.verified = r.verified
          /\ n.slot = r.slot /\ n.tunnels = r.tunnels /\ n.tasks = r.tasks
          /\ r \in ConnStates /\ kind[c] \in Transports /\ ConnOK(kind[c], r)
      BY <1>1, <2>1, GotoFacts
    <3> HIDE DEF r, n
    <3>2. r.tasks \in Nat /\ r.tunnels \in Nat  BY <3>1 DEF ConnStates
    <3>3. ConnOK(kind[c], n)  BY <1>1, <2>1, <3>1, <3>2 DEF ConnOK, Outside, r
    <3> QED BY <3>3 DEF n
  <2> QED BY <1>1, <1>4, <2>1, <2>2, GotoKeeps DEF HandshakeDone, Admitted
<1> QED BY <1>2, <1>3, <1>4

LEMMA EndsKeep ==
  ASSUME DoorInv, NEW c \in Conns, ConnectionStops(c) \/ TasksOver(c) \/ CloseEndpoint(c)
  PROVE  DoorInv'
<1>1. {"drop", "waiting"} \subseteq Places  BY DEF Places, Counting, Admitted
<1>2. UNCHANGED <<counters, retry, busy, stopping, returned>>
  BY DEF ConnectionStops, TasksOver, CloseEndpoint
<1>3. \/ conns[c].pc = "serving" /\ kind[c] = "quic" /\ Goto(c, "waiting")
      \/ conns[c].pc = "serving" /\ kind[c] = "tcp" /\ Goto(c, "drop")
      \/ conns[c].pc = "waiting" /\ conns[c].tasks = 0 /\ Goto(c, "drop")
      \/ conns[c].pc = "handshake" /\ kind[c] = "quic" /\ Goto(c, "drop")
  BY ConnFacts DEF ConnectionStops, TasksOver, CloseEndpoint, At, Transports
<1>4. CASE conns[c].pc = "serving" /\ kind[c] = "quic" /\ Goto(c, "waiting")
  <2>1. ConnOK(kind[c], conns'[c])
    <3> DEFINE r == conns[c] n == conns'[c]
    <3>1. /\ n.pc = "waiting" /\ n.source = r.source /\ n.held = r.held /\ n.verified = r.verified
          /\ n.slot = r.slot /\ n.tunnels = r.tunnels /\ n.tasks = r.tasks
          /\ r \in ConnStates /\ kind[c] \in Transports /\ ConnOK(kind[c], r)
      BY <1>1, <1>4, GotoFacts
    <3> HIDE DEF r, n
    <3>2. r.tasks \in Nat /\ r.tunnels \in Nat  BY <3>1 DEF ConnStates
    <3>3. ConnOK(kind[c], n)  BY <1>1, <1>4, <3>1, <3>2 DEF ConnOK, Outside, r
    <3> QED BY <3>3 DEF n
  <2>2. conns[c].verified  BY <1>4, ConnFacts DEF ConnOK
  <2> QED BY <1>1, <1>2, <1>4, <2>1, <2>2, GotoKeeps DEF Admitted
<1>5. CASE conns[c].pc = "serving" /\ kind[c] = "tcp" /\ Goto(c, "drop")
  <2>1. ConnOK(kind[c], conns'[c])
    <3> DEFINE r == conns[c] n == conns'[c]
    <3>1. /\ n.pc = "drop" /\ n.source = r.source /\ n.held = r.held /\ n.verified = r.verified
          /\ n.slot = r.slot /\ n.tunnels = r.tunnels /\ n.tasks = r.tasks
          /\ r \in ConnStates /\ kind[c] \in Transports /\ ConnOK(kind[c], r)
      BY <1>1, <1>5, GotoFacts
    <3> HIDE DEF r, n
    <3>2. r.tasks \in Nat /\ r.tunnels \in Nat  BY <3>1 DEF ConnStates
    <3>3. ConnOK(kind[c], n)  BY <1>1, <1>5, <3>1, <3>2 DEF ConnOK, Outside, r
    <3> QED BY <3>3 DEF n
  <2> QED BY <1>1, <1>2, <1>5, <2>1, GotoKeeps DEF Admitted
<1>6. CASE conns[c].pc = "waiting" /\ conns[c].tasks = 0 /\ Goto(c, "drop")
  <2>1. ConnOK(kind[c], conns'[c])
    <3> DEFINE r == conns[c] n == conns'[c]
    <3>1. /\ n.pc = "drop" /\ n.source = r.source /\ n.held = r.held /\ n.verified = r.verified
          /\ n.slot = r.slot /\ n.tunnels = r.tunnels /\ n.tasks = r.tasks
          /\ r \in ConnStates /\ kind[c] \in Transports /\ ConnOK(kind[c], r)
      BY <1>1, <1>6, GotoFacts
    <3> HIDE DEF r, n
    <3>2. r.tasks \in Nat /\ r.tunnels \in Nat  BY <3>1 DEF ConnStates
    <3>3. ConnOK(kind[c], n)  BY <1>1, <1>6, <3>1, <3>2 DEF ConnOK, Outside, r
    <3> QED BY <3>3 DEF n
  <2>2. conns[c].verified  BY <1>6, ConnFacts DEF ConnOK
  <2> QED BY <1>1, <1>2, <1>6, <2>1, <2>2, GotoKeeps DEF Admitted
<1>7. CASE conns[c].pc = "handshake" /\ kind[c] = "quic" /\ Goto(c, "drop")
  <2>1. ConnOK(kind[c], conns'[c])
    <3> DEFINE r == conns[c] n == conns'[c]
    <3>1. /\ n.pc = "drop" /\ n.source = r.source /\ n.held = r.held /\ n.verified = r.verified
          /\ n.slot = r.slot /\ n.tunnels = r.tunnels /\ n.tasks = r.tasks
          /\ r \in ConnStates /\ kind[c] \in Transports /\ ConnOK(kind[c], r)
      BY <1>1, <1>7, GotoFacts
    <3> HIDE DEF r, n
    <3>2. r.tasks \in Nat /\ r.tunnels \in Nat  BY <3>1 DEF ConnStates
    <3>3. ConnOK(kind[c], n)  BY <1>1, <1>7, <3>1, <3>2 DEF ConnOK, Outside, r
    <3> QED BY <3>3 DEF n
  <2> QED BY <1>1, <1>2, <1>7, <2>1, GotoKeeps DEF Admitted
<1> QED BY <1>3, <1>4, <1>5, <1>6, <1>7

(* The requests of a connection. *)
LEMMA RequestsKeep ==
  ASSUME DoorInv, NEW c \in Conns,
         WebRequest(c) \/ TunnelRequest(c) \/ TunnelStops(c) \/ RequestEnds(c)
  PROVE  DoorInv'
<1> DEFINE r == conns[c] n == conns'[c]
<1>1. UNCHANGED <<counters, retry, busy, stopping, returned>> /\ kind' = kind
  BY DEF WebRequest, TunnelRequest, TunnelStops, RequestEnds, counters
<1>2. conns \in [Conns -> ConnStates] /\ r \in ConnStates /\ ConnOK(kind[c], r) /\ kind[c] \in Transports
  BY ConnFacts
<1>3. r.tasks \in Nat /\ r.tunnels \in Nat /\ r.slot \in BOOLEAN  BY <1>2 DEF ConnStates
<1>4. kind[c] = "quic" /\ r.pc \in {"serving", "waiting"}
  <2>1. (kind[c] = "quic" /\ r.pc = "serving") \/ r.tunnels > 0 \/ r.tasks > r.tunnels
    BY DEF WebRequest, TunnelRequest, TunnelStops, RequestEnds, At
  <2>2. /\ r.tunnels <= r.tasks /\ (r.tasks > 0 => kind[c] = "quic" /\ r.pc \in {"serving", "waiting"})
    BY <1>2 DEF ConnOK
  <2> HIDE DEF r
  <2> QED BY <2>1, <2>2, <1>3
<1>5. /\ conns' = [d \in Conns |-> IF d = c THEN n ELSE conns[d]]
      /\ n.pc = r.pc /\ n.source = r.source /\ n.held = r.held /\ n.verified = r.verified
      /\ n \in ConnStates
      /\ n.tasks \in Nat /\ n.tunnels \in Nat
      /\ n.tunnels <= n.tasks /\ n.tunnels <= 1 /\ (n.slot <=> n.tunnels = 1)
  <2> USE DEF ConnStates
  <2>1. r.tunnels <= r.tasks /\ r.tunnels <= 1 /\ (r.slot <=> r.tunnels = 1)  BY <1>2 DEF ConnOK
  <2>2. CASE WebRequest(c)
    <3>1. conns' = [d \in Conns |-> IF d = c THEN n ELSE conns[d]]  BY <2>2, <1>2 DEF WebRequest
    <3>2. /\ n.pc = r.pc /\ n.source = r.source /\ n.held = r.held /\ n.verified = r.verified
          /\ n.tasks = r.tasks + 1 /\ n.slot = r.slot /\ n.tunnels = r.tunnels
      BY <2>2, <1>2 DEF WebRequest
    <3>3. r.tasks + 1 \in Nat  BY <1>3
    <3>4. n \in ConnStates  BY <2>2, <3>3, <1>2 DEF WebRequest
    <3> HIDE DEF r, n
    <3> QED BY <3>1, <3>2, <3>3, <3>4, <2>1, <1>3
  <2>3. CASE TunnelRequest(c)
    <3>1. conns' = [d \in Conns |-> IF d = c THEN n ELSE conns[d]]  BY <2>3, <1>2 DEF TunnelRequest
    <3>2. /\ n.pc = r.pc /\ n.source = r.source /\ n.held = r.held /\ n.verified = r.verified
          /\ n.tasks = r.tasks + 1 /\ n.slot = TRUE /\ n.tunnels = IF r.slot THEN r.tunnels ELSE r.tunnels + 1
      BY <2>3, <1>2 DEF TunnelRequest
    <3>3. r.tasks + 1 \in Nat /\ (IF r.slot THEN r.tunnels ELSE r.tunnels + 1) \in Nat  BY <1>3
    <3>4. n \in ConnStates  BY <2>3, <3>3, <1>2 DEF TunnelRequest
    <3> HIDE DEF r, n
    <3> QED BY <3>1, <3>2, <3>3, <3>4, <2>1, <1>3
  <2>4. CASE TunnelStops(c)
    <3>1. conns' = [d \in Conns |-> IF d = c THEN n ELSE conns[d]]  BY <2>4, <1>2 DEF TunnelStops
    <3>2. /\ n.pc = r.pc /\ n.source = r.source /\ n.held = r.held /\ n.verified = r.verified
          /\ n.tasks = r.tasks - 1 /\ n.slot = FALSE /\ n.tunnels = r.tunnels - 1
      BY <2>4, <1>2 DEF TunnelStops
    <3>3. r.tunnels > 0 /\ r.tasks - 1 \in Nat /\ r.tunnels - 1 \in Nat  BY <1>3, <2>1, <2>4 DEF TunnelStops
    <3>4. n \in ConnStates  BY <2>4, <3>3, <1>2 DEF TunnelStops
    <3> HIDE DEF r, n
    <3> QED BY <3>1, <3>2, <3>3, <3>4, <2>1, <1>3
  <2>5. CASE RequestEnds(c)
    <3>1. conns' = [d \in Conns |-> IF d = c THEN n ELSE conns[d]]  BY <2>5, <1>2 DEF RequestEnds
    <3>2. /\ n.pc = r.pc /\ n.source = r.source /\ n.held = r.held /\ n.verified = r.verified
          /\ n.tasks = r.tasks - 1 /\ n.slot = r.slot /\ n.tunnels = r.tunnels
      BY <2>5, <1>2 DEF RequestEnds
    <3>3. r.tunnels <= r.tasks - 1 /\ r.tasks - 1 \in Nat  BY <1>3, <2>5 DEF RequestEnds
    <3>4. n \in ConnStates  BY <2>5, <3>3, <1>2 DEF RequestEnds
    <3> HIDE DEF r, n
    <3> QED BY <3>1, <3>2, <3>3, <3>4, <2>1, <1>3
  <2> QED BY <2>2, <2>3, <2>4, <2>5
<1>6. ConnOK(kind[c], n)
  <2> HIDE DEF r, n
  <2> QED BY <1>2, <1>4, <1>5 DEF ConnOK
<1>7. OneConnMoves(c)  BY <1>1, <1>5, <1>6 DEF OneConnMoves
<1>8. RestTyped  BY <1>1 DEF RestTyped, DoorInv, DoorTypes
<1>9. \A s \in Sources : Holds(kind[c], s, c)' <=> Holds(kind[c], s, c)  BY <1>1, <1>5 DEF Holds
<1>10. (Unsettled(c)' <=> Unsettled(c)) /\ (Waits(c)' <=> Waits(c))  BY <1>1, <1>5 DEF Unsettled, Waits
<1> QED BY <1>1, <1>5, <1>7, <1>8, <1>9, <1>10, QuietMoveKeeps

(* A connection that is not there. *)
LEMMA AwayFacts ==
  /\ Away \in ConnStates /\ \A k \in Transports : ConnOK(k, Away)
  /\ Away.pc = "away" /\ ~Away.held
BY DEF Away, ConnStates, ConnOK, Outside, Places

LEMMA ForgetKeeps ==
  ASSUME DoorInv, NEW c \in Conns, Forget(c)
  PROVE  DoorInv'
<1>1. UNCHANGED <<counters, retry, busy, stopping, returned>> /\ kind' = kind  BY DEF Forget, counters
<1>2. conns[c].pc = "retried" /\ ~conns[c].held
  BY ConnFacts DEF Forget, At, ConnOK, Outside
<1>3. conns' = [d \in Conns |-> IF d = c THEN conns'[c] ELSE conns[d]] /\ conns'[c] = Away
  BY ConnFacts DEF Forget
<1>4. OneConnMoves(c)  BY <1>1, <1>3, AwayFacts, ConnFacts DEF OneConnMoves
<1>5. RestTyped  BY <1>1 DEF RestTyped, DoorInv, DoorTypes
<1>6. conns'[c].pc = "away" /\ ~conns'[c].held  BY <1>3, AwayFacts
<1> QED BY <1>1, <1>2, <1>4, <1>5, <1>6, QuietMoveKeeps DEF Holds, Unsettled, Waits, Passed, Counting, Admitted

LEMMA AcceptQuicKeeps ==
  ASSUME DoorInv, NEW c \in Conns, NEW s \in Sources, AcceptQuic(c, s)
  PROVE  DoorInv'
<1> DEFINE r == conns[c] n == conns'[c]
<1>1. UNCHANGED counters /\ kind' = kind /\ kind[c] = "quic" /\ r.pc \in {"away", "retried"}
  BY DEF AcceptQuic, counters, At
<1>2. conns \in [Conns -> ConnStates] /\ r \in ConnStates /\ ConnOK(kind[c], r)  BY ConnFacts
<1>3. ~r.held /\ ~r.verified  BY <1>1, <1>2 DEF ConnOK, Outside
<1>4. /\ conns' = [d \in Conns |-> IF d = c THEN n ELSE conns[d]] /\ n \in ConnStates
      /\ n.pc \in {"retried", "count"} /\ n.source = s /\ n.held = r.held /\ n.verified = r.verified
      /\ n.slot = r.slot /\ n.tunnels = r.tunnels /\ n.tasks = r.tasks
  <2>1. "retried" \in Places /\ "count" \in Places  BY DEF Places
  <2>2. CASE should_retry(s) /\ ~conns[c].token
    BY <2>1, <2>2, <1>2 DEF AcceptQuic, ConnStates
  <2>3. CASE ~(should_retry(s) /\ ~conns[c].token)
    BY <2>1, <2>3, <1>2 DEF AcceptQuic, ConnStates
  <2> QED BY <2>2, <2>3
<1>5. ConnOK(kind[c], n)
  <2>1. r.tasks \in Nat /\ r.tunnels \in Nat  BY <1>2 DEF ConnStates
  <2> HIDE DEF r, n
  <2> QED BY <1>1, <1>2, <1>3, <1>4, <2>1 DEF ConnOK, Outside
<1>6. OneConnMoves(c)  BY <1>1, <1>4, <1>5 DEF OneConnMoves
<1>7. RestTyped
  <2>1. stopping' \in BOOLEAN /\ returned' \in BOOLEAN  BY DEF AcceptQuic, DoorInv, DoorTypes
  <2>2. busy' \in [Transports -> Conns \cup {Nobody}]  BY DEF AcceptQuic, DoorInv, DoorTypes, Transports
  <2>3. Taken(s) \in [all : Nat, of : [Sources -> Nat]]
    <3>1. retry \in [all : Nat, of : [Sources -> Nat]]  BY DEF DoorInv, DoorTypes
    <3>2. retry.all \in Nat /\ retry.of \in [Sources -> Nat]  BY <3>1
    <3>3. [retry.of EXCEPT ![s] = IF @ > 0 THEN @ - 1 ELSE 0] \in [Sources -> Nat]  BY <3>2
    <3>4. (IF retry.all > 0 THEN retry.all - 1 ELSE 0) \in Nat  BY <3>2
    <3> QED BY <3>1, <3>3, <3>4 DEF Taken
  <2> QED BY <2>1, <2>2, <2>3 DEF RestTyped, AcceptQuic
<1> QED BY <1>1, <1>3, <1>4, <1>6, <1>7, QuietMoveKeeps
     DEF Holds, Unsettled, Waits, Passed, Counting, Admitted

(* The limits concern the connection that moves only. *)
LEMMA LimitsOfOne ==
  ASSUME NEW c \in Conns, kind' = kind,
         conns'[c].pc \in Passed => conns[c].pc \in Passed \/ active_conns[kind[c]] < MaxGlobal,
         \A s \in Sources : Holds(kind[c], s, c)' =>
                              Holds(kind[c], s, c) \/ sources[kind[c]][s] < MaxPerSource,
         Waits(c)' => Waits(c) \/ unverified < MaxUnverified
  PROVE  KeepsLimits(c)
<1>1. \A t \in Transports : Passes(t, c)' => Passes(t, c) \/ active_conns[t] < MaxGlobal  BY DEF Passes
<1>2. \A t \in Transports, s \in Sources : Holds(t, s, c)' => Holds(t, s, c) \/ sources[t][s] < MaxPerSource
  BY DEF Holds
<1> QED BY <1>1, <1>2 DEF KeepsLimits

LEMMA CountActiveKeeps ==
  ASSUME DoorInv, NEW c \in Conns, CountActive(c)
  PROVE  DoorInv'
<1> DEFINE r == conns[c] n == conns'[c]
<1>1. /\ r.pc = "count" /\ kind' = kind /\ active_conns' = [active_conns EXCEPT ![kind[c]] = @ + 1]
      /\ unverified' = unverified /\ sources' = sources
  BY DEF CountActive, At
<1>2. RestTyped  BY DEF CountActive, RestTyped, DoorInv, DoorTypes
<1>3. kind[c] \in {"tcp", "quic"}  BY ConnFacts DEF Transports
<1>4. /\ active_conns[kind[c]] \in Int /\ MaxGlobal \in Int
  BY DoorAssumption, <1>3 DEF DoorInv, DoorTypes, Transports
<1>5. PICK p \in {"uncount", "count unverified", "count source"} :
        /\ Goto(c, p) /\ (p = "count unverified" => kind[c] = "quic") /\ (p = "count source" => kind[c] = "tcp")
        /\ p # "uncount" => active_conns[kind[c]] < MaxGlobal
  <2>1. CASE active_conns[kind[c]] >= MaxGlobal  BY <2>1 DEF CountActive
  <2>2. CASE active_conns[kind[c]] < MaxGlobal /\ kind[c] = "quic"
    <3>1. ~(active_conns[kind[c]] >= MaxGlobal)  BY <2>2, <1>4
    <3> QED BY <2>2, <3>1 DEF CountActive
  <2>3. CASE active_conns[kind[c]] < MaxGlobal /\ kind[c] = "tcp"
    <3>1. ~(active_conns[kind[c]] >= MaxGlobal)  BY <2>3, <1>4
    <3> QED BY <2>3, <3>1 DEF CountActive
  <2>4. active_conns[kind[c]] >= MaxGlobal \/ active_conns[kind[c]] < MaxGlobal  BY <1>4
  <2> QED BY <1>3, <2>1, <2>2, <2>3, <2>4
<1>6. p \in Places /\ p \in Counting  BY <1>5 DEF Places, Counting
<1>7. /\ conns' = [d \in Conns |-> IF d = c THEN n ELSE conns[d]] /\ n \in ConnStates
      /\ n.pc = p /\ n.source = r.source /\ n.held = r.held /\ n.verified = r.verified
      /\ n.slot = r.slot /\ n.tunnels = r.tunnels /\ n.tasks = r.tasks
      /\ r \in ConnStates /\ ConnOK(kind[c], r)
  BY <1>5, <1>6, GotoFacts
<1>8. ConnOK(kind[c], n) /\ ~n.held
  <2>1. r.tasks \in Nat /\ r.tunnels \in Nat  BY <1>7 DEF ConnStates
  <2> HIDE DEF r, n
  <2> QED BY <1>1, <1>3, <1>5, <1>7, <2>1 DEF ConnOK, Outside
<1>9. OneConnMoves(c)  BY <1>1, <1>7, <1>8 DEF OneConnMoves
<1>10. (~Unsettled(c)) /\ (~Unsettled(c)') /\ (~Waits(c)')
  BY <1>1, <1>5, <1>7 DEF Unsettled, Waits
<1>11. \A s \in Sources : (Holds(kind[c], s, c)' <=> Holds(kind[c], s, c))
  BY <1>1, <1>5, <1>7 DEF Holds
<1>12. CountersFollow(c)
  <2>1. conns[c].pc \notin Counting  BY <1>1 DEF Counting, Admitted
  <2> QED BY <1>1, <1>6, <1>7, <1>10, <1>11, <2>1, ActiveMoves, SourcesStay, UnverifiedStays DEF CountersFollow
<1>13. KeepsLimits(c)
  <2>1. n.pc \in Passed => active_conns[kind[c]] < MaxGlobal  BY <1>5, <1>7 DEF Passed
  <2> QED BY <1>1, <1>10, <1>11, <2>1, LimitsOfOne
<1> QED BY <1>2, <1>9, <1>12, <1>13, MoveKeeps

LEMMA CountUnverifiedKeeps ==
  ASSUME DoorInv, NEW c \in Conns, CountUnverified(c)
  PROVE  DoorInv'
<1> DEFINE r == conns[c] n == conns'[c]
<1>1. /\ r.pc = "count unverified" /\ kind' = kind /\ unverified' = unverified + 1
      /\ active_conns' = active_conns /\ sources' = sources
  BY DEF CountUnverified, At
<1>2. unverified \in Int /\ MaxUnverified \in Int  BY DoorAssumption DEF DoorInv, DoorTypes
<1>3. RestTyped
  <2>1. busy' \in [Transports -> Conns \cup {Nobody}]
    BY DEF CountUnverified, IsFree, DoorInv, DoorTypes
  <2> QED BY <2>1 DEF CountUnverified, RestTyped, DoorInv, DoorTypes
<1>4. PICK p \in {"uncount unverified", "handshake"} :
        Goto(c, p) /\ (p = "handshake" => unverified < MaxUnverified)
  <2>1. CASE unverified >= MaxUnverified  BY <2>1 DEF CountUnverified
  <2>2. CASE ~(unverified >= MaxUnverified)
    <3>1. unverified < MaxUnverified  BY <2>2, <1>2
    <3>2. Goto(c, "handshake")  BY <2>2 DEF CountUnverified
    <3> QED BY <3>1, <3>2
  <2> QED BY <2>1, <2>2
<1>5. p \in Places /\ p \in Passed /\ p \in Counting /\ r.pc \in Passed /\ r.pc \in Counting
  BY <1>1, <1>4 DEF Places, Passed, Counting, Admitted
<1>6. /\ conns' = [d \in Conns |-> IF d = c THEN n ELSE conns[d]] /\ n \in ConnStates
      /\ n.pc = p /\ n.source = r.source /\ n.held = r.held /\ n.verified = r.verified
      /\ n.slot = r.slot /\ n.tunnels = r.tunnels /\ n.tasks = r.tasks
      /\ r \in ConnStates /\ ConnOK(kind[c], r)
  BY <1>4, <1>5, GotoFacts
<1>7. ConnOK(kind[c], n) /\ kind[c] = "quic" /\ ~r.verified
  <2>1. r.tasks \in Nat /\ r.tunnels \in Nat  BY <1>6 DEF ConnStates
  <2> HIDE DEF r, n
  <2> QED BY <1>1, <1>4, <1>6, <2>1 DEF ConnOK, Outside
<1>8. OneConnMoves(c)  BY <1>1, <1>6, <1>7 DEF OneConnMoves
<1>9. (~Unsettled(c)) /\ (Unsettled(c)') /\ (p = "uncount unverified" => ~Waits(c)')
  BY <1>1, <1>4, <1>6, <1>7 DEF Unsettled, Waits
<1>10. \A s \in Sources : Holds(kind[c], s, c)' <=> Holds(kind[c], s, c)
  BY <1>1, <1>4, <1>6 DEF Holds
<1>11. CountersFollow(c)
  BY <1>1, <1>5, <1>6, <1>9, <1>10, ActiveStays, SourcesStay, UnverifiedMoves DEF CountersFollow
<1>12. KeepsLimits(c)  BY <1>1, <1>4, <1>5, <1>9, <1>10, LimitsOfOne
<1> QED BY <1>3, <1>8, <1>11, <1>12, MoveKeeps

LEMMA UncountUnverifiedKeeps ==
  ASSUME DoorInv, NEW c \in Conns, UncountUnverified(c)
  PROVE  DoorInv'
<1> DEFINE r == conns[c] n == conns'[c]
<1>1. /\ r.pc = "uncount unverified" /\ kind' = kind /\ unverified' = unverified - 1
      /\ active_conns' = active_conns /\ sources' = sources /\ Goto(c, "uncount")
  BY DEF UncountUnverified, At
<1>2. RestTyped  BY DEF UncountUnverified, RestTyped, DoorInv, DoorTypes
<1>3. "uncount" \in Places /\ "uncount" \in Counting /\ r.pc \in Counting /\ r.pc \in Passed
  BY <1>1 DEF Places, Passed, Counting, Admitted
<1>4. /\ conns' = [d \in Conns |-> IF d = c THEN n ELSE conns[d]] /\ n \in ConnStates
      /\ n.pc = "uncount" /\ n.source = r.source /\ n.held = r.held /\ n.verified = r.verified
      /\ n.slot = r.slot /\ n.tunnels = r.tunnels /\ n.tasks = r.tasks
      /\ r \in ConnStates /\ ConnOK(kind[c], r)
  BY <1>1, <1>3, GotoFacts
<1>5. ConnOK(kind[c], n) /\ kind[c] = "quic"
  <2>1. r.tasks \in Nat /\ r.tunnels \in Nat  BY <1>4 DEF ConnStates
  <2> HIDE DEF r, n
  <2> QED BY <1>1, <1>4, <2>1 DEF ConnOK, Outside
<1>6. OneConnMoves(c)  BY <1>1, <1>4, <1>5 DEF OneConnMoves
<1>7. Unsettled(c) /\ (~Unsettled(c)') /\ (~Waits(c)')
  BY <1>1, <1>4, <1>5 DEF Unsettled, Waits
<1>8. \A s \in Sources : Holds(kind[c], s, c)' <=> Holds(kind[c], s, c)
  BY <1>1, <1>4 DEF Holds
<1>9. CountersFollow(c)
  BY <1>1, <1>3, <1>4, <1>7, <1>8, ActiveStays, SourcesStay, UnverifiedMoves DEF CountersFollow
<1>10. KeepsLimits(c)  BY <1>1, <1>3, <1>7, <1>8, LimitsOfOne
<1> QED BY <1>2, <1>6, <1>9, <1>10, MoveKeeps

LEMMA CountSourceKeeps ==
  ASSUME DoorInv, NEW c \in Conns, CountSource(c)
  PROVE  DoorInv'
<1> DEFINE r == conns[c] n == conns'[c] s == conns[c].source
<1>1. /\ r.pc = "count source" /\ kind' = kind /\ unverified' = unverified /\ active_conns' = active_conns
  BY DEF CountSource, At
<1>2. conns \in [Conns -> ConnStates] /\ r \in ConnStates /\ ConnOK(kind[c], r)  BY ConnFacts
<1>3. kind[c] = "tcp" /\ s \in Sources /\ ~r.held /\ r.tasks \in Nat /\ r.tunnels \in Nat
  BY <1>1, <1>2 DEF ConnOK, Outside, ConnStates
<1>4. sources["tcp"][s] \in Int /\ MaxPerSource \in Int
  BY DoorAssumption, <1>3 DEF DoorInv, DoorTypes, Transports
<1>5. RestTyped
  <2>1. busy' \in [Transports -> Conns \cup {Nobody}]  BY DEF CountSource, IsFree, DoorInv, DoorTypes
  <2> QED BY <2>1 DEF CountSource, RestTyped, DoorInv, DoorTypes
<1>6. r.pc \in Counting /\ r.pc \in Passed /\ {"uncount", "handshake"} \subseteq Counting \cap Places
  BY <1>1 DEF Passed, Places, Counting, Admitted
<1>7. CASE sources["tcp"][s] >= MaxPerSource
  <2>1. Goto(c, "uncount") /\ sources' = sources  BY <1>7 DEF CountSource
  <2>2. /\ conns' = [d \in Conns |-> IF d = c THEN n ELSE conns[d]] /\ n \in ConnStates
        /\ n.pc = "uncount" /\ n.source = r.source /\ n.held = r.held /\ n.verified = r.verified
        /\ n.slot = r.slot /\ n.tunnels = r.tunnels /\ n.tasks = r.tasks
    BY <1>6, <2>1, GotoFacts
  <2>3. ConnOK(kind[c], n)
    <3> HIDE DEF r, n, s
    <3> QED BY <1>1, <1>2, <1>3, <2>2 DEF ConnOK, Outside, s
  <2>4. OneConnMoves(c)  BY <1>1, <2>2, <2>3 DEF OneConnMoves
  <2>5. (~Unsettled(c)) /\ (~Unsettled(c)') /\ (~Waits(c)')  BY <1>1, <1>3 DEF Unsettled, Waits
  <2>6. \A q \in Sources : Holds(kind[c], q, c)' <=> Holds(kind[c], q, c)
    BY <1>1, <2>2 DEF Holds
  <2>7. CountersFollow(c)
    BY <1>1, <1>6, <2>1, <2>2, <2>5, <2>6, ActiveStays, SourcesStay, UnverifiedStays DEF CountersFollow
  <2>8. KeepsLimits(c)  BY <1>1, <1>6, <2>5, <2>6, LimitsOfOne
  <2> QED BY <1>5, <2>4, <2>7, <2>8, MoveKeeps
<1>8. CASE ~(sources["tcp"][s] >= MaxPerSource)
  <2>1. /\ sources' = [sources EXCEPT !["tcp"][s] = @ + 1]
        /\ conns' = [conns EXCEPT ![c].pc = "handshake", ![c].held = TRUE]
    BY <1>8 DEF CountSource
  <2>2. /\ conns' = [d \in Conns |-> IF d = c THEN n ELSE conns[d]] /\ n \in ConnStates
        /\ n.pc = "handshake" /\ n.source = r.source /\ n.held = TRUE /\ n.verified = r.verified
        /\ n.slot = r.slot /\ n.tunnels = r.tunnels /\ n.tasks = r.tasks
    BY <1>2, <1>6, <2>1 DEF ConnStates
  <2>3. ConnOK(kind[c], n)
    <3> HIDE DEF r, n, s
    <3> QED BY <1>1, <1>2, <1>3, <2>2 DEF ConnOK, Outside, s
  <2>4. OneConnMoves(c)  BY <1>1, <2>2, <2>3 DEF OneConnMoves
  <2>5. (~Unsettled(c)) /\ (~Unsettled(c)') /\ (~Waits(c)')  BY <1>1, <1>3 DEF Unsettled, Waits
  <2>6. \A q \in Sources : ~Holds(kind[c], q, c) /\ (Holds(kind[c], q, c)' <=> q = s)
    BY <1>1, <1>3, <2>2 DEF Holds
  <2>7. SourcesFollow(c)  BY <1>1, <1>3, <2>1, <2>6, SourcesMove
  <2>8. CountersFollow(c)
    BY <1>1, <1>6, <2>2, <2>5, <2>7, ActiveStays, UnverifiedStays DEF CountersFollow
  <2>9. sources[kind[c]][s] < MaxPerSource  BY <1>3, <1>4, <1>8
  <2>10. KeepsLimits(c)  BY <1>1, <1>6, <2>5, <2>6, <2>9, LimitsOfOne
  <2> QED BY <1>5, <2>4, <2>8, <2>10, MoveKeeps
<1> QED BY <1>7, <1>8

LEMMA UncountKeeps ==
  ASSUME DoorInv, NEW c \in Conns, Uncount(c)
  PROVE  DoorInv'
<1>1. /\ conns[c].pc = "uncount" /\ kind' = kind /\ unverified' = unverified /\ sources' = sources
      /\ active_conns' = [active_conns EXCEPT ![kind[c]] = @ - 1]
  BY DEF Uncount, At
<1>2. ~conns[c].held  BY <1>1, ConnFacts DEF ConnOK, Outside
<1>3. conns' = [d \in Conns |-> IF d = c THEN conns'[c] ELSE conns[d]] /\ conns'[c] = Away
  BY ConnFacts DEF Uncount
<1>4. OneConnMoves(c)  BY <1>1, <1>3, AwayFacts, ConnFacts DEF OneConnMoves
<1>5. conns'[c].pc = "away" /\ ~conns'[c].held  BY <1>3, AwayFacts
<1>6. RestTyped
  <2>1. busy' \in [Transports -> Conns \cup {Nobody}]  BY DEF Uncount, IsFree, DoorInv, DoorTypes
  <2> QED BY <2>1 DEF Uncount, RestTyped, DoorInv, DoorTypes
<1>7. (~Unsettled(c)) /\ (~Unsettled(c)') /\ (~Waits(c)')  BY <1>1, <1>5 DEF Unsettled, Waits
<1>8. \A s \in Sources : Holds(kind[c], s, c)' <=> Holds(kind[c], s, c)  BY <1>1, <1>2, <1>5 DEF Holds
<1>9. conns[c].pc \in Counting /\ conns'[c].pc \notin Counting /\ conns'[c].pc \notin Passed
  BY <1>1, <1>5 DEF Counting, Admitted, Passed
<1>10. CountersFollow(c)
  BY <1>1, <1>7, <1>8, <1>9, ActiveMoves, SourcesStay, UnverifiedStays DEF CountersFollow
<1>11. KeepsLimits(c)  BY <1>1, <1>7, <1>8, <1>9, LimitsOfOne
<1> QED BY <1>4, <1>6, <1>10, <1>11, MoveKeeps

LEMMA MarkVerifiedKeeps ==
  ASSUME DoorInv, NEW c \in Conns, mark_verified(c)
  PROVE  DoorInv'
<1> DEFINE r == conns[c] n == conns'[c] s == conns[c].source
<1>1. kind' = kind /\ active_conns' = active_conns  BY DEF mark_verified
<1>2. conns \in [Conns -> ConnStates] /\ r \in ConnStates /\ ConnOK(kind[c], r)  BY ConnFacts
<1>3. /\ kind[c] = "quic" /\ s \in Sources /\ ~r.held /\ ~r.verified
      /\ r.tasks \in Nat /\ r.tunnels \in Nat
  BY <1>1, <1>2 DEF mark_verified, At, ConnOK, Outside, ConnStates
<1>4. RestTyped  BY DEF mark_verified, RestTyped, DoorInv, DoorTypes
<1>5. {"verify", "verified", "drop", "serving"} \subseteq Counting \cap Places \cap Passed
  BY DEF Passed, Places, Counting, Admitted
<1>6. CASE At(c, "verify") /\ sources["quic"][s] >= MaxPerSource /\ Goto(c, "drop") /\ UNCHANGED <<unverified, sources>>
  <2>1. r.pc = "verify"  BY <1>6 DEF At
  <2>2. /\ conns' = [d \in Conns |-> IF d = c THEN n ELSE conns[d]] /\ n \in ConnStates
        /\ n.pc = "drop" /\ n.source = r.source /\ n.held = r.held /\ n.verified = r.verified
        /\ n.slot = r.slot /\ n.tunnels = r.tunnels /\ n.tasks = r.tasks
    BY <1>5, <1>6, GotoFacts
  <2>3. ConnOK(kind[c], n)
    <3> HIDE DEF r, n, s
    <3> QED BY <2>1, <1>2, <1>3, <2>2 DEF ConnOK, Outside, s
  <2>4. OneConnMoves(c)  BY <1>1, <2>2, <2>3 DEF OneConnMoves
  <2>5. (Unsettled(c)' <=> Unsettled(c)) /\ (Waits(c)' <=> Waits(c))
    BY <1>1, <1>3, <2>1, <2>2 DEF Unsettled, Waits
  <2>6. \A q \in Sources : Holds(kind[c], q, c)' <=> Holds(kind[c], q, c)
    BY <1>1, <2>1, <2>2 DEF Holds
  <2> QED BY <1>1, <1>4, <1>5, <1>6, <2>1, <2>2, <2>4, <2>5, <2>6, QuietMoveKeeps DEF counters
<1>7. CASE /\ At(c, "verify") /\ sources["quic"][s] < MaxPerSource
           /\ sources' = [sources EXCEPT !["quic"][s] = @ + 1]
           /\ Goto(c, "verified") /\ UNCHANGED unverified
  <2>1. r.pc = "verify"  BY <1>7 DEF At
  <2>2. /\ conns' = [d \in Conns |-> IF d = c THEN n ELSE conns[d]] /\ n \in ConnStates
        /\ n.pc = "verified" /\ n.source = r.source /\ n.held = r.held /\ n.verified = r.verified
        /\ n.slot = r.slot /\ n.tunnels = r.tunnels /\ n.tasks = r.tasks
    BY <1>5, <1>7, GotoFacts
  <2>3. ConnOK(kind[c], n)
    <3> HIDE DEF r, n, s
    <3> QED BY <2>1, <1>2, <1>3, <2>2 DEF ConnOK, Outside, s
  <2>4. OneConnMoves(c)  BY <1>1, <2>2, <2>3 DEF OneConnMoves
  <2>5. (Unsettled(c)' <=> Unsettled(c)) /\ (Waits(c)' <=> Waits(c))
    BY <1>1, <1>3, <2>1, <2>2 DEF Unsettled, Waits
  <2>6. \A q \in Sources : ~Holds(kind[c], q, c) /\ (Holds(kind[c], q, c)' <=> q = s)
    BY <1>1, <1>3, <2>1, <2>2 DEF Holds
  <2>7. SourcesFollow(c)  BY <1>1, <1>3, <1>7, <2>6, SourcesMove
  <2>8. CountersFollow(c)
    BY <1>1, <1>5, <1>7, <2>1, <2>2, <2>5, <2>7, ActiveStays, UnverifiedStays DEF CountersFollow
  <2>9. KeepsLimits(c)  BY <1>1, <1>3, <1>5, <1>7, <2>1, <2>5, <2>6, LimitsOfOne
  <2> QED BY <1>4, <2>4, <2>8, <2>9, MoveKeeps
<1>8. CASE /\ At(c, "verified") /\ unverified' = unverified - 1
           /\ conns' = [conns EXCEPT ![c].pc = "serving", ![c].verified = TRUE, ![c].held = TRUE]
           /\ UNCHANGED sources
  <2>1. r.pc = "verified"  BY <1>8 DEF At
  <2>2. /\ conns' = [d \in Conns |-> IF d = c THEN n ELSE conns[d]] /\ n \in ConnStates
        /\ n.pc = "serving" /\ n.source = r.source /\ n.held = TRUE /\ n.verified = TRUE
        /\ n.slot = r.slot /\ n.tunnels = r.tunnels /\ n.tasks = r.tasks
    BY <1>2, <1>5, <1>8 DEF ConnStates
  <2>3. ConnOK(kind[c], n)
    <3> HIDE DEF r, n, s
    <3> QED BY <2>1, <1>2, <1>3, <2>2 DEF ConnOK, Outside, s
  <2>4. OneConnMoves(c)  BY <1>1, <2>2, <2>3 DEF OneConnMoves
  <2>5. Unsettled(c) /\ (~Unsettled(c)') /\ (~Waits(c)')
    BY <1>1, <1>3, <2>1, <2>2 DEF Unsettled, Waits
  <2>6. \A q \in Sources : Holds(kind[c], q, c)' <=> Holds(kind[c], q, c)
    BY <1>1, <1>3, <2>1, <2>2 DEF Holds
  <2>7. CountersFollow(c)
    BY <1>1, <1>5, <1>8, <2>1, <2>2, <2>5, <2>6, ActiveStays, SourcesStay, UnverifiedMoves DEF CountersFollow
  <2>8. KeepsLimits(c)  BY <1>1, <1>5, <2>1, <2>5, <2>6, LimitsOfOne
  <2> QED BY <1>4, <2>4, <2>7, <2>8, MoveKeeps
<1> QED BY <1>6, <1>7, <1>8 DEF mark_verified

LEMMA DropKeeps ==
  ASSUME DoorInv, NEW c \in Conns, Drop(c)
  PROVE  DoorInv'
<1> DEFINE r == conns[c] n == conns'[c] s == conns[c].source
<1>1. kind' = kind  BY DEF Drop
<1>2. conns \in [Conns -> ConnStates] /\ r \in ConnStates /\ ConnOK(kind[c], r)  BY ConnFacts
<1>3. s \in Sources /\ r.tasks \in Nat /\ r.tunnels \in Nat /\ kind[c] \in Transports
  BY <1>2, ConnFacts DEF Drop, At, ConnOK, ConnStates
<1>4. RestTyped  BY DEF Drop, RestTyped, DoorInv, DoorTypes
<1>5. /\ {"drop unverified", "drop source"} \subseteq Places /\ "drop" \in Counting
      /\ {"drop unverified", "drop source", "away"} \cap Counting = {}
      /\ {"drop unverified", "drop source", "away"} \cap Passed = {}
  BY DEF Passed, Places, Counting, Admitted
<1>6. CASE /\ At(c, "drop") /\ active_conns' = [active_conns EXCEPT ![kind[c]] = @ - 1]
           /\ Goto(c, "drop unverified") /\ UNCHANGED <<unverified, sources>>
  <2>1. r.pc = "drop"  BY <1>6 DEF At
  <2>2. /\ conns' = [d \in Conns |-> IF d = c THEN n ELSE conns[d]] /\ n \in ConnStates
        /\ n.pc = "drop unverified" /\ n.source = r.source /\ n.held = r.held /\ n.verified = r.verified
        /\ n.slot = r.slot /\ n.tunnels = r.tunnels /\ n.tasks = r.tasks
    BY <1>5, <1>6, GotoFacts
  <2>3. ConnOK(kind[c], n)
    <3> HIDE DEF r, n, s
    <3> QED BY <2>1, <1>2, <1>3, <2>2 DEF ConnOK, Outside, s
  <2>4. OneConnMoves(c)  BY <1>1, <2>2, <2>3 DEF OneConnMoves
  <2>5. (Unsettled(c)' <=> Unsettled(c)) /\ (Waits(c)' <=> Waits(c))
    BY <1>1, <2>1, <2>2 DEF Unsettled, Waits
  <2>6. \A q \in Sources : Holds(kind[c], q, c)' <=> Holds(kind[c], q, c)
    BY <1>1, <2>1, <2>2 DEF Holds
  <2>7. CountersFollow(c)
    BY <1>1, <1>5, <1>6, <2>1, <2>2, <2>5, <2>6, ActiveMoves, SourcesStay, UnverifiedStays DEF CountersFollow
  <2>8. KeepsLimits(c)  BY <1>1, <1>5, <2>2, <2>5, <2>6, LimitsOfOne
  <2> QED BY <1>4, <2>4, <2>7, <2>8, MoveKeeps
<1>7. CASE /\ At(c, "drop unverified")
           /\ unverified' = IF kind[c] = "quic" /\ ~conns[c].verified THEN unverified - 1 ELSE unverified
           /\ Goto(c, "drop source") /\ UNCHANGED <<active_conns, sources>>
  <2>1. r.pc = "drop unverified"  BY <1>7 DEF At
  <2>2. /\ conns' = [d \in Conns |-> IF d = c THEN n ELSE conns[d]] /\ n \in ConnStates
        /\ n.pc = "drop source" /\ n.source = r.source /\ n.held = r.held /\ n.verified = r.verified
        /\ n.slot = r.slot /\ n.tunnels = r.tunnels /\ n.tasks = r.tasks
    BY <1>5, <1>7, GotoFacts
  <2>3. ConnOK(kind[c], n)
    <3> HIDE DEF r, n, s
    <3> QED BY <2>1, <1>2, <1>3, <2>2 DEF ConnOK, Outside, s
  <2>4. OneConnMoves(c)  BY <1>1, <2>2, <2>3 DEF OneConnMoves
  <2>5. (Unsettled(c) <=> kind[c] = "quic" /\ ~r.verified) /\ (~Unsettled(c)') /\ (~Waits(c)')
    BY <1>1, <2>1, <2>2 DEF Unsettled, Waits
  <2>6. \A q \in Sources : Holds(kind[c], q, c)' <=> Holds(kind[c], q, c)
    BY <1>1, <2>1, <2>2 DEF Holds
  <2>7. UnverifiedFollows(c)
    <3>1. CASE kind[c] = "quic" /\ ~r.verified  BY <1>7, <2>5, <3>1, UnverifiedMoves
    <3>2. CASE ~(kind[c] = "quic" /\ ~r.verified)  BY <1>7, <2>5, <3>2, UnverifiedStays
    <3> QED BY <3>1, <3>2
  <2>8. CountersFollow(c)
    BY <1>1, <1>5, <1>7, <2>1, <2>2, <2>6, <2>7, ActiveStays, SourcesStay DEF CountersFollow
  <2>9. KeepsLimits(c)  BY <1>1, <1>5, <2>2, <2>5, <2>6, LimitsOfOne
  <2> QED BY <1>4, <2>4, <2>8, <2>9, MoveKeeps
<1>8. CASE /\ At(c, "drop source")
           /\ sources' = IF conns[c].held THEN [sources EXCEPT ![kind[c]][s] = @ - 1] ELSE sources
           /\ conns' = [conns EXCEPT ![c] = Away] /\ UNCHANGED <<active_conns, unverified>>
  <2>1. r.pc = "drop source"  BY <1>8 DEF At
  <2>2. conns' = [d \in Conns |-> IF d = c THEN n ELSE conns[d]] /\ n = Away  BY <1>2, <1>8
  <2>3. OneConnMoves(c)  BY <1>1, <1>3, <2>2, AwayFacts DEF OneConnMoves
  <2>4. n.pc = "away" /\ ~n.held  BY <2>2, AwayFacts
  <2>5. (~Unsettled(c)) /\ (~Unsettled(c)') /\ (~Waits(c)')  BY <2>1, <2>4 DEF Unsettled, Waits
  <2>6. \A q \in Sources : (~Holds(kind[c], q, c)') /\ (Holds(kind[c], q, c) <=> r.held /\ q = s)
    BY <1>1, <2>1, <2>4 DEF Holds
  <2>7. SourcesFollow(c)
    <3>1. CASE r.held  BY <1>1, <1>3, <1>8, <2>6, <3>1, SourcesMove
    <3>2. CASE ~r.held  BY <1>1, <1>8, <2>6, <3>2, SourcesStay
    <3> QED BY <3>1, <3>2
  <2>8. CountersFollow(c)
    BY <1>1, <1>5, <1>8, <2>1, <2>4, <2>5, <2>7, ActiveStays, UnverifiedStays DEF CountersFollow
  <2>9. KeepsLimits(c)  BY <1>1, <1>5, <2>4, <2>5, <2>6, LimitsOfOne
  <2> QED BY <1>4, <2>3, <2>8, <2>9, MoveKeeps
<1> QED BY <1>6, <1>7, <1>8 DEF Drop

(* A step that moves no connection and no counter. *)
LEMMA IdleKeeps ==
  ASSUME DoorInv, UNCHANGED <<counters, conns>>, RestTyped
  PROVE  DoorInv'
<1>1. /\ kind' = kind /\ conns' = conns /\ active_conns' = active_conns /\ sources' = sources
      /\ unverified' = unverified
  BY DEF counters
<1>2. DoorTypes'  BY <1>1 DEF DoorInv, DoorTypes, RestTyped
<1>3. CountersFit'
  <2>1. \A t \in Transports : In(t, Counting)' = In(t, Counting) /\ In(t, Passed)' = In(t, Passed)
    BY <1>1 DEF In
  <2>2. \A t \in Transports, s \in Sources : Holding(t, s)' = Holding(t, s)  BY <1>1 DEF Holding
  <2>3. Unverified' = Unverified /\ Uncounted' = Uncounted  BY <1>1 DEF Unverified, Uncounted, In
  <2> QED BY <1>1, <2>1, <2>2, <2>3 DEF DoorInv, CountersFit
<1> QED BY <1>1, <1>2, <1>3 DEF DoorInv

LEMMA DoorStep == DoorInv /\ [DoorNext]_door_vars => DoorInv'
<1> SUFFICES ASSUME DoorInv, [DoorNext]_door_vars PROVE DoorInv'  OBVIOUS
<1>1. ASSUME NEW c \in Conns, NEW s \in Sources, AcceptTcp(c, s) \/ AcceptQuic(c, s) PROVE DoorInv'
  BY <1>1, AcceptTcpKeeps, AcceptQuicKeeps
<1>2. ASSUME NEW c \in Conns, Admit(c) PROVE DoorInv'
  BY <1>2, CountActiveKeeps, CountUnverifiedKeeps, UncountUnverifiedKeeps, CountSourceKeeps, UncountKeeps
     DEF Admit
<1>3. ASSUME NEW c \in Conns,
             \/ Forget(c) \/ HandshakeFails(c) \/ HandshakeDone(c) \/ mark_verified(c)
             \/ WebRequest(c) \/ TunnelRequest(c) \/ TunnelStops(c) \/ RequestEnds(c)
             \/ ConnectionStops(c) \/ TasksOver(c) \/ Drop(c) \/ CloseEndpoint(c)
      PROVE DoorInv'
  BY <1>3, ForgetKeeps, HandshakesKeep, MarkVerifiedKeeps, RequestsKeep, EndsKeep, DropKeeps
<1>4. CASE Refill
  <2>1. retry' \in [all : Nat, of : [Sources -> Nat]]
    BY <1>4, DoorAssumption DEF Refill, DoorInv, DoorTypes
  <2>2. RestTyped  BY <1>4, <2>1 DEF Refill, RestTyped, DoorInv, DoorTypes
  <2> QED BY <1>4, <2>2, IdleKeeps DEF Refill
<1>5. CASE TokenCancelled \/ ServeQuinnReturns
  <2>1. RestTyped  BY <1>5 DEF TokenCancelled, ServeQuinnReturns, RestTyped, DoorInv, DoorTypes
  <2> QED BY <1>5, <2>1, IdleKeeps DEF TokenCancelled, ServeQuinnReturns
<1>6. CASE UNCHANGED door_vars
  <2>1. RestTyped  BY <1>6 DEF door_vars, RestTyped, DoorInv, DoorTypes
  <2> QED BY <1>6, <2>1, IdleKeeps DEF door_vars, counters
<1> QED BY <1>1, <1>2, <1>3, <1>4, <1>5, <1>6 DEF DoorNext

LEMMA DoorStart == DoorInit => DoorInv
<1> SUFFICES ASSUME DoorInit PROVE DoorInv  OBVIOUS
<1>1. DoorTypes
  <2>1. kind \in [Conns -> Transports]  BY DoorAssumption DEF DoorInit, Transports
  <2>2. conns \in [Conns -> ConnStates]  BY AwayFacts DEF DoorInit
  <2>3. retry \in [all : Nat, of : [Sources -> Nat]]  BY DoorAssumption DEF DoorInit
  <2> QED BY <2>1, <2>2, <2>3 DEF DoorInit, DoorTypes
<1>2. \A c \in Conns : conns[c] = Away /\ kind[c] \in Transports  BY <1>1 DEF DoorInit, DoorTypes
<1>3. \A c \in Conns : ConnOK(kind[c], conns[c])  BY <1>2, AwayFacts
<1>4. CountersFit
  <2>1. MaxGlobal \in Nat /\ MaxPerSource \in Nat /\ MaxUnverified \in Nat /\ Cardinality({}) = 0
    BY DoorAssumption, FS_EmptySet
  <2>2. \A t \in Transports : In(t, Counting) = {} /\ In(t, Passed) = {}
    BY <1>2, AwayFacts DEF In, Counting, Passed, Admitted
  <2>3. \A t \in Transports, s \in Sources : Holding(t, s) = {}
    BY <1>2, AwayFacts DEF Holding
  <2>4. Unverified = {} /\ Uncounted = {}
    BY <1>2, AwayFacts DEF Unverified, Uncounted, In
  <2>5. \A t \in Transports : active_conns[t] = 0 /\ \A s \in Sources : sources[t][s] = 0
    BY DEF DoorInit
  <2>6. unverified = 0  BY DEF DoorInit
  <2>7. 0 <= MaxGlobal /\ 0 <= MaxPerSource /\ 0 <= MaxUnverified  BY <2>1
  <2>8. \A t \in Transports : /\ active_conns[t] = Cardinality(In(t, Counting))
                              /\ Cardinality(In(t, Passed)) <= MaxGlobal
    BY <2>1, <2>2, <2>5, <2>7
  <2>9. \A t \in Transports, s \in Sources : /\ Cardinality(Holding(t, s)) <= MaxPerSource
                                            /\ sources[t][s] = Cardinality(Holding(t, s))
    BY <2>1, <2>3, <2>5, <2>7
  <2>10. Cardinality(Unverified) <= MaxUnverified /\ unverified = Cardinality(Uncounted)
    BY <2>1, <2>4, <2>6, <2>7
  <2> QED BY <2>8, <2>9, <2>10 DEF CountersFit
<1> QED BY <1>1, <1>3, <1>4 DEF DoorInv

LEMMA DoorInvImplies == DoorInv => AdmissionIsExact
<1> SUFFICES ASSUME DoorInv PROVE AdmissionIsExact  OBVIOUS
<1>1. \A t \in Transports : Cardinality(In(t, Admitted)) <= MaxGlobal
  <2> SUFFICES ASSUME NEW t \in Transports PROVE Cardinality(In(t, Admitted)) <= MaxGlobal  OBVIOUS
  <2>1. In(t, Admitted) \subseteq In(t, Passed) /\ In(t, Passed) \subseteq Conns
    BY DEF In, Passed, Counting, Admitted
  <2>2. IsFiniteSet(In(t, Passed)) /\ IsFiniteSet(In(t, Admitted))  BY <2>1, DoorAssumption, FS_Subset
  <2>3. Cardinality(In(t, Admitted)) <= Cardinality(In(t, Passed))  BY <2>1, <2>2, FS_Subset
  <2>4. Cardinality(In(t, Admitted)) \in Nat /\ Cardinality(In(t, Passed)) \in Nat  BY <2>2, FS_CardinalityType
  <2>5. Cardinality(In(t, Passed)) <= MaxGlobal /\ MaxGlobal \in Nat
    BY DoorAssumption DEF DoorInv, CountersFit
  <2> QED BY <2>3, <2>4, <2>5
<1>2. \A c \in Conns : conns[c].tunnels <= 1 /\ (conns[c].slot <=> conns[c].tunnels = 1)
  BY DEF DoorInv, ConnOK
<1> QED BY <1>1, <1>2 DEF DoorInv, CountersFit, Uncounted, AdmissionIsExact

(* For any number of connections and sources, any limits and any transport *)
(* of each: however the steps of AdmissionController's callers interleave, *)
(* no limit is exceeded, every counter is what the connections account     *)
(* for, and a connection carries one tunnel at most.                       *)
THEOREM AdmissionStaysExact == DoorSpec => []AdmissionIsExact
<1>1. DoorInv /\ [DoorNext]_door_vars => DoorInv'  BY DoorStep
<1> QED BY DoorStart, <1>1, DoorInvImplies, PTL DEF DoorSpec
----------------------------------------------------------------------------
(* The limit on failed authentications: a bucket is worth what its address  *)
(* is spared, whether it is remembered or not.                              *)

Bucket == [tokens : 0..Full, updated : 0..Full, last_seen : 0..IdleExpiry]
ShardStates ==
  [keys : SUBSET Addresses, entries : UNION {[D -> Bucket] : D \in SUBSET Addresses},
   overflow : Bucket \cup {None}, next_prune : Nat, lock : Callers \cup {None}]
CallerStates ==
  {IdleCaller} \cup [pc : {"holds"}, key : Addresses, overflow : BOOLEAN, held : Nat]
  \cup [pc : {"pruned", "claims"}, key : Addresses, dropped : Nat]

GuardTypes ==
  /\ shards \in [Shards -> ShardStates] /\ callers \in [Callers -> CallerStates]
  /\ spared \in [Addresses -> 0..Full]

(* Every address has one shard, and its bucket is there. *)
AtHome ==
  /\ \A k \in Addresses : \E s \in Shards : k \in shards[s].keys
  /\ \A s, t \in Shards : \A k \in Addresses : k \in shards[s].keys /\ k \in shards[t].keys => s = t
  /\ \A s \in Shards : DOMAIN shards[s].entries \subseteq shards[s].keys

(* Who is about to make a bucket has the lock, and there is none yet; who   *)
(* holds a reservation of an overflow bucket finds it again.                *)
CallersFind ==
  \A c \in Callers, s \in Shards :
    callers[c].pc # "idle" /\ callers[c].key \in shards[s].keys =>
      /\ callers[c].pc \in {"pruned", "claims"} =>
           shards[s].lock = c /\ callers[c].key \notin DOMAIN shards[s].entries
      /\ callers[c].pc = "holds" /\ callers[c].overflow => shards[s].overflow \in Bucket

(* A bucket has been refilled for as long as it has not been seen, is worth *)
(* no more than what its address is spared, and an address without a bucket *)
(* has all its tokens.                                                      *)
Worth(b) == Least(b.tokens + b.updated, Full)
SparedEnough ==
  \A s \in Shards :
    /\ \A k \in DOMAIN shards[s].entries :
         /\ shards[s].entries[k].updated = Least(shards[s].entries[k].last_seen, Full)
         /\ Worth(shards[s].entries[k]) <= spared[k]
    /\ \A k \in shards[s].keys \ DOMAIN shards[s].entries : spared[k] = Full

Counted == entries = SumFunctionOnSet(Kept, Shards) + SumFunctionOnSet(Dropped, Callers)
EntriesFit == entries \in Int /\ entries <= MaxEntries /\ Counted

GuardShape == GuardTypes /\ AtHome /\ CallersFind /\ SparedEnough
GuardInv == GuardShape /\ EntriesFit
----------------------------------------------------------------------------
LEMMA FullIsNatural == Full \in Nat /\ Full >= Interval /\ Interval \in Nat \ {0} /\ IdleExpiry >= Full
<1>1. Burst \in Nat /\ Interval \in Nat /\ Burst >= 1 /\ Interval >= 1  BY GuardAssumption
<1>2. Burst * Interval \in Nat  BY <1>1
<1>3. Burst * Interval >= Interval  BY <1>1
<1> QED BY <1>1, <1>2, <1>3, GuardAssumption DEF Full

(* What refilling, refunding and waiting make of a bucket. *)
LEMMA BucketChanges ==
  ASSUME NEW b \in Bucket
  PROVE  /\ refill(b).tokens = Worth(b) /\ Worth(b) \in 0..Full
         /\ Seen(b) = [tokens |-> Worth(b), updated |-> 0, last_seen |-> 0]
         /\ Seen(b) \in Bucket
         /\ Refunded(b) = [tokens |-> Least(Worth(b), Full - Interval) + Interval, updated |-> 0, last_seen |-> 0]
         /\ Refunded(b) \in Bucket
         /\ Older(b) = [tokens |-> b.tokens, updated |-> Least(b.updated + 1, Full),
                        last_seen |-> Least(b.last_seen + 1, IdleExpiry)]
         /\ Older(b) \in Bucket
<1>0. /\ b.tokens \in 0..Full /\ b.updated \in 0..Full /\ b.last_seen \in 0..IdleExpiry
      /\ b = [tokens |-> b.tokens, updated |-> b.updated, last_seen |-> b.last_seen]
  BY DEF Bucket
<1>1. refill(b) = [tokens |-> Worth(b), updated |-> 0, last_seen |-> b.last_seen]
  <2>1. [b EXCEPT !.tokens = Worth(b)] = [tokens |-> Worth(b), updated |-> b.updated, last_seen |-> b.last_seen]
    BY DEF Bucket
  <2>2. ASSUME NEW r, r = [tokens |-> Worth(b), updated |-> b.updated, last_seen |-> b.last_seen]
        PROVE  [r EXCEPT !.updated = 0] = [tokens |-> Worth(b), updated |-> 0, last_seen |-> b.last_seen]
    BY <2>2
  <2> QED BY <2>1, <2>2 DEF refill, Worth
<1>2. Worth(b) \in 0..Full  BY <1>0, FullIsNatural DEF Worth, Least
<1>3. Seen(b) = [tokens |-> Worth(b), updated |-> 0, last_seen |-> 0]  BY <1>1 DEF Seen
<1>4. Refunded(b) = [tokens |-> Least(Worth(b), Full - Interval) + Interval, updated |-> 0, last_seen |-> 0]
  BY <1>3 DEF Refunded
<1>5. Least(Worth(b), Full - Interval) + Interval \in 0..Full
  BY <1>2, FullIsNatural DEF Least
<1>6. Older(b) = [tokens |-> b.tokens, updated |-> Least(b.updated + 1, Full),
                  last_seen |-> Least(b.last_seen + 1, IdleExpiry)]
  <2> DEFINE u == Least(b.updated + 1, Full)
             l == Least(b.last_seen + 1, IdleExpiry)
  <2>1. [b EXCEPT !.updated = u] = [tokens |-> b.tokens, updated |-> u, last_seen |-> b.last_seen]
    BY DEF Bucket
  <2>2. ASSUME NEW r, r = [tokens |-> b.tokens, updated |-> u, last_seen |-> b.last_seen]
        PROVE  [r EXCEPT !.last_seen = l] = [tokens |-> b.tokens, updated |-> u, last_seen |-> l]
    BY <2>2
  <2> QED BY <2>1, <2>2 DEF Older
<1>7. /\ Least(b.updated + 1, Full) \in 0..Full /\ Least(b.last_seen + 1, IdleExpiry) \in 0..IdleExpiry
      /\ 0 \in 0..Full /\ 0 \in 0..IdleExpiry
  BY <1>0, FullIsNatural, GuardAssumption DEF Least
<1>8. refill(b).tokens = Worth(b)  BY <1>1
<1>9. Seen(b) \in Bucket  BY <1>2, <1>3, <1>7 DEF Bucket
<1>10. Refunded(b) \in Bucket  BY <1>4, <1>5, <1>7 DEF Bucket
<1>11. Older(b) \in Bucket  BY <1>0, <1>6, <1>7 DEF Bucket
<1> HIDE DEF Bucket
<1> QED BY <1>2, <1>3, <1>4, <1>6, <1>8, <1>9, <1>10, <1>11

(* The shard of an address is the one that has it. *)
LEMMA HomeOf ==
  ASSUME AtHome, NEW k \in Addresses
  PROVE  /\ ShardOf(k) \in Shards /\ k \in shards[ShardOf(k)].keys
         /\ \A s \in Shards : k \in shards[s].keys => s = ShardOf(k)
BY DEF AtHome, ShardOf

(* A step that changes one shard, and of its addresses' tokens what has to. *)
OnlyShard(s) ==
  /\ shards' \in [Shards -> ShardStates] /\ spared' \in [Addresses -> 0..Full]
  /\ \A t \in Shards \ {s} : shards'[t] = shards[t]
  /\ shards'[s].keys = shards[s].keys
  /\ DOMAIN shards'[s].entries \subseteq shards[s].keys
  /\ \A k \in Addresses \ shards[s].keys : spared'[k] = spared[k]

KeepsTokens(s) ==
  /\ \A k \in DOMAIN shards'[s].entries :
       /\ shards'[s].entries[k].updated = Least(shards'[s].entries[k].last_seen, Full)
       /\ Worth(shards'[s].entries[k]) <= spared'[k]
  /\ \A k \in shards[s].keys \ DOMAIN shards'[s].entries : spared'[k] = Full

LEMMA OneShardHome ==
  ASSUME AtHome, NEW s \in Shards, OnlyShard(s)
  PROVE  AtHome'
<1>1. \A t \in Shards : shards'[t].keys = shards[t].keys  BY DEF OnlyShard
<1>2. \A t \in Shards : DOMAIN shards'[t].entries \subseteq shards'[t].keys  BY <1>1 DEF OnlyShard, AtHome
<1> QED BY <1>1, <1>2 DEF AtHome

LEMMA OneShardSpared ==
  ASSUME GuardTypes, AtHome, SparedEnough, NEW s \in Shards, OnlyShard(s), KeepsTokens(s)
  PROVE  SparedEnough'
<1>1. ASSUME NEW t \in Shards
      PROVE  /\ \A k \in DOMAIN shards'[t].entries :
                  /\ shards'[t].entries[k].updated = Least(shards'[t].entries[k].last_seen, Full)
                  /\ Worth(shards'[t].entries[k]) <= spared'[k]
             /\ \A k \in shards'[t].keys \ DOMAIN shards'[t].entries : spared'[k] = Full
  <2>1. CASE t = s  BY <2>1 DEF OnlyShard, KeepsTokens
  <2>2. CASE t # s
    <3>1. shards'[t] = shards[t]  BY <2>2 DEF OnlyShard
    <3>2. shards[t].keys \subseteq Addresses  BY DEF GuardTypes, ShardStates
    <3>3. \A k \in shards[t].keys : spared'[k] = spared[k]  BY <2>2, <3>2 DEF OnlyShard, AtHome
    <3>4. DOMAIN shards[t].entries \subseteq shards[t].keys  BY DEF AtHome
    <3> QED BY <3>1, <3>3, <3>4 DEF SparedEnough
  <2> QED BY <2>1, <2>2
<1> QED BY <1>1 DEF SparedEnough, Worth

(* The bucket of an address, as the code finds it or makes it. *)
LEMMA EntryIs ==
  ASSUME GuardTypes, NEW s \in Shards
  PROVE  /\ shards[s].keys \subseteq Addresses /\ DOMAIN shards[s].entries \subseteq Addresses
         /\ \A k \in DOMAIN shards[s].entries : shards[s].entries[k] \in Bucket
         /\ IsFiniteSet(DOMAIN shards[s].entries) /\ Cardinality(DOMAIN shards[s].entries) \in Nat
         /\ shards[s].lock \in Callers \cup {None} /\ shards[s].next_prune \in Nat
         /\ shards[s].overflow \in Bucket \cup {None}
         /\ shards[s].entries \in [DOMAIN shards[s].entries -> Bucket]
<1>1. shards[s] \in ShardStates  BY DEF GuardTypes
<1>2. shards[s].entries \in UNION {[D -> Bucket] : D \in SUBSET Addresses}  BY <1>1 DEF ShardStates
<1>3. PICK D \in SUBSET Addresses : shards[s].entries \in [D -> Bucket]  BY <1>2
<1>4. DOMAIN shards[s].entries = D  BY <1>3
<1>5. IsFiniteSet(D)  BY GuardAssumption, FS_Subset
<1>6. Cardinality(D) \in Nat  BY <1>5, FS_CardinalityType
<1> HIDE DEF Bucket
<1> QED BY <1>1, <1>3, <1>4, <1>5, <1>6 DEF ShardStates

LEMMA FreshIs == Fresh \in Bucket /\ Worth(Fresh) = Full
BY FullIsNatural, GuardAssumption DEF Fresh, Bucket, Worth, Least

(* A shard whose fields are right is one. *)
LEMMA ShardStateIs ==
  ASSUME NEW K \in SUBSET Addresses, NEW D \in SUBSET Addresses, NEW f \in [D -> Bucket],
         NEW o \in Bucket \cup {None}, NEW n \in Nat, NEW l \in Callers \cup {None}
  PROVE  [keys |-> K, entries |-> f, overflow |-> o, next_prune |-> n, lock |-> l] \in ShardStates
<1>1. f \in UNION {[E -> Bucket] : E \in SUBSET Addresses}  OBVIOUS
<1> HIDE DEF Bucket
<1> QED BY <1>1 DEF ShardStates
----------------------------------------------------------------------------
(* reserve takes what it took from what the address is spared. *)
LEMMA Charging ==
  ASSUME GuardShape, NEW c \in Callers, NEW k \in Addresses, NEW overflow \in BOOLEAN,
         shards[ShardOf(k)].lock \in {None, c}, Charge(c, k, ShardOf(k), overflow)
  PROVE  /\ GuardShape'
         /\ DOMAIN shards'[ShardOf(k)].entries =
              DOMAIN shards[ShardOf(k)].entries \cup (IF overflow THEN {} ELSE {k})
         /\ \A t \in Shards \ {ShardOf(k)} : shards'[t] = shards[t]
         /\ callers'[c].pc \in {"holds", "idle"} /\ \A d \in Callers \ {c} : callers'[d] = callers[d]
<1> DEFINE s == ShardOf(k)
           old == IF overflow THEN (IF shards[s].overflow = None THEN Fresh ELSE shards[s].overflow)
                  ELSE IF k \in DOMAIN shards[s].entries THEN shards[s].entries[k] ELSE Fresh
           bucket == Seen(old)
           granted == bucket.tokens >= Interval
           b == IF granted THEN [bucket EXCEPT !.tokens = @ - Interval] ELSE bucket
           holds == [pc |-> "holds", key |-> k, overflow |-> overflow, held |-> 0]
<1>0. GuardTypes /\ AtHome /\ CallersFind /\ SparedEnough  BY DEF GuardShape
<1>1. s \in Shards /\ k \in shards[s].keys  BY <1>0, HomeOf
<1>2. /\ shards[s].keys \subseteq Addresses /\ DOMAIN shards[s].entries \subseteq Addresses
      /\ \A j \in DOMAIN shards[s].entries : shards[s].entries[j] \in Bucket
      /\ shards[s].overflow \in Bucket \cup {None}
      /\ shards[s].entries \in [DOMAIN shards[s].entries -> Bucket]
      /\ shards[s].lock \in Callers \cup {None}
  BY <1>0, <1>1, EntryIs
<1>3. old \in Bucket  BY <1>2, FreshIs
<1>4. bucket = [tokens |-> Worth(old), updated |-> 0, last_seen |-> 0] /\ Worth(old) \in 0..Full
  BY <1>3, BucketChanges
<1>5. /\ b = [tokens |-> IF granted THEN Worth(old) - Interval ELSE Worth(old), updated |-> 0, last_seen |-> 0]
      /\ granted <=> Worth(old) >= Interval
  BY <1>4
<1>6. b \in Bucket /\ b.updated = 0 /\ b.last_seen = 0 /\ Worth(b) = b.tokens
  BY <1>4, <1>5, FullIsNatural, GuardAssumption DEF Bucket, Worth, Least
<1>7. b.tokens = IF granted THEN Worth(old) - Interval ELSE Worth(old)  BY <1>5
<1>8. ~overflow => Worth(old) <= spared[k]
  <2>1. CASE k \in DOMAIN shards[s].entries  BY <1>0, <1>1, <2>1 DEF SparedEnough
  <2>2. CASE k \notin DOMAIN shards[s].entries
    <3>1. spared[k] = Full  BY <1>0, <1>1, <2>2 DEF SparedEnough
    <3> QED BY <1>4, <3>1, FullIsNatural
  <2> QED BY <2>1, <2>2
<1>9. /\ shards' = [shards EXCEPT ![s].overflow = IF overflow THEN b ELSE @,
                                  ![s].entries = IF overflow THEN @ ELSE With(@, k, b),
                                  ![s].lock = None]
      /\ callers' = [callers EXCEPT ![c] = IF granted THEN holds ELSE IdleCaller]
      /\ spared' = IF granted /\ ~overflow THEN [spared EXCEPT ![k] = @ - Interval] ELSE spared
  BY DEF Charge
<1> HIDE DEF old, bucket, granted, b, Bucket
<1>10. /\ shards \in [Shards -> ShardStates] /\ callers \in [Callers -> CallerStates]
       /\ spared \in [Addresses -> 0..Full]
  BY <1>0 DEF GuardTypes
<1>11. /\ \A t \in Shards \ {s} : shards'[t] = shards[t]
       /\ shards'[s].keys = shards[s].keys /\ shards'[s].next_prune = shards[s].next_prune
       /\ shards'[s].overflow = (IF overflow THEN b ELSE shards[s].overflow)
       /\ shards'[s].entries = (IF overflow THEN shards[s].entries ELSE With(shards[s].entries, k, b))
       /\ shards'[s].lock = None
  <2> HIDE DEF s
  <2>1. s \in Shards /\ shards[s] \in ShardStates  BY <1>1, <1>10
  <2> QED BY <1>9, <1>10, <2>1 DEF ShardStates
<1>11a. shards' \in [Shards -> ShardStates]
  <2> DEFINE e == IF overflow THEN shards[s].entries ELSE With(shards[s].entries, k, b)
             o == IF overflow THEN b ELSE shards[s].overflow
             Maps == UNION {[D -> Bucket] : D \in SUBSET Addresses}
  <2>1. o \in Bucket \cup {None}  BY <1>2, <1>6
  <2>2. e \in Maps
    <3>1. CASE overflow  BY <1>2, <3>1
    <3>2. CASE ~overflow
      <4>1. e \in [DOMAIN shards[s].entries \cup {k} -> Bucket]  BY <1>2, <1>6, <3>2 DEF With
      <4>2. DOMAIN shards[s].entries \cup {k} \in SUBSET Addresses  BY <1>2
      <4> HIDE DEF e
      <4> QED BY <4>1, <4>2
    <3> QED BY <3>1, <3>2
  <2>3. shards' = [shards EXCEPT ![s].overflow = o, ![s].entries = e, ![s].lock = None]  BY <1>9
  <2> HIDE DEF e, o, s, Maps
  <2>4. s \in Shards /\ shards[s] \in ShardStates  BY <1>1, <1>10 DEF s
  <2>5. ShardStates = [keys : SUBSET Addresses, entries : Maps, overflow : Bucket \cup {None},
                       next_prune : Nat, lock : Callers \cup {None}]
    BY DEF ShardStates, Maps
  <2> QED BY <1>10, <2>1, <2>2, <2>3, <2>4, <2>5
<1>12. /\ OnlyShard(s) /\ KeepsTokens(s) /\ shards'[s].lock = None
       /\ DOMAIN shards'[s].entries = DOMAIN shards[s].entries \cup (IF overflow THEN {} ELSE {k})
       /\ shards'[s].overflow = IF overflow THEN b ELSE shards[s].overflow
  <2>1. CASE overflow
    <3>1. /\ shards'[s].keys = shards[s].keys /\ shards'[s].entries = shards[s].entries
          /\ shards'[s].overflow = b /\ shards'[s].lock = None
      BY <1>11, <2>1
    <3>2. spared' = spared  BY <1>9, <2>1
    <3>3. OnlyShard(s)
      BY <1>0, <1>1, <1>10, <1>11, <1>11a, <3>1, <3>2 DEF OnlyShard, AtHome
    <3>4. KeepsTokens(s)
      BY <1>0, <1>1, <3>1, <3>2 DEF KeepsTokens, SparedEnough
    <3> QED BY <2>1, <3>1, <3>3, <3>4
  <2>2. CASE ~overflow
    <3> DEFINE f == With(shards[s].entries, k, b)
    <3>1. /\ f \in [DOMAIN shards[s].entries \cup {k} -> Bucket] /\ DOMAIN f = DOMAIN shards[s].entries \cup {k}
          /\ f[k] = b /\ \A j \in DOMAIN shards[s].entries \ {k} : f[j] = shards[s].entries[j]
      BY <1>2, <1>6 DEF With
    <3>4. /\ shards'[s].keys = shards[s].keys /\ shards'[s].entries = f
          /\ shards'[s].overflow = shards[s].overflow /\ shards'[s].lock = None
      BY <1>11, <2>2
    <3> HIDE DEF f
    <3>5. /\ spared' \in [Addresses -> 0..Full] /\ \A j \in Addresses \ {k} : spared'[j] = spared[j]
          /\ b.tokens <= spared'[k]
      <4>1. spared[k] \in 0..Full /\ Worth(old) <= spared[k]  BY <1>8, <1>10, <2>2
      <4>2. CASE granted
        <5>1. spared' = [spared EXCEPT ![k] = @ - Interval]  BY <1>9, <2>2, <4>2
        <5>2. spared[k] - Interval \in 0..Full  BY <1>4, <1>5, <4>1, <4>2, FullIsNatural
        <5>3. b.tokens <= spared[k] - Interval  BY <1>4, <1>7, <4>1, <4>2, FullIsNatural
        <5> QED BY <1>10, <5>1, <5>2, <5>3
      <4>3. CASE ~granted
        BY <1>7, <1>9, <1>10, <4>1, <4>3
      <4> QED BY <4>2, <4>3
    <3>6. OnlyShard(s)
      <4>1. DOMAIN f \subseteq shards[s].keys  BY <1>0, <1>1, <3>1 DEF AtHome
      <4> QED BY <1>1, <1>11, <1>11a, <3>4, <3>5, <4>1 DEF OnlyShard
    <3>7. KeepsTokens(s)
      <4>1. ASSUME NEW j \in DOMAIN f
            PROVE  f[j].updated = Least(f[j].last_seen, Full) /\ Worth(f[j]) <= spared'[j]
        <5>1. CASE j = k
          BY <1>6, <3>1, <3>5, <5>1, FullIsNatural DEF Least
        <5>2. CASE j # k
          BY <1>0, <1>1, <1>2, <3>1, <3>5, <5>2 DEF SparedEnough
        <5> QED BY <5>1, <5>2
      <4>2. ASSUME NEW j \in shards[s].keys \ DOMAIN f PROVE spared'[j] = Full
        BY <1>0, <1>1, <1>2, <3>1, <3>5 DEF SparedEnough
      <4> QED BY <3>4, <4>1, <4>2 DEF KeepsTokens
    <3> QED BY <2>2, <3>1, <3>4, <3>6, <3>7
  <2> QED BY <2>1, <2>2
<1>13. AtHome' /\ SparedEnough'
  BY <1>0, <1>1, <1>12, OneShardHome, OneShardSpared
<1>14. /\ callers' \in [Callers -> CallerStates] /\ callers'[c].pc \in {"holds", "idle"}
       /\ callers'[c] = (IF granted THEN holds ELSE IdleCaller)
       /\ \A d \in Callers \ {c} : callers'[d] = callers[d]
  <2>1. holds \in CallerStates /\ IdleCaller \in CallerStates  BY DEF CallerStates
  <2>2. holds.pc = "holds" /\ IdleCaller.pc = "idle"  BY DEF IdleCaller
  <2> HIDE DEF holds, CallerStates, IdleCaller
  <2> QED BY <1>9, <1>10, <2>1, <2>2
<1>15. GuardTypes'  BY <1>12, <1>14 DEF GuardTypes, OnlyShard
<1>16. ASSUME NEW d \in Callers, NEW t \in Shards, callers'[d].pc # "idle", callers'[d].key \in shards'[t].keys
       PROVE  /\ callers'[d].pc \in {"pruned", "claims"} =>
                   shards'[t].lock = d /\ callers'[d].key \notin DOMAIN shards'[t].entries
              /\ callers'[d].pc = "holds" /\ callers'[d].overflow => shards'[t].overflow \in Bucket
  <2>1. shards'[t].keys = shards[t].keys  BY <1>11, <1>12 DEF OnlyShard
  <2>2. CASE d = c
    <3>1. callers'[d] = holds  BY <1>14, <1>16, <2>2 DEF IdleCaller
    <3>2. callers'[d].pc = "holds" /\ callers'[d].overflow = overflow /\ callers'[d].key = k  BY <3>1
    <3>3. t = s  BY <1>0, <1>16, <2>1, <3>2, HomeOf
    <3> QED BY <1>6, <1>12, <3>2, <3>3
  <2>3. CASE d # c
    <3>1. callers'[d] = callers[d]  BY <1>14, <2>3
    <3>2. /\ callers[d].pc \in {"pruned", "claims"} =>
               shards[t].lock = d /\ callers[d].key \notin DOMAIN shards[t].entries
          /\ callers[d].pc = "holds" /\ callers[d].overflow => shards[t].overflow \in Bucket
      BY <1>0, <1>16, <2>1, <3>1 DEF CallersFind
    <3>3. CASE t = s
      <4>1. shards[t].lock # d  BY <2>3, <3>3, GuardAssumption
      <4> QED BY <1>6, <1>12, <3>1, <3>2, <3>3, <4>1
    <3>4. CASE t # s  BY <1>11, <3>1, <3>2, <3>4
    <3> QED BY <3>3, <3>4
  <2> QED BY <2>2, <2>3
<1>17. CallersFind'  BY <1>16 DEF CallersFind, Bucket
<1> QED BY <1>11, <1>12, <1>13, <1>14, <1>15, <1>17 DEF GuardShape

(* Dropping idle buckets takes nothing from anybody: they were full. *)
LEMMA Reserving ==
  ASSUME GuardShape, NEW c \in Callers, NEW k \in Addresses, ReserveNew(c, k)
  PROVE  /\ GuardShape' /\ callers[c].pc = "idle"
         /\ \E dropped \in SUBSET DOMAIN shards[ShardOf(k)].entries :
              /\ DOMAIN shards'[ShardOf(k)].entries = DOMAIN shards[ShardOf(k)].entries \ dropped
              /\ \A t \in Shards \ {ShardOf(k)} : shards'[t] = shards[t]
              /\ callers'[c].dropped = Cardinality(dropped) /\ callers'[c].pc \in {"pruned", "claims"}
              /\ callers'[c].pc = "claims" => dropped = {}
              /\ \A d \in Callers \ {c} : callers'[d] = callers[d]
<1> DEFINE s == ShardOf(k)
           due == shards[s].next_prune = 0
           dropped == IF due THEN Expired(s) ELSE {}
           e == Without(shards[s].entries, dropped)
           p == IF due THEN PruneInterval ELSE shards[s].next_prune
           new == [pc |-> IF due THEN "pruned" ELSE "claims", key |-> k, dropped |-> Cardinality(dropped)]
           Maps == UNION {[D -> Bucket] : D \in SUBSET Addresses}
<1>0. GuardTypes /\ AtHome /\ CallersFind /\ SparedEnough  BY DEF GuardShape
<1>1. s \in Shards /\ k \in shards[s].keys  BY <1>0, HomeOf
<1>2. /\ shards[s].keys \subseteq Addresses /\ DOMAIN shards[s].entries \subseteq Addresses
      /\ \A j \in DOMAIN shards[s].entries : shards[s].entries[j] \in Bucket
      /\ shards[s].entries \in [DOMAIN shards[s].entries -> Bucket]
      /\ IsFiniteSet(DOMAIN shards[s].entries) /\ shards[s].next_prune \in Nat
  BY <1>0, <1>1, EntryIs
<1>3. /\ callers[c].pc = "idle" /\ shards[s].lock = None /\ k \notin DOMAIN shards[s].entries
      /\ shards' = [shards EXCEPT ![s].lock = c, ![s].entries = Without(@, dropped),
                                  ![s].next_prune = IF due THEN PruneInterval ELSE @]
      /\ callers' = [callers EXCEPT ![c] = new] /\ spared' = spared
  BY DEF ReserveNew
<1>4. shards' = [shards EXCEPT ![s].lock = c, ![s].entries = e, ![s].next_prune = p]
  BY <1>3
<1>5. dropped \subseteq DOMAIN shards[s].entries  BY DEF Expired
<1>6. Cardinality(dropped) \in Nat  BY <1>2, <1>5, FS_Subset, FS_CardinalityType
<1>7. /\ DOMAIN e = DOMAIN shards[s].entries \ dropped
      /\ \A j \in DOMAIN e : e[j] = shards[s].entries[j] /\ e[j] \in Bucket
      /\ e \in [DOMAIN e -> Bucket]
  BY <1>2 DEF Without
<1>8. \A j \in dropped : shards[s].entries[j].last_seen >= IdleExpiry
  BY DEF Expired
<1>9. new \in CallerStates /\ new.pc \in {"pruned", "claims"} /\ new.key = k /\ new.dropped = Cardinality(dropped)
      /\ (new.pc = "claims" => dropped = {})
  <2>1. new \in [pc : {"pruned", "claims"}, key : Addresses, dropped : Nat]  BY <1>6
  <2>2. new.pc = (IF due THEN "pruned" ELSE "claims") /\ new.key = k /\ new.dropped = Cardinality(dropped)  OBVIOUS
  <2>3. ~due => dropped = {}  OBVIOUS
  <2> HIDE DEF new, due, dropped
  <2> QED BY <2>1, <2>2, <2>3 DEF CallerStates
<1>10. e \in Maps /\ p \in Nat
  <2>1. DOMAIN e \in SUBSET Addresses  BY <1>2, <1>7
  <2> QED BY <1>2, <1>7, <2>1, GuardAssumption
<1> HIDE DEF Bucket, e, p, dropped, due, new
<1>11. /\ shards \in [Shards -> ShardStates] /\ callers \in [Callers -> CallerStates]
       /\ spared \in [Addresses -> 0..Full]
  BY <1>0 DEF GuardTypes
<1>12. /\ shards' \in [Shards -> ShardStates] /\ \A t \in Shards \ {s} : shards'[t] = shards[t]
       /\ shards'[s].keys = shards[s].keys /\ shards'[s].entries = e /\ shards'[s].lock = c
       /\ shards'[s].overflow = shards[s].overflow
  <2> HIDE DEF s, Maps
  <2>1. ShardStates = [keys : SUBSET Addresses, entries : Maps, overflow : Bucket \cup {None},
                       next_prune : Nat, lock : Callers \cup {None}]
    BY DEF ShardStates, Maps
  <2>2. s \in Shards /\ shards[s] \in ShardStates  BY <1>1, <1>11
  <2> QED BY <1>4, <1>10, <1>11, <2>1, <2>2
<1>13. OnlyShard(s)
  <2>1. DOMAIN e \subseteq shards[s].keys  BY <1>0, <1>1, <1>7 DEF AtHome
  <2> QED BY <1>3, <1>11, <1>12, <2>1 DEF OnlyShard
<1>14. KeepsTokens(s)
  <2>1. ASSUME NEW j \in DOMAIN e
        PROVE  e[j].updated = Least(e[j].last_seen, Full) /\ Worth(e[j]) <= spared'[j]
    BY <1>0, <1>1, <1>3, <1>7 DEF SparedEnough
  <2>2. ASSUME NEW j \in shards[s].keys \ DOMAIN e PROVE spared'[j] = Full
    <3>1. CASE j \notin DOMAIN shards[s].entries  BY <1>0, <1>1, <1>3, <3>1 DEF SparedEnough
    <3>2. CASE j \in DOMAIN shards[s].entries
      <4> DEFINE b == shards[s].entries[j]
      <4>1. b \in Bucket /\ j \in Addresses  BY <1>2, <3>2
      <4>2. b.last_seen >= IdleExpiry  BY <1>7, <1>8, <2>2, <3>2
      <4>3. b.updated = Least(b.last_seen, Full) /\ Worth(b) <= spared[j]  BY <1>0, <1>1, <3>2 DEF SparedEnough
      <4> HIDE DEF b
      <4>4. b.tokens \in Nat /\ b.last_seen \in Nat  BY <4>1, FullIsNatural, GuardAssumption DEF Bucket
      <4>5. Worth(b) = Full  BY <4>2, <4>3, <4>4, FullIsNatural, GuardAssumption DEF Worth, Least
      <4>6. spared[j] \in 0..Full  BY <1>11, <4>1
      <4> QED BY <1>3, <4>3, <4>5, <4>6, FullIsNatural
    <3> QED BY <3>1, <3>2
  <2> QED BY <1>12, <2>1, <2>2 DEF KeepsTokens
<1>15. AtHome' /\ SparedEnough'  BY <1>0, <1>1, <1>13, <1>14, OneShardHome, OneShardSpared
<1>16. callers' \in [Callers -> CallerStates] /\ callers'[c] = new /\ \A d \in Callers \ {c} : callers'[d] = callers[d]
  BY <1>3, <1>9, <1>11
<1>17. GuardTypes'  BY <1>3, <1>11, <1>12, <1>16 DEF GuardTypes
<1>18. ASSUME NEW d \in Callers, NEW t \in Shards, callers'[d].pc # "idle", callers'[d].key \in shards'[t].keys
       PROVE  /\ callers'[d].pc \in {"pruned", "claims"} =>
                   shards'[t].lock = d /\ callers'[d].key \notin DOMAIN shards'[t].entries
              /\ callers'[d].pc = "holds" /\ callers'[d].overflow => shards'[t].overflow \in Bucket
  <2>1. shards'[t].keys = shards[t].keys  BY <1>12
  <2>2. CASE d = c
    <3>1. callers'[d].pc # "holds" /\ callers'[d].key = k  BY <1>9, <1>16, <2>2
    <3>2. t = s  BY <1>0, <1>18, <2>1, <3>1, HomeOf
    <3> QED BY <1>3, <1>7, <1>12, <2>2, <3>1, <3>2
  <2>3. CASE d # c
    <3>1. callers'[d] = callers[d]  BY <1>16, <2>3
    <3>2. /\ callers[d].pc \in {"pruned", "claims"} =>
               shards[t].lock = d /\ callers[d].key \notin DOMAIN shards[t].entries
          /\ callers[d].pc = "holds" /\ callers[d].overflow => shards[t].overflow \in Bucket
      BY <1>0, <1>18, <2>1, <3>1 DEF CallersFind
    <3>3. CASE t = s
      <4>1. shards[t].lock # d  BY <1>3, <3>3, GuardAssumption
      <4> QED BY <1>12, <3>1, <3>2, <3>3, <4>1
    <3>4. CASE t # s  BY <1>12, <3>1, <3>2, <3>4
    <3> QED BY <3>3, <3>4
  <2> QED BY <2>2, <2>3
<1>19. CallersFind'  BY <1>18 DEF CallersFind, Bucket
<1> QED
  <2>1. GuardShape'  BY <1>15, <1>17, <1>19 DEF GuardShape
  <2> QED BY <1>3, <1>5, <1>7, <1>9, <1>12, <1>16, <2>1

(* A refund gives the bucket no more than what it gives to the address. *)
LEMMA Refunding ==
  ASSUME GuardShape, NEW c \in Callers, refund(c)
  PROVE  /\ GuardShape' /\ \A t \in Shards : DOMAIN shards'[t].entries = DOMAIN shards[t].entries
         /\ callers[c].pc # "pruned" /\ callers'[c].pc # "pruned"
         /\ \A d \in Callers \ {c} : callers'[d] = callers[d]
<1> DEFINE k == callers[c].key
           s == ShardOf(k)
           overflow == callers[c].overflow
           o == IF overflow THEN Refunded(shards[s].overflow) ELSE shards[s].overflow
           e == [j \in DOMAIN shards[s].entries |-> IF j = k /\ ~overflow THEN Refunded(shards[s].entries[j])
                                                    ELSE shards[s].entries[j]]
           more == Least(spared[k], Full - Interval) + Interval
           Maps == UNION {[D -> Bucket] : D \in SUBSET Addresses}
<1>0. GuardTypes /\ AtHome /\ CallersFind /\ SparedEnough  BY DEF GuardShape
<1>a. /\ shards \in [Shards -> ShardStates] /\ callers \in [Callers -> CallerStates]
      /\ spared \in [Addresses -> 0..Full]
  BY <1>0 DEF GuardTypes
<1>b. callers[c].pc = "holds" /\ shards[s].lock = None  BY DEF refund
<1>c. k \in Addresses /\ overflow \in BOOLEAN  BY <1>a, <1>b DEF CallerStates, IdleCaller
<1>1. s \in Shards /\ k \in shards[s].keys /\ \A t \in Shards : k \in shards[t].keys => t = s
  BY <1>0, <1>c, HomeOf
<1>2. /\ shards[s].keys \subseteq Addresses /\ DOMAIN shards[s].entries \subseteq Addresses
      /\ \A j \in DOMAIN shards[s].entries : shards[s].entries[j] \in Bucket
      /\ shards[s].entries \in [DOMAIN shards[s].entries -> Bucket]
      /\ shards[s].overflow \in Bucket \cup {None}
  BY <1>0, <1>1, EntryIs
<1>3. /\ shards' = [shards EXCEPT ![s].overflow = IF overflow THEN Refunded(@) ELSE @,
                                  ![s].entries = [j \in DOMAIN @ |-> IF j = k /\ ~overflow THEN Refunded(@[j])
                                                                     ELSE @[j]]]
      /\ callers' = [callers EXCEPT ![c] = IdleCaller]
      /\ spared' = IF overflow THEN spared ELSE [spared EXCEPT ![k] = Least(@, Full - Interval) + Interval]
  BY DEF refund
<1>4. shards' = [shards EXCEPT ![s].overflow = o, ![s].entries = e]  BY <1>3
<1>5. overflow => shards[s].overflow \in Bucket  BY <1>0, <1>1, <1>b DEF CallersFind
<1>6. o \in Bucket \cup {None} /\ (shards[s].overflow \in Bucket => o \in Bucket)
  BY <1>2, <1>5, BucketChanges
<1>7. DOMAIN e = DOMAIN shards[s].entries /\ e \in [DOMAIN shards[s].entries -> Bucket]
  <2>1. \A j \in DOMAIN shards[s].entries : Refunded(shards[s].entries[j]) \in Bucket  BY <1>2, BucketChanges
  <2> HIDE DEF k, overflow, s, Bucket
  <2> QED BY <1>2, <2>1
<1>8. e \in Maps  BY <1>2, <1>7
<1>9. /\ \A j \in DOMAIN e \ {k} : e[j] = shards[s].entries[j]
      /\ overflow => \A j \in DOMAIN e : e[j] = shards[s].entries[j]
      /\ ~overflow /\ k \in DOMAIN e => e[k] = Refunded(shards[s].entries[k])
  OBVIOUS
<1>10. spared[k] \in 0..Full  BY <1>a, <1>c
<1>11. more \in 0..Full /\ more >= spared[k] /\ (spared[k] = Full => more = Full)
  <2> HIDE DEF k
  <2> QED BY <1>10, FullIsNatural DEF Least
<1>12. /\ spared' \in [Addresses -> 0..Full] /\ \A j \in Addresses \ {k} : spared'[j] = spared[j]
       /\ overflow => spared' = spared
       /\ ~overflow => spared'[k] = more
  <2>1. CASE overflow  BY <1>a, <1>3, <2>1
  <2>2. CASE ~overflow
    <3>1. spared' = [spared EXCEPT ![k] = more]  BY <1>3, <2>2
    <3> HIDE DEF more, k
    <3> QED BY <1>a, <1>c, <1>11, <2>2, <3>1
  <2> QED BY <2>1, <2>2
<1> HIDE DEF Bucket, e, o, k, overflow, s
<1>13. /\ shards' \in [Shards -> ShardStates] /\ \A t \in Shards \ {s} : shards'[t] = shards[t]
       /\ shards'[s].keys = shards[s].keys /\ shards'[s].entries = e /\ shards'[s].lock = shards[s].lock
       /\ shards'[s].overflow = o
  <2> HIDE DEF Maps
  <2>1. ShardStates = [keys : SUBSET Addresses, entries : Maps, overflow : Bucket \cup {None},
                       next_prune : Nat, lock : Callers \cup {None}]
    BY DEF ShardStates, Maps
  <2>2. s \in Shards /\ shards[s] \in ShardStates  BY <1>1, <1>a
  <2> QED BY <1>4, <1>6, <1>8, <1>a, <2>1, <2>2
<1>14. OnlyShard(s)
  <2>1. DOMAIN e \subseteq shards[s].keys  BY <1>0, <1>1, <1>7 DEF AtHome
  <2> QED BY <1>1, <1>12, <1>13, <2>1 DEF OnlyShard
<1>15. KeepsTokens(s)
  <2>1. ASSUME NEW j \in DOMAIN e
        PROVE  e[j].updated = Least(e[j].last_seen, Full) /\ Worth(e[j]) <= spared'[j]
    <3>1. /\ shards[s].entries[j].updated = Least(shards[s].entries[j].last_seen, Full)
          /\ Worth(shards[s].entries[j]) <= spared[j] /\ j \in Addresses /\ shards[s].entries[j] \in Bucket
      BY <1>0, <1>1, <1>2, <1>7 DEF SparedEnough
    <3>2. CASE overflow \/ j # k  BY <1>9, <1>12, <3>1, <3>2
    <3>3. CASE ~overflow /\ j = k
      <4> DEFINE b == shards[s].entries[k]
                 r == [tokens |-> Least(Worth(b), Full - Interval) + Interval, updated |-> 0, last_seen |-> 0]
      <4>1. e[j] = r  BY <1>9, <3>1, <3>3, BucketChanges
      <4>2. Worth(b) \in 0..Full /\ Worth(b) <= spared[k]  BY <3>1, <3>3, BucketChanges
      <4>3. r.updated = 0 /\ r.last_seen = 0 /\ r.tokens = Least(Worth(b), Full - Interval) + Interval  OBVIOUS
      <4>4. spared'[j] = Least(spared[k], Full - Interval) + Interval  BY <1>12, <3>3
      <4> HIDE DEF b, r
      <4>5. e[j].updated = Least(e[j].last_seen, Full)  BY <4>1, <4>3, FullIsNatural DEF Least
      <4>6. Least(Worth(b), Full - Interval) + Interval \in 0..Full
        BY <4>2, FullIsNatural DEF Least
      <4>7. Worth(r) = r.tokens  BY <4>3, <4>6, FullIsNatural DEF Worth, Least
      <4>8. r.tokens <= Least(spared[k], Full - Interval) + Interval
        BY <1>10, <4>2, <4>3, FullIsNatural DEF Least
      <4> QED BY <4>1, <4>4, <4>5, <4>7, <4>8
    <3> QED BY <3>2, <3>3
  <2>2. ASSUME NEW j \in shards[s].keys \ DOMAIN e PROVE spared'[j] = Full
    <3>1. spared[j] = Full /\ j \in Addresses  BY <1>0, <1>1, <1>2, <1>7 DEF SparedEnough
    <3> QED BY <1>11, <1>12, <3>1
  <2> QED BY <1>13, <2>1, <2>2 DEF KeepsTokens
<1>16. AtHome' /\ SparedEnough'  BY <1>0, <1>1, <1>14, <1>15, OneShardHome, OneShardSpared
<1>17. callers' \in [Callers -> CallerStates] /\ callers'[c].pc = "idle" /\ \A d \in Callers \ {c} : callers'[d] = callers[d]
  <2>1. IdleCaller \in CallerStates /\ IdleCaller.pc = "idle"  BY DEF CallerStates, IdleCaller
  <2> HIDE DEF CallerStates, IdleCaller
  <2> QED BY <1>3, <1>a, <2>1
<1>18. GuardTypes'  BY <1>12, <1>13, <1>17 DEF GuardTypes
<1>19. ASSUME NEW d \in Callers, NEW t \in Shards, callers'[d].pc # "idle", callers'[d].key \in shards'[t].keys
       PROVE  /\ callers'[d].pc \in {"pruned", "claims"} =>
                   shards'[t].lock = d /\ callers'[d].key \notin DOMAIN shards'[t].entries
              /\ callers'[d].pc = "holds" /\ callers'[d].overflow => shards'[t].overflow \in Bucket
  <2>1. shards'[t].keys = shards[t].keys  BY <1>13
  <2>2. d # c /\ callers'[d] = callers[d]  BY <1>17, <1>19
  <2>3. /\ callers[d].pc \in {"pruned", "claims"} =>
             shards[t].lock = d /\ callers[d].key \notin DOMAIN shards[t].entries
        /\ callers[d].pc = "holds" /\ callers[d].overflow => shards[t].overflow \in Bucket
    BY <1>0, <1>19, <2>1, <2>2 DEF CallersFind
  <2>4. CASE t = s  BY <1>6, <1>7, <1>13, <2>2, <2>3, <2>4
  <2>5. CASE t # s  BY <1>13, <2>2, <2>3, <2>5
  <2> QED BY <2>4, <2>5
<1>20. CallersFind'  BY <1>19 DEF CallersFind, Bucket
<1>21. \A t \in Shards : DOMAIN shards'[t].entries = DOMAIN shards[t].entries  BY <1>7, <1>13
<1> QED BY <1>b, <1>16, <1>17, <1>18, <1>20, <1>21 DEF GuardShape

(* Time refills the buckets and what the addresses are spared alike. *)
LEMMA Ticking ==
  ASSUME GuardShape, GuardTick
  PROVE  /\ GuardShape' /\ \A t \in Shards : DOMAIN shards'[t].entries = DOMAIN shards[t].entries
         /\ \A d \in Callers : callers[d].pc # "pruned" /\ callers'[d].pc # "pruned"
<1> DEFINE o(s) == IF shards[s].overflow = None THEN None ELSE Older(shards[s].overflow)
           e(s) == [k \in DOMAIN shards[s].entries |-> Older(shards[s].entries[k])]
           p(s) == IF shards[s].next_prune = 0 THEN 0 ELSE shards[s].next_prune - 1
           Maps == UNION {[D -> Bucket] : D \in SUBSET Addresses}
<1>0. GuardTypes /\ AtHome /\ CallersFind /\ SparedEnough  BY DEF GuardShape
<1>a. /\ shards \in [Shards -> ShardStates] /\ callers \in [Callers -> CallerStates]
      /\ spared \in [Addresses -> 0..Full]
  BY <1>0 DEF GuardTypes
<1>1. /\ \A s \in Shards : shards[s].lock = None
      /\ shards' = [s \in Shards |->
           [shards[s] EXCEPT !.entries = [k \in DOMAIN @ |-> Older(@[k])],
                             !.overflow = IF @ = None THEN None ELSE Older(@),
                             !.next_prune = IF @ = 0 THEN 0 ELSE @ - 1]]
      /\ callers' = [c \in Callers |->
           IF callers[c].pc = "holds" THEN [callers[c] EXCEPT !.held = @ + 1] ELSE callers[c]]
      /\ spared' = [k \in Addresses |-> Least(spared[k] + 1, Full)]
  BY DEF GuardTick
<1>2. \A s \in Shards : shards'[s] = [shards[s] EXCEPT !.entries = e(s), !.overflow = o(s), !.next_prune = p(s)]
  BY <1>1
<1>3. ASSUME NEW s \in Shards
      PROVE  /\ shards'[s] \in ShardStates /\ shards'[s].keys = shards[s].keys
             /\ shards'[s].entries = e(s) /\ shards'[s].overflow = o(s) /\ shards'[s].lock = None
             /\ DOMAIN e(s) = DOMAIN shards[s].entries
             /\ \A k \in DOMAIN e(s) : e(s)[k] = Older(shards[s].entries[k]) /\ shards[s].entries[k] \in Bucket
             /\ shards[s].overflow \in Bucket => o(s) \in Bucket
  <2>1. /\ DOMAIN shards[s].entries \subseteq Addresses
        /\ \A k \in DOMAIN shards[s].entries : shards[s].entries[k] \in Bucket
        /\ shards[s].next_prune \in Nat /\ shards[s].overflow \in Bucket \cup {None}
    BY <1>0, EntryIs
  <2>2. o(s) \in Bucket \cup {None} /\ (shards[s].overflow \in Bucket => o(s) \in Bucket)
    BY <2>1, BucketChanges
  <2>3. e(s) \in [DOMAIN shards[s].entries -> Bucket] /\ p(s) \in Nat  BY <2>1, BucketChanges
  <2>4. e(s) \in Maps  BY <2>1, <2>3
  <2>5. ShardStates = [keys : SUBSET Addresses, entries : Maps, overflow : Bucket \cup {None},
                       next_prune : Nat, lock : Callers \cup {None}]
    BY DEF ShardStates
  <2>6. /\ DOMAIN e(s) = DOMAIN shards[s].entries
        /\ \A k \in DOMAIN e(s) : e(s)[k] = Older(shards[s].entries[k]) /\ shards[s].entries[k] \in Bucket
    BY <2>1
  <2>7. /\ shards'[s] = [shards[s] EXCEPT !.entries = e(s), !.overflow = o(s), !.next_prune = p(s)]
        /\ shards[s].lock = None /\ shards[s] \in ShardStates
    BY <1>a, <1>1, <1>2
  <2> HIDE DEF o, e, p, Maps, Bucket
  <2>8. /\ shards'[s] \in ShardStates /\ shards'[s].keys = shards[s].keys
        /\ shards'[s].entries = e(s) /\ shards'[s].overflow = o(s) /\ shards'[s].lock = None
    BY <2>2, <2>3, <2>4, <2>5, <2>7
  <2> QED BY <2>2, <2>6, <2>8
<1>4. ASSUME NEW d \in Callers
      PROVE  /\ callers[d].pc \notin {"pruned", "claims"} /\ callers'[d].pc = callers[d].pc
             /\ callers'[d] \in CallerStates
             /\ callers[d].pc = "holds" => /\ callers'[d].key = callers[d].key
                                           /\ callers'[d].overflow = callers[d].overflow
  <2>1. callers[d] \in CallerStates  BY <1>a
  <2>2. callers[d].pc \notin {"pruned", "claims"}
    <3>1. SUFFICES ASSUME callers[d].pc \in {"pruned", "claims"} PROVE FALSE  OBVIOUS
    <3>2. callers[d].key \in Addresses  BY <2>1, <3>1 DEF CallerStates, IdleCaller
    <3>3. PICK s \in Shards : callers[d].key \in shards[s].keys  BY <1>0, <3>2 DEF AtHome
    <3>4. shards[s].lock = d  BY <1>0, <3>1, <3>3 DEF CallersFind
    <3> QED BY <1>1, <3>4, GuardAssumption
  <2>3. CASE callers[d].pc = "holds"
    <3>1. callers[d] \in [pc : {"holds"}, key : Addresses, overflow : BOOLEAN, held : Nat]
      BY <2>1, <2>3 DEF CallerStates, IdleCaller
    <3>2. callers'[d] = [callers[d] EXCEPT !.held = @ + 1]  BY <1>1, <2>3
    <3>3. callers[d].held + 1 \in Nat  BY <3>1
    <3>4. callers'[d] \in [pc : {"holds"}, key : Addresses, overflow : BOOLEAN, held : Nat]
      BY <3>1, <3>2, <3>3
    <3> QED BY <2>2, <2>3, <3>1, <3>2, <3>4 DEF CallerStates
  <2>4. CASE callers[d].pc # "holds"
    <3>1. callers'[d] = callers[d]  BY <1>1, <2>4
    <3> QED BY <2>1, <2>2, <2>4, <3>1
  <2> QED BY <2>3, <2>4
<1> HIDE DEF o, e, p, Bucket
<1>5. spared' \in [Addresses -> 0..Full] /\ \A k \in Addresses : spared'[k] = Least(spared[k] + 1, Full)
  <2>1. \A k \in Addresses : spared[k] \in 0..Full  BY <1>a
  <2>2. \A k \in Addresses : Least(spared[k] + 1, Full) \in 0..Full  BY <2>1, FullIsNatural DEF Least
  <2> QED BY <1>1, <2>2
<1>6. GuardTypes'
  <2>1. shards' \in [Shards -> ShardStates]  BY <1>1, <1>3
  <2>2. callers' \in [Callers -> CallerStates]  BY <1>1, <1>4
  <2> QED BY <1>5, <2>1, <2>2 DEF GuardTypes
<1>7. AtHome'  BY <1>0, <1>3 DEF AtHome
<1>8. CallersFind'
  <2>1. ASSUME NEW d \in Callers, NEW t \in Shards, callers'[d].pc # "idle", callers'[d].key \in shards'[t].keys
        PROVE  /\ callers'[d].pc \notin {"pruned", "claims"}
               /\ callers'[d].pc = "holds" /\ callers'[d].overflow => shards'[t].overflow \in Bucket
    BY <1>0, <1>3, <1>4, <2>1 DEF CallersFind
  <2> QED BY <2>1 DEF CallersFind, Bucket
<1>9. SparedEnough'
  <2>1. ASSUME NEW s \in Shards, NEW k \in DOMAIN shards'[s].entries
        PROVE  /\ shards'[s].entries[k].updated = Least(shards'[s].entries[k].last_seen, Full)
               /\ Worth(shards'[s].entries[k]) <= spared'[k]
    <3> DEFINE b == shards[s].entries[k]
               r == [tokens |-> b.tokens, updated |-> Least(b.updated + 1, Full),
                     last_seen |-> Least(b.last_seen + 1, IdleExpiry)]
    <3>1. k \in DOMAIN shards[s].entries /\ shards'[s].entries[k] = Older(b) /\ b \in Bucket  BY <1>3
    <3>2. shards'[s].entries[k] = r  BY <3>1, BucketChanges
    <3>3. b.updated = Least(b.last_seen, Full) /\ Worth(b) <= spared[k]  BY <1>0, <3>1 DEF SparedEnough
    <3>4. k \in Addresses  BY <1>0, <3>1, EntryIs
    <3>5. spared'[k] = Least(spared[k] + 1, Full) /\ spared[k] \in 0..Full  BY <1>a, <1>5, <3>4
    <3> HIDE DEF b
    <3>6. b.tokens \in 0..Full /\ b.updated \in 0..Full /\ b.last_seen \in 0..IdleExpiry  BY <3>1 DEF Bucket
    <3>7. r.tokens = b.tokens /\ r.updated = Least(b.updated + 1, Full) /\ r.last_seen = Least(b.last_seen + 1, IdleExpiry)
      OBVIOUS
    <3> HIDE DEF r
    <3>8. r.updated = Least(r.last_seen, Full)  BY <3>3, <3>6, <3>7, FullIsNatural, GuardAssumption DEF Least
    <3>9. Worth(r) <= Least(spared[k] + 1, Full)
      BY <3>3, <3>5, <3>6, <3>7, FullIsNatural DEF Worth, Least
    <3> QED BY <3>2, <3>5, <3>8, <3>9
  <2>2. ASSUME NEW s \in Shards, NEW k \in shards'[s].keys \ DOMAIN shards'[s].entries
        PROVE  spared'[k] = Full
    <3>1. spared[k] = Full /\ k \in Addresses  BY <1>0, <1>3, EntryIs DEF SparedEnough
    <3> QED BY <1>5, <3>1, FullIsNatural DEF Least
  <2> QED BY <2>1, <2>2 DEF SparedEnough, Worth
<1> QED BY <1>3, <1>4, <1>6, <1>7, <1>8, <1>9 DEF GuardShape
----------------------------------------------------------------------------
(* The counter: what each shard and each caller account for. *)
CountsAreNatural ==
  /\ \A s \in Shards : Kept[s] = Cardinality(DOMAIN shards[s].entries) /\ Kept[s] \in Nat
  /\ \A c \in Callers : /\ Dropped[c] = IF callers[c].pc = "pruned" THEN callers[c].dropped ELSE 0
                        /\ Dropped[c] \in Nat

LEMMA Accounts == GuardTypes => CountsAreNatural
<1> SUFFICES ASSUME GuardTypes PROVE CountsAreNatural  OBVIOUS
<1>1. \A s \in Shards : Cardinality(DOMAIN shards[s].entries) \in Nat  BY EntryIs
<1>2. ASSUME NEW c \in Callers, callers[c].pc = "pruned" PROVE callers[c].dropped \in Nat
  <2>1. callers[c] \in CallerStates  BY DEF GuardTypes
  <2> QED BY <1>2, <2>1 DEF CallerStates, IdleCaller
<1> QED BY <1>1, <1>2 DEF Kept, Dropped, CountsAreNatural

LEMMA AccountsNext == GuardTypes' => CountsAreNatural'
<1>1. (GuardTypes => CountsAreNatural)'  BY Accounts, PTL
<1> QED BY <1>1

(* A step that changes what one shard and one caller account for. *)
LEMMA SumsChange ==
  ASSUME GuardTypes, GuardTypes', NEW s \in Shards, NEW c \in Callers,
         \A t \in Shards \ {s} : DOMAIN shards'[t].entries = DOMAIN shards[t].entries,
         \A d \in Callers \ {c} : callers'[d] = callers[d],
         EntriesFit, entries' \in Int, entries' <= MaxEntries,
         entries' = entries + (Kept'[s] - Kept[s]) + (Dropped'[c] - Dropped[c])
  PROVE  EntriesFit'
<1>1. CountsAreNatural /\ CountsAreNatural'  BY Accounts, AccountsNext
<1>2. \A t \in Shards : Kept[t] \in Nat /\ Kept'[t] \in Nat  BY <1>1 DEF CountsAreNatural
<1>3. \A d \in Callers : Dropped[d] \in Nat /\ Dropped'[d] \in Nat  BY <1>1 DEF CountsAreNatural
<1>4. \A t \in Shards \ {s} : Kept[t] = Kept'[t]  BY DEF Kept
<1>5. \A d \in Callers \ {c} : Dropped[d] = Dropped'[d]  BY DEF Dropped
<1>6. SumFunctionOnSet(Kept', Shards) + Kept[s] = SumFunctionOnSet(Kept, Shards) + Kept'[s]
  BY <1>2, <1>4, SumChanges, GuardAssumption
<1>7. SumFunctionOnSet(Dropped', Callers) + Dropped[c] = SumFunctionOnSet(Dropped, Callers) + Dropped'[c]
  BY <1>3, <1>5, SumChanges, GuardAssumption
<1>8. /\ SumFunctionOnSet(Kept, Shards) \in Nat /\ SumFunctionOnSet(Dropped, Callers) \in Nat
      /\ SumFunctionOnSet(Kept', Shards) \in Nat /\ SumFunctionOnSet(Dropped', Callers) \in Nat
  BY <1>2, <1>3, SumIsNatural, GuardAssumption
<1>9. /\ Kept[s] \in Nat /\ Kept'[s] \in Nat /\ Dropped[c] \in Nat /\ Dropped'[c] \in Nat
  BY <1>2, <1>3
<1>10. entries = SumFunctionOnSet(Kept, Shards) + SumFunctionOnSet(Dropped, Callers)
  BY DEF EntriesFit, Counted
<1>11. entries' = SumFunctionOnSet(Kept', Shards) + SumFunctionOnSet(Dropped', Callers)
  BY <1>6, <1>7, <1>8, <1>9, <1>10
<1>12. Counted'  BY <1>11 DEF Counted
<1> QED BY <1>12 DEF EntriesFit

(* Nor is anything lost when none of it changes. *)
LEMMA SumsStay ==
  ASSUME \A t \in Shards : DOMAIN shards'[t].entries = DOMAIN shards[t].entries,
         \A d \in Callers : Dropped'[d] = Dropped[d], EntriesFit, entries' = entries
  PROVE  EntriesFit'
<1>1. Kept' = Kept  BY DEF Kept
<1>2. Dropped' = Dropped
  <2>1. Dropped = [d \in Callers |-> Dropped[d]] /\ Dropped' = [d \in Callers |-> Dropped'[d]]  BY DEF Dropped
  <2> QED BY <2>1
<1> QED BY <1>1, <1>2 DEF EntriesFit, Counted

LEMMA GuardInitInv == GuardInit => GuardInv
<1> SUFFICES ASSUME GuardInit PROVE GuardInv  OBVIOUS
<1>1. PICK of \in [Addresses -> Shards] :
        shards = [s \in Shards |-> [keys |-> {k \in Addresses : of[k] = s}, entries |-> << >>, overflow |-> None,
                                    next_prune |-> 0, lock |-> None]]
  BY DEF GuardInit
<1>2. /\ entries = 0 /\ callers = [c \in Callers |-> IdleCaller] /\ spared = [k \in Addresses |-> Full]
  BY DEF GuardInit
<1>3. ASSUME NEW s \in Shards
      PROVE  /\ shards[s] \in ShardStates /\ shards[s].keys = {k \in Addresses : of[k] = s}
             /\ DOMAIN shards[s].entries = {}
  <2>1. /\ << >> \in [{} -> Bucket] /\ DOMAIN << >> = {}  OBVIOUS
  <2>2. {k \in Addresses : of[k] = s} \in SUBSET Addresses /\ {} \in SUBSET Addresses  OBVIOUS
  <2>3. [keys |-> {k \in Addresses : of[k] = s}, entries |-> << >>, overflow |-> None,
         next_prune |-> 0, lock |-> None] \in ShardStates
    BY <2>1, <2>2, ShardStateIs
  <2> QED BY <1>1, <2>1, <2>3
<1>4. IdleCaller \in CallerStates /\ IdleCaller.pc = "idle"  BY DEF CallerStates, IdleCaller
<1>5. GuardTypes
  <2>1. shards \in [Shards -> ShardStates]  BY <1>1, <1>3
  <2>2. callers \in [Callers -> CallerStates]  BY <1>2, <1>4
  <2>3. spared \in [Addresses -> 0..Full]  BY <1>2, FullIsNatural
  <2> QED BY <2>1, <2>2, <2>3 DEF GuardTypes
<1>6. AtHome  BY <1>3 DEF AtHome
<1>7. CallersFind  BY <1>2, <1>4 DEF CallersFind
<1>8. SparedEnough  BY <1>2, <1>3 DEF SparedEnough
<1>9. EntriesFit
  <2>1. \A s \in Shards : Kept[s] = 0  BY <1>3, FS_EmptySet DEF Kept
  <2>2. \A c \in Callers : Dropped[c] = 0  BY <1>2, <1>4 DEF Dropped
  <2>3. SumFunctionOnSet(Kept, Shards) = 0  BY <2>1, SumOfZeros, GuardAssumption
  <2>4. SumFunctionOnSet(Dropped, Callers) = 0  BY <2>2, SumOfZeros, GuardAssumption
  <2> QED BY <1>2, <2>3, <2>4, GuardAssumption DEF EntriesFit, Counted
<1> QED BY <1>5, <1>6, <1>7, <1>8, <1>9 DEF GuardInv, GuardShape

LEMMA GuardNextInv == GuardInv /\ [GuardNext]_guard_vars => GuardInv'
<1> SUFFICES ASSUME GuardInv, [GuardNext]_guard_vars PROVE GuardInv'  OBVIOUS
<1>0. GuardShape /\ EntriesFit /\ GuardTypes /\ AtHome /\ CallersFind  BY DEF GuardInv, GuardShape
<1>a. /\ shards \in [Shards -> ShardStates] /\ callers \in [Callers -> CallerStates]
      /\ entries \in Int /\ entries <= MaxEntries
  BY <1>0 DEF GuardTypes, EntriesFit
<1>b. CountsAreNatural  BY <1>0, Accounts
<1>c. GuardShape' => GuardTypes' /\ CountsAreNatural'  BY AccountsNext DEF GuardShape
<1>1. ASSUME NEW c \in Callers, NEW k \in Addresses, ReserveKnown(c, k) PROVE GuardInv'
  <2> DEFINE s == ShardOf(k)
  <2>1. /\ callers[c].pc = "idle" /\ shards[s].lock = None /\ k \in DOMAIN shards[s].entries
        /\ Charge(c, k, s, FALSE) /\ entries' = entries
    BY <1>1 DEF ReserveKnown
  <2>2. /\ GuardShape' /\ DOMAIN shards'[s].entries = DOMAIN shards[s].entries \cup {k}
        /\ \A t \in Shards \ {s} : shards'[t] = shards[t]
        /\ callers'[c].pc \in {"holds", "idle"} /\ \A d \in Callers \ {c} : callers'[d] = callers[d]
    BY <1>0, <2>1, Charging
  <2>3. \A t \in Shards : DOMAIN shards'[t].entries = DOMAIN shards[t].entries  BY <2>1, <2>2
  <2>4. \A d \in Callers : Dropped'[d] = Dropped[d]  BY <2>1, <2>2 DEF Dropped
  <2> QED BY <1>0, <2>1, <2>2, <2>3, <2>4, SumsStay DEF GuardInv
<1>2. ASSUME NEW c \in Callers, NEW k \in Addresses, ReserveNew(c, k) PROVE GuardInv'
  <2> DEFINE s == ShardOf(k)
  <2>1. GuardShape' /\ callers[c].pc = "idle"  BY <1>0, <1>2, Reserving
  <2>2. PICK dropped \in SUBSET DOMAIN shards[s].entries :
          /\ DOMAIN shards'[s].entries = DOMAIN shards[s].entries \ dropped
          /\ \A t \in Shards \ {s} : shards'[t] = shards[t]
          /\ callers'[c].dropped = Cardinality(dropped) /\ callers'[c].pc \in {"pruned", "claims"}
          /\ callers'[c].pc = "claims" => dropped = {}
          /\ \A d \in Callers \ {c} : callers'[d] = callers[d]
    BY <1>0, <1>2, Reserving
  <2>3. s \in Shards  BY <1>0, HomeOf
  <2>4. entries' = entries  BY <1>2 DEF ReserveNew
  <2>5. IsFiniteSet(DOMAIN shards[s].entries)  BY <1>0, <2>3, EntryIs
  <2> HIDE DEF s
  <2>6. IsFiniteSet(dropped)  BY <2>5, FS_Subset
  <2>7. /\ Cardinality(dropped) \in Nat /\ Cardinality(DOMAIN shards[s].entries) \in Nat
        /\ Cardinality(DOMAIN shards'[s].entries) = Cardinality(DOMAIN shards[s].entries) - Cardinality(dropped)
    <3>1. dropped \cap DOMAIN shards[s].entries = dropped  OBVIOUS
    <3>2. Cardinality(DOMAIN shards[s].entries \ dropped) =
            Cardinality(DOMAIN shards[s].entries) - Cardinality(DOMAIN shards[s].entries \cap dropped)
      BY <2>5, FS_Difference
    <3>3. DOMAIN shards[s].entries \cap dropped = dropped  OBVIOUS
    <3> QED BY <2>2, <2>5, <2>6, <3>2, <3>3, FS_CardinalityType
  <2>8. Kept'[s] = Kept[s] - Cardinality(dropped) /\ Kept[s] \in Nat
    BY <1>b, <1>c, <2>1, <2>3, <2>7 DEF CountsAreNatural
  <2>9. Dropped[c] = 0 /\ Dropped'[c] = Cardinality(dropped)
    <3>1. Dropped[c] = 0  BY <1>b, <2>1 DEF CountsAreNatural
    <3>2. CASE callers'[c].pc = "pruned"  BY <1>c, <2>1, <2>2, <3>1, <3>2 DEF CountsAreNatural
    <3>3. CASE callers'[c].pc = "claims"
      <4>1. Cardinality(dropped) = 0  BY <2>2, <3>3, FS_EmptySet
      <4> QED BY <1>c, <2>1, <3>1, <3>3, <4>1 DEF CountsAreNatural
    <3> QED BY <2>2, <3>2, <3>3
  <2>10. entries' = entries + (Kept'[s] - Kept[s]) + (Dropped'[c] - Dropped[c])
    BY <1>a, <2>4, <2>7, <2>8, <2>9
  <2>11. EntriesFit'
    BY <1>0, <1>a, <1>c, <2>1, <2>2, <2>3, <2>4, <2>10, SumsChange
  <2> QED BY <2>1, <2>11 DEF GuardInv
<1>3. ASSUME NEW c \in Callers, PruneEnds(c) PROVE GuardInv'
  <2> DEFINE new == [pc |-> "claims", key |-> callers[c].key, dropped |-> 0]
  <2>1. /\ callers[c].pc = "pruned" /\ entries' = entries - callers[c].dropped
        /\ callers' = [callers EXCEPT ![c] = new] /\ shards' = shards /\ spared' = spared
    BY <1>3 DEF PruneEnds
  <2>2. callers[c].key \in Addresses /\ callers[c].dropped \in Nat  BY <1>a, <2>1 DEF CallerStates, IdleCaller
  <2>3. new \in CallerStates /\ new.pc = "claims" /\ new.key = callers[c].key  BY <2>2 DEF CallerStates
  <2> HIDE DEF new, CallerStates
  <2>4. callers' \in [Callers -> CallerStates] /\ callers'[c] = new /\ \A d \in Callers \ {c} : callers'[d] = callers[d]
    BY <1>a, <2>1, <2>3
  <2>5. CallersFind'
    <3>1. ASSUME NEW d \in Callers, NEW t \in Shards, callers'[d].pc # "idle", callers'[d].key \in shards'[t].keys
          PROVE  /\ callers'[d].pc \in {"pruned", "claims"} =>
                      shards'[t].lock = d /\ callers'[d].key \notin DOMAIN shards'[t].entries
                 /\ callers'[d].pc = "holds" /\ callers'[d].overflow => shards'[t].overflow \in Bucket
      <4>1. CASE d = c  BY <1>0, <2>1, <2>3, <2>4, <3>1, <4>1 DEF CallersFind
      <4>2. CASE d # c  BY <1>0, <2>1, <2>4, <3>1, <4>2 DEF CallersFind
      <4> QED BY <4>1, <4>2
    <3> QED BY <3>1 DEF CallersFind, Bucket
  <2>6. GuardShape'
    <3>1. AtHome' /\ SparedEnough'
      BY <1>0, <2>1 DEF AtHome, SparedEnough, GuardShape, Worth
    <3>2. GuardTypes'  BY <1>0, <2>1, <2>4 DEF GuardTypes
    <3> QED BY <2>5, <3>1, <3>2 DEF GuardShape
  <2>7. Dropped[c] = callers[c].dropped /\ Dropped'[c] = 0
    BY <1>b, <1>c, <2>1, <2>3, <2>4, <2>6 DEF CountsAreNatural
  <2>8. CASE Shards = {}
    BY <1>0, <2>2, <2>8 DEF AtHome
  <2>9. CASE Shards # {}
    <3>1. PICK s \in Shards : TRUE  BY <2>9
    <3>2. Kept'[s] = Kept[s] /\ Kept[s] \in Nat  BY <1>b, <2>1 DEF Kept, CountsAreNatural
    <3>3. entries' \in Int /\ entries' <= MaxEntries  BY <1>a, <2>1, <2>2, GuardAssumption
    <3>4. entries' = entries + (Kept'[s] - Kept[s]) + (Dropped'[c] - Dropped[c])
      BY <1>a, <2>1, <2>2, <2>7, <3>2
    <3>5. EntriesFit'  BY <1>0, <1>c, <2>1, <2>4, <2>6, <3>3, <3>4, SumsChange
    <3> QED BY <2>6, <3>5 DEF GuardInv
  <2> QED BY <2>8, <2>9
<1>4. ASSUME NEW c \in Callers, Claim(c) PROVE GuardInv'
  <2>1. callers[c].pc = "claims"  BY <1>4 DEF Claim
  <2>2. PICK k \in Addresses : k = callers[c].key  BY <1>a, <2>1 DEF CallerStates, IdleCaller
  <2> DEFINE s == ShardOf(k)
             overflow == entries >= MaxEntries
  <2>3. /\ entries' = IF entries < MaxEntries THEN entries + 1 ELSE entries
        /\ Charge(c, k, s, overflow)
    BY <1>4, <2>2 DEF Claim
  <2>4. s \in Shards /\ k \in shards[s].keys  BY <1>0, HomeOf
  <2>5. shards[s].lock = c /\ k \notin DOMAIN shards[s].entries  BY <1>0, <2>1, <2>2, <2>4 DEF CallersFind
  <2>6. PICK o \in BOOLEAN : o = overflow
    <3>1. overflow \in BOOLEAN  OBVIOUS
    <3> HIDE DEF overflow
    <3> QED BY <3>1
  <2>6a. (o => entries >= MaxEntries) /\ (~o => ~(entries >= MaxEntries))  BY <2>6, Zenon
  <2>7. /\ GuardShape' /\ DOMAIN shards'[s].entries = DOMAIN shards[s].entries \cup (IF o THEN {} ELSE {k})
        /\ \A t \in Shards \ {s} : shards'[t] = shards[t]
        /\ callers'[c].pc \in {"holds", "idle"} /\ \A d \in Callers \ {c} : callers'[d] = callers[d]
    <3>1. Charge(c, k, ShardOf(k), o)  BY <2>3, <2>6
    <3> HIDE DEF overflow
    <3> QED BY <1>0, <2>5, <3>1, Charging
  <2>8. Dropped[c] = 0 /\ Dropped'[c] = 0  BY <1>b, <1>c, <2>1, <2>7 DEF CountsAreNatural
  <2>9. IsFiniteSet(DOMAIN shards[s].entries)  BY <1>0, <2>4, EntryIs
  <2> HIDE DEF s
  <2>10. Kept'[s] = Kept[s] + (IF o THEN 0 ELSE 1) /\ Kept[s] \in Nat
    <3>1. CASE o
      <4>1. DOMAIN shards'[s].entries = DOMAIN shards[s].entries  BY <2>7, <3>1
      <4>2. Kept'[s] = Kept[s] /\ Kept[s] \in Nat  BY <1>b, <1>c, <2>4, <2>7, <4>1 DEF CountsAreNatural
      <4> QED BY <3>1, <4>2
    <3>2. CASE ~o
      <4>1. Cardinality(DOMAIN shards[s].entries \cup {k}) = Cardinality(DOMAIN shards[s].entries) + 1
        BY <2>5, <2>9, FS_AddElement
      <4> QED BY <1>b, <1>c, <2>4, <2>7, <3>2, <4>1 DEF CountsAreNatural
    <3> QED BY <3>1, <3>2
  <2>11. /\ entries' = entries + (Kept'[s] - Kept[s]) + (Dropped'[c] - Dropped[c])
         /\ entries' \in Int /\ entries' <= MaxEntries
    <3>1. CASE o
      <4>1. entries' = entries
        <5>1. entries >= MaxEntries  BY <2>6a, <3>1
        <5> QED BY <1>a, <2>3, <5>1, GuardAssumption
      <4>2. Kept'[s] = Kept[s] + 0  BY <2>10, <3>1
      <4> QED BY <1>a, <2>8, <2>10, <4>1, <4>2
    <3>2. CASE ~o
      <4>1. entries' = entries + 1 /\ entries < MaxEntries
        <5>1. ~(entries >= MaxEntries)  BY <2>6a, <3>2
        <5> QED BY <1>a, <2>3, <5>1, GuardAssumption
      <4>2. Kept'[s] = Kept[s] + 1  BY <2>10, <3>2
      <4> QED BY <1>a, <2>8, <2>10, <4>1, <4>2, GuardAssumption
    <3> QED BY <3>1, <3>2
  <2>12. EntriesFit'  BY <1>0, <1>c, <2>4, <2>7, <2>11, SumsChange
  <2> QED BY <2>7, <2>12 DEF GuardInv
<1>5. ASSUME NEW c \in Callers, Fails(c) PROVE GuardInv'
  <2>1. /\ callers[c].pc = "holds" /\ callers' = [callers EXCEPT ![c] = IdleCaller]
        /\ shards' = shards /\ spared' = spared /\ entries' = entries
    BY <1>5 DEF Fails
  <2>2. IdleCaller \in CallerStates /\ IdleCaller.pc = "idle"  BY DEF CallerStates, IdleCaller
  <2>3. /\ callers' \in [Callers -> CallerStates] /\ callers'[c].pc = "idle"
        /\ \A d \in Callers \ {c} : callers'[d] = callers[d]
    <3> HIDE DEF CallerStates, IdleCaller
    <3> QED BY <1>a, <2>1, <2>2
  <2>4. CallersFind'
    <3>1. ASSUME NEW d \in Callers, NEW t \in Shards, callers'[d].pc # "idle", callers'[d].key \in shards'[t].keys
          PROVE  /\ callers'[d].pc \in {"pruned", "claims"} =>
                      shards'[t].lock = d /\ callers'[d].key \notin DOMAIN shards'[t].entries
                 /\ callers'[d].pc = "holds" /\ callers'[d].overflow => shards'[t].overflow \in Bucket
      BY <1>0, <2>1, <2>3, <3>1 DEF CallersFind
    <3> QED BY <3>1 DEF CallersFind, Bucket
  <2>5. GuardShape'
    <3>1. AtHome' /\ SparedEnough'
      BY <1>0, <2>1 DEF AtHome, SparedEnough, GuardShape, Worth
    <3>2. GuardTypes'  BY <1>0, <2>1, <2>3 DEF GuardTypes
    <3> QED BY <2>4, <3>1, <3>2 DEF GuardShape
  <2>6. \A d \in Callers : Dropped'[d] = Dropped[d]  BY <2>1, <2>3 DEF Dropped
  <2> QED BY <1>0, <2>1, <2>5, <2>6, SumsStay DEF GuardInv
<1>6. ASSUME NEW c \in Callers, refund(c) PROVE GuardInv'
  <2>1. /\ GuardShape' /\ \A t \in Shards : DOMAIN shards'[t].entries = DOMAIN shards[t].entries
        /\ callers[c].pc # "pruned" /\ callers'[c].pc # "pruned"
        /\ \A d \in Callers \ {c} : callers'[d] = callers[d]
    BY <1>0, <1>6, Refunding
  <2>2. entries' = entries  BY <1>6 DEF refund
  <2>3. \A d \in Callers : Dropped'[d] = Dropped[d]  BY <2>1 DEF Dropped
  <2> QED BY <1>0, <2>1, <2>2, <2>3, SumsStay DEF GuardInv
<1>7. CASE GuardTick
  <2>1. /\ GuardShape' /\ \A t \in Shards : DOMAIN shards'[t].entries = DOMAIN shards[t].entries
        /\ \A d \in Callers : callers[d].pc # "pruned" /\ callers'[d].pc # "pruned"
    BY <1>0, <1>7, Ticking
  <2>2. entries' = entries  BY <1>7 DEF GuardTick
  <2>3. \A d \in Callers : Dropped'[d] = Dropped[d]  BY <2>1 DEF Dropped
  <2> QED BY <1>0, <2>1, <2>2, <2>3, SumsStay DEF GuardInv
<1>8. CASE UNCHANGED guard_vars
  <2>1. shards' = shards /\ callers' = callers /\ spared' = spared /\ entries' = entries  BY <1>8 DEF guard_vars
  <2>2. GuardTypes' /\ AtHome'  BY <1>0, <2>1 DEF GuardTypes, AtHome
  <2>3. CallersFind'  BY <1>0, <2>1 DEF CallersFind
  <2>4. SparedEnough'  BY <1>0, <2>1 DEF GuardShape, SparedEnough, Worth
  <2>5. EntriesFit'  BY <1>0, <2>1, SumsStay DEF Dropped
  <2> QED BY <2>2, <2>3, <2>4, <2>5 DEF GuardInv, GuardShape
<1> QED BY <1>1, <1>2, <1>3, <1>4, <1>5, <1>6, <1>7, <1>8 DEF GuardNext

(* For any addresses, shards, callers and limits: the counter that no lock  *)
(* guards agrees with the buckets, there are never too many of them, and a  *)
(* client gains nothing by waiting until its bucket is dropped, given only  *)
(* that a bucket is full again before it expires.                           *)
THEOREM ForgettingStaysFree == GuardSpec => []ForgettingGivesNothing
<1>1. GuardInv => ForgettingGivesNothing
  <2> SUFFICES ASSUME GuardInv PROVE ForgettingGivesNothing  OBVIOUS
  <2>0. GuardTypes /\ AtHome /\ SparedEnough /\ EntriesFit  BY DEF GuardInv, GuardShape
  <2>1. ASSUME NEW s \in Shards, NEW k \in DOMAIN shards[s].entries
        PROVE  0 <= refill(shards[s].entries[k]).tokens /\ refill(shards[s].entries[k]).tokens <= spared[k]
    <3>1. shards[s].entries[k] \in Bucket  BY <2>0, EntryIs
    <3>2. Worth(shards[s].entries[k]) <= spared[k]  BY <2>0 DEF SparedEnough
    <3>3. refill(shards[s].entries[k]).tokens \in 0..Full
      BY <3>1, BucketChanges
    <3>4. refill(shards[s].entries[k]).tokens = Worth(shards[s].entries[k])  BY <3>1, BucketChanges
    <3> QED BY <3>2, <3>3, <3>4, FullIsNatural
  <2>2. ASSUME NEW s \in Shards, shards[s].overflow # None
        PROVE  refill(shards[s].overflow).tokens \in 0..Full
    <3>1. shards[s].overflow \in Bucket  BY <2>0, <2>2, EntryIs
    <3> QED BY <3>1, BucketChanges
  <2>3. \A k \in Addresses : 0 <= spared[k] /\ spared[k] <= Full  BY <2>0 DEF GuardTypes
  <2>4. entries = SumFunctionOnSet(Kept, Shards) + SumFunctionOnSet(Dropped, Callers) /\ entries <= MaxEntries
    BY <2>0 DEF EntriesFit, Counted
  <2> QED BY <2>1, <2>2, <2>3, <2>4 DEF ForgettingGivesNothing
<1> QED BY <1>1, GuardInitInv, GuardNextInv, PTL DEF GuardSpec
----------------------------------------------------------------------------
(* HttpConnection. *)
(* The requests that ConnectionActivity counts: from begin to drop. *)
CountedStreams ==
  {r \in Streams : stream[r].pc \in {"added", "counted", "begun", "handled", "answered", "dropping"}}

(* A watch that has seen no request counted, and whose generation has not   *)
(* moved since it looked, has slept through the silence.                    *)
WatchInv ==
  /\ watch.observed <= generation
  /\ watch.pc = "sleep" /\ watch.observed = generation =>
       ~InProgress /\ quiet + watch.timer >= StreamIdleTimeout
  /\ watch.pc = "verify" /\ watch.observed = generation =>
       ~InProgress /\ quiet >= StreamIdleTimeout

HttpInv == HttpTypes /\ in_progress = Cardinality(CountedStreams) /\ WatchInv
----------------------------------------------------------------------------
LEMMA CountedStreamsFinite ==
  IsFiniteSet(CountedStreams) /\ Cardinality(CountedStreams) \in Nat
<1>1. IsFiniteSet(CountedStreams)  BY HttpAssumption, FS_Subset DEF CountedStreams
<1> QED BY <1>1, FS_CardinalityType

(* A request's task goes on, and the generation says so when the request    *)
(* comes to be in progress.                                                 *)
LEMMA RequestStepKeeps ==
  ASSUME HttpInv, HttpTypes', in_progress' = Cardinality(CountedStreams'), watch' = watch,
         \/ generation' = generation /\ quiet' = quiet /\ (InProgress' => InProgress)
         \/ generation' = generation + 1
  PROVE  HttpInv'
<1>1. watch.observed \in Nat /\ generation \in Nat  BY DEF HttpInv, HttpTypes
<1>2. WatchInv
  BY DEF HttpInv
<1>3. CASE generation' = generation /\ quiet' = quiet /\ (InProgress' => InProgress)
  BY <1>1, <1>2, <1>3 DEF HttpInv, WatchInv
<1>4. CASE generation' = generation + 1
  <2>1. watch.observed < generation'  BY <1>1, <1>2, <1>4 DEF WatchInv
  <2>2. watch.observed # generation' /\ watch.observed <= generation'  BY <1>1, <1>4, <2>1
  <2> QED BY <2>2 DEF HttpInv, WatchInv
<1> QED BY <1>3, <1>4

(* A request that is counted before and after, or neither. *)
LEMMA SameCount ==
  ASSUME HttpInv, NEW r \in Streams, in_progress' = in_progress,
         \A q \in Streams \ {r} : stream'[q] = stream[q],
         LET C == {"added", "counted", "begun", "handled", "answered", "dropping"}
         IN stream[r].pc \in C <=> stream'[r].pc \in C
  PROVE  in_progress' = Cardinality(CountedStreams')
<1>1. CountedStreams' = CountedStreams  BY DEF CountedStreams
<1> QED BY <1>1 DEF HttpInv

LEMMA BeginKeeps ==
  ASSUME HttpInv, NEW r \in Streams, BeginRequest(r)
  PROVE  HttpInv'
<1>2. stream \in [Streams -> StreamStates]  BY DEF HttpInv, HttpTypes
<1>1. HttpTypes'
  <2>1. stream' \in [Streams -> StreamStates]  BY <1>2 DEF BeginRequest, StreamMoves, StreamStates
  <2>2. in_progress \in Nat  BY DEF HttpInv, HttpTypes
  <2>3. in_progress + 1 \in Nat  BY <2>2
  <2> QED BY <2>1, <2>3 DEF BeginRequest, HttpInv, HttpTypes
<1>3. /\ stream[r].pc = "none" /\ stream'[r].pc = "added" /\ (\A q \in Streams \ {r} : stream'[q] = stream[q])
  BY <1>2 DEF BeginRequest, StreamMoves
<1>4. CountedStreams' = CountedStreams \cup {r} /\ r \notin CountedStreams  BY <1>3 DEF CountedStreams
<1>5. Cardinality(CountedStreams') = Cardinality(CountedStreams) + 1
  BY <1>4, CountedStreamsFinite, FS_AddElement
<1>6. InProgress' => InProgress  BY <1>3 DEF InProgress
<1> QED BY <1>1, <1>5, <1>6, RequestStepKeeps DEF BeginRequest, HttpInv

LEMMA DropRequestKeeps ==
  ASSUME HttpInv, NEW r \in Streams, DropRequest(r)
  PROVE  HttpInv'
<1>2. stream \in [Streams -> StreamStates]
  BY DEF HttpInv, HttpTypes
<1>3. /\ stream[r].pc = "dropping" /\ stream'[r].pc = "dropped"
      /\ (\A q \in Streams \ {r} : stream'[q] = stream[q])
  BY <1>2 DEF DropRequest, StreamMoves
<1>4. CountedStreams' = CountedStreams \ {r} /\ r \in CountedStreams  BY <1>3 DEF CountedStreams
<1>5. Cardinality(CountedStreams') = Cardinality(CountedStreams) - 1 /\ Cardinality(CountedStreams') \in Nat
  <2>1. IsFiniteSet(CountedStreams')  BY <1>4, CountedStreamsFinite, FS_Subset
  <2> QED BY <2>1, <1>4, CountedStreamsFinite, FS_RemoveElement, FS_CardinalityType
<1>6. InProgress' => InProgress  BY <1>3 DEF InProgress
<1>7. in_progress' = Cardinality(CountedStreams') /\ in_progress' \in Nat  BY <1>5 DEF DropRequest, HttpInv
<1>1. HttpTypes'
  <2>1. stream' \in [Streams -> StreamStates]  BY <1>2 DEF DropRequest, StreamMoves, StreamStates
  <2> QED BY <1>7, <2>1 DEF DropRequest, HttpInv, HttpTypes
<1> QED BY <1>1, <1>7, <1>6, RequestStepKeeps DEF DropRequest

LEMMA OtherRequestStepsKeep ==
  ASSUME HttpInv, NEW r \in Streams,
         Touch(r) \/ NotifyOne(r) \/ Enter(r) \/ Answer(r) \/ \E h \in {"body", "tunnel"} : Release(r, h)
  PROVE  HttpInv'
<1>1. stream \in [Streams -> StreamStates]
  BY DEF HttpInv, HttpTypes
<1>2. in_progress' = in_progress /\ watch' = watch
  BY DEF Touch, NotifyOne, Enter, Answer, Release, activity
<1>3. \A q \in Streams \ {r} : stream'[q] = stream[q]
  BY <1>1 DEF Touch, NotifyOne, Enter, Answer, Release, StreamMoves
<1>4. CASE Touch(r)
  <2>1. \/ stream[r].pc = "added" /\ stream'[r].pc = "counted"
        \/ stream[r].pc = "dropped" /\ stream'[r].pc = "touched"
    BY <1>1, <1>4 DEF Touch, StreamMoves, StreamStates
  <2>2. HttpTypes'
    <3>3. StreamIdleTimeout \in Nat /\ quiet \in 0..StreamIdleTimeout /\ generation \in Nat
      BY HttpAssumption DEF HttpInv, HttpTypes
    <3>1. 0 \in 0..StreamIdleTimeout /\ quiet \in 0..StreamIdleTimeout /\ generation + 1 \in Nat  BY <3>3
    <3>2. stream' \in [Streams -> StreamStates]  BY <1>1, <1>4 DEF Touch, StreamMoves, StreamStates
    <3> QED BY <1>4, <3>1, <3>2 DEF Touch, HttpInv, HttpTypes
  <2>3. in_progress' = Cardinality(CountedStreams')  BY <1>2, <1>3, <2>1, SameCount
  <2> QED BY <1>2, <1>4, <2>2, <2>3, RequestStepKeeps DEF Touch
<1>5. CASE NotifyOne(r)
  <2>1. \/ stream[r].pc = "counted" /\ stream'[r].pc = "begun"
        \/ stream[r].pc = "touched" /\ stream'[r].pc = "done"
    BY <1>1, <1>5 DEF NotifyOne, StreamMoves, StreamStates
  <2>2. HttpTypes'
    <3>1. stream' \in [Streams -> StreamStates]  BY <1>1, <1>5 DEF NotifyOne, StreamMoves, StreamStates
    <3> QED BY <1>5, <3>1 DEF NotifyOne, HttpInv, HttpTypes
  <2>3. in_progress' = Cardinality(CountedStreams')  BY <1>2, <1>3, <2>1, SameCount
  <2>4. InProgress' => InProgress  BY <1>3, <2>1 DEF InProgress
  <2> QED BY <1>2, <1>5, <2>2, <2>3, <2>4, RequestStepKeeps DEF NotifyOne
<1>6. CASE Enter(r)
  <2>1. stream[r].pc = "begun" /\ stream'[r].pc \in {"answered", "handled"}
    BY <1>1, <1>6 DEF Enter
  <2>2. HttpTypes'
    <3>1. stream' \in [Streams -> StreamStates]
      BY <1>1, <1>6 DEF Enter, StreamStates
    <3>2. conn' \in [phase : {"initial", "serving", "draining", "closed"}, first : BOOLEAN, timer : Nat,
               why : {"open", "idle", "no request", "ended", "drained"}]
      BY <1>6 DEF Enter, HttpInv, HttpTypes
    <3> QED BY <1>6, <3>1, <3>2 DEF Enter, HttpInv, HttpTypes, activity
  <2>3. in_progress' = Cardinality(CountedStreams')  BY <1>2, <1>3, <2>1, SameCount
  <2>4. InProgress' => InProgress  BY <1>3, <2>1 DEF InProgress
  <2> QED BY <1>2, <1>6, <2>2, <2>3, <2>4, RequestStepKeeps DEF Enter, activity
<1>7. CASE Answer(r)
  <2>1. stream[r].pc = "handled" /\ stream'[r].pc = "answered"
    BY <1>1, <1>7 DEF Answer
  <2>2. HttpTypes'
    <3>1. stream' \in [Streams -> StreamStates]
      BY <1>1, <1>7 DEF Answer, StreamStates
    <3> QED BY <1>7, <3>1 DEF Answer, HttpInv, HttpTypes, activity
  <2>3. in_progress' = Cardinality(CountedStreams')  BY <1>2, <1>3, <2>1, SameCount
  <2>4. InProgress' => InProgress  BY <1>3, <2>1 DEF InProgress
  <2> QED BY <1>2, <1>7, <2>2, <2>3, <2>4, RequestStepKeeps DEF Answer, activity
<1>8. ASSUME NEW h \in {"body", "tunnel"}, Release(r, h) PROVE HttpInv'
  <2>1. stream[r].pc = "answered" /\ stream'[r].pc \in {"answered", "dropping"}
    BY <1>1, <1>8 DEF Release
  <2>2. HttpTypes'
    <3>1. stream[r].holds \ {h} \in SUBSET {"body", "tunnel"}  BY <1>1 DEF StreamStates
    <3>2. stream' \in [Streams -> StreamStates]
      BY <1>1, <1>8, <3>1 DEF Release, StreamStates
    <3> QED BY <1>8, <3>2 DEF Release, HttpInv, HttpTypes, activity
  <2>3. in_progress' = Cardinality(CountedStreams')  BY <1>2, <1>3, <2>1, SameCount
  <2>4. InProgress' => InProgress  BY <1>3, <2>1 DEF InProgress
  <2> QED BY <1>2, <1>8, <2>2, <2>3, <2>4, RequestStepKeeps DEF Release, activity
<1> QED BY <1>4, <1>5, <1>6, <1>7, <1>8

(* A step of the connection's task, which counts nothing. *)
LEMMA ConnStepKeeps ==
  ASSUME HttpInv, stream' = stream, in_progress' = in_progress, HttpTypes', WatchInv'
  PROVE  HttpInv'
<1>1. CountedStreams' = CountedStreams  BY DEF CountedStreams
<1> QED BY <1>1 DEF HttpInv

(* A step that leaves the watch and what it watches alone. *)
LEMMA UnwatchedStepKeeps ==
  ASSUME HttpInv, HttpTypes', UNCHANGED <<in_progress, generation, watch, stream, quiet>>
  PROVE  HttpInv'
<1>1. WatchInv'  BY DEF HttpInv, WatchInv, InProgress
<1> QED BY <1>1, ConnStepKeeps

HttpConnStates ==
  [phase : {"initial", "serving", "draining", "closed"}, first : BOOLEAN, timer : Nat,
   why : {"open", "idle", "no request", "ended", "drained"}]

LEMMA WatchStepKeeps ==
  ASSUME HttpInv, Watch
  PROVE  HttpInv'
<1>1. stream' = stream /\ in_progress' = in_progress /\ generation' = generation /\ quiet' = quiet
      /\ draining' = draining
  BY DEF Watch, Observe, Look, Notified, SleepEnds, Verify, activity
<1>2. InProgress' = InProgress  BY <1>1 DEF InProgress
<1>3. /\ watch \in [pc : {"off", "observe", "look", "wait", "sleep", "verify"}, observed : Nat, timer : Nat]
      /\ watch.observed \in Nat /\ watch.timer \in Nat
      /\ generation \in Nat /\ in_progress \in Nat /\ quiet \in 0..StreamIdleTimeout
      /\ StreamIdleTimeout \in Nat
  BY HttpAssumption DEF HttpInv, HttpTypes
<1>4. conn' \in HttpConnStates /\ permit' \in BOOLEAN
  BY DEF Watch, Observe, Look, Notified, SleepEnds, Verify, activity, HttpInv, HttpTypes, Closed, HttpConnStates
<1>5. WatchInv  BY DEF HttpInv
<1>6. watch' \in [pc : {"off", "observe", "look", "wait", "sleep", "verify"}, observed : Nat, timer : Nat] /\ WatchInv'
  <2>1. CASE Observe
    <3>1. watch' = [watch EXCEPT !.pc = "look", !.observed = generation]  BY <2>1 DEF Observe
    <3>2. /\ watch' \in [pc : {"off", "observe", "look", "wait", "sleep", "verify"}, observed : Nat, timer : Nat]
          /\ watch'.pc = "look" /\ watch'.observed = generation
      BY <3>1, <1>3
    <3>3. generation <= generation  BY <1>3
    <3> QED BY <3>2, <3>3, <1>1 DEF WatchInv
  <2>2. CASE Look
    <3>1. CASE in_progress # 0
      <4>1. watch' = [watch EXCEPT !.pc = "wait"]  BY <2>2, <3>1 DEF Look, WatchTo
      <4> QED BY <4>1, <1>1, <1>3, <1>5 DEF WatchInv
    <3>2. CASE in_progress = 0
      <4>1. watch' = [watch EXCEPT !.pc = "sleep", !.timer = StreamIdleTimeout]  BY <2>2, <3>2 DEF Look
      <4>2. CountedStreams = {}  BY <3>2, CountedStreamsFinite, FS_EmptySet DEF HttpInv
      <4>3. ~InProgress  BY <4>2 DEF InProgress, CountedStreams
      <4>4. quiet + StreamIdleTimeout >= StreamIdleTimeout  BY <1>3
      <4> QED BY <4>1, <4>3, <4>4, <1>1, <1>2, <1>3, <1>5 DEF WatchInv
    <3> QED BY <3>1, <3>2
  <2>3. CASE Notified
    <3>1. watch' = [watch EXCEPT !.pc = "observe"]  BY <2>3 DEF Notified, WatchTo
    <3> QED BY <3>1, <1>1, <1>3, <1>5 DEF WatchInv
  <2>4. CASE SleepEnds
    <3>1. watch.pc = "sleep" /\ watch.timer = 0  BY <2>4 DEF SleepEnds, Watching
    <3>2. \/ watch' = [watch EXCEPT !.pc = "verify"] \/ watch' = [watch EXCEPT !.pc = "observe"]
      BY <2>4 DEF SleepEnds, WatchTo
    <3>3. watch.observed = generation => ~InProgress /\ quiet >= StreamIdleTimeout
      BY <3>1, <1>3, <1>5 DEF WatchInv
    <3> QED BY <3>2, <3>3, <1>1, <1>2, <1>3, <1>5 DEF WatchInv
  <2>5. CASE Verify
    <3>1. watch' = watch \/ watch' = [watch EXCEPT !.pc = "observe"]  BY <2>5 DEF Verify, WatchTo
    <3> QED BY <3>1, <1>1, <1>2, <1>3, <1>5 DEF WatchInv
  <2> QED BY <2>1, <2>2, <2>3, <2>4, <2>5 DEF Watch
<1>7. HttpTypes'
  BY <1>1, <1>4, <1>6 DEF HttpInv, HttpTypes, HttpConnStates
<1> QED BY <1>1, <1>6, <1>7, ConnStepKeeps

LEMMA ConnectionStepKeeps ==
  ASSUME HttpInv,
         FirstRequest \/ InitialTimesOut \/ HttpConnectionEnds \/ BeginGrace \/ GraceEnds \/ DrainBegins
  PROVE  HttpInv'
<1>1. stream' = stream /\ in_progress' = in_progress /\ generation' = generation /\ quiet' = quiet
      /\ permit' = permit /\ draining' \in BOOLEAN
  BY DEF FirstRequest, InitialTimesOut, HttpConnectionEnds, BeginGrace, GraceEnds, DrainBegins, activity,
         HttpInv, HttpTypes
<1>2. conn' \in HttpConnStates
  <2>1. conn \in HttpConnStates /\ GraceTime \in Nat  BY HttpAssumption DEF HttpInv, HttpTypes, HttpConnStates
  <2> QED BY <2>1 DEF FirstRequest, InitialTimesOut, HttpConnectionEnds, BeginGrace, GraceEnds, DrainBegins,
                      Closed, HttpConnStates
<1>3. CASE FirstRequest
  <2>1. watch \in [pc : {"off", "observe", "look", "wait", "sleep", "verify"}, observed : Nat, timer : Nat]
    BY DEF HttpInv, HttpTypes
  <2>2. watch' = [watch EXCEPT !.pc = "observe"]  BY <1>3 DEF FirstRequest, WatchTo
  <2>3. WatchInv'  BY <1>1, <2>1, <2>2 DEF HttpInv, WatchInv
  <2>4. HttpTypes'  BY <1>1, <1>2, <2>1, <2>2 DEF HttpInv, HttpTypes, HttpConnStates
  <2> QED BY <1>1, <2>3, <2>4, ConnStepKeeps
<1>4. CASE InitialTimesOut \/ HttpConnectionEnds \/ BeginGrace \/ GraceEnds \/ DrainBegins
  <2>1. watch' = watch
    BY <1>4 DEF InitialTimesOut, HttpConnectionEnds, BeginGrace, GraceEnds, DrainBegins
  <2>2. HttpTypes'  BY <1>1, <1>2, <2>1 DEF HttpInv, HttpTypes, HttpConnStates
  <2> QED BY <1>1, <2>1, <2>2, UnwatchedStepKeeps
<1> QED BY <1>3, <1>4

LEMMA HttpTickKeeps ==
  ASSUME HttpInv, HttpTick
  PROVE  HttpInv'
<1>1. stream' = stream /\ in_progress' = in_progress /\ generation' = generation /\ permit' = permit
      /\ draining' = draining
  BY DEF HttpTick, activity
<1>2. InProgress' = InProgress  BY <1>1 DEF InProgress
<1>3. /\ watch \in [pc : {"off", "observe", "look", "wait", "sleep", "verify"}, observed : Nat, timer : Nat]
      /\ watch.observed \in Nat /\ watch.timer \in Nat
      /\ generation \in Nat /\ quiet \in 0..StreamIdleTimeout /\ StreamIdleTimeout \in Nat
      /\ conn \in HttpConnStates /\ conn.timer \in Nat
  BY HttpAssumption DEF HttpInv, HttpTypes, HttpConnStates
<1>4. conn' \in HttpConnStates
  <2>1. conn.phase \in {"initial", "draining"} => conn.timer # 0  BY DEF HttpTick, Due
  <2>2. (IF conn.phase \in {"initial", "draining"} THEN conn.timer - 1 ELSE conn.timer) \in Nat  BY <1>3, <2>1
  <2>3. conn' = [conn EXCEPT !.timer = IF conn.phase \in {"initial", "draining"} THEN conn.timer - 1
                                       ELSE conn.timer]
    BY DEF HttpTick
  <2> QED BY <1>3, <2>2, <2>3 DEF HttpConnStates
<1>5. quiet' \in 0..StreamIdleTimeout /\ (InProgress \/ quiet' >= quiet)
      /\ (InProgress \/ quiet' = quiet + 1 \/ quiet' = StreamIdleTimeout)
  BY <1>3 DEF HttpTick
<1>6. PICK tm \in Nat : watch' = [watch EXCEPT !.timer = tm] /\ (tm = watch.timer \/ tm = watch.timer - 1)
  <2>1. CASE Watching("sleep")
    <3>1. watch.timer # 0  BY <2>1 DEF HttpTick, Due
    <3>2. watch.timer - 1 \in Nat  BY <3>1, <1>3
    <3>3. watch' = [watch EXCEPT !.timer = watch.timer - 1]  BY <2>1 DEF HttpTick
    <3> QED BY <3>2, <3>3
  <2>2. CASE ~Watching("sleep")
    <3>1. watch' = [watch EXCEPT !.timer = watch.timer]  BY <2>2 DEF HttpTick
    <3> QED BY <3>1, <1>3
  <2> QED BY <2>1, <2>2
<1>7. /\ watch' \in [pc : {"off", "observe", "look", "wait", "sleep", "verify"}, observed : Nat, timer : Nat]
      /\ watch'.pc = watch.pc /\ watch'.observed = watch.observed /\ watch'.timer = tm
  BY <1>3, <1>6
<1>8. WatchInv'
  <2>1. WatchInv  BY DEF HttpInv
  <2>2. ASSUME watch.pc = "sleep", watch.observed = generation
        PROVE  ~InProgress /\ quiet' + tm >= StreamIdleTimeout
    <3>1. ~InProgress /\ quiet + watch.timer >= StreamIdleTimeout  BY <2>1, <2>2 DEF WatchInv
    <3>2. quiet' = quiet + 1 \/ quiet' = StreamIdleTimeout  BY <1>5, <3>1
    <3> QED BY <1>3, <1>5, <1>6, <3>1, <3>2
  <2>3. ASSUME watch.pc = "verify", watch.observed = generation
        PROVE  ~InProgress /\ quiet' >= StreamIdleTimeout
    <3>1. ~InProgress /\ quiet >= StreamIdleTimeout  BY <2>1, <2>3 DEF WatchInv
    <3> QED BY <1>3, <1>5, <3>1
  <2>4. watch.observed <= generation  BY <2>1 DEF WatchInv
  <2> QED BY <1>1, <1>2, <1>7, <2>2, <2>3, <2>4 DEF WatchInv
<1>9. HttpTypes'  BY <1>1, <1>4, <1>5, <1>7 DEF HttpInv, HttpTypes, HttpConnStates
<1> QED BY <1>1, <1>8, <1>9, ConnStepKeeps

LEMMA HttpStep == HttpInv /\ [HttpNext]_http_vars => HttpInv'
<1> SUFFICES ASSUME HttpInv, [HttpNext]_http_vars PROVE HttpInv'  OBVIOUS
<1>1. ASSUME NEW r \in Streams, BeginRequest(r) \/ StreamSteps(r) \/ Answer(r) PROVE HttpInv'
  BY <1>1, BeginKeeps, DropRequestKeeps, OtherRequestStepsKeep DEF StreamSteps
<1>2. ASSUME NEW r \in Streams, NEW h \in {"body", "tunnel"}, Release(r, h) PROVE HttpInv'
  BY <1>2, OtherRequestStepsKeep
<1>3. CASE UNCHANGED http_vars
  <2>1. HttpTypes'  BY <1>3 DEF http_vars, HttpInv, HttpTypes
  <2> QED BY <1>3, <2>1, UnwatchedStepKeeps DEF http_vars
<1> QED BY <1>1, <1>2, <1>3, WatchStepKeeps, ConnectionStepKeeps, HttpTickKeeps DEF HttpNext

LEMMA HttpStart == HttpInit => HttpInv
<1> SUFFICES ASSUME HttpInit PROVE HttpInv  OBVIOUS
<1>1. HttpTypes
  <2>1. 0 \in 0..StreamIdleTimeout /\ 0 \in Nat /\ InitialTimeout \in Nat  BY HttpAssumption
  <2>2. stream \in [Streams -> StreamStates]  BY DEF HttpInit, StreamStates
  <2> QED BY <2>1, <2>2 DEF HttpInit, HttpTypes
<1>2. CountedStreams = {}  BY DEF HttpInit, CountedStreams
<1>3. Cardinality(CountedStreams) = 0  BY <1>2, FS_EmptySet
<1>4. WatchInv  BY DEF HttpInit, WatchInv
<1> QED BY <1>1, <1>3, <1>4 DEF HttpInv, HttpInit

(* The one step that closes a connection as idle is the end of the watch. *)
LEMMA ClosesIdle ==
  ASSUME HttpInv, HttpNext, Open, conn'.phase = "closed", conn'.why = "idle"
  PROVE  ~InProgress /\ quiet >= StreamIdleTimeout
<1>1. conn \in HttpConnStates  BY DEF HttpInv, HttpTypes, HttpConnStates
<1>2. conn' # conn  BY DEF Open
<1>3. ~ \E r \in Streams : BeginRequest(r) \/ Touch(r) \/ NotifyOne(r) \/ DropRequest(r) \/ Answer(r)
                           \/ (\E h \in {"body", "tunnel"} : Release(r, h))
  BY <1>2 DEF BeginRequest, Touch, NotifyOne, DropRequest, Answer, Release
<1>4. ~ \E r \in Streams : Enter(r)  BY <1>1 DEF Enter, Open, HttpConnStates
<1>5. ~(FirstRequest \/ InitialTimesOut \/ HttpConnectionEnds \/ BeginGrace \/ GraceEnds \/ DrainBegins \/ HttpTick)
  BY <1>1, <1>2 DEF FirstRequest, InitialTimesOut, HttpConnectionEnds, BeginGrace, GraceEnds, DrainBegins,
                    HttpTick, Closed, Open, HttpConnStates
<1>6. ~(Observe \/ Look \/ Notified \/ SleepEnds)
  BY <1>2 DEF Observe, Look, Notified, SleepEnds
<1>7. Verify  BY <1>3, <1>4, <1>5, <1>6 DEF HttpNext, StreamSteps, Watch
<1>8. watch.pc = "verify" /\ generation = watch.observed
  BY <1>2, <1>7 DEF Verify, Watching
<1> QED BY <1>8 DEF HttpInv, WatchInv

(* For any number of requests and any time-outs: wait_until_idle_for closes *)
(* a connection as idle only when no request or tunnel has been in progress *)
(* on it for the whole idle timeout, however requests begin and end between *)
(* its reads of the two atomics.                                            *)
THEOREM IdleAlwaysMeansIdle == HttpSpec => IdleMeansIdle
<1>1. HttpInv /\ [HttpNext]_http_vars => HttpInv'  BY HttpStep
<1>2. HttpInv /\ [HttpNext]_http_vars =>
        [(Open /\ conn'.phase = "closed" /\ conn'.why = "idle")
           => ~InProgress /\ quiet >= StreamIdleTimeout]_http_vars
  BY ClosesIdle
<1> QED BY HttpStart, <1>1, <1>2, PTL DEF HttpSpec, IdleMeansIdle
----------------------------------------------------------------------------
(* ProxyRelay. *)
UpStates == [sent : Nat, closed : BOOLEAN, read : Nat, out : Nat, taken : Nat,
             pc : {"read", "write", "done"}]

DownStates == [sent : Nat, closed : BOOLEAN, read : Nat, out : Nat, taken : Nat,
               pc : {"read", "full", "due", "last", "done"},
               pending : Nat, carry : Nat, deadline : Nat \cup {NoDeadline}]

(* What the upload's copier keeps: it reads again only when all it read has *)
(* been written, and is done only at the end of the stream.                 *)
UpOK(u) ==
  /\ u \in UpStates
  /\ u.taken <= u.out /\ u.out <= u.read /\ u.read <= u.sent
  /\ u.pc # "write" => u.out = u.read
  /\ u.pc = "done" => u.closed /\ u.read = u.sent

(* What the download's copier keeps: only a full buffer leaves a carry, and *)
(* the last flush comes at the end of the stream.                           *)
DownOK(d) ==
  /\ d \in DownStates
  /\ d.taken <= d.out /\ d.out + d.pending + d.carry = d.read /\ d.read <= d.sent
  /\ d.pending <= BufferSize
  /\ d.pc # "full" => d.carry = 0
  /\ d.pc = "read" => (d.pending > 0 <=> d.deadline # NoDeadline)
  /\ d.pc \in {"last", "done"} => d.closed /\ d.read = d.sent
  /\ d.pc = "done" => d.pending = 0

RelayRests ==
  /\ silent \in 0..IdleTimeout /\ poll \in 0..PollInterval
  /\ ended \in {"no", "completed", "error", "cancelled", "idle"}

RelayInv ==
  /\ UpOK(up) /\ DownOK(down) /\ RelayRests
  /\ usage = [uploaded |-> up.out, downloaded |-> down.read]
  /\ ended = "completed" => up.pc = "done" /\ down.pc = "done"
----------------------------------------------------------------------------
LEMMA RelayInvIsExact == RelayInv => RelayIsExact
<1> SUFFICES ASSUME RelayInv PROVE RelayIsExact  OBVIOUS
<1>1. UpOK(up) /\ DownOK(down)  BY DEF RelayInv
<1>2. up.out \in Nat /\ down.read \in Nat  BY <1>1 DEF UpOK, DownOK, UpStates, DownStates
<1>3. usage \in [uploaded : Nat, downloaded : Nat]  BY <1>2 DEF RelayInv
<1>4. RelayTypes  BY <1>1, <1>3 DEF RelayInv, RelayRests, RelayTypes, UpOK, DownOK, UpStates, DownStates
<1>5. up.taken <= up.out /\ up.out <= up.read /\ up.read <= up.sent  BY <1>1 DEF UpOK
<1>6. /\ down.taken <= down.out /\ down.out + down.pending + down.carry = down.read
      /\ down.read <= down.sent /\ down.pending <= BufferSize
      /\ down.pc = "read" => down.carry = 0 /\ (down.pending > 0 <=> down.deadline # NoDeadline)
  BY <1>1 DEF DownOK
<1>7. ASSUME ended = "completed"
      PROVE  up.closed /\ up.out = up.sent /\ down.closed /\ down.out = down.sent
  <2>1. up.closed /\ up.out = up.sent  BY <1>1, <1>7 DEF RelayInv, UpOK
  <2>2. down.closed /\ down.read = down.sent /\ down.pending = 0 /\ down.carry = 0
    BY <1>1, <1>7 DEF RelayInv, DownOK
  <2>3. down.out \in Nat /\ down.out + down.pending + down.carry = down.read
    BY <1>1 DEF DownOK, DownStates
  <2>4. down.out = down.sent  BY <2>2, <2>3
  <2> QED BY <2>1, <2>2, <2>4
<1> QED BY <1>4, <1>5, <1>6, <1>7 DEF RelayIsExact, RelayInv

LEMMA SmallerBounds ==
  ASSUME NEW a \in Int, NEW b \in Int
  PROVE  Smaller(a, b) \in Int /\ Smaller(a, b) <= a /\ Smaller(a, b) <= b /\ Smaller(a, b) \in {a, b}
BY DEF Smaller

LEMMA UpFields ==
  ASSUME NEW u, UpOK(u)
  PROVE  /\ u \in UpStates /\ u.sent \in Nat /\ u.read \in Nat /\ u.out \in Nat /\ u.taken \in Nat
         /\ u.pc \in {"read", "write", "done"} /\ u.closed \in BOOLEAN
BY DEF UpOK, UpStates

LEMMA DownFields ==
  ASSUME NEW d, DownOK(d)
  PROVE  /\ d \in DownStates /\ d.sent \in Nat /\ d.read \in Nat /\ d.out \in Nat /\ d.taken \in Nat
         /\ d.pending \in Nat /\ d.carry \in Nat /\ d.deadline \in Nat \cup {NoDeadline}
         /\ d.pc \in {"read", "full", "due", "last", "done"} /\ d.closed \in BOOLEAN
BY DEF DownOK, DownStates

(* A step of the upload's side. *)
LEMMA UpStepKeeps ==
  ASSUME RelayInv, UpOK(up'), RelayRests', down' = down,
         usage' = [usage EXCEPT !.uploaded = up'.out],
         ended' = "completed" => up'.pc = "done" /\ down'.pc = "done"
  PROVE  RelayInv'
<1>1. usage' = [uploaded |-> up'.out, downloaded |-> down.read]  BY DEF RelayInv
<1> QED BY <1>1 DEF RelayInv

(* A step of the download's side. *)
LEMMA DownStepKeeps ==
  ASSUME RelayInv, DownOK(down'), RelayRests', up' = up,
         usage' = [usage EXCEPT !.downloaded = down'.read],
         ended' = "completed" => up'.pc = "done" /\ down'.pc = "done"
  PROVE  RelayInv'
<1>1. usage' = [uploaded |-> up.out, downloaded |-> down'.read]  BY DEF RelayInv
<1> QED BY <1>1 DEF RelayInv

LEMMA UsageSame ==
  ASSUME RelayInv
  PROVE  usage = [usage EXCEPT !.uploaded = up.out] /\ usage = [usage EXCEPT !.downloaded = down.read]
BY DEF RelayInv

LEMMA RecordRests ==
  ASSUME RelayInv, silent' = 0 \/ silent' = silent, UNCHANGED poll, UNCHANGED ended
  PROVE  RelayRests'
<1>1. IdleTimeout \in Nat  BY RelayAssumption
<1>2. 0 \in 0..IdleTimeout  BY <1>1
<1> QED BY <1>2 DEF RelayInv, RelayRests
----------------------------------------------------------------------------
LEMMA UploadKeeps ==
  ASSUME RelayInv, Upload
  PROVE  RelayInv'
<1>1. UpOK(up)  BY DEF RelayInv
<1>2. up \in UpStates /\ up.sent \in Nat /\ up.read \in Nat /\ up.out \in Nat /\ up.taken \in Nat
      /\ ReadSize \in Nat /\ Window \in Nat
  BY <1>1, UpFields, RelayAssumption
<1>3. RelayRests'
  <2>1. (silent' = 0 \/ silent' = silent) /\ UNCHANGED poll /\ UNCHANGED ended
    BY DEF Upload, UploadRead, UploadEnds, UploadWrite, record
  <2> QED BY <2>1, RecordRests
<1>4. ended' # "completed" /\ down' = down
  BY DEF Upload, UploadRead, UploadEnds, UploadWrite, Running
<1>5. CASE UploadRead
  <2>1. PICK n \in Available(up) : up' = [up EXCEPT !.read = @ + n, !.pc = "write"]  BY <1>5 DEF UploadRead
  <2>2. n \in Nat /\ n <= up.sent - up.read
    <3>1. up.sent - up.read \in Int /\ ReadSize \in Int  BY <1>2
    <3>2. Smaller(ReadSize, up.sent - up.read) \in Int /\ Smaller(ReadSize, up.sent - up.read) <= up.sent - up.read
      BY <3>1, SmallerBounds
    <3> QED BY <3>1, <3>2 DEF Available
  <2>3. up.read + n \in Nat /\ up.read + n <= up.sent /\ up.out <= up.read + n
    BY <1>2, <2>2, <1>1 DEF UpOK
  <2>4. /\ up' \in UpStates /\ up'.pc = "write" /\ up'.read = up.read + n /\ up'.sent = up.sent
        /\ up'.out = up.out /\ up'.taken = up.taken
    BY <1>2, <2>1, <2>3 DEF UpStates
  <2>5. UpOK(up')  BY <1>1, <2>3, <2>4 DEF UpOK
  <2>6. usage' = [usage EXCEPT !.uploaded = up'.out]  BY <1>5, <2>4, UsageSame DEF UploadRead
  <2> QED BY <1>3, <1>4, <2>5, <2>6, UpStepKeeps
<1>6. CASE UploadEnds
  <2>1. /\ up' = [up EXCEPT !.pc = "done"] /\ up.pc = "read" /\ up.closed /\ up.read = up.sent
    BY <1>6 DEF UploadEnds, AtEnd
  <2>2. /\ up' \in UpStates /\ up'.pc = "done" /\ up'.read = up.read /\ up'.sent = up.sent
        /\ up'.out = up.out /\ up'.taken = up.taken /\ up'.closed = up.closed
    BY <1>2, <2>1 DEF UpStates
  <2>3. UpOK(up')  BY <1>1, <2>1, <2>2 DEF UpOK
  <2>4. usage' = [usage EXCEPT !.uploaded = up'.out]  BY <1>6, <2>2, UsageSame DEF UploadEnds
  <2> QED BY <1>3, <1>4, <2>3, <2>4, UpStepKeeps
<1>7. CASE UploadWrite
  <2>1. PICK k \in 1..Smaller(Room(up), up.read - up.out) :
          /\ up' = [up EXCEPT !.out = @ + k, !.pc = IF up.out + k = up.read THEN "read" ELSE "write"]
          /\ usage' = [usage EXCEPT !.uploaded = @ + k]
    BY <1>7 DEF UploadWrite
  <2>2. k \in Nat /\ k <= up.read - up.out
    <3>1. up.read - up.out \in Int /\ Room(up) \in Int  BY <1>2 DEF Room
    <3>2. Smaller(Room(up), up.read - up.out) \in Int /\ Smaller(Room(up), up.read - up.out) <= up.read - up.out
      BY <3>1, SmallerBounds
    <3> QED BY <3>1, <3>2
  <2>3. up.out + k \in Nat /\ up.out + k <= up.read /\ up.taken <= up.out + k
    BY <1>2, <2>2, <1>1 DEF UpOK
  <2>4. /\ up' \in UpStates /\ up'.read = up.read /\ up'.sent = up.sent
        /\ up'.out = up.out + k /\ up'.taken = up.taken
        /\ up'.pc = IF up.out + k = up.read THEN "read" ELSE "write"
    BY <1>2, <2>1, <2>3 DEF UpStates
  <2>5. UpOK(up')  BY <1>1, <2>3, <2>4 DEF UpOK
  <2>6. usage.uploaded = up.out  BY DEF RelayInv
  <2>7. usage' = [usage EXCEPT !.uploaded = up'.out]  BY <2>1, <2>4, <2>6
  <2> QED BY <1>3, <1>4, <2>5, <2>7, UpStepKeeps
<1> QED BY <1>5, <1>6, <1>7 DEF Upload
----------------------------------------------------------------------------
(* Before the buffer absorbs: n bytes are read and belong nowhere yet. *)
Unplaced(d, n) ==
  /\ d \in DownStates /\ n \in Nat \ {0}
  /\ d.taken <= d.out /\ d.out + d.pending + n = d.read /\ d.read <= d.sent
  /\ d.pending <= BufferSize
  /\ d.pending > 0 => d.deadline # NoDeadline

LEMMA AbsorbPlaces ==
  ASSUME NEW d, NEW n, Unplaced(d, n)
  PROVE  DownOK(Absorb(d, n)) /\ Absorb(d, n).read = d.read
<1> DEFINE take == Smaller(BufferSize - d.pending, n)
           a == Absorb(d, n)
<1>1. /\ d \in DownStates /\ d.sent \in Nat /\ d.read \in Nat /\ d.out \in Nat /\ d.taken \in Nat
      /\ d.pending \in Nat /\ d.deadline \in Nat \cup {NoDeadline} /\ n \in Nat \ {0}
      /\ BufferSize \in Nat \ {0} /\ FlushInterval \in Nat /\ NoDeadline \notin Nat
  BY RelayAssumption DEF Unplaced, DownStates
<1>2. /\ take \in Int /\ take <= BufferSize - d.pending /\ take <= n
      /\ take = n \/ take = BufferSize - d.pending
  <2>1. BufferSize - d.pending \in Int /\ n \in Int  BY <1>1
  <2> QED BY <2>1, SmallerBounds
<1> HIDE DEF take
<1>3. d.pending <= BufferSize  BY DEF Unplaced
<1>4. take \in Nat  BY <1>1, <1>2, <1>3
<1>5. d.pending + take \in Nat /\ n - take \in Nat /\ d.pending + take <= BufferSize
  BY <1>1, <1>2, <1>3, <1>4
<1>6. (IF d.pending = 0 THEN FlushInterval ELSE d.deadline) \in Nat \cup {NoDeadline}  BY <1>1
<1>7. a = [d EXCEPT !.pending = d.pending + take, !.carry = n - take,
                    !.deadline = IF d.pending = 0 THEN FlushInterval ELSE d.deadline,
                    !.pc = IF d.pending + take = BufferSize THEN "full" ELSE "read"]
  BY DEF Absorb, take
<1>8. /\ a \in DownStates /\ a.pending = d.pending + take /\ a.carry = n - take
      /\ a.deadline = (IF d.pending = 0 THEN FlushInterval ELSE d.deadline)
      /\ a.pc = (IF d.pending + take = BufferSize THEN "full" ELSE "read")
      /\ a.sent = d.sent /\ a.read = d.read /\ a.out = d.out /\ a.taken = d.taken
  BY <1>1, <1>5, <1>6, <1>7 DEF DownStates
<1> HIDE DEF a
<1>9. a.taken <= a.out /\ a.read <= a.sent /\ a.pending <= BufferSize  BY <1>5, <1>8 DEF Unplaced
<1>10. a.out + a.pending + a.carry = a.read
  <2>1. d.out + d.pending + n = d.read  BY DEF Unplaced
  <2>2. d.out + (d.pending + take) + (n - take) = d.read  BY <1>1, <1>4, <2>1
  <2> QED BY <1>8, <2>2
<1>11. a.pc # "full" => a.carry = 0 /\ a.pending > 0
  <2>1. SUFFICES ASSUME d.pending + take # BufferSize PROVE n - take = 0 /\ d.pending + take > 0
    BY <1>8
  <2> QED BY <2>1, <1>1, <1>2, <1>4
<1>12. a.deadline # NoDeadline  BY <1>1, <1>8 DEF Unplaced
<1>13. a.pc \in {"full", "read"}  BY <1>8
<1>14. DownOK(a)  BY <1>8, <1>9, <1>10, <1>11, <1>12, <1>13 DEF DownOK
<1> QED BY <1>8, <1>14 DEF a

LEMMA DownloadReadKeeps ==
  ASSUME RelayInv, DownloadRead
  PROVE  RelayInv'
<1>1. DownOK(down)  BY DEF RelayInv
<1>2. down \in DownStates /\ down.sent \in Nat /\ down.read \in Nat /\ down.out \in Nat
      /\ down.pending \in Nat /\ down.carry \in Nat
  BY <1>1, DownFields
<1>3. PICK n \in Available(down) : /\ down' = Absorb([down EXCEPT !.read = @ + n], n)
                                   /\ usage' = [usage EXCEPT !.downloaded = @ + n]
  BY DEF DownloadRead
<1>4. n \in Nat \ {0} /\ n <= down.sent - down.read
  <2>1. down.sent - down.read \in Int /\ ReadSize \in Int  BY <1>2, RelayAssumption
  <2>2. /\ Smaller(ReadSize, down.sent - down.read) \in Int
        /\ Smaller(ReadSize, down.sent - down.read) <= down.sent - down.read
    BY <2>1, SmallerBounds
  <2> QED BY <2>1, <2>2 DEF Available
<1> DEFINE d == [down EXCEPT !.read = down.read + n]
<1>5. down.read + n \in Nat /\ down.read + n <= down.sent  BY <1>2, <1>4
<1>6. /\ d \in DownStates /\ d.read = down.read + n /\ d.sent = down.sent /\ d.out = down.out
      /\ d.taken = down.taken /\ d.pending = down.pending /\ d.deadline = down.deadline
  BY <1>2, <1>5 DEF DownStates
<1>7. down' = Absorb(d, n)  BY <1>3
<1> HIDE DEF d
<1>8. down.pc = "read"  BY DEF DownloadRead
<1>9. /\ down.carry = 0 /\ down.out + down.pending + down.carry = down.read /\ down.taken <= down.out
      /\ down.pending <= BufferSize /\ (down.pending > 0 => down.deadline # NoDeadline)
  BY <1>1, <1>8 DEF DownOK
<1>10. down.out + down.pending + n = down.read + n  BY <1>2, <1>4, <1>9
<1>11. Unplaced(d, n)  BY <1>4, <1>5, <1>6, <1>9, <1>10 DEF Unplaced
<1>12. DownOK(down') /\ down'.read = down.read + n  BY <1>6, <1>7, <1>11, AbsorbPlaces
<1>13. usage.downloaded = down.read  BY DEF RelayInv
<1>14. usage' = [usage EXCEPT !.downloaded = down'.read]  BY <1>3, <1>12, <1>13
<1>15. RelayRests'
  <2>1. (silent' = 0 \/ silent' = silent) /\ UNCHANGED poll /\ UNCHANGED ended  BY DEF DownloadRead, record
  <2> QED BY <2>1, RecordRests
<1> QED BY <1>12, <1>14, <1>15, DownStepKeeps DEF DownloadRead, Running

LEMMA FlushPendingKeeps ==
  ASSUME RelayInv, FlushPending
  PROVE  RelayInv'
<1>1. DownOK(down)  BY DEF RelayInv
<1>2. /\ down \in DownStates /\ down.sent \in Nat /\ down.read \in Nat /\ down.out \in Nat
      /\ down.taken \in Nat /\ down.pending \in Nat /\ down.carry \in Nat
      /\ down.deadline \in Nat \cup {NoDeadline}
  BY <1>1, DownFields
<1>3. PICK k \in 1..Smaller(Room(down), down.pending) :
        LET d == [down EXCEPT !.out = @ + k, !.pending = @ - k] IN
        /\ down' = IF d.pending = 0 THEN Flushed(d) ELSE d
        /\ IF d.pending = 0 /\ d.pc = "full" THEN record ELSE UNCHANGED silent
  BY DEF FlushPending
<1>4. k \in Nat /\ k <= down.pending
  <2>1. down.pending \in Int /\ Room(down) \in Int  BY <1>2, RelayAssumption DEF Room
  <2>2. /\ Smaller(Room(down), down.pending) \in Int /\ Smaller(Room(down), down.pending) <= down.pending
    BY <2>1, SmallerBounds
  <2> QED BY <2>1, <2>2
<1> DEFINE d == [down EXCEPT !.out = down.out + k, !.pending = down.pending - k]
<1>5. down.out + k \in Nat /\ down.pending - k \in Nat  BY <1>2, <1>4
<1>6. /\ d \in DownStates /\ d.out = down.out + k /\ d.pending = down.pending - k
      /\ d.read = down.read /\ d.sent = down.sent /\ d.taken = down.taken /\ d.carry = down.carry
      /\ d.deadline = down.deadline /\ d.pc = down.pc /\ d.closed = down.closed
  BY <1>2, <1>5 DEF DownStates
<1>7. down' = IF d.pending = 0 THEN Flushed(d) ELSE d  BY <1>3
<1>8. RelayRests'
  <2>1. (silent' = 0 \/ silent' = silent) /\ UNCHANGED poll /\ UNCHANGED ended
    BY <1>3 DEF FlushPending, record
  <2> QED BY <2>1, RecordRests
<1> HIDE DEF d
<1>9. down.pc \in {"full", "due", "last"}  BY DEF FlushPending
<1>10. /\ down.out + down.pending + down.carry = down.read /\ down.taken <= down.out
       /\ down.pending <= BufferSize /\ down.read <= down.sent
       /\ (down.pc # "full" => down.carry = 0)
       /\ (down.pc = "last" => down.closed /\ down.read = down.sent)
  BY <1>1 DEF DownOK
<1>11. /\ d.taken <= d.out /\ d.out + d.pending + d.carry = d.read /\ d.read <= d.sent
       /\ d.pending <= BufferSize
  <2>1. down.taken <= down.out + k  BY <1>2, <1>4, <1>10
  <2>2. (down.out + k) + (down.pending - k) + down.carry = down.read  BY <1>2, <1>4, <1>10
  <2>3. down.pending - k <= BufferSize  BY <1>2, <1>4, <1>10, RelayAssumption
  <2> QED BY <1>6, <1>10, <2>1, <2>2, <2>3
<1>12. DownOK(d)  BY <1>6, <1>9, <1>10, <1>11 DEF DownOK
<1>13. ASSUME d.pending = 0 PROVE DownOK(Flushed(d)) /\ Flushed(d).read = d.read
  <2>1. CASE d.pc = "last"
    <3>1. Flushed(d) = [d EXCEPT !.pc = "done"]  BY <2>1 DEF Flushed
    <3> DEFINE f == [d EXCEPT !.pc = "done"]
    <3>2. /\ f \in DownStates /\ f.pc = "done" /\ f.sent = d.sent /\ f.read = d.read /\ f.out = d.out
          /\ f.taken = d.taken /\ f.pending = d.pending /\ f.carry = d.carry /\ f.closed = d.closed
      BY <1>6 DEF DownStates
    <3> HIDE DEF f
    <3>3. DownOK(f)  BY <1>12, <1>13, <2>1, <3>2 DEF DownOK
    <3> QED BY <3>1, <3>2, <3>3 DEF f
  <2> DEFINE e == [d EXCEPT !.deadline = NoDeadline]
  <2>2. /\ e \in DownStates /\ e.pc = d.pc /\ e.sent = d.sent /\ e.read = d.read /\ e.out = d.out
        /\ e.taken = d.taken /\ e.pending = d.pending /\ e.carry = d.carry /\ e.closed = d.closed
        /\ e.deadline = NoDeadline
    BY <1>6 DEF DownStates
  <2>3. CASE d.pc = "full" /\ d.carry > 0
    <3>1. Flushed(d) = Absorb(e, d.carry)  BY <2>3 DEF Flushed
    <3> HIDE DEF e
    <3>2. d.carry \in Nat \ {0} /\ ~(0 > 0)  BY <1>2, <1>6, <2>3
    <3>3. Unplaced(e, d.carry)  BY <1>11, <1>13, <2>2, <3>2 DEF Unplaced
    <3> QED BY <2>2, <3>1, <3>3, AbsorbPlaces
  <2>4. CASE d.pc # "last" /\ ~(d.pc = "full" /\ d.carry > 0)
    <3>1. Flushed(d) = [e EXCEPT !.pc = "read"]  BY <2>4 DEF Flushed
    <3> HIDE DEF e
    <3> DEFINE f == [e EXCEPT !.pc = "read"]
    <3>2. /\ f \in DownStates /\ f.pc = "read" /\ f.sent = d.sent /\ f.read = d.read /\ f.out = d.out
          /\ f.taken = d.taken /\ f.pending = d.pending /\ f.carry = d.carry /\ f.deadline = NoDeadline
      BY <2>2 DEF DownStates
    <3> HIDE DEF f
    <3>3. d.carry = 0 /\ ~(0 > 0)  BY <1>2, <1>6, <1>12, <2>4 DEF DownOK
    <3>4. DownOK(f)  BY <1>11, <1>13, <3>2, <3>3 DEF DownOK
    <3> QED BY <3>1, <3>2, <3>4 DEF f
  <2> QED BY <2>1, <2>3, <2>4
<1>14. DownOK(down') /\ down'.read = down.read  BY <1>6, <1>7, <1>12, <1>13
<1>15. usage' = [usage EXCEPT !.downloaded = down'.read]  BY <1>14, UsageSame DEF FlushPending
<1> QED BY <1>8, <1>14, <1>15, DownStepKeeps DEF FlushPending, Running

(* The copier stops reading, to flush what is due or what is left. *)
LEMMA StopsReading ==
  ASSUME RelayInv, NEW to \in {"due", "last", "done"}, down.pc = "read", down' = [down EXCEPT !.pc = to],
         to # "due" => down.closed /\ down.read = down.sent,
         to = "done" => ~(down.pending > 0)
  PROVE  DownOK(down') /\ down'.read = down.read
<1>1. DownOK(down)  BY DEF RelayInv
<1>2. down \in DownStates /\ down.pending \in Nat  BY <1>1, DownFields
<1>3. down' \in DownStates  BY <1>2 DEF DownStates
<1>4. /\ down'.pc = to /\ down'.sent = down.sent /\ down'.read = down.read
      /\ down'.out = down.out /\ down'.taken = down.taken /\ down'.pending = down.pending
      /\ down'.carry = down.carry /\ down'.closed = down.closed
  BY <1>2 DEF DownStates
<1>5. to = "done" => down.pending = 0  BY <1>2
<1> QED BY <1>1, <1>3, <1>4, <1>5 DEF DownOK

LEMMA DownloadWaitsKeep ==
  ASSUME RelayInv, FlushDue \/ DownloadEnds
  PROVE  RelayInv'
<1>1. RelayRests'
  <2>1. (silent' = 0 \/ silent' = silent) /\ UNCHANGED poll /\ UNCHANGED ended  BY DEF FlushDue, DownloadEnds
  <2> QED BY <2>1, RecordRests
<1>2. DownOK(down') /\ down'.read = down.read
  <2>1. CASE FlushDue
    <3>1. down.pc = "read" /\ down' = [down EXCEPT !.pc = "due"]  BY <2>1 DEF FlushDue
    <3> QED BY <3>1, StopsReading
  <2>2. CASE DownloadEnds /\ down.pending > 0
    <3>1. down.pc = "read" /\ down' = [down EXCEPT !.pc = "last"] /\ down.closed /\ down.read = down.sent
      BY <2>2 DEF DownloadEnds, AtEnd
    <3> QED BY <3>1, StopsReading
  <2>3. CASE DownloadEnds /\ ~(down.pending > 0)
    <3>1. down.pc = "read" /\ down' = [down EXCEPT !.pc = "done"] /\ down.closed /\ down.read = down.sent
      BY <2>3 DEF DownloadEnds, AtEnd
    <3> QED BY <2>3, <3>1, StopsReading
  <2> QED BY <2>1, <2>2, <2>3
<1>3. usage' = [usage EXCEPT !.downloaded = down'.read]  BY <1>2, UsageSame DEF FlushDue, DownloadEnds
<1> QED BY <1>1, <1>2, <1>3, DownStepKeeps DEF FlushDue, DownloadEnds, Running
----------------------------------------------------------------------------
LEMMA EndingKeeps ==
  ASSUME RelayInv, Completes \/ Breaks \/ wait_until_idle
  PROVE  RelayInv'
<1>1. RelayRests'
  <2>1. PollInterval \in Nat  BY RelayAssumption
  <2>2. PollInterval \in 0..PollInterval  BY <2>1
  <2> QED BY <2>2 DEF Completes, Breaks, wait_until_idle, RelayInv, RelayRests
<1>2. up' = up /\ down' = down /\ usage' = usage  BY DEF Completes, Breaks, wait_until_idle
<1>3. ended' = "completed" => up.pc = "done" /\ down.pc = "done"
  BY DEF Completes, Breaks, wait_until_idle, Running
<1> QED BY <1>1, <1>2, <1>3 DEF RelayInv

(* The two ends: the sender sends or closes, the receiver reads. *)
LEMMA ClientSideKeeps ==
  ASSUME RelayInv, ClientSends \/ ServerReads
  PROVE  RelayInv'
<1>1. UpOK(up)  BY DEF RelayInv
<1>2. up \in UpStates /\ up.sent \in Nat /\ up.read \in Nat /\ up.out \in Nat /\ up.taken \in Nat
  BY <1>1, UpFields
<1>3. RelayRests'  BY DEF ClientSends, ServerReads, RelayInv, RelayRests
<1>4. CASE ClientSends
  <2>1. ~up.closed /\ up.pc # "done"  BY <1>1, <1>4 DEF ClientSends, UpOK
  <2>2. up.sent + 1 \in Nat /\ up.read <= up.sent + 1  BY <1>1, <1>2 DEF UpOK
  <2>3. \/ up' = [up EXCEPT !.sent = up.sent + 1] \/ up' = [up EXCEPT !.closed = TRUE]
    BY <1>4 DEF ClientSends
  <2>4. /\ up' \in UpStates /\ (up'.sent = up.sent \/ up'.sent = up.sent + 1) /\ up'.read = up.read
        /\ up'.out = up.out /\ up'.taken = up.taken /\ up'.pc = up.pc
    <3>1. CASE up' = [up EXCEPT !.sent = up.sent + 1]  BY <1>2, <2>2, <3>1 DEF UpStates
    <3>2. CASE up' = [up EXCEPT !.closed = TRUE]  BY <1>2, <3>2 DEF UpStates
    <3> QED BY <2>3, <3>1, <3>2
  <2>5. UpOK(up')  BY <1>1, <2>1, <2>2, <2>4 DEF UpOK
  <2>6. usage' = [usage EXCEPT !.uploaded = up'.out]  BY <1>4, <2>4, UsageSame DEF ClientSends
  <2> QED BY <1>3, <1>4, <2>5, <2>6, UpStepKeeps DEF ClientSends, Running
<1>5. CASE ServerReads
  <2>1. up.taken + 1 \in Nat /\ up.taken + 1 <= up.out  BY <1>2, <1>5 DEF ServerReads
  <2>2. up' = [up EXCEPT !.taken = up.taken + 1]  BY <1>5 DEF ServerReads
  <2>3. /\ up' \in UpStates /\ up'.sent = up.sent /\ up'.read = up.read /\ up'.closed = up.closed
        /\ up'.out = up.out /\ up'.taken = up.taken + 1 /\ up'.pc = up.pc
    BY <1>2, <2>1, <2>2 DEF UpStates
  <2>4. UpOK(up')  BY <1>1, <2>1, <2>3 DEF UpOK
  <2>5. usage' = [usage EXCEPT !.uploaded = up'.out]  BY <1>5, <2>3, UsageSame DEF ServerReads
  <2> QED BY <1>3, <1>5, <2>3, <2>4, <2>5, UpStepKeeps DEF ServerReads, RelayInv
<1> QED BY <1>4, <1>5

LEMMA ServerSideKeeps ==
  ASSUME RelayInv, ServerSends \/ ClientReads
  PROVE  RelayInv'
<1>1. DownOK(down)  BY DEF RelayInv
<1>2. down \in DownStates /\ down.sent \in Nat /\ down.read \in Nat /\ down.out \in Nat /\ down.taken \in Nat
  BY <1>1, DownFields
<1>3. RelayRests'  BY DEF ServerSends, ClientReads, RelayInv, RelayRests
<1>4. CASE ServerSends
  <2>1. ~down.closed /\ down.pc \notin {"last", "done"}  BY <1>1, <1>4 DEF ServerSends, DownOK
  <2>2. down.sent + 1 \in Nat /\ down.read <= down.sent + 1  BY <1>1, <1>2 DEF DownOK
  <2>3. \/ down' = [down EXCEPT !.sent = down.sent + 1] \/ down' = [down EXCEPT !.closed = TRUE]
    BY <1>4 DEF ServerSends
  <2>4. /\ down' \in DownStates /\ (down'.sent = down.sent \/ down'.sent = down.sent + 1)
        /\ down'.read = down.read /\ down'.out = down.out /\ down'.taken = down.taken /\ down'.pc = down.pc
        /\ down'.pending = down.pending /\ down'.carry = down.carry /\ down'.deadline = down.deadline
    <3>1. CASE down' = [down EXCEPT !.sent = down.sent + 1]  BY <1>2, <2>2, <3>1 DEF DownStates
    <3>2. CASE down' = [down EXCEPT !.closed = TRUE]  BY <1>2, <3>2 DEF DownStates
    <3> QED BY <2>3, <3>1, <3>2
  <2>5. DownOK(down')  BY <1>1, <2>1, <2>2, <2>4 DEF DownOK
  <2>6. usage' = [usage EXCEPT !.downloaded = down'.read]  BY <1>4, <2>4, UsageSame DEF ServerSends
  <2> QED BY <1>3, <1>4, <2>5, <2>6, DownStepKeeps DEF ServerSends, Running
<1>5. CASE ClientReads
  <2>1. down.taken + 1 \in Nat /\ down.taken + 1 <= down.out  BY <1>2, <1>5 DEF ClientReads
  <2>2. down' = [down EXCEPT !.taken = down.taken + 1]  BY <1>5 DEF ClientReads
  <2>3. /\ down' \in DownStates /\ down'.sent = down.sent /\ down'.read = down.read
        /\ down'.closed = down.closed /\ down'.out = down.out /\ down'.taken = down.taken + 1
        /\ down'.pc = down.pc /\ down'.pending = down.pending /\ down'.carry = down.carry
        /\ down'.deadline = down.deadline
    BY <1>2, <2>1, <2>2 DEF DownStates
  <2>4. DownOK(down')  BY <1>1, <2>1, <2>3 DEF DownOK
  <2>5. usage' = [usage EXCEPT !.downloaded = down'.read]  BY <1>5, <2>3, UsageSame DEF ClientReads
  <2> QED BY <1>3, <1>5, <2>3, <2>4, <2>5, DownStepKeeps DEF ClientReads, RelayInv
<1> QED BY <1>4, <1>5

LEMMA RelayTickKeeps ==
  ASSUME RelayInv, RelayTick
  PROVE  RelayInv'
<1>1. DownOK(down)  BY DEF RelayInv
<1>2. down \in DownStates /\ down.deadline \in Nat \cup {NoDeadline} /\ NoDeadline \notin Nat
  BY <1>1, DownFields, RelayAssumption
<1>3. RelayRests'
  <2>1. IdleTimeout \in Nat /\ PollInterval \in Nat  BY RelayAssumption
  <2>2. silent \in 0..IdleTimeout /\ poll \in 0..PollInterval  BY DEF RelayInv, RelayRests
  <2>3. silent' \in 0..IdleTimeout  BY <2>1, <2>2 DEF RelayTick, Smaller
  <2>4. poll' \in 0..PollInterval  BY <2>1, <2>2 DEF RelayTick
  <2> QED BY <2>3, <2>4 DEF RelayTick, RelayInv, RelayRests
<1> DEFINE t == IF down.deadline \in {NoDeadline, 0} THEN down.deadline ELSE down.deadline - 1
<1>4. t \in Nat \cup {NoDeadline} /\ (t = NoDeadline <=> down.deadline = NoDeadline)  BY <1>2
<1>5. down' = [down EXCEPT !.deadline = t]  BY DEF RelayTick
<1> HIDE DEF t
<1>6. /\ down' \in DownStates /\ down'.sent = down.sent /\ down'.read = down.read
      /\ down'.closed = down.closed /\ down'.out = down.out /\ down'.taken = down.taken
      /\ down'.pc = down.pc /\ down'.pending = down.pending /\ down'.carry = down.carry
      /\ down'.deadline = t
  BY <1>2, <1>4, <1>5 DEF DownStates
<1>7. DownOK(down')  BY <1>1, <1>4, <1>6 DEF DownOK
<1>8. usage' = [usage EXCEPT !.downloaded = down'.read]  BY <1>6, UsageSame DEF RelayTick
<1> QED BY <1>3, <1>7, <1>8, DownStepKeeps DEF RelayTick, Running

LEMMA RelayStep == RelayInv /\ [RelayNext]_relay_vars => RelayInv'
<1> SUFFICES ASSUME RelayInv, [RelayNext]_relay_vars PROVE RelayInv'  OBVIOUS
<1>1. CASE UNCHANGED relay_vars  BY <1>1 DEF relay_vars, RelayInv, RelayRests
<1> QED BY <1>1, UploadKeeps, DownloadReadKeeps, FlushPendingKeeps, DownloadWaitsKeep, EndingKeeps,
           ClientSideKeeps, ServerSideKeeps, RelayTickKeeps DEF RelayNext, Download

LEMMA RelayStart == RelayInit => RelayInv
<1> SUFFICES ASSUME RelayInit PROVE RelayInv  OBVIOUS
<1>1. 0 \in Nat /\ 0 <= 0 /\ 0 + 0 + 0 = 0 /\ ~(0 > 0) /\ 0 <= BufferSize /\ 0 \in 0..IdleTimeout
      /\ PollInterval \in 0..PollInterval
  <2>1. BufferSize \in Nat /\ IdleTimeout \in Nat /\ PollInterval \in Nat  BY RelayAssumption
  <2> QED BY <2>1
<1>2. UpOK(up)
  <2>1. /\ up \in UpStates /\ up.sent = 0 /\ up.read = 0 /\ up.out = 0 /\ up.taken = 0 /\ up.pc = "read"
    BY <1>1 DEF RelayInit, UpStates
  <2> QED BY <1>1, <2>1 DEF UpOK
<1>3. DownOK(down)
  <2>1. /\ down \in DownStates /\ down.sent = 0 /\ down.read = 0 /\ down.out = 0 /\ down.taken = 0
        /\ down.pc = "read" /\ down.pending = 0 /\ down.carry = 0 /\ down.deadline = NoDeadline
    BY <1>1 DEF RelayInit, DownStates
  <2> QED BY <1>1, <2>1 DEF DownOK
<1>4. RelayRests  BY <1>1 DEF RelayInit, RelayRests
<1>5. usage = [uploaded |-> up.out, downloaded |-> down.read] /\ ended # "completed"  BY DEF RelayInit
<1> QED BY <1>2, <1>3, <1>4, <1>5 DEF RelayInv

(* For streams, buffers, windows and timers of any size: the relay of a     *)
(* CONNECT tunnel loses and repeats no byte in either direction, keeps none *)
(* back without a deadline, charges the account for what passed, and        *)
(* completes only when both streams were carried to their end.              *)
THEOREM RelayStaysExact == RelaySpec => []RelayIsExact
<1>1. RelaySpec => []RelayInv  BY RelayStart, RelayStep, PTL DEF RelaySpec
<1> QED BY <1>1, RelayInvIsExact, PTL
----------------------------------------------------------------------------
(***************************************************************************)
(* CONNECT requests of the proxy.                                          *)
(***************************************************************************)
ProxyPlaces == {"new", "authorizing", "resolving", "dialing", "upgrading", "relaying", "done"}
Replies == {"none", "200", "origin", "400", "403", "407", "429", "502", "503", "504"}
PermitPlaces == {"resolving", "dialing", "upgrading", "relaying"}
ConnectRequests ==
  [pc : ProxyPlaces, host : Hosts \cup {Absent}, permit : BOOLEAN, session : {"none", "open", "cancelled"},
   addresses : Seq(Public), of : Hosts \cup {Absent}, asOf : Nat, next : Nat \ {0}, attempts : SUBSET Public,
   timer : Nat, due : Nat, connection : Public \cup {Absent}, reply : Replies]

(* What one request is at a time t: it holds a permit from its plan to its  *)
(* end; what it dials or has dialed are addresses of its list; a dial is    *)
(* within its time, and that began while the answer it uses was not         *)
(* expired.                                                                 *)
ConnectOK(q, t) ==
  /\ q \in ConnectRequests
  /\ q.permit <=> q.pc \in PermitPlaces
  /\ q.pc \notin PermitPlaces => q.attempts = {} /\ q.connection = Absent
  /\ q.pc \in PermitPlaces => q.host \in Hosts
  /\ q.attempts \cup ({q.connection} \ {Absent}) \subseteq Range(q.addresses)
  /\ q.pc \in {"upgrading", "relaying"} => q.connection # Absent
  /\ q.pc \in {"resolving", "dialing"} => q.connection = Absent /\ t <= q.due /\ q.due <= t + DialTimeout
  /\ q.pc = "dialing" =>
       q.attempts # {} /\ q.asOf <= t /\ q.of = q.host /\ q.due <= q.asOf + Ttl + DialTimeout

Held(c) == {h \in Hosts : c[h] # Absent}
Usable(answer, h, t) ==
  /\ answer \in Answered /\ answer.host = h /\ answer.addresses # <<>>
  /\ answer.expires = answer.asOf + Ttl /\ answer.asOf <= t

CacheOK(c, t) ==
  /\ DOMAIN c = Hosts /\ c = [h \in Hosts |-> c[h]]
  /\ \A h \in Hosts : c[h] # Absent => Usable(c[h], h, t)
  /\ Cardinality(Held(c)) <= CacheEntries

Holders(reqs) == {r \in Connects : reqs[r].permit}

ProxyInv ==
  /\ now \in Nat
  /\ DOMAIN connect = Connects /\ connect = [r \in Connects |-> connect[r]]
  /\ \A r \in Connects : ConnectOK(connect[r], now)
  /\ open = Holders(connect)
  /\ free = MaxConnections - Cardinality(Holders(connect))
  /\ CacheOK(cache, now)
----------------------------------------------------------------------------
LEMMA ProxyConstants ==
  /\ IsFiniteSet(Connects) /\ IsFiniteSet(Hosts)
  /\ MaxConnections \in Nat /\ CacheEntries \in Nat /\ Ttl \in Nat /\ DialTimeout \in Nat /\ Stagger \in Nat
  /\ \A s \in Answers : s \in Seq(Range(s))
  /\ Absent \notin Hosts /\ Absent \notin Public /\ Absent \notin Answered
BY ProxyAssumption

(* What is pushed are addresses of the list, as many as there are places.   *)
LEMMA PushedIsPart ==
  ASSUME NEW S, NEW s \in Seq(S), NEW places \in SUBSET DOMAIN s
  PROVE  Pushed(s, places) \in Seq(S) /\ Len(Pushed(s, places)) = Cardinality(places) /\ Cardinality(places) \in Nat
<1> DEFINE n == Cardinality(places)
<1>1. places \in SUBSET Nat /\ DOMAIN s = 1..Len(s) /\ Len(s) \in Nat  OBVIOUS
<1>2. IsFiniteSet(1..Len(s))  BY <1>1, FS_Interval
<1>3. IsFiniteSet(places)  BY <1>1, <1>2, FS_Subset
<1>4. n \in Nat /\ \A k \in 1..n : \E i \in places : Cardinality(UpTo(places, i)) = k
  BY <1>1, <1>3, PlacesAreNumbered
<1>5. Pushed(s, places) = [k \in 1..n |-> s[Place(places, k)]]  BY DEF Pushed, Place, UpTo
<1>6. ASSUME NEW k \in 1..n PROVE s[Place(places, k)] \in S
  <2>1. Place(places, k) \in places  BY <1>4 DEF Place
  <2> QED BY <2>1
<1> HIDE DEF n
<1>7. Pushed(s, places) \in [1..n -> S]  BY <1>5, <1>6
<1>8. Pushed(s, places) \in Seq(S) /\ Len(Pushed(s, places)) = n  BY <1>4, <1>7
<1> QED BY <1>4, <1>8 DEF n

(* Interleaving keeps to the addresses, and there is a first one.           *)
LEMMA InterleavedIsPublic ==
  ASSUME NEW s \in Seq(Public), s # <<>>
  PROVE  interleave(s) \in Seq(Public) /\ Len(interleave(s)) >= 1
<1>1. CASE Len(s) < 2  BY <1>1 DEF interleave
<1>2. CASE ~(Len(s) < 2)
  <2> DEFINE alike == {i \in DOMAIN s : s[i] \in PublicV6 <=> s[1] \in PublicV6}
             first == Pushed(s, alike)
             second == Pushed(s, DOMAIN s \ alike)
             pairs == IF Len(first) < Len(second) THEN Len(first) ELSE Len(second)
             turns == [i \in 1..2 * pairs |-> IF i % 2 = 1 THEN first[(i + 1) \div 2] ELSE second[i \div 2]]
             more == SubSeq(first, pairs + 1, Len(first))
             rest == SubSeq(second, pairs + 1, Len(second))
  <2>1. interleave(s) = turns \o more \o rest  BY <1>2 DEF interleave
  <2>2. first \in Seq(Public) /\ Len(first) = Cardinality(alike) /\ Cardinality(alike) \in Nat  BY PushedIsPart
  <2>3. second \in Seq(Public)  BY PushedIsPart
  <2>4. Len(first) >= 1
    <3>1. 1 \in alike  BY <1>2
    <3>2. IsFiniteSet(alike)
      <4>1. IsFiniteSet(1..Len(s))  BY FS_Interval
      <4> QED BY <4>1, FS_Subset
    <3>3. Cardinality(alike) # 0  BY <3>1, <3>2, FS_EmptySet
    <3> HIDE DEF alike
    <3> QED BY <2>2, <3>3
  <2> HIDE DEF alike, first, second
  <2>5. pairs \in Nat /\ pairs <= Len(first) /\ pairs <= Len(second) /\ Len(first) \in Nat /\ Len(second) \in Nat
    BY <2>2, <2>3
  <2>6. ASSUME NEW i \in 1..2 * pairs PROVE turns[i] \in Public
    <3>1. i \in Nat /\ i >= 1 /\ i <= 2 * pairs  BY <2>5
    <3>2. CASE i % 2 = 1
      <4>1. (i + 1) \div 2 \in 1..Len(first)  BY <2>5, <3>1, <3>2
      <4>2. first[(i + 1) \div 2] \in Public  BY <2>2, <4>1
      <4> QED BY <3>2, <4>2
    <3>3. CASE i % 2 # 1
      <4>1. i \div 2 \in 1..Len(second)  BY <2>5, <3>1, <3>3
      <4>2. second[i \div 2] \in Public  BY <2>3, <4>1
      <4> QED BY <3>3, <4>2
    <3> QED BY <3>2, <3>3
  <2> HIDE DEF pairs
  <2>7. turns \in Seq(Public) /\ Len(turns) = 2 * pairs
    <3>1. turns \in [1..2 * pairs -> Public]  BY <2>6
    <3>2. 2 * pairs \in Nat  BY <2>5
    <3> HIDE DEF turns
    <3> QED BY <3>1, <3>2
  <2>8. more \in Seq(Public) /\ Len(more) = Len(first) - pairs
    BY <2>2, <2>5
  <2>9. rest \in Seq(Public)  BY <2>3, <2>5
  <2> HIDE DEF turns, more, rest
  <2>10. /\ turns \o more \o rest \in Seq(Public)
         /\ Len(turns \o more \o rest) = 2 * pairs + (Len(first) - pairs) + Len(rest) /\ Len(rest) \in Nat
    <3> DEFINE both == turns \o more
    <3>1. both \in Seq(Public) /\ Len(both) = Len(turns) + Len(more)  BY <2>7, <2>8, ConcatProperties
    <3> HIDE DEF both
    <3>2. both \o rest \in Seq(Public) /\ Len(both \o rest) = Len(both) + Len(rest)  BY <2>9, <3>1, ConcatProperties
    <3>3. Len(rest) \in Nat  BY <2>9
    <3> QED BY <2>7, <2>8, <3>1, <3>2, <3>3 DEF both
  <2>11. 2 * pairs + (Len(first) - pairs) + Len(rest) >= 1  BY <2>4, <2>5, <2>10
  <2> QED BY <2>1, <2>10, <2>11
<1> QED BY <1>1, <1>2

----------------------------------------------------------------------------
(* The cache, after an entry that has expired is taken out.                 *)
LEMMA CacheThins ==
  ASSUME NEW old, NEW new, NEW t \in Nat, CacheOK(old, t), DOMAIN new = Hosts, new = [h \in Hosts |-> new[h]],
         \A h \in Hosts : new[h] \in {old[h], Absent}
  PROVE  CacheOK(new, t) /\ Held(new) \subseteq Held(old)
<1>1. Held(new) \subseteq Held(old)  BY DEF Held
<1>2. IsFiniteSet(Held(old))
  <2>1. Held(old) \in SUBSET Hosts  BY DEF Held
  <2> QED BY <2>1, ProxyConstants, FS_Subset
<1>3. IsFiniteSet(Held(new)) /\ Cardinality(Held(new)) <= Cardinality(Held(old))  BY <1>1, <1>2, FS_Subset
<1>4. Cardinality(Held(old)) \in Nat /\ Cardinality(Held(new)) \in Nat  BY <1>2, <1>3, FS_CardinalityType
<1>5. Cardinality(Held(new)) <= CacheEntries  BY <1>3, <1>4, ProxyConstants DEF CacheOK
<1>6. \A h \in Hosts : new[h] # Absent => Usable(new[h], h, t)  BY DEF CacheOK
<1> QED BY <1>1, <1>5, <1>6 DEF CacheOK

LEMMA GetKeeps ==
  ASSUME NEW h \in Hosts, now \in Nat, CacheOK(cache, now)
  PROVE  /\ CacheOK(get_at(h), now)
         /\ Lookup(h) # Absent => Usable(Lookup(h), h, now) /\ now < Lookup(h).asOf + Ttl
<1>1. CacheOK(get_at(h), now)
  <2>1. DOMAIN cache = Hosts /\ cache = [k \in Hosts |-> cache[k]]  BY DEF CacheOK
  <2>2. DOMAIN get_at(h) = Hosts /\ get_at(h) = [k \in Hosts |-> get_at(h)[k]] /\ \A k \in Hosts : get_at(h)[k] \in {cache[k], Absent}
    <3>1. CASE cache[h] # Absent /\ Lookup(h) = Absent
      <4>1. get_at(h) = [cache EXCEPT ![h] = Absent]  BY <3>1 DEF get_at
      <4> QED BY <2>1, <4>1
    <3>2. CASE ~(cache[h] # Absent /\ Lookup(h) = Absent)
      <4>1. get_at(h) = cache  BY <3>2 DEF get_at
      <4> QED BY <2>1, <4>1
    <3> QED BY <3>1, <3>2
  <2> QED BY <2>2, CacheThins
<1>2. ASSUME Lookup(h) # Absent PROVE Usable(Lookup(h), h, now) /\ now < Lookup(h).asOf + Ttl
  <2>1. Lookup(h) = cache[h] /\ cache[h] # Absent /\ ~(now >= cache[h].expires)  BY <1>2 DEF Lookup
  <2>2. Usable(cache[h], h, now)  BY <2>1 DEF CacheOK
  <2>3. cache[h].expires \in Nat /\ cache[h].expires = cache[h].asOf + Ttl  BY <2>2 DEF Usable, Answered
  <2> QED BY <2>1, <2>2, <2>3
<1> QED BY <1>1, <1>2

(* A new answer, and what put_at makes of the cache with it.                *)
LEMMA FetchedIsUsable ==
  ASSUME NEW h \in Hosts, NEW s \in Seq(Public), s # <<>>, now \in Nat
  PROVE  Usable(Fetched(h, s), h, now)
BY ProxyConstants DEF Fetched, Usable, Answered

LEMMA PutKeeps ==
  ASSUME NEW h \in Hosts, NEW s \in Seq(Public), s # <<>>, now \in Nat, CacheOK(cache, now), NEW new \in put_at(h, s)
  PROVE  CacheOK(new, now)
<1> DEFINE fresh == [k \in Hosts |-> IF cache[k] # Absent /\ now < cache[k].expires THEN cache[k] ELSE Absent]
           full == fresh[h] = Absent /\ Cardinality({k \in Hosts : fresh[k] # Absent}) >= CacheEntries
           answer == Fetched(h, s)
<1>1. CASE CacheEntries = 0 \/ Ttl = 0
  <2>1. new = cache  BY <1>1 DEF put_at
  <2> QED BY <2>1
<1>2. CASE ~(CacheEntries = 0 \/ Ttl = 0)
  <2>1. Usable(answer, h, now) /\ answer # Absent  BY FetchedIsUsable, ProxyConstants DEF Usable
  <2>2. CacheOK(fresh, now)
    <3>1. DOMAIN fresh = Hosts /\ \A k \in Hosts : fresh[k] \in {cache[k], Absent}  OBVIOUS
    <3>2. fresh = [k \in Hosts |-> fresh[k]]  OBVIOUS
    <3> HIDE DEF fresh
    <3> QED BY <3>1, <3>2, CacheThins
  <2>3. Held(fresh) \in SUBSET Hosts /\ IsFiniteSet(Held(fresh)) /\ Cardinality(Held(fresh)) \in Nat
    <3>1. Held(fresh) \in SUBSET Hosts  BY DEF Held
    <3>2. IsFiniteSet(Held(fresh))  BY <3>1, ProxyConstants, FS_Subset
    <3> QED BY <3>1, <3>2, FS_CardinalityType
  <2>4. CASE full
    <3>1. PICK old \in Oldest(fresh) : new = [fresh EXCEPT ![old] = Absent, ![h] = answer]
      BY <1>2, <2>4 DEF put_at
    <3>2. old \in Held(fresh)  BY <3>1 DEF Oldest, Held
    <3>3. old # h /\ h \notin Held(fresh)  BY <2>4, <3>2 DEF Held
    <3> HIDE DEF fresh, full, answer
    <3>4. DOMAIN fresh = Hosts /\ fresh = [k \in Hosts |-> fresh[k]] /\ old \in Hosts  BY <2>2, <2>3, <3>2 DEF CacheOK
    <3>5. /\ DOMAIN new = Hosts /\ new = [k \in Hosts |-> new[k]]
          /\ new[h] = answer /\ new[old] = Absent /\ \A k \in Hosts \ {h, old} : new[k] = fresh[k]
      BY <3>1, <3>3, <3>4
    <3>6. Held(new) = (Held(fresh) \ {old}) \cup {h}  BY <2>1, <3>3, <3>4, <3>5 DEF Held
    <3>7. Cardinality(Held(fresh) \ {old}) = Cardinality(Held(fresh)) - 1 /\ IsFiniteSet(Held(fresh) \ {old})
      BY <2>3, <3>2, FS_RemoveElement
    <3>8. Cardinality(Held(new)) = Cardinality(Held(fresh) \ {old}) + 1
      <4>1. h \notin Held(fresh) \ {old}  BY <3>3
      <4> QED BY <3>6, <3>7, <4>1, FS_AddElement
    <3>9. Cardinality(Held(new)) <= CacheEntries  BY <2>2, <2>3, <3>7, <3>8 DEF CacheOK
    <3>10. \A k \in Hosts : new[k] # Absent => Usable(new[k], k, now)  BY <2>1, <2>2, <3>5 DEF CacheOK
    <3> QED BY <3>5, <3>9, <3>10 DEF CacheOK
  <2>5. CASE ~full
    <3>1. new = [fresh EXCEPT ![h] = answer]  BY <1>2, <2>5 DEF put_at
    <3>2. h \in Held(fresh) \/ ~(Cardinality(Held(fresh)) >= CacheEntries)  BY <2>5 DEF Held
    <3> HIDE DEF fresh, full, answer
    <3>3. DOMAIN fresh = Hosts /\ fresh = [k \in Hosts |-> fresh[k]]  BY <2>2 DEF CacheOK
    <3>4. /\ DOMAIN new = Hosts /\ new = [k \in Hosts |-> new[k]]
          /\ new[h] = answer /\ \A k \in Hosts \ {h} : new[k] = fresh[k]
      BY <3>1, <3>3
    <3>5. Held(new) = Held(fresh) \cup {h}  BY <2>1, <3>4 DEF Held
    <3>6. Cardinality(Held(new)) <= CacheEntries
      <4>1. CASE h \in Held(fresh)
        <5>1. Held(new) = Held(fresh)  BY <3>5, <4>1
        <5> QED BY <5>1, <2>2 DEF CacheOK
      <4>2. CASE h \notin Held(fresh)
        <5>1. Cardinality(Held(new)) = Cardinality(Held(fresh)) + 1  BY <2>3, <3>5, <4>2, FS_AddElement
        <5> QED BY <2>3, <3>2, <4>2, <5>1, ProxyConstants
      <4> QED BY <4>1, <4>2
    <3>7. \A k \in Hosts : new[k] # Absent => Usable(new[k], k, now)  BY <2>1, <2>2, <3>4 DEF CacheOK
    <3> QED BY <3>4, <3>6, <3>7 DEF CacheOK
  <2> QED BY <2>4, <2>5
<1> QED BY <1>1, <1>2
----------------------------------------------------------------------------
(* The cache and the dials as time goes on.                                 *)
LEMMA CacheAges ==
  ASSUME NEW c, NEW t \in Nat, CacheOK(c, t)
  PROVE  CacheOK(c, t + 1)
<1>1. ASSUME NEW h \in Hosts, c[h] # Absent PROVE Usable(c[h], h, t + 1)
  <2>1. Usable(c[h], h, t)  BY <1>1 DEF CacheOK
  <2>2. c[h].asOf \in Nat  BY <2>1 DEF Usable, Answered
  <2> QED BY <2>1, <2>2 DEF Usable
<1> QED BY <1>1 DEF CacheOK

LEMMA ConnectAges ==
  ASSUME NEW q, NEW t \in Nat, ConnectOK(q, t), q.pc \in {"resolving", "dialing"} => ~(t >= q.due)
  PROVE  ConnectOK(q, t + 1)
<1>1. q.due \in Nat /\ q.asOf \in Nat  BY DEF ConnectOK, ConnectRequests
<1>2. q.pc \in {"resolving", "dialing"} => t + 1 <= q.due /\ q.due <= (t + 1) + DialTimeout
  BY <1>1, ProxyConstants DEF ConnectOK
<1>3. q.asOf <= t => q.asOf <= t + 1  BY <1>1
<1> QED BY <1>2, <1>3 DEF ConnectOK

(* A request that is dialing, and one that starts another attempt.          *)
LEMMA DialingIsOK ==
  ASSUME NEW q, now \in Nat, q \in ConnectRequests, q.permit = TRUE, q.host \in Hosts, q.connection = Absent,
         now <= q.due, q.due <= now + DialTimeout,
         NEW answer, Usable(answer, q.host, now), q.due <= answer.asOf + Ttl + DialTimeout
  PROVE  ConnectOK(Dialing(q, answer), now) /\ Dialing(q, answer).permit = TRUE
<1> DEFINE order == interleave(answer.addresses)
           started == IF Stagger = 0 THEN Len(order) ELSE 1
           tried == {order[i] : i \in 1..started}
           d == Dialing(q, answer)
<1>1. d = [q EXCEPT !.pc = "dialing", !.addresses = order, !.of = answer.host, !.asOf = answer.asOf,
                    !.next = started + 1, !.attempts = tried, !.timer = now + Stagger]
  BY DEF Dialing
<1>2. answer.addresses \in Seq(Public) /\ answer.addresses # <<>> /\ answer.asOf \in Nat /\ answer.asOf <= now
      /\ answer.host = q.host
  BY DEF Usable, Answered
<1>3. order \in Seq(Public) /\ Len(order) >= 1 /\ Len(order) \in Nat  BY <1>2, InterleavedIsPublic
<1> HIDE DEF order
<1>4. started \in 1..Len(order)  BY <1>3
<1> HIDE DEF started
<1>5. tried \subseteq Range(order) /\ tried \subseteq Public /\ tried # {}
  <2>1. \A i \in 1..started : i \in DOMAIN order /\ order[i] \in Public  BY <1>3, <1>4
  <2>2. 1 \in 1..started  BY <1>3, <1>4
  <2> QED BY <2>1, <2>2 DEF Range
<1> HIDE DEF tried, d
<1>6. started + 1 \in Nat \ {0} /\ now + Stagger \in Nat  BY <1>3, <1>4, ProxyConstants
<1>7. d \in ConnectRequests  BY <1>1, <1>2, <1>3, <1>5, <1>6 DEF ConnectRequests, ProxyPlaces
<1>8. /\ d.pc = "dialing" /\ d.addresses = order /\ d.of = q.host /\ d.asOf = answer.asOf /\ d.attempts = tried
      /\ d.permit = TRUE /\ d.host = q.host /\ d.connection = Absent /\ d.due = q.due
  BY <1>1, <1>2 DEF ConnectRequests
<1> QED BY <1>2, <1>5, <1>7, <1>8 DEF ConnectOK, PermitPlaces, d

LEMMA StartedIsOK ==
  ASSUME NEW q, now \in Nat, q \in ConnectRequests, q.pc = "dialing", q.permit = TRUE, q.host \in Hosts,
         q.connection = Absent, q.attempts \subseteq Range(q.addresses), now <= q.due, q.due <= now + DialTimeout, q.asOf <= now, q.of = q.host, q.due <= q.asOf + Ttl + DialTimeout,
         q.next <= Len(q.addresses)
  PROVE  ConnectOK(Started(q), now) /\ Started(q).permit = TRUE
<1> DEFINE a == q.addresses[q.next]
           d == Started(q)
<1>1. d = [q EXCEPT !.attempts = q.attempts \cup {a}, !.next = q.next + 1, !.timer = now + Stagger]  BY DEF Started
<1>2. q.next \in Nat /\ q.next >= 1 /\ q.addresses \in Seq(Public) /\ q.attempts \in SUBSET Public  BY DEF ConnectRequests
<1>3. q.next \in DOMAIN q.addresses  BY <1>2
<1>4. a \in Public /\ a \in Range(q.addresses)  BY <1>2, <1>3 DEF Range
<1> HIDE DEF a, d
<1>5. q.next + 1 \in Nat \ {0} /\ now + Stagger \in Nat  BY <1>2, ProxyConstants
<1>6. d \in ConnectRequests  BY <1>1, <1>2, <1>4, <1>5 DEF ConnectRequests
<1>7. /\ d.pc = "dialing" /\ d.addresses = q.addresses /\ d.of = q.of /\ d.asOf = q.asOf /\ d.attempts = q.attempts \cup {a}
      /\ d.permit = TRUE /\ d.host = q.host /\ d.connection = Absent /\ d.due = q.due
  BY <1>1 DEF ConnectRequests
<1> QED BY <1>4, <1>6, <1>7 DEF ConnectOK, PermitPlaces, d

(* A request that has not begun.                                            *)
LEMMA NewIsOK ==
  ASSUME NEW t \in Nat
  PROVE  ConnectOK(NewRequest, t) /\ NewRequest.permit = FALSE
<1>1. <<>> \in Seq(Public)  OBVIOUS
<1>2. NewRequest \in ConnectRequests  BY <1>1 DEF NewRequest, ConnectRequests, ProxyPlaces, Replies
<1>3. NewRequest.pc = "new" /\ NewRequest.permit = FALSE /\ NewRequest.attempts = {} /\ NewRequest.connection = Absent
  BY DEF NewRequest
<1> QED BY <1>2, <1>3 DEF ConnectOK, PermitPlaces

(* The end of a request gives its permit back.                              *)
LEMMA DoneIsOK ==
  ASSUME NEW t \in Nat, NEW reply \in Replies
  PROVE  LET d == [NewRequest EXCEPT !.pc = "done", !.reply = reply] IN ConnectOK(d, t) /\ d.permit = FALSE
<1> DEFINE d == [NewRequest EXCEPT !.pc = "done", !.reply = reply]
<1>1. NewRequest \in ConnectRequests  BY NewIsOK DEF ConnectOK
<1>2. d \in ConnectRequests  BY <1>1 DEF ConnectRequests, ProxyPlaces
<1>3. d.pc = "done" /\ d.permit = FALSE /\ d.attempts = {} /\ d.connection = Absent  BY DEF NewRequest
<1> HIDE DEF d
<1>4. ConnectOK(d, t) /\ d.permit = FALSE  BY <1>2, <1>3 DEF ConnectOK, PermitPlaces
<1> QED BY <1>4 DEF d
----------------------------------------------------------------------------
(* A step moves one request; the permit is counted as the request holds it. *)
LEMMA RequestMoves ==
  ASSUME ProxyInv, NEW r \in Connects, NEW q, ConnectOK(q, now), connect' = [connect EXCEPT ![r] = q], now' = now,
         CacheOK(cache', now),
         \/ q.permit = connect[r].permit /\ open' = open /\ free' = free
         \/ q.permit = FALSE /\ open' = open \ {r} /\ free' = free + (IF connect[r].permit THEN 1 ELSE 0)
         \/ q.permit = TRUE /\ connect[r].permit = FALSE /\ open' = open \cup {r} /\ free' = free - 1
  PROVE  ProxyInv'
<1> DEFINE held == Holders(connect)
<1>1. DOMAIN connect = Connects /\ connect = [x \in Connects |-> connect[x]]  BY DEF ProxyInv
<1>2. /\ DOMAIN connect' = Connects /\ connect' = [x \in Connects |-> connect'[x]]
      /\ connect'[r] = q /\ \A x \in Connects \ {r} : connect'[x] = connect[x]
  BY <1>1
<1>3. \A x \in Connects : ConnectOK(connect'[x], now)  BY <1>2 DEF ProxyInv
<1>4. held \in SUBSET Connects /\ IsFiniteSet(held) /\ Cardinality(held) \in Nat
  <2>1. held \in SUBSET Connects  BY DEF Holders
  <2>2. IsFiniteSet(held)  BY <2>1, ProxyConstants, FS_Subset
  <2> QED BY <2>1, <2>2, FS_CardinalityType
<1>5. q.permit \in BOOLEAN /\ connect[r].permit \in BOOLEAN  BY DEF ProxyInv, ConnectOK, ConnectRequests
<1>6. free \in Int /\ free = MaxConnections - Cardinality(held) /\ open = held  BY <1>4, ProxyConstants DEF ProxyInv
<1>7. r \in held <=> connect[r].permit  BY DEF Holders
<1>8. Holders(connect') = IF q.permit THEN held \cup {r} ELSE held \ {r}
  BY <1>2, <1>5 DEF Holders
<1>0. MaxConnections \in Nat  BY ProxyConstants
<1> HIDE DEF held
<1>9. open' = Holders(connect') /\ free' = MaxConnections - Cardinality(Holders(connect'))
  <2>1. CASE q.permit = connect[r].permit /\ open' = open /\ free' = free
    <3>1. Holders(connect') = held  BY <1>5, <1>7, <1>8, <2>1
    <3> QED BY <1>6, <2>1, <3>1
  <2>2. CASE q.permit = FALSE /\ open' = open \ {r} /\ free' = free + (IF connect[r].permit THEN 1 ELSE 0)
    <3>1. Holders(connect') = held \ {r}  BY <1>8, <2>2
    <3>2. CASE connect[r].permit
      <4>1. Cardinality(held \ {r}) = Cardinality(held) - 1  BY <1>4, <1>7, <3>2, FS_RemoveElement
      <4>2. free' = MaxConnections - (Cardinality(held) - 1)  BY <1>0, <1>4, <1>6, <2>2, <3>2
      <4> QED BY <1>6, <2>2, <3>1, <4>1, <4>2
    <3>3. CASE ~connect[r].permit
      <4>1. held \ {r} = held  BY <1>7, <3>3
      <4>2. free' = MaxConnections - Cardinality(held)  BY <1>0, <1>4, <1>6, <2>2, <3>3
      <4> QED BY <1>6, <2>2, <3>1, <4>1, <4>2
    <3> QED BY <3>2, <3>3
  <2>3. CASE q.permit = TRUE /\ connect[r].permit = FALSE /\ open' = open \cup {r} /\ free' = free - 1
    <3>1. Holders(connect') = held \cup {r}  BY <1>8, <2>3
    <3>2. Cardinality(held \cup {r}) = Cardinality(held) + 1  BY <1>4, <1>7, <2>3, FS_AddElement
    <3>3. free' = MaxConnections - (Cardinality(held) + 1)  BY <1>0, <1>4, <1>6, <2>3
    <3> QED BY <1>6, <2>3, <3>1, <3>2, <3>3
  <2> QED BY <2>1, <2>2, <2>3
<1> QED BY <1>2, <1>3, <1>9 DEF ProxyInv

LEMMA EndKeeps ==
  ASSUME ProxyInv, NEW r \in Connects, NEW reply \in Replies, End(r, reply), now' = now, cache' = cache
  PROVE  ProxyInv'
<1> DEFINE d == [NewRequest EXCEPT !.pc = "done", !.reply = reply]
<1>1. now \in Nat  BY DEF ProxyInv
<1>2. ConnectOK(d, now) /\ d.permit = FALSE  BY <1>1, DoneIsOK
<1>3. connect' = [connect EXCEPT ![r] = d] /\ open' = open \ {r} /\ free' = free + (IF connect[r].permit THEN 1 ELSE 0)
  BY DEF End
<1>4. CacheOK(cache', now)  BY DEF ProxyInv
<1> HIDE DEF d
<1> QED BY <1>2, <1>3, <1>4, RequestMoves

(* The replies that a request may end with.                                 *)
LEMMA RepliesAre == {"origin", "403", "429", "407", "400", "502", "503", "504", "200", Refused} \subseteq Replies
BY DEF Replies, Refused

LEMMA TurnedAway ==
  ASSUME ProxyInv, NEW r \in Connects, Prepare(r) \/ Unauthorized(r) \/ Turned(r)
  PROVE  ProxyInv'
<1>1. now' = now /\ cache' = cache  BY DEF Prepare, Unauthorized, Turned
<1>2. CASE \E reply \in Replies : End(r, reply)  BY <1>1, <1>2, EndKeeps
<1>3. CASE Prepare(r)
  <2>1. CASE connect' = [connect EXCEPT ![r].pc = "authorizing"] /\ UNCHANGED <<free, open>>
    <3> DEFINE q == [connect[r] EXCEPT !.pc = "authorizing"]
    <3>1. connect[r].pc = "new" /\ ConnectOK(connect[r], now)  BY <1>3 DEF Prepare, ProxyInv
    <3>2. q \in ConnectRequests  BY <3>1 DEF ConnectOK, ConnectRequests, ProxyPlaces
    <3>3. /\ q.pc = "authorizing" /\ q.permit = connect[r].permit /\ q.attempts = connect[r].attempts
          /\ q.connection = connect[r].connection
      BY <3>1 DEF ConnectOK, ConnectRequests
    <3>4. connect' = [connect EXCEPT ![r] = q]  BY <2>1
    <3> HIDE DEF q
    <3>5. ConnectOK(q, now)  BY <3>1, <3>2, <3>3 DEF ConnectOK, PermitPlaces
    <3>6. CacheOK(cache', now)  BY <1>1 DEF ProxyInv
    <3> QED BY <1>1, <2>1, <3>3, <3>4, <3>5, <3>6, RequestMoves
  <2>2. CASE \E reply \in {"origin", "403", "429", "407", Refused} : End(r, reply)  BY <1>2, <2>2, RepliesAre
  <2> QED BY <1>3, <2>1, <2>2 DEF Prepare
<1>4. CASE Unauthorized(r)  BY <1>2, <1>4, RepliesAre DEF Unauthorized
<1>5. CASE Turned(r)
  <2>1. PICK reply \in {"403"} \cup Unparsed \cup (IF free = 0 THEN {"503"} ELSE {}) : End(r, reply)  BY <1>5 DEF Turned
  <2>2. reply \in Replies  BY <2>1 DEF Replies, Unparsed
  <2> QED BY <1>2, <2>1, <2>2
<1> QED BY <1>3, <1>4, <1>5

(* The plan is carried out.                                                 *)
LEMMA EstablishKeeps ==
  ASSUME ProxyInv, NEW r \in Connects, NEW h \in Hosts, Establish(r, h)
  PROVE  ProxyInv'
<1> DEFINE q == [connect[r] EXCEPT !.host = h, !.permit = TRUE, !.session = "open", !.due = now + DialTimeout]
<1>1. now \in Nat /\ CacheOK(cache, now) /\ ConnectOK(connect[r], now)  BY DEF ProxyInv
<1>2. connect[r].pc = "authorizing" /\ now' = now /\ cache' = get_at(h) /\ free' = free - 1 /\ open' = open \cup {r}
  BY DEF Establish
<1>3. /\ connect[r] \in ConnectRequests /\ connect[r].permit = FALSE /\ connect[r].attempts = {}
      /\ connect[r].connection = Absent
  BY <1>1, <1>2 DEF ConnectOK, ConnectRequests, PermitPlaces
<1>4. now + DialTimeout \in Nat /\ now <= now + DialTimeout  BY <1>1, ProxyConstants
<1>5. q \in ConnectRequests  BY <1>3, <1>4 DEF ConnectRequests
<1>6. /\ q.host = h /\ q.permit = TRUE /\ q.due = now + DialTimeout /\ q.attempts = {} /\ q.connection = Absent
  BY <1>3 DEF ConnectRequests
<1>7. CacheOK(cache', now)  BY <1>1, <1>2, GetKeeps
<1>8. CASE Lookup(h) # Absent
  <2>1. connect' = [connect EXCEPT ![r] = Dialing(q, Lookup(h))]  BY <1>8 DEF Establish
  <2> HIDE DEF q
  <2>2. Usable(Lookup(h), h, now) /\ now < Lookup(h).asOf + Ttl  BY <1>1, <1>8, GetKeeps
  <2>3. Lookup(h).asOf \in Nat  BY <2>2 DEF Usable, Answered
  <2>4. q.due <= Lookup(h).asOf + Ttl + DialTimeout  BY <1>1, <1>6, <2>2, <2>3, ProxyConstants
  <2>5. ConnectOK(Dialing(q, Lookup(h)), now) /\ Dialing(q, Lookup(h)).permit = TRUE
    <3>1. now <= q.due /\ q.due <= now + DialTimeout  BY <1>4, <1>6
    <3>2. Usable(Lookup(h), q.host, now) /\ q.host \in Hosts  BY <1>6, <2>2
    <3> QED BY <1>1, <1>5, <1>6, <2>4, <3>1, <3>2, DialingIsOK
  <2> QED BY <1>2, <1>3, <1>7, <2>1, <2>5, RequestMoves
<1>9. CASE Lookup(h) = Absent
  <2> DEFINE d == [q EXCEPT !.pc = "resolving"]
  <2>1. connect' = [connect EXCEPT ![r] = d]  BY <1>9 DEF Establish
  <2> HIDE DEF q
  <2>2. d \in ConnectRequests  BY <1>5 DEF ConnectRequests, ProxyPlaces
  <2>3. /\ d.pc = "resolving" /\ d.permit = TRUE /\ d.host = h /\ d.due = now + DialTimeout /\ d.attempts = {}
        /\ d.connection = Absent
    BY <1>5, <1>6 DEF ConnectRequests
  <2> HIDE DEF d
  <2>4. ConnectOK(d, now)  BY <1>4, <2>2, <2>3 DEF ConnectOK, PermitPlaces
  <2> QED BY <1>2, <1>3, <1>7, <2>1, <2>3, <2>4, RequestMoves
<1> QED BY <1>8, <1>9

(* The resolver has answered.                                               *)
LEMMA ResolveKeeps ==
  ASSUME ProxyInv, NEW r \in Connects, Resolve(r)
  PROVE  ProxyInv'
<1> DEFINE q == connect[r]
           h == connect[r].host
<1>1. now \in Nat /\ CacheOK(cache, now) /\ ConnectOK(q, now)  BY DEF ProxyInv
<1>2. q.pc = "resolving" /\ now' = now  BY DEF Resolve
<1>3. CASE (\E reply \in {"502", "403"} : End(r, reply)) /\ cache' = cache  BY <1>2, <1>3, EndKeeps, RepliesAre
<1>4. CASE \E s \in Answers : /\ s # <<>> /\ Allowed(s) /\ cache' \in put_at(h, s)
                              /\ connect' = [connect EXCEPT ![r] = Dialing(q, Fetched(h, s))] /\ UNCHANGED <<free, open>>
  <2>1. PICK s \in Answers : /\ s # <<>> /\ Allowed(s) /\ cache' \in put_at(h, s)
                             /\ connect' = [connect EXCEPT ![r] = Dialing(q, Fetched(h, s))] /\ UNCHANGED <<free, open>>
    BY <1>4
  <2>2. s \in Seq(Public)
    <3>1. s \in Seq(Range(s))  BY ProxyConstants
    <3>2. Range(s) \subseteq Public  BY <2>1 DEF Allowed, Range
    <3> QED BY <3>1, <3>2
  <2>3. /\ q \in ConnectRequests /\ q.permit = TRUE /\ h \in Hosts /\ q.connection = Absent
        /\ now <= q.due /\ q.due <= now + DialTimeout
    BY <1>1, <1>2 DEF ConnectOK, ConnectRequests, PermitPlaces
  <2> DEFINE answer == Fetched(h, s)
  <2>4. Usable(answer, h, now)  BY <1>1, <2>1, <2>2, <2>3, FetchedIsUsable
  <2>5. q.due <= answer.asOf + Ttl + DialTimeout
    <3>1. answer.asOf = now  BY DEF Fetched
    <3>2. q.due \in Nat  BY <2>3 DEF ConnectRequests
    <3> QED BY <1>1, <2>3, <3>1, <3>2, ProxyConstants
  <2> HIDE DEF answer
  <2>6. ConnectOK(Dialing(q, answer), now) /\ Dialing(q, answer).permit = TRUE
    BY <1>1, <2>3, <2>4, <2>5, DialingIsOK
  <2>7. CacheOK(cache', now)  BY <1>1, <2>1, <2>2, <2>3, PutKeeps
  <2>8. connect' = [connect EXCEPT ![r] = Dialing(q, answer)]  BY <2>1 DEF answer
  <2> HIDE DEF q, h
  <2>9. Dialing(q, answer).permit = connect[r].permit  BY <2>3, <2>6 DEF q
  <2> QED BY <1>2, <2>1, <2>6, <2>7, <2>8, <2>9, RequestMoves
<1> QED BY <1>2, <1>3, <1>4 DEF Resolve

(* What is true of a request that dials.                                    *)
LEMMA DialHolds ==
  ASSUME ProxyInv, NEW r \in Connects, connect[r].pc = "dialing"
  PROVE  LET q == connect[r] IN
         /\ q \in ConnectRequests /\ q.permit = TRUE /\ q.host \in Hosts /\ q.connection = Absent
         /\ q.attempts \subseteq Range(q.addresses) /\ q.attempts # {}
         /\ now <= q.due /\ q.due <= now + DialTimeout /\ q.asOf <= now /\ q.of = q.host
         /\ q.due <= q.asOf + Ttl + DialTimeout
<1> DEFINE q == connect[r]
<1>1. ConnectOK(q, now) /\ q.pc = "dialing"  BY DEF ProxyInv
<1> HIDE DEF q
<1>2. /\ q \in ConnectRequests /\ q.permit = TRUE /\ q.host \in Hosts /\ q.connection = Absent
      /\ q.attempts \subseteq Range(q.addresses) /\ q.attempts # {}
      /\ now <= q.due /\ q.due <= now + DialTimeout /\ q.asOf <= now /\ q.of = q.host
      /\ q.due <= q.asOf + Ttl + DialTimeout
  BY <1>1 DEF ConnectOK, ConnectRequests, PermitPlaces
<1> QED BY <1>2 DEF q

(* One attempt less, and perhaps another.                                   *)
LEMMA FailureKeeps ==
  ASSUME ProxyInv, NEW r \in Connects, AttemptFails(r)
  PROVE  ProxyInv'
<1>1. now \in Nat /\ CacheOK(cache, now)  BY DEF ProxyInv
<1>2. connect[r].pc = "dialing" /\ now' = now /\ cache' = cache  BY DEF AttemptFails
<1>3. PICK a \in connect[r].attempts :
        LET q == [connect[r] EXCEPT !.attempts = @ \ {a}] IN
        IF q.next <= Len(q.addresses) THEN connect' = [connect EXCEPT ![r] = Started(q)] /\ UNCHANGED <<free, open>>
        ELSE IF q.attempts = {} THEN End(r, "502")
        ELSE connect' = [connect EXCEPT ![r] = q] /\ UNCHANGED <<free, open>>
  BY DEF AttemptFails
<1> DEFINE p == connect[r]
           q == [connect[r] EXCEPT !.attempts = @ \ {a}]
<1>4. /\ p \in ConnectRequests /\ p.permit = TRUE /\ p.host \in Hosts /\ p.connection = Absent
      /\ p.attempts \subseteq Range(p.addresses) /\ p.attempts # {}
      /\ now <= p.due /\ p.due <= now + DialTimeout /\ p.asOf <= now /\ p.of = p.host
      /\ p.due <= p.asOf + Ttl + DialTimeout
  BY <1>2, DialHolds
<1>5. q = [p EXCEPT !.attempts = p.attempts \ {a}] /\ p.pc = "dialing"  BY <1>2
<1>6. \/ q.next <= Len(q.addresses) /\ connect' = [connect EXCEPT ![r] = Started(q)] /\ UNCHANGED <<free, open>>
      \/ End(r, "502")
      \/ q.attempts # {} /\ connect' = [connect EXCEPT ![r] = q] /\ UNCHANGED <<free, open>>
  BY <1>3
<1>7. p.permit = connect[r].permit  OBVIOUS
<1> HIDE DEF p, q
<1>8. q \in ConnectRequests  BY <1>4, <1>5 DEF ConnectRequests
<1>9. /\ q.pc = "dialing" /\ q.permit = TRUE /\ q.host = p.host /\ q.connection = Absent /\ q.addresses = p.addresses
      /\ q.attempts = p.attempts \ {a} /\ q.due = p.due /\ q.asOf = p.asOf /\ q.of = p.of
  BY <1>4, <1>5 DEF ConnectRequests
<1>10. CASE q.next <= Len(q.addresses) /\ connect' = [connect EXCEPT ![r] = Started(q)] /\ UNCHANGED <<free, open>>
  <2>0. /\ q.host \in Hosts /\ q.attempts \subseteq Range(q.addresses) /\ now <= q.due /\ q.due <= now + DialTimeout
        /\ q.asOf <= now /\ q.of = q.host /\ q.due <= q.asOf + Ttl + DialTimeout
    BY <1>4, <1>9
  <2>1. ConnectOK(Started(q), now) /\ Started(q).permit = TRUE
    BY <1>1, <1>8, <1>9, <1>10, <2>0, StartedIsOK
  <2>2. Started(q).permit = connect[r].permit  BY <1>4, <1>7, <2>1
  <2> QED BY <1>1, <1>2, <1>10, <2>1, <2>2, RequestMoves
<1>11. CASE End(r, "502")  BY <1>2, <1>11, EndKeeps, RepliesAre
<1>12. CASE q.attempts # {} /\ connect' = [connect EXCEPT ![r] = q] /\ UNCHANGED <<free, open>>
  <2>1. ConnectOK(q, now)  BY <1>4, <1>8, <1>9, <1>12 DEF ConnectOK, PermitPlaces
  <2>2. q.permit = connect[r].permit  BY <1>4, <1>7, <1>9
  <2> QED BY <1>1, <1>2, <1>12, <2>1, <2>2, RequestMoves
<1> QED BY <1>6, <1>10, <1>11, <1>12

(* The delay before the next attempt is over.                               *)
LEMMA StaggerKeeps ==
  ASSUME ProxyInv, NEW r \in Connects, Staggered(r)
  PROVE  ProxyInv'
<1> DEFINE q == connect[r]
<1>1. now \in Nat /\ CacheOK(cache, now)  BY DEF ProxyInv
<1>2. /\ q.pc = "dialing" /\ now' = now /\ cache' = cache /\ UNCHANGED <<free, open>> /\ q.next <= Len(q.addresses)
      /\ connect' = [connect EXCEPT ![r] = Started(q)]
  BY DEF Staggered
<1>3. /\ q \in ConnectRequests /\ q.permit = TRUE /\ q.host \in Hosts /\ q.connection = Absent
      /\ q.attempts \subseteq Range(q.addresses) /\ q.attempts # {}
      /\ now <= q.due /\ q.due <= now + DialTimeout /\ q.asOf <= now /\ q.of = q.host
      /\ q.due <= q.asOf + Ttl + DialTimeout
  BY <1>2, DialHolds
<1>4. ConnectOK(Started(q), now) /\ Started(q).permit = q.permit  BY <1>1, <1>2, <1>3, StartedIsOK
<1> QED BY <1>1, <1>2, <1>4, RequestMoves

(* A connection is kept.                                                    *)
LEMMA SuccessKeeps ==
  ASSUME ProxyInv, NEW r \in Connects, AttemptSucceeds(r)
  PROVE  ProxyInv'
<1> DEFINE q == connect[r]
<1>1. now \in Nat /\ CacheOK(cache, now)  BY DEF ProxyInv
<1>2. q.pc = "dialing" /\ now' = now /\ cache' = cache /\ UNCHANGED <<free, open>>  BY DEF AttemptSucceeds
<1>3. PICK a \in q.attempts :
        connect' = [connect EXCEPT ![r].pc = "upgrading", ![r].connection = a, ![r].attempts = {}, ![r].reply = "200"]
  BY DEF AttemptSucceeds
<1> DEFINE d == [q EXCEPT !.pc = "upgrading", !.connection = a, !.attempts = {}, !.reply = "200"]
<1>4. connect' = [connect EXCEPT ![r] = d]
  <2>1. r \in DOMAIN connect  BY DEF ProxyInv
  <2> QED BY <1>3, <2>1
<1>5. q \in ConnectRequests /\ q.permit = TRUE /\ q.host \in Hosts /\ q.attempts \subseteq Range(q.addresses)
  BY <1>2, DialHolds
<1>6. a \in Public /\ a \in Range(q.addresses) /\ a # Absent  BY <1>5, ProxyConstants DEF ConnectRequests
<1>7. d \in ConnectRequests  BY <1>5, <1>6 DEF ConnectRequests, ProxyPlaces, Replies
<1>8. /\ d.pc = "upgrading" /\ d.permit = TRUE /\ d.host = q.host /\ d.connection = a /\ d.attempts = {}
      /\ d.addresses = q.addresses
  BY <1>5 DEF ConnectRequests
<1> HIDE DEF d
<1>9. ConnectOK(d, now)  BY <1>5, <1>6, <1>7, <1>8 DEF ConnectOK, PermitPlaces
<1>10. d.permit = connect[r].permit  BY <1>5, <1>8
<1> QED BY <1>1, <1>2, <1>4, <1>9, <1>10, RequestMoves

(* The client has the tunnel.                                               *)
LEMMA UpgradeKeeps ==
  ASSUME ProxyInv, NEW r \in Connects, Upgraded(r)
  PROVE  ProxyInv'
<1> DEFINE q == connect[r]
           d == [q EXCEPT !.pc = "relaying"]
<1>1. CacheOK(cache, now) /\ ConnectOK(q, now) /\ r \in DOMAIN connect  BY DEF ProxyInv
<1>2. q.pc = "upgrading" /\ now' = now /\ cache' = cache  BY DEF Upgraded
<1>3. CASE connect' = [connect EXCEPT ![r].pc = "relaying"] /\ UNCHANGED <<free, open>>
  <2>1. connect' = [connect EXCEPT ![r] = d]  BY <1>1, <1>3
  <2>2. q \in ConnectRequests  BY <1>1 DEF ConnectOK
  <2>3. d \in ConnectRequests  BY <2>2 DEF ConnectRequests, ProxyPlaces
  <2>4. /\ d.pc = "relaying" /\ d.permit = q.permit /\ d.host = q.host /\ d.connection = q.connection
        /\ d.attempts = q.attempts /\ d.addresses = q.addresses
    BY <2>2 DEF ConnectRequests
  <2> HIDE DEF d
  <2>5. ConnectOK(d, now)  BY <1>1, <1>2, <2>3, <2>4 DEF ConnectOK, PermitPlaces
  <2> QED BY <1>1, <1>2, <1>3, <2>1, <2>4, <2>5, RequestMoves
<1>4. CASE End(r, "200")  BY <1>2, <1>4, EndKeeps, RepliesAre
<1> QED BY <1>3, <1>4 DEF Upgraded

(* The registry cancels the session.                                        *)
LEMMA RevokeKeeps ==
  ASSUME ProxyInv, NEW r \in Connects, Revoke(r)
  PROVE  ProxyInv'
<1> DEFINE q == connect[r]
           d == [q EXCEPT !.session = "cancelled"]
<1>1. CacheOK(cache, now) /\ ConnectOK(q, now) /\ r \in DOMAIN connect  BY DEF ProxyInv
<1>2. now' = now /\ cache' = cache /\ UNCHANGED <<free, open>> /\ connect' = [connect EXCEPT ![r] = d]
  BY <1>1 DEF Revoke
<1>3. q \in ConnectRequests  BY <1>1 DEF ConnectOK
<1>4. d \in ConnectRequests  BY <1>3 DEF ConnectRequests
<1>5. /\ d.pc = q.pc /\ d.permit = q.permit /\ d.host = q.host /\ d.connection = q.connection
      /\ d.attempts = q.attempts /\ d.addresses = q.addresses /\ d.due = q.due /\ d.asOf = q.asOf /\ d.of = q.of
  BY <1>3 DEF ConnectRequests
<1> HIDE DEF d
<1>6. ConnectOK(d, now)  BY <1>1, <1>4, <1>5 DEF ConnectOK
<1> QED BY <1>1, <1>2, <1>5, <1>6, RequestMoves

(* The ends of a request that is on its way.                                *)
LEMMA ConnectEndsKeep ==
  ASSUME ProxyInv, NEW r \in Connects, DialTimesOut(r) \/ Cancelled(r) \/ RelayEnds(r)
  PROVE  ProxyInv'
<1>1. now' = now /\ cache' = cache  BY DEF DialTimesOut, Cancelled, RelayEnds
<1>2. \E reply \in {"504", "502", "200"} : End(r, reply)  BY DEF DialTimesOut, Cancelled, RelayEnds
<1> QED BY <1>1, <1>2, EndKeeps, RepliesAre

LEMMA ProxyTicks ==
  ASSUME ProxyInv, ProxyTick
  PROVE  ProxyInv'
<1>1. now \in Nat /\ now' = now + 1 /\ UNCHANGED <<cache, free, open, connect>>  BY DEF ProxyInv, ProxyTick
<1>2. CacheOK(cache, now + 1)  BY <1>1, CacheAges DEF ProxyInv
<1>3. ASSUME NEW r \in Connects PROVE ConnectOK(connect[r], now + 1)
  <2>1. connect[r].pc \in {"resolving", "dialing"} => ~(now >= connect[r].due)  BY DEF ProxyTick, DialDue
  <2>2. ConnectOK(connect[r], now)  BY DEF ProxyInv
  <2> QED BY <1>1, <2>1, <2>2, ConnectAges
<1>4. connect' = connect /\ open' = open /\ free' = free /\ cache' = cache /\ now' \in Nat  BY <1>1
<1> QED BY <1>1, <1>2, <1>3, <1>4 DEF ProxyInv

LEMMA ProxyStarts == ProxyInit => ProxyInv
<1> SUFFICES ASSUME ProxyInit PROVE ProxyInv  OBVIOUS
<1>1. now = 0 /\ cache = [h \in Hosts |-> Absent] /\ free = MaxConnections /\ open = {} /\ connect = [r \in Connects |-> NewRequest]
  BY DEF ProxyInit
<1>2. \A r \in Connects : connect[r] = NewRequest  BY <1>1
<1>3. \A r \in Connects : ConnectOK(connect[r], now)  BY <1>1, <1>2, NewIsOK
<1>4. Holders(connect) = {}
  <2>1. NewRequest.permit = FALSE  BY <1>1, NewIsOK
  <2> QED BY <1>2, <2>1 DEF Holders
<1>5. Held(cache) = {}  BY <1>1 DEF Held
<1>6. Cardinality({}) = 0  BY FS_EmptySet
<1>7. CacheOK(cache, now)
  <2>1. Cardinality(Held(cache)) <= CacheEntries  BY <1>5, <1>6, ProxyConstants
  <2> QED BY <1>1, <2>1 DEF CacheOK
<1>8. free = MaxConnections - Cardinality(Holders(connect))
  <2>1. Cardinality(Holders(connect)) = 0  BY <1>4, <1>6
  <2>2. MaxConnections \in Nat  BY ProxyConstants
  <2> HIDE DEF Holders
  <2> QED BY <1>1, <2>1, <2>2
<1> QED BY <1>1, <1>3, <1>4, <1>7, <1>8 DEF ProxyInv

LEMMA ProxySteps == ProxyInv /\ [ProxyNext]_proxy_vars => ProxyInv'
<1> SUFFICES ASSUME ProxyInv, [ProxyNext]_proxy_vars PROVE ProxyInv'  OBVIOUS
<1>1. CASE UNCHANGED proxy_vars
  <2>1. now' = now /\ cache' = cache /\ free' = free /\ open' = open /\ connect' = connect  BY <1>1 DEF proxy_vars
  <2> QED BY <2>1 DEF ProxyInv
<1>2. CASE ProxyTick  BY <1>2, ProxyTicks
<1>3. ASSUME NEW r \in Connects, Step(r) PROVE ProxyInv'
  <2>1. CASE Prepare(r) \/ Unauthorized(r) \/ Turned(r)  BY <2>1, TurnedAway
  <2>2. CASE \E h \in Hosts : Establish(r, h)  BY <2>2, EstablishKeeps
  <2>3. CASE Resolve(r)  BY <2>3, ResolveKeeps
  <2>4. CASE AttemptFails(r)  BY <2>4, FailureKeeps
  <2>5. CASE Staggered(r)  BY <2>5, StaggerKeeps
  <2>6. CASE AttemptSucceeds(r)  BY <2>6, SuccessKeeps
  <2>7. CASE Upgraded(r)  BY <2>7, UpgradeKeeps
  <2>8. CASE Revoke(r)  BY <2>8, RevokeKeeps
  <2>9. CASE DialTimesOut(r) \/ Cancelled(r) \/ RelayEnds(r)  BY <2>9, ConnectEndsKeep
  <2> QED BY <1>3, <2>1, <2>2, <2>3, <2>4, <2>5, <2>6, <2>7, <2>8, <2>9 DEF Step
<1> QED BY <1>1, <1>2, <1>3 DEF ProxyNext

LEMMA ProxyInvConfines == ProxyInv => ProxyIsConfined
<1> SUFFICES ASSUME ProxyInv PROVE ProxyIsConfined  OBVIOUS
<1>1. ASSUME NEW r \in Connects
      PROVE  /\ connect[r].attempts \cup ({connect[r].connection} \ {Absent}) \subseteq Public
             /\ connect[r].pc = "dialing" => now - connect[r].asOf <= Ttl + DialTimeout
             /\ connect[r].pc = "dialing" => connect[r].attempts # {} /\ connect[r].asOf <= now /\ connect[r].of = connect[r].host
             /\ ~Busy(r) => ~connect[r].permit /\ r \notin open /\ connect[r].attempts = {} /\ connect[r].connection = Absent
             /\ connect[r].pc = "relaying" => connect[r].permit /\ r \in open /\ connect[r].connection \in Range(connect[r].addresses)
  <2> DEFINE q == connect[r]
  <2>1. now \in Nat /\ ConnectOK(q, now) /\ (r \in open <=> q.permit)  BY DEF ProxyInv, Holders
  <2>2. Busy(r) <=> q.pc \notin {"new", "done"}  BY DEF Busy
  <2> HIDE DEF q
  <2>3. q.asOf \in Nat /\ q.due \in Nat /\ q.attempts \in SUBSET Public /\ q.connection \in Public \cup {Absent}
    BY <2>1 DEF ConnectOK, ConnectRequests
  <2>4. q.attempts \cup ({q.connection} \ {Absent}) \subseteq Public  BY <2>3
  <2>5. q.pc = "dialing" => now - q.asOf <= Ttl + DialTimeout  BY <2>1, <2>3, ProxyConstants DEF ConnectOK
  <2>6. q.pc = "dialing" => q.attempts # {} /\ q.asOf <= now /\ q.of = q.host  BY <2>1 DEF ConnectOK
  <2>7. ~Busy(r) => ~q.permit /\ r \notin open /\ q.attempts = {} /\ q.connection = Absent
    BY <2>1, <2>2 DEF ConnectOK, PermitPlaces
  <2>8. q.pc = "relaying" => q.permit /\ r \in open /\ q.connection \in Range(q.addresses)
    BY <2>1 DEF ConnectOK, PermitPlaces
  <2> QED BY <2>4, <2>5, <2>6, <2>7, <2>8 DEF q
<1>2. free = MaxConnections - Cardinality({r \in Connects : connect[r].permit})  BY DEF ProxyInv, Holders
<1>3. Cardinality({h \in Hosts : cache[h] # Absent}) <= CacheEntries  BY DEF ProxyInv, CacheOK, Held
<1>4. ASSUME NEW h \in Hosts, cache[h] # Absent PROVE Allowed(cache[h].addresses) /\ cache[h].expires <= now + Ttl
  <2>1. now \in Nat /\ Usable(cache[h], h, now)  BY <1>4 DEF ProxyInv, CacheOK
  <2>2. cache[h].addresses \in Seq(Public) /\ cache[h].expires \in Nat /\ cache[h].asOf \in Nat  BY <2>1 DEF Usable, Answered
  <2> QED BY <2>1, <2>2, ProxyConstants DEF Usable, Allowed
<1> QED BY <1>1, <1>2, <1>3, <1>4 DEF ProxyIsConfined

(* Whatever the resolver answers and however the dials, the revocations and *)
(* the timers of the requests are interleaved: the proxy dials public       *)
(* addresses only, from an answer for the host asked for that is no older   *)
(* than the cache may keep it and the dial may last, and permits, sessions  *)
(* and attempts are held by the requests in progress and given back on      *)
(* every way out of service.rs and dial.rs.                                 *)
THEOREM ProxyStaysConfined == ProxySpec => []ProxyIsConfined
<1>1. ProxyInit => ProxyInv  BY ProxyStarts
<1>2. ProxyInv /\ [ProxyNext]_proxy_vars => ProxyInv'  BY ProxySteps
<1>3. ProxyInv => ProxyIsConfined  BY ProxyInvConfines
<1> QED BY <1>1, <1>2, <1>3, PTL DEF ProxySpec
============================================================================
