------------------------------ MODULE Shutdown ------------------------------
(***************************************************************************)
(* The shutdown of the server: the request drain                           *)
(* (porta-server/src/ops/shutdown.rs), every atomic access of which is a   *)
(* step, and the order in which run() of main.rs takes the server down.    *)
(*                                                                         *)
(* Requests run on their own tasks and may outlive their connection.  The  *)
(* listener and the connections are tasks of a tracker that main waits for *)
(* for ten seconds; select! picks any branch that is ready.                *)
(***************************************************************************)
EXTENDS Integers, FiniteSets

CONSTANTS Requests, Connections

ASSUME RequestsAssumption == IsFiniteSet(Requests) /\ IsFiniteSet(Connections)

VARIABLES accepting, active, cancelled,   \* DrainInner
          waiter,                         \* the Notified of wait(): "none", "waiting", "notified"
          request,                        \* the progress of each request
          main,                           \* the progress of run()
          drained,                        \* what wait() returned to run()
          listener, connection            \* serve_tcp and the tracked tasks

tasks == <<listener, connection>>
vars == <<accepting, active, cancelled, waiter, request, main, drained, tasks>>
----------------------------------------------------------------------------
Init ==
  /\ accepting = TRUE /\ active = 0 /\ cancelled = FALSE
  /\ waiter = "none"
  /\ request = [r \in Requests |-> "idle"]
  /\ main = "serving"
  /\ drained = FALSE
  /\ listener = "open"
  /\ connection = [c \in Connections |-> "none"]

(* Notify::notify_waiters: whoever has called notified() before is woken. *)
notify_waiters == waiter' = IF waiter = "waiting" THEN "notified" ELSE waiter
----------------------------------------------------------------------------
(* begin_request and the drop of its guard *)
Moves(r, at) == request' = [request EXCEPT ![r] = at]

FirstLook(r) ==
  /\ request[r] = "idle"
  /\ accepting
  /\ Moves(r, "seen")
  /\ UNCHANGED <<accepting, active, cancelled, waiter, main, drained, tasks>>

Count(r) ==
  /\ request[r] = "seen"
  /\ active' = active + 1
  /\ Moves(r, "counted")
  /\ UNCHANGED <<accepting, cancelled, waiter, main, drained, tasks>>

(* A mutant: a request that was counted is served. *)
NoSecondLook(r) ==
  /\ request[r] = "counted"
  /\ Moves(r, "serving")
  /\ UNCHANGED <<accepting, active, cancelled, waiter, main, drained, tasks>>

SecondLook(r) ==
  /\ request[r] = "counted"
  /\ Moves(r, IF accepting THEN "serving" ELSE "refused")
  /\ UNCHANGED <<accepting, active, cancelled, waiter, main, drained, tasks>>

(* A mutant: the last request tells nobody. *)
LeaveSilently(r) ==
  /\ request[r] \in {"serving", "refused"}
  /\ active' = active - 1
  /\ Moves(r, "idle")
  /\ UNCHANGED <<accepting, cancelled, waiter, main, drained, tasks>>

(* The handler and the body of its response are done, or it was refused. *)
Leave(r) ==
  /\ request[r] \in {"serving", "refused"}
  /\ active' = active - 1
  /\ Moves(r, IF active = 1 THEN "notify" ELSE "idle")
  /\ UNCHANGED <<accepting, cancelled, waiter, main, drained, tasks>>

LastNotifies(r) ==
  /\ request[r] = "notify"
  /\ Moves(r, "idle")
  /\ notify_waiters
  /\ UNCHANGED <<accepting, active, cancelled, main, drained, tasks>>
----------------------------------------------------------------------------
(* serve_tcp: a connection is spawned on the tracker. *)
Accept(c) ==
  /\ listener = "open"
  /\ connection[c] = "none"
  /\ connection' = [connection EXCEPT ![c] = "open"]
  /\ UNCHANGED <<accepting, active, cancelled, waiter, request, main, drained, listener>>

ListenerReturns ==
  /\ listener = "open"
  /\ cancelled
  /\ listener' = "returned"
  /\ UNCHANGED <<accepting, active, cancelled, waiter, request, main, drained, connection>>

(* A listener that fails brings the server down too. *)
ListenerFails ==
  /\ listener = "open"
  /\ listener' = "returned"
  /\ UNCHANGED <<accepting, active, cancelled, waiter, request, main, drained, connection>>

ConnectionEnds(c) ==
  /\ connection[c] = "open"
  /\ connection' = [connection EXCEPT ![c] = "ended"]
  /\ UNCHANGED <<accepting, active, cancelled, waiter, request, main, drained, listener>>
----------------------------------------------------------------------------
(* run(): a signal or the end of any task, then one step after the other. *)
MainGoes(from, to) == main = from /\ main' = to

RunEnds ==
  /\ MainGoes("serving", "stop")
  /\ UNCHANGED <<accepting, active, cancelled, waiter, request, drained, tasks>>

(* Drain::stop *)
Stop ==
  /\ MainGoes("stop", "cancel")
  /\ accepting' = FALSE
  /\ UNCHANGED <<active, cancelled, waiter, request, drained, tasks>>

StopCancels ==
  /\ MainGoes("cancel", "stopped")
  /\ cancelled' = TRUE
  /\ UNCHANGED <<accepting, active, waiter, request, drained, tasks>>

StopNotifies ==
  /\ MainGoes("stopped", "wait")
  /\ IF active = 0 THEN notify_waiters ELSE UNCHANGED waiter
  /\ UNCHANGED <<accepting, active, cancelled, request, drained, tasks>>

(* Drain::wait *)
WaitArms ==
  /\ MainGoes("wait", "look")
  /\ waiter' = "waiting"
  /\ UNCHANGED <<accepting, active, cancelled, request, drained, tasks>>

WaitLooks ==
  /\ main = "look"
  /\ main' = IF active = 0 THEN "tracker" ELSE "sleep"
  /\ drained' = (active = 0)
  /\ waiter' = IF active = 0 THEN "none" ELSE waiter
  /\ UNCHANGED <<accepting, active, cancelled, request, tasks>>

WaitWakes ==
  /\ MainGoes("sleep", "wait")
  /\ waiter = "notified"
  /\ waiter' = "none"
  /\ UNCHANGED <<accepting, active, cancelled, request, drained, tasks>>

(* A mutant: the wait is not bounded. *)
WaitForever ==
  /\ MainGoes("sleep", "tracker")
  /\ active = 0
  /\ waiter' = "none"
  /\ UNCHANGED <<accepting, active, cancelled, request, drained, tasks>>

WaitTimesOut ==
  /\ MainGoes("sleep", "tracker")
  /\ waiter' = "none"
  /\ UNCHANGED <<accepting, active, cancelled, request, drained, tasks>>

(* connections.wait(), within its time or not. *)
TrackerEmpty ==
  /\ MainGoes("tracker", "join")
  /\ \A c \in Connections : connection[c] # "open"
  /\ UNCHANGED <<accepting, active, cancelled, waiter, request, drained, tasks>>

TrackerTimesOut ==
  /\ MainGoes("tracker", "join")
  /\ UNCHANGED <<accepting, active, cancelled, waiter, request, drained, tasks>>

JoinListeners ==
  /\ MainGoes("join", "registry")
  /\ listener = "returned"
  /\ UNCHANGED <<accepting, active, cancelled, waiter, request, drained, tasks>>

CloseRegistry ==
  /\ MainGoes("registry", "router")
  /\ UNCHANGED <<accepting, active, cancelled, waiter, request, drained, tasks>>

JoinRouter ==
  /\ MainGoes("router", "usage")
  /\ UNCHANGED <<accepting, active, cancelled, waiter, request, drained, tasks>>

JoinUsage ==
  /\ MainGoes("usage", "exited")
  /\ UNCHANGED <<accepting, active, cancelled, waiter, request, drained, tasks>>
----------------------------------------------------------------------------
Main ==
  \/ Stop \/ StopCancels \/ StopNotifies
  \/ WaitArms \/ WaitLooks \/ WaitWakes \/ WaitTimesOut
  \/ TrackerEmpty \/ TrackerTimesOut \/ JoinListeners
  \/ CloseRegistry \/ JoinRouter \/ JoinUsage

Request(r) == FirstLook(r) \/ Count(r) \/ SecondLook(r) \/ Leave(r) \/ LastNotifies(r)

Connecting(c) == Accept(c) \/ ConnectionEnds(c)

Next ==
  \/ \E r \in Requests : Request(r)
  \/ \E c \in Connections : Connecting(c)
  \/ ListenerReturns \/ ListenerFails
  \/ RunEnds
  \/ Main

Spec == Init /\ [][Next]_vars

(* run() goes on, its waits are bounded by the clock, and a listener that    *)
(* keeps finding its cancellation ready takes it.  Handlers and connections  *)
(* need not ever end.                                                        *)
FairSpec == Spec /\ WF_vars(Main) /\ WF_vars(RunEnds /\ listener = "returned") /\ SF_vars(ListenerReturns)
----------------------------------------------------------------------------
TypeOK ==
  /\ accepting \in BOOLEAN /\ active \in Nat /\ cancelled \in BOOLEAN
  /\ waiter \in {"none", "waiting", "notified"}
  /\ request \in [Requests -> {"idle", "seen", "counted", "serving", "refused", "notify"}]
  /\ main \in {"serving", "stop", "cancel", "stopped", "wait", "look", "sleep", "tracker",
               "join", "registry", "router", "usage", "exited"}
  /\ drained \in BOOLEAN
  /\ listener \in {"open", "returned"}
  /\ connection \in [Connections -> {"none", "open", "ended"}]

(* When wait() has returned true no handler runs and none will: requests     *)
(* that looked at accepting before stop() are refused at their second look.  *)
(* registry, router and usage are taken down under no handler then.          *)
DrainedMeansQuiet == drained => \A r \in Requests : request[r] # "serving"

(* wait() does not sleep through the end of the last request.                *)
NoLostIdle ==
  main = "sleep" /\ waiter = "waiting" =>
    active > 0 \/ \E r \in Requests : request[r] = "notify"

(* Success of wait() means that nothing runs, and wait() sees it in time.    *)
DrainIsExact == DrainedMeansQuiet /\ NoLostIdle

(* The server comes down whatever its handlers and connections do.           *)
ShutdownReturns == []<>(main \in {"serving", "exited"})
============================================================================
