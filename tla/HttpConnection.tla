--------------------------- MODULE HttpConnection ---------------------------
(***************************************************************************)
(* One TCP connection of the HTTP server (porta-server/src/server.rs:      *)
(* serve_connection, ConnectionActivity, RequestLifetime, TrackedBody).    *)
(* Its task drives the connection and waits for one of: the first request, *)
(* too long a silence, the shutdown, or the connection's end.  The         *)
(* requests of an HTTP/2 connection run in tasks of their own, so every    *)
(* access to the atomics and the Notify that tell the connection's task of *)
(* their activity is a step.                                               *)
(*                                                                         *)
(* A request lives until its response body has ended and, when it became a *)
(* tunnel, until the task that carries the tunnel has: both share the      *)
(* RequestLifetime.  Timers count down in ticks and fire before the next.  *)
(***************************************************************************)
EXTENDS Integers, FiniteSets

CONSTANTS Streams,
          InitialTimeout, StreamIdleTimeout,
          GraceTime    \* the 10 s of a graceful shutdown

ASSUME HttpAssumption ==
  IsFiniteSet(Streams) /\ {InitialTimeout, StreamIdleTimeout, GraceTime} \subseteq Nat

VARIABLES conn,        \* what the connection's task waits for
          in_progress, generation,   \* active and generation of ConnectionActivity
          permit,      \* changed: the Notify holds a permit
          watch,       \* wait_until_idle_for
          stream,      \* every request, and who holds its lifetime
          draining,    \* the drain's cancellation
          quiet        \* history: ticks since a request was last in progress

http_vars == <<conn, in_progress, generation, permit, watch, stream, draining, quiet>>
activity == <<in_progress, generation, permit>>
----------------------------------------------------------------------------
HttpInit ==
  /\ conn = [phase |-> "initial", first |-> FALSE, timer |-> InitialTimeout, why |-> "open"]
  /\ in_progress = 0 /\ generation = 0 /\ permit = FALSE
  /\ watch = [pc |-> "off", observed |-> 0, timer |-> 0]
  /\ stream = [r \in Streams |-> [pc |-> "none", holds |-> {}]]
  /\ draining = FALSE /\ quiet = 0

Open == conn.phase # "closed"
Closed(why) == conn' = [conn EXCEPT !.phase = "closed", !.why = why]
StreamMoves(r, from, to) == stream[r].pc = from /\ stream' = [stream EXCEPT ![r].pc = to]
----------------------------------------------------------------------------
(* ConnectionActivity::begin and touch, called by the request's task. *)
BeginRequest(r) ==
  /\ Open /\ StreamMoves(r, "none", "added")
  /\ in_progress' = in_progress + 1
  /\ UNCHANGED <<conn, generation, permit, watch, draining, quiet>>

Touch(r) ==
  /\ \/ StreamMoves(r, "added", "counted") /\ quiet' = 0
     \/ StreamMoves(r, "dropped", "touched") /\ UNCHANGED quiet
  /\ generation' = generation + 1
  /\ UNCHANGED <<conn, in_progress, permit, watch, draining>>

NotifyOne(r) ==
  /\ StreamMoves(r, "counted", "begun") \/ StreamMoves(r, "touched", "done")
  /\ permit' = TRUE
  /\ UNCHANGED <<conn, in_progress, generation, watch, draining, quiet>>

(* The first request is reported; the drain takes the request in, or, when  *)
(* it has begun to stop, the answer is at once a 503.                       *)
Enter(r) ==
  /\ stream[r].pc = "begun"
  /\ conn' = IF Open THEN [conn EXCEPT !.first = TRUE] ELSE conn
  /\ stream' = [stream EXCEPT ![r] = IF draining THEN [pc |-> "answered", holds |-> {"body"}]
                               ELSE [pc |-> "handled", holds |-> {}]]
  /\ UNCHANGED <<activity, watch, draining, quiet>>

(* The handler's answer; a tunnel goes on in a task with a share of the     *)
(* request's lifetime.                                                      *)
Answer(r) ==
  /\ stream[r].pc = "handled"
  /\ \E holds \in {{"body"}, {"body", "tunnel"}} :
       stream' = [stream EXCEPT ![r] = [pc |-> "answered", holds |-> holds]]
  /\ UNCHANGED <<conn, activity, watch, draining, quiet>>

(* TrackedBody::poll_frame at the end of the body, the body's drop, the end *)
(* of a tunnel: the last holder drops the lifetime.                         *)
Release(r, holder) ==
  /\ stream[r].pc = "answered" /\ holder \in stream[r].holds
  /\ LET left == stream[r].holds \ {holder} IN
     stream' = [stream EXCEPT ![r] = [pc |-> IF left = {} THEN "dropping" ELSE "answered", holds |-> left]]
  /\ UNCHANGED <<conn, activity, watch, draining, quiet>>

(* A mutant: the request is taken off, and nobody is told. *)
DropSilently(r) ==
  /\ StreamMoves(r, "dropping", "done")
  /\ in_progress' = in_progress - 1
  /\ UNCHANGED <<conn, generation, permit, watch, draining, quiet>>

(* ConnectionRequest::drop; a touch follows. *)
DropRequest(r) ==
  /\ StreamMoves(r, "dropping", "dropped")
  /\ in_progress' = in_progress - 1
  /\ UNCHANGED <<conn, generation, permit, watch, draining, quiet>>
----------------------------------------------------------------------------
(* wait_until_idle_for.  A stored permit ends either of its waits.          *)
WatchTo(pc) == watch' = [watch EXCEPT !.pc = pc]
Watching(pc) == conn.phase = "serving" /\ watch.pc = pc

Observe ==
  /\ Watching("observe")
  /\ watch' = [watch EXCEPT !.pc = "look", !.observed = generation]
  /\ UNCHANGED <<conn, activity, stream, draining, quiet>>

Look ==
  /\ Watching("look")
  /\ IF in_progress # 0 THEN WatchTo("wait")
     ELSE watch' = [watch EXCEPT !.pc = "sleep", !.timer = StreamIdleTimeout]
  /\ UNCHANGED <<conn, activity, stream, draining, quiet>>

Notified ==
  /\ Watching("wait") \/ Watching("sleep")
  /\ permit /\ permit' = FALSE
  /\ WatchTo("observe")
  /\ UNCHANGED <<conn, in_progress, generation, stream, draining, quiet>>

SleepEnds ==
  /\ Watching("sleep") /\ watch.timer = 0
  /\ WatchTo(IF in_progress = 0 THEN "verify" ELSE "observe")
  /\ UNCHANGED <<conn, activity, stream, draining, quiet>>

(* A mutant: no request is active, so the connection is idle. *)
VerifyNothing ==
  /\ Watching("verify") /\ Closed("idle")
  /\ UNCHANGED <<watch, activity, stream, draining, quiet>>

Verify ==
  /\ Watching("verify")
  /\ IF generation = watch.observed THEN Closed("idle") /\ UNCHANGED watch
     ELSE WatchTo("observe") /\ UNCHANGED conn
  /\ UNCHANGED <<activity, stream, draining, quiet>>
----------------------------------------------------------------------------
(* serve_connection. *)
FirstRequest ==
  /\ conn.phase = "initial" /\ conn.first
  /\ conn' = [conn EXCEPT !.phase = "serving"]
  /\ WatchTo("observe")
  /\ UNCHANGED <<activity, stream, draining, quiet>>

InitialTimesOut ==
  /\ conn.phase = "initial" /\ ~conn.first /\ conn.timer = 0
  /\ Closed("no request")
  /\ UNCHANGED <<activity, watch, stream, draining, quiet>>

(* The peer closes, an error, or an HTTP/1 upgrade that hands the stream on. *)
HttpConnectionEnds ==
  /\ Open /\ Closed("ended")
  /\ UNCHANGED <<activity, watch, stream, draining, quiet>>

BeginGrace ==
  /\ draining /\ conn.phase \in {"initial", "serving"}
  /\ conn' = [conn EXCEPT !.phase = "draining", !.timer = GraceTime]
  /\ UNCHANGED <<activity, watch, stream, draining, quiet>>

GraceEnds ==
  /\ conn.phase = "draining"
  /\ conn.timer = 0 \/ \A r \in Streams : stream[r].pc \in {"none", "done"}
  /\ Closed("drained")
  /\ UNCHANGED <<activity, watch, stream, draining, quiet>>

DrainBegins ==
  /\ ~draining /\ draining' = TRUE
  /\ UNCHANGED <<conn, activity, watch, stream, quiet>>

InProgress == \E r \in Streams : stream[r].pc \in {"counted", "begun", "handled", "answered", "dropping"}

Due == \/ conn.phase = "initial" /\ (conn.first \/ conn.timer = 0)
       \/ conn.phase = "draining" /\ conn.timer = 0
       \/ Watching("sleep") /\ watch.timer = 0

HttpTick ==
  /\ Open /\ ~Due
  /\ conn' = [conn EXCEPT !.timer = IF conn.phase \in {"initial", "draining"} THEN @ - 1 ELSE @]
  /\ watch' = [watch EXCEPT !.timer = IF Watching("sleep") THEN @ - 1 ELSE @]
  /\ quiet' = IF InProgress THEN 0 ELSE IF quiet < StreamIdleTimeout THEN quiet + 1 ELSE quiet
  /\ UNCHANGED <<activity, stream, draining>>
----------------------------------------------------------------------------
Watch == Observe \/ Look \/ Notified \/ SleepEnds \/ Verify
StreamSteps(r) == Touch(r) \/ NotifyOne(r) \/ Enter(r) \/ DropRequest(r)

HttpNext ==
  \/ \E r \in Streams : \/ BeginRequest(r) \/ StreamSteps(r) \/ Answer(r)
                         \/ \E holder \in {"body", "tunnel"} : Release(r, holder)
  \/ Watch \/ FirstRequest \/ InitialTimesOut \/ HttpConnectionEnds
  \/ BeginGrace \/ GraceEnds \/ DrainBegins \/ HttpTick

HttpSpec == HttpInit /\ [][HttpNext]_http_vars

(* Tasks run and the clock goes on.  No handler, body or tunnel has to end. *)
HttpTask(t) ==
  \/ t \in Streams /\ StreamSteps(t)
  \/ t = "watch" /\ Watch
  \/ t = "first" /\ FirstRequest
  \/ t = "initial" /\ InitialTimesOut
  \/ t = "grace" /\ BeginGrace
  \/ t = "graceEnds" /\ GraceEnds
  \/ t = "clock" /\ HttpTick

HttpTasks == {"watch", "first", "initial", "grace", "graceEnds", "clock"} \cup Streams

HttpFairSpec == HttpSpec /\ \A t \in HttpTasks : WF_http_vars(HttpTask(t))
----------------------------------------------------------------------------
StreamStates ==
  [pc : {"none", "added", "counted", "begun", "handled", "answered", "dropping", "dropped", "touched", "done"},
   holds : SUBSET {"body", "tunnel"}]

(* The types of the variables. *)
HttpTypes ==
  /\ conn \in [phase : {"initial", "serving", "draining", "closed"}, first : BOOLEAN, timer : Nat,
               why : {"open", "idle", "no request", "ended", "drained"}]
  /\ in_progress \in Nat /\ generation \in Nat /\ permit \in BOOLEAN
  /\ watch \in [pc : {"off", "observe", "look", "wait", "sleep", "verify"}, observed : Nat, timer : Nat]
  /\ stream \in [Streams -> StreamStates]
  /\ draining \in BOOLEAN /\ quiet \in 0..StreamIdleTimeout

(* A connection is closed as idle only when no request or tunnel has been   *)
(* in progress on it for the whole idle timeout: requests that begin or end *)
(* while the watch looks at one counter and then the other do not deceive   *)
(* it.  (A request whose task has got no further than its first atomic step *)
(* is still missed.)                                                        *)
IdleMeansIdle == [][(Open /\ conn'.phase = "closed" /\ conn'.why = "idle")
                      => ~InProgress /\ quiet >= StreamIdleTimeout]_http_vars

(* What must come true again and again: a connection whose requests have    *)
(* all ended is closed in the end, in whatever order the last of them       *)
(* reported it; none is kept open for want of a wakeup.                     *)
ClosedWhenDone == (\A r \in Streams : stream[r].pc \in {"none", "done"}) => conn.phase = "closed"
=============================================================================
