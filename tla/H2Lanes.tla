------------------------------- MODULE H2Lanes -------------------------------
(***************************************************************************)
(* The HTTP/2 tunnel of the native client (porta-client tunnel/h2.rs with  *)
(* h2_queue.rs) and the gateway's side of each of its lanes (porta-server  *)
(* transport/http2.rs).                                                    *)
(*                                                                         *)
(* One tunnel is a group of LaneCount HTTP/2 streams, each on a TCP        *)
(* connection of its own.  Lane 0 carries control packets, the others the  *)
(* data flows, each flow pinned to one lane.  Every lane is a task that    *)
(* dials, runs and redials its connection for as long as the group lives;  *)
(* a dispatcher routes outbound packets to the lanes' upload queues, and a *)
(* monitor (the startup wait before it) watches that lane 0 and some data  *)
(* lane are there.  What happens inside lanes that stay up, and what they  *)
(* download, is in LaneStreams.                                            *)
(*                                                                         *)
(* Packets are abstracted to their flow; a flow's class decides what the   *)
(* queues do with it.  Time is abstract: a timer may fire whenever it is   *)
(* armed, a queued packet may expire at any moment.  Once the group is     *)
(* cancelled the gateway and the clock are idle but for what ends it.      *)
(***************************************************************************)
EXTENDS Naturals, Sequences, FiniteSets, SequencesExt

CONSTANTS LaneCount,       \* lanes of the group, lane 0 the control lane
          TcpFlows,        \* flows whose packets are never evicted for others
          DatagramFlows,   \* flows whose packets make room for others
          ControlFlows,    \* flows of control packets
          Leases,          \* leases the gateway may grant
          FirstLease,      \* the one it grants at first
          Absent,          \* absent value
          QueuePackets,    \* capacity of an upload queue
          FlowLimit,       \* entries of the flow table
          Scenarios        \* tunnels to begin with, and bounds on what happens

Lanes == 0 .. LaneCount - 1
DataLanes == Lanes \ {0}
Flows == TcpFlows \cup DatagramFlows \cup ControlFlows

\* There is a control lane, a place in the flow table, and a control packet
\* is of no data flow.
ASSUME LanesAssumption ==
  /\ LaneCount \in Nat \ {0} /\ QueuePackets \in Nat /\ FlowLimit \in Nat \ {0}
  /\ ControlFlows \cap (TcpFlows \cup DatagramFlows) = {}
  /\ FirstLease \in Leases /\ Absent \notin Leases
  /\ \A s \in Scenarios : s.lanes \subseteq Lanes /\ s.established \in BOOLEAN

VARIABLES
  lane,        \* where each lane's task is
  conn,        \* each lane's connection and its gateway session
  stale,       \* sessions of a lane's earlier connections, still open
  active,      \* the lanes the dispatcher may choose
  queue,       \* upload queue of each lane
  lease,       \* the lease the group agreed on
  established, \* set once startup has found the required capacity
  failure,     \* the error that ended the group, the first one
  cancelled,   \* the group's cancellation token
  pins,        \* flow table, the oldest entry first
  route,       \* the dispatcher and the packet it is routing
  watch,       \* the startup wait, then the capacity monitor
  granted,     \* the lease the gateway grants now
  left,        \* bounds: connections, packets and lease changes left
  evicted      \* history: flows the full table has forgotten

laneVars == <<lane, conn, stale, active, queue, lease>>
groupVars == <<established, failure, cancelled, watch>>
upVars == <<pins, route, evicted>>
gateVars == <<granted, left>>
lanes_vars == <<laneVars, groupVars, upVars, gateVars>>

NoConn == [state |-> "none", lease |-> Absent, up |-> <<>>]

(***************************************************************************)
(* A scenario's tunnel is fresh or has just been established, and has some *)
(* of the lanes; the rest of it bounds what happens.                       *)
(***************************************************************************)
Began(s) ==
  LET up == IF s.established THEN s.lanes ELSE {} IN
  /\ lane = [l \in Lanes |-> IF l \in up THEN "up"
                             ELSE IF l \in s.lanes THEN "down" ELSE "gone"]
  /\ active = up
  /\ queue = [l \in Lanes |-> [open |-> l \in up, items |-> <<>>]]
  /\ conn = [l \in Lanes |-> IF l \in up
                 THEN [NoConn EXCEPT !.state = "open", !.lease = granted]
                 ELSE NoConn]
  /\ lease = IF s.established THEN granted ELSE Absent
  /\ established = s.established
  /\ watch = [pc |-> IF s.established THEN "running" ELSE "starting",
              woken |-> FALSE]
  /\ left = [connects |-> s.connects, packets |-> s.packets,
             leases |-> s.leases, cancels |-> s.cancels]

LanesInit ==
  /\ granted = FirstLease
  /\ stale = [l \in Lanes |-> 0]
  /\ failure = Absent
  /\ cancelled = FALSE
  /\ pins = <<>>
  /\ route = [pc |-> "idle", flow |-> Absent, lane |-> Absent]
  /\ evicted = {}
  /\ \E s \in Scenarios : Began(s)

-----------------------------------------------------------------------------
(* The group's shared state.                                               *)

\* Lane 0 and at least one data lane are up.
RequiredCapacity(lanes) == 0 \in lanes /\ lanes \cap DataLanes # {}

\* state_changed.notify_waiters(): reaches whoever holds a Notified.
Woken(w) == IF w.pc \in {"armed", "parked", "watchArmed", "watching",
                         "lostArmed", "lostParked"}
              THEN [w EXCEPT !.woken = TRUE] ELSE w

\* Group::fail: the first error is kept and ends the group.
Fail(error) ==
  IF failure # Absent
    THEN UNCHANGED <<failure, cancelled, watch>>
    ELSE /\ failure' = error
         /\ cancelled' = TRUE
         /\ watch' = Woken(watch)

Goto(l, pc) == lane' = [lane EXCEPT ![l] = pc]

\* The client resets the stream and drops the connection (close_lane); the
\* gateway's session, if one was opened, has yet to notice.
CloseConn(l) ==
  /\ conn' = [conn EXCEPT ![l] = NoConn]
  /\ stale' = [stale EXCEPT ![l] = IF conn[l].state = "open" THEN stale[l] + 1 ELSE stale[l]]

-----------------------------------------------------------------------------
(* A lane's task: run_lane.                                                *)

\* establish_lane, once the back-off has passed: dial, handshake, send the
\* request and the first frame.  A packet being routed is queued in one
\* synchronous call, into which no back-off and handshake fit.
Dial(l) ==
  /\ lane[l] = "down"
  /\ ~cancelled
  /\ route.pc = "idle"
  /\ left.connects > 0
  /\ left' = [left EXCEPT !.connects = @ - 1]
  /\ Goto(l, "asked")
  /\ UNCHANGED <<conn, stale, active, queue, lease, groupVars, upVars,
                 granted>>

\* The dial, the handshake or the request fails or takes too long, or the
\* gateway's refusal is one worth trying again (validate_response).
EstablishFails(l) ==
  /\ lane[l] = "asked"
  /\ ~cancelled
  /\ CloseConn(l)
  /\ Goto(l, "down")
  /\ UNCHANGED <<active, queue, lease, groupVars, upVars, gateVars>>

\* The gateway's refusal, or its certificate, rules the tunnel out for good.
EstablishRefused(l) ==
  /\ lane[l] = "asked"
  /\ ~cancelled
  /\ conn[l].state = "none"
  /\ Goto(l, "gone")
  /\ Fail("permanent")
  /\ UNCHANGED <<conn, stale, active, queue, lease, established, upVars, gateVars>>

\* Group::accept_lease: every lane must bring the same lease.  One that
\* changed while no lane was up ends the group but may be tried again.
LeaseVerdict(l) ==
  CASE lease = Absent \/ lease = conn[l].lease -> "ok"
    [] established /\ active = {} -> "retryable"
    [] OTHER -> "permanent"

\* The response: its lease is accepted and the lane's queue opens, before
\* the lane can be chosen (Group::activate).
Accept(l) ==
  /\ lane[l] = "asked"
  /\ ~cancelled
  /\ conn[l].state # "none"
  /\ IF LeaseVerdict(l) = "ok"
       THEN /\ lease' = conn[l].lease
            /\ queue' = [queue EXCEPT ![l].open = TRUE]
            /\ Goto(l, "opened")
            /\ UNCHANGED <<conn, stale, failure, cancelled, watch>>
       ELSE /\ Goto(l, "gone")
            /\ CloseConn(l)
            /\ Fail(LeaseVerdict(l))
            /\ UNCHANGED <<lease, queue>>
  /\ UNCHANGED <<active, established, upVars, gateVars>>

Activate(l) ==
  /\ lane[l] = "opened"
  /\ active' = active \cup {l}
  /\ watch' = Woken(watch)
  /\ Goto(l, "up")
  /\ UNCHANGED <<conn, stale, queue, lease, established, failure, cancelled,
                 upVars, gateVars>>

\* run_connected_lane ends (the stream failed, or the group was cancelled)
\* and Group::deactivate begins: the lane can no longer be chosen.
LaneEnds(l) ==
  /\ lane[l] = "up"
  /\ cancelled \/ conn[l].state = "lost"
  /\ CloseConn(l)
  /\ active' = active \ {l}
  /\ Goto(l, "closing")
  /\ UNCHANGED <<queue, lease, groupVars, upVars, gateVars>>

\* A mutant: the queue refuses packets but keeps those it has for the next connection.
Shut(q) == [q EXCEPT !.open = FALSE]

\* UploadQueue::deactivate_and_clear.
Emptied(q) == [open |-> FALSE, items |-> <<>>]

Deactivate(l) ==
  /\ lane[l] = "closing"
  /\ queue' = [queue EXCEPT ![l] = Emptied(queue[l])]
  /\ watch' = Woken(watch)
  /\ Goto(l, IF cancelled THEN "gone" ELSE "down")
  /\ UNCHANGED <<conn, stale, active, lease, established, failure, cancelled,
                 upVars, gateVars>>

\* Dialing or waiting to dial again, the task sees the token cancelled.
LaneCancelled(l) ==
  /\ cancelled
  /\ lane[l] \in {"down", "asked"}
  /\ Goto(l, "gone")
  /\ CloseConn(l)
  /\ UNCHANGED <<active, queue, lease, groupVars, upVars, gateVars>>

-----------------------------------------------------------------------------
(* Outbound packets: dispatch_outbound, Group::route and the upload queue. *)

PinOf(f) == LET at == {i \in DOMAIN pins : pins[i].flow = f}
            IN IF at = {} THEN Absent ELSE pins[CHOOSE i \in at : TRUE].lane
Unpinned(p, f) == LET at == {i \in DOMAIN p : p[i].flow = f}
                  IN IF at = {} THEN p ELSE RemoveAt(p, CHOOSE i \in at : TRUE)

\* FlowTable::assign: a full table forgets its oldest flow.
Pinned(p, f, l) ==
  LET others == Unpinned(p, f)
      room == IF Len(others) >= FlowLimit THEN Tail(others) ELSE others
  IN Append(room, [flow |-> f, lane |-> l])
Forgotten(p, f) ==
  LET others == Unpinned(p, f)
  IN IF Len(others) >= FlowLimit THEN {Head(others).flow} ELSE {}

Least(lanes) == {l \in lanes : \A k \in lanes :
                   Len(queue[l].items) <= Len(queue[k].items)}

\* Group::control_lane: the control lane, or the least loaded lane there is.
ControlLane == IF 0 \in active THEN {0} ELSE Least(active \cap DataLanes)

\* Group::data_lane, the second half: a lane of f's own.
KeepsPin(f) == PinOf(f) \in DataLanes \cap active
DataLane(f) == IF KeepsPin(f) THEN {PinOf(f)} ELSE Least(active \cap DataLanes)

IsControl(f) == f \in ControlFlows

\* What choosing lane l for f does to the flow table.
PinTo(p, f, l) ==
  /\ pins' = Pinned(p, f, l)
  /\ evicted' = evicted \cup Forgotten(p, f)

\* The dispatcher takes the next packet and chooses its lane.
RoutePacket(f) ==
  /\ route.pc = "idle"
  /\ watch.pc \notin {"starting", "armed", "parked", "failed"}
  /\ ~cancelled
  /\ left.packets > 0
  /\ left' = [left EXCEPT !.packets = @ - 1]
  /\ LET choices == IF IsControl(f) THEN ControlLane ELSE DataLane(f)
         control == {0} \cap active
     IN \/ \E l \in choices :
             /\ route' = [pc |-> "chosen", flow |-> f, lane |-> l]
             /\ IF IsControl(f) THEN UNCHANGED <<pins, evicted>>
                                ELSE PinTo(pins, f, l)
        \/ /\ choices = {} /\ ~IsControl(f)
           /\ route' = IF control = {} THEN route
                       ELSE [pc |-> "chosen", flow |-> f, lane |-> 0]
           /\ pins' = Unpinned(pins, f)
           /\ UNCHANGED evicted
        \/ /\ choices = {} /\ IsControl(f)
           /\ UNCHANGED <<route, pins, evicted>>
  /\ UNCHANGED <<laneVars, groupVars, granted>>

\* UploadQueue::enqueue: the oldest datagram makes room, or for a control
\* packet the oldest control packet; otherwise the queue is full.
Victims(q, f) ==
  LET ofClass(class) == {i \in DOMAIN q.items : q.items[i] \in class}
  IN CASE ofClass(DatagramFlows) # {} -> ofClass(DatagramFlows)
       [] IsControl(f) -> ofClass(ControlFlows)
       [] OTHER -> {}
FirstOf(S) == CHOOSE i \in S : \A j \in S : i <= j

Enqueue(q, f) ==
  LET full == Len(q.items) >= QueuePackets
      room == IF full THEN RemoveAt(q.items, FirstOf(Victims(q, f)))
                      ELSE q.items
  IN CASE ~q.open -> [result |-> "unavailable", items |-> q.items]
       [] q.open /\ full /\ Victims(q, f) = {} ->
            [result |-> "full", items |-> q.items]
       [] OTHER -> [result |-> "ok", items |-> Append(room, f)]

\* A mutant: a full queue is treated as a lost one: the packet takes another lane.
NeverTailDrops(result, f) == FALSE

\* A full queue drops the data packet: moving it would overtake its flow.
TailDrops(result, f) == result = "full" /\ ~IsControl(f)

Idle == [pc |-> "idle", flow |-> Absent, lane |-> Absent]

QueuePacket ==
  /\ route.pc = "chosen"
  /\ LET l == route.lane
         f == route.flow
         r == Enqueue(queue[l], f)
     IN /\ queue' = [queue EXCEPT ![l].items = r.items]
        /\ IF r.result = "ok" \/ TailDrops(r.result, f)
             THEN route' = Idle /\ UNCHANGED pins
             ELSE /\ route' = [route EXCEPT !.pc = "refused"]
                  /\ pins' = IF IsControl(f) THEN pins ELSE Unpinned(pins, f)
  /\ UNCHANGED <<lane, conn, stale, active, lease, groupVars, evicted,
                 gateVars>>

\* The packet's second and last chance: another lane, if there is one.
Reroute ==
  /\ route.pc = "refused"
  /\ route' = Idle
  /\ LET f == route.flow
         data == IF IsControl(f) THEN {} ELSE DataLane(f)
         Offer(l) ==
           IF l = route.lane THEN UNCHANGED queue
           ELSE queue' = [queue EXCEPT ![l].items = Enqueue(queue[l], f).items]
     IN \/ \E l \in data : PinTo(pins, f, l) /\ Offer(l)
        \/ /\ data = {}
           /\ UNCHANGED <<pins, evicted>>
           /\ IF ControlLane = {} THEN UNCHANGED queue
              ELSE \E l \in ControlLane : Offer(l)
  /\ UNCHANGED <<lane, conn, stale, active, lease, groupVars, gateVars>>

\* drop_expired_locked: the oldest packet of a class has aged out.
Expire(l) ==
  /\ ~cancelled
  /\ \E class \in {TcpFlows, DatagramFlows, ControlFlows} :
       LET old == {i \in DOMAIN queue[l].items : queue[l].items[i] \in class}
       IN /\ old # {}
          /\ queue' = [queue EXCEPT ![l].items = RemoveAt(queue[l].items, FirstOf(old))]
  /\ UNCHANGED <<lane, conn, stale, active, lease, groupVars, upVars, gateVars>>

\* upload_lane and take_batch: what is queued goes out as one batch, as far
\* as the stream has room.
Upload(l) ==
  /\ lane[l] = "up"
  /\ ~cancelled
  /\ queue[l].items # <<>>
  /\ Len(conn[l].up) < QueuePackets
  /\ conn' = [conn EXCEPT ![l].up = IF conn[l].state = "lost" THEN conn[l].up
                                    ELSE conn[l].up \o queue[l].items]
  /\ queue' = [queue EXCEPT ![l].items = <<>>]
  /\ UNCHANGED <<lane, stale, active, lease, groupVars, upVars, gateVars>>

-----------------------------------------------------------------------------
\* Connection::close, or the application's token.
CloseGroup ==
  /\ ~cancelled
  /\ left.cancels > 0
  /\ cancelled' = TRUE
  /\ left' = [left EXCEPT !.cancels = 0]
  /\ UNCHANGED <<laneVars, established, failure, watch, upVars, granted>>

-----------------------------------------------------------------------------
(* wait_for_startup, then monitor_capacity.                                *)

Capacity == RequiredCapacity(active)
WatchGoes(pc) == watch' = [pc |-> pc, woken |-> FALSE]

\* The wait for capacity before the tunnel is handed out.
StartupChecks ==
  /\ watch.pc \in {"starting", "armed"}
  /\ CASE Capacity -> /\ established' = TRUE
                      /\ WatchGoes("running")
                      /\ UNCHANGED <<cancelled, queue>>
       [] ~Capacity /\ watch.pc = "starting" /\ failure # Absent ->
            /\ WatchGoes("failed")
            /\ cancelled' = TRUE
            /\ queue' = [l \in Lanes |-> Emptied(queue[l])]
            /\ UNCHANGED established
       [] OTHER -> /\ watch' = [watch EXCEPT
                        !.pc = IF watch.pc = "starting" THEN "armed" ELSE "parked"]
                   /\ UNCHANGED <<established, cancelled, queue>>
  /\ UNCHANGED <<lane, conn, stale, active, lease, failure, upVars,
                 gateVars>>

StartupWakes ==
  /\ watch.pc = "parked"
  /\ watch.woken \/ cancelled
  /\ \/ watch.woken /\ WatchGoes("starting") /\ UNCHANGED queue
     \/ /\ cancelled
        /\ WatchGoes("failed")
        /\ queue' = [l \in Lanes |-> Emptied(queue[l])]
  /\ UNCHANGED <<lane, conn, stale, active, lease, established, failure,
                 cancelled, upVars, gateVars>>

StartupTimesOut ==
  /\ watch.pc = "parked"
  /\ WatchGoes("failed")
  /\ cancelled' = TRUE
  /\ queue' = [l \in Lanes |-> Emptied(queue[l])]
  /\ UNCHANGED <<lane, conn, stale, active, lease, established, failure,
                 upVars, gateVars>>

\* A mutant: a notification armed only after the look misses what happened between.
LookThenArm == [pc |-> "watching", woken |-> FALSE]

\* The second look, with the notification armed before it.
LookAgain == [watch EXCEPT !.pc = IF Capacity THEN "watching" ELSE "running"]

\* The monitor: with capacity it waits for a change, having armed the
\* notification before it looked again; without, it waits for capacity.
MonitorChecks ==
  /\ watch.pc \in {"running", "watchArmed", "lost", "lostArmed"}
  /\ watch' =
       CASE watch.pc = "running" /\ cancelled -> [watch EXCEPT !.pc = "stopped"]
         [] watch.pc = "running" /\ Capacity ->
              [pc |-> "watchArmed", woken |-> FALSE]
         [] watch.pc = "running" -> [watch EXCEPT !.pc = "lost"]
         [] watch.pc = "watchArmed" -> LookAgain
         [] Capacity -> [watch EXCEPT !.pc = "running"]
         [] watch.pc = "lost" -> [pc |-> "lostArmed", woken |-> FALSE]
         [] OTHER -> [watch EXCEPT !.pc = "lostParked"]
  /\ UNCHANGED <<laneVars, established, failure, cancelled, upVars, gateVars>>

MonitorWakes ==
  /\ watch.pc \in {"watching", "lostParked"}
  /\ watch.woken \/ cancelled
  /\ WatchGoes(IF watch.pc = "watching" THEN IF cancelled THEN "stopped" ELSE "running"
               ELSE IF cancelled THEN "running" ELSE "lost")
  /\ UNCHANGED <<laneVars, established, failure, cancelled, upVars, gateVars>>

\* The capacity did not come back in time.
MonitorTimesOut ==
  /\ watch.pc \in {"lost", "lostArmed", "lostParked"}
  /\ IF Capacity
       THEN /\ WatchGoes("running")
            /\ UNCHANGED <<failure, cancelled>>
       ELSE /\ failure' = IF failure = Absent THEN "retryable" ELSE failure
            /\ cancelled' = TRUE
            /\ WatchGoes("stopped")
  /\ UNCHANGED <<laneVars, established, upVars, gateVars>>

-----------------------------------------------------------------------------
(* The gateway: Http2Handler::handle and run_tunnel of each lane.          *)

\* The request passes the checks and its session opens.
Handle(l) ==
  /\ ~cancelled
  /\ lane[l] = "asked"
  /\ conn[l].state = "none"
  /\ conn' = [conn EXCEPT ![l].state = "open", ![l].lease = granted]
  /\ UNCHANGED <<lane, stale, active, queue, lease, groupVars, upVars,
                 gateVars>>

\* consume_uploads: the packets reach the router.
ServeUpload(l) ==
  /\ ~cancelled
  /\ conn[l].state = "open"
  /\ conn[l].up # <<>>
  /\ conn' = [conn EXCEPT ![l].up = Tail(conn[l].up)]
  /\ UNCHANGED <<lane, stale, active, queue, lease, groupVars, upVars,
                 gateVars>>

\* The client's reset ends the body and drops the response, whose drop
\* cancels the session.
ServeEnds(l) ==
  /\ stale[l] > 0
  /\ stale' = [stale EXCEPT ![l] = @ - 1]
  /\ UNCHANGED <<lane, conn, active, queue, lease, groupVars, upVars,
                 gateVars>>

\* The connection breaks, or the gateway cancels the session.
Lose(l) ==
  /\ ~cancelled
  /\ conn[l].state = "open"
  /\ conn' = [conn EXCEPT ![l].state = "lost", ![l].up = <<>>]
  /\ UNCHANGED <<lane, stale, active, queue, lease, groupVars, upVars,
                 gateVars>>

\* With no session left the device's lease may be a new one.
ChangeLease ==
  /\ ~cancelled
  /\ left.leases > 0
  /\ \A l \in Lanes : conn[l].state # "open" /\ stale[l] = 0
  /\ granted' \in Leases \ {granted}
  /\ left' = [left EXCEPT !.leases = @ - 1]
  /\ UNCHANGED <<laneVars, groupVars, upVars>>

-----------------------------------------------------------------------------
Gateway == \/ \E l \in Lanes : \/ Handle(l) \/ ServeUpload(l)
                              \/ ServeEnds(l) \/ Lose(l)
           \/ ChangeLease

LaneStep(l) == \/ Dial(l) \/ EstablishFails(l) \/ EstablishRefused(l)
               \/ Accept(l) \/ Activate(l) \/ LaneEnds(l) \/ Deactivate(l)
               \/ LaneCancelled(l) \/ Expire(l) \/ Upload(l)

Startup == StartupChecks \/ StartupWakes \/ StartupTimesOut
Monitor == MonitorChecks \/ MonitorWakes \/ MonitorTimesOut

LanesNext == \/ \E l \in Lanes : LaneStep(l)
        \/ \E f \in Flows : RoutePacket(f)
        \/ QueuePacket \/ Reroute
        \/ CloseGroup
        \/ Startup \/ Monitor
        \/ Gateway

LanesSpec == LanesInit /\ [][LanesNext]_lanes_vars

(***************************************************************************)
(* Every task of the client is polled until it is done, its timers fire,   *)
(* and the application goes on receiving.  The gateway notices that a      *)
(* stream was reset.                                                       *)
(***************************************************************************)
LaneTask(l, t) ==
  \/ t = "ends" /\ LaneEnds(l)
  \/ t = "deactivate" /\ Deactivate(l)
  \/ t = "cancelled" /\ LaneCancelled(l)
  \/ t = "activate" /\ Activate(l)
  \/ t = "upload" /\ Upload(l)
  \/ t = "serve" /\ ServeEnds(l)

LaneTasks == {"ends", "deactivate", "cancelled", "activate", "upload", "serve"}

GroupTask(t) ==
  \/ t = "queue" /\ QueuePacket
  \/ t = "reroute" /\ Reroute
  \/ t = "startup" /\ Startup
  \/ t = "checks" /\ MonitorChecks
  \/ t = "wakes" /\ MonitorWakes
  \/ t = "timer" /\ MonitorTimesOut

GroupTasks == {"queue", "reroute", "startup", "checks", "wakes", "timer"}

LanesFairSpec ==
  /\ LanesSpec
  /\ \A l \in Lanes, t \in LaneTasks : WF_lanes_vars(LaneTask(l, t))
  /\ \A t \in GroupTasks : WF_lanes_vars(GroupTask(t))
-----------------------------------------------------------------------------
(* Properties.                                                             *)

\* Every lane that may be chosen runs on the lease the group agreed on, and
\* a lane that has no connection holds no packets of the one before: they
\* would go out on the next, after the flow has moved on (accept_lease,
\* deactivate_and_clear).
LanesAgree ==
  /\ \A l \in active : conn[l].lease = lease
  /\ \A l \in Lanes : queue[l].items # <<>> =>
                       lane[l] \in {"opened", "up", "closing"}

Carries(l, f) ==
  /\ lane[l] = "up"
  /\ f \in Range(queue[l].items) \cup Range(conn[l].up)

\* The packets of a data flow are never under way on two live data lanes at
\* once, where the later ones could overtake: a flow leaves its lane only
\* when the lane is lost, never because its queue is full (Group::route), or
\* when the flow table had to forget it.
FlowsKeepLane ==
  \A f \in (TcpFlows \cup DatagramFlows) \ evicted :
    Cardinality({l \in DataLanes : Carries(l, f)}) <= 1

\* The lanes that may be chosen run on the lease the group agreed on, no packet
\* waits for a connection it was not meant for (accept_lease,
\* deactivate_and_clear), and the packets of a flow are never under way on two
\* live data lanes (Group::route).
LanesAreSound == LanesAgree /\ FlowsKeepLane

\* Nothing is outstanding: an established tunnel has its required lanes or has
\* been given up, and of one that was given up every session is closed.
LanesSettled ==
  /\ established => Capacity \/ cancelled
  /\ cancelled => \A l \in Lanes : conn[l].state # "open" /\ stale[l] = 0

\* A tunnel that lost its required lanes gets them back or is given up: no
\* change of the lanes escapes the monitor (monitor_capacity); and when it is
\* given up the gateway closes the session of every lane.
TunnelMovesOn == []<>LanesSettled
=============================================================================
