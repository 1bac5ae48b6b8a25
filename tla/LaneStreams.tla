----------------------------- MODULE LaneStreams -----------------------------
(***************************************************************************)
(* The data path of HTTP/2 lanes that are up: the upload queue of a lane   *)
(* (porta-client tunnel/h2_queue.rs) and the task that empties it, the     *)
(* gateway's tunnel loop, which reads uploads and writes downloads in one  *)
(* task (porta-server transport/http2.rs, run_tunnel), and on the way back *)
(* download_lane and merge_downstream (porta-client tunnel/h2.rs).         *)
(*                                                                         *)
(* Uploads use one lane, UpLane: the lanes' queues have nothing in common. *)
(* Downloads use every lane.  A packet is its class, its size and the time *)
(* it was queued; a task that holds a packet or a chunk for a full channel *)
(* is counted in that channel.                                             *)
(***************************************************************************)
EXTENDS Naturals, Sequences, FiniteSets, SequencesExt, FiniteSetsExt

CONSTANTS LaneCount,       \* lanes, lane 0 the control lane
          UpLane,          \* the lane the uploads use
          Sizes,           \* packet sizes
          MaxAge,          \* by class: how long a packet may wait
          QueuePackets, QueueBytes,   \* limits of the upload queue
          BatchPackets, BatchBytes,   \* limits of an upload batch
          StreamPackets,   \* packets a stream has room for
          ResponseChunks,  \* capacity of the gateway's response queue
          ChannelPackets,  \* capacity of downstream and inbound channels
          ControlBurst,    \* control packets merged ahead of waiting data
          Loads,           \* bounds: packets up, packets down, reconnects
          MaxTime          \* bound: clock

Lanes == 0 .. LaneCount - 1
Classes == {"tcp", "datagram", "control"}

VARIABLES
  now,      \* the clock
  queue,    \* the upload queue: its items, its byte count, whether active
  waker,    \* the uploader's wait on the queue's Notify
  up,       \* packets in the upload stream
  out,      \* by lane: chunks in the response queue and in the stream
  down,     \* by lane: packets in the downstream channel
  merge,    \* the merger
  inbound,  \* packets the application has still to receive
  left      \* bounds

vars == <<now, queue, waker, up, out, down, merge, inbound, left>>

EmptyQueue(active) == [items |-> <<>>, bytes |-> 0, active |-> active]

Init ==
  /\ now = 0
  /\ queue = EmptyQueue(TRUE)
  /\ waker = "running"
  /\ up = 0
  /\ out = [l \in Lanes |-> 0]
  /\ down = [l \in Lanes |-> 0]
  /\ merge = [pc |-> "taking", permit |-> FALSE, budget |-> ControlBurst,
              next |-> 1, streak |-> 0]
  /\ inbound = 0
  /\ \E load \in Loads :
       left = [up |-> load[1], down |-> load[2], drops |-> load[3]]

-----------------------------------------------------------------------------
(* UploadQueue.                                                            *)

RECURSIVE SizeOf(_)
SizeOf(items) == IF items = <<>> THEN 0
                 ELSE Head(items).size + SizeOf(Tail(items))
\* A mutant: a victim leaves its bytes behind in the count.
WithoutCounting(q, i) == [q EXCEPT !.items = RemoveAt(@, i)]

\* A packet leaves the queue and the count of its bytes.
Without(q, i) == [q EXCEPT !.items = RemoveAt(@, i),
                           !.bytes = @ - q.items[i].size]
FirstOf(S) == CHOOSE i \in S : \A j \in S : i <= j

\* drop_expired_locked, which every operation on the queue begins with.
Live(q) ==
  LET items == SelectSeq(q.items, LAMBDA p : now - p.at < MaxAge[p.class])
  IN [q EXCEPT !.items = items, !.bytes = SizeOf(items)]

HasRoom(q, size) == /\ Len(q.items) < QueuePackets
                    /\ q.bytes + size <= QueueBytes

\* oldest_replaceable_locked: the oldest datagram; for a control packet, the
\* oldest control packet after that.
Victims(q, class) ==
  LET ofClass(c) == {i \in DOMAIN q.items : q.items[i].class = c}
  IN IF ofClass("datagram") # {} THEN ofClass("datagram")
     ELSE IF class = "control" THEN ofClass("control") ELSE {}

\* enqueue's loop: victims go, oldest first, until the packet has room or
\* there is no victim left.
RECURSIVE MakeRoom(_, _, _)
MakeRoom(q, class, size) ==
  IF HasRoom(q, size) \/ Victims(q, class) = {} THEN q
  ELSE MakeRoom(Without(q, FirstOf(Victims(q, class))), class, size)

\* ready.notify_one(): wakes the uploader, or leaves it a permit.
NotifyOne(w) == IF w = "parked" THEN "running" ELSE "permit"

\* A mutant: the uploader is woken only by a packet that fills the queue.
NotifyWhenFull(q) == Len(q.items) + 1 = QueuePackets

\* The uploader is woken by the packet that ends the emptiness it waits on.
NotifyWhen(q) == q.items = <<>>

Enqueue(class, size) ==
  /\ left.up > 0
  /\ queue.active
  /\ left' = [left EXCEPT !.up = @ - 1]
  /\ LET live == Live(queue)
         room == MakeRoom(live, class, size)
     IN IF size > QueueBytes \/ ~HasRoom(room, size)
          THEN /\ queue' = IF size > QueueBytes THEN live ELSE room
               /\ UNCHANGED waker
          ELSE /\ queue' = [room EXCEPT
                    !.items = Append(@, [class |-> class, size |-> size,
                                         at |-> now]),
                    !.bytes = @ + size]
               /\ waker' = IF NotifyWhen(room) THEN NotifyOne(waker) ELSE waker
  /\ UNCHANGED <<now, up, out, down, merge, inbound>>

\* take_batch: how many packets from the front make the next batch.
BatchSize(items) ==
  LET fits(n) == n = 1 \/ SizeOf(SubSeq(items, 1, n)) <= BatchBytes
  IN Max({n \in 1 .. Len(items) : n <= BatchPackets /\ fits(n)})

\* upload_lane: the next batch goes into the stream, or the uploader waits.
Upload ==
  /\ queue.active
  /\ waker # "parked"
  /\ LET live == Live(queue)
         n == BatchSize(live.items)
     IN IF live.items = <<>>
          THEN /\ queue' = live
               /\ waker' = IF waker = "permit" THEN "running" ELSE "parked"
               /\ UNCHANGED up
          ELSE /\ up < StreamPackets
               /\ queue' = [live EXCEPT
                    !.items = SubSeq(@, n + 1, Len(@)),
                    !.bytes = @ - SizeOf(SubSeq(live.items, 1, n))]
               /\ up' = up + n
               /\ UNCHANGED waker
  /\ UNCHANGED <<now, out, down, merge, inbound, left>>

\* Group::deactivate and, on the next connection, Group::activate.
Disconnect ==
  /\ queue.active
  /\ left.drops > 0
  /\ left' = [left EXCEPT !.drops = @ - 1]
  /\ queue' = EmptyQueue(FALSE)
  /\ up' = 0
  /\ out' = [out EXCEPT ![UpLane] = 0]
  /\ UNCHANGED <<now, waker, down, merge, inbound>>

Reconnect ==
  /\ ~queue.active
  /\ queue' = [queue EXCEPT !.active = TRUE]
  /\ waker' = IF waker = "parked" THEN "running" ELSE waker
  /\ UNCHANGED <<now, up, out, down, merge, inbound, left>>

-----------------------------------------------------------------------------
(* The gateway's loop for a lane: run_tunnel.                              *)

\* send_output waits for room in the response queue, and the loop with it.
Writing(l) == out[l] > ResponseChunks

\* consume_uploads: the packet goes to the router.
ServeUpload ==
  /\ ~Writing(UpLane)
  /\ up > 0
  /\ up' = up - 1
  /\ UNCHANGED <<now, queue, waker, out, down, merge, inbound, left>>

\* A packet, or the keepalive, becomes the next chunk.
ServeDownload(l) ==
  /\ l = UpLane => queue.active
  /\ ~Writing(l)
  /\ left.down > 0
  /\ left' = [left EXCEPT !.down = @ - 1]
  /\ out' = [out EXCEPT ![l] = @ + 1]
  /\ UNCHANGED <<now, queue, waker, up, down, merge, inbound>>

-----------------------------------------------------------------------------
(* The way back: download_lane and merge_downstream.                       *)

\* download_ready.notify_one().
Ready(m) == IF m.pc = "parked" THEN [m EXCEPT !.pc = "taking"]
                               ELSE [m EXCEPT !.permit = TRUE]

Download(l) ==
  /\ out[l] > 0
  /\ down[l] < ChannelPackets
  /\ out' = [out EXCEPT ![l] = @ - 1]
  /\ down' = [down EXCEPT ![l] = @ + 1]
  /\ merge' = Ready(merge)
  /\ UNCHANGED <<now, queue, waker, up, inbound, left>>

\* take_downstream: control packets while their burst lasts, then the data
\* lanes in turn, then control packets again.
Turn(m, offset) == 1 + ((m.next - 1 + offset) % (LaneCount - 1))
WaitingTurns == {o \in 0 .. LaneCount - 2 : down[Turn(merge, o)] > 0}

\* A mutant: data only when there is nothing for the control lane.
ControlFirst ==
  IF down[0] > 0 THEN {0}
  ELSE {Turn(merge, o) : o \in WaitingTurns}

TakenLane ==
  CASE merge.budget > 0 /\ down[0] > 0 -> {0}
    [] WaitingTurns # {} -> {Turn(merge, FirstOf(WaitingTurns))}
    [] down[0] > 0 -> {0}
    [] OTHER -> {}

\* streak counts the control packets merged in a row past waiting data.
Merged(m, l) ==
  IF l = 0
    THEN [m EXCEPT !.budget = IF @ = 0 THEN 0 ELSE @ - 1,
                   !.streak = IF WaitingTurns = {} THEN 0 ELSE @ + 1,
                   !.pc = "taking"]
    ELSE [m EXCEPT !.budget = ControlBurst, !.streak = 0, !.pc = "taking",
                   !.next = 1 + (l % (LaneCount - 1))]

\* The merger looks, arms its notification, looks again and only then waits.
Merge ==
  /\ merge.pc \in {"taking", "armed"}
  /\ \/ /\ inbound < ChannelPackets
        /\ \E l \in TakenLane :
             /\ inbound' = inbound + 1
             /\ down' = [down EXCEPT ![l] = @ - 1]
             /\ merge' = Merged(merge, l)
     \/ /\ TakenLane = {}
        /\ merge' = CASE merge.pc = "taking" -> [merge EXCEPT !.pc = "armed"]
                      [] merge.permit ->
                           [merge EXCEPT !.pc = "taking", !.permit = FALSE]
                      [] OTHER -> [merge EXCEPT !.pc = "parked"]
        /\ UNCHANGED <<inbound, down>>
  /\ UNCHANGED <<now, queue, waker, up, out, left>>

\* The application receives.
Receive ==
  /\ inbound > 0
  /\ inbound' = inbound - 1
  /\ UNCHANGED <<now, queue, waker, up, out, down, merge, left>>

Tick ==
  /\ now < MaxTime
  /\ now' = now + 1
  /\ UNCHANGED <<queue, waker, up, out, down, merge, inbound, left>>

-----------------------------------------------------------------------------
Next ==
  \/ \E class \in Classes, size \in Sizes : Enqueue(class, size)
  \/ Upload \/ Disconnect \/ Reconnect
  \/ ServeUpload
  \/ \E l \in Lanes : ServeDownload(l) \/ Download(l)
  \/ Merge \/ Receive
  \/ Tick

Spec == Init /\ [][Next]_vars

(***************************************************************************)
(* The tasks run, the application keeps receiving, and a lane that was     *)
(* lost is dialed again.                                                   *)
(***************************************************************************)
Task(t) ==
  \/ t = "upload" /\ Upload
  \/ t = "serve" /\ ServeUpload
  \/ t = "reconnect" /\ Reconnect
  \/ t = "merge" /\ Merge
  \/ t = "receive" /\ Receive

Tasks == {"upload", "serve", "reconnect", "merge", "receive"}

FairSpec ==
  /\ Spec
  /\ \A t \in Tasks : WF_vars(Task(t))
  /\ \A l \in Lanes : WF_vars(Download(l))

-----------------------------------------------------------------------------
(* Properties.                                                             *)

\* No more than a burst of control packets is merged past a waiting data
\* packet, whatever came before (take_downstream's budget).
ControlYields == merge.streak <= ControlBurst

\* The upload queue stays within its limits, counts its bytes, and keeps its
\* packets in the order they came, whatever was evicted or expired.
UploadQueueIsSound ==
  /\ Len(queue.items) <= QueuePackets
  /\ queue.bytes <= QueueBytes
  /\ queue.bytes = SizeOf(queue.items)
  /\ \A i, j \in DOMAIN queue.items : i < j => queue.items[i].at <= queue.items[j].at

Drained == queue.items = <<>> /\ up = 0 /\ \A l \in Lanes : down[l] = 0

\* Under a bounded load everything gets through: no task sleeps through the
\* packets it waits for, and the gateway's one loop, held up by a slow
\* reader, reads on once the application has received (ready,
\* download_ready, send_output).
StreamsDrain == []<>Drained
=============================================================================
