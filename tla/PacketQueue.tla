----------------------------- MODULE PacketQueue -----------------------------
(***************************************************************************)
(* The queue between the router and one tunnel                             *)
(* (porta-server/src/data/queue.rs).  Its mutex makes enqueue and dequeue  *)
(* single steps.  close() publishes and notifies after the mutex, and      *)
(* recv() arms a notification, looks, asks whether the queue is closed and *)
(* waits: four points between which the others run.                        *)
(*                                                                         *)
(* The router's task is the only producer and the transport's task the     *)
(* only receiver.  The receiver's future is dropped whenever another       *)
(* branch of its select! is taken.                                         *)
(***************************************************************************)
EXTENDS Integers, Sequences, FiniteSets, SequencesExt, FiniteSetsExt, Functions

CONSTANTS Packets,        \* the shapes of packets that arrive
          QueueConfigs,   \* the configurations of lanes and of CONNECT-IP tunnels
          MaxSent,        \* a bound: packets that arrive
          MaxTime         \* a bound: ticks of the clock

Classes == {"tcp", "datagram", "control"}

Shapes == [valid : BOOLEAN, protocol : STRING, has_ports : BOOLEAN, dns : BOOLEAN,
           ack_only : BOOLEAN, small : BOOLEAN, size : Nat]

ASSUME QueueAssumption ==
  /\ Packets \subseteq Shapes
  /\ QueueConfigs \subseteq
       [max_packets : Nat \ {0}, max_bytes : Nat \ {0},
        max_age : [Classes -> Nat],       \* ticks until a packet is stale, 0 for never
        policy : {"class_aware", "drop_oldest"}]
  /\ MaxSent \in Nat /\ MaxTime \in Nat

VARIABLES config,
          items, bytes, closed,     \* QueueState
          queued_bytes,             \* the published load
          gauge,                    \* what the metrics were told in sum
          permit,                   \* Notify: a stored notification
          receiver,                 \* the progress of recv and its notification
          closing,                  \* the progress of close
          clock, sent,
          delivered                 \* the last packet that was handed out

state_vars == <<items, bytes, queued_bytes, gauge>>
queue_vars == <<config, state_vars, closed, permit, receiver, closing, clock, sent, delivered>>
----------------------------------------------------------------------------
(* classify_ipv4: the shape of a packet to its class. *)
classify(packet) ==
  CASE ~packet.valid -> "datagram"
    [] packet.valid /\ packet.protocol = "icmp" -> "control"
    [] packet.valid /\ packet.protocol = "tcp" ->
         IF packet.has_ports /\ (packet.dns \/ packet.ack_only) THEN "control" ELSE "tcp"
    [] packet.valid /\ packet.protocol = "udp" ->
         IF packet.has_ports /\ (packet.dns \/ packet.small) THEN "control" ELSE "datagram"
    [] OTHER -> "datagram"

Bytes(queue) == SumFunction([i \in DOMAIN queue |-> queue[i].size])

fits(queue, size) == Len(queue) < config.max_packets /\ Bytes(queue) + size <= config.max_bytes

Fresh(item, now) == config.max_age[item.class] = 0 \/ now - item.enqueued < config.max_age[item.class]

(* What is left of a queue, in its order, without some of its positions. *)
Without(queue, victims) ==
  LET kept == DOMAIN queue \ victims
  IN IF victims = {} THEN queue
     ELSE [k \in 1 .. Cardinality(kept) |->
             queue[CHOOSE i \in kept : Cardinality({j \in kept : j <= i}) = k]]

drop_expired(now) == Without(items, {i \in DOMAIN items : ~Fresh(items[i], now)})

(* A mutant: control packets make way for everybody. *)
ReplaceControlToo(queue, class) ==
  {i \in DOMAIN queue : queue[i].class # "tcp" \/ config.policy = "drop_oldest"}

(* oldest_replaceable, applied until it finds nothing: who may be dropped   *)
(* for a packet of the class.                                               *)
Replaceable(queue, class) ==
  {i \in DOMAIN queue :
     \/ config.policy = "drop_oldest"
     \/ queue[i].class = "datagram"
     \/ queue[i].class = "control" /\ class = "control"}

(* Datagrams go before control packets, and the older before the newer. *)
GoesFirst(queue, i, j) ==
  IF config.policy = "drop_oldest" \/ queue[i].class = queue[j].class
  THEN i < j ELSE queue[i].class = "datagram"

(* The queues that the loop of enqueue_at passes through: n packets have    *)
(* been dropped.                                                            *)
Victims(queue, class, n) ==
  LET replaceable == Replaceable(queue, class)
  IN {i \in replaceable : Cardinality({j \in replaceable : GoesFirst(queue, j, i)}) < n}

AfterEvicting(queue, class, n) == Without(queue, Victims(queue, class, n))

(* Every removal and every append updates the count, publishes it and tells *)
(* the metrics the difference.                                              *)
Becomes(queue) ==
  LET delta == Bytes(queue) - Bytes(items)
  IN /\ items' = queue
     /\ bytes' = bytes + delta
     /\ queued_bytes' = IF queue = items THEN queued_bytes ELSE bytes + delta
     /\ gauge' = gauge + delta

(* Notify::notify_one: a registered waiter, or else the permit. *)
Notified == receiver.ready = "registered"

notify_one ==
  IF Notified
  THEN receiver' = [receiver EXCEPT !.ready = "one"] /\ UNCHANGED permit
  ELSE permit' = TRUE /\ UNCHANGED receiver

Item(packet) ==
  [class |-> classify(packet), size |-> packet.size, enqueued |-> clock, id |-> sent + 1]

QueueInit ==
  /\ config \in QueueConfigs
  /\ items = <<>> /\ bytes = 0 /\ closed = FALSE
  /\ queued_bytes = 0 /\ gauge = 0
  /\ permit = FALSE
  /\ receiver = [pc |-> "idle", ready |-> "none"]
  /\ closing = [pc |-> "open", removed |-> 0]
  /\ clock = 0 /\ sent = 0 /\ delivered = 0
----------------------------------------------------------------------------
(* Mutants of enqueue_at: the oldest is overwritten without a look at the   *)
(* bytes; whether the queue was empty is asked after the packet was added.  *)
EnqueueOverwrites(packet) ==
  /\ ~closed
  /\ sent < MaxSent
  /\ LET fresh == drop_expired(clock)
         rest  == IF Len(fresh) < config.max_packets THEN fresh ELSE Tail(fresh)
     IN /\ Becomes(Append(rest, Item(packet)))
        /\ IF rest = <<>> THEN notify_one ELSE UNCHANGED <<permit, receiver>>
  /\ sent' = sent + 1
  /\ UNCHANGED <<config, closed, closing, clock, delivered>>

(* A mutant: whether to notify is asked once the packet is in the queue. *)
EnqueueAsksTooLate(packet) ==
  /\ ~closed
  /\ sent < MaxSent
  /\ LET class  == classify(packet)
         fresh  == drop_expired(clock)
         most   == Cardinality(Replaceable(fresh, class))
         enough == {n \in 0 .. most : fits(AfterEvicting(fresh, class, n), packet.size)}
         rest   == AfterEvicting(fresh, class, IF enough = {} THEN most ELSE Min(enough))
     IN IF enough = {}
        THEN Becomes(rest) /\ UNCHANGED <<permit, receiver>>
        ELSE /\ Becomes(Append(rest, Item(packet)))
             /\ UNCHANGED <<permit, receiver>>
  /\ sent' = sent + 1
  /\ UNCHANGED <<config, closed, closing, clock, delivered>>

(* enqueue_at: stale packets go first, then as many replaceable ones as the *)
(* new packet needs.  When even all of them do not make room the packet is  *)
(* dropped, and they are gone all the same.                                 *)
enqueue(packet) ==
  /\ ~closed
  /\ sent < MaxSent
  /\ LET class  == classify(packet)
         fresh  == drop_expired(clock)
         most   == Cardinality(Replaceable(fresh, class))
         enough == {n \in 0 .. most : fits(AfterEvicting(fresh, class, n), packet.size)}
         rest   == AfterEvicting(fresh, class, IF enough = {} THEN most ELSE Min(enough))
     IN IF enough = {}
        THEN Becomes(rest) /\ UNCHANGED <<permit, receiver>>
        ELSE /\ Becomes(Append(rest, Item(packet)))
             /\ IF rest = <<>> THEN notify_one ELSE UNCHANGED <<permit, receiver>>
  /\ sent' = sent + 1
  /\ UNCHANGED <<config, closed, closing, clock, delivered>>

Finds(now) == ~closed /\ drop_expired(now) # <<>>

(* A mutant: the newest packet is handed out. *)
DequeueNewest(now) ==
  LET fresh == drop_expired(now)
  IN IF closed \/ fresh = <<>>
     THEN Becomes(IF closed THEN items ELSE fresh) /\ UNCHANGED delivered
     ELSE Becomes(Front(fresh)) /\ delivered' = Last(fresh).id

(* dequeue_at.  The clock was read before the mutex was taken. *)
dequeue(now) ==
  LET fresh == drop_expired(now)
  IN IF Finds(now)
     THEN Becomes(Tail(fresh)) /\ delivered' = Head(fresh).id
     ELSE Becomes(IF closed THEN items ELSE fresh) /\ UNCHANGED delivered

ReadClock == {now \in {clock - 1, clock} : now >= 0}

(* The batching loops of the transports take what is there. *)
try_dequeue ==
  /\ receiver.pc = "idle"
  /\ \E now \in ReadClock : dequeue(now)
  /\ UNCHANGED <<config, closed, permit, receiver, closing, clock, sent>>

(* recv: a stored permit is taken, or else the waiter is registered. *)
recv ==
  /\ receiver.pc = "idle"
  /\ receiver' = [pc |-> "armed", ready |-> IF permit THEN "permit" ELSE "registered"]
  /\ permit' = FALSE
  /\ UNCHANGED <<config, state_vars, closed, closing, clock, sent, delivered>>

(* A notification that reached a waiter is passed on when the waiter is     *)
(* dropped unread: nobody else waits, so it is stored.                      *)
DropReady(pc) ==
  /\ receiver' = [pc |-> pc, ready |-> "none"]
  /\ permit' = (permit \/ receiver.ready = "one")

RecvDequeue ==
  /\ receiver.pc = "armed"
  /\ \E now \in ReadClock :
       /\ dequeue(now)
       /\ IF Finds(now)
          THEN DropReady("idle")
          ELSE receiver' = [receiver EXCEPT !.pc = "empty"] /\ UNCHANGED permit
  /\ UNCHANGED <<config, closed, closing, clock, sent>>

RecvClosed ==
  /\ receiver.pc = "empty"
  /\ IF closed
     THEN DropReady("ended")
     ELSE receiver' = [receiver EXCEPT !.pc = "waiting"] /\ UNCHANGED permit
  /\ UNCHANGED <<config, state_vars, closed, closing, clock, sent, delivered>>

RecvWakes ==
  /\ receiver.pc = "waiting"
  /\ receiver.ready # "registered"
  /\ receiver' = [pc |-> "idle", ready |-> "none"]
  /\ UNCHANGED <<config, state_vars, closed, permit, closing, clock, sent, delivered>>

(* Another branch of the receiver's select! is taken. *)
RecvDropped ==
  /\ receiver.pc = "waiting"
  /\ DropReady("idle")
  /\ UNCHANGED <<config, state_vars, closed, closing, clock, sent, delivered>>

close ==
  /\ ~closed
  /\ closed' = TRUE
  /\ items' = <<>> /\ bytes' = 0
  /\ closing' = [pc |-> "locked", removed |-> bytes]
  /\ UNCHANGED <<config, queued_bytes, gauge, permit, receiver, clock, sent, delivered>>

ClosePublishes ==
  /\ closing.pc = "locked"
  /\ queued_bytes' = 0
  /\ gauge' = gauge - closing.removed
  /\ closing' = [closing EXCEPT !.pc = "published"]
  /\ UNCHANGED <<config, items, bytes, closed, permit, receiver, clock, sent, delivered>>

notify_waiters ==
  /\ closing.pc = "published"
  /\ closing' = [closing EXCEPT !.pc = "announced"]
  /\ receiver' = IF Notified THEN [receiver EXCEPT !.ready = "all"] ELSE receiver
  /\ UNCHANGED <<config, state_vars, closed, permit, clock, sent, delivered>>

CloseNotifies ==
  /\ closing.pc = "announced"
  /\ closing' = [closing EXCEPT !.pc = "done"]
  /\ notify_one
  /\ UNCHANGED <<config, state_vars, closed, clock, sent, delivered>>

Tick ==
  /\ clock < MaxTime
  /\ clock' = clock + 1
  /\ UNCHANGED <<config, state_vars, closed, permit, receiver, closing, sent, delivered>>

Receive == recv \/ RecvDequeue \/ RecvClosed \/ RecvWakes
Closing == ClosePublishes \/ notify_waiters \/ CloseNotifies

QueueNext ==
  \/ \E packet \in Packets : enqueue(packet)
  \/ try_dequeue \/ Receive \/ RecvDropped
  \/ close \/ Closing \/ Tick

QueueSpec == QueueInit /\ [][QueueNext]_queue_vars

(* The receiver's task and the closing task are polled; the receiver calls  *)
(* recv again and again.                                                    *)
FairQueueSpec == QueueSpec /\ WF_queue_vars(Receive) /\ WF_queue_vars(Closing)
----------------------------------------------------------------------------
QueuedPacket == [class : Classes, size : Nat, enqueued : Nat, id : Nat]

QueueTypeOK ==
  /\ config \in QueueConfigs
  /\ items \in Seq(QueuedPacket)
  /\ bytes \in Nat /\ queued_bytes \in Nat /\ gauge \in Nat
  /\ closed \in BOOLEAN /\ permit \in BOOLEAN
  /\ receiver \in [pc : {"idle", "armed", "empty", "waiting", "ended"},
                   ready : {"none", "permit", "registered", "one", "all"}]
  /\ closing \in [pc : {"open", "locked", "published", "announced", "done"}, removed : Nat]
  /\ clock \in 0 .. MaxTime /\ sent \in 0 .. MaxSent /\ delivered \in 0 .. MaxSent

(* Whatever mixture of sizes and classes arrives, the queue holds at most   *)
(* max_packets packets and max_bytes bytes, and what it reports to the lane *)
(* selection and to the metrics is what it holds: exactly, except while     *)
(* close() is between its lock and its stores.                              *)
WithinBounds ==
  /\ Len(items) <= config.max_packets
  /\ bytes = Bytes(items) /\ bytes <= config.max_bytes
  /\ closing.pc # "locked" => queued_bytes = bytes /\ gauge = bytes

(* The state has its types: no count underflows, and none exceeds a bound.  *)
QueueIsSound == QueueTypeOK /\ WithinBounds

(* A receiver that waits without a notification has nothing to receive, and *)
(* close() has not finished without waking it.  Only a packet that finds    *)
(* the queue empty announces itself, so one that is missed, between the     *)
(* receiver's look and its wait or in a dropped future, would strand every  *)
(* packet after it.                                                         *)
NoLostWakeup ==
  (receiver.pc = "waiting" /\ receiver.ready = "registered")
    => items = <<>> /\ closing.pc # "done"

(* Dropping from the middle never reorders: packets leave in the order in   *)
(* which they came, and none twice.                                         *)
OrderKept ==
  /\ \A i, j \in DOMAIN items : i < j => items[i].id < items[j].id
  /\ \A i \in DOMAIN items : delivered < items[i].id

(* The queue keeps its bounds, its accounts and its order. *)
QueueIsOrdered == QueueIsSound /\ OrderKept

(* "preserve queued TCP prefixes": a queued TCP packet leaves only to the   *)
(* receiver, by age, or with the queue, and a control packet makes way only *)
(* for a control packet.                                                    *)
PreferredStay ==
  [][config.policy = "class_aware" =>
       \A i \in DOMAIN items :
         LET gone == \A j \in DOMAIN items' : items'[j].id # items[i].id
         IN (gone /\ Fresh(items[i], clock) /\ ~closed' /\ delivered' # items[i].id)
              => \E packet \in Packets :
                   /\ enqueue(packet)
                   /\ \/ items[i].class = "datagram"
                      \/ items[i].class = "control" /\ classify(packet) = "control"]_queue_vars

(* A queued packet does not wait for a later one: the receiver leaves its   *)
(* wait, however often it is dropped and armed again.                       *)
Attended == receiver.pc = "waiting" => items = <<>>
WaitingEnds == []<>Attended
============================================================================
