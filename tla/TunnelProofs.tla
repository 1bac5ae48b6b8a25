---------------------------- MODULE TunnelProofs ----------------------------
(***************************************************************************)
(* Proofs about the packet queue of a session, about the address pool,     *)
(* about the tunnels over both, and about the flow table of the router,    *)
(* for every set of clients, groups and handles, every pool size, every    *)
(* queue configuration, every mixture of packets, every bound on the       *)
(* generations, every set of flows, number of lanes and table size.        *)
(*                                                                         *)
(* The queue: the receiver never waits for what is already there; the      *)
(* queue keeps its bounds, its counts and its order; and who makes way for *)
(* whom.  The last two rest on what a part of a queue is: the same packets *)
(* in the same order with places left out.                                 *)
(*                                                                         *)
(* The tunnels: they keep to their leases and routes, and a reconnect is   *)
(* never undone by what it replaced.  That rests on the pool's invariant,  *)
(* since every step of a tunnel is a step of the pool or leaves it alone.  *)
(*                                                                         *)
(* The flow table: the chained entries are a list of the flows seen last,  *)
(* and a packet finds the lane of its flow while that lane lives.          *)
(***************************************************************************)
EXTENDS PacketQueue, Tunnel, FlowTable, FiniteSums

ReceiverType == [pc : {"idle", "armed", "empty", "waiting", "ended"},
                 ready : {"none", "permit", "registered", "one", "all"}]
ClosingSteps == {"open", "locked", "published", "announced", "done"}

(* Whoever looked after registering saw an empty queue, and every packet    *)
(* since has announced itself; whoever waits asked before close() began to  *)
(* announce.                                                                *)
WakeupInv ==
  /\ receiver \in ReceiverType
  /\ closing = [pc |-> closing.pc, removed |-> closing.removed]
  /\ closing.pc \in ClosingSteps
  /\ closed \in BOOLEAN
  /\ closed <=> closing.pc # "open"
  /\ closed => items = <<>>
  /\ (receiver.ready = "registered" /\ receiver.pc \in {"empty", "waiting"}) => items = <<>>
  /\ (receiver.ready = "registered" /\ receiver.pc = "waiting")
       => closing.pc \in {"open", "locked", "published"}

(* Removing from the empty queue leaves the empty queue.                    *)
LEMMA WithoutFromEmpty ==
  ASSUME NEW victims
  PROVE  Without(<<>>, victims) = <<>>
<1>1. DOMAIN <<>> \ victims = {}
  OBVIOUS
<1>2. Cardinality({}) = 0
  BY FS_EmptySet
<1>3. CASE victims = {}
  BY <1>3 DEF Without
<1>4. CASE victims # {}
  <2>1. 1 .. Cardinality(DOMAIN <<>> \ victims) = {}
    BY <1>1, <1>2
  <2> QED
    BY <1>4, <2>1 DEF Without
<1> QED
  BY <1>3, <1>4

(* The wake-up invariant holds at first and is kept by every step.          *)
LEMMA WakeupInductive ==
  /\ QueueInit => WakeupInv
  /\ WakeupInv /\ [QueueNext]_queue_vars => WakeupInv'
<1>1. ASSUME QueueInit
      PROVE  WakeupInv
  <2>1. closed = FALSE /\ items = <<>>
    BY <1>1 DEF QueueInit
  <2>2. receiver = [pc |-> "idle", ready |-> "none"] /\ closing = [pc |-> "open", removed |-> 0]
    BY <1>1 DEF QueueInit
  <2>3. closing.pc = "open" /\ receiver.ready = "none" /\ receiver \in ReceiverType
    BY <2>2 DEF ReceiverType
  <2>4. closing = [pc |-> closing.pc, removed |-> closing.removed]
    BY <2>2
  <2> QED
    BY <2>1, <2>3, <2>4 DEF WakeupInv, ClosingSteps
<1>2. ASSUME WakeupInv, [QueueNext]_queue_vars
      PROVE  WakeupInv'
  <2> USE <1>2 DEF WakeupInv, ReceiverType, ClosingSteps
  <2>1. ASSUME NEW packet \in Packets, enqueue(packet)
        PROVE  WakeupInv'
    <3>0. ~closed /\ closing' = closing /\ closed' = closed
      BY <2>1 DEF enqueue
    <3>1. CASE items = <<>>
      <4>1. drop_expired(clock) = <<>>
        BY <3>1, WithoutFromEmpty DEF drop_expired
      <4>2. \A c, n : AfterEvicting(<<>>, c, n) = <<>>
        BY WithoutFromEmpty DEF AfterEvicting
      <4>3. \/ items' = <<>> /\ UNCHANGED <<permit, receiver>>
            \/ notify_one
        BY <2>1, <4>1, <4>2 DEF enqueue, Becomes
      <4> QED
        BY <3>0, <4>3 DEF notify_one, Notified
    <3>2. CASE items # <<>>
      <4>1. UNCHANGED receiver \/ notify_one
        BY <2>1 DEF enqueue
      <4> QED
        BY <3>0, <3>2, <4>1 DEF notify_one, Notified
    <3> QED
      BY <3>1, <3>2
  <2>2. ASSUME NEW now, dequeue(now), closed' = closed
        PROVE  /\ closed => items' = <<>>
               /\ items = <<>> => items' = <<>>
               /\ ~Finds(now) => items' = <<>>
    <3>1. items = <<>> => drop_expired(now) = <<>>
      BY WithoutFromEmpty DEF drop_expired
    <3> QED
      BY <2>2, <3>1 DEF dequeue, Finds, Becomes
  <2>3. CASE try_dequeue
    BY <2>3, <2>2 DEF try_dequeue
  <2>4. CASE recv
    BY <2>4 DEF recv, state_vars
  <2>5. CASE RecvDequeue
    <3>1. PICK now \in ReadClock :
            /\ dequeue(now)
            /\ IF Finds(now)
               THEN DropReady("idle")
               ELSE receiver' = [receiver EXCEPT !.pc = "empty"] /\ UNCHANGED permit
      BY <2>5 DEF RecvDequeue
    <3>2. closed' = closed /\ closing' = closing
      BY <2>5 DEF RecvDequeue
    <3>3. (closed => items' = <<>>) /\ (~Finds(now) => items' = <<>>)
      BY <3>1, <3>2, <2>2
    <3> QED
      BY <3>1, <3>2, <3>3 DEF DropReady
  <2>6. CASE RecvClosed
    BY <2>6 DEF RecvClosed, DropReady, state_vars
  <2>7. CASE RecvWakes
    BY <2>7 DEF RecvWakes, state_vars
  <2>8. CASE RecvDropped
    BY <2>8 DEF RecvDropped, DropReady, state_vars
  <2>9. CASE close
    BY <2>9 DEF close
  <2>10. CASE ClosePublishes
    BY <2>10 DEF ClosePublishes
  <2>11. CASE notify_waiters
    BY <2>11 DEF notify_waiters, Notified, state_vars
  <2>12. CASE CloseNotifies
    BY <2>12 DEF CloseNotifies, notify_one, Notified, state_vars
  <2>13. CASE Tick
    BY <2>13 DEF Tick, state_vars
  <2>14. CASE UNCHANGED queue_vars
    BY <2>14 DEF queue_vars, state_vars
  <2> QED
    BY <2>1, <2>3, <2>4, <2>5, <2>6, <2>7, <2>8, <2>9, <2>10, <2>11, <2>12, <2>13, <2>14
    DEF QueueNext, Receive, Closing
<1> QED
  BY <1>1, <1>2

(* recv() of the packet queue loses no wake-up: when it waits unnotified    *)
(* the queue is empty and close() has not finished.                         *)
THEOREM NoWakeupIsLost == QueueSpec => []NoLostWakeup
<1>1. WakeupInv => NoLostWakeup
  BY DEF WakeupInv, NoLostWakeup
<1> QED
  BY <1>1, WakeupInductive, PTL DEF QueueSpec
----------------------------------------------------------------------------
(* Queues and parts of queues.                                              *)

(* r is q with some places left out.                                        *)
Thins(place, r, q) ==
  /\ place \in [DOMAIN r -> DOMAIN q]
  /\ \A k \in DOMAIN r : r[k] = q[place[k]]
  /\ \A k, l \in DOMAIN r : k < l => place[k] < place[l]

Sizes(q) == [i \in DOMAIN q |-> q[i].size]

(* The count of a queue is a sum over its places.                           *)
LEMMA BytesAreNatural ==
  ASSUME NEW q \in Seq(QueuedPacket)
  PROVE  /\ IsFiniteSet(DOMAIN q)
         /\ \A i \in DOMAIN q : Sizes(q)[i] \in Nat
         /\ Bytes(q) = SumFunctionOnSet(Sizes(q), DOMAIN q)
         /\ Bytes(q) \in Nat
<1>1. DOMAIN q = 1 .. Len(q) /\ Len(q) \in Nat  OBVIOUS
<1>2. IsFiniteSet(DOMAIN q)  BY <1>1, FS_Interval
<1>3. ASSUME NEW i \in DOMAIN q PROVE Sizes(q)[i] \in Nat
  <2>1. q[i] \in QueuedPacket  BY <1>3
  <2>2. q[i].size \in Nat  BY <2>1 DEF QueuedPacket
  <2> QED BY <2>2 DEF Sizes
<1>4. Bytes(q) = SumFunctionOnSet(Sizes(q), DOMAIN q)  BY DEF Bytes, SumFunction, Sizes
<1> HIDE DEF Sizes
<1> QED BY <1>2, <1>3, <1>4, SumIsNatural

(* An empty queue has no bytes.                                             *)
LEMMA BytesOfNothing ==  Bytes(<<>>) = 0
<1>1. Bytes(<<>>) = SumFunctionOnSet([i \in DOMAIN <<>> |-> <<>>[i].size], DOMAIN <<>>)
  BY DEF Bytes, SumFunction
<1>2. DOMAIN <<>> = {}  OBVIOUS
<1> QED BY <1>1, <1>2, SumOfNone

(* What one more packet adds.                                               *)
LEMMA BytesOfAppend ==
  ASSUME NEW q \in Seq(QueuedPacket), NEW item \in QueuedPacket
  PROVE  Bytes(Append(q, item)) = Bytes(q) + item.size
<1> DEFINE r == Append(q, item)
           last == Len(q) + 1
<1>1. /\ r \in Seq(QueuedPacket) /\ Len(q) \in Nat
      /\ DOMAIN q = 1 .. Len(q) /\ DOMAIN r = 1 .. last
      /\ r[last] = item /\ \A i \in DOMAIN q : r[i] = q[i]
  OBVIOUS
<1>2. DOMAIN r \ {last} = DOMAIN q /\ last \in DOMAIN r  BY <1>1
<1>3. Sizes(r)[last] = item.size /\ \A i \in DOMAIN q : Sizes(r)[i] = Sizes(q)[i]
  BY <1>1, <1>2 DEF Sizes
<1> HIDE DEF r, last, Sizes
<1>4. Bytes(r) = Sizes(r)[last] + SumFunctionOnSet(Sizes(r), DOMAIN r \ {last})
  BY <1>1, <1>2, BytesAreNatural, SumTakesOut
<1>5. SumFunctionOnSet(Sizes(r), DOMAIN q) = SumFunctionOnSet(Sizes(q), DOMAIN q)
  BY <1>3, BytesAreNatural, SumOfSame
<1>6. Bytes(q) = SumFunctionOnSet(Sizes(q), DOMAIN q) /\ Bytes(q) \in Nat  BY BytesAreNatural
<1>7. Bytes(r) = Bytes(q) + item.size
  BY <1>2, <1>3, <1>4, <1>5, <1>6 DEF QueuedPacket
<1> QED BY <1>7 DEF r

(* A part of a queue is one, no longer and no larger.                       *)
LEMMA ThinnedIsSmaller ==
  ASSUME NEW q \in Seq(QueuedPacket), NEW n \in Nat, NEW r, NEW place,
         DOMAIN r = 1 .. n, r = [k \in 1 .. n |-> r[k]], Thins(place, r, q)
  PROVE  /\ r \in Seq(QueuedPacket) /\ Len(r) = n
         /\ Len(r) <= Len(q)
         /\ Bytes(r) <= Bytes(q)
<1>1. \A k \in 1 .. n : r[k] \in QueuedPacket  BY DEF Thins
<1>2. r \in Seq(QueuedPacket) /\ Len(r) = n  BY <1>1
<1>3. \A k, l \in DOMAIN r : place[k] = place[l] => k = l  BY DEF Thins
<1>4. place \in [DOMAIN r -> DOMAIN q] /\ \A k \in DOMAIN r : Sizes(r)[k] = Sizes(q)[place[k]]
  BY DEF Thins, Sizes
<1>5. IsFiniteSet(DOMAIN r) /\ IsFiniteSet(DOMAIN q) /\ \A i \in DOMAIN q : Sizes(q)[i] \in Nat
  BY <1>2, BytesAreNatural
<1>6. Bytes(r) <= Bytes(q)
  <2> HIDE DEF Sizes
  <2>1. SumFunctionOnSet(Sizes(r), DOMAIN r) <= SumFunctionOnSet(Sizes(q), DOMAIN q)
    BY <1>3, <1>4, <1>5, SumOfPlaces
  <2> QED BY <2>1, <1>2, BytesAreNatural
<1>7. n <= Len(q)
  <2>1. place \in Injection(DOMAIN r, DOMAIN q)  BY <1>3, <1>4 DEF Injection, IsInjective
  <2>2. Cardinality(DOMAIN r) <= Cardinality(DOMAIN q)  BY <1>5, <2>1, FS_Injection
  <2>3. \A k \in Nat : Cardinality(1 .. k) = k  BY FS_Interval
  <2>4. DOMAIN q = 1 .. Len(q) /\ Len(q) \in Nat  OBVIOUS
  <2> QED BY <2>2, <2>3, <2>4
<1> QED BY <1>2, <1>6, <1>7

(* Without leaves a part of the queue, which has every place it was not     *)
(* told to leave out.                                                       *)
LEMMA WithoutThins ==
  ASSUME NEW q \in Seq(QueuedPacket), NEW victims
  PROVE  LET r == Without(q, victims)
         IN  /\ \E n \in Nat : DOMAIN r = 1 .. n /\ r = [k \in 1 .. n |-> r[k]]
             /\ \E place : /\ Thins(place, r, q)
                           /\ \A i \in DOMAIN q \ victims : \E k \in DOMAIN r : place[k] = i
<1> DEFINE r == Without(q, victims)
           kept == DOMAIN q \ victims
<1>1. DOMAIN q = 1 .. Len(q) /\ Len(q) \in Nat /\ DOMAIN q \in SUBSET Nat  OBVIOUS
<1>2. CASE victims = {}
  <2>1. r = q  BY <1>2 DEF Without
  <2> DEFINE place == [k \in DOMAIN q |-> k]
  <2>2. Thins(place, q, q) /\ \A i \in DOMAIN q \ victims : \E k \in DOMAIN q : place[k] = i
    BY <1>1 DEF Thins
  <2> HIDE DEF place
  <2> QED BY <1>1, <2>1, <2>2
<1>3. CASE victims # {}
  <2>1. kept \in SUBSET Nat /\ kept \subseteq DOMAIN q /\ IsFiniteSet(kept)
    BY <1>1, BytesAreNatural, FS_Subset
  <2> DEFINE n == Cardinality(kept)
             place == [k \in 1 .. n |-> Place(kept, k)]
  <2>2. r = [k \in 1 .. n |-> q[place[k]]]
    <3>1. r = [k \in 1 .. n |-> q[Place(kept, k)]]  BY <1>3 DEF Without, Place, UpTo
    <3> HIDE DEF kept, n, r
    <3> QED BY <3>1
  <2> HIDE DEF kept, r
  <2>3. n \in Nat  BY <2>1, PlacesAreNumbered
  <2>4. ASSUME NEW k \in 1 .. n PROVE place[k] \in kept /\ Cardinality(UpTo(kept, place[k])) = k
    <3>1. \E i \in kept : Cardinality(UpTo(kept, i)) = k  BY <2>1, PlacesAreNumbered
    <3>2. Place(kept, k) \in kept /\ Cardinality(UpTo(kept, Place(kept, k))) = k
      BY <3>1 DEF Place
    <3> HIDE DEF n
    <3> QED BY <3>2
  <2> HIDE DEF n, place
  <2>5. ASSUME NEW k \in 1 .. n, NEW l \in 1 .. n, k < l PROVE place[k] < place[l]
    <3>1. place[k] \in Nat /\ place[l] \in Nat  BY <2>1, <2>4
    <3>2. place[k] # place[l]  BY <2>3, <2>4, <2>5
    <3>3. ~(place[l] < place[k])
      <4>1. ASSUME place[l] < place[k] PROVE FALSE
        <5>1. Cardinality(UpTo(kept, place[l])) < Cardinality(UpTo(kept, place[k]))
          BY <2>1, <2>4, <4>1, PlacesAreNumbered
        <5> QED BY <2>3, <2>4, <2>5, <5>1
      <4> QED BY <4>1
    <3> QED BY <3>1, <3>2, <3>3
  <2>6. ASSUME NEW i \in kept PROVE \E k \in 1 .. n : place[k] = i
    <3> DEFINE k == Cardinality(UpTo(kept, i))
    <3>1. k \in 1 .. n  BY <2>1, PlacesAreNumbered DEF n
    <3>2. place[k] \in kept /\ Cardinality(UpTo(kept, place[k])) = k  BY <3>1, <2>4
    <3>3. i \in Nat /\ place[k] \in Nat /\ k \in Nat
      <4>1. \A x \in kept : x \in Nat  BY <2>1
      <4>2. \A x \in 1 .. n : x \in Nat  BY <2>3
      <4> HIDE DEF k
      <4> QED BY <4>1, <4>2, <3>1, <3>2
    <3>4. ~(i < place[k]) /\ ~(place[k] < i)
      <4>1. i < place[k] => k < k  BY <2>1, <3>2, PlacesAreNumbered
      <4>2. place[k] < i => k < k  BY <2>1, <3>2, PlacesAreNumbered
      <4> QED BY <3>3, <4>1, <4>2
    <3> HIDE DEF k
    <3> QED BY <3>1, <3>3, <3>4
  <2>7. place \in [1 .. n -> kept]  BY <2>4 DEF place
  <2>8. Thins(place, r, q) /\ DOMAIN r = 1 .. n /\ r = [k \in 1 .. n |-> r[k]]
    BY <2>1, <2>2, <2>5, <2>7 DEF Thins
  <2>9. \A i \in DOMAIN q \ victims : \E k \in DOMAIN r : place[k] = i  BY <2>6, <2>8 DEF kept
  <2> QED BY <2>3, <2>8, <2>9 DEF r
<1> QED BY <1>2, <1>3

(* The packets of q came in this order, after lo and up to hi.              *)
Ordered(q, lo, hi) ==
  /\ \A i, j \in DOMAIN q : i < j => q[i].id < q[j].id
  /\ \A i \in DOMAIN q : lo < q[i].id /\ q[i].id <= hi

(* r is a queue made of packets of q.                                       *)
PartOf(r, q) ==
  /\ r \in Seq(QueuedPacket)
  /\ Len(r) <= Len(q) /\ Bytes(r) <= Bytes(q)
  /\ \A lo, hi \in Nat : Ordered(q, lo, hi) => Ordered(r, lo, hi)

(* Leaving places out does not reorder.                                     *)
LEMMA ThinnedIsPart ==
  ASSUME NEW q \in Seq(QueuedPacket), NEW n \in Nat, NEW r, NEW place,
         DOMAIN r = 1 .. n, r = [k \in 1 .. n |-> r[k]], Thins(place, r, q)
  PROVE  PartOf(r, q)
<1>1. r \in Seq(QueuedPacket) /\ Len(r) <= Len(q) /\ Bytes(r) <= Bytes(q)
  BY ThinnedIsSmaller
<1>2. \A k \in DOMAIN r : place[k] \in DOMAIN q /\ r[k] = q[place[k]]  BY DEF Thins
<1>3. \A k, l \in DOMAIN r : k < l => place[k] < place[l]  BY DEF Thins
<1>4. ASSUME NEW lo \in Nat, NEW hi \in Nat, Ordered(q, lo, hi) PROVE Ordered(r, lo, hi)
  BY <1>2, <1>3, <1>4 DEF Ordered
<1> QED BY <1>1, <1>4 DEF PartOf

(* What Without leaves.                                                     *)
LEMMA WithoutIsPart ==
  ASSUME NEW q \in Seq(QueuedPacket), NEW victims
  PROVE  /\ PartOf(Without(q, victims), q)
         /\ \A i \in DOMAIN q \ victims :
              \E k \in DOMAIN Without(q, victims) : Without(q, victims)[k] = q[i]
<1> DEFINE r == Without(q, victims)
<1>1. PICK n \in Nat : DOMAIN r = 1 .. n /\ r = [k \in 1 .. n |-> r[k]]  BY WithoutThins
<1>2. PICK place : Thins(place, r, q) /\ \A i \in DOMAIN q \ victims : \E k \in DOMAIN r : place[k] = i
  BY WithoutThins
<1> HIDE DEF r
<1>3. PartOf(r, q)  BY <1>1, <1>2, ThinnedIsPart
<1>4. \A i \in DOMAIN q \ victims : \E k \in DOMAIN r : r[k] = q[i]  BY <1>2 DEF Thins
<1> QED BY <1>3, <1>4 DEF r

(* What is left when the first packet is taken.                             *)
LEMMA TailIsPart ==
  ASSUME NEW q \in Seq(QueuedPacket), q # <<>>
  PROVE  /\ PartOf(Tail(q), q)
         /\ Head(q) = q[1] /\ 1 \in DOMAIN q
         /\ \A i \in DOMAIN q \ {1} : \E k \in DOMAIN Tail(q) : Tail(q)[k] = q[i]
         /\ \A lo, hi \in Nat : Ordered(q, lo, hi) => Ordered(Tail(q), Head(q).id, hi)
<1> DEFINE r == Tail(q)
           n == Len(q) - 1
           place == [k \in 1 .. n |-> k + 1]
<1>1. /\ Len(q) \in Nat /\ DOMAIN q = 1 .. Len(q) /\ n \in Nat
      /\ DOMAIN r = 1 .. n /\ r = [k \in 1 .. n |-> q[k + 1]] /\ Head(q) = q[1]
  <2>1. Len(q) \in Nat /\ DOMAIN q = 1 .. Len(q) /\ Len(q) # 0  OBVIOUS
  <2>2. Len(r) = n /\ r \in Seq(QueuedPacket) /\ \A k \in 1 .. n : r[k] = q[k + 1]  BY <2>1
  <2>3. DOMAIN r = 1 .. n /\ r = [k \in 1 .. n |-> r[k]]
    <3> HIDE DEF r
    <3>1. DOMAIN r = 1 .. Len(r) /\ r \in [1 .. Len(r) -> QueuedPacket]  BY <2>2
    <3> QED BY <2>2, <3>1
  <2>4. Head(q) = q[1]  BY <2>1
  <2> QED BY <2>1, <2>2, <2>3, <2>4
<1>2. Thins(place, r, q) /\ r = [k \in 1 .. n |-> r[k]]  BY <1>1 DEF Thins
<1>3. PartOf(r, q)
  <2> HIDE DEF r, n, place
  <2> QED BY <1>1, <1>2, ThinnedIsPart
<1>4. ASSUME NEW i \in DOMAIN q \ {1} PROVE \E k \in DOMAIN r : r[k] = q[i]
  <2>1. i - 1 \in DOMAIN r /\ r[i - 1] = q[i]  BY <1>1
  <2> QED BY <2>1
<1>5. ASSUME NEW lo \in Nat, NEW hi \in Nat, Ordered(q, lo, hi) PROVE Ordered(r, q[1].id, hi)
  <2>1. Ordered(r, lo, hi)  BY <1>3, <1>5 DEF PartOf
  <2>2. ASSUME NEW k \in DOMAIN r PROVE q[1].id < r[k].id
    <3>1. 1 \in DOMAIN q /\ k + 1 \in DOMAIN q /\ 1 < k + 1 /\ r[k] = q[k + 1]  BY <1>1
    <3> QED BY <3>1, <1>5 DEF Ordered
  <2> QED BY <2>1, <2>2 DEF Ordered
<1>6. 1 \in DOMAIN q  BY <1>1
<1> QED BY <1>1, <1>3, <1>4, <1>5, <1>6

(* Parts of parts.                                                          *)
LEMMA PartOfPart ==
  ASSUME NEW q \in Seq(QueuedPacket), NEW r, NEW s, PartOf(r, q), PartOf(s, r)
  PROVE  PartOf(s, q)
<1>1. r \in Seq(QueuedPacket) /\ s \in Seq(QueuedPacket)  BY DEF PartOf
<1>2. Len(q) \in Nat /\ Len(r) \in Nat /\ Len(s) \in Nat  BY <1>1
<1>3. Bytes(q) \in Nat /\ Bytes(r) \in Nat /\ Bytes(s) \in Nat  BY <1>1, BytesAreNatural
<1> QED BY <1>1, <1>2, <1>3 DEF PartOf
----------------------------------------------------------------------------
(* The invariant of bounds, counts and order.  Between its lock and its     *)
(* stores close() still has to take back what the load and the gauge say,   *)
(* and the packets are no newer than the last one that came.                *)
QueueInv ==
  /\ QueueTypeOK /\ WakeupInv /\ WithinBounds
  /\ Ordered(items, delivered, sent) /\ delivered <= sent
  /\ closing.pc = "locked" => queued_bytes = closing.removed /\ gauge = closing.removed

(* The types that the proofs use.                                           *)
LEMMA QueueTypes ==
  ASSUME QueueInv
  PROVE  /\ items \in Seq(QueuedPacket) /\ config \in QueueConfigs
         /\ config.max_packets \in Nat /\ config.max_bytes \in Nat
         /\ bytes \in Nat /\ queued_bytes \in Nat /\ gauge \in Nat /\ closing.removed \in Nat
         /\ Bytes(items) \in Nat /\ bytes = Bytes(items) /\ bytes <= config.max_bytes
         /\ Len(items) \in Nat /\ Len(items) <= config.max_packets
         /\ clock \in Nat /\ sent \in Nat /\ delivered \in Nat
         /\ sent <= MaxSent /\ MaxSent \in Nat /\ MaxTime \in Nat
<1>1. items \in Seq(QueuedPacket)  BY DEF QueueInv, QueueTypeOK
<1>2. Bytes(items) \in Nat  BY <1>1, BytesAreNatural
<1>3. closing.removed \in Nat  BY DEF QueueInv, QueueTypeOK
<1>4. config.max_packets \in Nat /\ config.max_bytes \in Nat
  BY QueueAssumption DEF QueueInv, QueueTypeOK
<1>5. clock \in Nat /\ sent \in Nat /\ delivered \in Nat /\ sent <= MaxSent
  BY QueueAssumption DEF QueueInv, QueueTypeOK
<1>6. Len(items) \in Nat  BY <1>1
<1> QED BY <1>1, <1>2, <1>3, <1>4, <1>5, <1>6, QueueAssumption DEF QueueInv, QueueTypeOK, WithinBounds

(* A packet has a class.                                                    *)
LEMMA ItemsAreTyped ==
  ASSUME QueueInv, NEW packet \in Packets
  PROVE  Item(packet) \in QueuedPacket /\ Item(packet).id = sent + 1 /\ Item(packet).size = packet.size
<1>1. packet \in Shapes  BY QueueAssumption
<1>2. classify(packet) \in Classes  BY <1>1 DEF classify, Classes, Shapes
<1>3. packet.size \in Nat  BY <1>1 DEF Shapes
<1>4. clock \in Nat /\ sent + 1 \in Nat  BY QueueTypes
<1> QED BY <1>2, <1>3, <1>4 DEF Item, QueuedPacket

(* Becomes keeps the accounts: what is held, published and counted.         *)
LEMMA BecomesCounts ==
  ASSUME QueueInv, NEW q \in Seq(QueuedPacket), Becomes(q),
         Len(q) <= config.max_packets, Bytes(q) <= config.max_bytes,
         closed => q = items,
         UNCHANGED <<config, closing>>
  PROVE  /\ items' = q /\ bytes' \in Nat /\ queued_bytes' \in Nat /\ gauge' \in Nat
         /\ WithinBounds'
         /\ closing'.pc = "locked" => queued_bytes' = closing'.removed /\ gauge' = closing'.removed
<1>1. Bytes(q) \in Nat  BY BytesAreNatural
<1>2. /\ bytes \in Nat /\ queued_bytes \in Nat /\ gauge \in Nat
      /\ Bytes(items) \in Nat /\ bytes = Bytes(items)
  BY QueueTypes
<1>3. bytes' = Bytes(q) /\ items' = q
  BY <1>1, <1>2 DEF Becomes
<1>4. CASE closing.pc # "locked"
  <2>1. queued_bytes = bytes /\ gauge = bytes  BY <1>4 DEF QueueInv, WithinBounds
  <2>2. queued_bytes' = Bytes(q) /\ gauge' = Bytes(q)  BY <1>1, <1>2, <2>1 DEF Becomes
  <2> QED BY <1>1, <1>3, <1>4, <2>2 DEF WithinBounds
<1>5. CASE closing.pc = "locked"
  <2>1. closed  BY <1>5 DEF QueueInv, WakeupInv
  <2>2. q = items  BY <2>1
  <2>3. queued_bytes' = queued_bytes /\ gauge' = gauge  BY <1>2, <2>2 DEF Becomes
  <2> QED BY <1>1, <1>2, <1>3, <1>5, <2>3 DEF WithinBounds, QueueInv
<1> QED BY <1>4, <1>5

(* What enqueue_at does: it drops by age, then n replaceable packets, and   *)
(* takes the new one if that made room.                                     *)
LEMMA EnqueueTakes ==
  ASSUME QueueInv, NEW packet \in Packets, enqueue(packet)
  PROVE  \E n \in Nat :
           LET rest == AfterEvicting(drop_expired(clock), classify(packet), n)
           IN  \/ Becomes(rest)
               \/ fits(rest, packet.size) /\ Becomes(Append(rest, Item(packet)))
<1> DEFINE class  == classify(packet)
           fresh  == drop_expired(clock)
           most   == Cardinality(Replaceable(fresh, class))
           enough == {n \in 0 .. most : fits(AfterEvicting(fresh, class, n), packet.size)}
           number == IF enough = {} THEN most ELSE Min(enough)
           rest   == AfterEvicting(fresh, class, number)
<1>1. IF enough = {} THEN Becomes(rest) ELSE Becomes(Append(rest, Item(packet)))
  BY DEF enqueue
<1>2. most \in Nat
  <2>1. fresh \in Seq(QueuedPacket)  BY QueueTypes, WithoutIsPart DEF drop_expired, PartOf
  <2>2. IsFiniteSet(DOMAIN fresh)  BY <2>1, BytesAreNatural
  <2>3. Replaceable(fresh, class) \in SUBSET DOMAIN fresh  BY DEF Replaceable
  <2> HIDE DEF fresh, class
  <2>4. IsFiniteSet(Replaceable(fresh, class))  BY <2>2, <2>3, FS_Subset
  <2> QED BY <2>4, FS_CardinalityType
<1>3. enough \in SUBSET Nat  BY <1>2
<1>4. enough # {} => Min(enough) \in enough
  <2> HIDE DEF enough
  <2> QED BY <1>3, LeastNatural
<1>5. \A n \in enough : fits(AfterEvicting(fresh, class, n), packet.size)  OBVIOUS
<1> HIDE DEF enough, most, fresh, class
<1>6. number \in Nat  BY <1>2, <1>3, <1>4
<1>7. enough # {} => fits(rest, packet.size)  BY <1>4, <1>5
<1>8. Becomes(rest) \/ (fits(rest, packet.size) /\ Becomes(Append(rest, Item(packet))))
  BY <1>1, <1>7
<1> HIDE DEF number
<1> QED BY <1>6, <1>8 DEF fresh, class

(* What is dropped before a packet leaves a part of the queue.              *)
LEMMA EvictingLeavesPart ==
  ASSUME QueueInv, NEW now, NEW class, NEW n
  PROVE  /\ PartOf(drop_expired(now), items)
         /\ PartOf(AfterEvicting(drop_expired(now), class, n), items)
<1>1. items \in Seq(QueuedPacket)  BY QueueTypes
<1>2. PartOf(drop_expired(now), items)  BY <1>1, WithoutIsPart DEF drop_expired
<1>3. drop_expired(now) \in Seq(QueuedPacket)  BY <1>2 DEF PartOf
<1>4. PartOf(AfterEvicting(drop_expired(now), class, n), drop_expired(now))
  BY <1>3, WithoutIsPart DEF AfterEvicting
<1> QED BY <1>1, <1>2, <1>4, PartOfPart

(* Steps that change nothing but the packets, the receiver and the permit.  *)
LEMMA QueueInvFrom ==
  ASSUME QueueInv, WakeupInv', UNCHANGED <<config, closing, closed, clock>>, permit' \in BOOLEAN,
         items' \in Seq(QueuedPacket), bytes' \in Nat, queued_bytes' \in Nat, gauge' \in Nat,
         WithinBounds',
         closing'.pc = "locked" => queued_bytes' = closing'.removed /\ gauge' = closing'.removed,
         sent' \in Nat, sent' <= MaxSent, delivered' \in Nat, delivered' <= sent',
         Ordered(items', delivered', sent')
  PROVE  QueueInv'
<1>1. QueueTypeOK'
  <2>1. receiver' \in ReceiverType  BY DEF WakeupInv
  <2>2. delivered' \in 0 .. MaxSent /\ sent' \in 0 .. MaxSent  BY QueueAssumption
  <2> QED BY <2>1, <2>2 DEF QueueInv, QueueTypeOK, ReceiverType
<1> QED BY <1>1 DEF QueueInv

(* The counts and the order of a part, when it becomes the queue.           *)
LEMMA PartKeeps ==
  ASSUME QueueInv, NEW q, PartOf(q, items), Becomes(q), closed => q = items, UNCHANGED <<config, closing>>
  PROVE  /\ items' = q /\ items' \in Seq(QueuedPacket)
         /\ bytes' \in Nat /\ queued_bytes' \in Nat /\ gauge' \in Nat
         /\ WithinBounds'
         /\ closing'.pc = "locked" => queued_bytes' = closing'.removed /\ gauge' = closing'.removed
         /\ Ordered(items', delivered, sent)
<1>1. q \in Seq(QueuedPacket) /\ Len(q) <= Len(items) /\ Bytes(q) <= Bytes(items)  BY DEF PartOf
<1>2. Len(q) \in Nat /\ Bytes(q) \in Nat  BY <1>1, BytesAreNatural
<1>3. Len(q) <= config.max_packets /\ Bytes(q) <= config.max_bytes  BY <1>1, <1>2, QueueTypes
<1>4. Ordered(q, delivered, sent)  BY QueueTypes DEF PartOf, QueueInv
<1>5. items' = q  BY DEF Becomes
<1> QED BY <1>1, <1>3, <1>4, <1>5, BecomesCounts

(* enqueue_at keeps the queue's bounds, counts and order.                   *)
LEMMA EnqueueKeeps ==
  ASSUME QueueInv, WakeupInv', NEW packet \in Packets, enqueue(packet)
  PROVE  QueueInv'
<1>0. /\ ~closed /\ sent < MaxSent /\ sent' = sent + 1 /\ permit' \in BOOLEAN
      /\ UNCHANGED <<config, closed, closing, clock, delivered>>
  <2>1. permit' = permit \/ notify_one  BY DEF enqueue
  <2>2. permit' \in BOOLEAN  BY <2>1 DEF notify_one, QueueInv, QueueTypeOK
  <2> QED BY <2>2 DEF enqueue
<1>t. sent \in Nat /\ delivered \in Nat /\ MaxSent \in Nat /\ delivered <= sent
  BY QueueTypes DEF QueueInv
<1>1. PICK n \in Nat :
        LET rest == AfterEvicting(drop_expired(clock), classify(packet), n)
        IN  Becomes(rest) \/ (fits(rest, packet.size) /\ Becomes(Append(rest, Item(packet))))
  BY EnqueueTakes
<1> DEFINE rest == AfterEvicting(drop_expired(clock), classify(packet), n)
           item == Item(packet)
<1>2. PartOf(rest, items)  BY EvictingLeavesPart
<1>i. item \in QueuedPacket /\ item.id = sent + 1 /\ item.size = packet.size  BY ItemsAreTyped
<1> HIDE DEF rest, item
<1>3. CASE Becomes(rest)
  <2>1. /\ items' \in Seq(QueuedPacket)
        /\ bytes' \in Nat /\ queued_bytes' \in Nat /\ gauge' \in Nat /\ WithinBounds'
        /\ closing'.pc = "locked" => queued_bytes' = closing'.removed /\ gauge' = closing'.removed
        /\ Ordered(items', delivered, sent)
    BY <1>0, <1>2, <1>3, PartKeeps
  <2>2. Ordered(items', delivered', sent')
    <3>1. \A i \in DOMAIN items' : items'[i].id \in Nat
      <4>1. \A i \in DOMAIN items' : items'[i] \in QueuedPacket  BY <2>1
      <4> QED BY <4>1 DEF QueuedPacket
    <3> QED BY <1>0, <1>t, <2>1, <3>1 DEF Ordered
  <2> QED BY <1>0, <1>t, <2>1, <2>2, QueueInvFrom
<1>4. CASE fits(rest, packet.size) /\ Becomes(Append(rest, item))
  <2> DEFINE q == Append(rest, item)
  <2>1. rest \in Seq(QueuedPacket) /\ Ordered(rest, delivered, sent)
    BY <1>2, QueueTypes DEF PartOf, QueueInv
  <2>2. /\ q \in Seq(QueuedPacket) /\ Len(q) = Len(rest) + 1 /\ Len(rest) \in Nat
        /\ DOMAIN q = 1 .. Len(rest) + 1 /\ DOMAIN rest = 1 .. Len(rest)
        /\ q[Len(rest) + 1] = item /\ \A i \in 1 .. Len(rest) : q[i] = rest[i]
    BY <2>1, <1>i
  <2>3. Bytes(q) = Bytes(rest) + packet.size  BY <2>1, <1>i, BytesOfAppend
  <2>4. Len(q) <= config.max_packets /\ Bytes(q) <= config.max_bytes
    <3>1. Len(rest) < config.max_packets /\ Bytes(rest) + packet.size <= config.max_bytes
      BY <1>4 DEF fits
    <3>2. config.max_packets \in Nat  BY QueueTypes
    <3> HIDE DEF q
    <3> QED BY <3>1, <3>2, <2>2, <2>3
  <2>5. Ordered(q, delivered, sent + 1)
    <3> HIDE DEF q
    <3>1. \A i \in DOMAIN rest : rest[i].id \in Nat
      <4>1. \A i \in DOMAIN rest : rest[i] \in QueuedPacket  BY <2>1
      <4> QED BY <4>1 DEF QueuedPacket
    <3>2. ASSUME NEW i \in DOMAIN q PROVE delivered < q[i].id /\ q[i].id <= sent + 1
      BY <1>i, <1>t, <2>1, <2>2, <3>1 DEF Ordered
    <3>3. ASSUME NEW i \in DOMAIN q, NEW j \in DOMAIN q, i < j PROVE q[i].id < q[j].id
      <4>1. i \in 1 .. Len(rest)  BY <2>2, <3>3
      <4>2. CASE j \in 1 .. Len(rest)  BY <2>1, <2>2, <3>3, <4>1, <4>2 DEF Ordered
      <4>3. CASE j = Len(rest) + 1
        <5>1. q[i] = rest[i] /\ rest[i].id <= sent /\ rest[i].id \in Nat  BY <2>1, <2>2, <3>1, <4>1 DEF Ordered
        <5> QED BY <5>1, <4>3, <2>2, <1>i, <1>t
      <4> QED BY <2>2, <4>2, <4>3
    <3> QED BY <3>2, <3>3 DEF Ordered
  <2> HIDE DEF q
  <2>6. Becomes(q)  BY <1>4 DEF q
  <2>7. /\ items' = q /\ bytes' \in Nat /\ queued_bytes' \in Nat /\ gauge' \in Nat
        /\ WithinBounds'
        /\ closing'.pc = "locked" => queued_bytes' = closing'.removed /\ gauge' = closing'.removed
    BY <1>0, <2>2, <2>4, <2>6, BecomesCounts
  <2>8. sent' \in Nat /\ sent' <= MaxSent /\ delivered' \in Nat /\ delivered' <= sent'  BY <1>0, <1>t
  <2> QED BY <1>0, <2>2, <2>5, <2>7, <2>8, QueueInvFrom
<1> QED BY <1>1, <1>3, <1>4 DEF rest, item

(* dequeue_at hands out the first packet that is not stale.                 *)
LEMMA DequeueKeeps ==
  ASSUME QueueInv, WakeupInv', NEW now, dequeue(now),
         UNCHANGED <<config, closed, closing, clock, sent>>, permit' \in BOOLEAN
  PROVE  QueueInv'
<1> DEFINE fresh == drop_expired(now)
<1>t. sent \in Nat /\ delivered \in Nat /\ sent <= MaxSent /\ delivered <= sent
  BY QueueTypes DEF QueueInv
<1>1. PartOf(fresh, items) /\ items \in Seq(QueuedPacket) /\ Ordered(items, delivered, sent)
  BY EvictingLeavesPart, QueueTypes DEF QueueInv
<1>2. fresh \in Seq(QueuedPacket) /\ Ordered(fresh, delivered, sent)  BY <1>1, <1>t DEF PartOf
<1>3. CASE Finds(now)
  <2>1. ~closed /\ fresh # <<>> /\ Becomes(Tail(fresh)) /\ delivered' = Head(fresh).id
    BY <1>3 DEF Finds, dequeue
  <2> HIDE DEF fresh
  <2>2. /\ PartOf(Tail(fresh), fresh) /\ Head(fresh) = fresh[1] /\ 1 \in DOMAIN fresh
        /\ Ordered(Tail(fresh), Head(fresh).id, sent)
    BY <1>2, <1>t, <2>1, TailIsPart
  <2>3. PartOf(Tail(fresh), items)  BY <1>1, <2>2, PartOfPart
  <2>4. delivered' \in Nat /\ delivered' <= sent
    <3>1. fresh[1] \in QueuedPacket  BY <1>2, <2>2
    <3> QED BY <1>2, <2>1, <2>2, <3>1 DEF Ordered, QueuedPacket
  <2>5. /\ items' = Tail(fresh) /\ items' \in Seq(QueuedPacket)
        /\ bytes' \in Nat /\ queued_bytes' \in Nat /\ gauge' \in Nat /\ WithinBounds'
        /\ closing'.pc = "locked" => queued_bytes' = closing'.removed /\ gauge' = closing'.removed
    BY <2>1, <2>3, PartKeeps
  <2>6. Ordered(items', delivered', sent')  BY <2>1, <2>2, <2>5
  <2> QED BY <1>t, <2>4, <2>5, <2>6, QueueInvFrom
<1>4. CASE ~Finds(now)
  <2> DEFINE q == IF closed THEN items ELSE fresh
  <2>1. Becomes(q) /\ delivered' = delivered  BY <1>4 DEF dequeue
  <2>2. PartOf(items, items)
    <3>1. Bytes(items) \in Nat /\ Len(items) \in Nat  BY QueueTypes
    <3> QED BY <1>1, <3>1 DEF PartOf
  <2>3. PartOf(q, items) /\ (closed => q = items)  BY <1>1, <2>2
  <2> HIDE DEF q
  <2>4. /\ items' \in Seq(QueuedPacket)
        /\ bytes' \in Nat /\ queued_bytes' \in Nat /\ gauge' \in Nat /\ WithinBounds'
        /\ closing'.pc = "locked" => queued_bytes' = closing'.removed /\ gauge' = closing'.removed
        /\ Ordered(items', delivered, sent)
    BY <2>1, <2>3, PartKeeps
  <2> QED BY <1>t, <2>1, <2>4, QueueInvFrom
<1> QED BY <1>3, <1>4

(* Steps of recv and of the clock leave the packets alone.                  *)
LEMMA OthersKeep ==
  ASSUME QueueInv, WakeupInv', UNCHANGED <<config, state_vars, sent, delivered>>,
         clock' \in 0 .. MaxTime, permit' \in BOOLEAN,
         closed' = closed, closing'.removed = closing.removed,
         closing'.pc = "locked" <=> closing.pc = "locked"
  PROVE  QueueInv'
<1>1. receiver' \in ReceiverType /\ closed' \in BOOLEAN /\ closing'.pc \in ClosingSteps
  BY DEF WakeupInv
<1>2. closing' = [pc |-> closing'.pc, removed |-> closing'.removed]  BY DEF WakeupInv
<1>3. closing' \in [pc : ClosingSteps, removed : Nat]  BY <1>1, <1>2, QueueTypes
<1>4. QueueTypeOK'
  BY <1>1, <1>3 DEF QueueInv, QueueTypeOK, ReceiverType, ClosingSteps, state_vars
<1>5. WithinBounds'  BY DEF QueueInv, WithinBounds, state_vars
<1>6. Ordered(items, delivered, sent)' BY DEF QueueInv, state_vars, Ordered
<1> QED BY <1>4, <1>5, <1>6 DEF QueueInv, state_vars

(* close() empties the queue and takes back what it had reported.           *)
LEMMA CloseKeeps ==
  ASSUME QueueInv, WakeupInv', close
  PROVE  QueueInv'
<1>1. closing.pc = "open"  BY DEF close, QueueInv, WakeupInv
<1>2. /\ items' = <<>> /\ bytes' = 0 /\ closed' = TRUE
      /\ closing'.pc = "locked" /\ closing'.removed = bytes
      /\ UNCHANGED <<config, queued_bytes, gauge, permit, receiver, clock, sent, delivered>>
  BY DEF close
<1>3. queued_bytes = bytes /\ gauge = bytes  BY <1>1 DEF QueueInv, WithinBounds
<1>4. bytes \in Nat /\ config.max_packets \in Nat /\ config.max_bytes \in Nat  BY QueueTypes
<1>5. QueueTypeOK'
  <2>1. closing' \in [pc : {"open", "locked", "published", "announced", "done"}, removed : Nat]
    BY <1>4 DEF close
  <2>2. <<>> \in Seq(QueuedPacket)  OBVIOUS
  <2> QED BY <1>2, <2>1, <2>2 DEF QueueInv, QueueTypeOK
<1>6. WithinBounds'
  <2>1. Len(<<>>) = 0 /\ Bytes(<<>>) = 0  BY BytesOfNothing
  <2> QED BY <1>2, <1>4, <2>1 DEF WithinBounds
<1>7. Ordered(items, delivered, sent)'  BY <1>2 DEF Ordered
<1> QED BY <1>2, <1>3, <1>5, <1>6, <1>7 DEF QueueInv

(* ... in its second step.                                                  *)
LEMMA ClosePublishesKeeps ==
  ASSUME QueueInv, WakeupInv', ClosePublishes
  PROVE  QueueInv'
<1>1. /\ closing.pc = "locked" /\ closing'.pc = "published" /\ closing'.removed = closing.removed
      /\ queued_bytes' = 0 /\ gauge' = gauge - closing.removed
      /\ UNCHANGED <<config, items, bytes, closed, permit, receiver, clock, sent, delivered>>
  BY DEF ClosePublishes, QueueInv, WakeupInv
<1>2. items = <<>> /\ bytes = 0
  <2>1. items = <<>>  BY <1>1 DEF QueueInv, WakeupInv
  <2> QED BY <2>1, QueueTypes, BytesOfNothing
<1>3. gauge' = 0  BY <1>1, QueueTypes DEF QueueInv
<1>4. QueueTypeOK'
  <2>1. closing' \in [pc : {"open", "locked", "published", "announced", "done"}, removed : Nat]
    BY DEF ClosePublishes, QueueInv, QueueTypeOK
  <2> QED BY <1>1, <1>3, <2>1 DEF QueueInv, QueueTypeOK
<1>5. WithinBounds'  BY <1>1, <1>2, <1>3 DEF QueueInv, WithinBounds
<1>6. Ordered(items, delivered, sent)'  BY <1>1 DEF Ordered, QueueInv
<1> QED BY <1>1, <1>4, <1>5, <1>6 DEF QueueInv

(* An empty queue satisfies the invariant.                                  *)
LEMMA QueueBegins == QueueInit => QueueInv
<1>1. SUFFICES ASSUME QueueInit PROVE QueueInv  OBVIOUS
<1>2. WakeupInv  BY <1>1, WakeupInductive
<1>3. config \in QueueConfigs /\ config.max_packets \in Nat /\ config.max_bytes \in Nat
  BY <1>1, QueueAssumption DEF QueueInit
<1>4. QueueTypeOK
  <2>1. <<>> \in Seq(QueuedPacket)  OBVIOUS
  <2>2. receiver \in ReceiverType /\ closed \in BOOLEAN  BY <1>2 DEF WakeupInv
  <2>3. closing \in [pc : {"open", "locked", "published", "announced", "done"}, removed : Nat]
    BY <1>1 DEF QueueInit
  <2>4. 0 \in 0 .. MaxTime /\ 0 \in 0 .. MaxSent  BY QueueAssumption
  <2>5. items \in Seq(QueuedPacket) /\ permit \in BOOLEAN  BY <1>1, <2>1 DEF QueueInit
  <2>6. /\ bytes \in Nat /\ queued_bytes \in Nat /\ gauge \in Nat
        /\ clock \in 0 .. MaxTime /\ sent \in 0 .. MaxSent /\ delivered \in 0 .. MaxSent
    BY <1>1, <2>4 DEF QueueInit
  <2> QED BY <1>3, <2>2, <2>3, <2>5, <2>6 DEF QueueTypeOK, ReceiverType
<1>5. WithinBounds
  <2>1. Len(<<>>) = 0 /\ Bytes(<<>>) = 0  BY BytesOfNothing
  <2> QED BY <1>1, <1>3, <2>1 DEF QueueInit, WithinBounds
<1>6. Ordered(items, delivered, sent)  BY <1>1 DEF QueueInit, Ordered
<1> QED BY <1>1, <1>2, <1>4, <1>5, <1>6 DEF QueueInv, QueueInit

(* Every step preserves the invariant.                                      *)
LEMMA QueueKeeps == QueueInv /\ [QueueNext]_queue_vars => QueueInv'
<1>1. SUFFICES ASSUME QueueInv, [QueueNext]_queue_vars PROVE QueueInv'  OBVIOUS
<1>2. WakeupInv'  BY <1>1, WakeupInductive DEF QueueInv
<1>t. /\ clock \in 0 .. MaxTime /\ permit \in BOOLEAN /\ MaxTime \in Nat
      /\ receiver.ready \in {"none", "permit", "registered", "one", "all"}
  BY <1>1, QueueAssumption DEF QueueInv, QueueTypeOK
<1>3. ASSUME NEW packet \in Packets, enqueue(packet) PROVE QueueInv'
  BY <1>1, <1>2, <1>3, EnqueueKeeps
<1>4. CASE try_dequeue
  <2>1. PICK now : dequeue(now)  BY <1>4 DEF try_dequeue
  <2>2. UNCHANGED <<config, closed, closing, clock, sent>> /\ permit' \in BOOLEAN
    BY <1>4, <1>t DEF try_dequeue
  <2> QED BY <1>1, <1>2, <2>1, <2>2, DequeueKeeps
<1>5. CASE RecvDequeue
  <2>1. PICK now : dequeue(now)  BY <1>5 DEF RecvDequeue
  <2>2. UNCHANGED <<config, closed, closing, clock, sent>> /\ permit' \in BOOLEAN
    BY <1>5, <1>t DEF RecvDequeue, DropReady
  <2> QED BY <1>1, <1>2, <2>1, <2>2, DequeueKeeps
<1>6. CASE recv \/ RecvClosed \/ RecvWakes \/ RecvDropped
  <2>1. /\ UNCHANGED <<config, state_vars, closed, closing, clock, sent, delivered>>
        /\ permit' \in BOOLEAN
    BY <1>6, <1>t DEF recv, RecvClosed, RecvWakes, RecvDropped, DropReady
  <2> QED BY <1>1, <1>2, <1>t, <2>1, OthersKeep
<1>7. CASE notify_waiters \/ CloseNotifies
  <2>1. UNCHANGED <<config, state_vars, closed, clock, sent, delivered>> /\ permit' \in BOOLEAN
    BY <1>7, <1>t DEF notify_waiters, CloseNotifies, notify_one
  <2>2. closing'.removed = closing.removed /\ closing'.pc # "locked" /\ closing.pc # "locked"
    BY <1>1, <1>7 DEF notify_waiters, CloseNotifies, QueueInv, WakeupInv
  <2> QED BY <1>1, <1>2, <1>t, <2>1, <2>2, OthersKeep
<1>8. CASE Tick
  <2>1. /\ UNCHANGED <<config, state_vars, closed, closing, permit, sent, delivered>>
        /\ clock' \in 0 .. MaxTime
    BY <1>8, <1>t DEF Tick
  <2> QED BY <1>1, <1>2, <1>t, <2>1, OthersKeep
<1>9. CASE UNCHANGED queue_vars
  <2>1. UNCHANGED <<config, state_vars, closed, closing, permit, clock, sent, delivered>>
    BY <1>9 DEF queue_vars
  <2> QED BY <1>1, <1>2, <1>t, <2>1, OthersKeep
<1> QED
  BY <1>1, <1>2, <1>3, <1>4, <1>5, <1>6, <1>7, <1>8, <1>9, CloseKeeps, ClosePublishesKeeps
  DEF QueueNext, Receive, Closing

(* The queue keeps its bounds, its accounts and its order, for every        *)
(* configuration, whatever arrives, goes stale, makes way and is handed out *)
(* and whenever close() comes.                                              *)
THEOREM QueueStaysOrdered == QueueSpec => []QueueIsOrdered
<1>1. QueueInv => QueueIsOrdered
  BY DEF QueueInv, QueueIsOrdered, QueueIsSound, OrderKept, Ordered
<1> QED BY <1>1, QueueBegins, QueueKeeps, PTL DEF QueueSpec
----------------------------------------------------------------------------
(* A packet that is fresh when enqueue_at comes is still in the queue after *)
(* it, unless the policy let it make way for the new one.                   *)
LEMMA EnqueueSpares ==
  ASSUME QueueInv, NEW packet \in Packets, enqueue(packet), NEW i \in DOMAIN items,
         Fresh(items[i], clock), config.policy = "class_aware"
  PROVE  \/ \E j \in DOMAIN items' : items'[j] = items[i]
         \/ items[i].class = "datagram"
         \/ items[i].class = "control" /\ classify(packet) = "control"
<1> DEFINE class == classify(packet)
           fresh == drop_expired(clock)
<1>1. items \in Seq(QueuedPacket)  BY QueueTypes
<1>2. PICK k \in DOMAIN fresh : fresh[k] = items[i]
  <2>1. i \in DOMAIN items \ {j \in DOMAIN items : ~Fresh(items[j], clock)}  OBVIOUS
  <2> QED BY <1>1, <2>1, WithoutIsPart DEF drop_expired
<1>3. fresh \in Seq(QueuedPacket)  BY EvictingLeavesPart DEF PartOf
<1>4. PICK n \in Nat :
        LET rest == AfterEvicting(fresh, class, n)
        IN  Becomes(rest) \/ (fits(rest, packet.size) /\ Becomes(Append(rest, Item(packet))))
  BY EnqueueTakes
<1> DEFINE rest == AfterEvicting(fresh, class, n)
<1>5. CASE k \in Victims(fresh, class, n)
  <2>1. k \in Replaceable(fresh, class)  BY <1>5 DEF Victims
  <2> QED BY <1>2, <2>1 DEF Replaceable
<1>6. CASE k \notin Victims(fresh, class, n)
  <2>1. rest \in Seq(QueuedPacket)  BY EvictingLeavesPart DEF PartOf
  <2>2. PICK l \in DOMAIN rest : rest[l] = fresh[k]
    <3> HIDE DEF fresh, class
    <3>1. k \in DOMAIN fresh \ Victims(fresh, class, n)  BY <1>6
    <3> QED BY <1>3, <3>1, WithoutIsPart DEF AfterEvicting
  <2>3. items' = rest \/ items' = Append(rest, Item(packet))  BY <1>4 DEF Becomes
  <2> HIDE DEF rest, fresh, class
  <2>4. l \in DOMAIN Append(rest, Item(packet)) /\ Append(rest, Item(packet))[l] = rest[l]
    <3>1. Item(packet) \in QueuedPacket  BY ItemsAreTyped
    <3> QED BY <2>1, <3>1
  <2> QED BY <1>2, <2>2, <2>3, <2>4
<1> QED BY <1>5, <1>6

(* A packet that is fresh is still in the queue after dequeue_at, unless it *)
(* is the one that was handed out.                                          *)
LEMMA DequeueSpares ==
  ASSUME QueueInv, NEW now \in ReadClock, dequeue(now), ~closed, NEW i \in DOMAIN items,
         Fresh(items[i], clock)
  PROVE  (\E j \in DOMAIN items' : items'[j] = items[i]) \/ delivered' = items[i].id
<1> DEFINE fresh == drop_expired(now)
<1>1. items \in Seq(QueuedPacket) /\ config \in QueueConfigs /\ clock \in Nat  BY QueueTypes
<1>2. Fresh(items[i], now)
  <2>1. items[i] \in QueuedPacket  BY <1>1
  <2>2. items[i].class \in Classes /\ items[i].enqueued \in Nat  BY <2>1 DEF QueuedPacket
  <2>3. config.max_age[items[i].class] \in Nat  BY <1>1, <2>2, QueueAssumption
  <2>4. now \in Int /\ now <= clock  BY <1>1 DEF ReadClock
  <2> QED BY <1>1, <2>2, <2>3, <2>4 DEF Fresh
<1>3. PICK k \in DOMAIN fresh : fresh[k] = items[i]
  <2>1. i \in DOMAIN items \ {j \in DOMAIN items : ~Fresh(items[j], now)}  BY <1>2
  <2> QED BY <1>1, <2>1, WithoutIsPart DEF drop_expired
<1>4. fresh \in Seq(QueuedPacket)  BY EvictingLeavesPart DEF PartOf
<1>5. fresh # <<>>  BY <1>3
<1>6. items' = Tail(fresh) /\ delivered' = Head(fresh).id
  BY <1>5 DEF dequeue, Finds, Becomes
<1> HIDE DEF fresh
<1>7. CASE k = 1  BY <1>3, <1>4, <1>5, <1>6, <1>7, TailIsPart
<1>8. CASE k # 1
  <2>1. k \in DOMAIN fresh \ {1}  BY <1>8
  <2> QED BY <1>3, <1>4, <1>5, <1>6, <2>1, TailIsPart
<1> QED BY <1>7, <1>8

(* A queued TCP packet leaves only to the receiver, by age or with the      *)
(* queue, and a control packet makes way for control packets only.          *)
THEOREM PreferredPacketsStay == QueueSpec => PreferredStay
<1> DEFINE Gone(i) == \A j \in DOMAIN items' : items'[j].id # items[i].id
           Justified(i) == \E packet \in Packets :
                             /\ enqueue(packet)
                             /\ \/ items[i].class = "datagram"
                                \/ items[i].class = "control" /\ classify(packet) = "control"
           Stays == config.policy = "class_aware" =>
                      \A i \in DOMAIN items :
                        (Gone(i) /\ Fresh(items[i], clock) /\ ~closed' /\ delivered' # items[i].id)
                          => Justified(i)
<1>1. QueueInv /\ [QueueNext]_queue_vars => Stays
  <2>1. SUFFICES ASSUME QueueInv, [QueueNext]_queue_vars, config.policy = "class_aware",
                        NEW i \in DOMAIN items, Gone(i), Fresh(items[i], clock), ~closed',
                        delivered' # items[i].id
                 PROVE  Justified(i)
    OBVIOUS
  <2>2. ~\E j \in DOMAIN items' : items'[j] = items[i]  BY <2>1
  <2>3. ASSUME NEW packet \in Packets, enqueue(packet) PROVE Justified(i)
    BY <2>1, <2>2, <2>3, EnqueueSpares
  <2>4. CASE try_dequeue \/ RecvDequeue
    <3>1. PICK now \in ReadClock : dequeue(now)  BY <2>4 DEF try_dequeue, RecvDequeue
    <3>2. ~closed  BY <2>1, <2>4 DEF try_dequeue, RecvDequeue
    <3> QED BY <2>1, <2>2, <3>1, <3>2, DequeueSpares
  <2>5. ASSUME items' = items PROVE Justified(i)  BY <2>2, <2>5
  <2>6. CASE recv \/ RecvClosed \/ RecvWakes \/ RecvDropped \/ Closing \/ Tick
    BY <2>5, <2>6 DEF recv, RecvClosed, RecvWakes, RecvDropped, Closing, ClosePublishes,
      notify_waiters, CloseNotifies, Tick, state_vars
  <2>7. CASE close  BY <2>1, <2>7 DEF close
  <2>8. CASE UNCHANGED queue_vars  BY <2>5, <2>8 DEF queue_vars, state_vars
  <2> QED BY <2>1, <2>3, <2>4, <2>6, <2>7, <2>8 DEF QueueNext, Receive
<1>2. QueueInv /\ [QueueNext]_queue_vars => [Stays]_queue_vars  BY <1>1
<1> HIDE DEF Stays
<1>3. QueueSpec => [][Stays]_queue_vars  BY <1>2, QueueBegins, QueueKeeps, PTL DEF QueueSpec
<1> QED BY <1>3 DEF PreferredStay, Stays
----------------------------------------------------------------------------
USE DEF Gateway, NoAddress

(* Every record in memory yields a well-formed state file. *)
LEMMA PoolStateType ==
  ASSUME NEW records \in [Clients -> LeaseRecord]
  PROVE  PoolState(records) \in [Clients -> PersistedLease]
BY DEF PoolState, LeaseRecord, PersistedLease

LEMMA LeaseOfType ==
  ASSUME NEW c \in Clients, NEW record \in LeaseRecord, record.address # NoAddress
  PROVE  LeaseOf(c, record) \in Lease
BY DEF LeaseOf, LeaseRecord, Lease

LEMMA WriteType ==
  ASSUME TypeOK, NEW records \in [Clients -> LeaseRecord], NEW outcome \in Outcomes,
         write_state_atomically(records, outcome)
  PROVE  /\ disk' \in [Clients -> PersistedLease]
         /\ durable' \in SUBSET [Clients -> PersistedLease]
<1>1. PoolState(records) \in [Clients -> PersistedLease]
  BY PoolStateType
<1> QED
  BY <1>1 DEF TypeOK, write_state_atomically

(* What an acquisition that persists a new generation preserves. *)
LEMMA AcquireType ==
  ASSUME TypeOK, NEW h \in Handles, NEW c \in Clients,
         NEW g \in GroupIds \cup {NoGroup}, NEW outcome \in Outcomes,
         NEW record \in LeaseRecord, record.address # NoAddress,
         NewGeneration(h, c, g),
         write_state_atomically([by_client EXCEPT ![c] = record], outcome),
         by_address' \in [Leasable -> Clients \cup {NoClient}],
         \/ Grant(h, c, g, record)
         \/ abandon_committed_lease(c, record) /\ UNCHANGED <<held, granted>>
         \/ UNCHANGED <<by_client, groups, held, granted>>
  PROVE  TypeOK'
<1>1. [by_client EXCEPT ![c] = record] \in [Clients -> LeaseRecord]
  BY DEF TypeOK
<1>2. /\ disk' \in [Clients -> PersistedLease]
      /\ durable' \in SUBSET [Clients -> PersistedLease]
  BY <1>1, WriteType
<1>3. next_generation' \in Nat /\ running' \in BOOLEAN
  BY DEF TypeOK, NewGeneration
<1>4. CASE Grant(h, c, g, record)
  <2>1. groups' \in [Clients -> ActiveLeaseGroup]
    BY <1>4 DEF Grant, activate_group, TypeOK, ActiveLeaseGroup, NoActiveGroup, LeaseRecord
  <2>2. LeaseOf(c, record) \in Lease
    BY LeaseOfType
  <2> QED
    BY <1>1, <1>2, <1>3, <1>4, <2>1, <2>2 DEF Grant, TypeOK
<1>5. CASE abandon_committed_lease(c, record) /\ UNCHANGED <<held, granted>>
  BY <1>2, <1>3, <1>5
     DEF abandon_committed_lease, TypeOK, LeaseRecord, ActiveLeaseGroup, NoActiveGroup
<1>6. CASE UNCHANGED <<by_client, groups, held, granted>>
  BY <1>2, <1>3, <1>6 DEF TypeOK
<1> QED
  BY <1>4, <1>5, <1>6

LEMMA TypeStep == TypeOK /\ [Next]_pool_vars => TypeOK'
<1> SUFFICES ASSUME TypeOK, [Next]_pool_vars PROVE TypeOK'
  OBVIOUS
<1> USE PoolAssumption
<1>1. ASSUME NEW h \in Handles, NEW c \in Clients, NEW g \in GroupIds \cup {NoGroup},
             JoinGroup(h, c, g)
      PROVE  TypeOK'
  <2>1. groups' \in [Clients -> ActiveLeaseGroup]
    BY <1>1 DEF JoinGroup, TypeOK, ActiveLeaseGroup
  <2>2. LeaseOf(c, by_client[c]) \in Lease
    BY <1>1, LeaseOfType DEF JoinGroup, Joinable, Reserved, TypeOK
  <2> QED
    BY <1>1, <2>1, <2>2 DEF JoinGroup, TypeOK
<1>2. ASSUME NEW h \in Handles, NEW c \in Clients, NEW g \in GroupIds \cup {NoGroup},
             NEW outcome \in Outcomes, Renew(h, c, g, outcome)
      PROVE  TypeOK'
  <2> DEFINE record == [address |-> by_client[c].address,
                        generation |-> next_generation + 1, active |-> TRUE]
  <2>1. record \in LeaseRecord /\ record.address # NoAddress
    BY <1>2 DEF Renew, Reserved, TypeOK, LeaseRecord
  <2> HIDE DEF record
  <2> QED
    BY <1>2, <2>1, AcquireType DEF Renew, TypeOK, record
<1>3. ASSUME NEW h \in Handles, NEW c \in Clients, NEW g \in GroupIds \cup {NoGroup},
             NEW outcome \in Outcomes, Allocate(h, c, g, outcome)
      PROVE  TypeOK'
  <2>1. PICK a \in FreeAddresses :
          LET record == [address |-> a, generation |-> next_generation + 1,
                         active |-> TRUE]
          IN /\ write_state_atomically([by_client EXCEPT ![c] = record], outcome)
             /\ \/ /\ outcome = "ok"
                   /\ Grant(h, c, g, record)
                   /\ by_address' = [by_address EXCEPT ![a] = c]
                \/ /\ outcome = "durability"
                   /\ abandon_committed_lease(c, record)
                   /\ by_address' = [by_address EXCEPT ![a] = c]
                   /\ UNCHANGED <<held, granted>>
                \/ /\ outcome = "io"
                   /\ UNCHANGED <<by_client, by_address, groups, held, granted>>
    BY <1>3 DEF Allocate
  <2> DEFINE record == [address |-> a, generation |-> next_generation + 1,
                        active |-> TRUE]
  <2>2. a \in Leasable
    BY DEF FreeAddresses
  <2>3. record \in LeaseRecord /\ record.address # NoAddress
    BY <2>2 DEF LeaseRecord, TypeOK, Leasable
  <2>4. by_address' \in [Leasable -> Clients \cup {NoClient}]
    BY <2>1, <2>2 DEF TypeOK
  <2> HIDE DEF record
  <2> QED
    BY <1>3, <2>1, <2>3, <2>4, AcquireType DEF Allocate, record
<1>4. ASSUME NEW h \in Handles, NEW c \in Clients, NEW g \in GroupIds \cup {NoGroup},
             Exhausted(h, c, g)
      PROVE  TypeOK'
  BY <1>4 DEF Exhausted, NewGeneration, TypeOK
<1>5. ASSUME NEW h \in Handles, Release(h) PROVE TypeOK'
  <2>1. held[h].client \in Clients
    BY <1>5 DEF Release, TypeOK, Lease
  <2>2. groups' \in [Clients -> ActiveLeaseGroup]
    BY <1>5, <2>1 DEF Release, TypeOK, ActiveLeaseGroup, NoActiveGroup
  <2>3. by_client' \in [Clients -> LeaseRecord]
    <3> DEFINE c == held[h].client
               inactive == [by_client[c] EXCEPT !.active = FALSE]
    <3>1. \/ by_client' = by_client
          \/ by_client' = [by_client EXCEPT ![c] = inactive]
      BY <1>5 DEF Release
    <3>2. inactive \in LeaseRecord
      BY <2>1 DEF TypeOK, LeaseRecord
    <3> HIDE DEF inactive
    <3> QED
      BY <2>1, <3>1, <3>2 DEF TypeOK
  <2> QED
    BY <1>5, <2>2, <2>3 DEF Release, TypeOK
<1>6. ASSUME NEW machine \in BOOLEAN, Crash(machine) PROVE TypeOK'
  BY <1>6 DEF Crash, TypeOK, LeaseRecord, NoRecord, ActiveLeaseGroup, NoActiveGroup
<1>7. CASE load_state
  <2>1. by_client' \in [Clients -> LeaseRecord]
    BY <1>7 DEF load_state, TypeOK, LeaseRecord, PersistedLease
  <2>2. next_generation' \in Nat
    BY <1>7 DEF load_state, TypeOK, PersistedLease
  <2> QED
    BY <1>7, <2>1, <2>2 DEF load_state, TypeOK
<1>8. CASE UNCHANGED pool_vars
  BY <1>8 DEF pool_vars, TypeOK
<1> QED
  BY <1>1, <1>2, <1>3, <1>4, <1>5, <1>6, <1>7, <1>8 DEF Next, Acquire

LEMMA TypeInit == Init => TypeOK
BY PoolAssumption DEF Init, TypeOK, NoRecord, LeaseRecord, NoActiveGroup,
   ActiveLeaseGroup, PoolState, PersistedLease

(* The variables of the pool keep their types: in particular no release     *)
(* takes a group's reference count below zero.                              *)
THEOREM TypeCorrect == Spec => []TypeOK
BY TypeInit, TypeStep, PTL DEF Spec
----------------------------------------------------------------------------
(***************************************************************************)
(* Safety.  GrantsNeverMove is not inductive: that the next grant respects *)
(* the earlier ones is known only through the file the pool was loaded     *)
(* from.  The inductive invariant therefore says that the file - and every *)
(* version of it that a crash may bring back - reserves all grants, that   *)
(* the memory agrees with it, and that the generation counter is ahead of  *)
(* everything in it.                                                       *)
(***************************************************************************)
CounterIsAhead == running => \A c \in Clients :
                               by_client[c].generation <= next_generation
ActiveIsGranted == \A c \in Clients :
                     by_client[c].active => LeaseOf(c, by_client[c]) \in granted

SafetyInv ==
  /\ TypeOK
  /\ MemoryMatchesFile
  /\ disk \in durable
  /\ GrantsAreDurable
  /\ RestartIsAccepted
  /\ CounterIsAhead
  /\ ActiveIsGranted
  /\ GenerationsAreFresh

LEMMA SafetyInit == Init => SafetyInv
<1> SUFFICES ASSUME Init PROVE SafetyInv
  OBVIOUS
<1>1. TypeOK
  BY TypeInit
<1>2. MemoryMatchesFile
  BY PoolAssumption DEF Init, MemoryMatchesFile, NoRecord, Leasable
<1>3. disk \in durable /\ GrantsAreDurable /\ GenerationsAreFresh
  BY DEF Init, GrantsAreDurable, ReservesGrants, GenerationsAreFresh
<1>4. RestartIsAccepted
  BY DEF Init, RestartIsAccepted, LoadAccepts, PoolState, NoRecord
<1>5. CounterIsAhead /\ ActiveIsGranted
  BY DEF Init, CounterIsAhead, ActiveIsGranted, NoRecord
<1> QED
  BY <1>1, <1>2, <1>3, <1>4, <1>5 DEF SafetyInv

(* The file an acquisition writes: it changes the entry of one client, to a *)
(* later generation of the address the client owns or of one nobody owns.   *)
LEMMA NewFile ==
  ASSUME SafetyInv, running, NEW c \in Clients, NEW a \in Leasable,
         \/ by_client[c].address = a
         \/ by_client[c].address = NoAddress /\ by_address[a] = NoClient,
         NEW record,
         record = [address |-> a, generation |-> next_generation + 1, active |-> TRUE],
         NEW file, file = PoolState([by_client EXCEPT ![c] = record])
  PROVE  /\ LoadAccepts(file)
         /\ ReservesGrants(file)
         /\ file[c] = [address |-> a, generation |-> next_generation + 1]
<1>1. /\ file[c].address = a
      /\ file[c].generation = next_generation + 1
  BY DEF SafetyInv, PoolState, TypeOK
<1>2. file[c] = [address |-> a, generation |-> next_generation + 1]
  BY DEF SafetyInv, PoolState, TypeOK
<1>3. \A d \in Clients : d # c => file[d] = disk[d]
  BY DEF SafetyInv, MemoryMatchesFile, PoolState, TypeOK
<1>4. NoAddress \notin Leasable
  BY PoolAssumption DEF Leasable
<1>5. \A d \in Clients : disk[d].address = a => d = c
  BY PoolAssumption DEF SafetyInv, MemoryMatchesFile, TypeOK, PoolState,
                        RestartIsAccepted, LoadAccepts, Leasable
<1>6. LoadAccepts(disk) /\ ReservesGrants(disk)
  BY DEF SafetyInv, RestartIsAccepted, GrantsAreDurable
<1>7. next_generation + 1 # 0
  BY DEF SafetyInv, TypeOK
<1>8. LoadAccepts(file)
  <2>1. ASSUME NEW d \in Clients, file[d].address # NoAddress
        PROVE  file[d].generation # 0
    BY <1>1, <1>3, <1>6, <1>7, <2>1 DEF LoadAccepts
  <2>2. ASSUME NEW d \in Clients, NEW e \in Clients,
               file[d].address = file[e].address, file[d].address # NoAddress
        PROVE  d = e
    <3>1. CASE d = c \/ e = c
      BY <1>1, <1>3, <1>5, <2>2, <3>1
    <3>2. CASE d # c /\ e # c
      BY <1>1, <1>3, <1>6, <2>2, <3>2 DEF LoadAccepts
    <3> QED
      BY <3>1, <3>2
  <2> QED
    BY <2>1, <2>2 DEF LoadAccepts
<1>9. ASSUME NEW l \in granted
      PROVE  file[l.client].address = l.address /\ file[l.client].generation >= l.generation
  <2>1. l \in Lease
    BY DEF SafetyInv, TypeOK
  <2>2. CASE l.client # c
    BY <1>1, <1>3, <1>6, <2>1, <2>2 DEF ReservesGrants, Lease
  <2>3. CASE l.client = c
    <3>1. disk[c].address = l.address /\ disk[c].generation >= l.generation
      BY <1>6, <2>3 DEF ReservesGrants
    <3>2. disk[c].address = by_client[c].address /\ disk[c].generation = by_client[c].generation
      BY DEF SafetyInv, MemoryMatchesFile, PoolState
    <3>3. l.address = a
      BY <2>1, <3>1, <3>2, <1>4 DEF Lease
    <3>4. next_generation + 1 >= l.generation
      <4>1. /\ by_client[c].generation <= next_generation
            /\ by_client[c].generation \in Nat /\ next_generation \in Nat
            /\ l.generation \in Nat
        BY <2>1 DEF SafetyInv, CounterIsAhead, TypeOK, LeaseRecord, Lease
      <4> QED
        BY <3>1, <3>2, <4>1
    <3> QED
      BY <1>1, <1>3, <2>3, <3>3, <3>4
  <2> QED
    BY <2>2, <2>3
<1> QED
  BY <1>2, <1>8, <1>9 DEF ReservesGrants

(* Every lease handed out so far has an older generation than the next one. *)
LEMMA GrantsAreOlder ==
  ASSUME SafetyInv, running
  PROVE  \A l \in granted : l.generation <= next_generation
<1> SUFFICES ASSUME NEW l \in granted PROVE l.generation <= next_generation
  OBVIOUS
<1>1. l \in Lease
  BY DEF SafetyInv, TypeOK
<1>2. disk[l.client].generation >= l.generation
  BY DEF SafetyInv, GrantsAreDurable, ReservesGrants
<1>3. /\ disk[l.client].generation = by_client[l.client].generation
      /\ by_client[l.client].generation <= next_generation
      /\ by_client[l.client].generation \in Nat
  BY <1>1 DEF SafetyInv, MemoryMatchesFile, PoolState, CounterIsAhead, TypeOK,
              LeaseRecord, Lease
<1> QED
  BY <1>1, <1>2, <1>3 DEF Lease, SafetyInv, TypeOK

LEMMA AcquireSafe ==
  ASSUME SafetyInv, TypeOK', NEW h \in Handles, NEW c \in Clients,
         NEW g \in GroupIds \cup {NoGroup}, NEW outcome \in Outcomes,
         NEW a \in Leasable, NEW record,
         record = [address |-> a, generation |-> next_generation + 1, active |-> TRUE],
         NewGeneration(h, c, g),
         \/ by_client[c].address = a
         \/ by_client[c].address = NoAddress /\ by_address[a] = NoClient,
         write_state_atomically([by_client EXCEPT ![c] = record], outcome),
         \/ /\ outcome = "ok"
            /\ Grant(h, c, g, record)
            /\ by_address' = [by_address EXCEPT ![a] = c]
         \/ /\ outcome = "durability"
            /\ abandon_committed_lease(c, record)
            /\ by_address' = [by_address EXCEPT ![a] = c]
            /\ UNCHANGED <<held, granted>>
         \/ /\ outcome = "io"
            /\ UNCHANGED <<by_client, by_address, groups, held, granted>>
  PROVE  SafetyInv'
<1> DEFINE file  == PoolState([by_client EXCEPT ![c] = record])
           lease == LeaseOf(c, record)
<1>1. /\ running /\ running'
      /\ next_generation' = next_generation + 1
      /\ next_generation \in Nat
  BY DEF NewGeneration, SafetyInv, TypeOK
<1>2. /\ LoadAccepts(file)
      /\ ReservesGrants(file)
      /\ file[c] = [address |-> a, generation |-> next_generation + 1]
  BY <1>1, NewFile
<1>3. lease = [client |-> c, address |-> a, generation |-> next_generation + 1]
  BY DEF LeaseOf
<1>4. CASE outcome = "io"
  BY <1>1, <1>4 DEF SafetyInv, MemoryMatchesFile, GrantsAreDurable, ReservesGrants,
       RestartIsAccepted, CounterIsAhead, ActiveIsGranted, GenerationsAreFresh,
       write_state_atomically, TypeOK, LeaseRecord
<1>5. ASSUME outcome # "io"
      PROVE  /\ disk' = file
             /\ disk' \in durable'
             /\ by_address' = [by_address EXCEPT ![a] = c]
             /\ \A d \in Clients \ {c} : by_client'[d] = by_client[d]
             /\ by_client'[c].address = a
             /\ by_client'[c].generation = next_generation + 1
  <2>1. /\ disk' = file
        /\ disk' \in durable'
        /\ by_address' = [by_address EXCEPT ![a] = c]
    BY <1>5 DEF write_state_atomically
  <2>2. /\ [record EXCEPT !.active = FALSE].address = a
        /\ [record EXCEPT !.active = FALSE].generation = next_generation + 1
        /\ record.address = a
        /\ record.generation = next_generation + 1
    OBVIOUS
  <2>3. \E r : /\ by_client' = [by_client EXCEPT ![c] = r]
               /\ r.address = a
               /\ r.generation = next_generation + 1
    BY <1>5, <2>2 DEF Grant, abandon_committed_lease
  <2> QED
    BY <2>1, <2>3 DEF SafetyInv, TypeOK
<1>6. CASE outcome # "io"
  <2>1. MemoryMatchesFile'
    <3>1. disk' = PoolState(by_client)'
      BY <1>5, <1>6 DEF PoolState, SafetyInv, TypeOK
    <3>2. ASSUME NEW b \in Leasable, NEW d \in Clients
          PROVE  by_address'[b] = d <=> by_client'[d].address = b
      <4>1. by_address[b] = d <=> by_client[d].address = b
        BY <1>1 DEF SafetyInv, MemoryMatchesFile
      <4>2. \A e \in Clients : by_client[e].address = a => e = c
        BY <1>1, PoolAssumption DEF SafetyInv, MemoryMatchesFile, Leasable
      <4>3. by_address'[b] = IF b = a THEN c ELSE by_address[b]
        BY <1>5, <1>6 DEF SafetyInv, TypeOK
      <4>4. CASE d = c
        BY <1>5, <1>6, <4>1, <4>3, <4>4, PoolAssumption DEF Leasable
      <4>5. CASE d # c
        BY <1>5, <1>6, <4>1, <4>2, <4>3, <4>5
      <4> QED
        BY <4>4, <4>5
    <3> QED
      BY <3>1, <3>2 DEF MemoryMatchesFile
  <2>2. RestartIsAccepted'
    <3>1. durable' \cup {disk'} \subseteq durable \cup {file}
      BY <1>5, <1>6 DEF write_state_atomically
    <3> HIDE DEF file
    <3> QED
      BY <1>2, <3>1 DEF RestartIsAccepted, SafetyInv
  <2>3. CounterIsAhead'
    BY <1>1, <1>5, <1>6 DEF CounterIsAhead, SafetyInv, TypeOK, LeaseRecord
  <2>4. CASE outcome = "durability"
    <3>1. granted' = granted
      BY <2>4
    <3>2. GrantsAreDurable' /\ GenerationsAreFresh'
      <4>1. durable' \cup {disk'} \subseteq durable \cup {file}
        BY <2>4 DEF write_state_atomically
      <4>2. GenerationsAreFresh'
        BY <3>1 DEF SafetyInv, GenerationsAreFresh
      <4> HIDE DEF file
      <4> QED
        BY <1>2, <3>1, <4>1, <4>2 DEF SafetyInv, GrantsAreDurable, ReservesGrants
    <3>3. ActiveIsGranted'
      <4>1. by_client'[c].active = FALSE
        BY <2>4 DEF abandon_committed_lease, SafetyInv, TypeOK
      <4> QED
        BY <1>5, <1>6, <3>1, <4>1 DEF ActiveIsGranted, SafetyInv, LeaseOf
    <3> QED
      BY <1>5, <1>6, <2>1, <2>2, <2>3, <3>2, <3>3 DEF SafetyInv
  <2>5. CASE outcome = "ok"
    <3>1. granted' = granted \cup {lease}
      BY <2>5 DEF Grant
    <3>2. GrantsAreDurable'
      <4>1. durable' = {file} /\ disk' = file
        BY <2>5 DEF write_state_atomically
      <4>2. file[lease.client].address = lease.address
            /\ file[lease.client].generation >= lease.generation
        BY <1>1, <1>2, <1>3
      <4> HIDE DEF lease, file
      <4> QED
        BY <1>2, <3>1, <4>1, <4>2 DEF GrantsAreDurable, ReservesGrants
    <3>3. GenerationsAreFresh'
      <4>1. \A l \in granted : l.generation # lease.generation
        BY <1>1, <1>3, GrantsAreOlder DEF SafetyInv, TypeOK, Lease
      <4> HIDE DEF lease
      <4> QED
        BY <3>1, <4>1 DEF GenerationsAreFresh, SafetyInv
    <3>4. ActiveIsGranted'
      <4>1. by_client'[c] = record
        BY <2>5 DEF Grant, SafetyInv, TypeOK
      <4> QED
        BY <1>5, <1>6, <3>1, <4>1 DEF ActiveIsGranted, SafetyInv, LeaseOf
    <3> QED
      BY <1>5, <1>6, <2>1, <2>2, <2>3, <3>2, <3>3, <3>4 DEF SafetyInv
  <2> QED
    BY <1>6, <2>4, <2>5 DEF Outcomes
<1> QED
  BY <1>4, <1>6

LEMMA SafetyStep == SafetyInv /\ [Next]_pool_vars => SafetyInv'
<1> SUFFICES ASSUME SafetyInv, [Next]_pool_vars PROVE SafetyInv'
  OBVIOUS
<1>0. TypeOK /\ TypeOK'
  BY TypeStep DEF SafetyInv
<1>1. ASSUME NEW h \in Handles, NEW c \in Clients, NEW g \in GroupIds \cup {NoGroup},
             JoinGroup(h, c, g)
      PROVE  SafetyInv'
  <2>1. granted' = granted
    BY <1>1 DEF JoinGroup, Joinable, SafetyInv, ActiveIsGranted
  <2> QED
    BY <1>0, <1>1, <2>1 DEF JoinGroup, SafetyInv, MemoryMatchesFile, GrantsAreDurable,
         ReservesGrants, RestartIsAccepted, CounterIsAhead, ActiveIsGranted,
         GenerationsAreFresh
<1>2. ASSUME NEW h \in Handles, NEW c \in Clients, NEW g \in GroupIds \cup {NoGroup},
             NEW outcome \in Outcomes, Renew(h, c, g, outcome)
      PROVE  SafetyInv'
  <2> DEFINE a == by_client[c].address
             record == [address |-> by_client[c].address,
                        generation |-> next_generation + 1, active |-> TRUE]
  <2>1. a \in Leasable
    BY <1>0, <1>2 DEF Renew, Reserved, TypeOK, LeaseRecord
  <2>2. by_address[a] = c
    BY <1>2, <2>1 DEF Renew, NewGeneration, SafetyInv, MemoryMatchesFile
  <2>3. by_address' = [by_address EXCEPT ![a] = c]
    BY <1>0, <1>2, <2>1, <2>2 DEF Renew, TypeOK
  <2>4. by_client[c].address = a
    OBVIOUS
  <2>5. record = [address |-> a, generation |-> next_generation + 1, active |-> TRUE]
    OBVIOUS
  <2>6. /\ NewGeneration(h, c, g)
        /\ write_state_atomically([by_client EXCEPT ![c] = record], outcome)
        /\ \/ outcome = "ok" /\ Grant(h, c, g, record)
           \/ /\ outcome = "durability"
              /\ abandon_committed_lease(c, record)
              /\ UNCHANGED <<held, granted>>
           \/ outcome = "io" /\ UNCHANGED <<by_client, by_address, groups, held, granted>>
    BY <1>2 DEF Renew
  <2> HIDE DEF a, record
  <2> QED
    BY <1>0, <2>1, <2>3, <2>4, <2>5, <2>6, AcquireSafe
<1>3. ASSUME NEW h \in Handles, NEW c \in Clients, NEW g \in GroupIds \cup {NoGroup},
             NEW outcome \in Outcomes, Allocate(h, c, g, outcome)
      PROVE  SafetyInv'
  <2>1. PICK a \in FreeAddresses :
          LET record == [address |-> a, generation |-> next_generation + 1,
                         active |-> TRUE]
          IN /\ write_state_atomically([by_client EXCEPT ![c] = record], outcome)
             /\ \/ /\ outcome = "ok"
                   /\ Grant(h, c, g, record)
                   /\ by_address' = [by_address EXCEPT ![a] = c]
                \/ /\ outcome = "durability"
                   /\ abandon_committed_lease(c, record)
                   /\ by_address' = [by_address EXCEPT ![a] = c]
                   /\ UNCHANGED <<held, granted>>
                \/ /\ outcome = "io"
                   /\ UNCHANGED <<by_client, by_address, groups, held, granted>>
    BY <1>3 DEF Allocate
  <2>2. a \in Leasable /\ by_address[a] = NoClient
    BY DEF FreeAddresses
  <2>3. NewGeneration(h, c, g) /\ by_client[c].address = NoAddress
    BY <1>3 DEF Allocate, Reserved
  <2> QED
    BY <1>0, <2>1, <2>2, <2>3, AcquireSafe
<1>4. ASSUME NEW h \in Handles, NEW c \in Clients, NEW g \in GroupIds \cup {NoGroup},
             Exhausted(h, c, g)
      PROVE  SafetyInv'
  BY <1>0, <1>4 DEF Exhausted, NewGeneration, SafetyInv, MemoryMatchesFile,
       GrantsAreDurable, ReservesGrants, RestartIsAccepted, CounterIsAhead,
       ActiveIsGranted, GenerationsAreFresh, TypeOK, LeaseRecord
<1>5. ASSUME NEW h \in Handles, Release(h) PROVE SafetyInv'
  <2> DEFINE c == held[h].client
  <2>1. UNCHANGED <<by_address, next_generation, running, disk, durable, granted>>
    BY <1>5 DEF Release
  <2>2. ASSUME NEW d \in Clients
        PROVE  /\ by_client'[d].address = by_client[d].address
               /\ by_client'[d].generation = by_client[d].generation
               /\ by_client'[d].active => by_client[d].active
    <3>1. \/ by_client' = by_client
          \/ by_client' = [by_client EXCEPT ![c].active = FALSE]
      BY <1>5 DEF Release
    <3> QED
      BY <1>0, <3>1 DEF TypeOK, LeaseRecord
  <2>3. PoolState(by_client)' = PoolState(by_client)
    BY <2>2 DEF PoolState
  <2> QED
    BY <1>0, <2>1, <2>2, <2>3 DEF SafetyInv, MemoryMatchesFile, GrantsAreDurable,
         ReservesGrants, RestartIsAccepted, CounterIsAhead, ActiveIsGranted,
         GenerationsAreFresh, LeaseOf
<1>6. ASSUME NEW machine \in BOOLEAN, Crash(machine) PROVE SafetyInv'
  <2>1. /\ running' = FALSE /\ granted' = granted
        /\ by_client' = [c \in Clients |-> NoRecord]
        /\ disk' \in durable' /\ durable' \cup {disk'} \subseteq durable \cup {disk}
    BY <1>6 DEF Crash, SafetyInv
  <2>2. MemoryMatchesFile' /\ CounterIsAhead' /\ ActiveIsGranted'
    BY <2>1 DEF MemoryMatchesFile, CounterIsAhead, ActiveIsGranted, NoRecord
  <2>3. GrantsAreDurable' /\ RestartIsAccepted' /\ GenerationsAreFresh'
    BY <2>1 DEF SafetyInv, GrantsAreDurable, ReservesGrants, RestartIsAccepted,
         GenerationsAreFresh
  <2> QED
    BY <1>0, <2>1, <2>2, <2>3 DEF SafetyInv
<1>7. CASE load_state
  <2>1. MemoryMatchesFile'
    <3>1. disk' = PoolState(by_client)'
      <4>1. disk' = disk /\ \A c \in Clients : disk[c] \in PersistedLease
        BY <1>0, <1>7 DEF load_state, TypeOK
      <4> QED
        BY <1>0, <1>7, <4>1 DEF load_state, PoolState, TypeOK, PersistedLease
    <3> QED
      BY <1>7, <3>1 DEF load_state, MemoryMatchesFile
  <2>2. CounterIsAhead' /\ ActiveIsGranted'
    BY <1>7 DEF load_state, CounterIsAhead, ActiveIsGranted
  <2> QED
    BY <1>0, <1>7, <2>1, <2>2 DEF load_state, SafetyInv, GrantsAreDurable,
         ReservesGrants, RestartIsAccepted, GenerationsAreFresh
<1>8. CASE UNCHANGED pool_vars
  BY <1>0, <1>8 DEF pool_vars, SafetyInv, MemoryMatchesFile, GrantsAreDurable, ReservesGrants,
       RestartIsAccepted, CounterIsAhead, ActiveIsGranted, GenerationsAreFresh
<1> QED
  BY <1>1, <1>2, <1>3, <1>4, <1>5, <1>6, <1>7, <1>8 DEF Next, Acquire

(* A file that reserves every grant and that load_state accepts leaves no   *)
(* room for two clients at one address or one client at two.                *)
LEMMA SafetyImplies == SafetyInv => GrantsNeverMove
<1> SUFFICES ASSUME SafetyInv, NEW l \in granted, NEW m \in granted
             PROVE  l.client = m.client <=> l.address = m.address
  BY DEF GrantsNeverMove
<1>1. l \in Lease /\ m \in Lease
  BY DEF SafetyInv, TypeOK
<1>2. disk[l.client].address = l.address /\ disk[m.client].address = m.address
  BY DEF SafetyInv, GrantsAreDurable, ReservesGrants
<1>3. l.address # NoAddress
  BY <1>1, PoolAssumption DEF Lease, Leasable
<1> QED
  BY <1>1, <1>2, <1>3 DEF SafetyInv, RestartIsAccepted, LoadAccepts, Lease

(* acquire, release, failed writes and restarts of pool.rs keep the         *)
(* inductive invariant.                                                     *)
THEOREM SafetyCorrect == Spec => []SafetyInv
BY SafetyInit, SafetyStep, PTL DEF Spec

(* No address pool.rs ever handed out is given to another identity, and no  *)
(* identity is moved, across failed writes and crashes.                     *)
THEOREM GrantsAreForLife == Spec => []GrantsNeverMove
BY SafetyCorrect, SafetyImplies, PTL

(* acquire never hands out a generation twice, not even after load_state.   *)
THEOREM GenerationsNeverRepeat == Spec => []GenerationsAreFresh
<1>1. SafetyInv => GenerationsAreFresh
  BY DEF SafetyInv
<1> QED
  BY <1>1, SafetyCorrect, PTL

(* Every version of the lease file a crash may leave reserves every grant.  *)
THEOREM GrantsSurviveCrashes == Spec => []GrantsAreDurable
<1>1. SafetyInv => GrantsAreDurable
  BY DEF SafetyInv
<1> QED
  BY <1>1, SafetyCorrect, PTL

(* An address pool.rs handed out stays with its identity, in memory and in  *)
(* every version of the lease file.                                         *)
THEOREM GrantsStay == Spec => []GrantsAreKept
<1>1. GrantsNeverMove /\ GrantsAreDurable => GrantsAreKept
  BY DEF GrantsAreKept
<1> QED
  BY <1>1, GrantsAreForLife, GrantsSurviveCrashes, PTL

(* load_state accepts every file that persist_state_locked writes.          *)
THEOREM RestartsSucceed == Spec => []RestartIsAccepted
<1>1. SafetyInv => RestartIsAccepted
  BY DEF SafetyInv
<1> QED
  BY <1>1, SafetyCorrect, PTL
----------------------------------------------------------------------------
(* Refinement: how a step changes the set of grants. *)
LEMMA GrantStep ==
  ASSUME SafetyInv, [Next]_pool_vars
  PROVE  \/ granted' = granted
         \/ \E l \in Lease : granted' = granted \cup {l}
<1>0. TypeOK /\ granted' \in SUBSET Lease
  BY TypeStep DEF SafetyInv, TypeOK
<1> SUFFICES \/ granted' = granted
             \/ \E l : granted' = granted \cup {l}
  BY <1>0
<1>1. ASSUME NEW h \in Handles, NEW c \in Clients, NEW g \in GroupIds \cup {NoGroup},
             Acquire(h, c, g)
      PROVE  \/ granted' = granted
             \/ \E l : granted' = granted \cup {l}
  BY <1>1 DEF Acquire, JoinGroup, Renew, Allocate, Exhausted, Grant
<1>2. CASE (\E h \in Handles : Release(h)) \/ (\E machine \in BOOLEAN : Crash(machine))
           \/ load_state \/ UNCHANGED pool_vars
  BY <1>2 DEF Release, Crash, load_state, pool_vars
<1> QED
  BY <1>1, <1>2 DEF Next

(* The pool implements the address book: acquire enters an identity at most *)
(* once, under an unowned address, and nothing in pool.rs, no failed write  *)
(* and no restart changes or removes an entry.                              *)
THEOREM PoolIsAnAddressBook == Spec => ImplementsAddressBook
<1> DEFINE book == {<<l.client, l.address>> : l \in granted}
<1>1. Init => Book!Init
  BY DEF Init, Book!Init
<1>2. SafetyInv /\ SafetyInv' /\ [Next]_pool_vars => [Book!Next]_book
  <2> SUFFICES ASSUME SafetyInv, SafetyInv', [Next]_pool_vars
               PROVE  [Book!Next]_book
    OBVIOUS
  <2>1. CASE granted' = granted
    BY <2>1
  <2>2. ASSUME NEW l \in Lease, granted' = granted \cup {l}
        PROVE  [Book!Next]_book
    <3>1. book' = book \cup {<<l.client, l.address>>}
      BY <2>2
    <3>2. CASE <<l.client, l.address>> \in book
      BY <3>1, <3>2
    <3>3. CASE <<l.client, l.address>> \notin book
      <4>1. GrantsNeverMove'
        <5>1. SafetyInv' => GrantsNeverMove'
          BY SafetyImplies, PTL
        <5> QED
          BY <5>1
      <4>2. \A m \in granted : m.client # l.client /\ m.address # l.address
        BY <2>2, <3>3, <4>1 DEF GrantsNeverMove
      <4>3. Book!Assign(l.client, l.address)
        BY <3>1, <4>2 DEF Book!Assign
      <4>4. l.client \in Clients /\ l.address \in Leasable
        BY DEF Lease
      <4> QED
        BY <4>3, <4>4 DEF Book!Next
    <3> QED
      BY <3>2, <3>3
  <2> QED
    BY <2>1, <2>2, GrantStep
<1> QED
  BY <1>1, <1>2, SafetyCorrect, PTL DEF Spec, ImplementsAddressBook, Book!Spec
----------------------------------------------------------------------------
(***************************************************************************)
(* Activity.  A holder is recognised by its generation, so counting the    *)
(* holders right needs that every lease held was granted, that the counter *)
(* is ahead of it, and that nobody holds a lease while the daemon is down. *)
(***************************************************************************)
HoldersAreGranted ==
  /\ \A h \in Handles : held[h] # NoLease => held[h] \in granted
  /\ ~running => /\ \A h \in Handles : held[h] = NoLease
                 /\ \A c \in Clients : groups[c] = NoActiveGroup

(* ActiveIffHeld for one client. *)
Counted(c) ==
  /\ by_client[c].active <=> Holders(c) # {}
  /\ groups[c] # NoActiveGroup =>
       /\ by_client[c].active
       /\ groups[c].generation = by_client[c].generation
       /\ groups[c].references = Cardinality(Holders(c))
  /\ groups[c] = NoActiveGroup => Cardinality(Holders(c)) <= 1

HoldInv == SafetyInv /\ HoldersAreGranted /\ \A c \in Clients : Counted(c)

LEMMA HoldersFinite == \A c \in Clients :
  /\ IsFiniteSet(Holders(c))
  /\ Cardinality(Holders(c)) \in Nat
  /\ Holders(c) = {} <=> Cardinality(Holders(c)) = 0
<1> SUFFICES ASSUME NEW c \in Clients
             PROVE  /\ IsFiniteSet(Holders(c))
                    /\ Cardinality(Holders(c)) \in Nat
                    /\ Holders(c) = {} <=> Cardinality(Holders(c)) = 0
  OBVIOUS
<1>1. Holders(c) \subseteq Handles
  BY DEF Holders
<1>2. IsFiniteSet(Holders(c))
  BY <1>1, PoolAssumption, FS_Subset
<1> QED
  BY <1>2, FS_CardinalityType, FS_EmptySet

LEMMA NobodyHolds == \A c \in Clients, record \in LeaseRecord : NoLease # LeaseOf(c, record)
BY PoolAssumption DEF NoLease, LeaseOf

(* A client whose record, group and holders a step leaves alone. *)
LEMMA CountedUnchanged ==
  ASSUME NEW c \in Clients, Counted(c), Holders(c)' = Holders(c),
         by_client'[c] = by_client[c], groups'[c] = groups[c]
  PROVE  Counted(c)'
BY DEF Counted

(* A client that nobody holds a lease of. *)
LEMMA CountedIdle ==
  ASSUME NEW c \in Clients, Holders(c)' = {}, by_client'[c].active = FALSE,
         groups'[c] = NoActiveGroup
  PROVE  Counted(c)'
BY FS_EmptySet DEF Counted

LEMMA AcquireCounts ==
  ASSUME HoldInv, TypeOK', NEW h \in Handles, NEW c \in Clients,
         NEW g \in GroupIds \cup {NoGroup},
         NEW a \in Leasable, NEW record,
         record = [address |-> a, generation |-> next_generation + 1, active |-> TRUE],
         NewGeneration(h, c, g),
         \/ Grant(h, c, g, record)
         \/ abandon_committed_lease(c, record) /\ UNCHANGED <<held, granted>>
         \/ UNCHANGED <<by_client, groups, held, granted>>
  PROVE  HoldersAreGranted' /\ \A d \in Clients : Counted(d)'
<1> DEFINE lease == LeaseOf(c, record)
<1>0. /\ SafetyInv /\ HoldersAreGranted /\ TypeOK
      /\ running /\ running' /\ held[h] = NoLease
  BY DEF HoldInv, SafetyInv, NewGeneration
<1>1. lease = [client |-> c, address |-> a, generation |-> next_generation + 1]
  BY DEF LeaseOf
<1>2. \A k \in Handles : held[k].generation # next_generation + 1
  <2> SUFFICES ASSUME NEW k \in Handles PROVE held[k].generation # next_generation + 1
    OBVIOUS
  <2>1. next_generation \in Nat
    BY <1>0 DEF TypeOK
  <2>2. CASE held[k] = NoLease
    BY <2>1, <2>2 DEF NoLease
  <2>3. CASE held[k] \in granted
    BY <1>0, <2>1, <2>3, GrantsAreOlder DEF TypeOK, Lease
  <2> QED
    BY <1>0, <2>2, <2>3 DEF HoldersAreGranted
<1>3. CASE Grant(h, c, g, record)
  <2>1. /\ by_client' = [by_client EXCEPT ![c] = record]
        /\ held' = [held EXCEPT ![h] = lease]
        /\ granted' = granted \cup {lease}
        /\ groups' = [groups EXCEPT ![c] =
                        IF g = NoGroup THEN NoActiveGroup
                        ELSE [id |-> g, generation |-> record.generation, references |-> 1]]
    BY <1>3 DEF Grant, activate_group
  <2>2. HoldersAreGranted'
    BY <1>0, <2>1 DEF HoldersAreGranted, TypeOK
  <2>3. ASSUME NEW d \in Clients, d # c PROVE Counted(d)'
    <3>1. by_client'[d] = by_client[d] /\ groups'[d] = groups[d]
      BY <1>0, <2>1, <2>3 DEF TypeOK
    <3>2. \A k \in Handles : held'[k] = LeaseOf(d, by_client[d])
                             <=> held[k] = LeaseOf(d, by_client[d])
      BY <1>0, <1>1, <2>1, <2>3, NobodyHolds DEF TypeOK, LeaseOf
    <3>3. Holders(d)' = Holders(d)
      BY <3>1, <3>2 DEF Holders
    <3> QED
      BY <3>1, <3>3, CountedUnchanged DEF HoldInv
  <2>4. Counted(c)'
    <3>1. by_client'[c] = record
      BY <1>0, <2>1 DEF TypeOK
    <3>2. \A k \in Handles : held'[k] = lease <=> k = h
      BY <1>0, <1>1, <1>2, <2>1 DEF TypeOK
    <3>3. Holders(c)' = {h}
      BY <3>1, <3>2 DEF Holders
    <3>4. Cardinality({h}) = 1
      BY FS_Singleton
    <3>5. CASE g = NoGroup
      <4>1. groups'[c] = NoActiveGroup
        BY <1>0, <2>1, <3>5 DEF TypeOK
      <4> QED
        BY <3>1, <3>3, <3>4, <4>1 DEF Counted
    <3>6. CASE g # NoGroup
      <4>1. groups'[c] = [id |-> g, generation |-> record.generation, references |-> 1]
        BY <1>0, <2>1, <3>6 DEF TypeOK
      <4>2. groups'[c] # NoActiveGroup
        BY <3>6, <4>1 DEF NoActiveGroup
      <4>3. groups'[c].generation = record.generation /\ groups'[c].references = 1
        BY <4>1
      <4> QED
        BY <3>1, <3>3, <3>4, <4>2, <4>3 DEF Counted
    <3> QED
      BY <3>5, <3>6
  <2> QED
    BY <2>2, <2>3, <2>4
<1>4. CASE abandon_committed_lease(c, record) /\ UNCHANGED <<held, granted>>
  <2>1. HoldersAreGranted'
    BY <1>0, <1>4 DEF HoldersAreGranted
  <2>2. ASSUME NEW d \in Clients, d # c PROVE Counted(d)'
    <3>1. /\ by_client'[d] = by_client[d] /\ groups'[d] = groups[d]
          /\ held' = held
      BY <1>0, <1>4, <2>2 DEF abandon_committed_lease, TypeOK
    <3>2. Holders(d)' = Holders(d)
      BY <3>1 DEF Holders
    <3> QED
      BY <3>1, <3>2, CountedUnchanged DEF HoldInv
  <2>3. Counted(c)'
    <3>1. /\ by_client'[c].active = FALSE
          /\ by_client'[c].generation = next_generation + 1
          /\ groups'[c] = NoActiveGroup
          /\ held' = held
      BY <1>0, <1>4 DEF abandon_committed_lease, TypeOK
    <3>2. Holders(c)' = {}
      BY <1>2, <3>1 DEF Holders, LeaseOf
    <3> QED
      BY <3>1, <3>2, CountedIdle
  <2> QED
    BY <2>1, <2>2, <2>3
<1>5. CASE UNCHANGED <<by_client, groups, held, granted>>
  <2>1. \A d \in Clients : Holders(d)' = Holders(d)
    BY <1>5 DEF Holders
  <2> QED
    BY <1>0, <1>5, <2>1 DEF HoldersAreGranted, HoldInv, Counted
<1> QED
  BY <1>3, <1>4, <1>5

LEMMA HoldStep == HoldInv /\ [Next]_pool_vars => HoldInv'
<1> SUFFICES ASSUME HoldInv, [Next]_pool_vars
             PROVE  HoldersAreGranted' /\ \A c \in Clients : Counted(c)'
  BY SafetyStep DEF HoldInv
<1>0. SafetyInv /\ HoldersAreGranted /\ TypeOK /\ TypeOK'
  BY TypeStep DEF HoldInv, SafetyInv
<1>1. ASSUME NEW h \in Handles, NEW c \in Clients, NEW g \in GroupIds \cup {NoGroup},
             JoinGroup(h, c, g)
      PROVE  HoldersAreGranted' /\ \A d \in Clients : Counted(d)'
  <2> DEFINE lease == LeaseOf(c, by_client[c])
  <2>1. /\ running /\ running' /\ held[h] = NoLease /\ by_client' = by_client
        /\ groups' = [groups EXCEPT ![c].references = @ + 1]
        /\ held' = [held EXCEPT ![h] = lease] /\ granted' = granted \cup {lease}
        /\ by_client[c].active /\ groups[c].id # NoGroup
    BY <1>1 DEF JoinGroup, Joinable
  <2>2. HoldersAreGranted'
    BY <1>0, <2>1 DEF HoldersAreGranted, TypeOK
  <2>3. ASSUME NEW d \in Clients, d # c PROVE Counted(d)'
    <3>1. groups'[d] = groups[d]
      BY <1>0, <2>1, <2>3 DEF TypeOK
    <3>2. \A k \in Handles : held'[k] = LeaseOf(d, by_client[d])
                             <=> held[k] = LeaseOf(d, by_client[d])
      BY <1>0, <2>1, <2>3, NobodyHolds DEF TypeOK, LeaseOf
    <3>3. Holders(d)' = Holders(d)
      BY <2>1, <3>2 DEF Holders
    <3> QED
      BY <2>1, <3>1, <3>3, CountedUnchanged DEF HoldInv
  <2>4. Counted(c)'
    <3>1. /\ groups'[c].references = groups[c].references + 1
          /\ groups'[c].generation = groups[c].generation
          /\ groups'[c].id # NoGroup
      BY <1>0, <2>1 DEF TypeOK, ActiveLeaseGroup
    <3>2. groups[c] # NoActiveGroup /\ groups'[c] # NoActiveGroup
      BY <2>1, <3>1 DEF NoActiveGroup
    <3>3. Holders(c)' = Holders(c) \cup {h} /\ h \notin Holders(c)
      BY <1>0, <2>1, NobodyHolds DEF Holders, TypeOK
    <3>4. Cardinality(Holders(c)') = Cardinality(Holders(c)) + 1
      BY <3>3, HoldersFinite, FS_AddElement
    <3> QED
      BY <2>1, <3>1, <3>2, <3>3, <3>4 DEF HoldInv, Counted
  <2> QED
    BY <2>2, <2>3, <2>4
<1>2. ASSUME NEW h \in Handles, NEW c \in Clients, NEW g \in GroupIds \cup {NoGroup},
             NEW outcome \in Outcomes, Renew(h, c, g, outcome)
      PROVE  HoldersAreGranted' /\ \A d \in Clients : Counted(d)'
  <2>1. by_client[c].address \in Leasable
    BY <1>0, <1>2 DEF Renew, Reserved, TypeOK, LeaseRecord
  <2> QED
    BY <1>0, <1>2, <2>1, AcquireCounts DEF Renew
<1>3. ASSUME NEW h \in Handles, NEW c \in Clients, NEW g \in GroupIds \cup {NoGroup},
             NEW outcome \in Outcomes, Allocate(h, c, g, outcome)
      PROVE  HoldersAreGranted' /\ \A d \in Clients : Counted(d)'
  <2>1. \A a \in FreeAddresses : a \in Leasable
    BY DEF FreeAddresses
  <2> QED
    BY <1>0, <1>3, <2>1, AcquireCounts DEF Allocate
<1>4. ASSUME UNCHANGED <<by_client, groups, held, granted, running>>
      PROVE  HoldersAreGranted' /\ \A c \in Clients : Counted(c)'
  <2>1. \A c \in Clients : Holders(c)' = Holders(c)
    BY <1>4 DEF Holders
  <2> QED
    BY <1>0, <1>4, <2>1 DEF HoldersAreGranted, HoldInv, Counted
<1>5. ASSUME NEW h \in Handles, Release(h)
      PROVE  HoldersAreGranted' /\ \A d \in Clients : Counted(d)'
  <2>1. /\ running /\ running' = running /\ held[h] # NoLease /\ granted' = granted
        /\ held' = [held EXCEPT ![h] = NoLease]
    BY <1>5 DEF Release
  <2>2. PICK lease \in Lease : lease = held[h] /\ lease \in granted
    BY <1>0, <2>1 DEF HoldersAreGranted, TypeOK
  <2>3. PICK c \in Clients : c = lease.client
    BY DEF Lease
  <2>4. HoldersAreGranted'
    BY <1>0, <2>1 DEF HoldersAreGranted, TypeOK
  <2>5. lease.generation = by_client[c].generation => lease = LeaseOf(c, by_client[c])
    <3>1. lease.address = by_client[c].address
      BY <1>0, <2>1, <2>2, <2>3 DEF SafetyInv, GrantsAreDurable, ReservesGrants,
                                    MemoryMatchesFile, PoolState
    <3> QED
      BY <2>3, <3>1 DEF LeaseOf, Lease
  <2>6. ASSUME NEW d \in Clients, d # c PROVE Counted(d)'
    <3>1. by_client'[d] = by_client[d] /\ groups'[d] = groups[d]
      BY <1>0, <1>5, <2>2, <2>3, <2>6 DEF Release, TypeOK
    <3>2. Holders(d)' = Holders(d)
      BY <1>0, <2>1, <2>2, <2>3, <2>6, <3>1, NobodyHolds DEF Holders, LeaseOf, TypeOK
    <3> QED
      BY <3>1, <3>2, CountedUnchanged DEF HoldInv
  <2>7. CASE by_client[c].generation # lease.generation
    <3>1. by_client' = by_client /\ groups' = groups
      BY <1>5, <2>2, <2>3, <2>7 DEF Release
    <3>2. Holders(c)' = Holders(c)
      BY <1>0, <2>1, <2>2, <2>7, <3>1, NobodyHolds DEF Holders, LeaseOf, TypeOK
    <3>3. Counted(c)'
      BY <3>1, <3>2, CountedUnchanged DEF HoldInv
    <3> QED
      BY <2>4, <2>6, <3>3
  <2>8. CASE by_client[c].generation = lease.generation
    <3>1. h \in Holders(c) /\ Counted(c)
      BY <2>2, <2>5, <2>8 DEF Holders, HoldInv
    <3>2. /\ by_client'[c].address = by_client[c].address
          /\ by_client'[c].generation = by_client[c].generation
      <4>1. \/ by_client' = by_client
            \/ by_client' = [by_client EXCEPT ![c].active = FALSE]
        BY <1>5, <2>2, <2>3 DEF Release
      <4> QED
        BY <1>0, <4>1 DEF TypeOK, LeaseRecord
    <3>3. LeaseOf(c, by_client'[c]) = LeaseOf(c, by_client[c])
      BY <3>2 DEF LeaseOf
    <3>4. Holders(c)' = Holders(c) \ {h}
      BY <1>0, <2>1, <2>2, <3>3, NobodyHolds DEF Holders, TypeOK
    <3>5. Cardinality(Holders(c)') = Cardinality(Holders(c)) - 1
      BY <3>1, <3>4, HoldersFinite, FS_RemoveElement
    <3>6. IsFiniteSet(Holders(c)')
      BY <3>4, HoldersFinite, FS_RemoveElement
    <3>7. CASE groups[c].generation = lease.generation /\ groups[c].references > 1
      <4>1. by_client' = by_client /\ groups' = [groups EXCEPT ![c].references = @ - 1]
        BY <1>5, <2>2, <2>3, <2>8, <3>7 DEF Release
      <4>2. /\ groups'[c].references = groups[c].references - 1
            /\ groups'[c].generation = groups[c].generation
            /\ groups'[c].references \in Nat \ {0}
        BY <1>0, <3>7, <4>1 DEF TypeOK, ActiveLeaseGroup
      <4>3. groups[c] # NoActiveGroup /\ groups'[c] # NoActiveGroup
        <5>1. NoActiveGroup.references = 0
          BY DEF NoActiveGroup
        <5>2. groups[c].references # 0 /\ groups'[c].references # 0
          BY <3>7, <4>2
        <5> QED
          BY <5>1, <5>2
      <4>4. /\ by_client'[c].active
            /\ groups'[c].generation = by_client'[c].generation
            /\ groups'[c].references = Cardinality(Holders(c)')
        <5>1. /\ by_client[c].active
              /\ groups[c].generation = by_client[c].generation
              /\ groups[c].references = Cardinality(Holders(c))
          BY <3>1, <4>3 DEF Counted
        <5> QED
          BY <3>5, <4>1, <4>2, <5>1
      <4>5. Holders(c)' # {}
        BY <4>2, <4>4, FS_EmptySet
      <4>6. Counted(c)'
        BY <4>3, <4>4, <4>5 DEF Counted
      <4> QED
        BY <2>4, <2>6, <4>6
    <3>8. CASE ~(groups[c].generation = lease.generation /\ groups[c].references > 1)
      <4>1. /\ by_client' = [by_client EXCEPT ![c].active = FALSE]
            /\ groups' = IF groups[c].generation = lease.generation
                         THEN [groups EXCEPT ![c] = NoActiveGroup] ELSE groups
        BY <1>5, <2>2, <2>3, <2>8, <3>8 DEF Release
      <4>2. groups'[c] = NoActiveGroup
        BY <1>0, <2>8, <3>1, <4>1 DEF Counted, TypeOK
      <4>3. Cardinality(Holders(c)) <= 1
        BY <1>0, <2>8, <3>1, <3>8 DEF Counted, TypeOK, ActiveLeaseGroup
      <4>4. Cardinality(Holders(c)') = 0
        BY <3>1, <3>5, <4>3, HoldersFinite
      <4>5. Holders(c)' = {}
        BY <3>6, <4>4, FS_EmptySet
      <4>6. by_client'[c].active = FALSE
        BY <1>0, <4>1 DEF TypeOK, LeaseRecord
      <4>7. Counted(c)'
        BY <4>2, <4>5, <4>6, CountedIdle
      <4> QED
        BY <2>4, <2>6, <4>7
    <3> QED
      BY <3>7, <3>8
  <2> QED
    BY <2>7, <2>8
<1>6. ASSUME (\E machine \in BOOLEAN : Crash(machine)) \/ load_state
      PROVE  HoldersAreGranted' /\ \A c \in Clients : Counted(c)'
  <2>1. /\ held' = [h \in Handles |-> NoLease]
        /\ \A c \in Clients : groups'[c] = NoActiveGroup /\ by_client'[c].active = FALSE
    BY <1>0, <1>6 DEF Crash, load_state, HoldersAreGranted, TypeOK, NoRecord
  <2>2. \A c \in Clients : Holders(c)' = {}
    BY <1>0, <2>1, NobodyHolds DEF Holders, TypeOK
  <2>3. HoldersAreGranted'
    BY <2>1 DEF HoldersAreGranted
  <2> QED
    BY <2>1, <2>2, <2>3, CountedIdle
<1> QED
  BY <1>1, <1>2, <1>3, <1>4, <1>5, <1>6
     DEF Next, Acquire, Exhausted, NewGeneration, pool_vars

LEMMA HoldInit == Init => HoldInv
<1> SUFFICES ASSUME Init PROVE HoldersAreGranted /\ \A c \in Clients : Counted(c)
  BY SafetyInit DEF HoldInv
<1>1. \A c \in Clients : Holders(c) = {}
  BY NobodyHolds, TypeInit DEF Init, Holders, TypeOK
<1>2. HoldersAreGranted
  BY DEF Init, HoldersAreGranted
<1>3. \A c \in Clients : by_client[c].active = FALSE /\ groups[c] = NoActiveGroup
  BY DEF Init, NoRecord
<1>4. Cardinality({}) = 0
  BY FS_EmptySet
<1> QED
  BY <1>1, <1>2, <1>3, <1>4 DEF Counted

(* release ends a lease exactly when its last holder is gone: lanes that    *)
(* share a generation are counted right, and the release of a superseded    *)
(* lease touches neither the count nor the activity of its successor.       *)
THEOREM LeasesAreCounted == Spec => []ActiveIffHeld
<1>1. HoldInv => ActiveIffHeld
  BY DEF HoldInv, Counted, ActiveIffHeld
<1> QED
  BY <1>1, HoldInit, HoldStep, PTL DEF Spec
----------------------------------------------------------------------------

all_vars == <<tunnel_vars, pool_vars>>

(* A tunnel has a lease in the pool exactly between its acquisition and its *)
(* release, and it is the one the tunnel knows of.  A watched tunnel keeps  *)
(* the value after the release: remove_session looks for the route by it.   *)
LeaseInv ==
  /\ running
  /\ \A t \in Handles :
       /\ held[t] # NoLease <=> tunnel[t].pc \in {"leased", "orphaned", "open", "closing"}
       /\ held[t] # NoLease => tunnel[t].lease = held[t] /\ held[t].client = tunnel[t].client
       /\ t \in watched => tunnel[t].lease \in granted

(* Who is past the authentication and was not abandoned has a guard; who is *)
(* watched was opened, and no longer open only with its session closed.     *)
GuardInv ==
  \A t \in Handles :
    /\ t \in guards <=> tunnel[t].pc \notin {"idle", "abandoned", "orphaned"}
    /\ t \in watched => /\ tunnel[t].pc \in {"open", "closing", "released", "idle"}
                        /\ tunnel[t].pc # "open" => t \in shut

(* Whoever is in the router's map is watched, and there under its own       *)
(* address, lane and group: the watcher will find it.                       *)
RouteInv ==
  \A a \in Leasable, l \in Lanes, t \in Handles :
    routes[a].lanes[l] = t =>
      /\ t \in watched
      /\ tunnel[t].lease.address = a /\ tunnel[t].lane = l /\ tunnel[t].group = routes[a].id

TunnelInv ==
  HoldInv /\ TunnelTypeOK /\ LeaseInv /\ GuardInv /\ RouteInv /\ OpenMeansRouted
----------------------------------------------------------------------------
(* What a step that only moves a tunnel on leaves alone. *)
Moves(t, pc) ==
  /\ tunnel' \in [Handles -> TunnelRecord]
  /\ tunnel'[t].pc = pc
  /\ tunnel'[t].client = tunnel[t].client /\ tunnel'[t].group = tunnel[t].group
  /\ tunnel'[t].lane = tunnel[t].lane /\ tunnel'[t].lease = tunnel[t].lease
  /\ \A u \in Handles \ {t} : tunnel'[u] = tunnel[u]

(* Goes changes the position of one tunnel and nothing else. *)
LEMMA GoesMoves ==
  ASSUME tunnel \in [Handles -> TunnelRecord], NEW t \in Handles,
         NEW pc \in {"idle", "authenticated", "abandoned", "leased", "orphaned", "open",
                     "closing", "released", "failed"},
         Goes(t, pc)
  PROVE  Moves(t, pc)
<1> DEFINE next == [tunnel[t] EXCEPT !.pc = pc]
<1>1. tunnel' = [tunnel EXCEPT ![t] = next]
  BY DEF Goes
<1>2. /\ next \in TunnelRecord /\ next.pc = pc
      /\ next.client = tunnel[t].client /\ next.group = tunnel[t].group
      /\ next.lane = tunnel[t].lane /\ next.lease = tunnel[t].lease
  BY DEF TunnelRecord
<1> HIDE DEF next
<1>3. tunnel'[t] = next
  BY <1>1
<1> QED
  BY <1>1, <1>2, <1>3 DEF Moves

(* What an acquisition does to the leases that are held. *)
Takes(t, c) ==
  /\ held[t] = NoLease
  /\ held' \in [Handles -> Lease \cup {NoLease}]
  /\ held'[t] # NoLease => held'[t].client = c
  /\ \A u \in Handles \ {t} : held'[u] = held[u]
  /\ granted \subseteq granted'
  /\ running' = running

(* However acquire ends: with a shared, a renewed, a new lease or none. *)
LEMMA AcquireTakes ==
  ASSUME TypeOK, TypeOK', NEW t \in Handles, NEW c \in Clients,
         NEW g \in GroupIds \cup {NoGroup}, Acquire(t, c, g)
  PROVE  Takes(t, c)
<1>1. held' \in [Handles -> Lease \cup {NoLease}]
  BY DEF TypeOK
<1>2. ASSUME NEW record, held' = [held EXCEPT ![t] = LeaseOf(c, record)]
      PROVE  /\ held'[t].client = c
             /\ \A u \in Handles \ {t} : held'[u] = held[u]
  BY <1>2 DEF TypeOK, LeaseOf
<1>3. CASE JoinGroup(t, c, g)
  BY <1>1, <1>2, <1>3 DEF JoinGroup, Takes
<1>4. ASSUME NEW outcome \in Outcomes, Renew(t, c, g, outcome)
      PROVE  Takes(t, c)
  BY <1>1, <1>2, <1>4 DEF Renew, NewGeneration, Grant, Takes
<1>5. ASSUME NEW outcome \in Outcomes, Allocate(t, c, g, outcome)
      PROVE  Takes(t, c)
  BY <1>1, <1>2, <1>5 DEF Allocate, NewGeneration, Grant, Takes
<1>6. CASE Exhausted(t, c, g)
  BY <1>1, <1>6 DEF Exhausted, NewGeneration, Takes
<1> QED
  BY <1>3, <1>4, <1>5, <1>6 DEF Acquire

(* What a release does to the leases that are held. *)
Returns(t) ==
  /\ held'[t] = NoLease
  /\ \A u \in Handles \ {t} : held'[u] = held[u]
  /\ granted' = granted /\ running' = running

(* release, whether the lease was shared, superseded or neither. *)
LEMMA ReleaseReturns ==
  ASSUME TypeOK, NEW t \in Handles, Release(t)
  PROVE  Returns(t)
<1>1. held' = [held EXCEPT ![t] = NoLease]
  BY DEF Release
<1> QED
  BY <1>1 DEF Release, Returns, TypeOK

(* The pool's invariant is kept by every step of the tunnels. *)
LEMMA PoolKept ==
  ASSUME TunnelInv, [TunnelNext]_all_vars
  PROVE  HoldInv'
<1> SUFFICES [Next]_pool_vars
  BY HoldStep DEF TunnelInv
<1>1. ASSUME NEW t \in Handles, AcquireLease(t)
      PROVE  Next
  <2>1. tunnel[t].client \in Clients /\ tunnel[t].group \in GroupIds \cup {NoGroup}
    BY DEF TunnelInv, TunnelTypeOK, TunnelRecord
  <2>2. Acquire(t, tunnel[t].client, tunnel[t].group)
    BY <1>1 DEF AcquireLease
  <2> HIDE DEF Acquire
  <2> QED
    BY <2>1, <2>2 DEF Next
<1>2. ASSUME NEW t \in Handles, PendingLeaseDrop(t) \/ Conflict(t) \/ CloseLease(t)
      PROVE  Next
  <2>1. Release(t)
    BY <1>2 DEF PendingLeaseDrop, Conflict, CloseLease
  <2> HIDE DEF Release
  <2> QED
    BY <2>1 DEF Next
<1>3. ASSUME NEW t \in Handles, NEW c, NEW g, NEW l, NEW n, Authenticate(t, c, g, l, n)
      PROVE  UNCHANGED pool_vars
  BY <1>3 DEF Authenticate
<1>4. ASSUME NEW t \in Handles,
             Abandon(t) \/ Register(t) \/ CloseRoute(t) \/ CloseGuard(t) \/ remove_session(t)
      PROVE  UNCHANGED pool_vars
  BY <1>4 DEF Abandon, Register, CloseRoute, CloseGuard, remove_session
<1>5. ASSUME NEW c \in Clients, BeginDrain(c) \/ EndDrain(c)
      PROVE  UNCHANGED pool_vars
  BY <1>5 DEF BeginDrain, EndDrain
<1>6. CASE UNCHANGED all_vars
  BY <1>6 DEF all_vars
<1> QED
  BY <1>1, <1>2, <1>3, <1>4, <1>5, <1>6 DEF TunnelNext, Open, Close
----------------------------------------------------------------------------
(* The parts of the invariant that are about tunnels. *)
TunnelPart == TunnelTypeOK /\ LeaseInv /\ GuardInv /\ RouteInv /\ OpenMeansRouted

(* A name that no watcher knows any more starts over. *)
LEMMA AuthenticateKeeps ==
  ASSUME TunnelInv, HoldInv', NEW t \in Handles, NEW c \in Clients,
         NEW g \in GroupIds \cup {NoGroup}, NEW l \in Lanes, NEW n \in Nat,
         Authenticate(t, c, g, l, n)
  PROVE  TunnelPart'
<1> DEFINE request == [pc |-> "authenticated", client |-> c, group |-> g, lane |-> l,
                       lane_count |-> n, lease |-> NoLease]
<1>1. /\ At(t, "idle") /\ t \notin watched
      /\ tunnel' = [tunnel EXCEPT ![t] = request]
      /\ guards' = guards \cup {t}
      /\ cancelled' = cancelled \ {t} /\ shut' = shut \ {t}
      /\ UNCHANGED <<routes, watched, draining, pool_vars>>
  BY DEF Authenticate
<1>2. request \in TunnelRecord /\ request.pc = "authenticated"
  BY DEF TunnelRecord
<1> HIDE DEF request
<1>3. TunnelTypeOK /\ TypeOK'
  BY DEF TunnelInv, HoldInv, SafetyInv
<1>4. /\ tunnel'[t].pc = "authenticated"
      /\ \A u \in Handles \ {t} : tunnel'[u] = tunnel[u]
      /\ tunnel' \in [Handles -> TunnelRecord]
  BY <1>1, <1>2, <1>3 DEF TunnelTypeOK
<1>5. TunnelTypeOK'
  BY <1>1, <1>3, <1>4 DEF TunnelTypeOK
<1>6. LeaseInv'
  BY <1>1, <1>4 DEF TunnelInv, LeaseInv, At, pool_vars
<1>7. GuardInv'
  BY <1>1, <1>4 DEF TunnelInv, GuardInv, At
<1>8. RouteInv'
  BY <1>1, <1>4 DEF TunnelInv, RouteInv
<1>9. OpenMeansRouted'
  BY <1>1, <1>4 DEF TunnelInv, OpenMeansRouted, At, RouteCancelled
<1> QED
  BY <1>5, <1>6, <1>7, <1>8, <1>9 DEF TunnelPart

(* The blocking task ends, with somebody waiting for it or not. *)
LEMMA AcquireLeaseKeeps ==
  ASSUME TunnelInv, HoldInv', NEW t \in Handles, AcquireLease(t)
  PROVE  TunnelPart'
<1> DEFINE pc == IF At(t, "abandoned")
                 THEN IF held'[t] = NoLease THEN "idle" ELSE "orphaned"
                 ELSE IF held'[t] = NoLease THEN "failed" ELSE "leased"
           next == [tunnel[t] EXCEPT !.lease = held'[t], !.pc = pc]
<1>1. /\ At(t, "authenticated") \/ At(t, "abandoned")
      /\ tunnel' = [tunnel EXCEPT ![t] = next]
      /\ UNCHANGED <<guards, cancelled, draining, shut, routes, watched>>
  BY DEF AcquireLease, route_vars
<1>2. TunnelTypeOK /\ TypeOK /\ TypeOK'
  BY DEF TunnelInv, HoldInv, SafetyInv
<1>3. tunnel[t].client \in Clients /\ tunnel[t].group \in GroupIds \cup {NoGroup}
  BY <1>2 DEF TunnelTypeOK, TunnelRecord
<1>4. Takes(t, tunnel[t].client)
  BY <1>2, <1>3, AcquireTakes DEF AcquireLease
<1>5. /\ pc \in {"idle", "orphaned", "failed", "leased"}
      /\ pc \in {"orphaned", "leased"} <=> held'[t] # NoLease
      /\ pc \in {"idle", "orphaned"} <=> At(t, "abandoned")
  OBVIOUS
<1> DEFINE lease == held'[t]
<1> HIDE DEF pc
<1>6. /\ next \in TunnelRecord /\ next.pc = pc /\ next.lease = held'[t]
      /\ next.client = tunnel[t].client
  <2>1. lease \in Lease \cup {NoLease}
    BY <1>4 DEF Takes
  <2>2. tunnel[t] \in TunnelRecord
    BY <1>2 DEF TunnelTypeOK
  <2> HIDE DEF lease
  <2>3. LET n == [tunnel[t] EXCEPT !.lease = lease, !.pc = pc] IN
        n \in TunnelRecord /\ n.pc = pc /\ n.lease = lease /\ n.client = tunnel[t].client
    BY <2>1, <2>2, <1>5 DEF TunnelRecord
  <2> QED BY <2>3, Zenon DEF lease
<1> HIDE DEF next
<1>7. /\ tunnel'[t] = next
      /\ \A u \in Handles \ {t} : tunnel'[u] = tunnel[u]
      /\ tunnel' \in [Handles -> TunnelRecord]
  BY <1>1, <1>2, <1>6 DEF TunnelTypeOK
<1>8. t \notin watched
  BY <1>1 DEF TunnelInv, GuardInv, At
<1>9. TunnelTypeOK'
  BY <1>1, <1>2, <1>7 DEF TunnelTypeOK
<1>10. LeaseInv'
  BY <1>1, <1>4, <1>5, <1>6, <1>7, <1>8 DEF TunnelInv, LeaseInv, Takes
<1>11. GuardInv'
  BY <1>1, <1>5, <1>6, <1>7, <1>8 DEF TunnelInv, GuardInv, At
<1>12. RouteInv'
  BY <1>1, <1>7, <1>8 DEF TunnelInv, RouteInv
<1>13. OpenMeansRouted'
  BY <1>1, <1>5, <1>6, <1>7 DEF TunnelInv, OpenMeansRouted, At, RouteCancelled
<1> QED
  BY <1>9, <1>10, <1>11, <1>12, <1>13 DEF TunnelPart

(* The steps that give a lease back, if there is one, and move on without   *)
(* touching the routes.                                                     *)
LEMMA MovingKeeps ==
  ASSUME TunnelInv, HoldInv', NEW t \in Handles,
         NEW pc \in {"orphaned", "abandoned", "idle", "failed", "closing", "released"},
         Moves(t, pc), UNCHANGED <<routes, watched, draining>>,
         Returns(t) \/ UNCHANGED pool_vars,
         held'[t] # NoLease <=> pc \in {"orphaned", "closing"},
         guards' = IF pc \in {"idle", "abandoned", "orphaned"} THEN guards \ {t} ELSE guards,
         pc \in {"failed", "closing", "released"} => t \in guards,
         t \in watched => pc \in {"closing", "released", "idle"},
         cancelled' \in {cancelled, cancelled \cup {t}},
         shut' \in {shut, shut \cup {t}}, t \in watched => t \in shut'
  PROVE  TunnelPart'
<1>1. TunnelTypeOK /\ TypeOK /\ TypeOK'
  BY DEF TunnelInv, HoldInv, SafetyInv
<1>2. TunnelTypeOK'
  BY <1>1 DEF TunnelTypeOK, Moves
<1>3. LeaseInv'
  <2>1. CASE Returns(t)
    BY <2>1 DEF TunnelInv, LeaseInv, Returns, Moves
  <2>2. CASE UNCHANGED pool_vars
    BY <2>2 DEF TunnelInv, LeaseInv, pool_vars, Moves
  <2> QED
    BY <2>1, <2>2
<1>4. GuardInv'
  BY DEF TunnelInv, GuardInv, Moves
<1>5. RouteInv'
  BY DEF TunnelInv, RouteInv, Moves
<1>6. OpenMeansRouted'
  BY DEF TunnelInv, OpenMeansRouted, At, RouteCancelled, Moves
<1> QED
  BY <1>2, <1>3, <1>4, <1>5, <1>6 DEF TunnelPart

(* Every way out of open() and every step of close_with_reason. *)
LEMMA ClosingKeeps ==
  ASSUME TunnelInv, HoldInv', NEW t \in Handles,
         \/ Abandon(t) \/ PendingLeaseDrop(t) \/ Conflict(t)
         \/ CloseRoute(t) \/ CloseLease(t) \/ CloseGuard(t)
  PROVE  TunnelPart'
<1>1. /\ tunnel \in [Handles -> TunnelRecord] /\ TypeOK
      /\ held[t] # NoLease <=> tunnel[t].pc \in {"leased", "orphaned", "open", "closing"}
      /\ t \in guards <=> tunnel[t].pc \notin {"idle", "abandoned", "orphaned"}
      /\ t \in watched => /\ tunnel[t].pc \in {"open", "closing", "released", "idle"}
                          /\ tunnel[t].pc # "open" => t \in shut
  BY DEF TunnelInv, TunnelTypeOK, LeaseInv, GuardInv
<1>2. ASSUME UNCHANGED pool_vars
      PROVE  held' = held
  BY <1>2 DEF pool_vars
<1>3. CASE Abandon(t)
  <2>1. PICK pc \in {"orphaned", "abandoned"} :
          Goes(t, pc) /\ At(t, IF pc = "orphaned" THEN "leased" ELSE "authenticated")
    BY <1>3 DEF Abandon
  <2>2. Moves(t, pc)
    BY <1>1, <2>1, GoesMoves
  <2> QED
    BY <1>1, <1>2, <1>3, <2>1, <2>2, MovingKeeps DEF Abandon, At, route_vars
<1>4. CASE PendingLeaseDrop(t)
  <2>1. Moves(t, "idle") /\ Returns(t)
    BY <1>1, <1>4, GoesMoves, ReleaseReturns DEF PendingLeaseDrop
  <2>2. guards \ {t} = guards
    BY <1>1, <1>4 DEF PendingLeaseDrop, At
  <2> QED
    BY <1>1, <1>4, <2>1, <2>2, MovingKeeps DEF PendingLeaseDrop, At, route_vars, Returns
<1>5. CASE Conflict(t)
  <2>1. Moves(t, "failed") /\ Returns(t)
    BY <1>1, <1>5, GoesMoves, ReleaseReturns DEF Conflict
  <2> QED
    BY <1>1, <1>5, <2>1, MovingKeeps DEF Conflict, At, route_vars, Returns
<1>6. CASE CloseRoute(t)
  <2>1. Moves(t, "closing")
    BY <1>1, <1>6, GoesMoves DEF CloseRoute
  <2> QED
    BY <1>1, <1>2, <1>6, <2>1, MovingKeeps DEF CloseRoute, At
<1>7. CASE CloseLease(t)
  <2>1. Moves(t, "released") /\ Returns(t)
    BY <1>1, <1>7, GoesMoves, ReleaseReturns DEF CloseLease
  <2> QED
    BY <1>1, <1>7, <2>1, MovingKeeps DEF CloseLease, At, route_vars, Returns
<1>8. CASE CloseGuard(t)
  <2>1. Moves(t, "idle")
    BY <1>1, <1>8, GoesMoves DEF CloseGuard
  <2> QED
    BY <1>1, <1>2, <1>8, <2>1, MovingKeeps DEF CloseGuard, At, route_vars
<1> QED
  BY <1>3, <1>4, <1>5, <1>6, <1>7, <1>8

GroupRecord == [id : GroupIds \cup {NoGroup}, lane_count : Nat,
                lanes : [Lanes -> Handles \cup {NoTunnel}]]

(* What registering a lane makes of the group at its address: the others    *)
(* keep their lanes or are told to close.                                   *)
LEMMA WithLaneFacts ==
  ASSUME tunnel \in [Handles -> TunnelRecord], NEW t \in Handles, NEW old \in GroupRecord
  PROVE  /\ WithLane(t, old) \in GroupRecord
         /\ WithLane(t, old).id = tunnel[t].group
         /\ WithLane(t, old).lanes[tunnel[t].lane] = t
         /\ \A l \in Lanes, u \in Handles \ {t} :
              /\ WithLane(t, old).lanes[l] = u
                   => old.lanes[l] = u /\ old.id = tunnel[t].group
              /\ old.lanes[l] = u => WithLane(t, old).lanes[l] = u \/ u \in Replaced(t, old)
<1> DEFINE base  == (IF Joins(t, old) THEN old ELSE NoRoute).lanes
           row == [base EXCEPT ![tunnel[t].lane] = t]
           group == [id |-> tunnel[t].group, lane_count |-> tunnel[t].lane_count,
                     lanes |-> row]
<1>1. tunnel[t] \in TunnelRecord
  OBVIOUS
<1>2. /\ tunnel[t].lane \in Lanes /\ tunnel[t].group \in GroupIds \cup {NoGroup}
      /\ tunnel[t].lane_count \in Nat
  BY <1>1 DEF TunnelRecord
<1>3. /\ base \in [Lanes -> Handles \cup {NoTunnel}]
      /\ Joins(t, old) => base = old.lanes
      /\ ~Joins(t, old) => \A l \in Lanes : base[l] = NoTunnel
  BY DEF GroupRecord, NoRoute
<1> HIDE DEF base
<1>4. /\ row \in [Lanes -> Handles \cup {NoTunnel}]
      /\ row[tunnel[t].lane] = t
      /\ \A l \in Lanes \ {tunnel[t].lane} : row[l] = base[l]
  BY <1>2, <1>3
<1>5. WithLane(t, old) = group
  BY DEF WithLane, base
<1> HIDE DEF row
<1>6. group \in GroupRecord /\ group.id = tunnel[t].group /\ group.lanes = row
  BY <1>2, <1>4 DEF GroupRecord
<1> HIDE DEF group
<1>7. ASSUME NEW l \in Lanes, NEW u \in Handles \ {t}, row[l] = u
      PROVE  old.lanes[l] = u /\ old.id = tunnel[t].group
  <2>1. l # tunnel[t].lane /\ base[l] = u
    BY <1>4, <1>7
  <2>2. Joins(t, old)
    BY <1>3, <2>1, TunnelAssumption
  <2> QED
    BY <1>3, <2>1, <2>2 DEF Joins
<1>8. ASSUME NEW l \in Lanes, NEW u \in Handles \ {t}, old.lanes[l] = u
      PROVE  row[l] = u \/ u \in Replaced(t, old)
  <2>1. u # NoTunnel
    BY TunnelAssumption
  <2>2. CASE ~Joins(t, old)
    BY <1>8, <2>1, <2>2 DEF Replaced
  <2>3. CASE Joins(t, old) /\ l = tunnel[t].lane
    BY <1>8, <2>1, <2>3 DEF Replaced
  <2>4. CASE Joins(t, old) /\ l # tunnel[t].lane
    BY <1>3, <1>4, <1>8, <2>4
  <2> QED
    BY <2>2, <2>3, <2>4
<1> QED
  BY <1>4, <1>5, <1>6, <1>7, <1>8

(* What taking a lane out of a group leaves of it. *)
LEMMA WithoutLaneFacts ==
  ASSUME NEW group \in GroupRecord, NEW l \in Lanes
  PROVE  /\ WithoutLane(group, l) \in GroupRecord
         /\ \A k \in Lanes, u \in Handles :
              WithoutLane(group, l).lanes[k] = u
                <=> k # l /\ group.lanes[k] = u
         /\ \A k \in Lanes, u \in Handles :
              WithoutLane(group, l).lanes[k] = u => WithoutLane(group, l).id = group.id
<1> DEFINE row == [group.lanes EXCEPT ![l] = NoTunnel]
           rest  == [group EXCEPT !.lanes = row]
<1>1. /\ row \in [Lanes -> Handles \cup {NoTunnel}]
      /\ row[l] = NoTunnel /\ \A k \in Lanes \ {l} : row[k] = group.lanes[k]
  BY DEF GroupRecord
<1>2. WithoutLane(group, l)
        = IF \A k \in Lanes : row[k] = NoTunnel THEN NoRoute ELSE rest
  BY DEF WithoutLane
<1> HIDE DEF row
<1>3. rest \in GroupRecord /\ rest.lanes = row /\ rest.id = group.id
  BY <1>1 DEF GroupRecord
<1>4. NoRoute \in GroupRecord /\ \A k \in Lanes : NoRoute.lanes[k] = NoTunnel
  BY DEF NoRoute, GroupRecord
<1> HIDE DEF rest
<1> QED
  BY <1>1, <1>2, <1>3, <1>4, TunnelAssumption

(* Router::register: the tunnel gets its lane, whoever loses one is closed. *)
LEMMA RegisterKeeps ==
  ASSUME TunnelInv, HoldInv', NEW t \in Handles, Register(t)
  PROVE  TunnelPart'
<1>1. TunnelTypeOK /\ TypeOK /\ TypeOK' /\ HoldersAreGranted /\ RouteInv
  BY DEF TunnelInv, HoldInv, SafetyInv
<1>2. /\ held[t] # NoLease /\ tunnel[t].lease = held[t] /\ tunnel[t].pc = "leased"
      /\ t \in guards /\ t \notin watched
  BY DEF Register, At, TunnelInv, LeaseInv, GuardInv
<1>3. /\ held[t] \in granted /\ held[t] \in Lease
      /\ tunnel[t].lease.address \in Leasable
  BY <1>1, <1>2 DEF HoldersAreGranted, TypeOK, Lease
<1>4. PICK a \in Leasable : a = tunnel[t].lease.address
  BY <1>3
<1>5. PICK old \in GroupRecord : old = routes[a]
  BY <1>1 DEF TunnelTypeOK, GroupRecord
<1>6. /\ routes' = [routes EXCEPT ![a] = WithLane(t, old)]
      /\ shut' = shut \cup Replaced(t, old)
      /\ watched' = watched \cup {t}
      /\ Goes(t, "open")
      /\ UNCHANGED <<guards, cancelled, draining, pool_vars>>
  BY <1>4, <1>5 DEF Register
<1>7. Moves(t, "open")
  BY <1>1, <1>6, GoesMoves DEF TunnelTypeOK
<1>8. /\ WithLane(t, old) \in GroupRecord
      /\ WithLane(t, old).id = tunnel[t].group
      /\ WithLane(t, old).lanes[tunnel[t].lane] = t
      /\ \A l \in Lanes, u \in Handles \ {t} :
           /\ WithLane(t, old).lanes[l] = u => old.lanes[l] = u /\ old.id = tunnel[t].group
           /\ old.lanes[l] = u => WithLane(t, old).lanes[l] = u \/ u \in Replaced(t, old)
  BY <1>1, WithLaneFacts DEF TunnelTypeOK
<1>9. /\ routes' \in [Leasable -> GroupRecord]
      /\ routes'[a] = WithLane(t, old)
      /\ \A b \in Leasable \ {a} : routes'[b] = routes[b]
  BY <1>1, <1>6, <1>8 DEF TunnelTypeOK, GroupRecord
<1>10. Replaced(t, old) \subseteq Handles
  BY <1>1, <1>5 DEF Replaced, GroupRecord, TunnelTypeOK, TunnelRecord
<1>11. TunnelTypeOK'
  BY <1>1, <1>6, <1>7, <1>9, <1>10 DEF TunnelTypeOK, Moves, GroupRecord
<1>12. LeaseInv'
  BY <1>2, <1>3, <1>6, <1>7 DEF TunnelInv, LeaseInv, Moves, pool_vars
<1>13. GuardInv'
  BY <1>2, <1>6, <1>7 DEF TunnelInv, GuardInv, Moves
<1>14. \A l \in Lanes : WithLane(t, old).lanes[l] = t => l = tunnel[t].lane
  <2> SUFFICES ASSUME NEW l \in Lanes, WithLane(t, old).lanes[l] = t, l # tunnel[t].lane
               PROVE  FALSE
    OBVIOUS
  <2>1. Joins(t, old) => WithLane(t, old).lanes[l] = old.lanes[l]
    BY <1>5 DEF WithLane, GroupRecord
  <2>2. ~Joins(t, old) => WithLane(t, old).lanes[l] = NoTunnel
    BY DEF WithLane, NoRoute
  <2>3. routes[a].lanes[l] # t
    BY <1>1, <1>2 DEF RouteInv
  <2> QED
    BY <1>5, <2>1, <2>2, <2>3, TunnelAssumption
<1>15. RouteInv'
  <2> SUFFICES ASSUME NEW b \in Leasable, NEW l \in Lanes, NEW u \in Handles,
                      routes'[b].lanes[l] = u
               PROVE  /\ u \in watched'
                      /\ tunnel'[u].lease.address = b /\ tunnel'[u].lane = l
                      /\ tunnel'[u].group = routes'[b].id
    BY DEF RouteInv
  <2>1. CASE b # a
    <3>1. routes[b].lanes[l] = u
      BY <1>9, <2>1
    <3>2. u # t
      BY <1>1, <1>2, <3>1 DEF RouteInv
    <3> QED
      BY <1>1, <1>6, <1>7, <1>9, <2>1, <3>1, <3>2 DEF RouteInv, Moves
  <2>2. CASE b = a /\ u # t
    BY <1>1, <1>5, <1>6, <1>7, <1>8, <1>9, <2>2 DEF RouteInv, Moves
  <2>3. CASE b = a /\ u = t
    BY <1>4, <1>6, <1>7, <1>8, <1>9, <1>14, <2>3 DEF Moves
  <2> QED
    BY <2>1, <2>2, <2>3
<1>16. OpenMeansRouted'
  <2> SUFFICES ASSUME NEW u \in Handles, At(u, "open")', ~RouteCancelled(u)'
               PROVE  routes'[tunnel'[u].lease.address].lanes[tunnel'[u].lane] = u
    BY DEF OpenMeansRouted
  <2>1. CASE u = t
    BY <1>4, <1>7, <1>8, <1>9, <2>1 DEF Moves
  <2>2. CASE u # t
    <3>1. /\ tunnel'[u] = tunnel[u] /\ At(u, "open") /\ ~RouteCancelled(u)
          /\ u \notin Replaced(t, old)
      BY <1>6, <1>7, <2>2 DEF Moves, At, RouteCancelled
    <3>2. /\ tunnel[u].lease.address \in Leasable /\ tunnel[u].lane \in Lanes
          /\ routes[tunnel[u].lease.address].lanes[tunnel[u].lane] = u
      <4>1. tunnel[u].lease = held[u] /\ held[u] # NoLease
        BY <3>1 DEF TunnelInv, LeaseInv, At
      <4>2. held[u] \in Lease
        BY <1>1, <4>1 DEF TypeOK
      <4> QED
        BY <1>1, <3>1, <4>1, <4>2
           DEF Lease, TunnelInv, OpenMeansRouted, TunnelTypeOK, TunnelRecord
    <3> QED
      BY <1>5, <1>8, <1>9, <2>2, <3>1, <3>2
  <2> QED
    BY <2>1, <2>2
<1> QED
  BY <1>11, <1>12, <1>13, <1>15, <1>16 DEF TunnelPart

(* A watcher removes its own session and no other. *)
LEMMA RemoveSessionKeeps ==
  ASSUME TunnelInv, HoldInv', NEW t \in Handles, remove_session(t)
  PROVE  TunnelPart'
<1>1. TunnelTypeOK /\ TypeOK /\ TypeOK' /\ RouteInv
  BY DEF TunnelInv, HoldInv, SafetyInv
<1>2. t \in watched /\ RouteCancelled(t) /\ tunnel[t].lease \in granted
  BY DEF remove_session, TunnelInv, LeaseInv
<1>3. tunnel[t].lease \in Lease /\ tunnel[t].lane \in Lanes
  BY <1>1, <1>2 DEF TypeOK, TunnelTypeOK, TunnelRecord
<1>4. PICK a \in Leasable : a = tunnel[t].lease.address
  BY <1>3 DEF Lease
<1>5. PICK k \in Lanes : k = tunnel[t].lane
  BY <1>3
<1>6. PICK old \in GroupRecord : old = routes[a]
  BY <1>1 DEF TunnelTypeOK, GroupRecord
<1>7. /\ shut' = shut \cup {t} /\ watched' = watched \ {t}
      /\ routes' = IF old.id = tunnel[t].group /\ old.lanes[k] = t
                   THEN [routes EXCEPT ![a] = WithoutLane(old, k)] ELSE routes
      /\ UNCHANGED <<tunnel, guards, cancelled, draining, pool_vars>>
  BY <1>4, <1>5, <1>6 DEF remove_session
<1>8. /\ WithoutLane(old, k) \in GroupRecord
      /\ \A l \in Lanes, u \in Handles :
           /\ WithoutLane(old, k).lanes[l] = u <=> l # k /\ old.lanes[l] = u
           /\ WithoutLane(old, k).lanes[l] = u => WithoutLane(old, k).id = old.id
  BY WithoutLaneFacts
<1>9. /\ routes' \in [Leasable -> GroupRecord]
      /\ \A b \in Leasable, l \in Lanes, u \in Handles :
           /\ routes'[b].lanes[l] = u
                => routes[b].lanes[l] = u /\ u # t /\ routes'[b].id = routes[b].id
           /\ routes[b].lanes[l] = u /\ u # t => routes'[b].lanes[l] = u
  <2>1. \A b \in Leasable, l \in Lanes :
          routes[b].lanes[l] = t => b = a /\ l = k /\ old.id = tunnel[t].group
    BY <1>1, <1>4, <1>5, <1>6 DEF RouteInv
  <2>2. CASE old.id = tunnel[t].group /\ old.lanes[k] = t
    <3>1. /\ routes' \in [Leasable -> GroupRecord]
          /\ routes'[a] = WithoutLane(old, k)
          /\ \A b \in Leasable \ {a} : routes'[b] = routes[b]
      BY <1>1, <1>7, <1>8, <2>2 DEF TunnelTypeOK, GroupRecord
    <3> QED
      BY <1>6, <1>8, <2>1, <2>2, <3>1
  <2>3. CASE ~(old.id = tunnel[t].group /\ old.lanes[k] = t)
    BY <1>1, <1>6, <1>7, <2>1, <2>3 DEF TunnelTypeOK, GroupRecord
  <2> QED
    BY <2>2, <2>3
<1>10. TunnelTypeOK'
  BY <1>1, <1>7, <1>9 DEF TunnelTypeOK, GroupRecord
<1>11. LeaseInv'
  BY <1>7 DEF TunnelInv, LeaseInv, pool_vars
<1>12. GuardInv'
  BY <1>7 DEF TunnelInv, GuardInv
<1>13. RouteInv'
  BY <1>1, <1>7, <1>9 DEF RouteInv
<1>14. OpenMeansRouted'
  <2> SUFFICES ASSUME NEW u \in Handles, At(u, "open"), ~RouteCancelled(u), u # t
               PROVE  routes'[tunnel[u].lease.address].lanes[tunnel[u].lane] = u
    BY <1>2, <1>7 DEF OpenMeansRouted, At, RouteCancelled
  <2>1. tunnel[u].lease = held[u] /\ held[u] # NoLease
    BY DEF TunnelInv, LeaseInv, At
  <2>2. held[u] \in Lease
    BY <1>1, <2>1 DEF TypeOK
  <2>3. tunnel[u].lease.address \in Leasable /\ tunnel[u].lane \in Lanes
    BY <1>1, <2>1, <2>2 DEF Lease, TunnelTypeOK, TunnelRecord
  <2>4. routes[tunnel[u].lease.address].lanes[tunnel[u].lane] = u
    BY DEF TunnelInv, OpenMeansRouted
  <2> QED
    BY <1>9, <2>3, <2>4
<1> QED
  BY <1>10, <1>11, <1>12, <1>13, <1>14 DEF TunnelPart

(* Drains cancel tokens and touch nothing else. *)
LEMMA DrainKeeps ==
  ASSUME TunnelInv, HoldInv', NEW c \in Clients, BeginDrain(c) \/ EndDrain(c)
  PROVE  TunnelPart'
<1>1. TunnelTypeOK /\ TypeOK'
  BY DEF TunnelInv, HoldInv, SafetyInv
<1>2. /\ UNCHANGED <<tunnel, guards, shut, routes, watched, pool_vars>>
      /\ cancelled \subseteq cancelled'
      /\ cancelled' \subseteq cancelled \cup guards /\ draining' \subseteq draining \cup {c}
  BY DEF BeginDrain, EndDrain, SessionsOf, route_vars
<1>3. TunnelTypeOK'
  BY <1>1, <1>2 DEF TunnelTypeOK
<1>4. LeaseInv'
  BY <1>2 DEF TunnelInv, LeaseInv, pool_vars
<1>5. GuardInv' /\ RouteInv'
  BY <1>2 DEF TunnelInv, GuardInv, RouteInv
<1>6. OpenMeansRouted'
  BY <1>2 DEF TunnelInv, OpenMeansRouted, At, RouteCancelled
<1> QED
  BY <1>3, <1>4, <1>5, <1>6 DEF TunnelPart
----------------------------------------------------------------------------
(* The invariant holds at first *)
LEMMA TunnelsBegin == TunnelInit => TunnelInv
<1> SUFFICES ASSUME TunnelInit PROVE TunnelInv
  OBVIOUS
<1>1. HoldInv /\ TypeOK
  BY HoldInit, TypeInit DEF TunnelInit
<1>2. PICK c \in Clients : tunnel = [t \in Handles |-> NoTunnelYet(c)]
  BY DEF TunnelInit
<1>3. /\ NoTunnelYet(c) \in TunnelRecord /\ NoTunnelYet(c).pc = "idle"
  BY TunnelAssumption DEF NoTunnelYet, TunnelRecord
<1>4. /\ tunnel \in [Handles -> TunnelRecord]
      /\ \A t \in Handles : tunnel[t].pc = "idle"
  BY <1>2, <1>3
<1>5. NoRoute \in GroupRecord /\ \A l \in Lanes : NoRoute.lanes[l] = NoTunnel
  BY DEF NoRoute, GroupRecord
<1>6. routes \in [Leasable -> GroupRecord]
  BY <1>5 DEF TunnelInit
<1>7. TunnelTypeOK
  BY <1>1, <1>4, <1>6 DEF TunnelInit, TunnelTypeOK, GroupRecord
<1>8. running /\ \A t \in Handles : held[t] = NoLease
  BY DEF TunnelInit, Init
<1>9. LeaseInv /\ GuardInv
  BY <1>4, <1>8 DEF TunnelInit, LeaseInv, GuardInv
<1>10. RouteInv
  BY <1>5, TunnelAssumption DEF TunnelInit, RouteInv
<1>11. OpenMeansRouted
  BY <1>4 DEF OpenMeansRouted, At
<1> QED
  BY <1>1, <1>7, <1>9, <1>10, <1>11 DEF TunnelInv

(* and is kept by every step. *)
LEMMA TunnelsStep == TunnelInv /\ [TunnelNext]_all_vars => TunnelInv'
<1> SUFFICES ASSUME TunnelInv, [TunnelNext]_all_vars PROVE TunnelInv'
  OBVIOUS
<1>1. HoldInv'
  BY PoolKept
<1> SUFFICES TunnelPart'
  BY <1>1 DEF TunnelInv, TunnelPart
<1>2. ASSUME NEW t \in Handles, Open(t) PROVE TunnelPart'
  <2>1. ASSUME NEW c \in Clients, Authenticate(t, c, NoGroup, 0, 1) PROVE TunnelPart'
    BY <1>1, <2>1, AuthenticateKeeps, TunnelAssumption
  <2>2. ASSUME NEW c \in Clients, NEW g \in GroupIds, NEW n \in LaneCounts, NEW l \in Lanes,
               Authenticate(t, c, g, l, n)
        PROVE  TunnelPart'
    <3>1. g \in GroupIds \cup {NoGroup} /\ n \in Nat
      BY TunnelAssumption
    <3> QED
      BY <1>1, <2>2, <3>1, AuthenticateKeeps
  <2>3. CASE AcquireLease(t)
    BY <1>1, <2>3, AcquireLeaseKeeps
  <2>4. CASE Abandon(t) \/ PendingLeaseDrop(t) \/ Conflict(t)
    BY <1>1, <2>4, ClosingKeeps
  <2>5. CASE Register(t)
    BY <1>1, <2>5, RegisterKeeps
  <2> QED
    BY <1>2, <2>1, <2>2, <2>3, <2>4, <2>5 DEF Open
<1>3. ASSUME NEW t \in Handles, Close(t) PROVE TunnelPart'
  BY <1>1, <1>3, ClosingKeeps DEF Close
<1>4. ASSUME NEW t \in Handles, remove_session(t) PROVE TunnelPart'
  BY <1>1, <1>4, RemoveSessionKeeps
<1>5. ASSUME NEW c \in Clients, BeginDrain(c) \/ EndDrain(c) PROVE TunnelPart'
  BY <1>1, <1>5, DrainKeeps
<1>6. CASE UNCHANGED all_vars
  BY <1>6, <1>1
     DEF all_vars, tunnel_vars, route_vars, pool_vars, TunnelInv, TunnelPart, TunnelTypeOK,
         TypeOK, LeaseInv, GuardInv, RouteInv, OpenMeansRouted, At, RouteCancelled
<1> QED
  BY <1>2, <1>3, <1>4, <1>5, <1>6 DEF TunnelNext

(* A tunnel that believes it is connected has the route of its address, and *)
(* once no guard of a drained client is left no route of the client works   *)
(* and nobody but an abandoned acquisition has a lease of it.               *)
THEOREM TunnelsStaySound == TunnelSpec => []TunnelsAreSound
<1>1. TunnelInv => TunnelsAreSound
  <2> SUFFICES ASSUME TunnelInv PROVE DrainedMeansOffline
    BY DEF TunnelInv, TunnelsAreSound, RoutesAreSound
  <2> SUFFICES ASSUME NEW c \in draining, SessionsOf(c) = {}, NEW t \in Handles,
                      tunnel[t].client = c
               PROVE  /\ Routed(t) => RouteCancelled(t)
                      /\ held[t] # NoLease => At(t, "orphaned")
    BY DEF DrainedMeansOffline
  <2>1. t \notin guards
    BY DEF SessionsOf
  <2>2. tunnel[t].pc \in {"idle", "abandoned", "orphaned"}
    BY <2>1 DEF TunnelInv, GuardInv
  <2>3. Routed(t) => t \in watched
    BY DEF Routed, TunnelInv, RouteInv
  <2>4. t \in watched => t \in shut
    BY <2>2 DEF TunnelInv, GuardInv
  <2>5. held[t] # NoLease => At(t, "orphaned")
    BY <2>2 DEF TunnelInv, LeaseInv, At
  <2> QED
    BY <2>3, <2>4, <2>5 DEF RouteCancelled
<1>2. TunnelInit /\ [][TunnelNext]_all_vars => []TunnelInv
  BY TunnelsBegin, TunnelsStep, PTL
<1> QED
  BY <1>1, <1>2, PTL DEF TunnelSpec, all_vars

(* Only the registration of a tunnel begins its watch. *)
LEMMA WatchBegins ==
  ASSUME TunnelInv, [TunnelNext]_all_vars, NEW u \in Handles, u \notin watched, u \in watched'
  PROVE  Register(u)
<1>1. ASSUME NEW t \in Handles, NEW c, NEW g, NEW l, NEW n, Authenticate(t, c, g, l, n)
      PROVE  watched' = watched
  BY <1>1 DEF Authenticate
<1>2. ASSUME NEW t \in Handles,
             \/ AcquireLease(t) \/ Abandon(t) \/ PendingLeaseDrop(t) \/ Conflict(t)
             \/ Close(t) \/ remove_session(t)
      PROVE  watched' \subseteq watched
  BY <1>2 DEF AcquireLease, Abandon, PendingLeaseDrop, Conflict, Close, CloseRoute, CloseLease,
              CloseGuard, remove_session, route_vars
<1>3. ASSUME NEW t \in Handles, Register(t)
      PROVE  watched' = watched \cup {t}
  BY <1>3 DEF Register
<1>4. ASSUME NEW c \in Clients, BeginDrain(c) \/ EndDrain(c)
      PROVE  watched' = watched
  BY <1>4 DEF BeginDrain, EndDrain, route_vars
<1>5. CASE UNCHANGED all_vars
  BY <1>5 DEF all_vars, tunnel_vars, route_vars
<1> QED
  BY <1>1, <1>2, <1>3, <1>4, <1>5 DEF TunnelNext, Open

(* A lease that is current is the latest of those granted with its address. *)
LEMMA CurrentIsLatest ==
  ASSUME HoldInv, running, NEW lease \in granted, LeaseIsCurrent(lease),
         NEW other \in granted, other.address = lease.address
  PROVE  lease.generation >= other.generation
<1>1. TypeOK /\ MemoryMatchesFile /\ GrantsAreDurable /\ GrantsNeverMove
  BY SafetyImplies DEF HoldInv, SafetyInv
<1>2. PICK c \in Clients : c = lease.client /\ c = other.client
  BY <1>1 DEF TypeOK, Lease, GrantsNeverMove
<1>3. disk[c].generation >= other.generation
  BY <1>1, <1>2 DEF GrantsAreDurable, ReservesGrants
<1>4. disk[c].generation = by_client[c].generation
  BY <1>1 DEF MemoryMatchesFile, PoolState
<1>5. by_client[c].generation = lease.generation
  BY <1>2 DEF LeaseIsCurrent
<1> QED
  BY <1>3, <1>4, <1>5

(* The route of an address passes to the same or to a later lease only: the *)
(* registration of a connection that was overtaken is refused, however late *)
(* it comes.                                                                *)
THEOREM RoutesNeverMoveBack == TunnelSpec => RoutesMoveForward
<1> DEFINE Forward ==
      \A a \in Leasable, t, u \in Handles, k, l \in Lanes :
        (routes[a].lanes[k] = t /\ routes'[a].lanes[l] = u /\ u \notin watched /\ u \in watched')
          => tunnel[u].lease.generation >= tunnel[t].lease.generation
<1>1. TunnelInv /\ [TunnelNext]_all_vars => Forward
  <2> SUFFICES ASSUME TunnelInv, [TunnelNext]_all_vars, NEW a \in Leasable,
                      NEW t \in Handles, NEW u \in Handles, NEW k \in Lanes, NEW l \in Lanes,
                      routes[a].lanes[k] = t, routes'[a].lanes[l] = u,
                      u \notin watched, u \in watched'
               PROVE  tunnel[u].lease.generation >= tunnel[t].lease.generation
    OBVIOUS
  <2>1. Register(u)
    BY WatchBegins
  <2>2. Moves(u, "open")
    BY <2>1, GoesMoves DEF Register, TunnelInv, TunnelTypeOK
  <2>3. tunnel[u].lease.address = a
    BY <2>2, TunnelsStep DEF TunnelInv, RouteInv, Moves
  <2>4. tunnel[t].lease \in granted /\ tunnel[t].lease.address = a
    BY DEF TunnelInv, RouteInv, LeaseInv
  <2>5. tunnel[u].lease \in granted
    BY <2>1 DEF Register, At, TunnelInv, LeaseInv, HoldInv, HoldersAreGranted
  <2>6. LeaseIsCurrent(tunnel[u].lease) /\ HoldInv /\ running
    BY <2>1 DEF Register, TunnelInv, LeaseInv
  <2> QED
    BY <2>3, <2>4, <2>5, <2>6, CurrentIsLatest
<1>2. TunnelInit /\ [][TunnelNext]_all_vars => []TunnelInv
  BY TunnelsBegin, TunnelsStep, PTL
<1>3. TunnelInit /\ [][TunnelNext]_all_vars => [][Forward]_all_vars
  BY <1>1, <1>2, PTL
<1> QED
  BY <1>3 DEF TunnelSpec, RoutesMoveForward, all_vars
----------------------------------------------------------------------------
(***************************************************************************)
(* The flow table of the router.  Its entries are chained both ways by     *)
(* indexes into an array with a free list.  The proof carries a witness,   *)
(* the sequence o of the slots from the oldest to the newest: unlink takes *)
(* a place out of o, link_newest appends to it, and everything else is     *)
(* built from the two.  The links leave no choice of o, so it also says    *)
(* what the abstract list of pins is.                                      *)
(***************************************************************************)
(* A function on an interval from one is a sequence.                        *)
LEMMA FunctionIsSeq ==
  ASSUME NEW S, NEW n \in Nat, NEW s \in [1 .. n -> S]
  PROVE  s \in Seq(S) /\ Len(s) = n
OBVIOUS

(* What is left of a sequence without one of its places.                    *)
LEMMA RemovedAt ==
  ASSUME NEW S, NEW s \in Seq(S), NEW i \in 1..Len(s)
  PROVE  /\ RemoveAt(s, i) \in Seq(S) /\ Len(RemoveAt(s, i)) = Len(s) - 1
         /\ \A j \in 1..(Len(s) - 1) : RemoveAt(s, i)[j] = IF j < i THEN s[j] ELSE s[j + 1]
<1> DEFINE a == SubSeq(s, 1, i - 1)
           b == SubSeq(s, i + 1, Len(s))
<1>1. a \in Seq(S) /\ Len(a) = i - 1 /\ \A j \in 1..(i - 1) : a[j] = s[j]  OBVIOUS
<1>2. b \in Seq(S) /\ Len(b) = Len(s) - i /\ \A j \in 1..(Len(s) - i) : b[j] = s[i + j]  OBVIOUS
<1>3. RemoveAt(s, i) = a \o b  BY DEF RemoveAt
<1> HIDE DEF a, b
<1>4. a \in Seq(S) /\ b \in Seq(S)  BY <1>1, <1>2
<1>5. a \o b \in Seq(S) /\ Len(a \o b) = Len(a) + Len(b)  BY <1>4
<1>6. Len(a) + Len(b) = Len(s) - 1  BY <1>1, <1>2
<1>7. a \o b \in Seq(S) /\ Len(a \o b) = Len(s) - 1  BY <1>5, <1>6
<1>8. ASSUME NEW j \in 1..(Len(s) - 1)  PROVE (a \o b)[j] = IF j < i THEN s[j] ELSE s[j + 1]
  <2>1. CASE j < i
    <3>1. j \in 1..Len(a)  BY <2>1, <1>1
    <3>2. (a \o b)[j] = a[j]  BY <3>1, <1>1, <1>2
    <3> QED BY <3>1, <3>2, <2>1, <1>1
  <2>2. CASE ~(j < i)
    <3>1. j \in (Len(a) + 1)..(Len(a) + Len(b)) /\ j - Len(a) \in 1..(Len(s) - i) /\ i + (j - Len(a)) = j + 1  BY <2>2, <1>1, <1>2
    <3>2. (a \o b)[j] = b[j - Len(a)]  BY <3>1, <1>1, <1>2
    <3> QED BY <3>1, <3>2, <2>2, <1>2
  <2> QED BY <2>1, <2>2
<1> QED BY <1>3, <1>7, <1>8

(* Two tables that differ at most in their links.                           *)
SameSlots(t, u) ==
  /\ u.assignments = t.assignments /\ u.free = t.free
  /\ Len(u.entries) = Len(t.entries)
  /\ \A j \in 1 .. Len(t.entries) : u.entries[j].flow = t.entries[j].flow /\ u.entries[j].lane = t.entries[j].lane

LEMMA TableFields ==
  ASSUME NEW t \in Tables
  PROVE  /\ t.assignments \in [Flows -> Index] /\ t.entries \in Seq(Entries) /\ t.free \in Seq(Index)
         /\ t.oldest \in Index /\ t.newest \in Index
         /\ Len(t.entries) \in Nat /\ DOMAIN t.entries = 1 .. Len(t.entries)
         /\ Len(t.free) \in Nat /\ DOMAIN t.free = 1 .. Len(t.free)
         /\ \A j \in 1 .. Len(t.entries) : t.entries[j] \in Entries
         /\ \A i \in Index : i \in Nat
BY FlowTableAssumption DEF Tables, Index

(* What unlink does to the ends and to each entry.                          *)
LEMMA Unlinked ==
  ASSUME NEW t \in Tables, NEW i \in 1 .. Len(t.entries)
  PROVE  LET e == t.entries[i]
             u == unlink(t, i)
         IN /\ u \in Tables /\ SameSlots(t, u)
            /\ u.oldest = IF e.previous = NO_FLOW_INDEX THEN e.next ELSE t.oldest
            /\ u.newest = IF e.next = NO_FLOW_INDEX THEN e.previous ELSE t.newest
            /\ \A j \in 1 .. Len(t.entries) :
                 /\ u.entries[j].next = IF j = e.previous THEN e.next ELSE t.entries[j].next
                 /\ j # e.previous => u.entries[j].previous = IF j = e.next THEN e.previous ELSE t.entries[j].previous
                 /\ j # e.next => u.entries[j].previous = t.entries[j].previous
<1> DEFINE e == t.entries[i]
           u == unlink(t, i)
           n == Len(t.entries)
           row(j) == IF j = e.previous THEN [t.entries[j] EXCEPT !.next = e.next]
                     ELSE IF j = e.next THEN [t.entries[j] EXCEPT !.previous = e.previous]
                     ELSE t.entries[j]
           new == [j \in 1 .. n |-> row(j)]
           old == IF e.previous = NO_FLOW_INDEX THEN e.next ELSE t.oldest
           young == IF e.next = NO_FLOW_INDEX THEN e.previous ELSE t.newest
<1>1. e \in Entries /\ e.next \in Index /\ e.previous \in Index  BY TableFields DEF Entries
<1>2. \A j \in 1 .. n : t.entries[j] \in Entries  BY TableFields
<1>3. u = [t EXCEPT !.oldest = old, !.newest = young, !.entries = new]  BY TableFields DEF unlink
<1>4. old \in Index /\ young \in Index  BY <1>1, TableFields
<1> HIDE DEF e, u, old, young
<1>5. ASSUME NEW j \in 1 .. n
      PROVE  /\ row(j) \in Entries /\ row(j).flow = t.entries[j].flow /\ row(j).lane = t.entries[j].lane
             /\ row(j).next = IF j = e.previous THEN e.next ELSE t.entries[j].next
             /\ j # e.previous => row(j).previous = IF j = e.next THEN e.previous ELSE t.entries[j].previous
             /\ j # e.next => row(j).previous = t.entries[j].previous
  <2>1. t.entries[j] \in Entries  BY <1>2
  <2>2. CASE j = e.previous
    <3>1. row(j) = [t.entries[j] EXCEPT !.next = e.next]  BY <2>2
    <3> QED BY <2>1, <2>2, <3>1, <1>1 DEF Entries
  <2>3. CASE j # e.previous /\ j = e.next
    <3>1. row(j) = [t.entries[j] EXCEPT !.previous = e.previous]  BY <2>3
    <3> QED BY <2>1, <2>3, <3>1, <1>1 DEF Entries
  <2>4. CASE j # e.previous /\ j # e.next
    <3>1. row(j) = t.entries[j]  BY <2>4
    <3> QED BY <2>1, <2>4, <3>1
  <2> QED BY <2>2, <2>3, <2>4
<1> HIDE DEF row
<1>6. n \in Nat  BY TableFields
<1>7. new \in [1 .. n -> Entries] /\ \A j \in 1 .. n : new[j] = row(j)  BY <1>5
<1> HIDE DEF new
<1>8. new \in Seq(Entries) /\ Len(new) = n  BY <1>6, <1>7, FunctionIsSeq
<1>9. /\ u \in Tables /\ u.entries = new /\ u.oldest = old /\ u.newest = young
      /\ u.assignments = t.assignments /\ u.free = t.free
  BY <1>3, <1>4, <1>8 DEF Tables
<1>10. SameSlots(t, u)  BY <1>5, <1>7, <1>8, <1>9 DEF SameSlots
<1> QED BY <1>5, <1>7, <1>9, <1>10 DEF e, u, old, young

(* What link_newest does.                                                   *)
LEMMA Linked ==
  ASSUME NEW t \in Tables, NEW i \in 1 .. Len(t.entries), i \in Index
  PROVE  LET u == link_newest(t, i)
         IN /\ u \in Tables /\ SameSlots(t, u)
            /\ u.oldest = IF t.newest = NO_FLOW_INDEX THEN i ELSE t.oldest
            /\ u.newest = i
            /\ u.entries[i].previous = t.newest /\ u.entries[i].next = NO_FLOW_INDEX
            /\ \A j \in 1 .. Len(t.entries) : j # i =>
                 /\ u.entries[j].next = IF j = t.newest THEN i ELSE t.entries[j].next
                 /\ u.entries[j].previous = t.entries[j].previous
<1> DEFINE u == link_newest(t, i)
           n == Len(t.entries)
           row(j) == IF j = i THEN [t.entries[j] EXCEPT !.previous = t.newest, !.next = NO_FLOW_INDEX]
                     ELSE IF j = t.newest THEN [t.entries[j] EXCEPT !.next = i]
                     ELSE t.entries[j]
           new == [j \in 1 .. n |-> row(j)]
           old == IF t.newest = NO_FLOW_INDEX THEN i ELSE t.oldest
<1>1. t.newest \in Index /\ NO_FLOW_INDEX \in Index  BY TableFields, FlowTableAssumption DEF NO_FLOW_INDEX, Index
<1>2. \A j \in 1 .. n : t.entries[j] \in Entries  BY TableFields
<1>3. u = [t EXCEPT !.oldest = old, !.newest = i, !.entries = new]  BY TableFields DEF link_newest
<1>4. old \in Index  BY TableFields
<1> HIDE DEF u, old
<1>5. ASSUME NEW j \in 1 .. n
      PROVE  /\ row(j) \in Entries /\ row(j).flow = t.entries[j].flow /\ row(j).lane = t.entries[j].lane
             /\ j = i => row(j).previous = t.newest /\ row(j).next = NO_FLOW_INDEX
             /\ j # i => /\ row(j).next = IF j = t.newest THEN i ELSE t.entries[j].next
                         /\ row(j).previous = t.entries[j].previous
  <2>1. t.entries[j] \in Entries  BY <1>2
  <2>2. CASE j = i
    <3>1. row(j) = [t.entries[j] EXCEPT !.previous = t.newest, !.next = NO_FLOW_INDEX]  BY <2>2
    <3> QED BY <2>1, <2>2, <3>1, <1>1 DEF Entries
  <2>3. CASE j # i /\ j = t.newest
    <3>1. row(j) = [t.entries[j] EXCEPT !.next = i]  BY <2>3
    <3> QED BY <2>1, <2>3, <3>1, <1>1 DEF Entries
  <2>4. CASE j # i /\ j # t.newest
    <3>1. row(j) = t.entries[j]  BY <2>4
    <3> QED BY <2>1, <2>4, <3>1
  <2> QED BY <2>2, <2>3, <2>4
<1> HIDE DEF row
<1>6. n \in Nat  BY TableFields
<1>7. new \in [1 .. n -> Entries] /\ \A j \in 1 .. n : new[j] = row(j)  BY <1>5
<1> HIDE DEF new
<1>8. new \in Seq(Entries) /\ Len(new) = n  BY <1>6, <1>7, FunctionIsSeq
<1>9. /\ u \in Tables /\ u.entries = new /\ u.oldest = old /\ u.newest = i
      /\ u.assignments = t.assignments /\ u.free = t.free
  BY <1>3, <1>4, <1>8 DEF Tables
<1>10. SameSlots(t, u)  BY <1>5, <1>7, <1>8, <1>9 DEF SameSlots
<1> QED BY <1>5, <1>7, <1>9, <1>10 DEF u, old

(* A place on a chain, and what the links say there.                        *)
LEMMA ThreadFacts ==
  ASSUME NEW t \in Tables, NEW o \in Seq(1 .. Len(t.entries)), Threads(t, o)
  PROVE  /\ Len(o) \in Nat /\ \A k \in 1 .. Len(o) : o[k] \in 1 .. Len(t.entries) /\ o[k] # NO_FLOW_INDEX /\ o[k] \in Nat
         /\ \A j, k \in 1 .. Len(o) : o[j] = o[k] => j = k
         /\ \A k \in 1 .. Len(o) :
              /\ t.entries[o[k]].previous = IF k = 1 THEN NO_FLOW_INDEX ELSE o[k - 1]
              /\ t.entries[o[k]].next = IF k = Len(o) THEN NO_FLOW_INDEX ELSE o[k + 1]
         /\ t.oldest = IF Len(o) = 0 THEN NO_FLOW_INDEX ELSE o[1]
         /\ t.newest = IF Len(o) = 0 THEN NO_FLOW_INDEX ELSE o[Len(o)]
BY TableFields DEF Threads, NO_FLOW_INDEX

(* Unlinking the entry at place k takes place k out of the chain.           *)
LEMMA UnlinkThreads ==
  ASSUME NEW t \in Tables, NEW o \in Seq(1 .. Len(t.entries)), Threads(t, o), NEW k \in 1 .. Len(o)
  PROVE  /\ unlink(t, o[k]) \in Tables /\ SameSlots(t, unlink(t, o[k]))
         /\ RemoveAt(o, k) \in Seq(1 .. Len(t.entries)) /\ Threads(unlink(t, o[k]), RemoveAt(o, k))
<1> DEFINE i == o[k]
           e == t.entries[i]
           u == unlink(t, i)
           p == RemoveAt(o, k)
           n == Len(o)
<1>1. i \in 1 .. Len(t.entries)  BY ThreadFacts
<1>2. /\ u \in Tables /\ SameSlots(t, u)
      /\ u.oldest = IF e.previous = NO_FLOW_INDEX THEN e.next ELSE t.oldest
      /\ u.newest = IF e.next = NO_FLOW_INDEX THEN e.previous ELSE t.newest
      /\ \A j \in 1 .. Len(t.entries) :
           /\ u.entries[j].next = IF j = e.previous THEN e.next ELSE t.entries[j].next
           /\ j # e.previous => u.entries[j].previous = IF j = e.next THEN e.previous ELSE t.entries[j].previous
           /\ j # e.next => u.entries[j].previous = t.entries[j].previous
  BY <1>1, Unlinked
<1>3. /\ p \in Seq(1 .. Len(t.entries)) /\ Len(p) = n - 1
      /\ \A j \in 1 .. (n - 1) : p[j] = IF j < k THEN o[j] ELSE o[j + 1]
  BY RemovedAt
<1>4. /\ n \in Nat /\ k \in 1 .. n
      /\ \A j \in 1 .. n : o[j] \in 1 .. Len(t.entries) /\ o[j] # NO_FLOW_INDEX
      /\ \A j, m \in 1 .. n : o[j] = o[m] => j = m
      /\ e.previous = IF k = 1 THEN NO_FLOW_INDEX ELSE o[k - 1]
      /\ e.next = IF k = n THEN NO_FLOW_INDEX ELSE o[k + 1]
  BY ThreadFacts
<1>5. \A j \in 1 .. n : /\ t.entries[o[j]].previous = IF j = 1 THEN NO_FLOW_INDEX ELSE o[j - 1]
                        /\ t.entries[o[j]].next = IF j = n THEN NO_FLOW_INDEX ELSE o[j + 1]
  BY ThreadFacts
<1>6. /\ t.oldest = IF n = 0 THEN NO_FLOW_INDEX ELSE o[1]
      /\ t.newest = IF n = 0 THEN NO_FLOW_INDEX ELSE o[n]
  BY ThreadFacts
<1> HIDE DEF i, e, u, p, n
<1>7. \A j, m \in 1 .. (n - 1) : p[j] = p[m] => j = m
  <2> SUFFICES ASSUME NEW j \in 1 .. (n - 1), NEW m \in 1 .. (n - 1), p[j] = p[m] PROVE j = m  OBVIOUS
  <2> DEFINE x == IF j < k THEN j ELSE j + 1
             y == IF m < k THEN m ELSE m + 1
  <2>1. x \in 1 .. n /\ y \in 1 .. n /\ p[j] = o[x] /\ p[m] = o[y]  BY <1>3, <1>4
  <2>2. x = y  BY <2>1, <1>4
  <2> QED BY <2>2, <1>4
<1>8. ASSUME NEW j \in 1 .. (n - 1)
      PROVE  /\ u.entries[p[j]].previous = IF j = 1 THEN NO_FLOW_INDEX ELSE p[j - 1]
             /\ u.entries[p[j]].next = IF j = n - 1 THEN NO_FLOW_INDEX ELSE p[j + 1]
  <2>1. CASE j < k
    <3>1. j \in 1 .. n /\ p[j] = o[j] /\ o[j] \in 1 .. Len(t.entries)  BY <2>1, <1>3, <1>4
    <3>2. o[j] # e.next  BY <2>1, <1>4, <3>1
    <3>3. u.entries[p[j]].previous = IF j = 1 THEN NO_FLOW_INDEX ELSE o[j - 1]  BY <3>1, <3>2, <1>2, <1>5
    <3>4. j # 1 => j - 1 \in 1 .. (n - 1) /\ p[j - 1] = o[j - 1]  BY <2>1, <1>3, <1>4
    <3>5. CASE j = k - 1
      <4>1. o[j] = e.previous  BY <3>5, <3>1, <1>4
      <4>2. u.entries[p[j]].next = e.next  BY <4>1, <3>1, <1>2
      <4>3. k # n => j + 1 \in 1 .. (n - 1) /\ p[j + 1] = o[k + 1]  BY <3>5, <1>3, <1>4
      <4> QED BY <4>2, <4>3, <3>3, <3>4, <3>5, <1>4
    <3>6. CASE j # k - 1
      <4>1. o[j] # e.previous  BY <3>6, <3>1, <1>4
      <4>2. u.entries[p[j]].next = t.entries[o[j]].next  BY <4>1, <3>1, <1>2
      <4>3. j # n  BY <2>1, <1>4
      <4>4. u.entries[p[j]].next = o[j + 1]  BY <4>2, <4>3, <3>1, <1>5
      <4>5. j + 1 \in 1 .. (n - 1) /\ p[j + 1] = o[j + 1]  BY <2>1, <3>6, <1>3, <1>4
      <4> QED BY <4>4, <4>5, <3>3, <3>4
    <3> QED BY <3>5, <3>6
  <2>2. CASE ~(j < k)
    <3>1. j + 1 \in 1 .. n /\ p[j] = o[j + 1] /\ o[j + 1] \in 1 .. Len(t.entries)  BY <2>2, <1>3, <1>4
    <3>2. o[j + 1] # e.previous  BY <2>2, <1>4, <3>1
    <3>3. u.entries[p[j]].next = IF j + 1 = n THEN NO_FLOW_INDEX ELSE o[(j + 1) + 1]  BY <3>1, <3>2, <1>2, <1>5
    <3>4. j + 1 # n => j + 1 \in 1 .. (n - 1) /\ p[j + 1] = o[(j + 1) + 1]  BY <2>2, <1>3, <1>4
    <3>5. CASE j = k
      <4>1. o[j + 1] = e.next  BY <3>5, <3>1, <1>4
      <4>2. u.entries[p[j]].previous = e.previous  BY <4>1, <3>1, <3>2, <1>2
      <4>3. k # 1 => j - 1 \in 1 .. (n - 1) /\ p[j - 1] = o[k - 1]  BY <3>5, <1>3, <1>4
      <4> QED BY <4>2, <4>3, <3>3, <3>4, <3>5, <1>4
    <3>6. CASE j # k
      <4>1. o[j + 1] # e.next  BY <3>6, <3>1, <2>2, <1>4
      <4>2. u.entries[p[j]].previous = t.entries[o[j + 1]].previous  BY <4>1, <3>1, <1>2
      <4>3. j + 1 # 1 /\ (j + 1) - 1 = j  BY <1>4
      <4>4. u.entries[p[j]].previous = o[(j + 1) - 1] /\ (j + 1) - 1 = j  BY <4>2, <4>3, <3>1, <1>5
      <4>5. j - 1 \in 1 .. (n - 1) /\ p[j - 1] = o[j]  BY <2>2, <3>6, <1>3, <1>4
      <4>6. j # 1  BY <3>6, <2>2, <1>4
      <4> QED BY <4>4, <4>5, <4>6, <3>3, <3>4
    <3> QED BY <3>5, <3>6
  <2> QED BY <2>1, <2>2
<1>9. u.oldest = IF n - 1 = 0 THEN NO_FLOW_INDEX ELSE p[1]
  <2>1. CASE k = 1
    <3>1. u.oldest = e.next  BY <2>1, <1>2, <1>4
    <3>2. n # 1 => 1 \in 1 .. (n - 1) /\ p[1] = o[1 + 1]  BY <2>1, <1>3, <1>4
    <3> QED BY <3>1, <3>2, <2>1, <1>4
  <2>2. CASE k # 1
    <3>1. u.oldest = t.oldest  BY <2>2, <1>2, <1>4
    <3>2. 1 \in 1 .. (n - 1) /\ p[1] = o[1]  BY <2>2, <1>3, <1>4
    <3> QED BY <3>1, <3>2, <1>4, <1>6
  <2> QED BY <2>1, <2>2
<1>10. u.newest = IF n - 1 = 0 THEN NO_FLOW_INDEX ELSE p[n - 1]
  <2>1. CASE k = n
    <3>1. u.newest = e.previous  BY <2>1, <1>2, <1>4
    <3>2. n # 1 => n - 1 \in 1 .. (n - 1) /\ p[n - 1] = o[n - 1]  BY <2>1, <1>3, <1>4
    <3> QED BY <3>1, <3>2, <2>1, <1>4
  <2>2. CASE k # n
    <3>1. u.newest = t.newest  BY <2>2, <1>2, <1>4
    <3>2. n - 1 \in 1 .. (n - 1) /\ p[n - 1] = o[(n - 1) + 1] /\ (n - 1) + 1 = n  BY <2>2, <1>3, <1>4
    <3> QED BY <3>1, <3>2, <1>4, <1>6
  <2> QED BY <2>1, <2>2
<1>11. Threads(u, p)  BY <1>3, <1>7, <1>8, <1>9, <1>10 DEF Threads
<1> QED BY <1>2, <1>3, <1>11 DEF i, u, p

(* Linking an entry that is not on the chain puts it at the end.            *)
LEMMA LinkThreads ==
  ASSUME NEW t \in Tables, NEW o \in Seq(1 .. Len(t.entries)), Threads(t, o),
         NEW i \in 1 .. Len(t.entries), i \in Index, \A k \in 1 .. Len(o) : o[k] # i
  PROVE  /\ link_newest(t, i) \in Tables /\ SameSlots(t, link_newest(t, i))
         /\ Append(o, i) \in Seq(1 .. Len(t.entries)) /\ Threads(link_newest(t, i), Append(o, i))
<1> DEFINE u == link_newest(t, i)
           p == Append(o, i)
           n == Len(o)
<1>1. /\ u \in Tables /\ SameSlots(t, u)
      /\ u.oldest = IF t.newest = NO_FLOW_INDEX THEN i ELSE t.oldest
      /\ u.newest = i
      /\ u.entries[i].previous = t.newest /\ u.entries[i].next = NO_FLOW_INDEX
      /\ \A j \in 1 .. Len(t.entries) : j # i =>
           /\ u.entries[j].next = IF j = t.newest THEN i ELSE t.entries[j].next
           /\ u.entries[j].previous = t.entries[j].previous
  BY Linked
<1>2. /\ p \in Seq(1 .. Len(t.entries)) /\ Len(p) = n + 1 /\ p[n + 1] = i /\ \A j \in 1 .. n : p[j] = o[j]
  OBVIOUS
<1>3. /\ n \in Nat
      /\ \A j \in 1 .. n : o[j] \in 1 .. Len(t.entries) /\ o[j] # NO_FLOW_INDEX
      /\ \A j, m \in 1 .. n : o[j] = o[m] => j = m
  BY ThreadFacts
<1>4. \A j \in 1 .. n : /\ t.entries[o[j]].previous = IF j = 1 THEN NO_FLOW_INDEX ELSE o[j - 1]
                        /\ t.entries[o[j]].next = IF j = n THEN NO_FLOW_INDEX ELSE o[j + 1]
  BY ThreadFacts
<1>5. /\ t.oldest = IF n = 0 THEN NO_FLOW_INDEX ELSE o[1]
      /\ t.newest = IF n = 0 THEN NO_FLOW_INDEX ELSE o[n]
  BY ThreadFacts
<1> HIDE DEF u, p, n
<1>6. \A j, m \in 1 .. (n + 1) : p[j] = p[m] => j = m
  <2> SUFFICES ASSUME NEW j \in 1 .. (n + 1), NEW m \in 1 .. (n + 1), p[j] = p[m] PROVE j = m  OBVIOUS
  <2>1. \A x \in 1 .. n : p[x] # i  BY <1>2 DEF n
  <2>2. CASE j = n + 1
    <3>1. m \notin 1 .. n  BY <2>1, <2>2, <1>2
    <3> QED BY <2>2, <3>1, <1>3
  <2>3. CASE m = n + 1
    <3>1. j \notin 1 .. n  BY <2>1, <2>3, <1>2
    <3> QED BY <2>3, <3>1, <1>3
  <2>4. CASE j # n + 1 /\ m # n + 1
    <3>1. j \in 1 .. n /\ m \in 1 .. n  BY <2>4, <1>3
    <3> QED BY <3>1, <1>2, <1>3
  <2> QED BY <2>2, <2>3, <2>4
<1>7. ASSUME NEW j \in 1 .. (n + 1)
      PROVE  /\ u.entries[p[j]].previous = IF j = 1 THEN NO_FLOW_INDEX ELSE p[j - 1]
             /\ u.entries[p[j]].next = IF j = n + 1 THEN NO_FLOW_INDEX ELSE p[j + 1]
  <2>1. CASE j = n + 1
    <3>1. p[j] = i  BY <2>1, <1>2
    <3>2. j # 1 => j - 1 = n /\ n \in 1 .. n  BY <2>1, <1>3
    <3>3. t.newest = IF j = 1 THEN NO_FLOW_INDEX ELSE p[j - 1]  BY <2>1, <3>2, <1>2, <1>3, <1>5
    <3> QED BY <2>1, <3>1, <3>3, <1>1
  <2>2. CASE j # n + 1
    <3>1. j \in 1 .. n /\ p[j] = o[j] /\ o[j] # i /\ o[j] \in 1 .. Len(t.entries)  BY <2>2, <1>2, <1>3 DEF n
    <3>2. u.entries[p[j]].previous = IF j = 1 THEN NO_FLOW_INDEX ELSE o[j - 1]  BY <3>1, <1>1, <1>4
    <3>3. j # 1 => j - 1 \in 1 .. n /\ p[j - 1] = o[j - 1]  BY <3>1, <1>2, <1>3
    <3>4. CASE j = n
      <4>1. o[j] = t.newest  BY <3>1, <3>4, <1>3, <1>5
      <4>2. u.entries[p[j]].next = i  BY <4>1, <3>1, <1>1
      <4> QED BY <4>2, <3>2, <3>3, <3>4, <2>2, <1>2
    <3>5. CASE j # n
      <4>1. o[j] # t.newest  BY <3>1, <3>5, <1>3, <1>5
      <4>2. u.entries[p[j]].next = o[j + 1]  BY <4>1, <3>1, <3>5, <1>1, <1>4
      <4>3. j + 1 \in 1 .. n  BY <3>1, <3>5, <1>3
      <4> QED BY <4>2, <4>3, <3>2, <3>3, <2>2, <1>2
    <3> QED BY <3>4, <3>5
  <2> QED BY <2>1, <2>2
<1>8. u.oldest = IF n + 1 = 0 THEN NO_FLOW_INDEX ELSE p[1]
  <2>1. CASE n = 0  BY <2>1, <1>1, <1>2, <1>5
  <2>2. CASE n # 0
    <3>1. 1 \in 1 .. n /\ n \in 1 .. n /\ n + 1 # 0  BY <2>2, <1>3
    <3>2. t.newest # NO_FLOW_INDEX  BY <2>2, <3>1, <1>3, <1>5
    <3> QED BY <2>2, <3>1, <3>2, <1>1, <1>2, <1>5
  <2> QED BY <2>1, <2>2
<1>9. u.newest = IF n + 1 = 0 THEN NO_FLOW_INDEX ELSE p[n + 1]  BY <1>1, <1>2, <1>3
<1>10. Threads(u, p)  BY <1>2, <1>6, <1>7, <1>8, <1>9 DEF Threads
<1> QED BY <1>1, <1>2, <1>10 DEF u, p

(* A table with its chain.                                                  *)
Sound(t, o) ==
  /\ t \in Tables /\ SlotsAreOwned(t)
  /\ o \in Seq(1 .. Len(t.entries)) /\ IsChain(t, o)

LEMMA SoundFacts ==
  ASSUME NEW t, NEW o, Sound(t, o)
  PROVE  /\ t \in Tables /\ o \in Seq(1 .. Len(t.entries)) /\ Threads(t, o) /\ Len(o) \in Nat
         /\ \A k \in 1 .. Len(o) : o[k] \in 1 .. Len(t.entries) /\ o[k] \in Index /\ o[k] \in Used(t) /\ o[k] # NO_FLOW_INDEX
         /\ \A j, k \in 1 .. Len(o) : o[j] = o[k] => j = k
         /\ \A i \in Used(t) : \E k \in 1 .. Len(o) : o[k] = i
         /\ \A f \in Tracked(t) : \E k \in 1 .. Len(o) : o[k] = t.assignments[f]
         /\ \A f \in Tracked(t) : t.entries[t.assignments[f]].flow = f /\ t.assignments[f] \in 1 .. Len(t.entries)
         /\ \A k \in 1 .. Len(o) : t.entries[o[k]].flow \in Tracked(t) /\ t.assignments[t.entries[o[k]].flow] = o[k]
<1>1. t \in Tables /\ o \in Seq(1 .. Len(t.entries)) /\ Threads(t, o) /\ Len(o) \in Nat  BY DEF Sound, IsChain
<1>2. {o[k] : k \in 1 .. Len(o)} = Used(t)  BY DEF Sound, IsChain
<1>3. /\ \A k \in 1 .. Len(o) : o[k] \in 1 .. Len(t.entries) /\ o[k] # NO_FLOW_INDEX
      /\ \A j, k \in 1 .. Len(o) : o[j] = o[k] => j = k
  BY <1>1, ThreadFacts
<1>4. Len(t.entries) <= Capacity /\ Len(t.entries) \in Nat /\ Capacity \in Nat
  BY <1>1, TableFields, FlowTableAssumption DEF Sound, SlotsAreOwned
<1>5. \A k \in 1 .. Len(o) : o[k] \in Index  BY <1>3, <1>4 DEF Index
<1>6. \A k \in 1 .. Len(o) : o[k] \in Used(t)  BY <1>2
<1>7. \A i \in Used(t) : \E k \in 1 .. Len(o) : o[k] = i  BY <1>2
<1>8. \A f \in Tracked(t) : t.assignments[f] \in Used(t) /\ t.entries[t.assignments[f]].flow = f
  BY DEF Used, Sound, SlotsAreOwned
<1>9. \A f \in Tracked(t) : \E k \in 1 .. Len(o) : o[k] = t.assignments[f]  BY <1>7, <1>8
<1>10. \A f \in Tracked(t) : t.assignments[f] \in 1 .. Len(t.entries)  BY <1>3, <1>9
<1>11. \A k \in 1 .. Len(o) : t.entries[o[k]].flow \in Tracked(t) /\ t.assignments[t.entries[o[k]].flow] = o[k]
  <2> TAKE k \in 1 .. Len(o)
  <2>1. PICK f \in Tracked(t) : o[k] = t.assignments[f]  BY <1>6 DEF Used
  <2> QED BY <2>1, <1>8
<1> QED BY <1>1, <1>3, <1>5, <1>6, <1>7, <1>8, <1>9, <1>10, <1>11

(* Who differs only in the links has the same owners.                       *)
LEMMA SameOwners ==
  ASSUME NEW t \in Tables, NEW u \in Tables, SlotsAreOwned(t), SameSlots(t, u)
  PROVE  /\ SlotsAreOwned(u) /\ Tracked(u) = Tracked(t) /\ Used(u) = Used(t) /\ Free(u) = Free(t)
         /\ DOMAIN u.entries = DOMAIN t.entries
<1>1. u.assignments = t.assignments /\ u.free = t.free /\ Len(u.entries) = Len(t.entries)  BY DEF SameSlots
<1>2. DOMAIN u.entries = DOMAIN t.entries /\ DOMAIN t.entries = 1 .. Len(t.entries)  BY <1>1, TableFields
<1>3. Tracked(u) = Tracked(t)  BY <1>1 DEF Tracked
<1>4. Used(u) = Used(t) /\ Free(u) = Free(t)  BY <1>1, <1>3 DEF Used, Free
<1>5. \A f \in Tracked(t) : t.assignments[f] \in DOMAIN t.entries  BY DEF SlotsAreOwned, Used
<1>6. \A f \in Tracked(u) : u.entries[u.assignments[f]].flow = f
  BY <1>1, <1>2, <1>3, <1>5 DEF SlotsAreOwned, SameSlots
<1>7. SlotsAreOwned(u)  BY <1>1, <1>2, <1>4, <1>6 DEF SlotsAreOwned
<1> QED BY <1>2, <1>3, <1>4, <1>7

LEMMA SameSlotsTwice ==
  ASSUME NEW t, NEW u, NEW w, SameSlots(t, u), SameSlots(u, w) PROVE SameSlots(t, w)
BY DEF SameSlots

(* Taking place k out and putting its slot at the end keeps the slots.      *)
LEMMA MovedToEnd ==
  ASSUME NEW S, NEW o \in Seq(S), NEW k \in 1 .. Len(o), \A i, j \in 1 .. Len(o) : o[i] = o[j] => i = j
  PROVE  /\ \A j \in 1 .. Len(RemoveAt(o, k)) : RemoveAt(o, k)[j] # o[k]
         /\ {RemoveAt(o, k)[j] : j \in 1 .. Len(RemoveAt(o, k))} = {o[j] : j \in 1 .. Len(o)} \ {o[k]}
         /\ k = Len(o) => Append(RemoveAt(o, k), o[k]) = o
<1> DEFINE p == RemoveAt(o, k)
           n == Len(o)
<1>1. p \in Seq(S) /\ Len(p) = n - 1 /\ \A j \in 1 .. (n - 1) : p[j] = IF j < k THEN o[j] ELSE o[j + 1]  BY RemovedAt
<1>2. n \in Nat /\ k \in 1 .. n /\ \A i, j \in 1 .. n : o[i] = o[j] => i = j  OBVIOUS
<1>3. o[k] \in S /\ o \in Seq(S) /\ Len(o) = n  OBVIOUS
<1> HIDE DEF p, n
<1>4. ASSUME NEW j \in 1 .. (n - 1) PROVE \E i \in 1 .. n : i # k /\ p[j] = o[i]
  <2>1. CASE j < k
    <3>1. j \in 1 .. n /\ j # k /\ p[j] = o[j]  BY <2>1, <1>1, <1>2
    <3> QED BY <3>1
  <2>2. CASE ~(j < k)
    <3>1. j + 1 \in 1 .. n /\ j + 1 # k /\ p[j] = o[j + 1]  BY <2>2, <1>1, <1>2
    <3> QED BY <3>1
  <2> QED BY <2>1, <2>2
<1>5. ASSUME NEW i \in 1 .. n, i # k PROVE \E j \in 1 .. (n - 1) : p[j] = o[i]
  <2>1. CASE i < k
    <3>1. i \in 1 .. (n - 1) /\ p[i] = o[i]  BY <2>1, <1>1, <1>2
    <3> QED BY <3>1
  <2>2. CASE ~(i < k)
    <3>1. i - 1 \in 1 .. (n - 1) /\ p[i - 1] = o[(i - 1) + 1] /\ (i - 1) + 1 = i  BY <2>2, <1>1, <1>2, <1>5
    <3> QED BY <3>1
  <2> QED BY <2>1, <2>2
<1>6. \A j \in 1 .. (n - 1) : p[j] # o[k]  BY <1>2, <1>4
<1>7. {p[j] : j \in 1 .. (n - 1)} = {o[j] : j \in 1 .. n} \ {o[k]}
  <2>1. \A x \in {p[j] : j \in 1 .. (n - 1)} : x \in {o[j] : j \in 1 .. n} \ {o[k]}  BY <1>4, <1>6
  <2>2. \A x \in {o[j] : j \in 1 .. n} \ {o[k]} : x \in {p[j] : j \in 1 .. (n - 1)}  BY <1>5
  <2> QED BY <2>1, <2>2
<1>8. ASSUME k = n PROVE Append(p, o[k]) = o
  <2> DEFINE q == Append(p, o[k])
  <2>1. q \in Seq(S) /\ Len(q) = (n - 1) + 1 /\ q[(n - 1) + 1] = o[k] /\ \A j \in 1 .. (n - 1) : q[j] = p[j]
    BY <1>1, <1>3
  <2>2. (n - 1) + 1 = n  BY <1>2
  <2> HIDE DEF q
  <2>3. \A j \in 1 .. n : q[j] = o[j]
    <3> TAKE j \in 1 .. n
    <3>1. CASE j = n  BY <3>1, <2>1, <2>2, <1>8
    <3>2. CASE j # n
      <4>1. j \in 1 .. (n - 1) /\ j < k  BY <3>2, <1>2, <1>8
      <4> QED BY <4>1, <2>1, <1>1
    <3> QED BY <3>1, <3>2
  <2>4. q = o  BY <2>1, <2>2, <2>3, <1>3
  <2> QED BY <2>4 DEF q
<1> QED BY <1>1, <1>6, <1>7, <1>8 DEF p, n

(* What Append puts into a chain.                                           *)
LEMMA AppendedSlots ==
  ASSUME NEW S, NEW o \in Seq(S), NEW x \in S
  PROVE  {Append(o, x)[j] : j \in 1 .. Len(Append(o, x))} = {o[j] : j \in 1 .. Len(o)} \cup {x}
<1> DEFINE q == Append(o, x)
           n == Len(o)
<1>1. q \in Seq(S) /\ Len(q) = n + 1 /\ q[n + 1] = x /\ (\A j \in 1 .. n : q[j] = o[j]) /\ n \in Nat  OBVIOUS
<1> HIDE DEF q, n
<1>2. ASSUME NEW j \in 1 .. (n + 1) PROVE q[j] \in {o[i] : i \in 1 .. n} \cup {x}
  <2>1. CASE j = n + 1  BY <2>1, <1>1
  <2>2. CASE j # n + 1
    <3>1. j \in 1 .. n  BY <2>2, <1>1
    <3> QED BY <3>1, <1>1
  <2> QED BY <2>1, <2>2
<1>3. ASSUME NEW i \in 1 .. n PROVE \E j \in 1 .. (n + 1) : q[j] = o[i]
  <2>1. i \in 1 .. (n + 1) /\ q[i] = o[i]  BY <1>1
  <2> QED BY <2>1
<1>4. \E j \in 1 .. (n + 1) : q[j] = x
  <2>1. n + 1 \in 1 .. (n + 1)  BY <1>1
  <2> QED BY <2>1, <1>1
<1>5. {q[j] : j \in 1 .. (n + 1)} = {o[j] : j \in 1 .. n} \cup {x}
  <2>1. \A y \in {q[j] : j \in 1 .. (n + 1)} : y \in {o[j] : j \in 1 .. n} \cup {x}  BY <1>2
  <2>2. \A y \in {o[j] : j \in 1 .. n} \cup {x} : y \in {q[j] : j \in 1 .. (n + 1)}  BY <1>3, <1>4
  <2> QED BY <2>1, <2>2
<1> QED BY <1>1, <1>5 DEF q, n

(* touch moves a slot to the end of the chain.                              *)
LEMMA TouchSound ==
  ASSUME NEW t, NEW o, Sound(t, o), NEW k \in 1 .. Len(o)
  PROVE  Sound(touch(t, o[k]), Append(RemoveAt(o, k), o[k])) /\ SameSlots(t, touch(t, o[k]))
<1> DEFINE i == o[k]
           u == unlink(t, i)
           p == RemoveAt(o, k)
           w == link_newest(u, i)
           q == Append(p, i)
<1>1. /\ t \in Tables /\ o \in Seq(1 .. Len(t.entries)) /\ Threads(t, o) /\ Len(o) \in Nat
      /\ i \in 1 .. Len(t.entries) /\ i \in Index /\ i \in Used(t)
      /\ \A j, m \in 1 .. Len(o) : o[j] = o[m] => j = m
  BY SoundFacts
<1>2. /\ \A j \in 1 .. Len(p) : p[j] # i
      /\ {p[j] : j \in 1 .. Len(p)} = {o[j] : j \in 1 .. Len(o)} \ {i}
      /\ k = Len(o) => Append(p, i) = o
  BY <1>1, MovedToEnd
<1>3. CASE i = t.newest
  <2>1. t.newest = IF Len(o) = 0 THEN NO_FLOW_INDEX ELSE o[Len(o)]  BY <1>1, ThreadFacts
  <2>2. Len(o) # 0 /\ Len(o) \in 1 .. Len(o)  BY <1>1
  <2>3. k = Len(o)  BY <1>1, <1>3, <2>1, <2>2
  <2>4. touch(t, i) = t  BY <1>3 DEF touch
  <2>5. SameSlots(t, t)  BY DEF SameSlots
  <2> QED BY <2>3, <2>4, <2>5, <1>2
<1>4. CASE i # t.newest
  <2>1. u \in Tables /\ SameSlots(t, u) /\ p \in Seq(1 .. Len(t.entries)) /\ Threads(u, p)  BY <1>1, UnlinkThreads
  <2>2. Len(u.entries) = Len(t.entries)  BY <2>1 DEF SameSlots
  <2> HIDE DEF u, p, i
  <2>3. /\ w \in Tables /\ SameSlots(u, w) /\ q \in Seq(1 .. Len(t.entries)) /\ Threads(w, q)
    BY <2>1, <2>2, <1>1, <1>2, LinkThreads
  <2>4. {q[j] : j \in 1 .. Len(q)} = {p[j] : j \in 1 .. Len(p)} \cup {i}
    <3> DEFINE S == 1 .. Len(t.entries)
    <3>1. p \in Seq(S) /\ i \in S  BY <2>1, <1>1
    <3> HIDE DEF S
    <3> QED BY <3>1, AppendedSlots
  <2>5. SameSlots(t, w)  BY <2>1, <2>3, SameSlotsTwice
  <2>6. SlotsAreOwned(t) /\ {o[j] : j \in 1 .. Len(o)} = Used(t)  BY DEF Sound, IsChain
  <2>7. SlotsAreOwned(w) /\ Used(w) = Used(t)  BY <2>3, <2>5, <2>6, <1>1, SameOwners
  <2>8. {q[j] : j \in 1 .. Len(q)} = Used(w)  BY <2>4, <2>6, <2>7, <1>1, <1>2
  <2>9. Len(w.entries) = Len(t.entries)  BY <2>5 DEF SameSlots
  <2>10. Sound(w, q)  BY <2>3, <2>7, <2>8, <2>9 DEF Sound, IsChain
  <2>11. touch(t, i) = w  BY <1>4 DEF touch, u
  <2> QED BY <2>5, <2>10, <2>11 DEF i, p
<1> QED BY <1>3, <1>4

(* The chain depends on the entries and the ends only.                      *)
LEMMA ThreadsDepend ==
  ASSUME NEW t, NEW u, NEW o, Threads(t, o), u.oldest = t.oldest, u.newest = t.newest,
         \A k \in 1 .. Len(o) : u.entries[o[k]].previous = t.entries[o[k]].previous /\ u.entries[o[k]].next = t.entries[o[k]].next
  PROVE  Threads(u, o)
BY DEF Threads

(* remove and evict_oldest: the slot leaves the chain and becomes free.     *)
LEMMA VacateSound ==
  ASSUME NEW t, NEW o, Sound(t, o), NEW k \in 1 .. Len(o), NEW f \in Tracked(t), t.assignments[f] = o[k]
  PROVE  LET v == Vacate(t, f)
         IN /\ Sound(v, RemoveAt(o, k))
            /\ Tracked(v) = Tracked(t) \ {f} /\ v.free # <<>> /\ Len(v.entries) = Len(t.entries)
            /\ \A j \in 1 .. Len(t.entries) : v.entries[j].flow = t.entries[j].flow /\ v.entries[j].lane = t.entries[j].lane
            /\ \A g \in Flows : g # f => v.assignments[g] = t.assignments[g]
<1> DEFINE i == o[k]
           u == unlink(t, i)
           p == RemoveAt(o, k)
           v == Vacate(t, f)
           free == Append(t.free, i)
           assignments == [t.assignments EXCEPT ![f] = NO_FLOW_INDEX]
<1>1. /\ t \in Tables /\ o \in Seq(1 .. Len(t.entries)) /\ Threads(t, o) /\ Len(o) \in Nat
      /\ i \in 1 .. Len(t.entries) /\ i \in Index /\ i \in Used(t)
      /\ \A j, m \in 1 .. Len(o) : o[j] = o[m] => j = m
  BY SoundFacts
<1>2. u \in Tables /\ SameSlots(t, u) /\ p \in Seq(1 .. Len(t.entries)) /\ Threads(u, p)  BY <1>1, UnlinkThreads
<1>3. /\ t.assignments \in [Flows -> Index] /\ t.free \in Seq(Index) /\ Len(t.free) \in Nat /\ DOMAIN t.free = 1 .. Len(t.free)
      /\ f \in Flows /\ NO_FLOW_INDEX \in Index /\ DOMAIN t.entries = 1 .. Len(t.entries)
  BY <1>1, TableFields, FlowTableAssumption DEF Tracked, Index, NO_FLOW_INDEX
<1>4. \A g \in Tracked(t) : g \in Flows /\ t.entries[t.assignments[g]].flow = g  BY SoundFacts DEF Tracked
<1>5. {p[j] : j \in 1 .. Len(p)} = {o[j] : j \in 1 .. Len(o)} \ {i}  BY <1>1, MovedToEnd
<1>6. {o[j] : j \in 1 .. Len(o)} = Used(t)  BY DEF Sound, IsChain
<1>7. /\ Used(t) \cap Free(t) = {} /\ Used(t) \cup Free(t) = 1 .. Len(t.entries)
      /\ \A j, m \in 1 .. Len(t.free) : t.free[j] = t.free[m] => j = m
      /\ Len(t.entries) <= Capacity
  BY <1>3 DEF Sound, SlotsAreOwned
<1>8. v = [u EXCEPT !.assignments = assignments, !.free = free]  BY DEF Vacate
<1>9. t.assignments[f] = i  OBVIOUS
<1> HIDE DEF i, u, p, v
<1>10. assignments \in [Flows -> Index] /\ assignments[f] = NO_FLOW_INDEX /\ \A g \in Flows : g # f => assignments[g] = t.assignments[g]
  BY <1>3
<1>11. /\ free \in Seq(Index) /\ Len(free) = Len(t.free) + 1 /\ free[Len(t.free) + 1] = i
       /\ \A j \in 1 .. Len(t.free) : free[j] = t.free[j]
       /\ DOMAIN free = 1 .. (Len(t.free) + 1) /\ free # <<>>
  <2>1. t.free \in Seq(Index) /\ i \in Index /\ Len(t.free) \in Nat  BY <1>1, <1>3
  <2>2. /\ free \in Seq(Index) /\ Len(free) = Len(t.free) + 1 /\ free[Len(t.free) + 1] = i
        /\ \A j \in 1 .. Len(t.free) : free[j] = t.free[j]
    BY <2>1
  <2> HIDE DEF free
  <2>3. DOMAIN free = 1 .. (Len(t.free) + 1) /\ Len(free) # 0  BY <2>1, <2>2
  <2> QED BY <2>2, <2>3
<1>12. {free[j] : j \in 1 .. Len(free)} = {t.free[j] : j \in 1 .. Len(t.free)} \cup {i}
  <2>1. t.free \in Seq(Index) /\ i \in Index  BY <1>1, <1>3
  <2> QED BY <2>1, AppendedSlots
<1> HIDE DEF assignments, free
<1>13. /\ v \in Tables /\ v.entries = u.entries /\ v.oldest = u.oldest /\ v.newest = u.newest
       /\ v.assignments = assignments /\ v.free = free
  BY <1>2, <1>8, <1>10, <1>11 DEF Tables
<1>14. Len(u.entries) = Len(t.entries) /\ \A j \in 1 .. Len(t.entries) : u.entries[j].flow = t.entries[j].flow /\ u.entries[j].lane = t.entries[j].lane
  BY <1>2 DEF SameSlots
<1>15. Tracked(v) = Tracked(t) \ {f}  BY <1>3, <1>10, <1>13 DEF Tracked
<1>16. ASSUME NEW g \in Tracked(v) PROVE t.assignments[g] = v.assignments[g] /\ t.assignments[g] # i /\ t.assignments[g] \in Used(t)
  <2>1. g \in Tracked(t) /\ g # f /\ g \in Flows  BY <1>15, <1>4
  <2>2. t.entries[t.assignments[g]].flow = g /\ t.entries[t.assignments[f]].flow = f  BY <2>1, <1>4
  <2> QED BY <2>1, <2>2, <1>9, <1>10, <1>13 DEF Used
<1>17. ASSUME NEW x \in Used(t), x # i PROVE \E g \in Tracked(v) : v.assignments[g] = x
  <2>1. PICK g \in Tracked(t) : t.assignments[g] = x  BY DEF Used
  <2>2. g # f  BY <2>1, <1>17, <1>9
  <2>3. g \in Tracked(v)  BY <2>2, <1>15
  <2> QED BY <2>1, <2>3, <1>16
<1>18. Used(v) = Used(t) \ {i}
  <2>1. \A x \in Used(v) : x \in Used(t) \ {i}  BY <1>16 DEF Used
  <2>2. \A x \in Used(t) \ {i} : x \in Used(v)  BY <1>17 DEF Used
  <2> QED BY <2>1, <2>2
<1>19. Free(v) = Free(t) \cup {i}
  <2>1. Free(v) = {free[j] : j \in 1 .. Len(free)}  BY <1>11, <1>13 DEF Free
  <2>2. Free(t) = {t.free[j] : j \in 1 .. Len(t.free)}  BY <1>3 DEF Free
  <2> QED BY <2>1, <2>2, <1>12
<1>20. ASSUME NEW j \in DOMAIN v.free, NEW m \in DOMAIN v.free, v.free[j] = v.free[m] PROVE j = m
  <2>1. j \in 1 .. (Len(t.free) + 1) /\ m \in 1 .. (Len(t.free) + 1) /\ free[j] = free[m]  BY <1>11, <1>13, <1>20
  <2>2. \A x \in 1 .. Len(t.free) : free[x] # i
    <3> TAKE x \in 1 .. Len(t.free)
    <3>1. free[x] \in Free(t)  BY <1>3, <1>11 DEF Free
    <3> QED BY <3>1, <1>1, <1>7
  <2>3. CASE j = Len(t.free) + 1
    <3>1. m \notin 1 .. Len(t.free)  BY <2>1, <2>2, <2>3, <1>11
    <3> QED BY <2>1, <2>3, <3>1, <1>3
  <2>4. CASE m = Len(t.free) + 1
    <3>1. j \notin 1 .. Len(t.free)  BY <2>1, <2>2, <2>4, <1>11
    <3> QED BY <2>1, <2>4, <3>1, <1>3
  <2>5. CASE j # Len(t.free) + 1 /\ m # Len(t.free) + 1
    <3>1. j \in 1 .. Len(t.free) /\ m \in 1 .. Len(t.free)  BY <2>1, <2>5, <1>3
    <3> QED BY <2>1, <3>1, <1>7, <1>11
  <2> QED BY <2>3, <2>4, <2>5
<1>21. ASSUME NEW g \in Tracked(v) PROVE v.entries[v.assignments[g]].flow = g
  <2>1. g \in Tracked(t) /\ t.entries[t.assignments[g]].flow = g  BY <1>4, <1>15
  <2>2. t.assignments[g] \in 1 .. Len(t.entries)  BY <2>1, SoundFacts
  <2> QED BY <2>1, <2>2, <1>13, <1>14, <1>16
<1>22. SlotsAreOwned(v)
  <2>1. DOMAIN v.entries = 1 .. Len(t.entries) /\ Len(v.entries) = Len(t.entries)  BY <1>13, <1>14, TableFields
  <2>2. Used(v) \cap Free(v) = {} /\ Used(v) \cup Free(v) = 1 .. Len(t.entries)  BY <1>1, <1>7, <1>18, <1>19
  <2> QED BY <2>1, <2>2, <1>7, <1>20, <1>21 DEF SlotsAreOwned
<1>23. Threads(v, p)  BY <1>2, <1>13, ThreadsDepend
<1>24. {p[j] : j \in 1 .. Len(p)} = Used(v)  BY <1>5, <1>6, <1>18
<1>25. Sound(v, p)  BY <1>2, <1>13, <1>14, <1>22, <1>23, <1>24 DEF Sound, IsChain
<1>26. v.free # <<>>  BY <1>11, <1>13
<1> QED BY <1>10, <1>13, <1>14, <1>15, <1>25, <1>26 DEF v, p

(* Changing the lane of an entry leaves owners and links alone.             *)
LEMMA RepinSound ==
  ASSUME NEW t, NEW o, Sound(t, o), NEW i \in 1 .. Len(t.entries), NEW l \in AllLanes
  PROVE  LET u == Repin(t, i, l)
         IN /\ Sound(u, o) /\ u.assignments = t.assignments /\ Len(u.entries) = Len(t.entries) /\ Tracked(u) = Tracked(t)
            /\ u.newest = t.newest
            /\ \A j \in 1 .. Len(t.entries) : /\ u.entries[j].flow = t.entries[j].flow
                                              /\ u.entries[j].lane = IF j = i THEN l ELSE t.entries[j].lane
<1> DEFINE u == Repin(t, i, l)
           row == [t.entries[i] EXCEPT !.lane = l]
           new == [t.entries EXCEPT ![i] = row]
<1>1. t \in Tables /\ o \in Seq(1 .. Len(t.entries)) /\ Threads(t, o)  BY SoundFacts
<1>2. t.entries \in Seq(Entries) /\ t.entries[i] \in Entries /\ DOMAIN t.entries = 1 .. Len(t.entries)  BY <1>1, TableFields
<1>3. u = [t EXCEPT !.entries = new]  BY DEF Repin
<1>4. /\ row \in Entries /\ row.flow = t.entries[i].flow /\ row.lane = l
      /\ row.previous = t.entries[i].previous /\ row.next = t.entries[i].next
  BY <1>2 DEF Entries
<1> HIDE DEF u, row
<1>5. /\ new \in Seq(Entries) /\ Len(new) = Len(t.entries) /\ DOMAIN new = 1 .. Len(t.entries)
      /\ \A j \in 1 .. Len(t.entries) : new[j] = IF j = i THEN row ELSE t.entries[j]
  BY <1>2, <1>4
<1> HIDE DEF new
<1>6. /\ u \in Tables /\ u.entries = new /\ u.assignments = t.assignments /\ u.free = t.free
      /\ u.oldest = t.oldest /\ u.newest = t.newest
  BY <1>1, <1>3, <1>5 DEF Tables
<1>7. \A j \in 1 .. Len(t.entries) : /\ u.entries[j].flow = t.entries[j].flow
                                     /\ u.entries[j].lane = IF j = i THEN l ELSE t.entries[j].lane
                                     /\ u.entries[j].previous = t.entries[j].previous
                                     /\ u.entries[j].next = t.entries[j].next
  BY <1>4, <1>5, <1>6
<1>8. Tracked(u) = Tracked(t)  BY <1>6 DEF Tracked
<1>9. Used(u) = Used(t) /\ Free(u) = Free(t)  BY <1>6, <1>8 DEF Used, Free
<1>10. \A f \in Tracked(u) : u.entries[u.assignments[f]].flow = f
  <2>1. \A f \in Tracked(t) : t.entries[t.assignments[f]].flow = f /\ t.assignments[f] \in 1 .. Len(t.entries)  BY SoundFacts
  <2> QED BY <2>1, <1>6, <1>7, <1>8
<1>11. SlotsAreOwned(u)  BY <1>2, <1>5, <1>6, <1>9, <1>10 DEF SlotsAreOwned, Sound
<1>12. \A k \in 1 .. Len(o) : o[k] \in 1 .. Len(t.entries)  BY SoundFacts
<1>13. Threads(u, o)  BY <1>1, <1>6, <1>7, <1>12, ThreadsDepend
<1>14. Sound(u, o)  BY <1>1, <1>5, <1>6, <1>9, <1>11, <1>13 DEF Sound, IsChain
<1> QED BY <1>5, <1>6, <1>7, <1>8, <1>14 DEF u

(* A sequence over a smaller set.                                           *)
LEMMA WiderSeq ==
  ASSUME NEW S, NEW T, S \subseteq T, NEW s \in Seq(S) PROVE s \in Seq(T)
<1>1. s \in [1 .. Len(s) -> T] /\ Len(s) \in Nat  OBVIOUS
<1> QED BY <1>1, FunctionIsSeq

(* The slot that Insert takes, and the array and the free list after that.  *)
LEMMA TakenSlot ==
  ASSUME NEW t, NEW o, Sound(t, o), NEW x \in Entries, t.free = <<>> => Len(t.entries) < Capacity
  PROVE  LET i == IF t.free = <<>> THEN Len(t.entries) + 1 ELSE t.free[Len(t.free)]
             new == IF t.free = <<>> THEN Append(t.entries, x) ELSE [t.entries EXCEPT ![i] = x]
             left == IF t.free = <<>> THEN t.free ELSE SubSeq(t.free, 1, Len(t.free) - 1)
         IN /\ i \in Index /\ i # NO_FLOW_INDEX /\ i \notin Used(t)
            /\ new \in Seq(Entries) /\ Len(new) <= Capacity /\ Len(new) \in Nat
            /\ 1 .. Len(new) = (1 .. Len(t.entries)) \cup {i}
            /\ new[i] = x /\ \A j \in 1 .. Len(t.entries) : j # i => new[j] = t.entries[j]
            /\ left \in Seq(Index) /\ {left[j] : j \in DOMAIN left} = Free(t) \ {i}
            /\ \A j, k \in DOMAIN left : left[j] = left[k] => j = k
<1>1. /\ t \in Tables /\ t.entries \in Seq(Entries) /\ t.free \in Seq(Index) /\ Len(t.entries) \in Nat
      /\ DOMAIN t.entries = 1 .. Len(t.entries) /\ Len(t.free) \in Nat /\ DOMAIN t.free = 1 .. Len(t.free)
      /\ Capacity \in Nat
  BY SoundFacts, TableFields, FlowTableAssumption
<1>2. /\ Used(t) \cap Free(t) = {} /\ Used(t) \cup Free(t) = 1 .. Len(t.entries)
      /\ \A j, k \in 1 .. Len(t.free) : t.free[j] = t.free[k] => j = k
      /\ Len(t.entries) <= Capacity
  BY <1>1 DEF Sound, SlotsAreOwned
<1>3. CASE t.free = <<>>
  <2> DEFINE i == Len(t.entries) + 1
             new == Append(t.entries, x)
  <2>1. i \in Index /\ i # NO_FLOW_INDEX /\ i \notin 1 .. Len(t.entries)  BY <1>1, <1>3 DEF Index, NO_FLOW_INDEX
  <2>2. /\ new \in Seq(Entries) /\ Len(new) = Len(t.entries) + 1 /\ new[Len(t.entries) + 1] = x
        /\ \A j \in 1 .. Len(t.entries) : new[j] = t.entries[j]
    BY <1>1
  <2> HIDE DEF new
  <2>3. Len(new) <= Capacity /\ Len(new) \in Nat /\ 1 .. Len(new) = (1 .. Len(t.entries)) \cup {i}  BY <2>2, <1>1, <1>3
  <2>4. Free(t) = {} /\ DOMAIN t.free = {}  BY <1>3 DEF Free
  <2>5. i \notin Used(t)  BY <2>1, <1>2
  <2> HIDE DEF i
  <2>6. {t.free[j] : j \in DOMAIN t.free} = Free(t) \ {i}  BY <2>4
  <2>7. \A j, k \in DOMAIN t.free : t.free[j] = t.free[k] => j = k  BY <2>4
  <2> QED BY <2>1, <2>2, <2>3, <2>5, <2>6, <2>7, <1>1, <1>3 DEF i, new
<1>4. CASE t.free # <<>>
  <2> DEFINE n == Len(t.free)
             i == t.free[n]
             new == [t.entries EXCEPT ![i] = x]
             left == SubSeq(t.free, 1, n - 1)
  <2>1. n \in Nat /\ n # 0 /\ n \in 1 .. n  BY <1>1, <1>4
  <2>2. i \in Free(t) /\ i \in Index  BY <2>1, <1>1 DEF Free
  <2>3. i \in 1 .. Len(t.entries) /\ i \notin Used(t) /\ i # NO_FLOW_INDEX  BY <2>2, <1>1, <1>2 DEF NO_FLOW_INDEX
  <2>4. left \in Seq(Index) /\ Len(left) = n - 1 /\ \A j \in 1 .. (n - 1) : left[j] = t.free[j]  BY <2>1, <1>1
  <2>5. \A j \in 1 .. n : t.free[j] \in Free(t) /\ (t.free[j] = i => j = n)  BY <2>1, <1>1, <1>2 DEF Free
  <2>6. Free(t) = {t.free[j] : j \in 1 .. n}  BY <1>1 DEF Free
  <2> HIDE DEF i, left, n
  <2>7. /\ new \in Seq(Entries) /\ Len(new) = Len(t.entries) /\ new[i] = x
        /\ \A j \in 1 .. Len(t.entries) : j # i => new[j] = t.entries[j]
    BY <2>3, <1>1
  <2>8. DOMAIN left = 1 .. (n - 1)  BY <2>1, <2>4
  <2>9. \A j \in 1 .. (n - 1) : j \in 1 .. n /\ j # n  BY <2>1
  <2>10. \A j \in 1 .. n : j # n => j \in 1 .. (n - 1)  BY <2>1
  <2>11. \A y \in {left[j] : j \in 1 .. (n - 1)} : y \in Free(t) \ {i}  BY <2>4, <2>5, <2>9
  <2>12. \A y \in Free(t) \ {i} : y \in {left[j] : j \in 1 .. (n - 1)}
    <3> TAKE y \in Free(t) \ {i}
    <3>1. PICK j \in 1 .. n : y = t.free[j]  BY <2>6
    <3>2. j # n  BY <3>1 DEF i
    <3> QED BY <3>1, <3>2, <2>4, <2>10
  <2>13. {left[j] : j \in DOMAIN left} = Free(t) \ {i}  BY <2>8, <2>11, <2>12
  <2>14. \A j, k \in DOMAIN left : left[j] = left[k] => j = k  BY <2>4, <2>8, <2>9, <1>2 DEF n
  <2> HIDE DEF new
  <2>15. 1 .. Len(new) = (1 .. Len(t.entries)) \cup {i} /\ Len(new) <= Capacity /\ Len(new) \in Nat  BY <2>3, <2>7, <1>1, <1>2
  <2> QED BY <2>2, <2>3, <2>4, <2>7, <2>13, <2>14, <2>15, <1>4 DEF n, i, new, left
<1> QED BY <1>3, <1>4

(* A new flow takes a free slot, or one more, and becomes the newest.       *)
LEMMA InsertSound ==
  ASSUME NEW t, NEW o, Sound(t, o), NEW f \in Flows, f \notin Tracked(t), NEW l \in AllLanes,
         t.free = <<>> => Len(t.entries) < Capacity
  PROVE  \E i \in Index :
           LET w == Insert(t, f, l)
           IN /\ Sound(w, Append(o, i)) /\ Tracked(w) = Tracked(t) \cup {f} /\ w.assignments[f] = i
              /\ w.entries[i].flow = f /\ w.entries[i].lane = l
              /\ \A k \in 1 .. Len(o) : /\ w.entries[o[k]].flow = t.entries[o[k]].flow
                                        /\ w.entries[o[k]].lane = t.entries[o[k]].lane
<1> DEFINE x == Entry(f, l)
           i == IF t.free = <<>> THEN Len(t.entries) + 1 ELSE t.free[Len(t.free)]
           new == IF t.free = <<>> THEN Append(t.entries, x) ELSE [t.entries EXCEPT ![i] = x]
           left == IF t.free = <<>> THEN t.free ELSE SubSeq(t.free, 1, Len(t.free) - 1)
           assignments == [t.assignments EXCEPT ![f] = i]
           b == [t EXCEPT !.entries = new, !.free = left, !.assignments = assignments]
           w == Insert(t, f, l)
           p == Append(o, i)
<1>1. w = link_newest(b, i)  BY DEF Insert
<1>2. x \in Entries /\ x.flow = f /\ x.lane = l  BY FlowTableAssumption DEF Entry, Entries, NO_FLOW_INDEX, Index
<1> HIDE DEF x
<1>3. /\ i \in Index /\ i # NO_FLOW_INDEX /\ i \notin Used(t)
      /\ new \in Seq(Entries) /\ Len(new) <= Capacity /\ Len(new) \in Nat
      /\ 1 .. Len(new) = (1 .. Len(t.entries)) \cup {i}
      /\ new[i] = x /\ \A j \in 1 .. Len(t.entries) : j # i => new[j] = t.entries[j]
      /\ left \in Seq(Index) /\ {left[j] : j \in DOMAIN left} = Free(t) \ {i}
      /\ \A j, k \in DOMAIN left : left[j] = left[k] => j = k
  BY <1>2, TakenSlot
<1>4. /\ t \in Tables /\ o \in Seq(1 .. Len(t.entries)) /\ Threads(t, o) /\ Len(o) \in Nat
      /\ \A k \in 1 .. Len(o) : o[k] \in 1 .. Len(t.entries) /\ o[k] \in Used(t)
      /\ \A g \in Tracked(t) : t.entries[t.assignments[g]].flow = g /\ t.assignments[g] \in 1 .. Len(t.entries)
  BY SoundFacts
<1>5. t.assignments \in [Flows -> Index] /\ t.oldest \in Index /\ t.newest \in Index /\ DOMAIN t.entries = 1 .. Len(t.entries)
  BY <1>4, TableFields
<1>6. Used(t) \cap Free(t) = {} /\ Used(t) \cup Free(t) = 1 .. Len(t.entries)  BY <1>5 DEF Sound, SlotsAreOwned
<1> HIDE DEF i, new, left, w
<1>7. assignments \in [Flows -> Index] /\ assignments[f] = i /\ \A g \in Flows : g # f => assignments[g] = t.assignments[g]
  BY <1>3, <1>5
<1> HIDE DEF assignments
<1>8. /\ b \in Tables /\ b.entries = new /\ b.free = left /\ b.assignments = assignments
      /\ b.oldest = t.oldest /\ b.newest = t.newest
  BY <1>3, <1>4, <1>7 DEF Tables
<1> HIDE DEF b
<1>9. Tracked(b) = Tracked(t) \cup {f}  BY <1>3, <1>7, <1>8 DEF Tracked
<1>10. \A g \in Tracked(t) : g \in Flows /\ g # f /\ b.assignments[g] = t.assignments[g] /\ t.assignments[g] \in Used(t)
  BY <1>7, <1>8 DEF Tracked, Used
<1>11. Used(b) = Used(t) \cup {i}
  <2>1. \A y \in Used(b) : y \in Used(t) \cup {i}
    <3> TAKE y \in Used(b)
    <3>1. PICK g \in Tracked(b) : y = b.assignments[g]  BY DEF Used
    <3>2. CASE g = f  BY <3>1, <3>2, <1>7, <1>8
    <3>3. CASE g # f
      <4>1. g \in Tracked(t)  BY <3>3, <1>9
      <4> QED BY <4>1, <3>1, <1>10
    <3> QED BY <3>2, <3>3
  <2>2. \A y \in Used(t) : y \in Used(b)
    <3> TAKE y \in Used(t)
    <3>1. PICK g \in Tracked(t) : y = t.assignments[g]  BY DEF Used
    <3>2. g \in Tracked(b) /\ y = b.assignments[g]  BY <3>1, <1>9, <1>10
    <3> QED BY <3>2 DEF Used
  <2>3. i \in Used(b)  BY <1>7, <1>8, <1>9 DEF Used
  <2> QED BY <2>1, <2>2, <2>3
<1>12. Free(b) = Free(t) \ {i}  BY <1>3, <1>8 DEF Free
<1>13. \A g \in Tracked(b) : b.entries[b.assignments[g]].flow = g
  <2> TAKE g \in Tracked(b)
  <2>1. CASE g = f  BY <2>1, <1>2, <1>3, <1>7, <1>8
  <2>2. CASE g # f
    <3>1. g \in Tracked(t)  BY <2>2, <1>9
    <3>2. t.assignments[g] # i /\ t.assignments[g] \in 1 .. Len(t.entries)  BY <3>1, <1>3, <1>4, <1>10
    <3>3. new[t.assignments[g]] = t.entries[t.assignments[g]]  BY <3>2, <1>3
    <3> QED BY <3>1, <3>3, <1>4, <1>8, <1>10
  <2> QED BY <2>1, <2>2
<1>14. SlotsAreOwned(b)
  <2>1. DOMAIN b.entries = 1 .. Len(new) /\ 1 .. Len(new) = (1 .. Len(t.entries)) \cup {i}  BY <1>3, <1>8, TableFields
  <2>2. Used(b) \cap Free(b) = {} /\ Used(b) \cup Free(b) = (1 .. Len(t.entries)) \cup {i}  BY <1>3, <1>6, <1>11, <1>12
  <2> QED BY <2>1, <2>2, <1>3, <1>8, <1>13 DEF SlotsAreOwned
<1>15. \A k \in 1 .. Len(o) : o[k] # i /\ new[o[k]] = t.entries[o[k]]  BY <1>3, <1>4
<1>16. Threads(b, o)  BY <1>4, <1>8, <1>15, ThreadsDepend
<1>17. o \in Seq(1 .. Len(b.entries)) /\ i \in 1 .. Len(b.entries)
  <2>1. 1 .. Len(t.entries) \subseteq 1 .. Len(b.entries)  BY <1>3, <1>8
  <2> QED BY <2>1, <1>3, <1>4, <1>8, WiderSeq
<1>18. w \in Tables /\ SameSlots(b, w) /\ p \in Seq(1 .. Len(b.entries)) /\ Threads(w, p)
  BY <1>1, <1>3, <1>8, <1>15, <1>16, <1>17, LinkThreads
<1>19. SlotsAreOwned(w) /\ Tracked(w) = Tracked(b) /\ Used(w) = Used(b)  BY <1>8, <1>14, <1>18, SameOwners
<1>20. {p[j] : j \in 1 .. Len(p)} = Used(w)
  <2> DEFINE S == 1 .. Len(b.entries)
  <2>1. o \in Seq(S) /\ i \in S  BY <1>17
  <2> HIDE DEF S
  <2>2. {p[j] : j \in 1 .. Len(p)} = {o[j] : j \in 1 .. Len(o)} \cup {i}  BY <2>1, AppendedSlots
  <2>3. {o[j] : j \in 1 .. Len(o)} = Used(t)  BY DEF Sound, IsChain
  <2> QED BY <2>2, <2>3, <1>11, <1>19
<1> HIDE DEF p
<1>21. Sound(w, p)  BY <1>18, <1>19, <1>20 DEF Sound, IsChain, SameSlots
<1>22. \A j \in 1 .. Len(b.entries) : w.entries[j].flow = b.entries[j].flow /\ w.entries[j].lane = b.entries[j].lane
  BY <1>18 DEF SameSlots
<1>23. w.entries[i].flow = f /\ w.entries[i].lane = l  BY <1>2, <1>3, <1>8, <1>17, <1>22
<1>24. \A k \in 1 .. Len(o) : /\ w.entries[o[k]].flow = t.entries[o[k]].flow
                              /\ w.entries[o[k]].lane = t.entries[o[k]].lane
  BY <1>3, <1>4, <1>8, <1>15, <1>22
<1>25. w.assignments[f] = i  BY <1>7, <1>8, <1>18 DEF SameSlots
<1> QED BY <1>3, <1>9, <1>19, <1>21, <1>23, <1>24, <1>25 DEF w, p

LEMMA IntervalCounts ==
  ASSUME NEW n \in Nat PROVE IsFiniteSet(1 .. n) /\ Cardinality(1 .. n) = n
<1>1. 1 \in Int /\ n \in Int  OBVIOUS
<1>2. IsFiniteSet(1 .. n) /\ Cardinality(1 .. n) = IF 1 > n THEN 0 ELSE n - 1 + 1  BY <1>1, FS_Interval
<1> QED BY <1>2

LEMMA EqualSeqs ==
  ASSUME NEW S, NEW s \in Seq(S), NEW r \in Seq(S), Len(s) = Len(r), \A j \in 1 .. Len(s) : s[j] = r[j]
  PROVE  s = r
OBVIOUS

(* There are as many tracked flows as places on the chain, and at most as   *)
(* many as slots; with nothing free they are as many as slots.              *)
LEMMA ChainCounts ==
  ASSUME NEW t, NEW o, Sound(t, o)
  PROVE  /\ Cardinality(Tracked(t)) = Len(o) /\ Len(o) <= Capacity /\ Len(o) <= Len(t.entries)
         /\ t.free = <<>> => Len(t.entries) = Len(o)
<1> DEFINE n == Len(o)
           g == [k \in 1 .. n |-> t.entries[o[k]].flow]
           m == Len(t.entries)
<1>1. /\ n \in Nat /\ t \in Tables
      /\ \A j, k \in 1 .. n : o[j] = o[k] => j = k
      /\ \A k \in 1 .. n : o[k] \in 1 .. m
      /\ \A f \in Tracked(t) : \E k \in 1 .. n : o[k] = t.assignments[f]
      /\ \A f \in Tracked(t) : t.entries[t.assignments[f]].flow = f
      /\ \A k \in 1 .. n : t.entries[o[k]].flow \in Tracked(t) /\ t.assignments[t.entries[o[k]].flow] = o[k]
  BY SoundFacts
<1>2. m \in Nat /\ m <= Capacity /\ Capacity \in Nat /\ DOMAIN t.entries = 1 .. m
  BY <1>1, TableFields, FlowTableAssumption DEF Sound, SlotsAreOwned
<1>3. g \in [1 .. n -> Tracked(t)] /\ \A k \in 1 .. n : g[k] = t.entries[o[k]].flow  BY <1>1
<1> HIDE DEF g
<1>4. \A j, k \in 1 .. n : g[j] = g[k] => j = k  BY <1>1, <1>3
<1>5. \A f \in Tracked(t) : \E k \in 1 .. n : g[k] = f  BY <1>1, <1>3
<1>6. g \in Bijection(1 .. n, Tracked(t))  BY <1>3, <1>4, <1>5 DEF Bijection, Injection, Surjection, IsInjective
<1>7. Cardinality(Tracked(t)) = n  BY <1>1, <1>6, FS_CountingElements DEF ExistsBijection
<1>8. o \in [1 .. n -> 1 .. m]  BY <1>1 DEF Sound
<1>9. o \in Injection(1 .. n, 1 .. m)  BY <1>1, <1>8 DEF Injection, IsInjective
<1>10. IsFiniteSet(1 .. m) /\ Cardinality(1 .. m) = m /\ IsFiniteSet(1 .. n) /\ Cardinality(1 .. n) = n
  BY <1>1, <1>2, IntervalCounts
<1>11. n <= m  BY <1>9, <1>10, FS_Injection
<1>12. ASSUME t.free = <<>> PROVE m = n
  <2>1. Free(t) = {}  BY <1>12 DEF Free
  <2>2. Used(t) = 1 .. m  BY <2>1, <1>2 DEF Sound, SlotsAreOwned
  <2>3. \A i \in Used(t) : \E k \in 1 .. n : o[k] = i  BY SoundFacts
  <2>4. o \in Bijection(1 .. n, 1 .. m)  BY <1>8, <1>9, <2>2, <2>3 DEF Bijection, Surjection
  <2> QED BY <2>4, <1>10, FS_Bijection DEF ExistsBijection
<1> QED BY <1>1, <1>2, <1>7, <1>11, <1>12

(* The pins along a chain, when the chain or the table changes.             *)
PinRecords == [flow : Flows, lane : AllLanes]

LEMMA PinsAlong ==
  ASSUME NEW t \in Tables, NEW o \in Seq(1 .. Len(t.entries))
  PROVE  /\ PinsIn(t, o) \in Seq(PinRecords) /\ Len(PinsIn(t, o)) = Len(o)
         /\ DOMAIN PinsIn(t, o) = 1 .. Len(o)
         /\ \A k \in 1 .. Len(o) : PinsIn(t, o)[k] = PinAt(t, o[k])
<1>1. Len(o) \in Nat /\ \A k \in 1 .. Len(o) : o[k] \in 1 .. Len(t.entries)  OBVIOUS
<1>2. \A j \in 1 .. Len(t.entries) : PinAt(t, j) \in PinRecords  BY TableFields DEF Entries, PinAt, PinRecords
<1>3. PinsIn(t, o) \in [1 .. Len(o) -> PinRecords]  BY <1>1, <1>2 DEF PinsIn
<1>4. \A k \in 1 .. Len(o) : PinsIn(t, o)[k] = PinAt(t, o[k])  BY DEF PinsIn
<1> QED BY <1>1, <1>3, <1>4, FunctionIsSeq

LEMMA SamePins ==
  ASSUME NEW t, NEW u, NEW o, \A k \in 1 .. Len(o) : PinAt(t, o[k]) = PinAt(u, o[k])
  PROVE  PinsIn(t, o) = PinsIn(u, o)
BY DEF PinsIn

LEMMA PinsRemoved ==
  ASSUME NEW t \in Tables, NEW o \in Seq(1 .. Len(t.entries)), NEW k \in 1 .. Len(o)
  PROVE  PinsIn(t, RemoveAt(o, k)) = RemoveAt(PinsIn(t, o), k)
<1> DEFINE p == RemoveAt(o, k)
           a == PinsIn(t, o)
           b == PinsIn(t, p)
           c == RemoveAt(a, k)
           n == Len(o)
<1> DEFINE S == 1 .. Len(t.entries)
<1>1. /\ p \in Seq(1 .. Len(t.entries)) /\ Len(p) = n - 1 /\ n \in Nat /\ k \in 1 .. n
      /\ \A j \in 1 .. (n - 1) : p[j] = IF j < k THEN o[j] ELSE o[j + 1]
  <2>1. o \in Seq(S)  OBVIOUS
  <2> HIDE DEF S
  <2>2. n \in Nat /\ k \in 1 .. n  BY <2>1
  <2>3. /\ p \in Seq(S) /\ Len(p) = n - 1
        /\ \A j \in 1 .. (n - 1) : p[j] = IF j < k THEN o[j] ELSE o[j + 1]
    BY <2>1, <2>2, RemovedAt
  <2> QED BY <2>2, <2>3 DEF S
<1>2. a \in Seq(PinRecords) /\ Len(a) = n /\ \A j \in 1 .. n : a[j] = PinAt(t, o[j])  BY PinsAlong
<1> HIDE DEF p, a, n
<1>3. b \in Seq(PinRecords) /\ Len(b) = n - 1 /\ \A j \in 1 .. (n - 1) : b[j] = PinAt(t, p[j])  BY <1>1, PinsAlong
<1>4. c \in Seq(PinRecords) /\ Len(c) = n - 1 /\ \A j \in 1 .. (n - 1) : c[j] = IF j < k THEN a[j] ELSE a[j + 1]
  BY <1>1, <1>2, RemovedAt
<1> HIDE DEF b, c
<1>5. ASSUME NEW j \in 1 .. (n - 1) PROVE b[j] = c[j]
  <2>1. CASE j < k
    <3>1. j \in 1 .. n /\ p[j] = o[j] /\ c[j] = a[j]  BY <2>1, <1>1, <1>4
    <3> QED BY <3>1, <1>2, <1>3
  <2>2. CASE ~(j < k)
    <3>1. j + 1 \in 1 .. n /\ p[j] = o[j + 1] /\ c[j] = a[j + 1]  BY <2>2, <1>1, <1>4
    <3> QED BY <3>1, <1>2, <1>3
  <2> QED BY <2>1, <2>2
<1>6. b = c  BY <1>1, <1>3, <1>4, <1>5
<1> QED BY <1>6 DEF a, b, c, p

LEMMA PinsAppended ==
  ASSUME NEW t \in Tables, NEW o \in Seq(1 .. Len(t.entries)), NEW i \in 1 .. Len(t.entries)
  PROVE  PinsIn(t, Append(o, i)) = Append(PinsIn(t, o), PinAt(t, i))
<1> DEFINE p == Append(o, i)
           a == PinsIn(t, o)
           b == PinsIn(t, p)
           x == PinAt(t, i)
           c == Append(a, x)
           n == Len(o)
<1>1. p \in Seq(1 .. Len(t.entries)) /\ Len(p) = n + 1 /\ n \in Nat /\ p[n + 1] = i /\ \A j \in 1 .. n : p[j] = o[j]  OBVIOUS
<1>2. a \in Seq(PinRecords) /\ Len(a) = n /\ \A j \in 1 .. n : a[j] = PinAt(t, o[j])  BY PinsAlong
<1>3. x \in PinRecords  BY TableFields DEF PinAt, PinRecords, Entries
<1> HIDE DEF p, a, n
<1>4. b \in Seq(PinRecords) /\ Len(b) = n + 1 /\ \A j \in 1 .. (n + 1) : b[j] = PinAt(t, p[j])  BY <1>1, PinsAlong
<1> HIDE DEF x, b
<1>5. c \in Seq(PinRecords) /\ Len(c) = n + 1 /\ c[n + 1] = x /\ \A j \in 1 .. n : c[j] = a[j]  BY <1>2, <1>3
<1> HIDE DEF c
<1>6. ASSUME NEW j \in 1 .. (n + 1) PROVE b[j] = c[j]
  <2>1. CASE j = n + 1  BY <2>1, <1>1, <1>4, <1>5 DEF x
  <2>2. CASE j # n + 1
    <3>1. j \in 1 .. n  BY <2>2, <1>1
    <3> QED BY <3>1, <1>1, <1>2, <1>4, <1>5
  <2> QED BY <2>1, <2>2
<1>7. b = c  BY <1>4, <1>5, <1>6, EqualSeqs
<1> QED BY <1>7 DEF a, b, c, p, x

(* The place of a tracked flow.                                             *)
Stands(t, o, f, k) == k \in 1 .. Len(o) /\ f \in Tracked(t) /\ o[k] = t.assignments[f]

(* touch: the pin of the flow moves to the end.                             *)
LEMMA TouchPins ==
  ASSUME NEW t, NEW o, Sound(t, o), NEW k \in 1 .. Len(o)
  PROVE  LET w == touch(t, o[k])
             q == Append(RemoveAt(o, k), o[k])
         IN Sound(w, q) /\ SameSlots(t, w) /\ PinsIn(w, q) = Append(PinsIn(t, RemoveAt(o, k)), PinAt(t, o[k]))
<1> DEFINE w == touch(t, o[k])
           p == RemoveAt(o, k)
           i == o[k]
           q == Append(p, i)
<1>1. Sound(w, q) /\ SameSlots(t, w)  BY TouchSound
<1>2. t \in Tables /\ o \in Seq(1 .. Len(t.entries)) /\ i \in 1 .. Len(t.entries)  BY SoundFacts
<1>3. p \in Seq(1 .. Len(t.entries))  BY <1>2, RemovedAt
<1> HIDE DEF w, p, i
<1>4. q \in Seq(1 .. Len(t.entries)) /\ \A j \in 1 .. Len(q) : q[j] \in 1 .. Len(t.entries)  BY <1>2, <1>3
<1>5. PinsIn(t, q) = Append(PinsIn(t, p), PinAt(t, i))  BY <1>2, <1>3, PinsAppended
<1> HIDE DEF q
<1>6. \A j \in 1 .. Len(q) : PinAt(w, q[j]) = PinAt(t, q[j])  BY <1>1, <1>4 DEF SameSlots, PinAt
<1>7. PinsIn(w, q) = PinsIn(t, q)  BY <1>6, SamePins
<1> QED BY <1>1, <1>5, <1>7 DEF w, p, i, q

(* remove and evict_oldest: the pin of the flow is taken out.               *)
LEMMA VacatePins ==
  ASSUME NEW t, NEW o, Sound(t, o), NEW f, NEW k, Stands(t, o, f, k)
  PROVE  LET v == Vacate(t, f)
         IN /\ Sound(v, RemoveAt(o, k)) /\ v.free # <<>> /\ Tracked(v) = Tracked(t) \ {f}
            /\ PinsIn(v, RemoveAt(o, k)) = PinsIn(t, RemoveAt(o, k))
<1> DEFINE v == Vacate(t, f)
           p == RemoveAt(o, k)
<1>1. k \in 1 .. Len(o) /\ f \in Tracked(t) /\ t.assignments[f] = o[k]  BY DEF Stands
<1>2. /\ Sound(v, p) /\ Tracked(v) = Tracked(t) \ {f} /\ v.free # <<>>
      /\ \A j \in 1 .. Len(t.entries) : v.entries[j].flow = t.entries[j].flow /\ v.entries[j].lane = t.entries[j].lane
  BY <1>1, VacateSound
<1>3. t \in Tables /\ o \in Seq(1 .. Len(t.entries))  BY SoundFacts
<1>4. p \in Seq(1 .. Len(t.entries))  BY <1>1, <1>3, RemovedAt
<1> HIDE DEF v, p
<1>5. \A j \in 1 .. Len(p) : p[j] \in 1 .. Len(t.entries)  BY <1>4
<1>6. \A j \in 1 .. Len(p) : PinAt(v, p[j]) = PinAt(t, p[j])  BY <1>2, <1>5 DEF PinAt
<1>7. PinsIn(v, p) = PinsIn(t, p)  BY <1>6, SamePins
<1> QED BY <1>2, <1>7 DEF v, p

(* Every tracked flow has its place.                                        *)
LEMMA StandsOf ==
  ASSUME NEW t, NEW o, Sound(t, o), NEW f \in Tracked(t)
  PROVE  \E k \in 1 .. Len(o) : Stands(t, o, f, k)
BY SoundFacts DEF Stands

(* assign for a flow that is tracked: the lane changes and the flow becomes *)
(* the newest.                                                              *)
LEMMA ReassignPins ==
  ASSUME NEW t, NEW o, Sound(t, o), NEW f, NEW k, Stands(t, o, f, k), NEW l \in AllLanes
  PROVE  LET w == touch(Repin(t, o[k], l), o[k])
             q == Append(RemoveAt(o, k), o[k])
         IN /\ Sound(w, q) /\ f \in Tracked(w) /\ w.entries[w.assignments[f]].lane = l
            /\ PinsIn(w, q) = Append(PinsIn(t, RemoveAt(o, k)), [flow |-> f, lane |-> l])
<1> DEFINE i == o[k]
           u == Repin(t, i, l)
           w == touch(u, i)
           p == RemoveAt(o, k)
           q == Append(p, i)
<1>1. k \in 1 .. Len(o) /\ f \in Tracked(t) /\ t.assignments[f] = i  BY DEF Stands
<1>2. /\ t \in Tables /\ o \in Seq(1 .. Len(t.entries)) /\ i \in 1 .. Len(t.entries) /\ t.entries[i].flow = f
      /\ \A j, m \in 1 .. Len(o) : o[j] = o[m] => j = m
  <2>1. /\ t \in Tables /\ o \in Seq(1 .. Len(t.entries)) /\ \A j, m \in 1 .. Len(o) : o[j] = o[m] => j = m  BY SoundFacts
  <2>2. i \in 1 .. Len(t.entries) /\ t.entries[t.assignments[f]].flow = f  BY <1>1, SoundFacts
  <2> QED BY <1>1, <2>1, <2>2
<1>3. /\ Sound(u, o) /\ u.assignments = t.assignments /\ Len(u.entries) = Len(t.entries) /\ Tracked(u) = Tracked(t)
      /\ \A j \in 1 .. Len(t.entries) : /\ u.entries[j].flow = t.entries[j].flow
                                        /\ u.entries[j].lane = IF j = i THEN l ELSE t.entries[j].lane
  BY <1>2, RepinSound
<1>4. p \in Seq(1 .. Len(t.entries)) /\ \A j \in 1 .. Len(p) : p[j] # i  BY <1>1, <1>2, RemovedAt, MovedToEnd
<1> HIDE DEF u
<1>5. Sound(w, q) /\ SameSlots(u, w) /\ PinsIn(w, q) = Append(PinsIn(u, p), PinAt(u, i))  BY <1>1, <1>3, TouchPins
<1> HIDE DEF p, i, w, q
<1>6. PinAt(u, i) = [flow |-> f, lane |-> l]  BY <1>2, <1>3 DEF PinAt
<1>7. \A j \in 1 .. Len(p) : p[j] \in 1 .. Len(t.entries)  BY <1>4
<1>8. \A j \in 1 .. Len(p) : PinAt(u, p[j]) = PinAt(t, p[j])  BY <1>3, <1>4, <1>7 DEF PinAt
<1>9. PinsIn(u, p) = PinsIn(t, p)  BY <1>8, SamePins
<1>10. f \in Tracked(w) /\ w.assignments[f] = i  BY <1>1, <1>3, <1>5 DEF SameSlots, Tracked
<1>11. w.entries[i].lane = l  BY <1>2, <1>3, <1>5 DEF SameSlots
<1> QED BY <1>5, <1>6, <1>9, <1>10, <1>11 DEF i, p, q, w, u

(* assign for a flow that is not tracked, where there is room.              *)
LEMMA InsertPins ==
  ASSUME NEW t, NEW o, Sound(t, o), NEW f \in Flows, f \notin Tracked(t), NEW l \in AllLanes,
         t.free # <<>> \/ Len(o) < Capacity
  PROVE  \E q : LET w == Insert(t, f, l)
                IN /\ Sound(w, q) /\ f \in Tracked(w) /\ w.entries[w.assignments[f]].lane = l
                   /\ PinsIn(w, q) = Append(PinsIn(t, o), [flow |-> f, lane |-> l])
<1> DEFINE w == Insert(t, f, l)
<1>1. t.free = <<>> => Len(t.entries) < Capacity  BY ChainCounts
<1>2. PICK i \in Index : /\ Sound(w, Append(o, i)) /\ Tracked(w) = Tracked(t) \cup {f} /\ w.assignments[f] = i
                         /\ w.entries[i].flow = f /\ w.entries[i].lane = l
                         /\ \A k \in 1 .. Len(o) : /\ w.entries[o[k]].flow = t.entries[o[k]].flow
                                                   /\ w.entries[o[k]].lane = t.entries[o[k]].lane
  BY <1>1, InsertSound
<1> HIDE DEF w
<1> DEFINE q == Append(o, i)
           n == Len(o)
<1>3. o \in Seq(1 .. Len(t.entries)) /\ n \in Nat  BY SoundFacts
<1>4. w \in Tables /\ \A k \in 1 .. Len(q) : q[k] \in 1 .. Len(w.entries)  BY <1>2, SoundFacts
<1>5. Len(q) = n + 1 /\ q[n + 1] = i /\ \A k \in 1 .. n : q[k] = o[k]  BY <1>3
<1> HIDE DEF q
<1>6. i \in 1 .. Len(w.entries) /\ \A k \in 1 .. n : o[k] \in 1 .. Len(w.entries)
  <2>1. n + 1 \in 1 .. Len(q) /\ \A k \in 1 .. n : k \in 1 .. Len(q)  BY <1>3, <1>5
  <2> QED BY <2>1, <1>4, <1>5
<1>7. o \in Seq(1 .. Len(w.entries))
  <2>1. o \in [1 .. n -> 1 .. Len(w.entries)]  BY <1>3, <1>6
  <2> QED BY <2>1, <1>3, FunctionIsSeq
<1>8. PinsIn(w, Append(o, i)) = Append(PinsIn(w, o), PinAt(w, i))  BY <1>4, <1>6, <1>7, PinsAppended
<1>9. PinAt(w, i) = [flow |-> f, lane |-> l]  BY <1>2 DEF PinAt
<1>10. \A k \in 1 .. Len(o) : PinAt(w, o[k]) = PinAt(t, o[k])  BY <1>2 DEF PinAt
<1>11. PinsIn(w, o) = PinsIn(t, o)  BY <1>10, SamePins
<1>12. Sound(w, q) /\ PinsIn(w, q) = Append(PinsIn(t, o), [flow |-> f, lane |-> l])  BY <1>2, <1>8, <1>9, <1>11 DEF q
<1> QED BY <1>2, <1>12 DEF w

(* The oldest flow is the first on the chain.                               *)
LEMMA EvictPins ==
  ASSUME NEW t, NEW o, Sound(t, o), Len(o) # 0
  PROVE  LET v == evict_oldest(t)
         IN /\ Sound(v, RemoveAt(o, 1)) /\ v.free # <<>> /\ Tracked(v) \subseteq Tracked(t)
            /\ PinsIn(v, RemoveAt(o, 1)) = PinsIn(t, RemoveAt(o, 1))
<1>1. t \in Tables /\ o \in Seq(1 .. Len(t.entries)) /\ Threads(t, o) /\ Len(o) \in Nat /\ 1 \in 1 .. Len(o)  BY SoundFacts
<1>2. t.oldest = o[1]  BY <1>1, ThreadFacts
<1> DEFINE f == t.entries[o[1]].flow
<1>3. f \in Tracked(t) /\ t.assignments[f] = o[1]  BY <1>1, SoundFacts
<1>4. Stands(t, o, f, 1)  BY <1>1, <1>3 DEF Stands
<1> HIDE DEF f
<1>5. evict_oldest(t) = Vacate(t, f)  BY <1>2 DEF evict_oldest, f
<1> QED BY <1>4, <1>5, VacatePins

(* assign: the flow is the newest, and the oldest makes way only for a flow *)
(* that is new to a full table.                                             *)
LEMMA AssignPins ==
  ASSUME NEW t, NEW o, Sound(t, o), NEW f \in Flows, NEW l \in AllLanes
  PROVE  \E q : LET w == assign(t, f, l)
                IN /\ Sound(w, q) /\ f \in Tracked(w) /\ w.entries[w.assignments[f]].lane = l
                   /\ \A k : Stands(t, o, f, k) => PinsIn(w, q) = Append(RemoveAt(PinsIn(t, o), k), [flow |-> f, lane |-> l])
                   /\ f \notin Tracked(t) =>
                        PinsIn(w, q) = Append(IF Len(o) = Capacity THEN RemoveAt(PinsIn(t, o), 1) ELSE PinsIn(t, o),
                                              [flow |-> f, lane |-> l])
<1> DEFINE w == assign(t, f, l)
           x == [flow |-> f, lane |-> l]
<1>1. t \in Tables /\ o \in Seq(1 .. Len(t.entries)) /\ Len(o) \in Nat /\ \A j, m \in 1 .. Len(o) : o[j] = o[m] => j = m
  BY SoundFacts
<1>2. CASE f \in Tracked(t)
  <2>1. PICK k \in 1 .. Len(o) : Stands(t, o, f, k)  BY <1>2, StandsOf
  <2> DEFINE q == Append(RemoveAt(o, k), o[k])
  <2>2. w = touch(Repin(t, o[k], l), o[k])  BY <1>2, <2>1 DEF assign, Stands
  <2> HIDE DEF w
  <2>3. Sound(w, q) /\ f \in Tracked(w) /\ w.entries[w.assignments[f]].lane = l /\ PinsIn(w, q) = Append(PinsIn(t, RemoveAt(o, k)), x)
    BY <2>1, <2>2, ReassignPins
  <2>4. PinsIn(t, RemoveAt(o, k)) = RemoveAt(PinsIn(t, o), k)  BY <1>1, PinsRemoved
  <2>5. \A j : Stands(t, o, f, j) => j = k  BY <1>1, <2>1 DEF Stands
  <2> HIDE DEF q, x
  <2>6. \A j : Stands(t, o, f, j) => PinsIn(w, q) = Append(RemoveAt(PinsIn(t, o), j), x)  BY <2>3, <2>4, <2>5
  <2> QED BY <1>2, <2>3, <2>6 DEF w, x
<1>3. CASE f \notin Tracked(t)
  <2>1. \A j : ~Stands(t, o, f, j)  BY <1>3 DEF Stands
  <2>2. Cardinality(Tracked(t)) = Len(o) /\ Len(o) <= Capacity /\ Capacity \in Nat /\ Capacity # 0
    BY ChainCounts, FlowTableAssumption
  <2>3. CASE Len(o) = Capacity
    <3> DEFINE v == evict_oldest(t)
               p == RemoveAt(o, 1)
    <3>1. w = Insert(v, f, l)  BY <1>3, <2>2, <2>3 DEF assign
    <3>2. Sound(v, p) /\ v.free # <<>> /\ Tracked(v) \subseteq Tracked(t) /\ PinsIn(v, p) = PinsIn(t, p)
      BY <2>2, <2>3, EvictPins
    <3>3. 1 \in 1 .. Len(o)  BY <2>2, <2>3
    <3>4. PinsIn(t, p) = RemoveAt(PinsIn(t, o), 1)  BY <1>1, <3>3, PinsRemoved
    <3> HIDE DEF w, v, p
    <3>5. f \notin Tracked(v)  BY <1>3, <3>2
    <3>6. PICK q : Sound(w, q) /\ f \in Tracked(w) /\ w.entries[w.assignments[f]].lane = l /\ PinsIn(w, q) = Append(PinsIn(v, p), x)
      BY <3>1, <3>2, <3>5, InsertPins
    <3> QED BY <3>2, <3>4, <3>6, <2>1, <2>3 DEF w
  <2>4. CASE Len(o) # Capacity
    <3>1. w = Insert(t, f, l)  BY <1>3, <2>2, <2>4, <1>1 DEF assign
    <3>2. Len(o) < Capacity  BY <2>2, <2>4, <1>1
    <3> HIDE DEF w
    <3>3. PICK q : Sound(w, q) /\ f \in Tracked(w) /\ w.entries[w.assignments[f]].lane = l /\ PinsIn(w, q) = Append(PinsIn(t, o), x)
      BY <1>3, <3>1, <3>2, InsertPins
    <3> QED BY <3>3, <2>1, <2>4 DEF w
  <2> QED BY <2>3, <2>4
<1> QED BY <1>2, <1>3

(* A chain that begins like another one: the links leave no choice.         *)
LEMMA ChainBegins ==
  ASSUME NEW t, NEW o, NEW p, Sound(t, o), Sound(t, p)
  PROVE  Len(o) <= Len(p) /\ \A k \in 1 .. Len(o) : o[k] = p[k]
<1> DEFINE Bad == {k \in 1 .. Len(o) : ~(k <= Len(p) /\ o[k] = p[k])}
<1>1. /\ t \in Tables /\ Len(o) \in Nat /\ Len(p) \in Nat
      /\ o \in Seq(1 .. Len(t.entries)) /\ Threads(t, o) /\ p \in Seq(1 .. Len(t.entries)) /\ Threads(t, p)
  BY SoundFacts
<1>2. /\ \A k \in 1 .. Len(o) : o[k] # NO_FLOW_INDEX /\ t.entries[o[k]].next = IF k = Len(o) THEN NO_FLOW_INDEX ELSE o[k + 1]
      /\ t.oldest = IF Len(o) = 0 THEN NO_FLOW_INDEX ELSE o[1]
  BY <1>1, ThreadFacts
<1>3. /\ \A k \in 1 .. Len(p) : p[k] # NO_FLOW_INDEX /\ t.entries[p[k]].next = IF k = Len(p) THEN NO_FLOW_INDEX ELSE p[k + 1]
      /\ t.oldest = IF Len(p) = 0 THEN NO_FLOW_INDEX ELSE p[1]
  BY <1>1, ThreadFacts
<1>4. ASSUME Bad # {} PROVE FALSE
  <2>1. Bad \subseteq Nat  BY <1>1
  <2>2. IsWellFoundedOn(OpToRel(<, Nat), Nat)  BY NatLessThanWellFounded
  <2> HIDE DEF Bad
  <2>3. PICK k \in Bad : \A j \in Bad : ~(<<j, k>> \in OpToRel(<, Nat))  BY <1>4, <2>1, <2>2, WFMin
  <2>4. \A j \in Bad : ~(j < k)
    <3> TAKE j \in Bad
    <3>1. j \in Nat /\ k \in Nat  BY <2>1
    <3> QED BY <2>3, <3>1, Zenon DEF OpToRel
  <2>5. k \in 1 .. Len(o) /\ ~(k <= Len(p) /\ o[k] = p[k])  BY DEF Bad
  <2>6. CASE k = 1
    <3>1. Len(o) # 0 /\ 1 \in 1 .. Len(o)  BY <1>1, <2>5, <2>6
    <3>2. Len(p) # 0 /\ p[1] = o[1]  BY <3>1, <1>2, <1>3
    <3> QED BY <3>2, <2>5, <2>6, <1>1
  <2>7. CASE k # 1
    <3>1. k - 1 \in 1 .. Len(o) /\ k - 1 # Len(o) /\ (k - 1) + 1 = k /\ k - 1 < k  BY <1>1, <2>5, <2>7
    <3>2. k - 1 \notin Bad  BY <3>1, <2>4
    <3>3. k - 1 <= Len(p) /\ o[k - 1] = p[k - 1]  BY <3>1, <3>2 DEF Bad
    <3>4. k - 1 \in 1 .. Len(p)  BY <3>1, <3>3, <1>1
    <3>5. t.entries[o[k - 1]].next = o[k] /\ o[k] # NO_FLOW_INDEX  BY <3>1, <2>5, <1>2
    <3>6. t.entries[p[k - 1]].next = IF k - 1 = Len(p) THEN NO_FLOW_INDEX ELSE p[k]  BY <3>1, <3>4, <1>3
    <3>7. k - 1 # Len(p) /\ p[k] = o[k]  BY <3>3, <3>5, <3>6
    <3>8. k <= Len(p)  BY <3>3, <3>7, <3>1, <1>1
    <3> QED BY <3>7, <3>8, <2>5
  <2> QED BY <2>6, <2>7
<1>5. \A k \in 1 .. Len(o) : k <= Len(p) /\ o[k] = p[k]  BY <1>4
<1>6. Len(o) <= Len(p)
  <2>1. CASE Len(o) = 0  BY <2>1, <1>1
  <2>2. CASE Len(o) # 0
    <3>1. Len(o) \in 1 .. Len(o)  BY <2>2, <1>1
    <3> QED BY <3>1, <1>5
  <2> QED BY <2>1, <2>2
<1> QED BY <1>5, <1>6

(* A table has one chain only, so the one that is chosen is any.            *)
LEMMA ChainIs ==
  ASSUME NEW t, NEW o, Sound(t, o)
  PROVE  Chain(t) = o /\ ChainIsWhole(t)
<1>1. /\ t \in Tables /\ o \in Seq(1 .. Len(t.entries)) /\ Len(o) \in Nat /\ DOMAIN t.entries = 1 .. Len(t.entries)
      /\ \A k \in 1 .. Len(o) : o[k] \in Used(t)
  BY SoundFacts, TableFields
<1>2. Used(t) \subseteq 1 .. Len(t.entries)  BY <1>1 DEF Sound, SlotsAreOwned
<1>3. Orders(t) = [1 .. Len(o) -> Used(t)]  BY ChainCounts DEF Orders
<1>4. o \in Orders(t) /\ IsChain(t, o)
  <2>1. o \in [1 .. Len(o) -> Used(t)]  BY <1>1
  <2> QED BY <2>1, <1>3 DEF Sound
<1>5. Chain(t) \in Orders(t) /\ IsChain(t, Chain(t))  BY <1>4 DEF Chain
<1>6. Chain(t) \in [1 .. Len(o) -> 1 .. Len(t.entries)]  BY <1>2, <1>3, <1>5
<1>7. Chain(t) \in Seq(1 .. Len(t.entries)) /\ Len(Chain(t)) = Len(o)  BY <1>1, <1>6, FunctionIsSeq
<1>8. Sound(t, Chain(t))  BY <1>5, <1>7 DEF Sound
<1>9. \A k \in 1 .. Len(o) : o[k] = Chain(t)[k]  BY <1>8, ChainBegins
<1>10. Chain(t) = o  BY <1>1, <1>7, <1>9, EqualSeqs
<1> QED BY <1>4, <1>10 DEF ChainIsWhole

(* The loop over the data lanes visits each of them.                        *)
LEMMA LaneAtVisits ==
  ASSUME NEW f \in Flows
  PROVE  /\ \A k \in 0 .. LaneCount - 2 : LaneAt(f, k) \in DataLanes
         /\ \A l \in DataLanes : \E k \in 0 .. LaneCount - 2 : LaneAt(f, k) = l
<1> DEFINE m == LaneCount - 1
           s == Hash[f] % m
<1>1. m \in Nat /\ m > 0 /\ Hash[f] \in Nat /\ LaneCount - 2 = m - 1 /\ DataLanes = 1 .. m
  BY FlowTableAssumption DEF DataLanes
<1> HIDE DEF m
<1>2. \A x \in Nat : x % m \in 0 .. m - 1  BY <1>1
<1>3. s \in 0 .. m - 1  BY <1>1, <1>2
<1>4. \A k : LaneAt(f, k) = 1 + ((s + k) % m)  BY DEF LaneAt, m
<1> HIDE DEF s
<1>5. ASSUME NEW k \in 0 .. m - 1 PROVE LaneAt(f, k) \in DataLanes
  <2>1. s + k \in Nat  BY <1>1, <1>3
  <2> QED BY <2>1, <1>1, <1>2, <1>4
<1>6. ASSUME NEW l \in DataLanes PROVE \E k \in 0 .. m - 1 : LaneAt(f, k) = l
  <2>1. l \in 1 .. m  BY <1>1
  <2>2. CASE l - 1 >= s
    <3> DEFINE k == l - 1 - s
    <3>1. k \in 0 .. m - 1 /\ s + k = l - 1 /\ l - 1 \in 0 .. m - 1  BY <1>1, <1>3, <2>1, <2>2
    <3>2. (l - 1) % m = l - 1  BY <3>1, <1>1
    <3> QED BY <3>1, <3>2, <1>4, <2>1
  <2>3. CASE l - 1 < s
    <3> DEFINE k == l - 1 - s + m
    <3>1. k \in 0 .. m - 1 /\ s + k = (l - 1) + m /\ l - 1 \in 0 .. m - 1  BY <1>1, <1>3, <2>1, <2>3
    <3>2. ((l - 1) + m) % m = l - 1  BY <3>1, <1>1
    <3> QED BY <3>1, <3>2, <1>4, <2>1
  <2> QED BY <2>2, <2>3, <1>3, <2>1, <1>1
<1> QED BY <1>1, <1>5, <1>6

(* A set of naturals has a least element.                                   *)
LEMMA LeastOf ==
  ASSUME NEW S, S \subseteq Nat, S # {} PROVE \E x \in S : \A y \in S : x <= y
<1>1. IsWellFoundedOn(OpToRel(<, Nat), Nat)  BY NatLessThanWellFounded
<1>2. PICK x \in S : \A y \in S : ~(<<y, x>> \in OpToRel(<, Nat))  BY <1>1, WFMin
<1>3. ASSUME NEW y \in S PROVE x <= y
  <2>1. x \in Nat /\ y \in Nat  OBVIOUS
  <2>2. ~(y < x)  BY <1>2, <2>1, Zenon DEF OpToRel
  <2> QED BY <2>1, <2>2
<1> QED BY <1>3

(* While a data lane lives, the loop finds one that does.                   *)
LEMMA LeastLoadedLives ==
  ASSUME NEW f \in Flows, NEW load \in [DataLanes -> 0 .. MaxLoad], DataLanes \cap lanes # {}
  PROVE  LeastLoaded(f, load) \in DataLanes \cap lanes
<1> DEFINE live == {k \in 0 .. LaneCount - 2 : LaneAt(f, k) \in lanes}
           best == {k \in live : \A j \in live : load[LaneAt(f, k)] <= load[LaneAt(f, j)]}
           loads == {load[LaneAt(f, k)] : k \in live}
           first == CHOOSE k \in best : \A j \in best : k <= j
<1>1. LeastLoaded(f, load) = LaneAt(f, first)  BY DEF LeastLoaded
<1>2. \A k \in live : k \in Nat /\ LaneAt(f, k) \in DataLanes /\ LaneAt(f, k) \in lanes
  BY LaneAtVisits, FlowTableAssumption
<1>3. live # {}
  <2>1. PICK l \in DataLanes : l \in lanes  OBVIOUS
  <2>2. PICK k \in 0 .. LaneCount - 2 : LaneAt(f, k) = l  BY LaneAtVisits
  <2> QED BY <2>1, <2>2
<1> HIDE DEF live
<1>4. loads \subseteq Nat /\ loads # {}
  <2>1. \A l \in DataLanes : load[l] \in Nat  BY FlowTableAssumption
  <2> QED BY <2>1, <1>2, <1>3
<1>5. PICK x \in loads : \A y \in loads : x <= y  BY <1>4, LeastOf
<1>6. PICK k \in live : x = load[LaneAt(f, k)]  BY <1>5
<1>7. \A j \in live : load[LaneAt(f, j)] \in loads  OBVIOUS
<1>8. k \in best  BY <1>5, <1>6, <1>7
<1>9. best \subseteq live /\ best # {}  BY <1>8
<1> HIDE DEF best
<1>10. best \subseteq Nat  BY <1>2, <1>9
<1>11. \E j \in best : \A i \in best : j <= i  BY <1>9, <1>10, LeastOf
<1>12. first \in best  BY <1>11
<1> HIDE DEF first
<1> QED BY <1>1, <1>2, <1>9, <1>12

----------------------------------------------------------------------------
(* While a packet is under way its flow, if tracked, is pinned to the lane  *)
(* that was chosen.                                                         *)
ChoiceIsPinned ==
  choice # NoChoice /\ choice.flow \in Tracked(table) =>
    table.entries[table.assignments[choice.flow]].lane = choice.lane

FlowInv == FlowTypeOK /\ ChoiceIsPinned /\ \E o : Sound(table, o)

(* What becomes of the pins in a choice.                                    *)
Chosen(o, q, f, l) ==
  \/ \E k : /\ Stands(table, o, f, k) /\ l \in lanes /\ l = table.entries[o[k]].lane
            /\ PinsIn(table', q) = Append(RemoveAt(PinsIn(table, o), k), [flow |-> f, lane |-> l])
  \/ \E k : /\ Stands(table, o, f, k) /\ table.entries[o[k]].lane \notin lanes /\ l \in DataLanes \cap lanes
            /\ PinsIn(table', q) = Append(RemoveAt(PinsIn(table, o), k), [flow |-> f, lane |-> l])
  \/ /\ f \notin Tracked(table) /\ l \in DataLanes \cap lanes
     /\ PinsIn(table', q) = Append(IF Len(o) = Capacity THEN RemoveAt(PinsIn(table, o), 1) ELSE PinsIn(table, o),
                                   [flow |-> f, lane |-> l])
  \/ /\ l = 0 /\ DataLanes \cap lanes = {}
     /\ \A k : Stands(table, o, f, k) => PinsIn(table', q) = RemoveAt(PinsIn(table, o), k)
     /\ f \notin Tracked(table) => PinsIn(table', q) = PinsIn(table, o)

LEMMA SelectedLane ==
  ASSUME FlowTypeOK, NEW o, Sound(table, o), NEW f \in Flows, SelectData(f)
  PROVE  \E q, l : /\ Sound(table', q) /\ choice' = [flow |-> f, lane |-> l] /\ l \in AllLanes
                   /\ f \in Tracked(table') => table'.entries[table'.assignments[f]].lane = l
                   /\ Chosen(o, q, f, l)
<1>1. PICK load \in [DataLanes -> 0 .. MaxLoad] : select_data_lane(f, load)  BY DEF SelectData
<1>2. /\ table \in Tables /\ o \in Seq(1 .. Len(table.entries))
      /\ \A g \in Tracked(table) : table.assignments[g] \in 1 .. Len(table.entries)
  BY SoundFacts
<1>3. 0 \in AllLanes /\ DataLanes \subseteq AllLanes  BY FlowTableAssumption DEF DataLanes, AllLanes
<1>4. CASE Pinned(f)
  <2>1. f \in Tracked(table)  BY <1>4 DEF Pinned
  <2>2. PICK k \in 1 .. Len(o) : Stands(table, o, f, k)  BY <2>1, StandsOf
  <2> DEFINE l == table.entries[o[k]].lane
             q == Append(RemoveAt(o, k), o[k])
  <2>3. o[k] = table.assignments[f] /\ o[k] \in 1 .. Len(table.entries)  BY <1>2, <2>1, <2>2 DEF Stands
  <2>4. l \in lanes /\ choice' = [flow |-> f, lane |-> l] /\ table' = touch(table, o[k])
    BY <1>1, <1>4, <2>3 DEF select_data_lane, Pinned
  <2>5. Sound(table', q) /\ SameSlots(table, table') /\ PinsIn(table', q) = Append(PinsIn(table, RemoveAt(o, k)), PinAt(table, o[k]))
    BY <2>2, <2>4, TouchPins
  <2>6. PinsIn(table, RemoveAt(o, k)) = RemoveAt(PinsIn(table, o), k)  BY <1>2, <2>2, PinsRemoved
  <2>7. table.entries[o[k]].flow = f  BY <2>1, <2>3, SoundFacts
  <2>8. PinAt(table, o[k]) = [flow |-> f, lane |-> l]  BY <2>7 DEF PinAt
  <2>9. l \in AllLanes  BY <1>2, <2>3, TableFields DEF Entries
  <2>10. table'.entries[table'.assignments[f]].lane = l  BY <2>3, <2>5 DEF SameSlots
  <2> HIDE DEF l, q
  <2>11. Chosen(o, q, f, l)  BY <2>2, <2>4, <2>5, <2>6, <2>8 DEF Chosen, l
  <2> QED BY <2>4, <2>5, <2>9, <2>10, <2>11
<1>5. CASE ~Pinned(f) /\ DataLanes \cap lanes # {}
  <2> DEFINE l == LeastLoaded(f, load)
  <2>1. choice' = [flow |-> f, lane |-> l] /\ table' = assign(table, f, l)  BY <1>1, <1>5 DEF select_data_lane
  <2>2. l \in DataLanes \cap lanes  BY <1>1, <1>5, LeastLoadedLives
  <2> HIDE DEF l
  <2>3. l \in AllLanes  BY <1>3, <2>2
  <2>4. PICK q : /\ Sound(table', q) /\ f \in Tracked(table') /\ table'.entries[table'.assignments[f]].lane = l
                 /\ \A k : Stands(table, o, f, k) => PinsIn(table', q) = Append(RemoveAt(PinsIn(table, o), k), [flow |-> f, lane |-> l])
                 /\ f \notin Tracked(table) =>
                      PinsIn(table', q) = Append(IF Len(o) = Capacity THEN RemoveAt(PinsIn(table, o), 1) ELSE PinsIn(table, o),
                                                 [flow |-> f, lane |-> l])
    BY <2>1, <2>3, AssignPins
  <2>5. CASE f \in Tracked(table)
    <3>1. PICK k \in 1 .. Len(o) : Stands(table, o, f, k)  BY <2>5, StandsOf
    <3>2. table.entries[o[k]].lane \notin lanes  BY <1>5, <2>5, <3>1 DEF Pinned, Stands
    <3>3. Chosen(o, q, f, l)  BY <2>2, <2>4, <3>1, <3>2 DEF Chosen
    <3> QED BY <2>1, <2>3, <2>4, <3>3
  <2>6. CASE f \notin Tracked(table)
    <3>1. Chosen(o, q, f, l)  BY <2>2, <2>4, <2>6 DEF Chosen
    <3> QED BY <2>1, <2>3, <2>4, <3>1
  <2> QED BY <2>5, <2>6
<1>6. CASE ~Pinned(f) /\ DataLanes \cap lanes = {}
  <2>1. choice' = [flow |-> f, lane |-> 0] /\ table' = remove(table, f)  BY <1>1, <1>6 DEF select_data_lane
  <2>2. CASE f \in Tracked(table)
    <3>1. PICK k \in 1 .. Len(o) : Stands(table, o, f, k)  BY <2>2, StandsOf
    <3>2. table' = Vacate(table, f)  BY <2>1, <2>2 DEF remove
    <3> DEFINE q == RemoveAt(o, k)
    <3>3. Sound(table', q) /\ Tracked(table') = Tracked(table) \ {f} /\ PinsIn(table', q) = PinsIn(table, q)
      BY <3>1, <3>2, VacatePins
    <3>4. PinsIn(table, q) = RemoveAt(PinsIn(table, o), k)  BY <1>2, <3>1, PinsRemoved
    <3>5. \A j, m \in 1 .. Len(o) : o[j] = o[m] => j = m  BY SoundFacts
    <3>6. \A j : Stands(table, o, f, j) => j = k  BY <3>1, <3>5 DEF Stands
    <3> HIDE DEF q
    <3>7. Chosen(o, q, f, 0)  BY <1>6, <2>2, <3>3, <3>4, <3>6 DEF Chosen
    <3> QED BY <1>3, <2>1, <3>3, <3>7
  <2>3. CASE f \notin Tracked(table)
    <3>1. table' = table  BY <2>1, <2>3 DEF remove
    <3>2. Chosen(o, o, f, 0)  BY <1>6, <2>3, <3>1 DEF Chosen, Stands
    <3> QED BY <1>3, <2>1, <2>3, <3>1, <3>2
  <2> QED BY <2>2, <2>3
<1> QED BY <1>4, <1>5, <1>6

LEMMA EmptyIsSound == Sound(EmptyTable, <<>>) /\ Tracked(EmptyTable) = {} /\ PinsIn(EmptyTable, <<>>) = <<>>
<1> DEFINE t == EmptyTable
<1>1. /\ t.assignments = [f \in Flows |-> NO_FLOW_INDEX] /\ t.entries = <<>> /\ t.free = <<>>
      /\ t.oldest = NO_FLOW_INDEX /\ t.newest = NO_FLOW_INDEX
  BY DEF EmptyTable
<1>2. NO_FLOW_INDEX \in Index /\ Capacity \in Nat  BY FlowTableAssumption DEF Index, NO_FLOW_INDEX
<1>3. <<>> \in Seq(Entries) /\ <<>> \in Seq(Index) /\ <<>> \in Seq(1 .. Len(t.entries)) /\ Len(<<>>) = 0 /\ DOMAIN <<>> = {}  OBVIOUS
<1>4. t \in Tables  BY <1>2, <1>3 DEF Tables, EmptyTable
<1> HIDE DEF t
<1>5. Tracked(t) = {}  BY <1>1 DEF Tracked
<1>6. Used(t) = {} /\ Free(t) = {}  BY <1>1, <1>3, <1>5 DEF Used, Free
<1>7. SlotsAreOwned(t)  BY <1>1, <1>2, <1>3, <1>5, <1>6 DEF SlotsAreOwned
<1>8. 1 .. Len(<<>>) = {}  BY <1>3
<1>9. Threads(t, <<>>)  BY <1>1, <1>3, <1>8 DEF Threads
<1>10. {<<>>[k] : k \in 1 .. Len(<<>>)} = Used(t)  BY <1>6, <1>8
<1>11. IsChain(t, <<>>)  BY <1>9, <1>10 DEF IsChain
<1>12. PinsIn(t, <<>>) = <<>>
  <2>1. /\ PinsIn(t, <<>>) \in Seq(PinRecords) /\ Len(PinsIn(t, <<>>)) = 0  BY <1>3, <1>4, PinsAlong
  <2> QED BY <2>1
<1> QED BY <1>3, <1>4, <1>5, <1>7, <1>11, <1>12 DEF Sound, t

LEMMA FlowInitially == FlowInit => FlowInv
<1> SUFFICES ASSUME FlowInit PROVE FlowInv  OBVIOUS
<1>1. table = EmptyTable /\ choice = NoChoice /\ lanes \subseteq AllLanes  BY DEF FlowInit
<1>2. Sound(table, <<>>)  BY <1>1, EmptyIsSound
<1>3. table \in Tables  BY <1>2, SoundFacts
<1>4. FlowTypeOK  BY <1>1, <1>3 DEF FlowTypeOK, NoChoice
<1> QED BY <1>1, <1>2, <1>4 DEF FlowInv, ChoiceIsPinned

LEMMA FlowStep == FlowInv /\ [FlowNext]_flow_vars => FlowInv'
<1> SUFFICES ASSUME FlowInv, [FlowNext]_flow_vars PROVE FlowInv'  OBVIOUS
<1>1. FlowTypeOK /\ ChoiceIsPinned  BY DEF FlowInv
<1>2. PICK o : Sound(table, o)  BY DEF FlowInv
<1>3. lanes \subseteq AllLanes /\ table \in Tables /\ choice \in [flow : Flows \cup {NoFlow}, lane : AllLanes \cup {NoLane}]
  BY <1>1 DEF FlowTypeOK
<1>4. NoFlow \notin Tracked(table) /\ 0 \in AllLanes  BY FlowTableAssumption DEF Tracked, AllLanes
<1>5. ASSUME NEW f \in Flows, SelectData(f) PROVE FlowInv'
  <2>1. PICK q, l : /\ Sound(table', q) /\ choice' = [flow |-> f, lane |-> l] /\ l \in AllLanes
                    /\ f \in Tracked(table') => table'.entries[table'.assignments[f]].lane = l
    BY <1>1, <1>2, <1>5, SelectedLane
  <2>2. lanes' = lanes  BY <1>5 DEF SelectData
  <2>3. choice'.flow = f /\ choice'.lane = l /\ choice' \in [flow : Flows \cup {NoFlow}, lane : AllLanes \cup {NoLane}]  BY <2>1
  <2>4. table' \in Tables  BY <2>1, SoundFacts
  <2>5. FlowTypeOK'  BY <1>3, <2>2, <2>3, <2>4 DEF FlowTypeOK
  <2>6. ChoiceIsPinned'  BY <2>1, <2>3 DEF ChoiceIsPinned
  <2> QED BY <2>1, <2>5, <2>6 DEF FlowInv
<1>6. CASE SelectControl
  <2>1. table' = table /\ lanes' = lanes /\ choice' = [flow |-> NoFlow, lane |-> 0]  BY <1>6 DEF SelectControl
  <2>2. FlowTypeOK'  BY <1>3, <1>4, <2>1 DEF FlowTypeOK
  <2>3. ChoiceIsPinned'  BY <1>4, <2>1 DEF ChoiceIsPinned
  <2> QED BY <1>2, <2>1, <2>2, <2>3 DEF FlowInv
<1>7. CASE Deliver
  <2>1. table' = table /\ lanes' = lanes /\ choice' = NoChoice  BY <1>7 DEF Deliver
  <2>2. FlowTypeOK'  BY <1>3, <2>1 DEF FlowTypeOK, NoChoice
  <2>3. ChoiceIsPinned'  BY <2>1 DEF ChoiceIsPinned, NoChoice
  <2> QED BY <1>2, <2>1, <2>2, <2>3 DEF FlowInv
<1>8. ASSUME NEW l \in AllLanes, SessionEnds(l) \/ LaneRegisters(l) PROVE FlowInv'
  <2>1. table' = table /\ choice' = choice /\ lanes' \subseteq AllLanes  BY <1>3, <1>8 DEF SessionEnds, LaneRegisters
  <2>2. FlowTypeOK'  BY <1>3, <2>1 DEF FlowTypeOK
  <2>3. ChoiceIsPinned'  BY <1>1, <2>1 DEF ChoiceIsPinned, NoChoice
  <2> QED BY <1>2, <2>1, <2>2, <2>3 DEF FlowInv
<1>9. ASSUME NEW l \in AllLanes, GroupReplaced(l) PROVE FlowInv'
  <2>1. table' = EmptyTable /\ choice = NoChoice /\ choice' = choice /\ lanes' \subseteq AllLanes  BY <1>9 DEF GroupReplaced
  <2>2. Sound(table', <<>>)  BY <2>1, EmptyIsSound
  <2>3. table' \in Tables  BY <2>2, SoundFacts
  <2>4. FlowTypeOK'  BY <1>3, <2>1, <2>3 DEF FlowTypeOK
  <2>5. ChoiceIsPinned'  BY <2>1 DEF ChoiceIsPinned, NoChoice
  <2> QED BY <2>2, <2>4, <2>5 DEF FlowInv
<1>10. CASE UNCHANGED flow_vars
  <2>1. table' = table /\ choice' = choice /\ lanes' = lanes  BY <1>10 DEF flow_vars
  <2>2. FlowTypeOK'  BY <1>3, <2>1 DEF FlowTypeOK
  <2>3. ChoiceIsPinned'  BY <1>1, <2>1 DEF ChoiceIsPinned, NoChoice
  <2> QED BY <1>2, <2>1, <2>2, <2>3 DEF FlowInv
<1> QED BY <1>5, <1>6, <1>7, <1>8, <1>9, <1>10 DEF FlowNext

LEMMA FlowInvHolds == FlowSpec => []FlowInv
BY FlowInitially, FlowStep, PTL DEF FlowSpec

(* What the choice of a lane promises follows.                              *)
LEMMA ChoiceHolds == FlowInv => LanesAreChosen
<1> SUFFICES ASSUME FlowInv PROVE LanesAreChosen  OBVIOUS
<1>1. FlowTypeOK /\ ChoiceIsPinned  BY DEF FlowInv
<1>2. PICK o : Sound(table, o)  BY DEF FlowInv
<1>3. TableIsSound
  <2>1. SlotsAreOwned(table)  BY <1>2 DEF Sound
  <2>2. ChainIsWhole(table)  BY <1>2, ChainIs
  <2> QED BY <1>1, <2>1, <2>2 DEF TableIsSound
<1>4. lanes # {} => Target \in lanes
  <2> SUFFICES ASSUME lanes # {} PROVE Target \in lanes  OBVIOUS
  <2>1. lanes \subseteq Nat  BY <1>1, FlowTableAssumption DEF FlowTypeOK, AllLanes
  <2>2. \E l \in lanes : \A k \in lanes : l <= k  BY <2>1, LeastOf
  <2>3. (CHOOSE l \in lanes : \A k \in lanes : l <= k) \in lanes  BY <2>2
  <2> QED BY <2>3 DEF Target
<1>5. ASSUME choice # NoChoice, Pinned(choice.flow) PROVE Target = table.entries[table.assignments[choice.flow]].lane
  <2>1. choice.lane = table.entries[table.assignments[choice.flow]].lane /\ choice.lane \in lanes
    BY <1>1, <1>5 DEF ChoiceIsPinned, Pinned
  <2> QED BY <2>1 DEF Target
<1> QED BY <1>3, <1>4, <1>5 DEF LanesAreChosen, PacketsFindLane

(* The flow table of router.rs stays sound through touching, removing,      *)
(* evicting and reusing: map, slots, free list and chain agree, and a       *)
(* packet is dropped only when no lane is left and does not leave the lane  *)
(* of its flow while that one lives.                                        *)
THEOREM LanesAreAlwaysChosen == FlowSpec => []LanesAreChosen
BY FlowInvHolds, ChoiceHolds, PTL
----------------------------------------------------------------------------
(* The pins of the abstract table.                                          *)
LEMMA PinsAre == ASSUME NEW o, Sound(table, o) PROVE Pins = PinsIn(table, o)
BY ChainIs DEF Pins

LEMMA PinsAreNext == ASSUME NEW q, Sound(table', q) PROVE Pins' = PinsIn(table', q)
BY ChainIs DEF Pins

(* Where the abstract table has the pin of a flow.                          *)
LEMMA PinPlaces ==
  ASSUME NEW o, Sound(table, o), NEW f \in Flows
  PROVE  /\ DOMAIN Pins = 1 .. Len(o) /\ Pins \in Seq(PinRecords) /\ Len(Pins) = Len(o)
         /\ \A k \in 1 .. Len(o) : Pins[k].lane = table.entries[o[k]].lane
         /\ \A k \in DOMAIN Pins : Pins[k].flow = f <=> Stands(table, o, f, k)
         /\ \A j, k : Stands(table, o, f, j) /\ Stands(table, o, f, k) => j = k
<1>1. Pins = PinsIn(table, o)  BY PinsAre
<1>2. /\ table \in Tables /\ o \in Seq(1 .. Len(table.entries)) /\ \A j, m \in 1 .. Len(o) : o[j] = o[m] => j = m
      /\ \A g \in Tracked(table) : table.entries[table.assignments[g]].flow = g
      /\ \A k \in 1 .. Len(o) : table.entries[o[k]].flow \in Tracked(table) /\ table.assignments[table.entries[o[k]].flow] = o[k]
  BY SoundFacts
<1>3. /\ Pins \in Seq(PinRecords) /\ Len(Pins) = Len(o) /\ DOMAIN Pins = 1 .. Len(o)
      /\ \A k \in 1 .. Len(o) : Pins[k] = PinAt(table, o[k])
  BY <1>1, <1>2, PinsAlong
<1>4. \A k \in 1 .. Len(o) : Pins[k].lane = table.entries[o[k]].lane /\ Pins[k].flow = table.entries[o[k]].flow
  BY <1>3 DEF PinAt
<1>5. \A k \in DOMAIN Pins : Pins[k].flow = f <=> Stands(table, o, f, k)  BY <1>2, <1>3, <1>4 DEF Stands
<1>6. \A j, k : Stands(table, o, f, j) /\ Stands(table, o, f, k) => j = k  BY <1>2 DEF Stands
<1> QED BY <1>3, <1>4, <1>5, <1>6

(* The abstract Others and PinOf at a flow that is tracked, and at one that *)
(* is not.                                                                  *)
LEMMA PinnedFlow ==
  ASSUME NEW o, Sound(table, o), NEW f \in Flows, NEW k, Stands(table, o, f, k)
  PROVE  FlowPinning!Others(f) = RemoveAt(Pins, k) /\ FlowPinning!PinOf(f) = {table.entries[o[k]].lane}
<1> DEFINE at == {j \in DOMAIN Pins : Pins[j].flow = f}
<1>1. /\ DOMAIN Pins = 1 .. Len(o) /\ (\A j \in 1 .. Len(o) : Pins[j].lane = table.entries[o[j]].lane)
      /\ (\A j \in DOMAIN Pins : Pins[j].flow = f <=> Stands(table, o, f, j))
      /\ \A i, j : Stands(table, o, f, i) /\ Stands(table, o, f, j) => i = j
  BY PinPlaces
<1>2. k \in 1 .. Len(o)  BY DEF Stands
<1>3. at = {k}  BY <1>1, <1>2
<1>4. FlowPinning!Others(f) = IF at = {} THEN Pins ELSE RemoveAt(Pins, CHOOSE j \in at : TRUE)  BY DEF FlowPinning!Others, FlowPinning!RemoveAt, RemoveAt
<1>5. FlowPinning!PinOf(f) = {Pins[j].lane : j \in at}  BY DEF FlowPinning!PinOf
<1> HIDE DEF at
<1>6. (CHOOSE j \in at : TRUE) = k  BY <1>3
<1> QED BY <1>1, <1>2, <1>3, <1>4, <1>5, <1>6

LEMMA UnpinnedFlow ==
  ASSUME NEW o, Sound(table, o), NEW f \in Flows, f \notin Tracked(table)
  PROVE  FlowPinning!Others(f) = Pins /\ FlowPinning!PinOf(f) = {}
<1>1. \A j \in DOMAIN Pins : Pins[j].flow # f  BY PinPlaces DEF Stands
<1> QED BY <1>1 DEF FlowPinning!Others, FlowPinning!PinOf

(* Dropping the first place is taking the tail.                             *)
LEMMA FirstRemoved ==
  ASSUME NEW S, NEW s \in Seq(S), Len(s) # 0 PROVE RemoveAt(s, 1) = Tail(s)
<1>1. Len(s) \in Nat /\ 1 \in 1 .. Len(s) /\ s # <<>>  OBVIOUS
<1>2. /\ RemoveAt(s, 1) \in Seq(S) /\ Len(RemoveAt(s, 1)) = Len(s) - 1
      /\ \A j \in 1 .. (Len(s) - 1) : RemoveAt(s, 1)[j] = IF j < 1 THEN s[j] ELSE s[j + 1]
  BY <1>1, RemovedAt
<1>3. Tail(s) \in Seq(S) /\ Len(Tail(s)) = Len(s) - 1 /\ \A j \in 1 .. (Len(s) - 1) : Tail(s)[j] = s[j + 1]  BY <1>1
<1>4. \A j \in 1 .. (Len(s) - 1) : RemoveAt(s, 1)[j] = Tail(s)[j]
  <2> TAKE j \in 1 .. (Len(s) - 1)
  <2>1. ~(j < 1)  BY <1>1
  <2> QED BY <2>1, <1>2, <1>3
<1> QED BY <1>2, <1>3, <1>4, EqualSeqs

(* A choice is a step of the abstract table.                                *)
LEMMA SelectPins ==
  ASSUME FlowInv, NEW f \in Flows, SelectData(f)
  PROVE  \E l \in DataLanes \cup {0} : FlowPinning!Seen(f, l)
<1>1. FlowTypeOK  BY DEF FlowInv
<1>2. PICK o : Sound(table, o)  BY DEF FlowInv
<1>3. PICK q, l : Sound(table', q) /\ choice' = [flow |-> f, lane |-> l] /\ l \in AllLanes /\ Chosen(o, q, f, l)
  BY <1>1, <1>2, SelectedLane
<1>4. choice = NoChoice /\ lanes' = lanes  BY DEF SelectData
<1>5. FlowPinning!Idle  BY <1>4 DEF FlowPinning!Idle, NoChoice
<1>6. Pins = PinsIn(table, o) /\ Pins' = PinsIn(table', q)  BY <1>2, <1>3, PinsAre, PinsAreNext
<1>7. l \in DataLanes \cup {0}  BY <1>3, FlowTableAssumption DEF AllLanes, DataLanes
<1> DEFINE x == [flow |-> f, lane |-> l]
<1>8. FlowPinning!Keep(f, l) \/ FlowPinning!Move(f, l) \/ FlowPinning!Forget(f, l)
  <2>1. CASE \E k : /\ Stands(table, o, f, k) /\ l \in lanes /\ l = table.entries[o[k]].lane
                    /\ PinsIn(table', q) = Append(RemoveAt(PinsIn(table, o), k), x)
    <3>1. PICK k : /\ Stands(table, o, f, k) /\ l \in lanes /\ l = table.entries[o[k]].lane
                   /\ PinsIn(table', q) = Append(RemoveAt(PinsIn(table, o), k), x)
      BY <2>1
    <3>2. FlowPinning!Others(f) = RemoveAt(Pins, k) /\ FlowPinning!PinOf(f) = {l}  BY <1>2, <3>1, PinnedFlow
    <3>3. Pins' = Append(FlowPinning!Others(f), x)  BY <1>6, <3>1, <3>2
    <3>4. l \in FlowPinning!PinOf(f) \cap lanes  BY <3>1, <3>2
    <3> QED BY <3>3, <3>4 DEF FlowPinning!Keep
  <2>2. CASE \E k : /\ Stands(table, o, f, k) /\ table.entries[o[k]].lane \notin lanes /\ l \in DataLanes \cap lanes
                    /\ PinsIn(table', q) = Append(RemoveAt(PinsIn(table, o), k), x)
    <3>1. PICK k : /\ Stands(table, o, f, k) /\ table.entries[o[k]].lane \notin lanes /\ l \in DataLanes \cap lanes
                   /\ PinsIn(table', q) = Append(RemoveAt(PinsIn(table, o), k), x)
      BY <2>2
    <3>2. FlowPinning!Others(f) = RemoveAt(Pins, k) /\ FlowPinning!PinOf(f) = {table.entries[o[k]].lane}
      BY <1>2, <3>1, PinnedFlow
    <3>3. FlowPinning!PinOf(f) \cap lanes = {} /\ FlowPinning!PinOf(f) # {}  BY <3>1, <3>2
    <3>4. Pins' = Append(FlowPinning!Others(f), x)  BY <1>6, <3>1, <3>2
    <3> QED BY <3>1, <3>3, <3>4 DEF FlowPinning!Move
  <2>3. CASE /\ f \notin Tracked(table) /\ l \in DataLanes \cap lanes
             /\ PinsIn(table', q) = Append(IF Len(o) = Capacity THEN RemoveAt(PinsIn(table, o), 1) ELSE PinsIn(table, o), x)
    <3>1. FlowPinning!PinOf(f) = {}  BY <1>2, <2>3, UnpinnedFlow
    <3>2. Pins \in Seq(PinRecords) /\ Len(Pins) = Len(o)  BY <1>2, PinPlaces
    <3>3. Capacity # 0  BY FlowTableAssumption
    <3>4. Len(o) = Capacity => RemoveAt(Pins, 1) = Tail(Pins)  BY <3>2, <3>3, FirstRemoved
    <3>5. Pins' = Append(FlowPinning!Recent, x)  BY <1>6, <2>3, <3>2, <3>4 DEF FlowPinning!Recent
    <3> QED BY <2>3, <3>1, <3>5 DEF FlowPinning!Move
  <2>4. CASE /\ l = 0 /\ DataLanes \cap lanes = {}
             /\ \A k : Stands(table, o, f, k) => PinsIn(table', q) = RemoveAt(PinsIn(table, o), k)
             /\ f \notin Tracked(table) => PinsIn(table', q) = PinsIn(table, o)
    <3>1. CASE f \in Tracked(table)
      <4>1. PICK k \in 1 .. Len(o) : Stands(table, o, f, k)  BY <1>2, <3>1, StandsOf
      <4>2. FlowPinning!Others(f) = RemoveAt(Pins, k)  BY <1>2, <4>1, PinnedFlow
      <4>3. Pins' = FlowPinning!Others(f)  BY <1>6, <2>4, <4>1, <4>2
      <4> QED BY <2>4, <4>3 DEF FlowPinning!Forget
    <3>2. CASE f \notin Tracked(table)
      <4>1. FlowPinning!Others(f) = Pins  BY <1>2, <3>2, UnpinnedFlow
      <4>2. Pins' = FlowPinning!Others(f)  BY <1>6, <2>4, <3>2, <4>1
      <4> QED BY <2>4, <4>2 DEF FlowPinning!Forget
    <3> QED BY <3>1, <3>2
  <2> QED BY <1>3, <2>1, <2>2, <2>3, <2>4 DEF Chosen
<1>9. FlowPinning!Seen(f, l)  BY <1>3, <1>4, <1>5, <1>8 DEF FlowPinning!Seen
<1> QED BY <1>7, <1>9

(* The table of entries and indexes is a list of the flows seen last, with  *)
(* their lanes: the chain is the list, and every step of the router is one  *)
(* of the list or leaves it alone.                                          *)
THEOREM TableIsAListOfPins == FlowSpec => ImplementsPinning
<1> DEFINE all == <<Pins, lanes, choice>>
<1>1. ASSUME FlowInit PROVE FlowPinning!Init
  <2>1. table = EmptyTable /\ choice = NoChoice /\ lanes \subseteq AllLanes  BY <1>1 DEF FlowInit
  <2>2. Pins = <<>>  BY <2>1, EmptyIsSound, PinsAre
  <2>3. lanes \subseteq DataLanes \cup {0}  BY <2>1, FlowTableAssumption DEF AllLanes, DataLanes
  <2> QED BY <2>1, <2>2, <2>3 DEF FlowPinning!Init, FlowPinning!Idle, NoChoice
<1>2. ASSUME FlowInv, FlowInv', [FlowNext]_flow_vars PROVE [FlowPinning!Next]_all
  <2>1. lanes \subseteq DataLanes \cup {0} /\ lanes' \subseteq DataLanes \cup {0}
    BY <1>2, FlowTableAssumption DEF FlowInv, FlowTypeOK, AllLanes, DataLanes
  <2>2. ASSUME table' = table PROVE Pins' = Pins  BY <2>2 DEF Pins
  <2>3. ASSUME NEW f \in Flows, SelectData(f) PROVE FlowPinning!Next
    <3>1. PICK l \in DataLanes \cup {0} : FlowPinning!Seen(f, l)  BY <1>2, <2>3, SelectPins
    <3> QED BY <3>1 DEF FlowPinning!Next
  <2>4. CASE SelectControl \/ Deliver
    <3>1. table' = table /\ lanes' = lanes /\ choice'.flow = NoFlow  BY <2>4 DEF SelectControl, Deliver, NoChoice
    <3>2. FlowPinning!Pass  BY <2>2, <3>1 DEF FlowPinning!Pass
    <3> QED BY <3>2 DEF FlowPinning!Next
  <2>5. ASSUME NEW l \in AllLanes, SessionEnds(l) \/ LaneRegisters(l) PROVE FlowPinning!Next
    <3>1. table' = table /\ choice' = choice  BY <2>5 DEF SessionEnds, LaneRegisters
    <3>2. FlowPinning!LanesChange  BY <2>1, <2>2, <3>1 DEF FlowPinning!LanesChange
    <3> QED BY <3>2 DEF FlowPinning!Next
  <2>6. ASSUME NEW l \in AllLanes, GroupReplaced(l) PROVE FlowPinning!Next
    <3>1. table' = EmptyTable /\ choice = NoChoice /\ choice' = choice  BY <2>6 DEF GroupReplaced
    <3>2. Pins' = <<>>  BY <3>1, EmptyIsSound, PinsAreNext
    <3>3. FlowPinning!Idle  BY <3>1 DEF FlowPinning!Idle, NoChoice
    <3>4. FlowPinning!Reset  BY <2>1, <3>1, <3>2, <3>3 DEF FlowPinning!Reset
    <3> QED BY <3>4 DEF FlowPinning!Next
  <2>7. CASE UNCHANGED flow_vars
    <3>1. table' = table /\ lanes' = lanes /\ choice' = choice  BY <2>7 DEF flow_vars
    <3> QED BY <2>2, <3>1
  <2> QED BY <1>2, <2>3, <2>4, <2>5, <2>6, <2>7 DEF FlowNext
<1> QED BY <1>1, <1>2, FlowInvHolds, PTL DEF FlowSpec, ImplementsPinning, FlowPinning!Spec
============================================================================
