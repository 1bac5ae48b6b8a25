---------------------------- MODULE PortalProofs ----------------------------
(***************************************************************************)
(* Proofs about what the web portal shows and who may see it.              *)
(*                                                                         *)
(* A snapshot of the counters of a session is a cut, for any number of     *)
(* relays, readers and updates, on a build that keeps loads in order.      *)
(*                                                                         *)
(* The portal is sound, for any clients, requests and limits: the store of *)
(* sessions as a data structure, the inductive invariant, one lemma per    *)
(* group of actions, and the theorem.                                      *)
(***************************************************************************)
EXTENDS UsageCounters, Portal, FiniteSums

(* The writers inside an update, and those of a direction at some steps. *)
Busy == {w \in Writers : writer[w].at # "idle"}

Pending(d, steps) == {w \in Writers : writer[w].direction = d /\ writer[w].at \in steps}

BeforeBytes == {"bytes"}
BeforePackets == {"bytes", "packets"}
BeforeEnd == {"bytes", "packets", "generation", "leave"}

(* The lifecycle counts the writers, and each sum lags behind the updates    *)
(* that were admitted by those that have not come to it.                     *)
CountInv ==
  /\ writers = Cardinality(Busy)
  /\ \A d \in Directions :
       /\ begun[d] = bytes[d] + Cardinality(Pending(d, BeforeBytes))
       /\ begun[d] = packets[d] + Cardinality(Pending(d, BeforePackets))
       /\ begun[d] = ended[d] + Cardinality(Pending(d, BeforeEnd))

Validating == {"enter", "load", "compare"}

(* The values a reader holds are those of one moment, now or since it began. *)
Settled(r) ==
  \A d \in Directions :
    /\ reader[r].bytes[d] = reader[r].packets[d]
    /\ reader[r].floor[d] <= reader[r].bytes[d]
    /\ reader[r].bytes[d] <= ended[d]

(* While the generation is the one a reader saw, an update that it met has   *)
(* not come to its end: without a writer its values are the current ones.    *)
ReaderOK(r) ==
  /\ \A d \in Directions : reader[r].floor[d] <= ended[d]
  /\ reader[r].at \in Validating => reader[r].generation <= generation
  /\ reader[r].at = "load" =>
       /\ (\E w \in Writers : writer[w].at = "leave") => reader[r].generation < generation
       /\ Busy = {} /\ reader[r].generation = generation =>
            \A d \in Directions :
              /\ <<"bytes", d>> \in reader[r].loaded => reader[r].bytes[d] = bytes[d]
              /\ <<"packets", d>> \in reader[r].loaded => reader[r].packets[d] = packets[d]
  /\ reader[r].at = "compare" /\ reader[r].generation = generation => Settled(r)
  /\ reader[r].at \in {"return", "done"} => Settled(r)

Whole(r) ==
  \A d \in Directions : reader[r].bytes[d] = begun[d] /\ reader[r].packets[d] = begun[d]

(* A stopper that got past the writers has shut them out. *)
StopperOK(r) ==
  /\ reader[r].at # "idle" => closed
  /\ reader[r].at \notin {"idle", "drain"} => Busy = {}
  /\ reader[r].at = "compare" /\ reader[r].generation = generation => Whole(r)
  /\ reader[r].at \in {"return", "done"} => Whole(r)

ReaderInv == \A r \in Readers : ReaderOK(r)
StopperInv == \A r \in Stoppers : StopperOK(r)

IInv == TypeOK /\ CountInv /\ ReaderInv /\ StopperInv
----------------------------------------------------------------------------
(* One element more, one element less. *)
LEMMA OneMore ==
  ASSUME NEW S, NEW T, NEW x, IsFiniteSet(S), x \notin S, T = S \cup {x}
  PROVE  Cardinality(T) = Cardinality(S) + 1 /\ Cardinality(S) \in Nat
  BY FS_AddElement, FS_CardinalityType

LEMMA OneLess ==
  ASSUME NEW S, NEW T, NEW x, IsFiniteSet(S), x \in S, T = S \ {x}
  PROVE  Cardinality(T) = Cardinality(S) - 1 /\ Cardinality(S) \in Nat /\ Cardinality(T) \in Nat
  BY FS_RemoveElement, FS_CardinalityType

(* The sets of writers that CountInv counts are finite. *)
LEMMA FiniteWriters ==
  /\ IsFiniteSet(Busy) /\ IsFiniteSet(Busy')
  /\ \A d, steps : IsFiniteSet(Pending(d, steps)) /\ IsFiniteSet(Pending(d, steps)')
  BY CountersAssumption, FS_Subset DEF Busy, Pending

(* A step of one reader or one writer that leaves it a state it may have. *)
LEMMA OneReader ==
  ASSUME NEW r \in Readers, NEW state \in ReaderState, reader \in [Readers -> ReaderState],
         reader' = [reader EXCEPT ![r] = state]
  PROVE  reader' \in [Readers -> ReaderState]
  OBVIOUS

LEMMA ReaderMoves ==
  ASSUME TypeOK, NEW r \in Readers,
         NEW at \in {"idle", "drain", "look", "enter", "load", "compare", "return", "done"}
  PROVE  [reader[r] EXCEPT !.at = at] \in ReaderState
  BY DEF TypeOK, ReaderState

(* Typing: every step keeps the counters natural and the tasks at a step     *)
(* they have.                                                                *)
LEMMA TypeStep == CountInv /\ TypeOK /\ [Next]_vars => TypeOK'
<1> SUFFICES ASSUME CountInv, TypeOK, [Next]_vars PROVE TypeOK'
  OBVIOUS
<1> USE DEF TypeOK, counter_vars, history
<1>1. ASSUME NEW w \in Writers, NEW d \in Directions, begin_update(w, d) PROVE TypeOK'
  BY <1>1 DEF begin_update, WriterState
<1>2. ASSUME NEW w \in Writers, AddBytes(w) PROVE TypeOK'
  BY <1>2 DEF AddBytes, WriterState
<1>3. ASSUME NEW w \in Writers, AddPackets(w) PROVE TypeOK'
  BY <1>3 DEF AddPackets, WriterState
<1>4. ASSUME NEW w \in Writers, BumpGeneration(w) PROVE TypeOK'
  BY <1>4 DEF BumpGeneration, WriterState
<1>5. ASSUME NEW w \in Writers, EndUpdate(w) PROVE TypeOK'
  <2>1. w \in Busy
    BY <1>5 DEF EndUpdate, Busy
  <2>2. writers \in Nat /\ writers # 0
    BY <2>1, FiniteWriters, FS_EmptySet DEF CountInv
  <2>3. writers - 1 \in Nat
    BY <2>2
  <2> QED
    BY <1>5, <2>3 DEF EndUpdate, WriterState
<1>6. ASSUME NEW r \in Readers, snapshot(r) PROVE TypeOK'
  <2>1. [reader[r] EXCEPT !.at = "look", !.floor = ended] \in ReaderState
    BY DEF ReaderState
  <2> QED
    BY <1>6, <2>1, OneReader DEF snapshot
<1>7. ASSUME NEW r \in Readers, stop_and_snapshot(r) PROVE TypeOK'
  BY <1>7, ReaderMoves, OneReader DEF stop_and_snapshot
<1>8. ASSUME NEW r \in Readers, NEW at \in {"look", "compare", "return", "done"}, Becomes(r, at)
      PROVE  TypeOK'
  BY <1>8, ReaderMoves, OneReader DEF Becomes
<1>9. ASSUME NEW r \in Readers, LoadGeneration(r) PROVE TypeOK'
  <2>1. [reader[r] EXCEPT !.at = "enter", !.generation = generation] \in ReaderState
    BY DEF ReaderState
  <2> QED
    BY <1>9, <2>1, OneReader DEF LoadGeneration
<1>10. ASSUME NEW r \in Readers, Enter(r) PROVE TypeOK'
  <2>1. \A at \in {"load", "look"} : [reader[r] EXCEPT !.at = at, !.loaded = {}] \in ReaderState
    BY DEF ReaderState
  <2> QED
    BY <1>10, <2>1, OneReader DEF Enter
<1>11. ASSUME NEW r \in Readers, NEW load \in Loads, LoadCounter(r, load) PROVE TypeOK'
  <2> DEFINE b == IF load[1] = "bytes" THEN [reader[r].bytes EXCEPT ![load[2]] = bytes[load[2]]]
                  ELSE reader[r].bytes
             p == IF load[1] = "packets" THEN [reader[r].packets EXCEPT ![load[2]] = packets[load[2]]]
                  ELSE reader[r].packets
  <2>1. b \in [Directions -> Nat] /\ p \in [Directions -> Nat]
    BY DEF ReaderState, Loads, Directions
  <2>2. reader[r].loaded \cup {load} \in SUBSET Loads
    BY DEF ReaderState
  <2> HIDE DEF b, p
  <2>3. [reader[r] EXCEPT !.loaded = reader[r].loaded \cup {load}, !.bytes = b, !.packets = p] \in ReaderState
    BY <2>1, <2>2 DEF ReaderState
  <2>4. reader' = [reader EXCEPT ![r] = [reader[r] EXCEPT !.loaded = reader[r].loaded \cup {load}, !.bytes = b, !.packets = p]]
    BY <1>11 DEF LoadCounter, b, p
  <2> QED
    BY <1>11, <2>3, <2>4, OneReader DEF LoadCounter
<1>12. CASE UNCHANGED vars
  BY <1>12 DEF vars
<1> QED
  BY <1>1, <1>2, <1>3, <1>4, <1>5, <1>6, <1>7, <1>8, <1>9, <1>10, <1>11, <1>12
     DEF Next, Update, Reading, Drained, Recheck, Compare, Return

(* A writer that comes or goes changes the sets it enters or leaves by one.  *)
LEMMA Comes ==
  ASSUME NEW w \in Writers, NEW e \in Directions, TypeOK, begin_update(w, e)
  PROVE  /\ w \notin Busy /\ Busy' = Busy \cup {w}
         /\ \A d \in Directions, steps \in {BeforeBytes, BeforePackets, BeforeEnd} :
              /\ w \notin Pending(d, steps)
              /\ Pending(d, steps)' = IF d = e THEN Pending(d, steps) \cup {w} ELSE Pending(d, steps)
  BY DEF TypeOK, WriterState, begin_update, Busy, Pending, BeforeBytes, BeforePackets, BeforeEnd

(* Every step keeps the counts.                                              *)
LEMMA CountStep == TypeOK /\ CountInv /\ [Next]_vars => CountInv'
<1> SUFFICES ASSUME TypeOK, CountInv, [Next]_vars PROVE CountInv'
  OBVIOUS
<1> USE DEF counter_vars, history
<1>0. ASSUME UNCHANGED <<writers, bytes, packets, writer, begun, ended>> PROVE CountInv'
  BY <1>0 DEF CountInv, Busy, Pending
<1>1. ASSUME NEW w \in Writers, NEW e \in Directions, begin_update(w, e) PROVE CountInv'
  <2>1. Cardinality(Busy') = Cardinality(Busy) + 1
    BY <1>1, Comes, OneMore, FiniteWriters
  <2>2. \A d \in Directions, steps \in {BeforeBytes, BeforePackets, BeforeEnd} :
          /\ Cardinality(Pending(d, steps)) \in Nat
          /\ Cardinality(Pending(d, steps)') = Cardinality(Pending(d, steps)) + (IF d = e THEN 1 ELSE 0)
    <3> SUFFICES ASSUME NEW d \in Directions, NEW steps \in {BeforeBytes, BeforePackets, BeforeEnd}
                 PROVE  /\ Cardinality(Pending(d, steps)) \in Nat
                        /\ Cardinality(Pending(d, steps)') =
                             Cardinality(Pending(d, steps)) + (IF d = e THEN 1 ELSE 0)
      OBVIOUS
    <3>1. Cardinality(Pending(d, steps)) \in Nat
      BY FiniteWriters, FS_CardinalityType
    <3>2. CASE d = e
      <4>1. w \notin Pending(d, steps) /\ Pending(d, steps)' = Pending(d, steps) \cup {w}
        BY <1>1, <3>2, Comes
      <4>2. Cardinality(Pending(d, steps)') = Cardinality(Pending(d, steps)) + 1
        BY <4>1, OneMore, FiniteWriters
      <4> QED BY <3>1, <3>2, <4>2
    <3>3. CASE d # e
      <4>1. Pending(d, steps)' = Pending(d, steps)
        BY <1>1, <3>3, Comes
      <4> QED BY <3>1, <3>3, <4>1
    <3> QED BY <3>2, <3>3
  <2>3. \A d \in Directions : /\ begun'[d] = begun[d] + (IF d = e THEN 1 ELSE 0)
                              /\ begun[d] \in Nat /\ bytes[d] \in Nat
                              /\ packets[d] \in Nat /\ ended[d] \in Nat
    BY <1>1 DEF begin_update, TypeOK
  <2>4. writers' = writers + 1 /\ UNCHANGED <<bytes, packets, ended>>
    BY <1>1 DEF begin_update
  <2> QED
    BY <2>1, <2>2, <2>3, <2>4 DEF CountInv
<1>2. ASSUME NEW w \in Writers, AddBytes(w) PROVE CountInv'
  <2>0. PICK e \in Directions : e = writer[w].direction
    BY DEF TypeOK, WriterState
  <2>1. Busy' = Busy
    BY <1>2 DEF AddBytes, TypeOK, WriterState, Busy
  <2>2. \A d \in Directions :
          /\ Pending(d, BeforePackets)' = Pending(d, BeforePackets)
          /\ Pending(d, BeforeEnd)' = Pending(d, BeforeEnd)
          /\ d # e => Pending(d, BeforeBytes)' = Pending(d, BeforeBytes)
    BY <2>0, <1>2 DEF AddBytes, TypeOK, WriterState, Pending, BeforeBytes, BeforePackets, BeforeEnd
  <2>3. w \in Pending(e, BeforeBytes) /\ Pending(e, BeforeBytes)' = Pending(e, BeforeBytes) \ {w}
    BY <2>0, <1>2 DEF AddBytes, TypeOK, WriterState, Pending, BeforeBytes
  <2>4. /\ Cardinality(Pending(e, BeforeBytes)') = Cardinality(Pending(e, BeforeBytes)) - 1
        /\ Cardinality(Pending(e, BeforeBytes)) \in Nat
    BY <2>3, OneLess, FiniteWriters
  <2>5. \A d \in Directions : /\ bytes'[d] = bytes[d] + (IF d = e THEN 1 ELSE 0)
                              /\ bytes[d] \in Nat
    BY <2>0, <1>2 DEF AddBytes, TypeOK
  <2>6. UNCHANGED <<writers, packets, begun, ended>>
    BY <1>2 DEF AddBytes
  <2>7. writers' = Cardinality(Busy')
    BY <2>1, <2>4, <2>6 DEF CountInv
  <2>8. ASSUME NEW d \in Directions
        PROVE  /\ begun'[d] = bytes'[d] + Cardinality(Pending(d, BeforeBytes)')
               /\ begun'[d] = packets'[d] + Cardinality(Pending(d, BeforePackets)')
               /\ begun'[d] = ended'[d] + Cardinality(Pending(d, BeforeEnd)')
    <3>1. CASE d = e
      BY <3>1, <2>2, <2>4, <2>5, <2>6 DEF CountInv
    <3>2. CASE d # e
      BY <3>2, <2>2, <2>5, <2>6 DEF CountInv
    <3> QED BY <3>1, <3>2
  <2> QED
    BY <2>7, <2>8 DEF CountInv
<1>3. ASSUME NEW w \in Writers, AddPackets(w) PROVE CountInv'
  <2>0. PICK e \in Directions : e = writer[w].direction
    BY DEF TypeOK, WriterState
  <2>1. Busy' = Busy
    BY <1>3 DEF AddPackets, TypeOK, WriterState, Busy
  <2>2. \A d \in Directions :
          /\ Pending(d, BeforeBytes)' = Pending(d, BeforeBytes)
          /\ Pending(d, BeforeEnd)' = Pending(d, BeforeEnd)
          /\ d # e => Pending(d, BeforePackets)' = Pending(d, BeforePackets)
    BY <2>0, <1>3 DEF AddPackets, TypeOK, WriterState, Pending, BeforeBytes, BeforePackets, BeforeEnd
  <2>3. w \in Pending(e, BeforePackets) /\ Pending(e, BeforePackets)' = Pending(e, BeforePackets) \ {w}
    BY <2>0, <1>3 DEF AddPackets, TypeOK, WriterState, Pending, BeforePackets
  <2>4. /\ Cardinality(Pending(e, BeforePackets)') = Cardinality(Pending(e, BeforePackets)) - 1
        /\ Cardinality(Pending(e, BeforePackets)) \in Nat
    BY <2>3, OneLess, FiniteWriters
  <2>5. \A d \in Directions : /\ packets'[d] = packets[d] + (IF d = e THEN 1 ELSE 0)
                              /\ packets[d] \in Nat
    BY <2>0, <1>3 DEF AddPackets, TypeOK
  <2>6. UNCHANGED <<writers, bytes, begun, ended>>
    BY <1>3 DEF AddPackets
  <2>7. writers' = Cardinality(Busy')
    BY <2>1, <2>4, <2>6 DEF CountInv
  <2>8. ASSUME NEW d \in Directions
        PROVE  /\ begun'[d] = bytes'[d] + Cardinality(Pending(d, BeforeBytes)')
               /\ begun'[d] = packets'[d] + Cardinality(Pending(d, BeforePackets)')
               /\ begun'[d] = ended'[d] + Cardinality(Pending(d, BeforeEnd)')
    <3>1. CASE d = e
      BY <3>1, <2>2, <2>4, <2>5, <2>6 DEF CountInv
    <3>2. CASE d # e
      BY <3>2, <2>2, <2>5, <2>6 DEF CountInv
    <3> QED BY <3>1, <3>2
  <2> QED
    BY <2>7, <2>8 DEF CountInv
<1>4. ASSUME NEW w \in Writers, BumpGeneration(w) PROVE CountInv'
  <2>1. Busy' = Busy
    BY <1>4 DEF BumpGeneration, TypeOK, WriterState, Busy
  <2>2. \A d \in Directions, steps \in {BeforeBytes, BeforePackets, BeforeEnd} :
          Pending(d, steps)' = Pending(d, steps)
    BY <1>4 DEF BumpGeneration, TypeOK, WriterState, Pending, BeforeBytes, BeforePackets, BeforeEnd
  <2> QED
    BY <1>4, <2>1, <2>2 DEF BumpGeneration, CountInv
<1>5. ASSUME NEW w \in Writers, EndUpdate(w) PROVE CountInv'
  <2>0. PICK e \in Directions : e = writer[w].direction
    BY DEF TypeOK, WriterState
  <2>1. w \in Busy /\ Busy' = Busy \ {w}
    BY <1>5 DEF EndUpdate, TypeOK, WriterState, Busy
  <2>2. \A d \in Directions :
          /\ Pending(d, BeforeBytes)' = Pending(d, BeforeBytes)
          /\ Pending(d, BeforePackets)' = Pending(d, BeforePackets)
          /\ d # e => Pending(d, BeforeEnd)' = Pending(d, BeforeEnd)
    BY <2>0, <1>5 DEF EndUpdate, TypeOK, WriterState, Pending, BeforeBytes, BeforePackets, BeforeEnd
  <2>3. w \in Pending(e, BeforeEnd) /\ Pending(e, BeforeEnd)' = Pending(e, BeforeEnd) \ {w}
    BY <2>0, <1>5 DEF EndUpdate, TypeOK, WriterState, Pending, BeforeEnd
  <2>4. /\ Cardinality(Pending(e, BeforeEnd)') = Cardinality(Pending(e, BeforeEnd)) - 1
        /\ Cardinality(Pending(e, BeforeEnd)) \in Nat
        /\ Cardinality(Busy') = Cardinality(Busy) - 1
    BY <2>1, <2>3, OneLess, FiniteWriters
  <2>5. \A d \in Directions : /\ ended'[d] = ended[d] + (IF d = e THEN 1 ELSE 0)
                              /\ ended[d] \in Nat
    BY <2>0, <1>5 DEF EndUpdate, TypeOK
  <2>6. writers' = writers - 1 /\ UNCHANGED <<bytes, packets, begun>>
    BY <1>5 DEF EndUpdate
  <2>7. writers' = Cardinality(Busy')
    BY <2>1, <2>4, <2>6 DEF CountInv
  <2>8. ASSUME NEW d \in Directions
        PROVE  /\ begun'[d] = bytes'[d] + Cardinality(Pending(d, BeforeBytes)')
               /\ begun'[d] = packets'[d] + Cardinality(Pending(d, BeforePackets)')
               /\ begun'[d] = ended'[d] + Cardinality(Pending(d, BeforeEnd)')
    <3>1. CASE d = e
      BY <3>1, <2>2, <2>4, <2>5, <2>6 DEF CountInv
    <3>2. CASE d # e
      BY <3>2, <2>2, <2>5, <2>6 DEF CountInv
    <3> QED BY <3>1, <3>2
  <2> QED
    BY <2>7, <2>8 DEF CountInv
<1>6. ASSUME NEW r \in Readers, snapshot(r) \/ stop_and_snapshot(r) \/ Reading(r) PROVE CountInv'
  BY <1>0, <1>6 DEF snapshot, stop_and_snapshot, Reading, Drained, LoadGeneration, Enter,
     LoadCounter, Recheck, Compare, Return, Becomes
<1>7. CASE UNCHANGED vars
  BY <1>0, <1>7 DEF vars
<1> QED
  BY <1>1, <1>2, <1>3, <1>4, <1>5, <1>6, <1>7 DEF Next, Update

(* Without a writer every sum has every update that was ever admitted.       *)
LEMMA AtRest ==
  ASSUME TypeOK, CountInv, writers = 0
  PROVE  /\ Busy = {}
         /\ \A d \in Directions : bytes[d] = begun[d] /\ packets[d] = begun[d] /\ ended[d] = begun[d]
<1>1. Busy = {}
  BY FiniteWriters, FS_EmptySet DEF CountInv
<1>2. \A d \in Directions : /\ Pending(d, BeforeBytes) = {} /\ Pending(d, BeforePackets) = {}
                            /\ Pending(d, BeforeEnd) = {}
  BY <1>1 DEF Busy, Pending, BeforeBytes, BeforePackets, BeforeEnd
<1>3. Cardinality({}) = 0
  BY FS_EmptySet
<1>4. ASSUME NEW d \in Directions
      PROVE  bytes[d] = begun[d] /\ packets[d] = begun[d] /\ ended[d] = begun[d]
  <2>1. bytes[d] \in Nat /\ packets[d] \in Nat /\ ended[d] \in Nat
    BY DEF TypeOK
  <2>2. /\ begun[d] = bytes[d] + Cardinality({}) /\ begun[d] = packets[d] + Cardinality({})
        /\ begun[d] = ended[d] + Cardinality({})
    BY <1>2, Zenon DEF CountInv
  <2> QED
    BY <1>3, <2>1, <2>2
<1> QED
  BY <1>1, <1>4

(* What one reader holds is not disturbed by another reader.                 *)
LEMMA OtherReader ==
  ASSUME NEW r \in Readers, reader'[r] = reader[r],
         UNCHANGED <<writers, generation, bytes, packets, writer, begun, ended>>,
         closed => closed'
  PROVE  /\ ReaderOK(r) => ReaderOK(r)'
         /\ StopperOK(r) => StopperOK(r)'
  BY DEF ReaderOK, StopperOK, Settled, Whole, Busy

(* Nor by a writer, which finds the session open.                            *)
LEMMA WriterStep ==
  ASSUME TypeOK, TypeOK', CountInv, ReaderInv, StopperInv, NEW w \in Writers, Update(w)
  PROVE  ReaderInv' /\ StopperInv'
<1> USE DEF history
<1>0. reader' = reader /\ closed' = closed
  BY DEF Update, begin_update, AddBytes, AddPackets, BumpGeneration, EndUpdate
<1>1. writer[w] \in WriterState /\ writer \in [Writers -> WriterState]
  BY DEF TypeOK
<1>2. ASSUME NEW r \in Readers PROVE ReaderOK(r)'
  <2>0. ReaderOK(r) /\ reader[r].generation \in Nat /\ generation \in Nat
    BY DEF ReaderInv, TypeOK, ReaderState
  <2>1. \A d \in Directions : /\ ended[d] \in Nat /\ reader[r].floor[d] \in Nat
                              /\ reader[r].bytes[d] \in Nat
    BY DEF TypeOK, ReaderState
  <2>2. CASE \E d \in Directions : begin_update(w, d)
    BY <1>0, <1>1, <2>0, <2>2 DEF begin_update, ReaderOK, Settled, Busy, WriterState
  <2>3. CASE AddBytes(w)
    BY <1>0, <1>1, <2>0, <2>3 DEF AddBytes, ReaderOK, Settled, Busy, WriterState
  <2>4. CASE AddPackets(w)
    BY <1>0, <1>1, <2>0, <2>4 DEF AddPackets, ReaderOK, Settled, Busy, WriterState
  <2>5. CASE BumpGeneration(w)
    <3>1. generation' = generation + 1 /\ UNCHANGED ended
      BY <2>5 DEF BumpGeneration
    <3>2. Validating = {"enter", "load", "compare"}
      BY DEF Validating
    <3> QED
      BY <1>0, <2>0, <3>1, <3>2 DEF ReaderOK, Settled
  <2>6. CASE EndUpdate(w)
    <3>1. \A d \in Directions : ended[d] <= ended'[d] /\ ended'[d] \in Nat
      BY <1>1, <2>1, <2>6 DEF EndUpdate, TypeOK
    <3>2. \A d \in Directions : reader[r].floor[d] <= ended'[d]
      BY <2>0, <2>1, <3>1 DEF ReaderOK
    <3>3. Settled(r) => Settled(r)'
      BY <1>0, <2>1, <3>1 DEF Settled
    <3>4. reader[r].at = "load" => reader[r].generation < generation
      BY <2>0, <2>6 DEF ReaderOK, EndUpdate
    <3>5. generation' = generation
      BY <2>6 DEF EndUpdate
    <3> QED
      BY <1>0, <2>0, <3>2, <3>3, <3>4, <3>5 DEF ReaderOK
  <2> QED
    BY <2>2, <2>3, <2>4, <2>5, <2>6 DEF Update
<1>3. ASSUME NEW r \in Stoppers PROVE StopperOK(r)'
  <2>0. StopperOK(r)
    BY DEF StopperInv
  <2>1. CASE reader[r].at \in {"idle", "drain"}
    BY <1>0, <2>0, <2>1 DEF StopperOK
  <2>2. CASE reader[r].at \notin {"idle", "drain"}
    <3>1. closed /\ Busy = {}
      BY <2>0, <2>2 DEF StopperOK
    <3>2. FALSE
      BY <3>1 DEF Busy, Update, begin_update, AddBytes, AddPackets, BumpGeneration, EndUpdate
    <3> QED BY <3>2
  <2> QED BY <2>1, <2>2
<1> QED
  BY <1>2, <1>3 DEF ReaderInv, StopperInv

(* A step of a reader keeps what it holds, when loads stay in order.         *)
LEMMA ReaderStep ==
  ASSUME ~LoadsMaySink, TypeOK, TypeOK', CountInv, ReaderInv, StopperInv, NEW r \in Readers,
         snapshot(r) \/ stop_and_snapshot(r) \/ Reading(r)
  PROVE  ReaderInv' /\ StopperInv'
<1> USE DEF counter_vars, history
<1>0. /\ UNCHANGED <<writers, generation, bytes, packets, writer, begun, ended>>
      /\ closed => closed'
      /\ \A o \in Readers \ {r} : reader'[o] = reader[o]
      /\ Busy' = Busy
  BY DEF snapshot, stop_and_snapshot, Reading, Drained, LoadGeneration, Enter, LoadCounter,
     Recheck, Compare, Return, Becomes, TypeOK, Busy
<1>1. reader \in [Readers -> ReaderState] /\ reader[r] \in ReaderState
  BY DEF TypeOK
<1>2. ReaderOK(r) /\ (r \in Stoppers => StopperOK(r))
  BY DEF ReaderInv, StopperInv
<1>3. ASSUME ReaderOK(r)', r \in Stoppers => StopperOK(r)'
      PROVE  ReaderInv' /\ StopperInv'
  BY <1>0, <1>3, OtherReader DEF ReaderInv, StopperInv, Readers
<1>4. CASE snapshot(r)
  <2>1. /\ reader'[r] = [reader[r] EXCEPT !.at = "look", !.floor = ended]
        /\ r \notin Stoppers
    BY <1>1, <1>4, CountersAssumption DEF snapshot
  <2>2. reader'[r].at = "look" /\ reader'[r].floor = ended
    BY <1>1, <2>1 DEF ReaderState
  <2>3. \A d \in Directions : ended[d] <= ended[d]
    BY DEF TypeOK
  <2> QED
    BY <1>0, <1>3, <2>1, <2>2, <2>3 DEF ReaderOK, Validating
<1>5. CASE stop_and_snapshot(r)
  <2>1. reader'[r].at = "drain" /\ reader'[r].floor = reader[r].floor /\ closed'
    BY <1>1, <1>5 DEF stop_and_snapshot, ReaderState
  <2> QED
    BY <1>0, <1>2, <1>3, <2>1 DEF ReaderOK, StopperOK, Validating
<1>6. CASE Drained(r)
  <2>1. reader'[r].at = "look" /\ reader'[r].floor = reader[r].floor
    BY <1>1, <1>6 DEF Drained, Becomes, ReaderState
  <2>2. Busy = {}
    BY <1>6, AtRest DEF Drained
  <2>3. r \in Stoppers => closed
    BY <1>2, <1>6 DEF Drained, StopperOK
  <2> QED
    BY <1>0, <1>2, <1>3, <2>1, <2>2, <2>3 DEF ReaderOK, StopperOK, Validating
<1>7. CASE LoadGeneration(r)
  <2>1. /\ reader[r].at = "look" /\ reader'[r].at = "enter"
        /\ reader'[r].floor = reader[r].floor /\ reader'[r].generation = generation
    BY <1>1, <1>7 DEF LoadGeneration, ReaderState
  <2>2. generation \in Nat
    BY DEF TypeOK
  <2> QED
    BY <1>0, <1>2, <1>3, <2>1, <2>2 DEF ReaderOK, StopperOK, Validating
<1>8. CASE Enter(r)
  <2>1. /\ reader[r].at = "enter" /\ reader'[r].at = (IF writers = 0 THEN "load" ELSE "look")
        /\ reader'[r].floor = reader[r].floor /\ reader'[r].generation = reader[r].generation
        /\ reader'[r].loaded = {}
    BY <1>1, <1>8 DEF Enter, ReaderState
  <2>2. writers = 0 => \A w \in Writers : writer[w].at # "leave"
    BY AtRest DEF Busy
  <2> QED
    BY <1>0, <1>2, <1>3, <2>1, <2>2 DEF ReaderOK, StopperOK, Validating
<1>9. CASE \E load \in Loads : LoadCounter(r, load)
  <2>1. PICK load \in Loads : LoadCounter(r, load)
    BY <1>9
  <2>2. /\ reader[r].at = "load" /\ reader'[r].at = "load"
        /\ reader'[r].floor = reader[r].floor /\ reader'[r].generation = reader[r].generation
        /\ reader'[r].loaded = reader[r].loaded \cup {load}
        /\ reader'[r].bytes = IF load[1] = "bytes"
             THEN [reader[r].bytes EXCEPT ![load[2]] = bytes[load[2]]] ELSE reader[r].bytes
        /\ reader'[r].packets = IF load[1] = "packets"
             THEN [reader[r].packets EXCEPT ![load[2]] = packets[load[2]]] ELSE reader[r].packets
    BY <1>1, <2>1 DEF LoadCounter, MayLoad, ReaderState
  <2>3. ASSUME NEW d \in Directions, Busy = {}, reader[r].generation = generation
        PROVE  /\ <<"bytes", d>> \in reader'[r].loaded => reader'[r].bytes[d] = bytes[d]
               /\ <<"packets", d>> \in reader'[r].loaded => reader'[r].packets[d] = packets[d]
    <3>1. /\ <<"bytes", d>> \in reader[r].loaded => reader[r].bytes[d] = bytes[d]
          /\ <<"packets", d>> \in reader[r].loaded => reader[r].packets[d] = packets[d]
      BY <1>2, <2>2, <2>3 DEF ReaderOK
    <3>2. reader[r].bytes \in [Directions -> Nat] /\ reader[r].packets \in [Directions -> Nat]
      BY <1>1 DEF ReaderState
    <3> QED
      BY <2>2, <3>1, <3>2 DEF Loads
  <2> QED
    BY <1>0, <1>2, <1>3, <2>2, <2>3 DEF ReaderOK, StopperOK, Validating
<1>10. CASE Recheck(r)
  <2>1. /\ reader[r].at = "load" /\ reader[r].loaded = Loads
        /\ reader'[r] = [reader[r] EXCEPT !.at = IF writers = 0 THEN "compare" ELSE "look"]
    BY <1>1, <1>10 DEF Recheck, Becomes
  <2>2. /\ reader'[r].at = (IF writers = 0 THEN "compare" ELSE "look")
        /\ reader'[r].floor = reader[r].floor /\ reader'[r].generation = reader[r].generation
        /\ reader'[r].bytes = reader[r].bytes /\ reader'[r].packets = reader[r].packets
    BY <1>1, <2>1 DEF ReaderState
  <2>3. ASSUME writers = 0, reader[r].generation = generation
        PROVE  Settled(r)' /\ Whole(r)'
    <3>1. ASSUME NEW d \in Directions
          PROVE  /\ reader[r].bytes[d] = begun[d] /\ reader[r].packets[d] = begun[d]
                 /\ ended[d] = begun[d]
      <4>1. <<"bytes", d>> \in Loads /\ <<"packets", d>> \in Loads
        BY DEF Loads, Directions
      <4>2. /\ Busy = {} /\ bytes[d] = begun[d] /\ packets[d] = begun[d] /\ ended[d] = begun[d]
        BY <2>3, AtRest
      <4> QED
        BY <1>2, <2>1, <2>3, <4>1, <4>2 DEF ReaderOK
    <3>2. \A d \in Directions : reader[r].floor[d] <= ended[d] /\ ended[d] \in Nat
      BY <1>2 DEF ReaderOK, TypeOK
    <3> QED
      BY <1>0, <2>2, <3>1, <3>2 DEF Settled, Whole
  <2> QED
    BY <1>0, <1>2, <1>3, <2>1, <2>2, <2>3 DEF ReaderOK, StopperOK, Validating
<1>11. CASE Compare(r)
  <2>1. /\ reader[r].at = "compare"
        /\ reader'[r].at = (IF generation = reader[r].generation THEN "return" ELSE "look")
        /\ reader'[r].floor = reader[r].floor
        /\ reader'[r].bytes = reader[r].bytes /\ reader'[r].packets = reader[r].packets
    BY <1>1, <1>11 DEF Compare, Becomes, ReaderState
  <2> QED
    BY <1>0, <1>2, <1>3, <2>1 DEF ReaderOK, StopperOK, Validating, Settled, Whole
<1>12. CASE Return(r)
  <2>1. /\ reader[r].at = "return" /\ reader'[r].at = "done"
        /\ reader'[r].floor = reader[r].floor
        /\ reader'[r].bytes = reader[r].bytes /\ reader'[r].packets = reader[r].packets
    BY <1>1, <1>12 DEF Return, Becomes, ReaderState
  <2> QED
    BY <1>0, <1>2, <1>3, <2>1 DEF ReaderOK, StopperOK, Validating, Settled, Whole
<1> QED
  BY <1>4, <1>5, <1>6, <1>7, <1>8, <1>9, <1>10, <1>11, <1>12 DEF Reading

(* The invariant holds initially and is kept.                                *)
LEMMA InitIInv == Init => IInv
<1> SUFFICES ASSUME Init PROVE IInv
  OBVIOUS
<1>1. TypeOK
  BY DEF Init, TypeOK, WriterState, ReaderState, Directions, Loads
<1>2. /\ Busy = {}
      /\ \A d \in Directions : /\ Pending(d, BeforeBytes) = {} /\ Pending(d, BeforePackets) = {}
                               /\ Pending(d, BeforeEnd) = {}
  BY DEF Init, Busy, Pending, BeforeBytes, BeforePackets, BeforeEnd
<1>3. CountInv
  <2>1. Cardinality({}) = 0
    BY FS_EmptySet
  <2>2. ASSUME NEW d \in Directions
        PROVE  /\ begun[d] = bytes[d] + Cardinality(Pending(d, BeforeBytes))
               /\ begun[d] = packets[d] + Cardinality(Pending(d, BeforePackets))
               /\ begun[d] = ended[d] + Cardinality(Pending(d, BeforeEnd))
    <3>1. begun[d] = 0 /\ bytes[d] = 0 /\ packets[d] = 0 /\ ended[d] = 0
      BY DEF Init
    <3>2. /\ Cardinality(Pending(d, BeforeBytes)) = 0 /\ Cardinality(Pending(d, BeforePackets)) = 0
          /\ Cardinality(Pending(d, BeforeEnd)) = 0
      BY <1>2, <2>1, Zenon
    <3> QED
      BY <3>1, <3>2
  <2> QED
    BY <1>2, <2>1, <2>2 DEF CountInv, Init
<1>4. ReaderInv
  BY DEF Init, ReaderInv, ReaderOK, Validating, Directions
<1>5. StopperInv
  BY DEF Init, StopperInv, StopperOK, Readers
<1> QED
  BY <1>1, <1>3, <1>4, <1>5 DEF IInv

LEMMA NextIInv == ~LoadsMaySink /\ IInv /\ [Next]_vars => IInv'
<1> SUFFICES ASSUME ~LoadsMaySink, IInv, [Next]_vars PROVE IInv'
  OBVIOUS
<1>1. TypeOK' /\ CountInv'
  BY TypeStep, CountStep DEF IInv
<1>2. CASE \E w \in Writers : Update(w)
  BY <1>1, <1>2, WriterStep DEF IInv
<1>3. CASE \E r \in Readers : snapshot(r) \/ stop_and_snapshot(r) \/ Reading(r)
  BY <1>1, <1>3, ReaderStep DEF IInv
<1>4. CASE UNCHANGED vars
  BY <1>1, <1>4, OtherReader DEF IInv, ReaderInv, StopperInv, Readers, vars, counter_vars, history
<1> QED
  BY <1>2, <1>3, <1>4 DEF Next
----------------------------------------------------------------------------
(* However many relays add to a session while snapshot() reads it, the bytes *)
(* and packets it returns come from the same updates, where loads stay in    *)
(* program order.                                                            *)
THEOREM SnapshotsAreConsistent == ~LoadsMaySink => (Spec => []PairsConsistent)
<1> SUFFICES ASSUME ~LoadsMaySink PROVE Spec => []PairsConsistent
  OBVIOUS
<1>1. IInv => PairsConsistent
  BY DEF IInv, ReaderInv, ReaderOK, Settled, PairsConsistent
<1>2. IInv /\ [Next]_vars => IInv'
  BY NextIInv
<1> QED
  BY <1>1, <1>2, InitIInv, PTL DEF Spec

(* And they hold every update that had finished when it was called and none  *)
(* that has not finished.                                                    *)
THEOREM SnapshotsAreRecent == ~LoadsMaySink => (Spec => []SnapshotIsRecent)
<1> SUFFICES ASSUME ~LoadsMaySink PROVE Spec => []SnapshotIsRecent
  OBVIOUS
<1>1. IInv => SnapshotIsRecent
  BY DEF IInv, ReaderInv, ReaderOK, Settled, SnapshotIsRecent
<1>2. IInv /\ [Next]_vars => IInv'
  BY NextIInv
<1> QED
  BY <1>1, <1>2, InitIInv, PTL DEF Spec

(* So a snapshot is what the counters were at one moment between its call    *)
(* and its return, as far as finished updates go.                            *)
THEOREM SnapshotsAreCuts == ~LoadsMaySink => (Spec => []SnapshotsAreExact)
<1> SUFFICES ASSUME ~LoadsMaySink PROVE Spec => []SnapshotsAreExact
  OBVIOUS
<1>1. PairsConsistent /\ SnapshotIsRecent => SnapshotsAreExact
  BY DEF SnapshotsAreExact
<1>2. Spec => []PairsConsistent
  BY SnapshotsAreConsistent
<1>3. Spec => []SnapshotIsRecent
  BY SnapshotsAreRecent
<1> QED
  BY <1>1, <1>2, <1>3, PTL

(* What stop_and_snapshot returns to close() is every update that was ever   *)
(* admitted, and the counters stay there.                                    *)
THEOREM StopsAreFinal == ~LoadsMaySink => (Spec => []StopIsFinal)
<1> SUFFICES ASSUME ~LoadsMaySink PROVE Spec => []StopIsFinal
  OBVIOUS
<1>1. IInv => StopIsFinal
  <2> SUFFICES ASSUME IInv, NEW r \in Stoppers, reader[r].at = "done"
               PROVE  /\ Whole(r)
                      /\ \A d \in Directions : bytes[d] = begun[d] /\ packets[d] = begun[d]
    BY DEF StopIsFinal, Whole
  <2>1. Whole(r) /\ Busy = {}
    BY DEF IInv, StopperInv, StopperOK
  <2>2. writers = 0
    BY <2>1, FS_EmptySet DEF IInv, CountInv
  <2> QED
    BY <2>1, <2>2, AtRest DEF IInv
<1>2. IInv /\ [Next]_vars => IInv'
  BY NextIInv
<1> QED
  BY <1>1, <1>2, InitIInv, PTL DEF Spec
----------------------------------------------------------------------------
(* The indexes of a store are those of its sessions. *)
EntriesOf(st, ids) == {Entry(st.sessions, id) : id \in ids}
OfScope(st, scope) == {id \in DOMAIN st.sessions : Scope(st.sessions[id]) = scope}

Indexed(st) ==
  /\ st.by_expiry = EntriesOf(st, DOMAIN st.sessions)
  /\ DOMAIN st.by_scope = {Scope(st.sessions[id]) : id \in DOMAIN st.sessions}
  /\ \A scope : ScopeOf(st, scope) = EntriesOf(st, OfScope(st, scope))

(* A session is of the owner of its token; a request is open when the token *)
(* of its session was active since it began.                                *)
Owned == {s \in Sessions : s.who = s.token.client}
Open(request) == request.session.token = AdminToken \/ request.session.token \in request.seen

PSteps == {"idle", "reserve", "start", "session", "check", "remove", "page"}
Request == [pc : PSteps, now : Nat, seen : SUBSET Tokens, out : BOOLEAN, id : Nat,
            credential : Tokens \cup {AdminToken, None}, session : Owned \cup {None}]
Account == [known : BOOLEAN, enabled : BOOLEAN, token : 0..MaxTokens]

PortalTypeOK ==
  /\ registry \in [Clients -> Account]
  /\ links \subseteq Tokens /\ ticket \in Int /\ now \in Nat
  /\ used \subseteq Ids /\ gone \subseteq used
  /\ requests \in [Requests -> Request]

(* The store is indexed and within its bounds, and holds sessions of ids    *)
(* that were started and not signed out of.                                 *)
StoreOK(st) ==
  /\ Indexed(st)
  /\ \A scope : Cardinality(ScopeOf(st, scope)) <= MaxPerLogin
  /\ Cardinality(DOMAIN st.sessions) <= MaxSessions
  /\ \A id \in DOMAIN st.sessions : st.sessions[id] \in Owned

StoreInv ==
  /\ StoreOK(store)
  /\ DOMAIN store.sessions \subseteq used
  /\ DOMAIN store.sessions \cap gone = {}

(* A request has noticed every token that is active; past the check of the  *)
(* account it holds a session whose token it has noticed, and that was not  *)
(* signed out of when it began.                                             *)
RequestOK(request, reg, left) ==
  /\ request.pc # "idle" => Active(reg) \subseteq request.seen
  /\ request.pc = "session" /\ request.out => request.id \in left
  /\ request.pc = "reserve" => ~request.out
  /\ request.pc \in {"start", "check", "remove"} => request.session # None /\ ~request.out
  /\ request.pc = "start" => Open(request)
  /\ request.pc = "page" /\ request.session # None => Open(request) /\ ~request.out

RequestInv == \A r \in Requests : RequestOK(requests[r], registry, gone)

PortalInv ==
  /\ PortalTypeOK
  /\ StoreInv
  /\ RequestInv
  /\ RevokedIsOut
  /\ RangesAreExact
----------------------------------------------------------------------------
(* The facts about constants that arithmetic needs. *)
LEMMA PortalConstants ==
  /\ MaxSessions \in Nat /\ MaxSessions >= 1 /\ MaxPerLogin \in Nat /\ MaxPerLogin >= 1
  /\ SessionTtl \in Nat /\ TicketTtl \in Nat /\ Sizes \subseteq Nat /\ Offsets \subseteq Nat
  /\ MaxTime \in Nat /\ MaxIds \in Nat /\ MaxTokens \in Nat /\ MaxTokens >= 1
  /\ Admin \notin Clients /\ None \notin Tokens \cup {AdminToken} /\ None \notin Sessions
BY PortalAssumption

(* The ids are finitely many, and so are the entries of any of them. *)
LEMMA IdsFinite == IsFiniteSet(Ids) /\ Ids \subseteq Nat
<1>1. MaxIds - 1 \in Int /\ 0 \in Int  BY PortalConstants
<1>2. IsFiniteSet(0..(MaxIds - 1))  BY <1>1, FS_Interval
<1> QED BY <1>2 DEF Ids

(* Of a finite set of entries at most n are followed by fewer than n.  The  *)
(* first of those is followed by all the others.                            *)
LEMMA NewestIsSmall ==
  ASSUME NEW entries, IsFiniteSet(entries), entries \subseteq Nat \X Nat, NEW n \in Nat
  PROVE  /\ IsFiniteSet(Newest(entries, n)) /\ Newest(entries, n) \subseteq entries
         /\ Cardinality(Newest(entries, n)) <= n
<1> DEFINE K == Newest(entries, n)
           After(e) == {f \in entries : f = e \/ Before(e, f)}
           Below(e) == {f \in entries : Before(f, e)}
<1>1. K \subseteq entries  BY DEF Newest
<1>2. IsFiniteSet(K)  BY <1>1, FS_Subset
<1>3. CASE K = {}
  BY <1>1, <1>2, <1>3, FS_EmptySet
<1>4. CASE K # {}
  <2> DEFINE T == {Below(e) : e \in K}
  <2>1. T \subseteq SUBSET entries /\ T # {}  BY <1>4
  <2>2. PICK u \in T : \A v \in T : v \subseteq u => v = u
    <3> HIDE DEF T
    <3> QED BY <2>1, SmallestSet
  <2>3. PICK e \in K : u = Below(e)  BY <2>2
  <2>4. ASSUME NEW f \in K PROVE f = e \/ Before(e, f)
    <3>1. f \in Nat \X Nat /\ e \in Nat \X Nat  BY <1>1
    <3>2. ASSUME Before(f, e) PROVE FALSE
      <4>1. Below(f) \in T  OBVIOUS
      <4>2. ASSUME NEW g \in Below(f) PROVE g \in Below(e)
        <5>1. g \in Nat \X Nat /\ g \in entries  OBVIOUS
        <5> QED BY <3>1, <3>2, <5>1 DEF Before
      <4>3. f \in Below(e)  BY <3>2, <1>1
      <4>4. f \notin Below(f)  BY <3>1 DEF Before
      <4> HIDE DEF T, Below
      <4> QED BY <2>2, <2>3, <4>1, <4>2, <4>3, <4>4
    <3>3. f[1] \in Nat /\ f[2] \in Nat /\ e[1] \in Nat /\ e[2] \in Nat /\ f = <<f[1], f[2]>> /\ e = <<e[1], e[2]>>
      BY <3>1
    <3> QED BY <3>2, <3>3 DEF Before
  <2>5. K \subseteq After(e)  BY <1>1, <2>4
  <2>6. Cardinality(After(e)) <= n  BY <2>3 DEF Newest
  <2>7. IsFiniteSet(After(e))  BY FS_Subset
  <2>8. Cardinality(K) <= Cardinality(After(e))
    <3> HIDE DEF K, After
    <3> QED BY <2>5, <2>7, FS_Subset
  <2>9. Cardinality(K) \in Nat /\ Cardinality(After(e)) \in Nat
    <3> HIDE DEF K, After
    <3> QED BY <1>2, <2>7, FS_CardinalityType
  <2> HIDE DEF After
  <2> QED BY <1>1, <1>2, <2>6, <2>8, <2>9
<1> QED BY <1>3, <1>4

(* What remove_locked leaves of an indexed store. *)
LEMMA RemoveLeaves ==
  ASSUME NEW st, Indexed(st), NEW ids, NEW t, t = remove_locked(st, ids)
  PROVE  /\ DOMAIN t.sessions = DOMAIN st.sessions \ ids
         /\ \A id \in DOMAIN t.sessions : t.sessions[id] = st.sessions[id]
         /\ t.by_expiry = {e \in st.by_expiry : e[2] \notin ids}
         /\ \A scope : ScopeOf(t, scope) = {e \in ScopeOf(st, scope) : e[2] \notin ids}
         /\ Indexed(t)
<1> DEFINE out == ids \cap DOMAIN st.sessions
           Left(scope) == st.by_scope[scope] \ {Entry(st.sessions, id) : id \in {i \in out : Scope(st.sessions[i]) = scope}}
<1>1. /\ t.sessions = [id \in DOMAIN st.sessions \ out |-> st.sessions[id]]
      /\ t.by_expiry = st.by_expiry \ {Entry(st.sessions, id) : id \in out}
      /\ t.by_scope = [scope \in {s \in DOMAIN st.by_scope : Left(s) # {}} |-> Left(scope)]
  BY DEF remove_locked
<1>2. DOMAIN t.sessions = DOMAIN st.sessions \ ids  BY <1>1
<1>3. ASSUME NEW id \in DOMAIN t.sessions PROVE t.sessions[id] = st.sessions[id]  BY <1>1, <1>3
<1>4. t.by_expiry = {e \in st.by_expiry : e[2] \notin ids}
  BY <1>1 DEF Indexed, EntriesOf, Entry
<1>5. ASSUME NEW scope PROVE ScopeOf(t, scope) = {e \in ScopeOf(st, scope) : e[2] \notin ids}
  <2>1. ScopeOf(st, scope) = EntriesOf(st, OfScope(st, scope))  BY DEF Indexed
  <2>2. CASE scope \in DOMAIN st.by_scope
    <3>1. ScopeOf(st, scope) = st.by_scope[scope]  BY <2>2 DEF ScopeOf
    <3>2. ScopeOf(t, scope) = Left(scope)  BY <1>1, <2>2 DEF ScopeOf
    <3>3. ASSUME NEW e \in st.by_scope[scope]
          PROVE  e \in {Entry(st.sessions, id) : id \in {i \in out : Scope(st.sessions[i]) = scope}} <=> e[2] \in ids
      <4>1. PICK id \in OfScope(st, scope) : e = Entry(st.sessions, id)  BY <2>1, <3>1 DEF EntriesOf
      <4>2. e[2] = id /\ id \in DOMAIN st.sessions /\ Scope(st.sessions[id]) = scope
        BY <4>1 DEF Entry, OfScope
      <4> QED BY <4>1, <4>2 DEF Entry
    <3> QED BY <3>1, <3>2, <3>3
  <2>3. CASE scope \notin DOMAIN st.by_scope
    BY <1>1, <2>3 DEF ScopeOf
  <2> QED BY <2>2, <2>3
<1>6. t.by_expiry = EntriesOf(t, DOMAIN t.sessions)
  BY <1>2, <1>3, <1>4 DEF Indexed, EntriesOf, Entry
<1>7. ASSUME NEW scope PROVE ScopeOf(t, scope) = EntriesOf(t, OfScope(t, scope))
  <2>1. ScopeOf(st, scope) = EntriesOf(st, OfScope(st, scope))  BY DEF Indexed
  <2> QED BY <2>1, <1>2, <1>3, <1>5 DEF EntriesOf, OfScope, Entry
<1>8. DOMAIN t.by_scope = {Scope(t.sessions[id]) : id \in DOMAIN t.sessions}
  <2>1. ASSUME NEW scope \in DOMAIN t.by_scope PROVE \E id \in DOMAIN t.sessions : scope = Scope(t.sessions[id])
    <3>1. ScopeOf(t, scope) # {}  BY <1>1, <2>1 DEF ScopeOf
    <3> QED BY <3>1, <1>7 DEF EntriesOf, OfScope
  <2>2. ASSUME NEW id \in DOMAIN t.sessions PROVE Scope(t.sessions[id]) \in DOMAIN t.by_scope
    <3>1. id \in OfScope(t, Scope(t.sessions[id]))  BY DEF OfScope
    <3>2. ScopeOf(t, Scope(t.sessions[id])) # {}  BY <3>1, <1>7 DEF EntriesOf
    <3> QED BY <3>2 DEF ScopeOf
  <2> QED BY <2>1, <2>2
<1> QED BY <1>2, <1>3, <1>4, <1>5, <1>6, <1>7, <1>8 DEF Indexed

(* A session has one entry: there are as many of these as of those. *)
LEMMA EntriesCount ==
  ASSUME NEW st, NEW S, S \subseteq Ids
  PROVE  IsFiniteSet(S) /\ IsFiniteSet(EntriesOf(st, S)) /\ Cardinality(EntriesOf(st, S)) = Cardinality(S)
<1> DEFINE f == [id \in S |-> Entry(st.sessions, id)]
<1>1. IsFiniteSet(S)  BY IdsFinite, FS_Subset
<1>2. f \in Surjection(S, EntriesOf(st, S)) /\ f \in Injection(S, EntriesOf(st, S))
  <2>1. \A id \in S : f[id] = Entry(st.sessions, id) /\ f[id] \in EntriesOf(st, S)  BY DEF EntriesOf
  <2>2. f \in [S -> EntriesOf(st, S)]  BY <2>1
  <2>3. \A e \in EntriesOf(st, S) : \E id \in S : f[id] = e  BY <2>1 DEF EntriesOf
  <2>4. ASSUME NEW i \in S, NEW j \in S, f[i] = f[j] PROVE i = j
    <3>1. Entry(st.sessions, i)[2] = i /\ Entry(st.sessions, j)[2] = j  BY DEF Entry
    <3> QED BY <2>1, <2>4, <3>1
  <2> HIDE DEF f
  <2> QED BY <2>2, <2>3, <2>4 DEF Surjection, Injection, IsInjective
<1>3. Cardinality(S) \in Nat  BY <1>1, FS_CardinalityType
<1> HIDE DEF f
<1>4. IsFiniteSet(EntriesOf(st, S)) /\ (Cardinality(EntriesOf(st, S)) = Cardinality(S) <=> f \in Injection(S, EntriesOf(st, S)))
  BY <1>1, <1>2, FS_Surjection
<1> QED BY ONLY <1>1, <1>2, <1>4

(* Entries are pairs of numbers. *)
LEMMA EntriesAreNumbers ==
  ASSUME NEW st, NEW S, S \subseteq Ids, \A id \in S : st.sessions[id] \in Owned
  PROVE  EntriesOf(st, S) \subseteq Nat \X Nat
<1>1. ASSUME NEW id \in S PROVE Entry(st.sessions, id) \in Nat \X Nat
  <2>1. st.sessions[id].expires_at \in Nat  BY DEF Owned, Sessions
  <2>2. id \in Nat  BY IdsFinite
  <2> QED BY <2>1, <2>2 DEF Entry
<1> QED BY <1>1 DEF EntriesOf

(* The index of a store, and that of a scope, are finite sets of pairs. *)
LEMMA IndexFinite ==
  ASSUME NEW st, StoreOK(st), DOMAIN st.sessions \subseteq Ids
  PROVE  /\ IsFiniteSet(DOMAIN st.sessions) /\ IsFiniteSet(st.by_expiry) /\ st.by_expiry \subseteq Nat \X Nat
         /\ Cardinality(st.by_expiry) = Cardinality(DOMAIN st.sessions)
         /\ \A scope : IsFiniteSet(ScopeOf(st, scope)) /\ ScopeOf(st, scope) \subseteq Nat \X Nat
<1>1. st.by_expiry = EntriesOf(st, DOMAIN st.sessions)  BY DEF StoreOK, Indexed
<1>2. \A id \in DOMAIN st.sessions : st.sessions[id] \in Owned  BY DEF StoreOK
<1>3. ASSUME NEW scope PROVE IsFiniteSet(ScopeOf(st, scope)) /\ ScopeOf(st, scope) \subseteq Nat \X Nat
  <2>1. ScopeOf(st, scope) = EntriesOf(st, OfScope(st, scope))  BY DEF StoreOK, Indexed
  <2>2. OfScope(st, scope) \subseteq Ids /\ OfScope(st, scope) \subseteq DOMAIN st.sessions  BY DEF OfScope
  <2>3. \A id \in OfScope(st, scope) : st.sessions[id] \in Owned  BY <1>2, <2>2
  <2> QED BY <2>1, <2>2, <2>3, EntriesCount, EntriesAreNumbers
<1> QED BY <1>1, <1>2, <1>3, EntriesCount, EntriesAreNumbers

(* Removing sessions keeps a store sound. *)
LEMMA RemoveOK ==
  ASSUME NEW st, StoreOK(st), DOMAIN st.sessions \subseteq Ids, NEW ids, NEW t, t = remove_locked(st, ids)
  PROVE  StoreOK(t) /\ DOMAIN t.sessions \subseteq DOMAIN st.sessions
<1>1. Indexed(st)  BY DEF StoreOK
<1>2. /\ DOMAIN t.sessions = DOMAIN st.sessions \ ids
      /\ \A id \in DOMAIN t.sessions : t.sessions[id] = st.sessions[id]
      /\ \A scope : ScopeOf(t, scope) = {e \in ScopeOf(st, scope) : e[2] \notin ids}
      /\ Indexed(t)
  BY <1>1, RemoveLeaves
<1>3. Cardinality(DOMAIN t.sessions) <= MaxSessions
  <2>1. IsFiniteSet(DOMAIN st.sessions) /\ DOMAIN t.sessions \subseteq DOMAIN st.sessions  BY <1>2, IndexFinite
  <2>2. Cardinality(DOMAIN t.sessions) <= Cardinality(DOMAIN st.sessions) /\ IsFiniteSet(DOMAIN t.sessions)
    BY <2>1, FS_Subset
  <2>3. Cardinality(DOMAIN t.sessions) \in Nat /\ Cardinality(DOMAIN st.sessions) \in Nat
    BY <2>1, <2>2, FS_CardinalityType
  <2> QED BY <2>2, <2>3, PortalConstants DEF StoreOK
<1>4. ASSUME NEW scope PROVE Cardinality(ScopeOf(t, scope)) <= MaxPerLogin
  <2>1. IsFiniteSet(ScopeOf(st, scope)) /\ ScopeOf(t, scope) \subseteq ScopeOf(st, scope)  BY <1>2, IndexFinite
  <2>2. Cardinality(ScopeOf(t, scope)) <= Cardinality(ScopeOf(st, scope)) /\ IsFiniteSet(ScopeOf(t, scope))
    BY <2>1, FS_Subset
  <2>3. Cardinality(ScopeOf(t, scope)) \in Nat /\ Cardinality(ScopeOf(st, scope)) \in Nat
    BY <2>1, <2>2, FS_CardinalityType
  <2>4. Cardinality(ScopeOf(st, scope)) <= MaxPerLogin  BY DEF StoreOK
  <2> QED BY <2>2, <2>3, <2>4, PortalConstants
<1>5. \A id \in DOMAIN t.sessions : t.sessions[id] \in Owned  BY <1>2 DEF StoreOK
<1> QED BY <1>2, <1>3, <1>4, <1>5 DEF StoreOK

(* An eviction leaves the newest entries of the index it goes by.  It is    *)
(* an index of one scope or of the whole store: its ids are of no entry     *)
(* that is kept in it.                                                      *)
LEMMA EvictLeaves ==
  ASSUME NEW st, StoreOK(st), DOMAIN st.sessions \subseteq Ids, NEW S, S \subseteq DOMAIN st.sessions,
         NEW entries, entries = EntriesOf(st, S), NEW n \in Nat, NEW t, t = EvictFrom(st, entries, n)
  PROVE  /\ StoreOK(t) /\ DOMAIN t.sessions \subseteq DOMAIN st.sessions
         /\ \A scope : ScopeOf(t, scope) \subseteq ScopeOf(st, scope)
         /\ \A scope : ScopeOf(st, scope) = entries => Cardinality(ScopeOf(t, scope)) <= n
         /\ st.by_expiry = entries => Cardinality(DOMAIN t.sessions) <= n
<1> DEFINE ids == {e[2] : e \in entries \ Newest(entries, n)}
<1>1. t = remove_locked(st, ids)  BY DEF EvictFrom
<1> HIDE DEF ids
<1>2. StoreOK(t) /\ DOMAIN t.sessions \subseteq DOMAIN st.sessions  BY <1>1, RemoveOK
<1>3. Indexed(st)  BY DEF StoreOK
<1>4. /\ t.by_expiry = {e \in st.by_expiry : e[2] \notin ids}
      /\ \A scope : ScopeOf(t, scope) = {e \in ScopeOf(st, scope) : e[2] \notin ids}
  BY <1>1, <1>3, RemoveLeaves
<1>5. IsFiniteSet(entries)  BY EntriesCount
<1>6. entries \subseteq Nat \X Nat
  <2>1. \A id \in S : st.sessions[id] \in Owned  BY DEF StoreOK
  <2> QED BY <2>1, EntriesAreNumbers
<1>7. IsFiniteSet(Newest(entries, n)) /\ Cardinality(Newest(entries, n)) <= n
  BY <1>5, <1>6, NewestIsSmall
<1>8. {e \in entries : e[2] \notin ids} \subseteq Newest(entries, n)  BY DEF ids
<1>9. ASSUME NEW kept, kept \subseteq Newest(entries, n) PROVE Cardinality(kept) <= n
  <2>1. IsFiniteSet(kept) /\ Cardinality(kept) <= Cardinality(Newest(entries, n))  BY <1>7, <1>9, FS_Subset
  <2>2. Cardinality(kept) \in Nat /\ Cardinality(Newest(entries, n)) \in Nat  BY <1>7, <2>1, FS_CardinalityType
  <2> QED BY <1>7, <2>1, <2>2
<1>10. ASSUME st.by_expiry = entries PROVE Cardinality(DOMAIN t.sessions) <= n
  <2>1. Cardinality(t.by_expiry) <= n  BY <1>4, <1>8, <1>9, <1>10
  <2>2. DOMAIN t.sessions \subseteq Ids  BY <1>2
  <2> QED BY <1>2, <2>1, <2>2, IndexFinite
<1>11. ASSUME NEW scope, ScopeOf(st, scope) = entries PROVE Cardinality(ScopeOf(t, scope)) <= n
  BY <1>4, <1>8, <1>9, <1>11
<1> QED BY <1>2, <1>4, <1>10, <1>11

(* Inserting a session into a store that has room for it. *)
LEMMA InsertOK ==
  ASSUME NEW st, StoreOK(st), DOMAIN st.sessions \subseteq Ids, NEW session \in Owned,
         NEW id \in Ids, id \notin DOMAIN st.sessions,
         Cardinality(ScopeOf(st, Scope(session))) <= MaxPerLogin - 1,
         Cardinality(DOMAIN st.sessions) <= MaxSessions - 1,
         NEW t, t = insert(st, session, id)
  PROVE  StoreOK(t) /\ DOMAIN t.sessions = DOMAIN st.sessions \cup {id}
<1> DEFINE entry == <<session.expires_at, id>>
           home == Scope(session)
<1>1. /\ t.sessions = [i \in DOMAIN st.sessions \cup {id} |-> IF i = id THEN session ELSE st.sessions[i]]
      /\ t.by_expiry = st.by_expiry \cup {entry}
      /\ t.by_scope = [scope \in DOMAIN st.by_scope \cup {home} |->
                         IF scope = home THEN ScopeOf(st, scope) \cup {entry} ELSE st.by_scope[scope]]
  BY DEF insert
<1>2. /\ DOMAIN t.sessions = DOMAIN st.sessions \cup {id}
      /\ t.sessions[id] = session
      /\ \A i \in DOMAIN st.sessions : t.sessions[i] = st.sessions[i]
  BY <1>1
<1>3. /\ ScopeOf(t, home) = ScopeOf(st, home) \cup {entry}
      /\ \A scope : scope # home => ScopeOf(t, scope) = ScopeOf(st, scope)
  BY <1>1 DEF ScopeOf
<1>4. Indexed(st)  BY DEF StoreOK
<1>5. t.by_expiry = EntriesOf(t, DOMAIN t.sessions)
  BY <1>1, <1>2, <1>4 DEF Indexed, EntriesOf, Entry
<1>6. DOMAIN t.by_scope = {Scope(t.sessions[i]) : i \in DOMAIN t.sessions}
  BY <1>1, <1>2, <1>4 DEF Indexed
<1>7. ASSUME NEW scope PROVE ScopeOf(t, scope) = EntriesOf(t, OfScope(t, scope))
  <2>1. ScopeOf(st, scope) = EntriesOf(st, OfScope(st, scope))  BY <1>4 DEF Indexed
  <2>2. CASE scope = home
    <3>1. OfScope(t, scope) = OfScope(st, scope) \cup {id}  BY <1>2, <2>2 DEF OfScope
    <3>2. Entry(t.sessions, id) = entry  BY <1>2 DEF Entry
    <3>3. \A i \in OfScope(st, scope) : Entry(t.sessions, i) = Entry(st.sessions, i)  BY <1>2 DEF OfScope, Entry
    <3> QED BY <1>3, <2>1, <2>2, <3>1, <3>2, <3>3 DEF EntriesOf
  <2>3. CASE scope # home
    <3>1. OfScope(t, scope) = OfScope(st, scope)  BY <1>2, <2>3 DEF OfScope
    <3>2. \A i \in OfScope(st, scope) : Entry(t.sessions, i) = Entry(st.sessions, i)  BY <1>2 DEF OfScope, Entry
    <3> QED BY <1>3, <2>1, <2>3, <3>1, <3>2 DEF EntriesOf
  <2> QED BY <2>2, <2>3
<1>8. Cardinality(DOMAIN t.sessions) <= MaxSessions
  <2>1. IsFiniteSet(DOMAIN st.sessions)  BY IndexFinite
  <2>2. Cardinality(DOMAIN st.sessions) \in Nat  BY <2>1, FS_CardinalityType
  <2>3. Cardinality(DOMAIN t.sessions) = Cardinality(DOMAIN st.sessions) + 1  BY <1>2, <2>1, FS_AddElement
  <2> QED BY <2>2, <2>3, PortalConstants
<1>9. ASSUME NEW scope PROVE Cardinality(ScopeOf(t, scope)) <= MaxPerLogin
  <2>1. CASE scope # home
    <3>1. Cardinality(ScopeOf(st, scope)) <= MaxPerLogin  BY DEF StoreOK
    <3> QED BY <1>3, <2>1, <3>1
  <2>2. CASE scope = home
    <3>1. IsFiniteSet(ScopeOf(st, home))  BY IndexFinite
    <3>2. Cardinality(ScopeOf(st, home)) \in Nat  BY <3>1, FS_CardinalityType
    <3>3. Cardinality(ScopeOf(st, home) \cup {entry}) \in {Cardinality(ScopeOf(st, home)), Cardinality(ScopeOf(st, home)) + 1}
      BY <3>1, FS_AddElement
    <3>4. Cardinality(ScopeOf(st, home)) <= MaxPerLogin - 1  OBVIOUS
    <3> DEFINE k == Cardinality(ScopeOf(st, home))
    <3>5. Cardinality(ScopeOf(t, scope)) = k \/ Cardinality(ScopeOf(t, scope)) = k + 1  BY <1>3, <2>2, <3>3
    <3>6. k \in Nat /\ k <= MaxPerLogin - 1  BY <3>2, <3>4
    <3> HIDE DEF k
    <3>7. k <= MaxPerLogin /\ k + 1 <= MaxPerLogin  BY <3>6, PortalConstants
    <3> QED BY <3>5, <3>7
  <2> QED BY <2>1, <2>2
<1>10. \A i \in DOMAIN t.sessions : t.sessions[i] \in Owned  BY <1>2 DEF StoreOK
<1> QED BY <1>2, <1>5, <1>6, <1>7, <1>8, <1>9, <1>10 DEF StoreOK, Indexed

(* SessionStore::start prunes, evicts and inserts. *)
LEMMA StartOK ==
  ASSUME StoreOK(store), DOMAIN store.sessions \subseteq Ids, NEW session \in Owned,
         NEW id \in Ids, id \notin DOMAIN store.sessions, NEW t0, NEW t, t = start(session, id, t0)
  PROVE  StoreOK(t) /\ DOMAIN t.sessions \subseteq DOMAIN store.sessions \cup {id}
<1> DEFINE home == Scope(session)
           a == prune_locked(store, t0)
           b == EvictScope(a, home)
           c == EvictOldest(b)
<1>1. StoreOK(a) /\ DOMAIN a.sessions \subseteq DOMAIN store.sessions  BY RemoveOK DEF prune_locked
<1>2. MaxPerLogin - 1 \in Nat /\ MaxSessions - 1 \in Nat  BY PortalConstants
<1>3. b = EvictFrom(a, ScopeOf(a, home), MaxPerLogin - 1)  BY DEF EvictScope
<1>4. c = EvictFrom(b, b.by_expiry, MaxSessions - 1)  BY DEF EvictOldest
<1>5. t = insert(c, session, id)  BY DEF start
<1> HIDE DEF a, b, c
<1>6. ScopeOf(a, home) = EntriesOf(a, OfScope(a, home)) /\ OfScope(a, home) \subseteq DOMAIN a.sessions
  BY <1>1 DEF StoreOK, Indexed, OfScope
<1>7. /\ StoreOK(b) /\ DOMAIN b.sessions \subseteq DOMAIN a.sessions
      /\ Cardinality(ScopeOf(b, home)) <= MaxPerLogin - 1
  BY <1>1, <1>2, <1>3, <1>6, EvictLeaves
<1>8. b.by_expiry = EntriesOf(b, DOMAIN b.sessions)  BY <1>7 DEF StoreOK, Indexed
<1>9. /\ StoreOK(c) /\ DOMAIN c.sessions \subseteq DOMAIN b.sessions
      /\ Cardinality(DOMAIN c.sessions) <= MaxSessions - 1
      /\ ScopeOf(c, home) \subseteq ScopeOf(b, home)
  BY <1>1, <1>2, <1>4, <1>7, <1>8, EvictLeaves
<1>10. Cardinality(ScopeOf(c, home)) <= MaxPerLogin - 1
  <2>1. IsFiniteSet(ScopeOf(b, home))  BY <1>1, <1>7, IndexFinite
  <2>2. IsFiniteSet(ScopeOf(c, home)) /\ Cardinality(ScopeOf(c, home)) <= Cardinality(ScopeOf(b, home))
    BY <1>9, <2>1, FS_Subset
  <2>3. Cardinality(ScopeOf(b, home)) \in Nat /\ Cardinality(ScopeOf(c, home)) \in Nat
    BY <2>1, <2>2, FS_CardinalityType
  <2> HIDE DEF home
  <2> QED BY <1>2, <1>7, <2>2, <2>3, PortalConstants
<1> QED BY <1>1, <1>5, <1>7, <1>9, <1>10, InsertOK

----------------------------------------------------------------------------
(* What is sent of a file is what was asked for. *)
LEMMA HandleIsExact ==
  ASSUME NEW range \in Ranges, NEW size \in Nat, NEW fresh \in BOOLEAN, NEW same \in BOOLEAN
  PROVE  handle(range, size, fresh, same) = Asked(range, size, fresh, same)
<1>1. range.first \in Nat /\ range.last \in Nat
  BY PortalConstants DEF Ranges
<1>2. range.kind \in {"none", "list", "bad", "closed", "open", "suffix"}  BY DEF Ranges
<1>3. CASE ~fresh
  BY <1>3 DEF handle, Asked
<1>4. CASE fresh /\ (~same \/ range.kind \in {"none", "list"})
  <2>1. Asked(range, size, fresh, same) = 0..(size - 1)  BY <1>4 DEF Asked
  <2>2. handle(range, size, fresh, same) = 0..(size - 1)
    BY <1>4 DEF handle
  <2> QED BY <2>1, <2>2
<1>5. CASE fresh /\ same /\ range.kind = "bad"
  BY <1>5 DEF handle, Asked, parse_single_range, NoBytes
<1>6. CASE fresh /\ same /\ range.kind = "suffix"
  BY <1>1, <1>6 DEF handle, Asked, parse_single_range, NoBytes, Bytes, Least
<1>7. CASE fresh /\ same /\ range.kind = "open"
  BY <1>1, <1>7 DEF handle, Asked, parse_single_range, NoBytes, Bytes, Least
<1>8. CASE fresh /\ same /\ range.kind = "closed"
  BY <1>1, <1>8 DEF handle, Asked, parse_single_range, NoBytes, Bytes, Least
<1> QED BY <1>2, <1>3, <1>4, <1>5, <1>6, <1>7, <1>8

(* Whatever is asked of whichever file is what is sent of it. *)
LEMMA TransfersAreExact == \A file \in Transfers : file.sent = file.asked
<1>1. ASSUME NEW range \in Ranges, NEW size \in Sizes, NEW fresh \in BOOLEAN, NEW same \in BOOLEAN
      PROVE  handle(range, size, fresh, same) = Asked(range, size, fresh, same)
  <2>1. size \in Nat  BY PortalConstants
  <2> QED BY <2>1, HandleIsExact
<1> QED BY <1>1 DEF Transfers

----------------------------------------------------------------------------
(* What is known of the tokens, of who holds them and of the idle request. *)
LEMMA TokenFacts ==
  /\ AdminToken.client = Admin
  /\ \A tok \in Tokens : tok.client \in Clients /\ tok # None /\ tok.client # Admin
  /\ AdminToken # None /\ AdminToken \notin Tokens
  /\ \A reg : Active(reg) \subseteq Tokens
  /\ None \notin Owned
  /\ \A s \in Owned : s.token \in Tokens \cup {AdminToken} /\ s.expires_at \in Nat /\ (s.who = Admin <=> s.token = AdminToken)
<1>1. AdminToken.client = Admin  BY DEF AdminToken, Token
<1>2. \A tok \in Tokens : tok.client \in Clients  BY DEF Tokens
<1>3. \A tok \in Tokens : tok # None /\ tok.client # Admin  BY <1>2, PortalConstants
<1>4. AdminToken # None /\ AdminToken \notin Tokens  BY <1>1, <1>3, PortalConstants
<1>5. \A reg : Active(reg) \subseteq Tokens  BY DEF Active
<1>6. None \notin Owned  BY PortalConstants DEF Owned
<1>7. ASSUME NEW s \in Owned
      PROVE  s.token \in Tokens \cup {AdminToken} /\ s.expires_at \in Nat /\ (s.who = Admin <=> s.token = AdminToken)
  <2>1. s.token \in Tokens \cup {AdminToken} /\ s.expires_at \in Nat /\ s.who = s.token.client  BY DEF Owned, Sessions
  <2> QED BY <2>1, <1>1, <1>3
<1> QED BY <1>1, <1>2, <1>3, <1>4, <1>5, <1>6, <1>7

(* A request that is over, and what the invariant says of it. *)
LEMMA IdleIsRequest == Idle \in Request /\ Idle.pc = "idle"
BY DEF Idle, Request, PSteps

LEMMA IdleOK ==
  ASSUME NEW reg, NEW left PROVE RequestOK(Idle, reg, left)
BY IdleIsRequest DEF RequestOK

(* One request goes on, and the registry stays as it is. *)
LEMMA OneRequest ==
  ASSUME PortalTypeOK, RequestInv, NEW r \in Requests, NEW q \in Request, RequestOK(q, registry, gone),
         requests' = [requests EXCEPT ![r] = q], registry' = registry, gone' = gone
  PROVE  requests' \in [Requests -> Request] /\ RequestInv'
<1>1. requests \in [Requests -> Request]  BY DEF PortalTypeOK
<1>2. requests' \in [Requests -> Request]  BY <1>1
<1>3. ASSUME NEW x \in Requests PROVE RequestOK(requests'[x], registry', gone')
  <2>1. CASE x = r  BY <1>1, <2>1
  <2>2. CASE x # r
    <3>1. requests'[x] = requests[x]  BY <1>1, <2>2
    <3> QED BY <3>1 DEF RequestInv
  <2> QED BY <2>1, <2>2
<1> QED BY <1>2, <1>3 DEF RequestInv

(* The fields of a request. *)
LEMMA RequestFields ==
  ASSUME NEW q \in Request
  PROVE  /\ q.pc \in PSteps /\ q.now \in Nat /\ q.seen \subseteq Tokens /\ q.out \in BOOLEAN /\ q.id \in Nat
         /\ q.credential \in Tokens \cup {AdminToken, None} /\ q.session \in Owned \cup {None}
BY DEF Request

(* The answer to a request. *)
LEMMA AnswerOK ==
  ASSUME PortalTypeOK, RequestInv, NEW r \in Requests, NEW given, Answer(r, given), registry' = registry, gone' = gone
  PROVE  requests' \in [Requests -> Request] /\ RequestInv' /\ last' = given
BY IdleIsRequest, IdleOK, OneRequest DEF Answer

(* What is given out as the owner of a token that counts is not given to    *)
(* who is signed out.                                                       *)
LEMMA GivenOK ==
  ASSUME NEW r, NEW token, token = AdminToken \/ token \in requests[r].seen, ~requests[r].out, NEW asked, NEW sent
  PROVE  Given(r, token, asked, sent).active /\ ~Given(r, token, asked, sent).out
         /\ Given(r, token, asked, sent).asked = asked /\ Given(r, token, asked, sent).sent = sent
BY DEF Given

(* The sessions stay as they are. *)
LEMMA StoreStays ==
  ASSUME StoreInv, UNCHANGED <<store, used, gone>> PROVE StoreInv'
BY DEF StoreInv, StoreOK, Indexed, EntriesOf, OfScope, ScopeOf, Entry, Scope

(* Sessions are removed. *)
LEMMA StoreShrinks ==
  ASSUME PortalTypeOK, StoreInv, NEW ids, store' = remove_locked(store, ids), used' = used,
         gone' \subseteq gone \cup ids
  PROVE  StoreInv'
<1>1. StoreOK(store) /\ DOMAIN store.sessions \subseteq Ids  BY DEF StoreInv, PortalTypeOK
<1>2. StoreOK(store') /\ DOMAIN store'.sessions \subseteq DOMAIN store.sessions  BY <1>1, RemoveOK
<1>3. DOMAIN store'.sessions = DOMAIN store.sessions \ ids  BY <1>1, RemoveLeaves DEF StoreOK
<1>4. StoreOK(store)'
  BY <1>2 DEF StoreOK, Indexed, EntriesOf, OfScope, ScopeOf, Entry, Scope
<1> QED BY <1>2, <1>3, <1>4 DEF StoreInv

----------------------------------------------------------------------------
(* A request arrives. *)
LEMMA ArriveStep ==
  ASSUME PortalInv, NEW r \in Requests, NEW pc \in {"reserve", "session"}, NEW id \in Nat,
         NEW credential \in Tokens \cup {AdminToken, None}, Arrive(r, pc, id, credential)
  PROVE  PortalInv'
<1> DEFINE q == [pc |-> pc, now |-> now, seen |-> Active(registry), out |-> pc = "session" /\ id \in gone,
                 id |-> id, credential |-> credential, session |-> None]
<1>0. PortalTypeOK /\ StoreInv /\ RequestInv  BY DEF PortalInv
<1>1. requests' = [requests EXCEPT ![r] = q] /\ last' = None /\ UNCHANGED <<registry, store, links, ticket, now, used, gone>>
  BY DEF Arrive
<1>2. q \in Request
  <2>1. now \in Nat /\ Active(registry) \in SUBSET Tokens  BY <1>0, TokenFacts DEF PortalTypeOK
  <2>2. pc \in PSteps  BY DEF PSteps
  <2>3. (pc = "session" /\ id \in gone) \in BOOLEAN  OBVIOUS
  <2> QED BY <2>1, <2>2, <2>3 DEF Request
<1>3. /\ q.pc = pc /\ q.seen = Active(registry) /\ (q.out <=> pc = "session" /\ id \in gone) /\ q.id = id
  OBVIOUS
<1> HIDE DEF q
<1>4. RequestOK(q, registry, gone)
  BY <1>3 DEF RequestOK
<1>5. requests' \in [Requests -> Request] /\ RequestInv'  BY <1>0, <1>1, <1>2, <1>4, OneRequest
<1>6. StoreInv'  BY <1>0, <1>1, StoreStays
<1>7. PortalTypeOK'  BY <1>0, <1>1, <1>5 DEF PortalTypeOK
<1> QED BY <1>1, <1>5, <1>6, <1>7 DEF PortalInv, RevokedIsOut, RangesAreExact

(* A request goes on with or without a session; at most the session it      *)
(* asked for is removed.                                                    *)
LEMMA GotoStep ==
  ASSUME PortalInv, NEW r \in Requests, NEW pc \in PSteps, NEW s \in Owned \cup {None}, Goto(r, pc, s),
         pc # "idle" /\ requests[r].pc # "idle", pc # "session",
         pc = "reserve" => ~requests[r].out,
         pc \in {"start", "check", "remove"} => s # None /\ ~requests[r].out,
         pc = "start" => s.token = AdminToken \/ s.token \in requests[r].seen,
         pc = "page" /\ s # None => (s.token = AdminToken \/ s.token \in requests[r].seen) /\ ~requests[r].out,
         UNCHANGED <<registry, links, ticket, now, used, gone>>, NEW ids, store' \in {store, remove_locked(store, ids)}
  PROVE  PortalInv'
<1> DEFINE q == [requests[r] EXCEPT !.pc = pc, !.session = s]
<1>0. PortalTypeOK /\ StoreInv /\ RequestInv  BY DEF PortalInv
<1>1. requests[r] \in Request  BY <1>0 DEF PortalTypeOK
<1>2. requests' = [requests EXCEPT ![r] = q] /\ last' = None  BY DEF Goto
<1>3. q \in Request /\ q.pc = pc /\ q.session = s /\ q.seen = requests[r].seen /\ q.out = requests[r].out
  <2>1. q = [requests[r] EXCEPT !.pc = pc, !.session = s]  OBVIOUS
  <2> HIDE DEF q
  <2>2. requests[r] \in Request /\ pc \in PSteps /\ s \in Owned \cup {None}  BY <1>1
  <2> QED BY <2>1, <2>2 DEF Request
<1> HIDE DEF q
<1>4. Active(registry) \subseteq requests[r].seen  BY <1>0 DEF RequestInv, RequestOK
<1>5. RequestOK(q, registry, gone)  BY <1>3, <1>4 DEF RequestOK, Open
<1>6. requests' \in [Requests -> Request] /\ RequestInv'  BY <1>0, <1>2, <1>3, <1>5, OneRequest
<1>7. StoreInv'
  <2>1. CASE store' = store  BY <1>0, <2>1, StoreStays
  <2>2. CASE store' = remove_locked(store, ids)  BY <1>0, <2>2, StoreShrinks
  <2> QED BY <2>1, <2>2
<1>8. PortalTypeOK'  BY <1>0, <1>6 DEF PortalTypeOK
<1> QED BY <1>2, <1>6, <1>7, <1>8 DEF PortalInv, RevokedIsOut, RangesAreExact

(* A request is answered, with nothing or with what its owner may have; the *)
(* store stays as it is.                                                    *)
LEMMA AnswerStep ==
  ASSUME PortalInv, NEW r \in Requests, NEW given, Answer(r, given),
         given # None => given.active /\ ~given.out /\ given.sent = given.asked,
         UNCHANGED <<registry, store, now, used, gone>>, links' \subseteq Tokens, ticket' \in Int
  PROVE  PortalInv'
<1>0. PortalTypeOK /\ StoreInv /\ RequestInv  BY DEF PortalInv
<1>1. requests' \in [Requests -> Request] /\ RequestInv' /\ last' = given  BY <1>0, AnswerOK
<1>2. StoreInv'  BY <1>0, StoreStays
<1>3. PortalTypeOK'  BY <1>0, <1>1 DEF PortalTypeOK
<1> QED BY <1>1, <1>2, <1>3 DEF PortalInv, RevokedIsOut, RangesAreExact

(* The refusals. *)
LEMMA RefuseStep ==
  ASSUME PortalInv, NEW r \in Requests, Refuse(r), UNCHANGED <<registry, store, links, ticket, now, used, gone>>
  PROVE  PortalInv'
<1>1. Answer(r, None)  BY DEF Refuse
<1>2. links' \subseteq Tokens /\ ticket' \in Int  BY DEF PortalInv, PortalTypeOK
<1> QED BY <1>1, <1>2, AnswerStep

(* Something is given to who holds a token that counts. *)
LEMMA GiveStep ==
  ASSUME PortalInv, NEW r \in Requests, NEW token, Give(r, token),
         token = AdminToken \/ token \in requests[r].seen, ~requests[r].out,
         UNCHANGED <<registry, store, now, used, gone>>, links' \subseteq Tokens, ticket' \in Int
  PROVE  PortalInv'
<1> DEFINE given == Given(r, token, {}, {})
<1>1. Answer(r, given)  BY DEF Give
<1>2. given.active /\ ~given.out /\ given.sent = given.asked  BY GivenOK
<1> HIDE DEF given
<1> QED BY <1>1, <1>2, AnswerStep

(* At a page, what is known of a session. *)
LEMMA AtPage ==
  ASSUME PortalInv, NEW r \in Requests, requests[r].pc = "page"
  PROVE  /\ requests[r].now \in Nat /\ requests[r].session \in Owned \cup {None}
         /\ requests[r].session # None =>
              /\ ~requests[r].out
              /\ requests[r].session.token = AdminToken \/ requests[r].session.token \in requests[r].seen
<1>1. requests[r] \in Request  BY DEF PortalInv, PortalTypeOK
<1>2. RequestOK(requests[r], registry, gone)  BY DEF PortalInv, RequestInv
<1> QED BY <1>1, <1>2, RequestFields DEF RequestOK, Open

----------------------------------------------------------------------------
(* Signing in. *)
LEMMA SignInSteps ==
  ASSUME PortalInv, NEW r \in Requests,
         SignIn(r) \/ Redeem(r) \/ TooMany(r) \/ Authenticate(r) \/ NoSession(r)
  PROVE  PortalInv'
<1>1. CASE SignIn(r)
  <2>1. PICK credential \in Tokens \cup {AdminToken} : Arrive(r, "reserve", 0, credential)  BY <1>1 DEF SignIn
  <2> QED BY <2>1, ArriveStep
<1>2. CASE Redeem(r)
  <2>1. PICK link \in links, host \in OurHosts : Arrive(r, "reserve", 0, open_client_access(link, host))
    BY <1>2 DEF Redeem
  <2>2. open_client_access(link, host) \in Tokens \cup {AdminToken, None}
    BY DEF open_client_access, PortalInv, PortalTypeOK
  <2> QED BY <2>1, <2>2, ArriveStep
<1>3. CASE TooMany(r)
  BY <1>3, RefuseStep DEF TooMany
<1>4. CASE Authenticate(r)
  <2> DEFINE credential == requests[r].credential
             session == client_session(credential, requests[r].now)
  <2>1. requests[r].pc = "reserve" /\ UNCHANGED <<registry, store, links, ticket, now, used, gone>>
    BY <1>4 DEF Authenticate
  <2>2. requests[r] \in Request /\ RequestOK(requests[r], registry, gone)
    BY DEF PortalInv, PortalTypeOK, RequestInv
  <2>3. CASE credential = AdminToken \/ portal_client_active(credential)
    <3>1. Goto(r, "start", session)  BY <1>4, <2>3 DEF Authenticate
    <3>2. requests[r].now \in Nat /\ requests[r].now + SessionTtl \in Nat  BY <2>2, RequestFields, PortalConstants
    <3>3. credential \in Tokens \cup {AdminToken}  BY <2>3, TokenFacts DEF portal_client_active
    <3>4. session.token = credential /\ session \in Owned
      <4>1. credential.client \in Clients \cup {Admin}  BY <3>3, TokenFacts
      <4> QED BY <3>2, <3>3, <4>1 DEF client_session, Owned, Sessions
    <3>5. Active(registry) \subseteq requests[r].seen /\ ~requests[r].out  BY <2>1, <2>2 DEF RequestOK
    <3>6. credential = AdminToken \/ credential \in requests[r].seen  BY <2>3, <3>5 DEF portal_client_active
    <3>7. session # None  BY <3>4, TokenFacts
    <3>8. "start" \in PSteps  BY DEF PSteps
    <3> HIDE DEF credential, session
    <3> QED BY <2>1, <3>1, <3>4, <3>5, <3>6, <3>7, <3>8, GotoStep
  <2>4. CASE ~(credential = AdminToken \/ portal_client_active(credential))
    <3>1. Refuse(r)  BY <1>4, <2>4 DEF Authenticate
    <3> QED BY <2>1, <3>1, RefuseStep
  <2> QED BY <2>3, <2>4
<1>5. CASE NoSession(r)
  BY <1>5, RefuseStep DEF NoSession
<1> QED BY <1>1, <1>2, <1>3, <1>4, <1>5

(* A session is started. *)
LEMMA StartSessionStep ==
  ASSUME PortalInv, NEW r \in Requests, StartSession(r)
  PROVE  PortalInv'
<1> DEFINE session == requests[r].session
           given == Given(r, session.token, {}, {})
<1>0. PortalTypeOK /\ StoreInv /\ RequestInv  BY DEF PortalInv
<1>1. PICK id \in Ids \ used : store' = start(session, id, requests[r].now) /\ used' = used \cup {id}
  BY DEF StartSession
<1>2. requests[r].pc = "start" /\ Answer(r, given) /\ UNCHANGED <<registry, links, ticket, now, gone>>
  BY DEF StartSession, Give
<1>3. session \in Owned /\ ~requests[r].out /\ (session.token = AdminToken \/ session.token \in requests[r].seen)
  <2>1. requests[r] \in Request  BY <1>0 DEF PortalTypeOK
  <2>2. RequestOK(requests[r], registry, gone)  BY <1>0 DEF RequestInv
  <2> QED BY <1>2, <2>1, <2>2, RequestFields DEF RequestOK, Open
<1>4. given.active /\ ~given.out /\ given.sent = given.asked  BY <1>3, GivenOK
<1> HIDE DEF session, given
<1>5. requests' \in [Requests -> Request] /\ RequestInv' /\ last' = given  BY <1>0, <1>2, AnswerOK
<1>6. StoreInv'
  <2>1. StoreOK(store) /\ DOMAIN store.sessions \subseteq used /\ used \subseteq Ids /\ gone \subseteq used
    BY <1>0 DEF StoreInv, PortalTypeOK
  <2>2. StoreOK(store') /\ DOMAIN store'.sessions \subseteq DOMAIN store.sessions \cup {id}
    BY <1>1, <1>3, <2>1, StartOK
  <2>3. StoreOK(store)'  BY <2>2 DEF StoreOK, Indexed, EntriesOf, OfScope, ScopeOf, Entry, Scope
  <2>4. DOMAIN store'.sessions \cap gone = {}
    BY <1>0, <1>1, <2>1, <2>2 DEF StoreInv
  <2> QED BY <1>1, <1>2, <2>1, <2>2, <2>3, <2>4 DEF StoreInv
<1>7. PortalTypeOK'  BY <1>0, <1>1, <1>2, <1>5 DEF PortalTypeOK
<1> QED BY <1>4, <1>5, <1>6, <1>7 DEF PortalInv, RevokedIsOut, RangesAreExact

(* A page finds out whose it is. *)
LEMMA SessionSteps ==
  ASSUME PortalInv, NEW r \in Requests, Ask(r) \/ Session(r) \/ Check(r) \/ RemoveRevoked(r)
  PROVE  PortalInv'
<1>0. PortalTypeOK /\ StoreInv /\ RequestInv  BY DEF PortalInv
<1>1. requests[r] \in Request /\ RequestOK(requests[r], registry, gone)
  BY <1>0 DEF PortalTypeOK, RequestInv
<1>2. None \in Owned \cup {None} /\ "page" \in PSteps /\ "check" \in PSteps /\ "remove" \in PSteps  BY DEF PSteps
<1>3. CASE Ask(r)
  <2>1. PICK id \in used : Arrive(r, "session", id, None)  BY <1>3 DEF Ask
  <2>2. id \in Nat  BY <1>0, IdsFinite DEF PortalTypeOK
  <2> QED BY <2>1, <2>2, ArriveStep
<1>4. CASE Session(r)
  <2> DEFINE id == requests[r].id
             found == id \in DOMAIN store.sessions
             expired == found /\ store.sessions[id].expires_at <= requests[r].now
  <2>1. /\ requests[r].pc = "session" /\ UNCHANGED <<registry, links, ticket, now, used, gone>>
        /\ store' \in {store, remove_locked(store, {id})}
    BY <1>4 DEF Session
  <2>2. CASE found /\ ~expired
    <3> DEFINE s == store.sessions[id]
               pc == IF s.who = Admin THEN "page" ELSE "check"
    <3>1. Goto(r, pc, s)  BY <1>4, <2>2 DEF Session
    <3>2. s \in Owned  BY <1>0, <2>2 DEF StoreInv, StoreOK
    <3>3. ~requests[r].out  BY <1>0, <1>1, <2>1, <2>2 DEF RequestOK, StoreInv
    <3>4. s # None /\ (s.who = Admin <=> s.token = AdminToken)  BY <3>2, TokenFacts
    <3>5. pc \in PSteps /\ pc \in {"page", "check"} /\ (pc = "page" => s.token = AdminToken)  BY <1>2, <3>4
    <3> HIDE DEF s, pc, id
    <3> QED BY <2>1, <3>1, <3>2, <3>3, <3>4, <3>5, GotoStep
  <2>3. CASE ~(found /\ ~expired)
    <3>1. Goto(r, "page", None)  BY <1>4, <2>3 DEF Session
    <3> HIDE DEF id
    <3> QED BY <1>2, <2>1, <3>1, GotoStep
  <2> QED BY <2>2, <2>3
<1>5. CASE Check(r)
  <2> DEFINE s == requests[r].session
             pc == IF portal_client_active(s.token) THEN "page" ELSE "remove"
  <2>1. requests[r].pc = "check" /\ Goto(r, pc, s) /\ UNCHANGED <<registry, store, links, ticket, now, used, gone>>
    BY <1>5 DEF Check
  <2>2. s \in Owned /\ s # None /\ ~requests[r].out /\ Active(registry) \subseteq requests[r].seen
    BY <1>1, <2>1, RequestFields DEF RequestOK
  <2>3. pc \in PSteps /\ pc \in {"page", "remove"} /\ (pc = "page" => s.token \in requests[r].seen)
    BY <1>2, <2>2 DEF portal_client_active
  <2>4. store' \in {store, remove_locked(store, {})}  BY <2>1
  <2> HIDE DEF s, pc
  <2> QED BY <2>1, <2>2, <2>3, <2>4, GotoStep
<1>6. CASE RemoveRevoked(r)
  <2>1. /\ requests[r].pc = "remove" /\ Goto(r, "page", None) /\ UNCHANGED <<registry, links, ticket, now, used, gone>>
        /\ store' \in {store, remove_locked(store, {requests[r].id})}
    BY <1>6 DEF RemoveRevoked
  <2> QED BY <1>2, <2>1, GotoStep
<1> QED BY <1>3, <1>4, <1>5, <1>6

(* The pages, and the files. *)
LEMMA PageSteps ==
  ASSUME PortalInv, NEW r \in Requests, DownloadsPage(r) \/ AdminPage(r) \/ Download(r) \/ Refused(r) \/ MakeLink(r)
  PROVE  PortalInv'
<1> DEFINE session == requests[r].session
<1>1. requests[r].pc = "page"  BY DEF DownloadsPage, AdminPage, Download, Refused, MakeLink
<1>2. /\ requests[r].now \in Nat /\ session \in Owned \cup {None}
      /\ session # None => ~requests[r].out /\ (session.token = AdminToken \/ session.token \in requests[r].seen)
  BY <1>1, AtPage
<1>3. links \subseteq Tokens /\ ticket \in Int  BY DEF PortalInv, PortalTypeOK
<1>4. CASE DownloadsPage(r)
  <2> DEFINE until == requests[r].now + TicketTtl
  <2>1. UNCHANGED <<registry, store, links, now, used, gone>>  BY <1>4 DEF DownloadsPage
  <2>2. \/ Refuse(r) /\ UNCHANGED ticket
        \/ session # None /\ Give(r, session.token) /\ ticket' \in {until, ticket}
    BY <1>4 DEF DownloadsPage
  <2>3. until \in Int  BY <1>2, PortalConstants
  <2>4. CASE Refuse(r) /\ UNCHANGED ticket  BY <2>1, <2>4, RefuseStep
  <2>5. CASE session # None /\ Give(r, session.token) /\ ticket' \in {until, ticket}
    <3>1. ticket' \in Int  BY <1>3, <2>3, <2>5
    <3> HIDE DEF session, until
    <3> QED BY <1>2, <1>3, <2>1, <2>5, <3>1, GiveStep
  <2> QED BY <2>2, <2>4, <2>5
<1>5. CASE AdminPage(r)
  <2>1. UNCHANGED <<registry, store, links, ticket, now, used, gone>>  BY <1>5 DEF AdminPage
  <2>2. Refuse(r) \/ (session # None /\ Give(r, AdminToken))  BY <1>5 DEF AdminPage, IsAdmin
  <2>3. CASE Refuse(r)  BY <2>1, <2>3, RefuseStep
  <2>4. CASE session # None /\ Give(r, AdminToken)
    BY <1>2, <1>3, <2>1, <2>4, GiveStep
  <2> QED BY <2>2, <2>3, <2>4
<1>6. CASE Download(r)
  <2>1. UNCHANGED <<registry, store, links, ticket, now, used, gone>>  BY <1>6 DEF Download
  <2>2. \/ Refuse(r)
        \/ \E file \in Transfers :
             \/ Answer(r, [active |-> TRUE, out |-> FALSE, asked |-> file.asked, sent |-> file.sent])
             \/ session # None /\ Answer(r, Given(r, session.token, file.asked, file.sent))
    BY <1>6 DEF Download
  <2>3. CASE Refuse(r)  BY <2>1, <2>3, RefuseStep
  <2>4. ASSUME NEW file \in Transfers,
               Answer(r, [active |-> TRUE, out |-> FALSE, asked |-> file.asked, sent |-> file.sent])
        PROVE  PortalInv'
    <3> DEFINE given == [active |-> TRUE, out |-> FALSE, asked |-> file.asked, sent |-> file.sent]
    <3>1. given.active /\ ~given.out /\ given.sent = given.asked  BY TransfersAreExact
    <3>2. Answer(r, given)  BY <2>4
    <3> HIDE DEF given
    <3> QED BY <1>3, <2>1, <3>1, <3>2, AnswerStep
  <2>5. ASSUME NEW file \in Transfers, session # None, Answer(r, Given(r, session.token, file.asked, file.sent))
        PROVE  PortalInv'
    <3> DEFINE given == Given(r, session.token, file.asked, file.sent)
    <3>1. given.active /\ ~given.out /\ given.sent = given.asked  BY <1>2, <2>5, GivenOK, TransfersAreExact
    <3>2. Answer(r, given)  BY <2>5
    <3> HIDE DEF given
    <3> QED BY <1>3, <2>1, <3>1, <3>2, AnswerStep
  <2> QED BY <2>2, <2>3, <2>4, <2>5
<1>7. CASE Refused(r)
  BY <1>7, RefuseStep DEF Refused
<1>8. CASE MakeLink(r)
  <2>1. session # None /\ Give(r, AdminToken) /\ UNCHANGED <<registry, store, ticket, now, used, gone>>
    BY <1>8 DEF MakeLink, IsAdmin
  <2>2. links' \subseteq Tokens  BY <1>3, <1>8, TokenFacts DEF MakeLink
  <2> HIDE DEF session
  <2> QED BY <1>2, <1>3, <2>1, <2>2, GiveStep
<1> QED BY <1>4, <1>5, <1>6, <1>7, <1>8

----------------------------------------------------------------------------
(* A change of the accounts leaves accounts. *)
LEMMA ChangesType ==
  ASSUME PortalTypeOK, NEW c \in Clients, NEW reg \in Changes(c)
  PROVE  reg \in [Clients -> Account]
<1>1. registry \in [Clients -> Account] /\ registry[c] \in Account  BY DEF PortalTypeOK
<1>2. \E account \in Account : reg = [registry EXCEPT ![c] = account]
  <2>1. CASE registry[c] = Absent
    <3>1. reg = [registry EXCEPT ![c] = [known |-> TRUE, enabled |-> TRUE, token |-> 1]]  BY <2>1 DEF Changes
    <3>2. [known |-> TRUE, enabled |-> TRUE, token |-> 1] \in Account  BY PortalConstants DEF Account
    <3> QED BY <3>1, <3>2
  <2>2. CASE reg = [registry EXCEPT ![c] = [known |-> FALSE, enabled |-> FALSE, token |-> MaxTokens]]
    <3>1. [known |-> FALSE, enabled |-> FALSE, token |-> MaxTokens] \in Account  BY PortalConstants DEF Account
    <3> QED BY <2>2, <3>1
  <2>3. ASSUME NEW on \in BOOLEAN, reg = [registry EXCEPT ![c] = [@ EXCEPT !.enabled = on]]
        PROVE  \E account \in Account : reg = [registry EXCEPT ![c] = account]
    <3>1. [registry[c] EXCEPT !.enabled = on] \in Account  BY <1>1 DEF Account
    <3> QED BY <1>1, <2>3, <3>1
  <2>4. ASSUME NEW n \in 1..MaxTokens, reg = [registry EXCEPT ![c] = [@ EXCEPT !.token = n]]
        PROVE  \E account \in Account : reg = [registry EXCEPT ![c] = account]
    <3>1. n \in 0..MaxTokens  BY PortalConstants
    <3>2. [registry[c] EXCEPT !.token = n] \in Account  BY <1>1, <3>1 DEF Account
    <3> QED BY <1>1, <2>4, <3>2
  <2> QED BY <2>1, <2>2, <2>3, <2>4 DEF Changes
<1> QED BY <1>1, <1>2

(* Every request that runs notices what is active after a change. *)
LEMMA NoticedOK ==
  ASSUME NEW reqs \in [Requests -> Request], NEW reg, \A r \in Requests : RequestOK(reqs[r], registry, gone)
  PROVE  /\ Noticed(reqs, reg) \in [Requests -> Request]
         /\ \A r \in Requests : RequestOK(Noticed(reqs, reg)[r], reg, gone)
<1> SUFFICES ASSUME NEW r \in Requests
             PROVE  Noticed(reqs, reg)[r] \in Request /\ RequestOK(Noticed(reqs, reg)[r], reg, gone)
  BY DEF Noticed
<1> DEFINE p == reqs[r]
           q == [p EXCEPT !.seen = @ \cup Active(reg)]
<1>1. p \in Request /\ RequestOK(p, registry, gone)  OBVIOUS
<1>2. CASE p.pc = "idle"
  <2>1. Noticed(reqs, reg)[r] = p  BY <1>2 DEF Noticed
  <2> HIDE DEF p
  <2> QED BY <1>1, <1>2, <2>1 DEF RequestOK
<1>3. CASE p.pc # "idle"
  <2>1. Noticed(reqs, reg)[r] = q  BY <1>3 DEF Noticed
  <2>2. Active(reg) \subseteq Tokens  BY TokenFacts
  <2>3. q = [p EXCEPT !.seen = p.seen \cup Active(reg)]  OBVIOUS
  <2> HIDE DEF p, q
  <2>4. q \in Request /\ q.pc = p.pc /\ q.seen = p.seen \cup Active(reg) /\ q.out = p.out /\ q.id = p.id /\ q.session = p.session
    BY <1>1, <2>2, <2>3 DEF Request
  <2>5. RequestOK(q, reg, gone)  BY <1>1, <2>4 DEF RequestOK, Open
  <2> QED BY <2>1, <2>4, <2>5
<1> QED BY <1>2, <1>3

(* An administrator changes an account, by a session or by the token. *)
LEMMA ChangeSteps ==
  ASSUME PortalInv, ChangeByToken \/ \E r \in Requests : Change(r)
  PROVE  PortalInv'
<1>0. PortalTypeOK /\ StoreInv /\ RequestInv  BY DEF PortalInv
<1>1. registry' \in [Clients -> Account] /\ UNCHANGED <<store, links, ticket, now, used, gone>>
  <2>1. PICK c \in Clients : registry' \in Changes(c)  BY DEF ChangeByToken, Change
  <2> QED BY <1>0, <2>1, ChangesType DEF ChangeByToken, Change
<1>2. ASSUME NEW reqs \in [Requests -> Request], \A r \in Requests : RequestOK(reqs[r], registry, gone),
             requests' = Noticed(reqs, registry'), last' # None => last'.active /\ ~last'.out /\ last'.sent = last'.asked
      PROVE  PortalInv'
  <2>1. requests' \in [Requests -> Request] /\ \A r \in Requests : RequestOK(requests'[r], registry', gone)
    BY <1>2, NoticedOK
  <2>2. PortalTypeOK'  BY <1>0, <1>1, <2>1 DEF PortalTypeOK
  <2>3. StoreInv'  BY <1>0, <1>1, StoreStays
  <2> QED BY <1>1, <1>2, <2>1, <2>2, <2>3 DEF PortalInv, RequestInv, RevokedIsOut, RangesAreExact
<1>3. CASE ChangeByToken
  <2>1. requests' = Noticed(requests, registry') /\ last' = None  BY <1>3 DEF ChangeByToken
  <2>2. requests \in [Requests -> Request]  BY <1>0 DEF PortalTypeOK
  <2> QED BY <1>0, <1>2, <2>1, <2>2 DEF RequestInv
<1>4. ASSUME NEW r \in Requests, Change(r) PROVE PortalInv'
  <2> DEFINE reqs == [requests EXCEPT ![r] = Idle]
             given == Given(r, AdminToken, {}, {})
  <2>1. requests' = Noticed(reqs, registry') /\ last' = given /\ requests[r].pc = "page" /\ requests[r].session # None
    BY <1>4 DEF Change, IsAdmin
  <2>2. requests \in [Requests -> Request]  BY <1>0 DEF PortalTypeOK
  <2>3. reqs \in [Requests -> Request]  BY <2>2, IdleIsRequest
  <2>4. ASSUME NEW x \in Requests PROVE RequestOK(reqs[x], registry, gone)
    <3>1. reqs[x] = Idle \/ reqs[x] = requests[x]  BY <2>2
    <3> QED BY <1>0, <3>1, IdleOK DEF RequestInv
  <2>5. ~requests[r].out  BY <2>1, AtPage
  <2>6. given.active /\ ~given.out /\ given.sent = given.asked  BY <2>5, GivenOK
  <2> HIDE DEF reqs, given
  <2> QED BY <1>2, <2>1, <2>3, <2>4, <2>6
<1> QED BY <1>3, <1>4

(* Signing out, and the clock. *)
LEMMA SignOutStep ==
  ASSUME PortalInv, SignOut
  PROVE  PortalInv'
<1>0. PortalTypeOK /\ StoreInv /\ RequestInv  BY DEF PortalInv
<1>1. PICK id \in used : store' = remove_locked(store, {id}) /\ gone' = gone \cup {id} /\ last' = None
                         /\ UNCHANGED <<registry, links, ticket, requests, now, used>>
  BY DEF SignOut
<1>2. StoreInv'
  <2>1. gone' \subseteq gone \cup {id}  BY <1>1
  <2> QED BY <1>0, <1>1, <2>1, StoreShrinks
<1>3. PortalTypeOK'  BY <1>0, <1>1 DEF PortalTypeOK
<1>4. ASSUME NEW r \in Requests PROVE RequestOK(requests'[r], registry', gone')
  <2>1. RequestOK(requests[r], registry, gone)  BY <1>0 DEF RequestInv
  <2>2. requests'[r] = requests[r] /\ registry' = registry /\ gone \subseteq gone'  BY <1>1
  <2> QED BY <2>1, <2>2 DEF RequestOK
<1> QED BY <1>1, <1>2, <1>3, <1>4 DEF PortalInv, RequestInv, RevokedIsOut, RangesAreExact

(* The clock only moves on. *)
LEMMA TickStep ==
  ASSUME PortalInv, Tick
  PROVE  PortalInv'
<1>0. PortalTypeOK /\ StoreInv /\ RequestInv  BY DEF PortalInv
<1>1. now' = now + 1 /\ last' = None /\ UNCHANGED <<registry, store, links, ticket, requests, used, gone>>  BY DEF Tick
<1>2. StoreInv'  BY <1>0, <1>1, StoreStays
<1>3. now \in Nat  BY <1>0 DEF PortalTypeOK
<1>4. now' \in Nat  BY <1>1, <1>3
<1>5. PortalTypeOK'  BY <1>0, <1>1, <1>4 DEF PortalTypeOK
<1>6. RequestInv'  BY <1>0, <1>1 DEF RequestInv
<1> QED BY <1>1, <1>2, <1>5, <1>6 DEF PortalInv, RevokedIsOut, RangesAreExact

(* A portal that has just started. *)
LEMMA PortalInitially ==
  ASSUME PortalInit PROVE PortalInv
<1>1. PortalTypeOK
  <2>1. Absent \in Account  BY PortalConstants DEF Absent, Account
  <2>2. registry \in [Clients -> Account]  BY <2>1 DEF PortalInit
  <2>3. requests \in [Requests -> Request]  BY IdleIsRequest DEF PortalInit
  <2> QED BY <2>2, <2>3 DEF PortalInit, PortalTypeOK
<1>2. StoreInv
  <2>1. store.sessions = [id \in {} |-> None] /\ store.by_expiry = {} /\ store.by_scope = [scope \in {} |-> {}]
    BY DEF PortalInit
  <2>2. DOMAIN store.sessions = {} /\ DOMAIN store.by_scope = {}  BY <2>1
  <2>3. \A scope : ScopeOf(store, scope) = {} /\ OfScope(store, scope) = {}  BY <2>2 DEF ScopeOf, OfScope
  <2>4. Indexed(store)  BY <2>1, <2>2, <2>3 DEF Indexed, EntriesOf
  <2>5. Cardinality({}) = 0  BY FS_EmptySet
  <2>6. 0 <= MaxPerLogin /\ 0 <= MaxSessions  BY PortalConstants
  <2> QED BY <2>2, <2>3, <2>4, <2>5, <2>6 DEF StoreInv, StoreOK
<1>3. RequestInv
  <2>1. \A r \in Requests : requests[r] = Idle  BY DEF PortalInit
  <2> QED BY <2>1, IdleOK DEF RequestInv
<1> QED BY <1>1, <1>2, <1>3 DEF PortalInv, PortalInit, RevokedIsOut, RangesAreExact

(* Every step keeps the invariant. *)
LEMMA PortalStep ==
  ASSUME PortalInv, [PortalNext]_portal_vars
  PROVE  PortalInv'
<1>1. CASE PortalNext
  BY <1>1, SignInSteps, StartSessionStep, SessionSteps, PageSteps, ChangeSteps, SignOutStep, TickStep DEF PortalNext
<1>2. CASE UNCHANGED portal_vars
  <2>1. UNCHANGED <<registry, store, links, ticket, requests, now, used, gone, last>>  BY <1>2 DEF portal_vars
  <2>2. StoreInv'  BY <2>1, StoreStays DEF PortalInv
  <2> QED BY <2>1, <2>2 DEF PortalInv, PortalTypeOK, RequestInv, RevokedIsOut, RangesAreExact
<1> QED BY <1>1, <1>2

(* The invariant says what the portal promises. *)
LEMMA PortalInvIsSound ==
  ASSUME PortalInv PROVE PortalIsSound
<1>1. StoreOK(store)  BY DEF PortalInv, StoreInv
<1>2. Indexed(store) /\ Cardinality(DOMAIN store.sessions) <= MaxSessions  BY <1>1 DEF StoreOK
<1>3. ASSUME NEW scope \in DOMAIN store.by_scope
      PROVE  /\ store.by_scope[scope] = {Entry(store.sessions, id) : id \in
                                           {i \in DOMAIN store.sessions : Scope(store.sessions[i]) = scope}}
             /\ Cardinality(store.by_scope[scope]) <= MaxPerLogin
  <2>1. ScopeOf(store, scope) = store.by_scope[scope]  BY DEF ScopeOf
  <2>2. ScopeOf(store, scope) = EntriesOf(store, OfScope(store, scope))  BY <1>2 DEF Indexed
  <2>3. Cardinality(ScopeOf(store, scope)) <= MaxPerLogin  BY <1>1 DEF StoreOK
  <2> QED BY <2>1, <2>2, <2>3 DEF EntriesOf, OfScope
<1>4. SessionsAreIndexed
  BY <1>2, <1>3 DEF SessionsAreIndexed, Indexed, EntriesOf
<1> QED BY <1>4 DEF PortalInv, PortalIsSound

(* For any clients, requests, limits and lifetimes: what a request is given *)
(* it is given as the owner of a token that was active since it began, and  *)
(* not by a session signed out of before (portal.rs session, client_session, *)
(* sign_out); a download sends the bytes that were asked for                *)
(* (downloads.rs); and the three indexes of the session store agree, within *)
(* both limits (session.rs start, get, remove).                             *)
THEOREM PortalIsAlwaysSound == PortalSpec => []PortalIsSound
<1>1. PortalInit => PortalInv  BY PortalInitially
<1>2. PortalInv /\ [PortalNext]_portal_vars => PortalInv'  BY PortalStep
<1>3. PortalInv => PortalIsSound  BY PortalInvIsSound
<1> QED BY <1>1, <1>2, <1>3, PTL DEF PortalSpec
=============================================================================
