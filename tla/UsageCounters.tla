---------------------------- MODULE UsageCounters ----------------------------
(***************************************************************************)
(* The counters of one usage session (SessionCounters in                   *)
(* porta-server/src/state/usage.rs).  The relays add to them without a     *)
(* lock, snapshots read them as a sequence lock is read, and close() and   *)
(* the deletion of a client stop them for good.  Every atomic access is a  *)
(* step; a loop of compare-and-swap is the one exchange that succeeds.     *)
(*                                                                         *)
(* The four counters are loaded with Ordering::Relaxed, and an acquiring   *)
(* load does not wait for the loads before it.  LoadsMaySink says whether  *)
(* the build lets a counter be read after the loads that validate the      *)
(* snapshot: x86-64 does not, AArch64, also a release target, does.        *)
(***************************************************************************)
EXTENDS Integers, FiniteSets

CONSTANTS Writers,        \* threads that add traffic
          Snapshotters,   \* threads that run snapshot()
          Stoppers,       \* threads that run stop_and_snapshot()
          WritersMask,    \* SESSION_WRITERS_MASK
          LoadsMaySink,   \* the memory model of the build
          MaxUpdates      \* a bound: updates in each direction

Directions == {"up", "down"}

Readers == Snapshotters \cup Stoppers

ASSUME CountersAssumption ==
  /\ IsFiniteSet(Writers)
  /\ Snapshotters \cap Stoppers = {}
  /\ WritersMask \in Nat \ {0}
  /\ LoadsMaySink \in BOOLEAN
  /\ MaxUpdates \in Nat

VARIABLES closed, writers,        \* lifecycle: the bit and the count
          generation,
          bytes, packets,         \* counted in updates, by direction
          writer,                 \* the progress of each update
          reader,                 \* the progress of each snapshot
          begun, ended            \* history: updates admitted and finished

counter_vars == <<closed, writers, generation, bytes, packets>>
history == <<begun, ended>>
vars == <<counter_vars, writer, reader, history>>
----------------------------------------------------------------------------
Init ==
  /\ closed = FALSE
  /\ writers = 0
  /\ generation = 0
  /\ bytes = [d \in Directions |-> 0]
  /\ packets = [d \in Directions |-> 0]
  /\ writer = [w \in Writers |-> [at |-> "idle", direction |-> "up"]]
  /\ reader = [r \in Readers |->
       [at |-> "idle", generation |-> 0, loaded |-> {}, floor |-> [d \in Directions |-> 0],
        bytes |-> [d \in Directions |-> 0], packets |-> [d \in Directions |-> 0]]]
  /\ begun = [d \in Directions |-> 0]
  /\ ended = [d \in Directions |-> 0]
----------------------------------------------------------------------------
(* begin_update, add_uploaded, add_downloaded, end_update. *)

(* A mutant: an update that finds the session closed is counted all the same. *)
BeginWhenClosed(w, d) ==
  /\ writer[w].at = "idle"
  /\ begun[d] < MaxUpdates
  /\ writers # WritersMask
  /\ writers' = writers + 1
  /\ writer' = [writer EXCEPT ![w] = [at |-> "bytes", direction |-> d]]
  /\ begun' = [begun EXCEPT ![d] = @ + 1]
  /\ UNCHANGED <<closed, generation, bytes, packets, reader, ended>>

(* An update that is refused changes nothing. *)
begin_update(w, d) ==
  /\ writer[w].at = "idle"
  /\ begun[d] < MaxUpdates
  /\ ~closed
  /\ writers # WritersMask
  /\ writers' = writers + 1
  /\ writer' = [writer EXCEPT ![w] = [at |-> "bytes", direction |-> d]]
  /\ begun' = [begun EXCEPT ![d] = @ + 1]
  /\ UNCHANGED <<closed, generation, bytes, packets, reader, ended>>

AddBytes(w) ==
  /\ writer[w].at = "bytes"
  /\ bytes' = [bytes EXCEPT ![writer[w].direction] = @ + 1]
  /\ writer' = [writer EXCEPT ![w].at = "packets"]
  /\ UNCHANGED <<closed, writers, generation, packets, reader, history>>

AddPackets(w) ==
  /\ writer[w].at = "packets"
  /\ packets' = [packets EXCEPT ![writer[w].direction] = @ + 1]
  /\ writer' = [writer EXCEPT ![w].at = "generation"]
  /\ UNCHANGED <<closed, writers, generation, bytes, reader, history>>

(* end_update *)
BumpGeneration(w) ==
  /\ writer[w].at = "generation"
  /\ generation' = generation + 1
  /\ writer' = [writer EXCEPT ![w].at = "leave"]
  /\ UNCHANGED <<closed, writers, bytes, packets, reader, history>>

EndUpdate(w) ==
  /\ writer[w].at = "leave"
  /\ writers' = writers - 1
  /\ writer' = [writer EXCEPT ![w].at = "idle"]
  /\ ended' = [ended EXCEPT ![writer[w].direction] = @ + 1]
  /\ UNCHANGED <<closed, generation, bytes, packets, reader, begun>>
----------------------------------------------------------------------------
Becomes(r, at) ==
  /\ reader' = [reader EXCEPT ![r].at = at]
  /\ UNCHANGED <<counter_vars, writer, history>>

(* snapshot() is called: by Store::snapshot and by persist. *)
snapshot(r) ==
  /\ r \in Snapshotters
  /\ reader[r].at \in {"idle", "done"}
  /\ reader' = [reader EXCEPT ![r].at = "look", ![r].floor = ended]
  /\ UNCHANGED <<counter_vars, writer, history>>

(* stop_and_snapshot: by Session::close, once, and by stop_members. *)
stop_and_snapshot(r) ==
  /\ r \in Stoppers
  /\ reader[r].at = "idle"
  /\ closed' = TRUE
  /\ reader' = [reader EXCEPT ![r].at = "drain"]
  /\ UNCHANGED <<writers, generation, bytes, packets, writer, history>>

Drained(r) ==
  /\ reader[r].at = "drain"
  /\ writers = 0
  /\ Becomes(r, "look")

LoadGeneration(r) ==
  /\ reader[r].at = "look"
  /\ reader' = [reader EXCEPT ![r].at = "enter", ![r].generation = generation]
  /\ UNCHANGED <<counter_vars, writer, history>>

Enter(r) ==
  /\ reader[r].at = "enter"
  /\ reader' = [reader EXCEPT ![r].at = IF writers = 0 THEN "load" ELSE "look",
                              ![r].loaded = {}]
  /\ UNCHANGED <<counter_vars, writer, history>>

(* The loads in program order: both sums of bytes, then both of packets. *)
Loads == {<<"bytes", "up">>, <<"bytes", "down">>, <<"packets", "up">>, <<"packets", "down">>}

MayLoad(r, load) ==
  IF LoadsMaySink THEN reader[r].at \in {"load", "compare", "return"}
  ELSE /\ reader[r].at = "load"
       /\ load[1] = "packets" => {<<"bytes", "up">>, <<"bytes", "down">>} \subseteq reader[r].loaded
       /\ load[2] = "down" => <<load[1], "up">> \in reader[r].loaded

LoadCounter(r, load) ==
  /\ load \notin reader[r].loaded
  /\ MayLoad(r, load)
  /\ reader' = [reader EXCEPT
       ![r].loaded = @ \cup {load},
       ![r].bytes = IF load[1] = "bytes" THEN [@ EXCEPT ![load[2]] = bytes[load[2]]] ELSE @,
       ![r].packets = IF load[1] = "packets" THEN [@ EXCEPT ![load[2]] = packets[load[2]]] ELSE @]
  /\ UNCHANGED <<counter_vars, writer, history>>

(* A mutant: the writers are not looked at again. *)
RecheckNothing(r) ==
  /\ reader[r].at = "load"
  /\ LoadsMaySink \/ reader[r].loaded = Loads
  /\ Becomes(r, "compare")

Recheck(r) ==
  /\ reader[r].at = "load"
  /\ LoadsMaySink \/ reader[r].loaded = Loads
  /\ Becomes(r, IF writers = 0 THEN "compare" ELSE "look")

(* A mutant: the generation is not compared. *)
CompareNothing(r) ==
  /\ reader[r].at = "compare"
  /\ Becomes(r, "return")

Compare(r) ==
  /\ reader[r].at = "compare"
  /\ Becomes(r, IF generation = reader[r].generation THEN "return" ELSE "look")

Return(r) ==
  /\ reader[r].at = "return"
  /\ reader[r].loaded = Loads
  /\ Becomes(r, "done")

Update(w) ==
  \/ \E d \in Directions : begin_update(w, d)
  \/ AddBytes(w) \/ AddPackets(w) \/ BumpGeneration(w) \/ EndUpdate(w)

Reading(r) ==
  \/ Drained(r) \/ LoadGeneration(r) \/ Enter(r)
  \/ \E load \in Loads : LoadCounter(r, load)
  \/ Recheck(r) \/ Compare(r) \/ Return(r)

Next ==
  \/ \E w \in Writers : Update(w)
  \/ \E r \in Readers : snapshot(r) \/ stop_and_snapshot(r) \/ Reading(r)

Spec == Init /\ [][Next]_vars
----------------------------------------------------------------------------
WriterState ==
  [at : {"idle", "bytes", "packets", "generation", "leave"}, direction : Directions]

ReaderState ==
  [at : {"idle", "drain", "look", "enter", "load", "compare", "return", "done"},
   generation : Nat, loaded : SUBSET Loads, floor : [Directions -> Nat],
   bytes : [Directions -> Nat], packets : [Directions -> Nat]]

TypeOK ==
  /\ closed \in BOOLEAN /\ writers \in Nat /\ generation \in Nat
  /\ bytes \in [Directions -> Nat] /\ packets \in [Directions -> Nat]
  /\ writer \in [Writers -> WriterState] /\ reader \in [Readers -> ReaderState]
  /\ begun \in [Directions -> Nat] /\ ended \in [Directions -> Nat]

(* The bytes and the packets of a snapshot come from the same updates,       *)
(* however many relays add while snapshot() reads the four counters.         *)
PairsConsistent ==
  \A r \in Readers, d \in Directions :
    reader[r].at = "done" => reader[r].bytes[d] = reader[r].packets[d]

(* A snapshot counts every update that had finished when it was asked for,   *)
(* and no update that has not finished: no reading of the past, no update in *)
(* flight.                                                                   *)
SnapshotIsRecent ==
  \A r \in Readers, d \in Directions :
    reader[r].at = "done" =>
      reader[r].floor[d] <= reader[r].bytes[d] /\ reader[r].bytes[d] <= ended[d]

(* A snapshot is a cut through the updates. *)
SnapshotsAreExact == PairsConsistent /\ SnapshotIsRecent

(* What stop_and_snapshot returns is final: it holds every update that       *)
(* begin_update ever admitted, and the counters never move again.  close()   *)
(* folds this value into the device and forgets the counters.                *)
StopIsFinal ==
  \A r \in Stoppers, d \in Directions :
    reader[r].at = "done" =>
      /\ reader[r].bytes[d] = begun[d] /\ reader[r].packets[d] = begun[d]
      /\ bytes[d] = begun[d] /\ packets[d] = begun[d]
============================================================================
