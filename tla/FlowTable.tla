------------------------------ MODULE FlowTable ------------------------------
(***************************************************************************)
(* How the router chooses a lane for a packet: select_lane and             *)
(* select_data_lane over the FlowTable of a lane group                     *)
(* (porta-server/src/data/router.rs).  The table is a hash map into an     *)
(* array of entries that are chained in the order of use.  Indexes are     *)
(* those of the code plus one; NO_FLOW_INDEX is 0.                         *)
(*                                                                         *)
(* The choice is made under the read lock of the router's sessions, so no  *)
(* lane is registered or removed meanwhile; but the session of a lane may  *)
(* end at any moment, also between the choice and the upgrade of the       *)
(* chosen reference.  A lane is the same to this code whether its session  *)
(* ended or was never registered.                                          *)
(***************************************************************************)
EXTENDS Integers, Sequences, FiniteSets

CONSTANTS Flows, NoFlow,
          LaneCount,      \* lane_count of the group
          Capacity,       \* MAX_TRACKED_FLOWS
          Hash,           \* flow -> hash
          MaxLoad         \* a bound: queued bytes of a lane

DataLanes == 1 .. LaneCount - 1
AllLanes  == 0 .. LaneCount - 1
NoLane    == LaneCount

(* What the constants must be.  A group of one lane does not use the table. *)
ASSUME FlowTableAssumption ==
  /\ NoFlow \notin Flows
  /\ LaneCount \in Nat /\ LaneCount >= 2
  /\ Capacity \in Nat \ {0}
  /\ Hash \in [Flows -> Nat]
  /\ MaxLoad \in Nat

VARIABLES table,          \* FlowTable
          lanes,          \* the lanes whose session is alive
          choice          \* the packet under way: its flow and the lane chosen for it

flow_vars == <<table, lanes, choice>>
----------------------------------------------------------------------------
NO_FLOW_INDEX == 0

Entry(f, l) == [flow |-> f, previous |-> NO_FLOW_INDEX, next |-> NO_FLOW_INDEX, lane |-> l]

EmptyTable ==
  [assignments |-> [f \in Flows |-> NO_FLOW_INDEX], entries |-> <<>>, free |-> <<>>,
   oldest |-> NO_FLOW_INDEX, newest |-> NO_FLOW_INDEX]

Tracked(t) == {f \in Flows : t.assignments[f] # NO_FLOW_INDEX}

unlink(t, i) ==
  LET e == t.entries[i]
  IN [t EXCEPT
        !.oldest = IF e.previous = NO_FLOW_INDEX THEN e.next ELSE t.oldest,
        !.newest = IF e.next = NO_FLOW_INDEX THEN e.previous ELSE t.newest,
        !.entries = [j \in DOMAIN t.entries |->
           IF j = e.previous THEN [t.entries[j] EXCEPT !.next = e.next]
           ELSE IF j = e.next THEN [t.entries[j] EXCEPT !.previous = e.previous]
           ELSE t.entries[j]]]

link_newest(t, i) ==
  [t EXCEPT
     !.oldest = IF t.newest = NO_FLOW_INDEX THEN i ELSE t.oldest,
     !.newest = i,
     !.entries = [j \in DOMAIN t.entries |->
        IF j = i THEN [t.entries[j] EXCEPT !.previous = t.newest, !.next = NO_FLOW_INDEX]
        ELSE IF j = t.newest THEN [t.entries[j] EXCEPT !.next = i]
        ELSE t.entries[j]]]

touch(t, i) == IF i = t.newest THEN t ELSE link_newest(unlink(t, i), i)

(* The common end of remove and evict_oldest. *)
Vacate(t, f) ==
  LET i == t.assignments[f]
  IN [unlink(t, i) EXCEPT !.assignments = [t.assignments EXCEPT ![f] = NO_FLOW_INDEX],
                          !.free = Append(t.free, i)]

remove(t, f) == IF f \in Tracked(t) THEN Vacate(t, f) ELSE t

evict_oldest(t) == Vacate(t, t.entries[t.oldest].flow)

(* A mutant: a slot that is used again stays in the free list. *)
InsertKeepsFree(t, f, l) ==
  LET fresh == t.free = <<>>
      i == IF fresh THEN Len(t.entries) + 1 ELSE t.free[Len(t.free)]
  IN link_newest(
       [t EXCEPT
          !.entries = IF fresh THEN Append(t.entries, Entry(f, l)) ELSE [t.entries EXCEPT ![i] = Entry(f, l)],
          !.assignments = [t.assignments EXCEPT ![f] = i]], i)

Insert(t, f, l) ==
  LET fresh == t.free = <<>>
      i == IF fresh THEN Len(t.entries) + 1 ELSE t.free[Len(t.free)]
  IN link_newest(
       [t EXCEPT
          !.entries = IF fresh THEN Append(t.entries, Entry(f, l)) ELSE [t.entries EXCEPT ![i] = Entry(f, l)],
          !.free = IF fresh THEN t.free ELSE SubSeq(t.free, 1, Len(t.free) - 1),
          !.assignments = [t.assignments EXCEPT ![f] = i]], i)

Repin(t, i, l) == [t EXCEPT !.entries = [t.entries EXCEPT ![i] = [t.entries[i] EXCEPT !.lane = l]]]

assign(t, f, l) ==
  LET i == t.assignments[f]
  IN IF f \in Tracked(t)
     THEN touch(Repin(t, i, l), i)
     ELSE Insert(IF Cardinality(Tracked(t)) >= Capacity THEN evict_oldest(t) ELSE t, f, l)

NoChoice == [flow |-> NoFlow, lane |-> NoLane]

FlowInit == table = EmptyTable /\ choice = NoChoice /\ \E l \in AllLanes : lanes = {l}
----------------------------------------------------------------------------
(* The loop's order, from the lane that the hash names, and its result: the *)
(* first of the least loaded.                                               *)
LaneAt(f, k) ==
  LET start == Hash[f] % (LaneCount - 1)
  IN 1 + ((start + k) % (LaneCount - 1))

LeastLoaded(f, load) ==
  LET live == {k \in 0 .. LaneCount - 2 : LaneAt(f, k) \in lanes}
      best == {k \in live : \A j \in live : load[LaneAt(f, k)] <= load[LaneAt(f, j)]}
  IN LaneAt(f, CHOOSE k \in best : \A j \in best : k <= j)

Pinned(f) ==
  f \in Tracked(table) /\ table.entries[table.assignments[f]].lane \in lanes

(* A mutant: a flow that is seen does not become the newest. *)
DataLaneWithoutTouch(f, load) ==
  CASE Pinned(f) ->
         choice' = [flow |-> f, lane |-> table.entries[table.assignments[f]].lane] /\ UNCHANGED table
    [] ~Pinned(f) /\ DataLanes \cap lanes # {} ->
         /\ choice' = [flow |-> f, lane |-> LeastLoaded(f, load)]
         /\ table' = assign(table, f, LeastLoaded(f, load))
    [] OTHER -> choice' = [flow |-> f, lane |-> 0] /\ table' = remove(table, f)

select_data_lane(f, load) ==
  CASE Pinned(f) ->
         /\ choice' = [flow |-> f, lane |-> table.entries[table.assignments[f]].lane]
         /\ table' = touch(table, table.assignments[f])
    [] ~Pinned(f) /\ DataLanes \cap lanes # {} ->
         /\ choice' = [flow |-> f, lane |-> LeastLoaded(f, load)]
         /\ table' = assign(table, f, LeastLoaded(f, load))
    [] OTHER -> choice' = [flow |-> f, lane |-> 0] /\ table' = remove(table, f)

(* select_lane up to the preferred lane; a group without lanes is left out. *)
SelectData(f) ==
  /\ choice = NoChoice
  /\ \E load \in [DataLanes -> 0 .. MaxLoad] : select_data_lane(f, load)
  /\ UNCHANGED lanes

SelectControl ==
  /\ choice = NoChoice
  /\ choice' = [flow |-> NoFlow, lane |-> 0]
  /\ UNCHANGED <<table, lanes>>

(* A mutant: a packet whose lane just ended is dropped. *)
TargetWithoutFallback == IF choice.lane \in lanes THEN choice.lane ELSE NoLane

(* The lane that gets the packet: the preferred one if it still lives, or   *)
(* else the first that does; NoLane when the packet is dropped.             *)
Target ==
  CASE choice.lane \in lanes -> choice.lane
    [] choice.lane \notin lanes /\ lanes # {} -> CHOOSE l \in lanes : \A k \in lanes : l <= k
    [] OTHER -> NoLane

Deliver ==
  /\ choice # NoChoice
  /\ choice' = NoChoice
  /\ UNCHANGED <<table, lanes>>

SessionEnds(l) ==
  /\ l \in lanes
  /\ lanes' = lanes \ {l}
  /\ UNCHANGED <<table, choice>>

(* register_group on the group there is: waits for the dispatch to end. *)
LaneRegisters(l) ==
  /\ choice = NoChoice
  /\ l \notin lanes
  /\ lanes' = lanes \cup {l}
  /\ UNCHANGED <<table, choice>>

(* register_group of another group: a new table with one lane. *)
GroupReplaced(l) ==
  /\ choice = NoChoice
  /\ lanes' = {l}
  /\ table' = EmptyTable
  /\ UNCHANGED choice

FlowNext ==
  \/ \E f \in Flows : SelectData(f)
  \/ SelectControl \/ Deliver
  \/ \E l \in AllLanes : SessionEnds(l) \/ LaneRegisters(l) \/ GroupReplaced(l)

FlowSpec == FlowInit /\ [][FlowNext]_flow_vars
----------------------------------------------------------------------------
Index   == 0 .. Capacity
Entries == [flow : Flows, previous : Index, next : Index, lane : AllLanes]
Tables  == [assignments : [Flows -> Index], entries : Seq(Entries), free : Seq(Index),
            oldest : Index, newest : Index]

FlowTypeOK ==
  /\ table \in Tables
  /\ lanes \subseteq AllLanes
  /\ choice \in [flow : Flows \cup {NoFlow}, lane : AllLanes \cup {NoLane}]

Used(t) == {t.assignments[f] : f \in Tracked(t)}
Free(t) == {t.free[k] : k \in DOMAIN t.free}

(* The map and the array agree: every slot is either free, once, or the     *)
(* entry of one tracked flow, so no slot leaks, none is used twice, and     *)
(* the array never outgrows the limit (its index would not fit).            *)
SlotsAreOwned(t) ==
  /\ \A f \in Tracked(t) : t.entries[t.assignments[f]].flow = f
  /\ Used(t) \cap Free(t) = {} /\ Used(t) \cup Free(t) = DOMAIN t.entries
  /\ \A j, k \in DOMAIN t.free : t.free[j] = t.free[k] => j = k
  /\ Len(t.entries) <= Capacity

(* The links of the entries lead from the oldest to the newest along o, and *)
(* back again; o visits no slot twice.                                      *)
Threads(t, o) ==
  LET n == Len(o)
  IN /\ t.oldest = IF n = 0 THEN NO_FLOW_INDEX ELSE o[1]
     /\ t.newest = IF n = 0 THEN NO_FLOW_INDEX ELSE o[n]
     /\ \A k \in 1 .. n :
          /\ t.entries[o[k]].next = IF k = n THEN NO_FLOW_INDEX ELSE o[k + 1]
          /\ t.entries[o[k]].previous = IF k = 1 THEN NO_FLOW_INDEX ELSE o[k - 1]
     /\ \A j, k \in 1 .. n : o[j] = o[k] => j = k

(* o is the chain of the table: it visits the slots in use.                 *)
IsChain(t, o) == Threads(t, o) /\ {o[k] : k \in 1 .. Len(o)} = Used(t)

Orders(t) == [1 .. Cardinality(Tracked(t)) -> Used(t)]

(* There is a chain: dropping the oldest and touching a middle entry both   *)
(* rely on it.                                                              *)
ChainIsWhole(t) == \E o \in Orders(t) : IsChain(t, o)

Chain(t) == CHOOSE o \in Orders(t) : IsChain(t, o)

(* Map, slots, free list and chain agree after every mixture of touching,   *)
(* removing, evicting and reusing, and no index is left dangling.           *)
TableIsSound == FlowTypeOK /\ SlotsAreOwned(table) /\ ChainIsWhole(table)

(* Lanes end while a packet is under way: it is dropped only when none is   *)
(* left, and it does not leave the lane of its flow while that one lives.   *)
PacketsFindLane ==
  choice # NoChoice =>
    /\ lanes # {} => Target \in lanes
    /\ Pinned(choice.flow) => Target = table.entries[table.assignments[choice.flow]].lane

(* What the choice of a lane relies on and what it promises. *)
LanesAreChosen == TableIsSound /\ PacketsFindLane

PinAt(t, i)  == [flow |-> t.entries[i].flow, lane |-> t.entries[i].lane]
PinsIn(t, o) == [k \in 1 .. Len(o) |-> PinAt(t, o[k])]
Pins == PinsIn(table, Chain(table))

FlowPinning == INSTANCE FlowPins WITH pins <- Pins, packet <- choice

(* The table of entries and indexes is a list of the flows seen last.       *)
ImplementsPinning == FlowPinning!Spec
============================================================================
