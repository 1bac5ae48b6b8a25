------------------------------ MODULE FlowPins ------------------------------
(***************************************************************************)
(* What the flow table of a lane group promises: it remembers the lanes of *)
(* the flows that were seen last, at most Capacity of them.  A flow keeps  *)
(* its lane as long as the lane lives and the flow is remembered; who was  *)
(* not seen for longest is forgotten first.                                *)
(***************************************************************************)
EXTENDS Naturals, Sequences, SequencesExt

CONSTANTS Flows, NoFlow, DataLanes, Capacity

VARIABLES pins,           \* [flow, lane] records, the flow seen last is last
          lanes,          \* the lanes whose session is alive
          packet          \* the packet under way: its flow and the lane it prefers

Others(f) ==
  LET at == {k \in DOMAIN pins : pins[k].flow = f}
  IN IF at = {} THEN pins ELSE RemoveAt(pins, CHOOSE k \in at : TRUE)
PinOf(f)  == {pins[k].lane : k \in {k \in DOMAIN pins : pins[k].flow = f}}
Recent    == IF Len(pins) = Capacity THEN Tail(pins) ELSE pins

Idle == packet.flow = NoFlow

Init == pins = <<>> /\ lanes \subseteq DataLanes \cup {0} /\ Idle

Keep(f, l) ==
  /\ l \in PinOf(f) \cap lanes
  /\ pins' = Append(Others(f), [flow |-> f, lane |-> l])

Move(f, l) ==
  /\ PinOf(f) \cap lanes = {}
  /\ l \in DataLanes \cap lanes
  /\ pins' = Append(IF PinOf(f) = {} THEN Recent ELSE Others(f), [flow |-> f, lane |-> l])

Forget(f, l) ==
  /\ DataLanes \cap lanes = {}
  /\ l = 0
  /\ pins' = Others(f)

Seen(f, l) ==
  /\ Idle
  /\ Keep(f, l) \/ Move(f, l) \/ Forget(f, l)
  /\ packet' = [flow |-> f, lane |-> l]
  /\ UNCHANGED lanes

(* A packet was queued, or one that belongs to no data lane came by. *)
Pass == packet'.flow = NoFlow /\ UNCHANGED <<pins, lanes>>

LanesChange == lanes' \subseteq DataLanes \cup {0} /\ UNCHANGED <<pins, packet>>

Reset == Idle /\ pins' = <<>> /\ lanes' \subseteq DataLanes \cup {0} /\ UNCHANGED packet

Next ==
  \/ \E f \in Flows, l \in DataLanes \cup {0} : Seen(f, l)
  \/ Pass \/ LanesChange \/ Reset

Spec == Init /\ [][Next]_<<pins, lanes, packet>>
============================================================================
