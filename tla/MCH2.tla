------------------------------- MODULE MCH2 --------------------------------
(***************************************************************************)
(* The HTTP/2 tunnel on small instances.  Its three models share nothing   *)
(* and are checked side by side: subject says which of them a behaviour is *)
(* of, and the others rest in an initial state.                            *)
(***************************************************************************)
EXTENDS H2Lanes

CONSTANTS UpLane, Sizes, MaxAge, StreamQueuePackets, QueueBytes, BatchPackets, BatchBytes,
          StreamPackets, ResponseChunks, ChannelPackets, ControlBurst, Loads, MaxTime,
          Scripts, Own, LeaseBytes, MaxCapsule, OutChunks

VARIABLES subject,
          now, upload, waker, up, chunks, down, merge, inbound, load,
          script, received, consumed, handled, pc, assigned, answer, out, injected, downlink, quiet

streamVars == <<now, upload, waker, up, chunks, down, merge, inbound, load>>
framingVars == <<script, received, consumed, handled, pc, assigned, answer, out, injected, downlink, quiet>>

Streams == INSTANCE LaneStreams WITH QueuePackets <- StreamQueuePackets, queue <- upload, out <- chunks, left <- load
Framing == INSTANCE StreamFraming
----------------------------------------------------------------------------
\* A tunnel of two lanes from its first dial, through an outage.
Starting == [lanes |-> {0, 1}, established |-> FALSE, connects |-> 4,
             packets |-> 0, leases |-> 1, cancels |-> 1]

\* An established tunnel of three lanes that loses some and redials one.
Carrying == [lanes |-> Lanes, established |-> TRUE, connects |-> 1,
             packets |-> 2, leases |-> 0, cancels |-> 0]

SomeScenarios == {Starting, Carrying}

Ages == [tcp |-> 3, control |-> 2, datagram |-> 1]

\* Uploads alone, uploads with packets coming back and a reconnect, and
\* downloads on all the lanes.
SomeLoads == {<<3, 0, 0>>, <<1, 3, 1>>, <<0, 4, 0>>}

\* Scripts that mix the messages a peer sends, long types and lengths among them.
Zeros(n) == [i \in 1 .. n |-> 0]
V4(id) == id \o <<4, 0, 0, 0, 0, 0>>
V6(id) == id \o <<6>> \o Zeros(17)
Capsule(type, value) == [type |-> type, value |-> value]
Packet(source, n) == <<source>> \o [i \in 1 .. n |-> i]
Datagram(p) == Capsule(0, <<0>> \o p)
Given(value) == Capsule(1, value)
Request(value) == Capsule(2, value)
Advertisement == Capsule(3, <<4, 0, 0, 0, 0, 9, 255, 255, 255, 0, 4, 10, 0, 0, 0, 10, 0, 0, 9, 0>>)
Frame(p) == Capsule(0, p)

Script(framing, messages, packets) ==
  [framing |-> framing, messages |-> messages, downlink |-> packets, mtu |-> 4]

SomeScripts == {
  Script("capsules", <<Datagram(Packet(Own, 1)), Request(V4(<<1>>)), Datagram(Packet(Own, 3)),
                       Datagram(Packet(9, 1)), Datagram(<<>>), Datagram(Packet(Own, 4))>>,
         <<"fits", "df", "df", "splits", "fits", "fits">>),
  Script("capsules", <<Capsule(16740352, <<7, 7>>), Request(V4(<<1>>)), Request(V6(<<2>>)), Request(V4(<<64, 70>>))>>, <<>>),
  Script("capsules", <<Request(V6(<<3>>) \o V4(<<1>>) \o V4(<<2>>)),
                       Advertisement,
                       Given(V4(<<0>>)), Given(<<0, 4, 0, 0>>)>>, <<"bad">>),
  Script("capsules", <<Request(V4(<<0>>))>>, <<>>),
  Script("capsules", <<Request(V4(<<1>>)), Capsule(200, Zeros(70)), Datagram(Packet(Own, 2))>>, <<"fits">>),
  Script("capsules", <<Capsule(200, Zeros(90)), Request(V4(<<1>>))>>, <<>>),
  Script("frames", <<Frame(<<>>), Frame(Packet(Own, 2)), Frame(Packet(Own, 5)), Frame(Packet(9, 1)),
                     Frame(Zeros(300))>>, <<"fits", "fits", "df">>)}

Address == <<10, 0, 0, 2>>
----------------------------------------------------------------------------
All == <<subject, lanes_vars, streamVars, framingVars>>

Begin ==
  /\ subject \in {"lanes", "streams", "framing"}
  /\ LanesInit /\ Streams!Init /\ Framing!Init
  /\ subject # "lanes" => established
  /\ subject # "streams" => load.up = 0
  /\ subject # "framing" => Len(script.messages) = 1

Steps ==
  \/ subject = "lanes" /\ LanesNext /\ UNCHANGED <<subject, streamVars, framingVars>>
  \/ subject = "streams" /\ Streams!Next /\ UNCHANGED <<subject, lanes_vars, framingVars>>
  \/ subject = "framing" /\ Framing!Next /\ UNCHANGED <<subject, lanes_vars, streamVars>>

FairAll ==
  /\ Begin /\ [][Steps]_All
  /\ \A l \in Lanes, t \in LaneTasks : WF_lanes_vars(subject = "lanes" /\ LaneTask(l, t))
  /\ \A t \in GroupTasks : WF_lanes_vars(subject = "lanes" /\ GroupTask(t))
  /\ \A t \in Streams!Tasks : WF_streamVars(subject = "streams" /\ Streams!Task(t))
  /\ \A l \in Streams!Lanes : WF_streamVars(subject = "streams" /\ Streams!Download(l))

(* No more than a burst of control packets passes a waiting data packet      *)
(* (take_downstream); the upload queue keeps its limits, its byte count and  *)
(* its order; and under a bounded load everything gets through: no task      *)
(* sleeps through what it waits for (ready, download_ready, send_output).    *)
StreamsAreSound ==
  /\ [](subject = "streams" => Streams!ControlYields /\ Streams!UploadQueueIsSound)
  /\ Streams!StreamsDrain

(* However the transport cuts the stream, the messages taken from it are     *)
(* those that were sent (parse_varint, take_capsule, consume_uploads), and   *)
(* an address once given stays in every later assignment.                    *)
FramingIsSound == subject = "framing" => Framing!FramingIsExact /\ Framing!AssignmentsKeepLease
=============================================================================
