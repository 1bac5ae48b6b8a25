------------------------------- MODULE MCH3 --------------------------------
(***************************************************************************)
(* The HTTP/3 tunnel on small instances.  Its two models share nothing and *)
(* are checked side by side: subject says which of them a behaviour is of, *)
(* and the other one rests in an initial state.                            *)
(***************************************************************************)
EXTENDS ConnectIp

CONSTANTS Traffics, Capacities, Ceiling, Retries, MaxFlows, Grace, Idle, MaxTime

VARIABLES subject,
          side, traffic, capacity, limit, enabled, stage, packet, pending, retries, out, flows, asked, now

Sizing == INSTANCE PacketSizing

Plain == [flow |-> "a", offset |-> 0, length |-> 116, header |-> 24, copied |-> 20,
          more |-> FALSE, df |-> FALSE, unicast |-> TRUE, icmpError |-> FALSE]
Big == [Plain EXCEPT !.df = TRUE]

\* Packets to be cut, or to be dropped in silence; two flows that must be told.
SmallTraffics ==
  {{Plain, [Plain EXCEPT !.offset = 8, !.length = 112, !.header = 20, !.more = TRUE],
    [Big EXCEPT !.icmpError = TRUE], [Big EXCEPT !.unicast = FALSE]},
   {Big, [Big EXCEPT !.flow = "b"]}}
----------------------------------------------------------------------------
sizing == <<side, traffic, capacity, limit, enabled, stage, packet, pending, retries, out, flows, asked, now>>
Both == <<subject, vars, sizing>>

Begin ==
  /\ subject \in {"tunnel", "sizing"}
  /\ Init /\ Sizing!Init
  /\ subject # "tunnel" => config.datagrams
  /\ subject # "sizing" => side = "gateway" /\ capacity = Ceiling /\ Big \in traffic

Steps ==
  \/ subject = "tunnel" /\ Next /\ UNCHANGED <<subject, sizing>>
  \/ subject = "sizing" /\ Sizing!Next /\ UNCHANGED <<subject, vars>>

FairBoth ==
  /\ Begin /\ [][Steps]_Both
  /\ \A t \in Tasks : WF_vars(subject = "tunnel" /\ Task(t))
  /\ WF_sizing(subject = "sizing" /\ Sizing!Writer)

(* ConnectIp: connect() returns, a tunnel that is cancelled or *)
(* loses its client ends, and a client that is up learns of a failure.       *)
TunnelsEnd == []<>(subject = "tunnel" => Settled)

(* The writer of HTTP/3 datagrams: what is sent of a packet can be put       *)
(* together again, a capsule takes a DF packet only after its sender was     *)
(* told, and the writer is done with every packet in the end.                *)
PacketsAreSized ==
  /\ [](Sizing!PartsAreThePacket /\ Sizing!CapsulesFollowFeedback)
  /\ Sizing!PacketsEnd
=============================================================================
