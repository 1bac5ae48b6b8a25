------------------------------ MODULE MCTunnel -----------------------------
(***************************************************************************)
(* Tunnels, and the packet queue of one of them, on small instances.  The  *)
(* two are checked side by side: subject says which of them a behaviour is *)
(* of, and the other one rests in an initial state.                        *)
(***************************************************************************)
EXTENDS PacketQueue, Tunnel

VARIABLE subject

TwoLanes == {0, 1}

Shape(protocol, ports, dns, ack, small, size) ==
  [valid |-> TRUE, protocol |-> protocol, has_ports |-> ports, dns |-> dns,
   ack_only |-> ack, small |-> small, size |-> size]

(* A segment, an acknowledgement, a large datagram, the last fragment of a   *)
(* datagram, an echo.                                                        *)
SomePackets ==
  {Shape("tcp", TRUE, FALSE, FALSE, FALSE, 2), Shape("tcp", TRUE, FALSE, TRUE, TRUE, 1),
   Shape("udp", TRUE, FALSE, FALSE, FALSE, 2), Shape("udp", FALSE, FALSE, FALSE, TRUE, 1),
   Shape("icmp", FALSE, FALSE, FALSE, FALSE, 2)}

ClassAware == [max_packets |-> 3, max_bytes |-> 4, policy |-> "class_aware",
               max_age |-> [tcp |-> 3, datagram |-> 1, control |-> 2]]
DropOldest == [max_packets |-> 2, max_bytes |-> 3, policy |-> "drop_oldest",
               max_age |-> [tcp |-> 0, datagram |-> 0, control |-> 0]]
SomeConfigs == {ClassAware, DropOldest}
----------------------------------------------------------------------------
tunnels == <<tunnel_vars, pool_vars>>
Both == <<subject, tunnels, queue_vars>>

Begin ==
  /\ subject \in {"tunnels", "queue"}
  /\ TunnelInit /\ QueueInit
  /\ subject = "tunnels" => config = ClassAware

Steps ==
  \/ subject = "tunnels" /\ TunnelNext /\ UNCHANGED <<subject, queue_vars>>
  \/ subject = "queue" /\ QueueNext /\ UNCHANGED <<subject, tunnels>>

\* No action of TunnelFairness is enabled in TunnelInit; Receive is in the queue's.
FairBoth ==
  /\ Begin /\ [][Steps]_Both
  /\ TunnelFairness
  /\ WF_queue_vars(subject = "queue" /\ Receive)
  /\ WF_queue_vars(subject = "queue" /\ Closing)
============================================================================
