------------------------------ MODULE ConnectIp ------------------------------
(***************************************************************************)
(* One CONNECT-IP tunnel over HTTP/3, both ends of it: connect_address,    *)
(* run_reader and run_writer of the client (tunnel/h3.rs, tunnel/mod.rs)   *)
(* and serve_tunnel and run_tunnel of the gateway (transport/http3.rs),    *)
(* with the MTU discovery and the address assignment between them.         *)
(*                                                                         *)
(* The request stream is a FIFO in each direction; QUIC datagrams are lost *)
(* and overtake the stream and each other.  Capsules and datagrams are     *)
(* records with the fields that porta-wire/src/masque.rs encodes.  Packet  *)
(* sizes are not looked at here: PacketSizing is about them.  Timers have  *)
(* no clock: a bounded wait may end at any time.                           *)
(***************************************************************************)
EXTENDS Naturals, Sequences, SequencesExt, FiniteSets

CONSTANTS Mtus,            \* the values of --mtu the gateway may be configured with
          ControlCommands, \* RELIABLE_CONTROL_COMMANDS
          DataCommands,    \* RELIABLE_DATA_COMMANDS
          InboundSlots,    \* capacity of the client's inbound channel, 256
          MaxProbes,       \* MAX_MTU_PROBES
          MaxPackets       \* bound: packets the router or the client's TUN produce

SafeMtu == 1100
MaxDiscoveredMtu == 1400
None == "none"

ASSUME ConnectIpAssumption ==
  Mtus \subseteq Nat /\ ControlCommands \in Nat /\ DataCommands \in Nat /\ InboundSlots \in Nat /\ MaxProbes \in Nat

VARIABLES config,     \* the gateway's MTU, and whether both ends speak datagrams
          client,     \* the client's connection
          server,     \* the gateway's tunnel
          stream,     \* what the request stream carries, up and down
          datagrams,  \* the datagrams on their way, up and down
          quic        \* the QUIC connection: "open", "lost", "closed" (by the client)

vars == <<config, client, server, stream, datagrams, quic>>

(* What the client may ask for: its own requests, those of other versions,   *)
(* and a token the gateway does not know.                                    *)
Requests == {"current", "otherVersion", "plainConnect", "noCapsules", "noToken"}

(* connect_address() before it dials. *)
NewClient ==
  [phase |-> "dialing", outcome |-> None, accepted |-> FALSE,
   failure |-> None, inbound |-> <<>>, sizes |-> {}, attempt |-> 1,
   probe |-> [seq |-> 0, size |-> 0], waiting |-> FALSE,
   best |-> SafeMtu, mtu |-> 0, packets |-> 0]

Init ==
  /\ config \in [mtu : Mtus, datagrams : BOOLEAN]
  /\ client = NewClient
  /\ server = [phase |-> "idle", discovery |-> FALSE, selected |-> config.mtu,
               proven |-> {}, probes |-> 0, committed |-> FALSE,
               assigned |-> FALSE, ack |-> None, ready |-> FALSE,
               control |-> <<>>, data |-> <<>>, writing |-> <<>>,
               datagrams |-> config.datagrams, cancelled |-> FALSE,
               error |-> None, reason |-> None, said |-> <<>>, packets |-> 0]
  /\ stream = [up |-> <<>>, down |-> <<>>]
  /\ datagrams = [up |-> {}, down |-> {}]
  /\ quic = "open"
----------------------------------------------------------------------------
(* The client: connecting *)

(* FailureSignal::set: the first error stays. *)
SetFailure(c, error) ==
  [c EXCEPT !.failure = IF @ = None THEN error ELSE @]

(* report_failure: the error also goes to the reader of inbound, if there    *)
(* is room.                                                                  *)
ReportFailure(c, error) ==
  LET failed == SetFailure(c, error)
  IN IF c.failure = None /\ Len(c.inbound) < InboundSlots
     THEN [failed EXCEPT !.inbound = Append(@, [kind |-> "failure", error |-> error])]
     ELSE failed

(* What is left of a connection that is dropped. *)
Dropped(c, outcome) ==
  [NewClient EXCEPT !.phase = "down", !.outcome = outcome, !.accepted = c.accepted,
                    !.failure = c.failure]

(* What still comes for an end that has gone is thrown away. *)
NobodyReads(way) ==
  /\ stream' = [stream EXCEPT ![way] = <<>>]
  /\ datagrams' = [datagrams EXCEPT ![way] = {}]

(* The establishment ends with an error: the connection is cancelled and     *)
(* closed, and connect() returns the error.                                  *)
GiveUp(error) ==
  /\ client' = Dropped(client, error)
  /\ NobodyReads("down")
  /\ quic' = IF quic = "open" THEN "closed" ELSE quic
  /\ UNCHANGED <<config, server>>

(* The lookup, the handshake or the peer's SETTINGS fail or take too long;   *)
(* a TLS alert and an application close are permanent.                       *)
DialFails ==
  /\ client.phase = "dialing"
  /\ \E error \in {"unavailable", "permanent"} : GiveUp(error)

SendRequest ==
  /\ client.phase = "dialing" /\ quic = "open"
  /\ \E r \in Requests :
       stream' = [stream EXCEPT !.up = Append(@, [kind |-> "request", is |-> r])]
  /\ client' = [client EXCEPT !.phase = "requested"]
  /\ UNCHANGED <<config, server, datagrams, quic>>

(* validate_response: how a status is classified.  A 426 names the versions  *)
(* of the gateway when it comes from one.                                    *)
StatusClass(status) ==
  IF status \in {404, 405, 421, 501, 505} THEN "unavailable"
  ELSE IF status \in {408, 425, 429, 500, 502, 503, 504} THEN "retryable"
  ELSE "permanent"

(* The sizes discover_mtu() tries: the safe one, the usual ones below the    *)
(* maximum, and the maximum.  Its list is in ascending order.                *)
ProbeSizes(maximum) == {SafeMtu, maximum} \cup {n \in {1152, 1200, 1280, 1360, 1400} : n < maximum}

Smallest(sizes) == CHOOSE n \in sizes : \A m \in sizes : n <= m

LessThan(a, b) == IF a < b THEN a ELSE b

(* send_capsule(): through the writer, which reports a write that fails or   *)
(* takes too long; the caller then gives up with the first failure.          *)
SendCapsule(capsule, then) ==
  \/ /\ quic = "open"
     /\ stream' = [up |-> Append(stream.up, capsule), down |-> stream.down]
     /\ client' = then
     /\ UNCHANGED <<config, server, datagrams, quic>>
  \/ GiveUp(SetFailure(client, "retryable").failure)

AddressRequest == [kind |-> "addressRequest"]

ReceiveResponse ==
  /\ client.phase = "requested"
  /\ stream.down # <<>>
  /\ LET r == Head(stream.down)
         accepted == [client EXCEPT !.accepted = TRUE, !.mtu = r.mtu]
     IN IF r.status # 200 THEN GiveUp(StatusClass(r.status))
        ELSE /\ client' = [accepted EXCEPT
                             !.phase = IF r.offer THEN "probing" ELSE "asking",
                             !.sizes = IF r.offer THEN ProbeSizes(LessThan(r.mtu, MaxDiscoveredMtu))
                                       ELSE {}]
             /\ stream' = [stream EXCEPT !.down = Tail(@)]
             /\ UNCHANGED <<config, server, datagrams, quic>>

(* The response does not come in time, or its stream fails before the driver *)
(* reports the connection.                                                   *)
ResponseFails ==
  /\ client.phase = "requested"
  /\ GiveUp("unavailable")
----------------------------------------------------------------------------
(* The client: discover_mtu *)
(* A mutant: the size that was tried last is proposed. *)
SelectTried(c) ==
  [c EXCEPT !.phase = "proposing", !.waiting = FALSE, !.best = Smallest(c.sizes)]

SelectBest(c) == [c EXCEPT !.phase = "proposing", !.waiting = FALSE]

(* The budget is spent, or the probe is larger than QUIC can carry now. *)
StopProbing ==
  /\ client.phase = "probing" /\ ~client.waiting
  /\ client' = SelectBest(client)
  /\ UNCHANGED <<config, server, stream, datagrams, quic>>

SendProbe ==
  /\ client.phase = "probing" /\ ~client.waiting /\ quic = "open"
  /\ LET p == [seq |-> client.probe.seq + 1, size |-> Smallest(client.sizes)]
     IN /\ client' = [client EXCEPT !.probe = p, !.waiting = TRUE]
        /\ datagrams' = [datagrams EXCEPT !.up = @ \union {[kind |-> "probe", probe |-> p]}]
  /\ UNCHANGED <<config, server, stream, quic>>

IsEcho(p) == p = client.probe

NextSize(c) ==
  LET size == Smallest(c.sizes)
  IN [c EXCEPT !.best = size, !.sizes = @ \ {size}, !.attempt = 1, !.waiting = FALSE,
               !.phase = IF c.sizes = {size} THEN "proposing" ELSE @]

(* An attempt or the whole budget ends without the echo.  The second attempt *)
(* at a size is the last.                                                    *)
ProbeTimesOut ==
  /\ client.phase = "probing" /\ client.waiting
  /\ client' = IF client.attempt = 2 THEN SelectBest(client)
               ELSE [client EXCEPT !.attempt = 2, !.waiting = FALSE]
  /\ UNCHANGED <<config, server, stream, datagrams, quic>>

Propose ==
  /\ client.phase = "proposing"
  /\ SendCapsule([kind |-> "select", mtu |-> client.best],
                 [client EXCEPT !.phase = "selecting"])

AskForAddress ==
  /\ client.phase = "asking"
  /\ SendCapsule(AddressRequest, [client EXCEPT !.phase = "addressing"])

(* FailureSignal::next: what a waiting step of the establishment takes from  *)
(* inbound; a failure comes first, and what it does not wait for is dropped. *)
TakeInbound ==
  /\ client.phase \in {"probing", "selecting", "addressing"}
  /\ client.phase = "probing" => client.waiting
  /\ client.failure = None /\ client.inbound # <<>>
  /\ LET value == Head(client.inbound)
         rest == [client EXCEPT !.inbound = Tail(@)]
     IN IF client.phase = "selecting" /\ value.kind = "selected" /\ value.mtu # client.best
        THEN GiveUp("permanent")
        ELSE /\ client' =
                 CASE client.phase = "probing" /\ value.kind = "probe" /\ IsEcho(value.probe) ->
                        NextSize(rest)
                   [] client.phase = "selecting" /\ value.kind = "selected" ->
                        [rest EXCEPT !.mtu = client.best, !.phase = "asking"]
                   [] client.phase = "addressing" /\ value.kind = "address" ->
                        [rest EXCEPT !.phase = "up", !.outcome = "connected"]
                   [] OTHER -> rest
             /\ UNCHANGED <<config, server, stream, datagrams, quic>>

(* A mutant: a configuration that fails looks like a missing transport. *)
ConfigurationUnavailable ==
  /\ client.phase \in {"probing", "proposing", "selecting", "asking", "addressing"}
  /\ \/ client.failure # None /\ GiveUp(client.failure)
     \/ client.failure = None /\ GiveUp("unavailable")

(* A failure, a wait that takes too long, the user's cancellation. *)
EstablishmentFails ==
  /\ client.phase \in {"probing", "proposing", "selecting", "asking", "addressing"}
  /\ \/ client.failure # None /\ GiveUp(client.failure)
     \/ client.failure = None /\ GiveUp("retryable")

Cancel ==
  /\ client.phase # "down"
  /\ GiveUp(IF client.failure # None THEN client.failure ELSE "cancelled")
----------------------------------------------------------------------------
(* The client: run_reader, the driver, and the established connection *)
Reading == client.accepted /\ client.phase # "down" /\ client.failure = None

ReadCapsule ==
  /\ Reading /\ stream.down # <<>>
  /\ LET value == Head(stream.down)
     IN /\ \/ /\ value.kind = "end"      \* the stream ended
              /\ client' = ReportFailure(client, "retryable")
           \/ /\ value.kind \in {"selected", "address", "packet"}
              /\ Len(client.inbound) < InboundSlots
              /\ client' = [client EXCEPT !.inbound = Append(@, value)]
        /\ stream' = [stream EXCEPT !.down = Tail(@)]
  /\ UNCHANGED <<config, server, datagrams, quic>>

ReadDatagram ==
  /\ Reading
  /\ \E value \in datagrams.down :
       /\ Len(client.inbound) < InboundSlots
       /\ client' = [client EXCEPT !.inbound = Append(@, value)]
       /\ datagrams' = [datagrams EXCEPT !.down = @ \ {value}]
  /\ UNCHANGED <<config, server, stream, quic>>

(* The driver, the reader or the writer finds the connection gone. *)
ConnectionStops ==
  /\ quic = "lost"
  /\ client.phase \notin {"dialing", "down"} /\ client.failure = None
  /\ client' = ReportFailure(client, "retryable")
  /\ UNCHANGED <<config, server, stream, datagrams, quic>>

(* The driver reports before the response: the establishment returns what    *)
(* it reported.                                                              *)
RequestCancelled ==
  /\ client.phase = "requested" /\ client.failure # None
  /\ GiveUp(client.failure)

(* Connection::send *)
Send ==
  /\ client.phase = "up" /\ client.failure = None /\ quic = "open"
  /\ client.packets < MaxPackets
  /\ client' = [client EXCEPT !.packets = @ + 1]
  /\ \/ /\ config.datagrams
        /\ datagrams' = [datagrams EXCEPT !.up = @ \union {[kind |-> "packet", n |-> client.packets]}]
        /\ UNCHANGED stream
     \/ /\ stream' = [stream EXCEPT !.up = Append(@, [kind |-> "packet", n |-> client.packets])]
        /\ UNCHANGED datagrams
  /\ UNCHANGED <<config, server, quic>>

(* Connection::receive: the failure before anything queued; then close(). *)
Receive ==
  /\ client.phase = "up"
  /\ \/ /\ client.failure # None
        /\ client' = Dropped(client, client.outcome)
        /\ NobodyReads("down")
        /\ quic' = IF quic = "open" THEN "closed" ELSE quic
     \/ /\ client.failure = None /\ client.inbound # <<>>
        /\ client' = [client EXCEPT !.inbound = Tail(@)]
        /\ UNCHANGED <<stream, datagrams, quic>>
  /\ UNCHANGED <<config, server>>
----------------------------------------------------------------------------
(* The gateway: serve_tunnel *)
Refusals(request) ==
  CASE request = "plainConnect" -> {400}
    [] request = "noCapsules" -> {400}
    [] request = "otherVersion" -> {426}
    [] request = "noToken" -> {401, 408}
    [] OTHER -> {401, 408, 409, 429, 503}   \* SETTINGS missing, or open() failed

Response(status) ==
  [kind |-> "response", status |-> status, mtu |-> config.mtu, offer |-> FALSE]

Refuse ==
  /\ server.phase = "idle" /\ stream.up # <<>>
  /\ \E status \in Refusals(Head(stream.up).is) :
       stream' = [up |-> Tail(stream.up),
                  down |-> IF quic = "open" THEN Append(stream.down, Response(status)) ELSE stream.down]
  /\ server' = [server EXCEPT !.phase = "ended", !.reason = "refused"]
  /\ UNCHANGED <<config, client, datagrams, quic>>

(* The session is open: the gateway answers, and offers the discovery of the *)
(* MTU when there is something to discover.                                  *)
Open ==
  /\ server.phase = "idle" /\ stream.up # <<>> /\ quic = "open"
  /\ Head(stream.up).is = "current"
  /\ LET offer == config.datagrams /\ config.mtu > SafeMtu
     IN /\ server' = [server EXCEPT !.phase = "running", !.discovery = offer]
        /\ stream' = [up |-> Tail(stream.up),
                      down |-> Append(stream.down, [Response(200) EXCEPT !.offer = offer])]
  /\ UNCHANGED <<config, client, datagrams, quic>>

Running == server.phase = "running"

(* 'tunnel: the loop ends with an error or with a reason. *)
EndsWith(s, error) == [s EXCEPT !.phase = "closing", !.error = error]

(* ReliableQueue::control and ::packet *)
Control(s, capsule) ==
  IF Len(s.control) < ControlCommands
  THEN [s EXCEPT !.control = Append(@, capsule)]
  ELSE EndsWith(s, "overloaded")

Packet(s, capsule) ==
  IF Len(s.data) < DataCommands
  THEN [s EXCEPT !.data = Append(@, capsule)]
  ELSE EndsWith(s, "overloaded")

(* MtuResponder::commit *)
CanCommit(s, mtu) ==
  /\ mtu >= SafeMtu /\ mtu <= LessThan(config.mtu, MaxDiscoveredMtu)
  /\ mtu > SafeMtu => mtu \in s.proven
  /\ s.committed => mtu = s.selected

SelectMtu(s, mtu) ==
  IF ~(s.discovery /\ CanCommit(s, mtu)) THEN EndsWith(s, "protocol")
  ELSE Control([s EXCEPT !.selected = mtu, !.committed = TRUE],
               [kind |-> "selected", mtu |-> mtu])

(* A mutant: the downlink is ready once the answer is queued. *)
AssignAndStart(s) ==
  IF s.discovery /\ ~s.committed THEN EndsWith(s, "protocol")
  ELSE [Control(s, [kind |-> "address", ack |-> FALSE]) EXCEPT !.assigned = TRUE, !.ready = TRUE]

(* CAPSULE_ADDRESS_REQUEST and address_response() *)
AssignAddress(s) ==
  IF s.discovery /\ ~s.committed THEN EndsWith(s, "protocol")
  ELSE LET first == ~s.assigned
           queued == Control([s EXCEPT !.ack = IF first THEN "waiting" ELSE @],
                             [kind |-> "address", ack |-> first])
       IN [queued EXCEPT !.assigned = TRUE]

(* inject_packet: a packet before the assignment is dropped; the router may  *)
(* refuse one.                                                               *)
InjectPacket(s) ==
  IF ~s.assigned THEN {[s EXCEPT !.said = Append(@, "dropped")]}
  ELSE {s, EndsWith(s, "router")}

ReceiveCapsule ==
  /\ Running /\ ~server.cancelled
  /\ stream.up # <<>>
  /\ stream' = [stream EXCEPT !.up = Tail(@)]
  /\ LET capsule == Head(stream.up)
     IN server' \in CASE capsule.kind = "select" -> {SelectMtu(server, capsule.mtu)}
                      [] capsule.kind = "addressRequest" -> {AssignAddress(server)}
                      [] capsule.kind = "packet" -> InjectPacket(server)
  /\ UNCHANGED <<config, client, datagrams, quic>>

(* MtuResponder::accept_probe and probe_echoed.  A probe that came too late  *)
(* or that QUIC cannot carry back is not echoed.                             *)
CanEcho(s, p) ==
  /\ ~s.committed /\ s.probes < MaxProbes
  /\ p.size <= LessThan(config.mtu, MaxDiscoveredMtu)

Probed(s, p, echoed) ==
  [s EXCEPT !.probes = @ + 1, !.proven = IF echoed THEN @ \union {p.size} ELSE @]

ReceiveProbe ==
  /\ Running /\ ~server.cancelled /\ server.datagrams
  /\ \E value \in datagrams.up :
       /\ value.kind = "probe" /\ server.discovery
       /\ \/ /\ CanEcho(server, value.probe)
             /\ \E echoed \in BOOLEAN :
                  /\ server' = Probed(server, value.probe, echoed)
                  /\ datagrams' = [up |-> datagrams.up \ {value},
                                   down |-> IF echoed THEN datagrams.down \union {value}
                                            ELSE datagrams.down]
          \/ /\ UNCHANGED server         \* committed, too late or too many: dropped
             /\ datagrams' = [datagrams EXCEPT !.up = @ \ {value}]
  /\ UNCHANGED <<config, client, stream, quic>>

ReceiveDatagram ==
  /\ Running /\ ~server.cancelled /\ server.datagrams
  /\ \E value \in datagrams.up :
       /\ value.kind = "packet"
       /\ server' \in InjectPacket(server)
       /\ datagrams' = [datagrams EXCEPT !.up = @ \ {value}]
  /\ UNCHANGED <<config, client, stream, quic>>

(* The datagrams of QUIC turn out not to be available: capsules from now on. *)
DisableDatagrams ==
  /\ Running /\ server.datagrams
  /\ server' = [server EXCEPT !.datagrams = FALSE]
  /\ UNCHANGED <<config, client, stream, datagrams, quic>>

AssignmentWritten ==
  /\ Running /\ ~server.cancelled /\ server.ack = "sent"
  /\ server' = [server EXCEPT !.ack = None, !.ready = TRUE]
  /\ UNCHANGED <<config, client, stream, datagrams, quic>>

(* A packet of the downlink queue *)
SendDownlink ==
  /\ Running /\ ~server.cancelled /\ server.ready
  /\ server.packets < MaxPackets
  /\ LET s == [server EXCEPT !.packets = @ + 1]
         packet == [kind |-> "packet", n |-> server.packets]
     IN \/ /\ server.datagrams
           /\ server' = [s EXCEPT !.said = Append(@, "packet")]
           /\ datagrams' = [datagrams EXCEPT !.down = @ \union {packet}]
        \/ /\ server' = Packet(s, packet)
           /\ UNCHANGED datagrams
  /\ UNCHANGED <<config, client, stream, quic>>

(* The session closes its downlink queue: not an error, and the writer gets  *)
(* to finish.                                                                *)
DownlinkClosed ==
  /\ Running /\ ~server.cancelled /\ server.ready
  /\ server' = EndsWith(server, "downlinkClosed")
  /\ UNCHANGED <<config, client, stream, datagrams, quic>>

(* The session is cancelled, or the connection is gone. *)
LoopEnds ==
  /\ Running
  /\ \/ server.cancelled /\ server' = EndsWith(server, "cancelled")
     \/ ~server.cancelled /\ quic = "closed" /\ server' = EndsWith(server, "peerClosed")
     \/ ~server.cancelled /\ quic = "lost" /\ server' = EndsWith(server, "timedOut")
  /\ UNCHANGED <<config, client, stream, datagrams, quic>>
----------------------------------------------------------------------------
(* The gateway: run_reliable_writer.  Control commands go first. *)
WriterRuns ==
  /\ server.phase \in {"running", "closing"} /\ ~server.cancelled
  /\ server.phase = "closing" => server.error = "downlinkClosed"

WriterTakes ==
  /\ WriterRuns /\ server.writing = <<>>
  /\ \/ /\ server.control # <<>>
        /\ server' = [server EXCEPT !.writing = <<Head(server.control)>>, !.control = Tail(@)]
     \/ /\ server.control = <<>> /\ server.data # <<>>
        /\ server' = [server EXCEPT !.writing = <<Head(server.data)>>, !.data = Tail(@)]
  /\ UNCHANGED <<config, client, stream, datagrams, quic>>

WriterWrites ==
  /\ WriterRuns /\ server.writing # <<>> /\ quic = "open"
  /\ stream' = [stream EXCEPT !.down = @ \o server.writing]
  /\ LET c == Head(server.writing)
     IN server' = [server EXCEPT !.writing = <<>>, !.said = Append(@, c.kind),
                     !.ack = IF c.kind = "address" /\ c.ack THEN "sent" ELSE @]
  /\ UNCHANGED <<config, client, datagrams, quic>>

(* A mutant: the deadlines do not count once the loop has ended. *)
WriterTimesOutEarly ==
  /\ Running /\ ~server.cancelled /\ server.writing # <<>>
  /\ server' = EndsWith(server, "writerTimeout")
  /\ UNCHANGED <<config, client, stream, datagrams, quic>>

(* A command is not written within its two seconds, queueing included. *)
WriterTimesOut ==
  /\ WriterRuns /\ server.writing # <<>>
  /\ server' = EndsWith(server, "writerTimeout")
  /\ UNCHANGED <<config, client, stream, datagrams, quic>>

(* tunnel_termination: the reason the session is closed with. *)
Termination(error, cancelled) ==
  CASE error = "cancelled" \/ (cancelled /\ error = "router") ->
         [reason |-> "cancelled", unexpected |-> FALSE]
    [] error = "downlinkClosed" ->
         [reason |-> IF cancelled THEN "cancelled" ELSE "downlink_closed", unexpected |-> FALSE]
    [] error = "peerClosed" -> [reason |-> "peer_closed", unexpected |-> FALSE]
    [] error = "timedOut" -> [reason |-> "quic_timeout", unexpected |-> TRUE]
    [] error = "overloaded" -> [reason |-> "capsule_writer_overloaded", unexpected |-> TRUE]
    [] error = "writerTimeout" -> [reason |-> "capsule_writer_timeout", unexpected |-> TRUE]
    [] error = "protocol" -> [reason |-> "capsule_protocol_error", unexpected |-> TRUE]
    [] OTHER -> [reason |-> "router_error", unexpected |-> TRUE]

(* The writer is cancelled and waited for, the reader of the datagrams       *)
(* stopped, the stream reset and the session closed.                         *)
CloseTunnel ==
  /\ server.phase = "closing"
  /\ WriterRuns => server.control \o server.data \o server.writing = <<>>
  /\ server' = [server EXCEPT !.phase = "ended", !.control = <<>>, !.data = <<>>,
                  !.writing = <<>>,
                  !.proven = {}, !.probes = 0, !.ack = None,
                  !.reason = Termination(server.error, server.cancelled).reason]
  /\ stream' = [up |-> <<>>, down |-> IF quic = "open" THEN Append(stream.down, [kind |-> "end"])
                                     ELSE stream.down]
  /\ datagrams' = [datagrams EXCEPT !.up = {}]
  /\ UNCHANGED <<config, client, quic>>
----------------------------------------------------------------------------
(* The surroundings: the session is cancelled (drained, superseded or shut   *)
(* down), a datagram or the connection is lost.                              *)
CancelSession ==
  /\ server.phase \in {"running", "closing"} /\ ~server.cancelled
  /\ server' = [server EXCEPT !.cancelled = TRUE]
  /\ UNCHANGED <<config, client, stream, datagrams, quic>>

LoseDatagram ==
  /\ \E way \in {"up", "down"} : \E value \in datagrams[way] :
       datagrams' = [datagrams EXCEPT ![way] = @ \ {value}]
  /\ UNCHANGED <<config, client, server, stream, quic>>

LoseConnection ==
  /\ quic = "open"
  /\ quic' = "lost"
  /\ UNCHANGED <<config, client, server, stream, datagrams>>

ClientSteps ==
  \/ DialFails \/ SendRequest \/ ReceiveResponse \/ ResponseFails \/ RequestCancelled
  \/ StopProbing \/ SendProbe \/ ProbeTimesOut \/ Propose \/ AskForAddress \/ TakeInbound
  \/ EstablishmentFails \/ ReadCapsule \/ ReadDatagram \/ ConnectionStops
  \/ Receive

ServerSteps ==
  \/ Refuse \/ Open \/ ReceiveCapsule \/ ReceiveProbe \/ ReceiveDatagram
  \/ AssignmentWritten \/ SendDownlink \/ LoopEnds
  \/ WriterTakes \/ WriterWrites \/ WriterTimesOut \/ CloseTunnel

Next ==
  \/ ClientSteps \/ ServerSteps
  \/ Cancel \/ Send \/ DisableDatagrams \/ DownlinkClosed
  \/ CancelSession \/ LoseDatagram \/ LoseConnection

Spec == Init /\ [][Next]_vars

(* Every wait of the two programs ends by an event or by a timer, and their  *)
(* tasks are scheduled.                                                      *)
Task(t) ==
  \/ t = "connect" /\ (DialFails \/ SendRequest \/ ReceiveResponse \/ ResponseFails \/ RequestCancelled)
  \/ t = "probe" /\ (StopProbing \/ SendProbe \/ ProbeTimesOut \/ Propose \/ AskForAddress)
  \/ t = "establish" /\ EstablishmentFails
  \/ t = "stop" /\ ConnectionStops
  \/ t = "read" /\ ReadCapsule
  \/ t = "receive" /\ Receive
  \/ t = "loop" /\ LoopEnds
  \/ t = "close" /\ CloseTunnel
  \/ t = "write" /\ (WriterTakes \/ WriterWrites \/ WriterTimesOut)

Tasks == {"connect", "probe", "establish", "stop", "read", "receive", "loop", "close", "write"}

FairSpec == Spec /\ \A t \in Tasks : WF_vars(Task(t))
----------------------------------------------------------------------------
(* Properties *)
Occurs(s, kind) == \E i \in 1..Len(s) : s[i] = kind

(* The client's proposal is one the gateway accepts: whatever datagrams were *)
(* lost or late, a tunnel between the two never ends in a protocol error,    *)
(* and once the client is up both ends use the same MTU and the gateway      *)
(* takes the client's packets.                                               *)
NegotiationAgrees ==
  /\ server.reason # "capsule_protocol_error"
  /\ client.outcome # "permanent" \/ ~client.accepted
  /\ client.phase = "up" =>
       /\ client.mtu = server.selected
       /\ server.discovery => server.committed
  /\ ~Occurs(server.said, "dropped")

(* send_downlink only runs once the answer to the ADDRESS_REQUEST has been   *)
(* written: nothing is sent to an address the client has not been given.     *)
AddressComesFirst ==
  \A i \in 1..Len(server.said) :
    server.said[i] = "packet" => \E j \in 1..(i - 1) : server.said[j] = "address"

(* connect() falls back to HTTP/2, or to the next address, only while the    *)
(* gateway has not accepted the tunnel: after that the same gateway would    *)
(* be asked for a second one.                                                *)
NoFallbackOnceAccepted == client.outcome = "unavailable" => ~client.accepted

(* Both ends of a tunnel agree, over a network that loses and delays: on its *)
(* MTU, on the address before the packets, and on whether there is a tunnel. *)
TunnelIsAgreed == NegotiationAgrees /\ AddressComesFirst /\ NoFallbackOnceAccepted

(* Nobody is waiting: connect() has returned, a tunnel whose loop is over,   *)
(* whose session is cancelled or whose client is gone has ended, and a       *)
(* client that is up has learnt of the failure.  None of these comes back.   *)
Settled ==
  /\ client.outcome # None
  /\ server.phase # "closing" /\ ~(Running /\ (server.cancelled \/ quic # "open"))
  /\ ~(client.phase = "up" /\ client.failure # None)
============================================================================
