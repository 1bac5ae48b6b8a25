---------------------------- MODULE StreamFraming ----------------------------
(***************************************************************************)
(* What is carried over a byte stream: MASQUE capsules (porta-wire         *)
(* masque.rs, take_capsule) and the two-byte frames of the HTTP/2 lanes    *)
(* (frame.rs, consume_uploads, download_lane), and the gateway's CONNECT-IP*)
(* tunnel over one HTTP/2 stream, which is a single loop that reads,       *)
(* answers and writes (porta-server transport/http2.rs,                    *)
(* run_masque_tunnel).                                                     *)
(*                                                                         *)
(* The peer sends the messages of a script, encoded byte by byte; the      *)
(* transport cuts the bytes into chunks wherever it likes.  The input      *)
(* buffer is what lies between the last byte consumed and the last byte    *)
(* received.  An IP packet is abstracted to its bytes, the first of which  *)
(* stands for the source address the gateway checks.                       *)
(***************************************************************************)
EXTENDS Naturals, Sequences, FiniteSets, SequencesExt

CONSTANTS Scripts,       \* [framing, messages, downlink, mtu] records
          Own,           \* first byte of a packet of the lease's address
          LeaseBytes,    \* the four bytes of the lease's address
          MaxCapsule,    \* MAX_CAPSULE_SIZE
          OutChunks      \* chunks the transport takes before it blocks

DATAGRAM == 0
ADDRESS_ASSIGN == 1
ADDRESS_REQUEST == 2
ROUTE_ADVERTISEMENT == 3

VARIABLES
  script,    \* what the peer and the packet router are going to send
  received,  \* bytes received
  consumed,  \* bytes the decoder has taken
  handled,   \* history: messages taken from the stream
  pc,        \* the loop: "select", "decoding", "failed" or "ended"
  assigned,  \* an address has been assigned, downlink is open
  answer,    \* the last ADDRESS_ASSIGN written, as bytes
  out,       \* chunks written that the peer has not read
  injected,  \* packets passed to the router
  downlink,  \* packets the router has for the tunnel
  quiet      \* an ICMP error was sent too recently for another

vars == <<script, received, consumed, handled, pc, assigned, answer, out,
          injected, downlink, quiet>>

-----------------------------------------------------------------------------
(* Variable-length integers.                                               *)

\* The big-endian bytes of v, n of them.
BigEndian(v, n) == [i \in 1 .. n |-> (v \div 256 ^ (n - i)) % 256]

\* parse_varint's result on a buffer, from position i: the width comes from
\* the two high bits of the first byte, which are not part of the value.
Truncated == [ok |-> FALSE, value |-> 0, used |-> 0]

VarintWidth(first) == 2 ^ (first \div 64)

ValueOf(bytes, i, width) ==
  LET Digit(k) == IF k = 0 THEN bytes[i] % 64 ELSE bytes[i + k]
      Sum[k \in 0 .. width - 1] ==
        IF k = 0 THEN Digit(0) ELSE Sum[k - 1] * 256 + Digit(k)
  IN Sum[width - 1]

\* A mutant: a parser that trusts the first byte and reads past what has
\* arrived is as good as one that takes the missing bytes for zeros.
ParseHasty(bytes, i) ==
  IF i > Len(bytes) THEN Truncated
  ELSE LET width == VarintWidth(bytes[i])
           padded == bytes \o [k \in 1 .. width |-> 0]
           have == IF i + width - 1 > Len(bytes) THEN Len(bytes) - i + 1
                                                  ELSE width
       IN [ok |-> TRUE, value |-> ValueOf(padded, i, width), used |-> have]

ParseVarint(bytes, i) ==
  IF i > Len(bytes) \/ i + VarintWidth(bytes[i]) - 1 > Len(bytes)
    THEN Truncated
    ELSE [ok |-> TRUE, value |-> ValueOf(bytes, i, VarintWidth(bytes[i])),
          used |-> VarintWidth(bytes[i])]

\* encode_varint_into, for the widths in use: one, two and four bytes.
EncodeVarint(v) ==
  CASE v <= 63 -> <<v>>
    [] v > 63 /\ v <= 16383 -> BigEndian(v + 64 * 256, 2)
    [] OTHER -> <<v \div 256 ^ 3 + 128>> \o BigEndian(v % 256 ^ 3, 3)

-----------------------------------------------------------------------------
(* Messages on the stream.                                                 *)

\* Encoder::write (capsules), Encoder::write_packet (frames).
EncodeMessage(framing, m) ==
  IF framing = "capsules"
    THEN EncodeVarint(m.type) \o EncodeVarint(Len(m.value)) \o m.value
    ELSE BigEndian(Len(m.value), 2) \o m.value

Bytes == FlattenSeq([i \in DOMAIN script.messages |->
                      EncodeMessage(script.framing, script.messages[i])])
Buffer == SubSeq(Bytes, consumed + 1, received)

More == [kind |-> "more"]
TooLarge == [kind |-> "error"]
Message(type, buffer, header, length) ==
  [kind |-> "message", type |-> type, used |-> header + length,
   value |-> SubSeq(buffer, header + 1, header + length)]

\* take_capsule: nothing is consumed until the whole capsule is there.
TakeCapsule(buffer) ==
  LET type == ParseVarint(buffer, 1)
      length == ParseVarint(buffer, 1 + type.used)
      header == type.used + length.used
  IN CASE ~type.ok \/ ~length.ok -> More
       [] type.ok /\ length.ok /\ length.value > MaxCapsule -> TooLarge
       [] type.ok /\ length.ok /\ length.value <= MaxCapsule
            /\ Len(buffer) < header + length.value -> More
       [] OTHER -> Message(type.value, buffer, header, length.value)

\* The frames of consume_uploads and download_lane.
TakeFrame(buffer) ==
  LET size == buffer[1] * 256 + buffer[2]
  IN IF Len(buffer) < 2 THEN More
     ELSE IF Len(buffer) < size + 2 THEN More
     ELSE Message(DATAGRAM, buffer, 2, size)

Take(buffer) == IF script.framing = "capsules" THEN TakeCapsule(buffer)
                                               ELSE TakeFrame(buffer)

-----------------------------------------------------------------------------
(* Addresses and routes in capsules.                                       *)

AddressWidth(version) == CASE version = 4 -> 4 [] version = 6 -> 16
                           [] OTHER -> 0

\* The bytes behind the prefix are zero: the address is masked.
Masked(address, bits) ==
  \A i \in DOMAIN address :
    LET above == IF bits >= 8 * i THEN 8
                 ELSE IF bits <= 8 * (i - 1) THEN 0 ELSE bits - 8 * (i - 1)
    IN address[i] % 2 ^ (8 - above) = 0

\* decode_addresses: the entries from position i on, or that one is
\* malformed.
RECURSIVE DecodeAddresses(_, _)
DecodeAddresses(value, i) ==
  IF i > Len(value) THEN [ok |-> TRUE, addresses |-> <<>>]
  ELSE
    LET id == ParseVarint(value, i)
        at == i + id.used
        width == AddressWidth(value[at])
        address == SubSeq(value, at + 1, at + width)
        bits == value[at + width + 1]
        good == /\ id.ok /\ at <= Len(value) /\ width > 0
                /\ at + width + 1 <= Len(value)
                /\ bits <= 8 * width /\ Masked(address, bits)
        rest == DecodeAddresses(value, at + width + 2)
    IN IF ~good \/ ~rest.ok THEN [ok |-> FALSE, addresses |-> <<>>]
       ELSE [ok |-> TRUE, addresses |->
               <<[id |-> id.value, version |-> value[at],
                  address |-> address, bits |-> bits]>> \o rest.addresses]

EncodeAddresses(addresses) ==
  FlattenSeq([i \in DOMAIN addresses |->
    EncodeVarint(addresses[i].id) \o <<addresses[i].version>>
      \o addresses[i].address \o <<addresses[i].bits>>])

\* decode_address_request: at least one entry, no request ID zero.
RequestOk(decoded) ==
  /\ decoded.ok /\ decoded.addresses # <<>>
  /\ \A i \in DOMAIN decoded.addresses : decoded.addresses[i].id # 0

\* decode_route_advertisement and compare_routes: each route a range, in
\* order and apart from the one before it.
RECURSIVE RoutesOk(_, _, _)
RoutesOk(value, i, last) ==
  \/ i > Len(value)
  \/ LET width == AddressWidth(value[i])
         end == i + 2 * width + 1
         from == SubSeq(value, i + 1, i + width)
         to == SubSeq(value, i + width + 1, i + 2 * width)
         NotAfter(a, b) == \/ a = b
                           \/ \E k \in DOMAIN a : /\ a[k] < b[k]
                                /\ \A j \in 1 .. k - 1 : a[j] = b[j]
         route == [version |-> value[i], protocol |-> value[end], to |-> to]
         follows ==
           IF last.version # route.version THEN last.version < route.version
           ELSE IF last.protocol # route.protocol
             THEN last.protocol < route.protocol
           ELSE NotAfter(last.to, from) /\ last.to # from
     IN /\ width > 0 /\ end <= Len(value)
        /\ NotAfter(from, to)
        /\ last.version = 0 \/ follows
        /\ RoutesOk(value, end + 1, route)

NoRoute == [version |-> 0, protocol |-> 0, to |-> <<>>]

Zeros(n) == [i \in 1 .. n |-> 0]
LeaseAddress(id) == [id |-> id, version |-> 4, address |-> LeaseBytes,
                     bits |-> 32]
Declined(entry) == [id |-> entry.id, version |-> entry.version,
                    address |-> Zeros(AddressWidth(entry.version)),
                    bits |-> 8 * AddressWidth(entry.version)]
WantsV4(addresses) == {i \in DOMAIN addresses : addresses[i].version = 4}
FirstOf(S) == CHOOSE i \in S : \A j \in S : i <= j

\* A mutant: an answer forgets the address it assigned before.
AssignAnew(addresses, had) ==
  [i \in DOMAIN addresses |->
     IF WantsV4(addresses) # {} /\ i = FirstOf(WantsV4(addresses))
       THEN LeaseAddress(addresses[i].id) ELSE Declined(addresses[i])]

\* address_response: the first IPv4 entry gets the lease, every other is
\* declined; an assignment replaces the one before, so the lease is in it
\* again when it was not asked for.
Assign(addresses, had) ==
  [i \in DOMAIN addresses |->
     IF WantsV4(addresses) # {} /\ i = FirstOf(WantsV4(addresses))
       THEN LeaseAddress(addresses[i].id) ELSE Declined(addresses[i])]
  \o (IF had /\ WantsV4(addresses) = {} THEN <<LeaseAddress(0)>> ELSE <<>>)

-----------------------------------------------------------------------------
Init ==
  /\ script \in Scripts
  /\ received = 0
  /\ consumed = 0
  /\ handled = <<>>
  /\ pc = "select"
  /\ assigned = (script.framing = "frames")
  /\ answer = <<>>
  /\ out = 0
  /\ injected = 0
  /\ downlink = script.downlink
  /\ quiet = FALSE

\* The loop's read: whatever part of the rest the transport has.
ReadChunk(n) ==
  /\ pc = "select"
  /\ received + n <= Len(Bytes)
  /\ received' = received + n
  /\ pc' = "decoding"
  /\ UNCHANGED <<script, consumed, handled, assigned, answer, out, injected,
                 downlink, quiet>>

\* The peer ends the stream.
EndOfStream ==
  /\ pc = "select"
  /\ received = Len(Bytes)
  /\ pc' = "ended"
  /\ UNCHANGED <<script, received, consumed, handled, assigned, answer, out,
                 injected, downlink, quiet>>

\* inject_packet: only the lease's own packets that fit go on.
Accepted(packet) == packet # <<>> /\ Len(packet) <= script.mtu
                    /\ Head(packet) = Own

\* decode_ip_packet: the context must be zero, the packet not empty.
PacketOf(value) ==
  IF script.framing = "frames" THEN value
  ELSE LET context == ParseVarint(value, 1)
       IN IF ~context.ok \/ context.value # 0 THEN <<>>
          ELSE SubSeq(value, context.used + 1, Len(value))

Fails == /\ pc' = "failed"
         /\ UNCHANGED <<script, received, consumed, handled, assigned, answer,
                        out, injected, downlink, quiet>>

\* The buffer holds no whole message: read on, unless it is beyond limit.
NeedsMore ==
  /\ pc = "decoding"
  /\ Take(Buffer).kind = "more"
  /\ IF script.framing = "capsules" /\ Len(Buffer) > MaxCapsule + 16
       THEN Fails
       ELSE /\ pc' = "select"
            /\ UNCHANGED <<script, received, consumed, handled, assigned,
                           answer, out, injected, downlink, quiet>>

CapsuleTooLarge ==
  /\ pc = "decoding"
  /\ Take(Buffer).kind = "error"
  /\ Fails

Malformed(m) ==
  \/ m.type = ADDRESS_REQUEST /\ ~RequestOk(DecodeAddresses(m.value, 1))
  \/ m.type = ADDRESS_ASSIGN /\ ~DecodeAddresses(m.value, 1).ok
  \/ m.type = ROUTE_ADVERTISEMENT /\ ~RoutesOk(m.value, 1, NoRoute)

\* One message of the buffer, handled to its end: an address request is
\* answered, and the loop waits until the answer is written.
TakeMessage ==
  /\ pc = "decoding"
  /\ Take(Buffer).kind = "message"
  /\ LET m == Take(Buffer)
         wants == DecodeAddresses(m.value, 1).addresses
     IN IF script.framing = "capsules" /\ Malformed(m) THEN Fails
        ELSE
          /\ consumed' = consumed + m.used
          /\ handled' = Append(handled, [type |-> m.type, value |-> m.value])
          /\ IF script.framing = "capsules" /\ m.type = ADDRESS_REQUEST
               THEN /\ out < OutChunks
                    /\ out' = out + 1
                    /\ answer' = EncodeAddresses(Assign(wants, assigned))
                    /\ assigned' = (assigned \/ WantsV4(wants) # {})
               ELSE UNCHANGED <<out, answer, assigned>>
          /\ injected' = IF m.type = DATAGRAM /\ assigned
                              /\ Accepted(PacketOf(m.value))
                           THEN injected + 1 ELSE injected
          /\ UNCHANGED <<script, received, pc, downlink, quiet>>

\* send_masque_downlink and frame_downlink_batch: a packet that fits goes
\* out with those queued behind it, in one chunk; one that does not fit is
\* split, answered with an ICMP error no more often than the limit allows,
\* or dropped.
Downlink(batch) ==
  /\ pc = "select"
  /\ assigned
  /\ batch <= Len(downlink)
  /\ out < OutChunks
  /\ LET first == Head(downlink)
         alone == script.framing = "capsules" /\ first # "fits"
     IN /\ alone => batch = 1
        /\ downlink' = SubSeq(downlink, batch + 1, Len(downlink))
        /\ out' = IF alone /\ first # "splits" THEN out ELSE out + 1
        /\ quiet' = (quiet \/ (alone /\ first = "df"))
  /\ UNCHANGED <<script, received, consumed, handled, pc, assigned, answer,
                 injected>>

IcmpDue == /\ quiet
           /\ quiet' = FALSE
           /\ UNCHANGED <<script, received, consumed, handled, pc, assigned,
                          answer, out, injected, downlink>>

\* The peer reads what was written.
PeerReads ==
  /\ out > 0
  /\ out' = out - 1
  /\ UNCHANGED <<script, received, consumed, handled, pc, assigned, answer,
                 injected, downlink, quiet>>

Next ==
  \/ \E n \in 1 .. Len(Bytes) : ReadChunk(n)
  \/ EndOfStream \/ NeedsMore \/ CapsuleTooLarge \/ TakeMessage
  \/ \E batch \in 1 .. Len(downlink) : Downlink(batch)
  \/ IcmpDue \/ PeerReads

Spec == Init /\ [][Next]_vars

-----------------------------------------------------------------------------
(* Properties.                                                             *)

\* However the transport cuts the stream, the messages taken from it are
\* those the peer sent, in their order, and the decoder is at the end of one
\* of them (parse_varint, take_capsule, consume_uploads).
FramingIsExact ==
  /\ IsPrefix(handled, script.messages)
  /\ consumed = Len(FlattenSeq([i \in DOMAIN handled |->
                  EncodeMessage(script.framing, handled[i])]))

\* An address the tunnel was given stays in every later assignment, which
\* replaces the one before it: the peer never loses the address that the
\* gateway still routes to it, and each assignment can be decoded.
AssignmentsKeepLease ==
  answer # <<>> =>
    /\ DecodeAddresses(answer, 1).ok
    /\ assigned => \E i \in DOMAIN DecodeAddresses(answer, 1).addresses :
         DecodeAddresses(answer, 1).addresses[i].address = LeaseBytes
=============================================================================
