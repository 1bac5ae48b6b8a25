---------------------------- MODULE PacketSizing ----------------------------
(***************************************************************************)
(* How the two ends of an HTTP/3 tunnel fit IPv4 packets into QUIC         *)
(* datagrams while the capacity of the path changes under them:            *)
(* send_downlink() of the gateway (transport/http3.rs), PacketWriter of    *)
(* the client (tunnel/h3.rs) and what they share, the limit, the fragments *)
(* and the feedback of porta-wire/src/mtu.rs.                              *)
(*                                                                         *)
(* QUIC changes the capacity in its own task, so it may change between the *)
(* look at it and the send.  A packet is its lengths, its flow and its     *)
(* flags.  The clock ticks once per ICMP interval.                         *)
(***************************************************************************)
EXTENDS Naturals, Sequences, FiniteSets

CONSTANTS Traffics,     \* sets of packets the TUN device may hand over
          Capacities,   \* IP capacities of a QUIC datagram, in bytes
          Ceiling,      \* the negotiated MTU of the interface
          Retries,      \* sends that may fail: 4 at the gateway, 2 at the client
          MaxFlows,     \* MAX_FEEDBACK_FLOWS
          Grace, Idle,  \* 2 to 10 s, and FLOW_IDLE_TIMEOUT, in ticks
          MaxTime       \* bound: how far the clock goes

MinIpv4Mtu == 68
MinFeedbackRequests == 3
Unavailable == 0        \* max_datagram_size() of QUIC is None

VARIABLES side,       \* whose writer this is: "gateway", "client", or "oldPeer", the
                      \* client of a gateway that does not name its tunnel address
          traffic,    \* the packets it is given
          capacity,   \* what QUIC can carry now
          limit,      \* DatagramMtu
          enabled,    \* datagrams are in use
          stage,      \* where the loop is: "idle", "look", "act", "send",
                      \* "tooLarge", "capsule", "refuse", "failed"
          packet,     \* the packet being sent
          pending,    \* the parts of it that are left
          retries,    \* TooLarge answers for this packet
          out,        \* the parts of this packet that were sent
          flows,      \* FeedbackPolicy.flows
          asked,      \* every ICMP message sent: its flow, its MTU and its time
          now

feedback == <<flows, asked>>
vars == <<side, traffic, capacity, limit, enabled, stage, packet, pending, retries, out, feedback, now>>

Init ==
  /\ side \in {"gateway", "client", "oldPeer"}
  /\ capacity \in Capacities
  /\ limit = Ceiling
  /\ enabled = TRUE
  /\ traffic \in Traffics
  /\ stage = "idle" /\ packet = CHOOSE p \in traffic : TRUE
  /\ pending = <<>> /\ out = <<>> /\ retries = 0
  /\ flows = <<>> /\ asked = <<>> /\ now = 0
----------------------------------------------------------------------------
(* IPv4 *)
Size(p) == p.header + p.length

(* The header of a fragment: the options of the first are those of the       *)
(* packet, the others get the copied ones.                                   *)
HeaderAt(p, offset) == IF offset = 0 THEN p.header ELSE p.copied

(* Payload bytes of a fragment at this offset with this much left to send. *)
FragmentLength(p, offset, left, mtu) ==
  LET room == mtu - HeaderAt(p, offset)
  IN IF left > room THEN (room \div 8) * 8 ELSE left

(* fragment_ipv4: the fragments after `done` bytes of the payload. *)
FragmentsFrom(p, mtu) ==
  LET f[done \in 0..p.length] ==
        IF done = p.length THEN <<>>
        ELSE LET at == p.offset + done
                 n == FragmentLength(p, at, p.length - done, mtu)
             IN <<[p EXCEPT !.offset = at, !.length = n, !.header = HeaderAt(p, at),
                            !.more = p.more \/ done + n < p.length]>> \o f[done + n]
  IN f[0]

(* What fragment_ipv4 refuses: a fragment in the middle that is not whole. *)
Fragmentable(p) == p.more => p.length % 8 = 0

(* icmp_fragmentation_needed: what ICMP must not answer, a later fragment, a *)
(* packet from or to an address that is not one host's, an ICMP error.       *)
Quiet(p) == p.offset # 0 \/ ~p.unicast \/ p.icmpError
----------------------------------------------------------------------------
(* FeedbackPolicy::on_oversized *)

(* What a packet may measure: with datagrams the limit, without them the     *)
(* MTU of the interface.                                                     *)
Effective == IF enabled THEN limit ELSE Ceiling

Remove(s, i) == SubSeq(s, 1, i - 1) \o SubSeq(s, i + 1, Len(s))

NewFlow(f) == [flow |-> f, mtu |-> Effective, seen |-> now, first |-> MaxTime + 1, requests |-> 0]

(* Flows that have been idle are forgotten; a new one in a full table takes  *)
(* the place of the one that was seen longest ago, the earliest of those.    *)
Fresh == SelectSeq(flows, LAMBDA s : now - s.seen < Idle)

Oldest(s) ==
  CHOOSE i \in 1..Len(s) :
    \A j \in 1..Len(s) : s[i].seen < s[j].seen \/ (s[i].seen = s[j].seen /\ i <= j)

WithFlow(f) ==
  IF \E i \in 1..Len(Fresh) : Fresh[i].flow = f THEN Fresh
  ELSE Append(IF Len(Fresh) = MaxFlows THEN Remove(Fresh, Oldest(Fresh)) ELSE Fresh, NewFlow(f))

(* A mutant: a lower limit does not start the count anew. *)
KeepCount(s) == [s EXCEPT !.seen = now, !.mtu = Effective]

(* A lower limit starts a new attempt. *)
SeenNow(s) == IF Effective < s.mtu THEN NewFlow(s.flow) ELSE [s EXCEPT !.seen = now]

PastGrace(s, p) ==
  /\ Size(p) <= Ceiling
  /\ s.requests >= MinFeedbackRequests
  /\ s.first + Grace <= now

(* last_feedback: the global limit of one message per interval. *)
MayAsk == \A i \in 1..Len(asked) : asked[i].at < now

Asked(s) ==
  [s EXCEPT !.first = IF s.first > MaxTime THEN now ELSE @,
            !.requests = IF @ < MinFeedbackRequests THEN @ + 1 ELSE @]

Verdict(s, p) ==
  IF PastGrace(s, p) THEN "capsule" ELSE IF MayAsk THEN "icmp" ELSE "dropped"

OnOversized(p, verdict) ==
  LET known == WithFlow(p.flow)
      i == CHOOSE j \in 1..Len(known) : known[j].flow = p.flow
      s == SeenNow(known[i])
  IN /\ verdict = Verdict(s, p)
     /\ flows' = [known EXCEPT ![i] = IF verdict = "icmp" THEN Asked(s) ELSE s]
     /\ asked' = IF verdict = "icmp"
                 THEN Append(asked, [flow |-> p.flow, mtu |-> Effective, at |-> now]) ELSE asked
----------------------------------------------------------------------------
(* The writers *)
NextPacket ==
  /\ stage = "idle"
  /\ packet' \in traffic
  /\ side # "gateway" => Size(packet') <= Ceiling   \* Connection::send
  /\ pending' = <<packet'>> /\ out' = <<>> /\ retries' = 0
  /\ stage' = "look"
  /\ UNCHANGED <<side, traffic, capacity, limit, enabled, feedback, now>>

Lower(a, b) == IF a < b THEN a ELSE b

(* refresh_packet_mtu() and refresh(): the limit only falls.  A capacity     *)
(* that is not there ends the datagrams, one that is too small the tunnel.   *)
Refresh(then) ==
  IF enabled /\ capacity # Unavailable /\ capacity < MinIpv4Mtu
  THEN /\ stage' = "failed"
       /\ UNCHANGED <<limit, enabled>>
  ELSE /\ limit' = IF enabled /\ capacity # Unavailable THEN Lower(limit, capacity) ELSE limit
       /\ enabled' = (enabled /\ capacity # Unavailable)
       /\ stage' = then

Look ==
  /\ stage = "look"
  /\ Refresh("act")
  /\ UNCHANGED <<side, traffic, capacity, packet, pending, retries, out, feedback, now>>

After(parts) == IF parts = <<>> THEN "idle" ELSE "look"

(* A part has been sent, as a datagram or as a capsule. *)
Sent ==
  /\ out' = Append(out, Head(pending))
  /\ pending' = Tail(pending)
  /\ stage' = After(Tail(pending))

(* A mutant: the fragments go behind what was waiting. *)
SplitsBehind(p) == pending' = Tail(pending) \o FragmentsFrom(p, Effective)

(* Parts that are already sent are not sent again: only what is left is      *)
(* fragmented, in its place.                                                 *)
Splits(p) == pending' = FragmentsFrom(p, Effective) \o Tail(pending)

(* The part fits, or the client puts it into a capsule whatever its size. *)
Fits(p) == Size(p) <= Effective \/ (side # "gateway" /\ ~enabled)

Act ==
  /\ stage = "act"
  /\ LET p == Head(pending)
     IN \/ /\ Fits(p) /\ enabled
           /\ stage' = "send"
           /\ UNCHANGED <<pending, out>>
        \/ Fits(p) /\ ~enabled /\ Sent
        \/ /\ ~Fits(p) /\ p.df
           /\ stage' = "refuse"
           /\ UNCHANGED <<pending, out>>
        \/ /\ ~Fits(p) /\ ~p.df /\ Fragmentable(p)
           /\ Splits(p)
           /\ stage' = "look"
           /\ UNCHANGED out
        \/ /\ ~Fits(p) /\ ~p.df /\ ~Fragmentable(p)   \* an invalid packet
           /\ stage' = IF side = "gateway" THEN After(Tail(pending)) ELSE "failed"
           /\ pending' = Tail(pending)
           /\ UNCHANGED out
  /\ UNCHANGED <<side, traffic, capacity, limit, enabled, packet, retries, feedback, now>>

(* A DF packet that does not fit: an ICMP message, a capsule or nothing. *)
Refuse ==
  /\ stage = "refuse"
  /\ LET p == Head(pending)
     IN \/ /\ side = "oldPeer"
           /\ Sent /\ UNCHANGED feedback
        \/ /\ side # "oldPeer" /\ Quiet(p)
           /\ stage' = "idle" /\ pending' = <<>>
           /\ UNCHANGED <<out, feedback>>
        \/ /\ side # "oldPeer" /\ ~Quiet(p)
           /\ \E verdict \in {"capsule", "icmp", "dropped"} :
                /\ OnOversized(p, verdict)
                /\ IF verdict = "capsule" /\ enabled THEN Sent
                   ELSE stage' = "idle" /\ pending' = <<>> /\ UNCHANGED out
  /\ UNCHANGED <<side, traffic, capacity, limit, enabled, packet, retries, now>>

(* send_datagram() takes the part. *)
SendOk ==
  /\ stage = "send" /\ Size(Head(pending)) <= capacity
  /\ Sent
  /\ UNCHANGED <<side, traffic, capacity, limit, enabled, packet, retries, feedback, now>>

(* It is too large by now. *)
SendTooLarge ==
  /\ stage = "send" /\ capacity # Unavailable /\ Size(Head(pending)) > capacity
  /\ stage' = "tooLarge"
  /\ UNCHANGED <<side, traffic, capacity, limit, enabled, packet, pending, retries, out, feedback, now>>

(* A mutant: the sends that failed are not counted. *)
RetryForever ==
  /\ stage = "tooLarge"
  /\ Refresh("look")
  /\ UNCHANGED <<side, traffic, capacity, packet, pending, retries, out, feedback, now>>

(* The gateway gives up after its last retry, or when the limit does not     *)
(* fall though there still are datagrams.                                    *)
GatewayGivesUp == side = "gateway" /\ (retries = Retries \/ capacity >= limit)

(* The capacity is looked at again.  After its last retry the client answers *)
(* a DF packet that does not fit, and puts anything else into a capsule.     *)
Retry ==
  /\ stage = "tooLarge"
  /\ LET p == Head(pending)
     IN \/ /\ retries < Retries /\ ~GatewayGivesUp
           /\ Refresh("look")
           /\ retries' = retries + 1
        \/ /\ GatewayGivesUp
           /\ Refresh("failed")
           /\ UNCHANGED retries
        \/ /\ side # "gateway" /\ retries = Retries
           /\ Refresh(IF p.df /\ capacity # Unavailable /\ Size(p) > Lower(limit, capacity)
                      THEN "refuse" ELSE "capsule")
           /\ UNCHANGED retries
  /\ UNCHANGED <<side, traffic, capacity, packet, pending, out, feedback, now>>

(* The client's last resort, and the answer to NotAvailable. *)
SendCapsule ==
  /\ stage = "capsule"
  /\ Sent
  /\ UNCHANGED <<side, traffic, capacity, limit, enabled, packet, retries, feedback, now>>

SendNotAvailable ==
  /\ stage = "send" /\ capacity = Unavailable
  /\ enabled' = FALSE
  /\ stage' = IF side = "gateway" THEN "look" ELSE "capsule"
  /\ UNCHANGED <<side, traffic, capacity, limit, packet, pending, retries, out, feedback, now>>
----------------------------------------------------------------------------
(* QUIC's own task changes the capacity; nobody sees it before the next look. *)
PathChanges ==
  /\ stage \in {"look", "send", "tooLarge"}
  /\ capacity' \in Capacities \ {capacity}
  /\ UNCHANGED <<side, traffic, limit, enabled, stage, packet, pending, retries, out, feedback, now>>

Tick ==
  /\ stage = "idle" /\ now < MaxTime
  /\ \E p \in traffic : p.df /\ ~Quiet(p)   \* nothing else looks at the clock
  /\ now' = now + 1
  /\ UNCHANGED <<side, traffic, capacity, limit, enabled, stage, packet, pending, retries, out, feedback>>

Writer == Look \/ Act \/ Refuse \/ SendOk \/ SendTooLarge \/ Retry \/ SendCapsule \/ SendNotAvailable

Next == NextPacket \/ Writer \/ PathChanges \/ Tick

Spec == Init /\ [][Next]_vars

FairSpec == Spec /\ WF_vars(Writer)
----------------------------------------------------------------------------
(* Properties *)

(* What has been sent of a packet and what is left of it are its payload,    *)
(* each byte once and in order, cut where IPv4 allows it, with the MF flag   *)
(* on all parts but the last: however often the path changes on the way, the *)
(* receiver can put the packet together.                                     *)
PartsAreThePacket ==
  LET parts == out \o pending
  IN (stage # "idle" /\ stage # "failed") \/ (stage = "idle" /\ Len(out) > 0) =>
       /\ Len(parts) > 0
       /\ parts[1].offset = packet.offset
       /\ \A i \in 1..Len(parts) - 1 :
            /\ parts[i].more /\ parts[i].length % 8 = 0
            /\ parts[i + 1].offset = parts[i].offset + parts[i].length
       /\ LET last == parts[Len(parts)]
          IN last.offset + last.length = packet.offset + packet.length /\ last.more = packet.more

(* A capsule carries a DF packet past the limit only after the flow has been *)
(* told three times about this limit, the first time a grace period ago.     *)
CapsulesFollowFeedback ==
  side # "oldPeer" /\ enabled /\ stage = "idle" /\ Len(out) = 1 /\ packet.df /\ Size(packet) > limit =>
    LET told == {i \in 1..Len(asked) : asked[i].flow = packet.flow /\ asked[i].mtu <= limit}
    IN /\ Cardinality(told) >= MinFeedbackRequests
       /\ \E i \in told : asked[i].at + Grace <= now

(* However the capacity of the path flaps, the writer is done with a packet  *)
(* in the end: it retries a bounded number of times.                         *)
PacketsEnd == []<>(stage \in {"idle", "failed"})
============================================================================
