-------------------------- MODULE TransportProofs --------------------------
(***************************************************************************)
(* The two transports of a tunnel, for every value of their constants.     *)
(*                                                                         *)
(* HTTP/3: both ends of a CONNECT-IP tunnel agree, whatever the network    *)
(* loses, delays or reorders (TunnelIsAgreed).  The property speaks of the *)
(* two ends only.  What carries it from step to step is what is under way  *)
(* between them: the stream, the datagrams, the gateway's queues and the   *)
(* client's channel.  The invariant has one part for where the ends are,   *)
(* one for the search for an MTU, one for the choice of it, and one for    *)
(* the address.                                                            *)
(*                                                                         *)
(* HTTP/2: the lanes of a tunnel run on one lease and keep the order of    *)
(* each flow, while they are lost and dialed again (LanesAreSound).  The   *)
(* property counts the live lanes that carry a flow; the invariant says    *)
(* why there is at most one: whoever carries it has its pin.               *)
(***************************************************************************)
EXTENDS ConnectIp, H2Lanes, WellFoundedInduction, FiniteSetTheorems, TLAPS

(* What the streams, the datagrams and the client's channel carry. *)
Probes == [kind : {"probe"}, probe : [seq : Nat, size : Nat]]
PacketsOf == [kind : {"packet"}, n : Nat]
Selections == [kind : {"selected"}, mtu : Nat]
Addresses == [kind : {"address"}, ack : BOOLEAN]
Controls == Selections \cup Addresses
Ups == [kind : {"request"}, is : Requests] \cup [kind : {"select"}, mtu : Nat] \cup [kind : {"addressRequest"}] \cup PacketsOf
Downs == [kind : {"response"}, status : Nat, mtu : Nat, offer : BOOLEAN] \cup Controls \cup PacketsOf \cup [kind : {"end"}]
Inbounds == Controls \cup PacketsOf \cup Probes \cup [kind : {"failure"}, error : {"retryable"}]

(* The phases of the client between the response and its end.               *)
Establishing == {"probing", "proposing", "selecting", "asking", "addressing"}
Configured == {"asking", "addressing", "up"}

(* What the client keeps, and what the gateway keeps.                       *)
ClientState ==
  [phase : {"dialing", "requested", "up", "down"} \cup Establishing,
   outcome : {None, "unavailable", "permanent", "retryable", "cancelled", "connected"}, accepted : BOOLEAN,
   failure : {None, "retryable"}, inbound : Seq(Inbounds), sizes : SUBSET Nat, attempt : Nat,
   probe : [seq : Nat, size : Nat], waiting : BOOLEAN, best : Nat, mtu : Nat, packets : Nat]

(* How the gateway's loop ends, a protocol error left out: no tunnel of     *)
(* this client has one.                                                     *)
Errors == {None, "overloaded", "router", "downlinkClosed", "cancelled", "peerClosed", "timedOut", "writerTimeout"}
Reasons == {None, "refused", "cancelled", "downlink_closed", "peer_closed", "quic_timeout", "capsule_writer_overloaded",
            "capsule_writer_timeout", "router_error"}

ServerState ==
  [phase : {"idle", "running", "closing", "ended"}, discovery : BOOLEAN, selected : Nat, proven : SUBSET Nat, probes : Nat,
   committed : BOOLEAN, assigned : BOOLEAN, ack : {None, "waiting", "sent"}, ready : BOOLEAN,
   control : Seq(Controls), data : Seq(PacketsOf), writing : Seq(Controls \cup PacketsOf), datagrams : BOOLEAN,
   cancelled : BOOLEAN, error : Errors, reason : Reasons,
   said : Seq({"packet", "address", "selected"}), packets : Nat]

(* The types of the variables.                                              *)
ConnectIpTypeOK ==
  /\ config \in [mtu : Mtus, datagrams : BOOLEAN]
  /\ client \in ClientState
  /\ server \in ServerState
  /\ stream \in [up : Seq(Ups), down : Seq(Downs)]
  /\ datagrams \in [up : SUBSET (Probes \cup PacketsOf), down : SUBSET (Probes \cup PacketsOf)]
  /\ quic \in {"open", "lost", "closed"}

(* The sizes that may be selected, and the ones the gateway has echoed.     *)
(* Nobody asks once the tunnel has ended.                                   *)
Ceiling == LessThan(config.mtu, MaxDiscoveredMtu)
InRange(n) == n >= SafeMtu /\ n <= Ceiling
Proven(n) == n > SafeMtu => n \in server.proven \/ server.phase = "ended"

(* Where each end is, what that says of the other and of the stream. *)
EndsAgree ==
  /\ client.phase = "down" => quic # "open" /\ stream.down = <<>>
  /\ client.phase = "dialing" => server.phase = "idle" /\ stream.up = <<>> /\ client.failure = None
  /\ server.phase = "idle" =>
       /\ client.phase \in {"dialing", "requested", "down"} /\ ~client.accepted
       /\ stream.down = <<>> /\ Len(stream.up) <= 1 /\ datagrams.up = {} /\ datagrams.down = {}
       /\ server.selected = config.mtu /\ ~server.committed /\ ~server.assigned /\ ~server.discovery
       /\ server.control = <<>> /\ server.writing = <<>>
  /\ \A x \in ToSet(stream.up) : x.kind = "request" <=> server.phase = "idle"
  /\ client.phase \in {"dialing", "requested"} => ~client.accepted /\ client.outcome = None
  /\ client.phase = "requested" =>
       /\ server.phase \in {"running", "closing"} => stream.down # <<>>
       /\ server.phase # "idle" => stream.up = <<>>
       /\ datagrams.up = {}
       /\ ~server.committed
  /\ \A i \in 1..Len(stream.down) : stream.down[i].kind = "response" <=> (client.phase = "requested" /\ i = 1)
  /\ \A i \in 1..Len(stream.down) : stream.down[i].kind = "response" /\ stream.down[i].status = 200 =>
       stream.down[i].offer = server.discovery /\ stream.down[i].mtu = config.mtu
  /\ client.phase \in Establishing \cup {"up"} => client.accepted
  /\ client.accepted => client.outcome \notin {"permanent", "unavailable"}

(* The search for an MTU: what the client may propose, the gateway has      *)
(* echoed, unless it has ended.                                             *)
SearchAgrees ==
  /\ server.discovery => config.mtu > SafeMtu
  /\ client.phase \in {"dialing", "requested"} => client.best = SafeMtu /\ ~client.waiting
  /\ client.phase \in {"probing", "proposing"} => stream.up = <<>> /\ ~server.committed
  /\ client.phase \in {"probing", "proposing", "selecting"} =>
       /\ server.discovery /\ InRange(client.best) /\ Proven(client.best)
       /\ \A n \in client.sizes : InRange(n)
  /\ client.phase = "probing" => client.sizes # {}
  /\ client.phase = "probing" /\ client.waiting => client.probe.size = Smallest(client.sizes)
  /\ \A x \in datagrams.down \cup ToSet(client.inbound) : x.kind = "probe" => Proven(x.probe.size)

(* The choice of an MTU: a proposal on its way is one the gateway accepts,  *)
(* and its answer is what it has committed to.                              *)
ChoiceAgrees ==
  /\ ~server.discovery => ~server.committed /\ server.selected = config.mtu
  /\ \A x \in ToSet(stream.up) : x.kind = "select" =>
       /\ server.discovery /\ InRange(x.mtu) /\ Proven(x.mtu)
       /\ server.committed => x.mtu = server.selected
       /\ client.phase = "selecting" => x.mtu = client.best
  /\ \A x, y \in ToSet(stream.up) : x.kind = "select" /\ y.kind = "select" => x.mtu = y.mtu
  /\ client.phase = "selecting" /\ server.committed => server.selected = client.best
  /\ \A x \in ToSet(server.control) \cup ToSet(server.writing) \cup ToSet(stream.down) \cup ToSet(client.inbound) :
       x.kind = "selected" => server.committed /\ x.mtu = server.selected
  /\ client.phase \in Configured => client.mtu = server.selected /\ (server.discovery => server.committed)

(* The address before the packets. *)
AddressAgrees ==
  /\ \A x \in ToSet(stream.up) : x.kind = "addressRequest" => (server.discovery => server.committed)
  /\ \A x \in ToSet(server.control) \cup ToSet(server.writing) \cup ToSet(stream.down) \cup ToSet(client.inbound) :
       x.kind = "address" => server.assigned
  /\ client.phase = "up" => server.assigned
  /\ \A x \in ToSet(stream.up) \cup datagrams.up : x.kind = "packet" => server.assigned
  /\ server.ready \/ server.ack = "sent" => "address" \in ToSet(server.said)
  /\ server.data # <<>> => server.ready
  /\ \A x \in ToSet(server.writing) : x.kind = "packet" => server.ready

(* The inductive invariant.                                                 *)
ConnectIpInv == ConnectIpTypeOK /\ EndsAgree /\ SearchAgrees /\ ChoiceAgrees /\ AddressAgrees /\ TunnelIsAgreed

(* An empty sequence has no elements.                                       *)
LEMMA SeqEmpty == ToSet(<<>>) = {}
BY DEF ToSet

(* What Append adds is one element at the end.                              *)
LEMMA SeqAppend ==
  ASSUME NEW S, NEW s \in Seq(S), NEW e \in S
  PROVE /\ Append(s, e) \in Seq(S) /\ ToSet(Append(s, e)) = ToSet(s) \cup {e}
        /\ Len(Append(s, e)) = Len(s) + 1 /\ Append(s, e)[Len(s) + 1] = e /\ \A i \in 1..Len(s) : Append(s, e)[i] = s[i]
        /\ Append(s, e) # <<>>
<1> DEFINE a == Append(s, e)
<1>1. /\ a \in Seq(S) /\ Len(a) = Len(s) + 1 /\ a[Len(s) + 1] = e /\ \A i \in 1..Len(s) : a[i] = s[i]
      /\ a # <<>> /\ Len(s) \in Nat
  OBVIOUS
<1> HIDE DEF a
<1>2. DOMAIN a = 1..(Len(s) + 1) /\ DOMAIN s = 1..Len(s)  BY <1>1
<1>3. 1..(Len(s) + 1) = (1..Len(s)) \cup {Len(s) + 1}  BY <1>1
<1>4. ASSUME NEW x PROVE x \in ToSet(a) <=> x \in ToSet(s) \cup {e}
  BY <1>1, <1>2, <1>3 DEF ToSet
<1>5. ToSet(a) = ToSet(s) \cup {e}  BY <1>4
<1> QED BY <1>1, <1>5 DEF a

(* What Head and Tail take apart.                                           *)
LEMMA SeqTail ==
  ASSUME NEW S, NEW s \in Seq(S), s # <<>>
  PROVE /\ Head(s) \in S /\ Head(s) \in ToSet(s) /\ Head(s) = s[1] /\ Len(s) >= 1
        /\ Tail(s) \in Seq(S) /\ ToSet(Tail(s)) \subseteq ToSet(s)
        /\ Len(Tail(s)) = Len(s) - 1 /\ \A i \in 1..Len(Tail(s)) : Tail(s)[i] = s[i + 1]
BY DEF ToSet

(* A concatenation has the elements of both, in their places.               *)
LEMMA SeqConcat ==
  ASSUME NEW S, NEW s \in Seq(S), NEW t \in Seq(S)
  PROVE /\ s \o t \in Seq(S) /\ ToSet(s \o t) = ToSet(s) \cup ToSet(t)
        /\ Len(s \o t) = Len(s) + Len(t) /\ \A i \in 1..Len(s) : (s \o t)[i] = s[i]
        /\ \A i \in 1..Len(t) : (s \o t)[Len(s) + i] = t[i]
<1> DEFINE a == s \o t
<1>1. /\ a \in Seq(S) /\ Len(a) = Len(s) + Len(t) /\ \A i \in 1..Len(s) : a[i] = s[i]
      /\ Len(s) \in Nat /\ Len(t) \in Nat
  OBVIOUS
<1>6. \A i \in 1..Len(t) : a[Len(s) + i] = t[i]  BY <1>1
<1> HIDE DEF a
<1>2. DOMAIN a = 1..(Len(s) + Len(t)) /\ DOMAIN s = 1..Len(s) /\ DOMAIN t = 1..Len(t)  BY <1>1
<1>3. ASSUME NEW x \in ToSet(a) PROVE x \in ToSet(s) \cup ToSet(t)
  <2>1. PICK i \in 1..(Len(s) + Len(t)) : x = a[i]  BY <1>2 DEF ToSet
  <2>2. CASE i <= Len(s)
    <3>1. i \in 1..Len(s)  BY <2>2
    <3> QED BY <1>1, <1>2, <2>1, <3>1 DEF ToSet
  <2>3. CASE i > Len(s)
    <3>1. i - Len(s) \in 1..Len(t) /\ Len(s) + (i - Len(s)) = i  BY <1>1, <2>3
    <3>2. a[i] = t[i - Len(s)]  BY <1>6, <3>1
    <3> QED BY <1>2, <2>1, <3>1, <3>2 DEF ToSet
  <2> QED BY <1>1, <2>2, <2>3
<1>4. ASSUME NEW x \in ToSet(s) \cup ToSet(t) PROVE x \in ToSet(a)
  <2>1. CASE x \in ToSet(s)
    <3>1. PICK i \in 1..Len(s) : x = s[i]  BY <1>2, <2>1 DEF ToSet
    <3>2. i \in 1..(Len(s) + Len(t)) /\ x = a[i]  BY <1>1, <3>1
    <3> QED BY <1>2, <3>2 DEF ToSet
  <2>2. CASE x \in ToSet(t)
    <3>1. PICK i \in 1..Len(t) : x = t[i]  BY <1>2, <2>2 DEF ToSet
    <3>2. Len(s) + i \in 1..(Len(s) + Len(t)) /\ x = a[Len(s) + i]  BY <1>1, <1>6, <3>1
    <3> QED BY <1>2, <3>2 DEF ToSet
  <2> QED BY <2>1, <2>2
<1>5. ToSet(a) = ToSet(s) \cup ToSet(t)  BY <1>3, <1>4
<1> QED BY <1>1, <1>5, <1>6 DEF a

(* A sequence of one element.                                               *)
LEMMA SeqOne == ASSUME NEW S, NEW e \in S PROVE <<e>> \in Seq(S) /\ ToSet(<<e>>) = {e} /\ Len(<<e>>) = 1 /\ <<e>>[1] = e
<1>1. <<e>> \in Seq(S) /\ Len(<<e>>) = 1 /\ <<e>>[1] = e /\ DOMAIN <<e>> = {1}  OBVIOUS
<1> QED BY <1>1, Zenon DEF ToSet

(* The elements of a sequence are of its type.                              *)
LEMMA SeqMember == ASSUME NEW S, NEW s \in Seq(S) PROVE ToSet(s) \subseteq S /\ (s # <<>> => ToSet(s) # {})
BY DEF ToSet

(* The CHOOSE of Smallest has something to choose.                          *)
LEMMA SmallestIn ==
  ASSUME NEW sizes \in SUBSET Nat, sizes # {} PROVE Smallest(sizes) \in sizes /\ \A m \in sizes : Smallest(sizes) <= m
<1>1. IsWellFoundedOn(OpToRel(<, Nat), Nat)  BY NatLessThanWellFounded
<1>2. PICK n \in sizes : \A m \in sizes : ~(<<m, n>> \in OpToRel(<, Nat))  BY <1>1, WFMin
<1>3. ASSUME NEW m \in sizes PROVE n <= m
  <2>1. m \in Nat /\ n \in Nat  OBVIOUS
  <2>2. ~(m < n)  BY <1>2, <2>1, Zenon DEF OpToRel
  <2> QED BY <2>1, <2>2
<1> QED BY <1>3 DEF Smallest

(* Before the client dials nothing is under way.                            *)
LEMMA Initially == Init => ConnectIpInv
<1> SUFFICES ASSUME Init PROVE ConnectIpInv  OBVIOUS
<1> USE DEF Init
<1>1. config.mtu \in Nat /\ config.datagrams \in BOOLEAN  BY ConnectIpAssumption DEF ConnectIpAssumption
<1>2. client \in ClientState  BY DEF NewClient, ClientState, Establishing, SafeMtu
<1>3. server \in ServerState  BY <1>1 DEF ServerState, Errors, Reasons
<1>4. ConnectIpTypeOK  BY <1>2, <1>3 DEF ConnectIpTypeOK
<1>5. EndsAgree  BY SeqEmpty DEF EndsAgree, NewClient, Establishing
<1>6. SearchAgrees  BY SeqEmpty DEF SearchAgrees, NewClient
<1>10. ChoiceAgrees  BY SeqEmpty DEF ChoiceAgrees, NewClient, Configured
<1>7. AddressAgrees  BY SeqEmpty DEF AddressAgrees, NewClient, None
<1>8. TunnelIsAgreed  BY DEF TunnelIsAgreed, NegotiationAgrees, AddressComesFirst, NoFallbackOnceAccepted, NewClient, Occurs, None
<1> QED BY <1>4, <1>5, <1>6, <1>7, <1>8, <1>10 DEF ConnectIpInv

(* What connect() returns.                                                  *)
Outcomes == {None, "unavailable", "permanent", "retryable", "cancelled", "connected"}

(* The client drops its end: nothing more comes down, and nothing it may    *)
(* have proposed is taken back.                                             *)
LEMMA GiveUpStep ==
  ASSUME ConnectIpInv, client.phase # "down", NEW error \in Outcomes, client.accepted => error \notin {"permanent", "unavailable"},
         client' = Dropped(client, error), NobodyReads("down"), quic' = IF quic = "open" THEN "closed" ELSE quic,
         UNCHANGED <<config, server>>
  PROVE ConnectIpInv'
<1> USE DEF ConnectIpInv
<1>1. client' = [phase |-> "down", outcome |-> error, accepted |-> client.accepted,
                 failure |-> client.failure, inbound |-> <<>>, sizes |-> {}, attempt |-> 1,
                 probe |-> [seq |-> 0, size |-> 0], waiting |-> FALSE, best |-> SafeMtu, mtu |-> 0, packets |-> 0]
  BY DEF Dropped, NewClient
<1>2. client' \in ClientState  BY <1>1 DEF ConnectIpTypeOK, ClientState, Outcomes, SafeMtu
<1>3. stream' = [up |-> stream.up, down |-> <<>>] /\ datagrams' = [up |-> datagrams.up, down |-> {}]
  BY DEF NobodyReads, ConnectIpTypeOK
<1>4. quic' \in {"lost", "closed"}  BY DEF ConnectIpTypeOK
<1>5. ConnectIpTypeOK'  BY <1>2, <1>3, <1>4 DEF ConnectIpTypeOK
<1> HIDE DEF Dropped, NobodyReads
<1>6. EndsAgree'  BY <1>1, <1>3, <1>4 DEF EndsAgree, Establishing
<1>7. SearchAgrees'  BY <1>1, <1>3, SeqEmpty DEF SearchAgrees
<1>10. ChoiceAgrees'  BY <1>1, <1>3, SeqEmpty DEF ChoiceAgrees, Configured, Proven, InRange, Ceiling
<1>8. AddressAgrees'  BY <1>1, <1>3, SeqEmpty DEF AddressAgrees
<1>9. TunnelIsAgreed'
  BY <1>1 DEF TunnelIsAgreed, NegotiationAgrees, AddressComesFirst, NoFallbackOnceAccepted, Occurs
<1> QED BY <1>5, <1>6, <1>7, <1>8, <1>9, <1>10

(* The ways an establishment ends early; none looks like a missing          *)
(* transport once it was accepted.                                          *)
LEMMA FailingSteps ==
  ASSUME ConnectIpInv, DialFails \/ ResponseFails \/ RequestCancelled \/ EstablishmentFails \/ Cancel
  PROVE ConnectIpInv'
<1>1. client.failure \in {None, "retryable"} /\ (client.phase \in {"dialing", "requested"} => ~client.accepted)
  BY DEF ConnectIpInv, ConnectIpTypeOK, ClientState, EndsAgree
<1>2. PICK error \in Outcomes : /\ GiveUp(error) /\ client.phase # "down"
                                /\ client.accepted => error \notin {"permanent", "unavailable"}
  BY <1>1 DEF DialFails, ResponseFails, RequestCancelled, EstablishmentFails, Cancel, Outcomes, None
<1> QED BY <1>2, GiveUpStep DEF GiveUp

(* The request is the first thing on the stream.                            *)
LEMMA SendRequestStep == ASSUME ConnectIpInv, SendRequest PROVE ConnectIpInv'
<1> USE DEF ConnectIpInv, SendRequest
<1>1. PICK r \in Requests : stream' = [stream EXCEPT !.up = Append(@, [kind |-> "request", is |-> r])]  OBVIOUS
<1>2. stream \in [up : Seq(Ups), down : Seq(Downs)] /\ stream.up = <<>> /\ stream.down = <<>> /\ server.phase = "idle"
  BY DEF ConnectIpTypeOK, EndsAgree
<1> DEFINE e == [kind |-> "request", is |-> r]
<1>3. e \in Ups /\ e.kind = "request"  BY DEF Ups
<1> HIDE DEF e
<1>10. stream' = [up |-> <<e>>, down |-> <<>>]  BY <1>1, <1>2 DEF e
<1>12. <<e>> \in Seq(Ups) /\ ToSet(<<e>>) = {e} /\ Len(<<e>>) = 1  BY <1>3, SeqOne
<1>4. stream' \in [up : Seq(Ups), down : Seq(Downs)] /\ ToSet(stream'.up) = {e} /\ Len(stream'.up) = 1 /\ stream'.down = <<>>
  <2>1. stream'.up = <<e>> /\ stream'.down = <<>>  BY <1>10
  <2>2. <<>> \in Seq(Downs)  OBVIOUS
  <2> QED BY <1>10, <1>12, <2>1, <2>2
<1>13. client \in ClientState /\ client' = [client EXCEPT !.phase = "requested"]  BY DEF ConnectIpTypeOK
<1>14. client' \in ClientState  BY <1>13 DEF ClientState
<1>15. /\ client'.phase = "requested" /\ client'.accepted = client.accepted /\ client'.outcome = client.outcome
       /\ client'.best = client.best /\ client'.waiting = client.waiting /\ client'.inbound = client.inbound
  BY <1>13 DEF ClientState
<1>5. ConnectIpTypeOK'  BY <1>4, <1>14 DEF ConnectIpTypeOK
<1>6. EndsAgree'  BY <1>2, <1>3, <1>4, <1>15 DEF EndsAgree, Establishing
<1>7. SearchAgrees'  BY <1>2, <1>3, <1>4, <1>15, SeqEmpty DEF SearchAgrees, EndsAgree, Proven
<1>16. ChoiceAgrees'  BY <1>2, <1>3, <1>4, <1>15, SeqEmpty DEF ChoiceAgrees, EndsAgree, Configured
<1>8. AddressAgrees'  BY <1>2, <1>3, <1>4, <1>15, SeqEmpty DEF AddressAgrees, EndsAgree
<1>9. TunnelIsAgreed'  BY <1>15 DEF TunnelIsAgreed, NegotiationAgrees, AddressComesFirst, NoFallbackOnceAccepted, Occurs
<1> QED BY <1>5, <1>6, <1>7, <1>8, <1>9, <1>16

(* The response says what the gateway is: it offers a search exactly when   *)
(* the gateway expects one.                                                 *)
LEMMA ReceiveResponseStep == ASSUME ConnectIpInv, ReceiveResponse PROVE ConnectIpInv'
<1> DEFINE r == Head(stream.down)
<1>1. stream \in [up : Seq(Ups), down : Seq(Downs)] /\ client \in ClientState  BY DEF ConnectIpInv, ConnectIpTypeOK
<1>2. /\ r \in Downs /\ r \in ToSet(stream.down) /\ r = stream.down[1] /\ Len(stream.down) >= 1
      /\ Tail(stream.down) \in Seq(Downs) /\ ToSet(Tail(stream.down)) \subseteq ToSet(stream.down)
      /\ Len(Tail(stream.down)) = Len(stream.down) - 1
      /\ \A i \in 1..Len(Tail(stream.down)) : Tail(stream.down)[i] = stream.down[i + 1]
  BY <1>1, SeqTail DEF ReceiveResponse
<1>20. Len(stream.down) \in Nat  BY <1>1
<1>21. 1 \in 1..Len(stream.down)  BY <1>2, <1>20
<1>3. r.kind = "response"  BY <1>2, <1>21 DEF ConnectIpInv, EndsAgree, ReceiveResponse
<1>4. r.status \in Nat /\ r.mtu \in Nat /\ r.offer \in BOOLEAN  BY <1>2, <1>3 DEF Downs, Controls, Selections, Addresses, PacketsOf
<1>5. CASE r.status # 200
  <2>1. GiveUp(StatusClass(r.status))  BY <1>5 DEF ReceiveResponse
  <2>2. StatusClass(r.status) \in Outcomes  BY DEF StatusClass, Outcomes
  <2>3. ~client.accepted /\ client.phase # "down"  BY DEF ConnectIpInv, EndsAgree, ReceiveResponse
  <2> QED BY <2>1, <2>2, <2>3, GiveUpStep DEF GiveUp
<1>6. CASE r.status = 200
  <2> USE DEF ConnectIpInv
  <2>1. r.offer = server.discovery /\ r.mtu = config.mtu  BY <1>2, <1>3, <1>6, <1>21 DEF EndsAgree
  <2> DEFINE sizes == IF r.offer THEN ProbeSizes(LessThan(r.mtu, MaxDiscoveredMtu)) ELSE {}
             phase == IF r.offer THEN "probing" ELSE "asking"
  <2>2. client' = [client EXCEPT !.accepted = TRUE, !.mtu = r.mtu, !.phase = phase, !.sizes = sizes]
    BY <1>1, <1>6 DEF ReceiveResponse, ClientState
  <2>3. stream' = [stream EXCEPT !.down = Tail(@)] /\ UNCHANGED <<config, server, datagrams, quic>>
    BY <1>6 DEF ReceiveResponse
  <2>4. config.mtu \in Nat  BY ConnectIpAssumption DEF ConnectIpTypeOK, ConnectIpAssumption
  <2>5. sizes \in SUBSET Nat /\ (r.offer => sizes # {} /\ \A n \in sizes : InRange(n)) /\ (r.offer => InRange(SafeMtu))
    BY <1>4, <2>1, <2>4 DEF SearchAgrees, ProbeSizes, SafeMtu, MaxDiscoveredMtu, InRange, Ceiling, LessThan
  <2>6. phase \in {"probing", "asking"} /\ (phase = "probing" <=> r.offer)  BY <1>4
  <2>7. /\ client'.phase = phase /\ client'.accepted /\ client'.mtu = r.mtu /\ client'.sizes = sizes
        /\ client'.best = client.best /\ client'.inbound = client.inbound /\ client'.waiting = client.waiting
        /\ client'.outcome = client.outcome /\ client'.failure = client.failure
    BY <1>1, <2>2 DEF ClientState
  <2> HIDE DEF sizes, phase, r
  <2>8. client' \in ClientState  BY <1>1, <1>4, <2>2, <2>5, <2>6 DEF ClientState, Establishing
  <2>9. ConnectIpTypeOK'  BY <1>1, <1>2, <2>3, <2>8 DEF ConnectIpTypeOK
  <2>10. stream'.up = stream.up /\ stream'.down = Tail(stream.down)  BY <1>1, <2>3
  <2>11. server.phase # "idle" /\ client.phase = "requested" /\ stream.up = <<>>
    BY <1>20, <1>21 DEF EndsAgree, ReceiveResponse
  <2>12. \A i \in 1..Len(stream'.down) : stream'.down[i].kind # "response"
    <3>1. ASSUME NEW i \in 1..(Len(stream.down) - 1) PROVE stream.down[i + 1].kind # "response"
      <4>1. i + 1 \in 1..Len(stream.down) /\ i + 1 # 1  BY <1>20
      <4> QED BY <4>1 DEF EndsAgree
    <3> QED BY <1>2, <2>10, <3>1
  <2>13. EndsAgree'  BY <2>3, <2>6, <2>7, <2>10, <2>11, <2>12 DEF EndsAgree, Establishing, None
  <2>14. SearchAgrees'
    <3>1. Proven(SafeMtu)'  BY DEF Proven, SafeMtu
    <3>2. client'.best = SafeMtu /\ ~client'.waiting  BY <2>7, <2>11 DEF SearchAgrees
    <3>3. \A n : InRange(n)' <=> InRange(n)  BY <2>3 DEF InRange, Ceiling
    <3>4. \A n : Proven(n)' <=> Proven(n)  BY <2>3 DEF Proven
    <3> QED BY <2>1, <2>3, <2>5, <2>6, <2>7, <2>10, <2>11, <3>1, <3>2, <3>3, <3>4 DEF SearchAgrees, EndsAgree
  <2>17. ChoiceAgrees'
    BY <1>2, <2>1, <2>3, <2>6, <2>7, <2>10, <2>11, SeqEmpty DEF ChoiceAgrees, EndsAgree, Configured
  <2>15. AddressAgrees'  BY <1>2, <2>3, <2>6, <2>7, <2>10 DEF AddressAgrees
  <2>16. TunnelIsAgreed'
    BY <2>3, <2>6, <2>7, <2>11
       DEF TunnelIsAgreed, NegotiationAgrees, AddressComesFirst, NoFallbackOnceAccepted, Occurs, EndsAgree, None
  <2> QED BY <2>9, <2>13, <2>14, <2>15, <2>16, <2>17
<1> QED BY <1>5, <1>6

(* The search goes on or stops with the best size so far.                   *)
LEMMA SearchSteps == ASSUME ConnectIpInv, StopProbing \/ ProbeTimesOut PROVE ConnectIpInv'
<1> USE DEF ConnectIpInv
<1>1. client.phase = "probing" /\ client \in ClientState /\ UNCHANGED <<config, server, stream, datagrams, quic>>
  BY DEF StopProbing, ProbeTimesOut, ConnectIpTypeOK
<1>2. PICK phase \in {"probing", "proposing"}, attempt \in Nat :
        client' = [client EXCEPT !.phase = phase, !.attempt = attempt, !.waiting = FALSE]
  <2>0. client.attempt \in Nat  BY <1>1 DEF ClientState
  <2>1. CASE client' = SelectBest(client)
    <3>1. client' = [client EXCEPT !.phase = "proposing", !.attempt = client.attempt, !.waiting = FALSE]
      BY <1>1, <2>1 DEF SelectBest, ClientState
    <3> QED BY <2>0, <3>1
  <2>2. CASE client' = [client EXCEPT !.attempt = 2, !.waiting = FALSE]
    <3>1. client' = [client EXCEPT !.phase = "probing", !.attempt = 2, !.waiting = FALSE]
      BY <1>1, <2>2 DEF ClientState
    <3> QED BY <3>1
  <2> QED BY <2>1, <2>2 DEF StopProbing, ProbeTimesOut
<1>3. client' \in ClientState  BY <1>1, <1>2 DEF ClientState, Establishing
<1>4. /\ client'.phase \in {"probing", "proposing"} /\ ~client'.waiting /\ client'.accepted = client.accepted
      /\ client'.outcome = client.outcome /\ client'.best = client.best /\ client'.inbound = client.inbound
      /\ client'.sizes = client.sizes
  BY <1>1, <1>2 DEF ClientState
<1>5. ConnectIpTypeOK'  BY <1>1, <1>3 DEF ConnectIpTypeOK
<1>6. EndsAgree'  BY <1>1, <1>4 DEF EndsAgree, Establishing
<1>7. (\A n : InRange(n)' <=> InRange(n)) /\ (\A n : Proven(n)' <=> Proven(n))  BY <1>1 DEF InRange, Ceiling, Proven
<1>8. SearchAgrees'  BY <1>1, <1>4, <1>7 DEF SearchAgrees
<1>9. ChoiceAgrees'  BY <1>1, <1>4, <1>7 DEF ChoiceAgrees, Configured
<1>10. AddressAgrees'  BY <1>1, <1>4 DEF AddressAgrees
<1>11. TunnelIsAgreed'  BY <1>1, <1>4 DEF TunnelIsAgreed, NegotiationAgrees, AddressComesFirst, NoFallbackOnceAccepted, Occurs
<1> QED BY <1>5, <1>6, <1>8, <1>9, <1>10, <1>11

(* A probe on its way proves nothing yet.                                   *)
LEMMA SendProbeStep == ASSUME ConnectIpInv, SendProbe PROVE ConnectIpInv'
<1> USE DEF ConnectIpInv
<1> DEFINE p == [seq |-> client.probe.seq + 1, size |-> Smallest(client.sizes)]
           value == [kind |-> "probe", probe |-> p]
<1>1. /\ client.phase = "probing" /\ client \in ClientState /\ UNCHANGED <<config, server, stream, quic>>
      /\ client' = [client EXCEPT !.probe = p, !.waiting = TRUE]
      /\ datagrams' = [datagrams EXCEPT !.up = @ \union {value}]
      /\ datagrams \in [up : SUBSET (Probes \cup PacketsOf), down : SUBSET (Probes \cup PacketsOf)]
  BY DEF SendProbe, ConnectIpTypeOK
<1>2. Smallest(client.sizes) \in Nat  BY <1>1, SmallestIn DEF SearchAgrees, ClientState
<1>3. client.probe.seq + 1 \in Nat  BY <1>1 DEF ClientState
<1>4. p \in [seq : Nat, size : Nat] /\ p.size = Smallest(client.sizes)  BY <1>2, <1>3
<1> HIDE DEF p
<1>5. value \in Probes /\ value.kind = "probe"  BY <1>4 DEF Probes
<1> HIDE DEF value
<1>6. client' \in ClientState  BY <1>1, <1>4 DEF ClientState
<1>7. /\ client'.phase = client.phase /\ client'.probe = p /\ client'.accepted = client.accepted
      /\ client'.outcome = client.outcome /\ client'.best = client.best /\ client'.inbound = client.inbound
      /\ client'.sizes = client.sizes /\ client'.mtu = client.mtu
  BY <1>1 DEF ClientState
<1>8. datagrams'.up = datagrams.up \cup {value} /\ datagrams'.down = datagrams.down  BY <1>1
<1>9. ConnectIpTypeOK'  BY <1>1, <1>5, <1>6 DEF ConnectIpTypeOK
<1>10. EndsAgree'  BY <1>1, <1>7, <1>8 DEF EndsAgree, Establishing
<1>11. (\A n : InRange(n)' <=> InRange(n)) /\ (\A n : Proven(n)' <=> Proven(n))  BY <1>1 DEF InRange, Ceiling, Proven
<1>12. SearchAgrees'  BY <1>1, <1>4, <1>7, <1>8, <1>11 DEF SearchAgrees
<1>13. ChoiceAgrees'  BY <1>1, <1>7, <1>11 DEF ChoiceAgrees, Configured
<1>14. AddressAgrees'  BY <1>1, <1>5, <1>7, <1>8 DEF AddressAgrees
<1>15. TunnelIsAgreed'  BY <1>1, <1>7 DEF TunnelIsAgreed, NegotiationAgrees, AddressComesFirst, NoFallbackOnceAccepted, Occurs
<1> QED BY <1>9, <1>10, <1>12, <1>13, <1>14, <1>15

(* What is proposed has been echoed, so that the gateway can commit to it.  *)
LEMMA ProposeStep == ASSUME ConnectIpInv, Propose PROVE ConnectIpInv'
<1> DEFINE x == [kind |-> "select", mtu |-> client.best]
<1>1. CASE GiveUp(SetFailure(client, "retryable").failure)
  <2>1. client \in ClientState  BY DEF ConnectIpInv, ConnectIpTypeOK
  <2>2. SetFailure(client, "retryable").failure = "retryable"  BY <2>1 DEF SetFailure, ClientState
  <2> QED BY <1>1, <2>2, GiveUpStep DEF GiveUp, Outcomes, Propose
<1>2. CASE /\ stream' = [up |-> Append(stream.up, x), down |-> stream.down]
           /\ client' = [client EXCEPT !.phase = "selecting"]
           /\ UNCHANGED <<config, server, datagrams, quic>> /\ quic = "open"
  <2> USE DEF ConnectIpInv
  <2>1. client.phase = "proposing" /\ client \in ClientState /\ stream \in [up : Seq(Ups), down : Seq(Downs)] /\ stream.up = <<>>
    BY DEF Propose, ConnectIpTypeOK, SearchAgrees
  <2>2. client.best \in Nat  BY <2>1 DEF ClientState
  <2>3. x \in Ups /\ x.kind = "select" /\ x.mtu = client.best  BY <2>2 DEF Ups
  <2> HIDE DEF x
  <2>4. Append(stream.up, x) = <<x>>  BY <2>1
  <2>5. <<x>> \in Seq(Ups) /\ ToSet(<<x>>) = {x}  BY <2>3, SeqOne
  <2>6. /\ stream' \in [up : Seq(Ups), down : Seq(Downs)] /\ ToSet(stream'.up) = {x} /\ stream'.down = stream.down
    BY <1>2, <2>1, <2>4, <2>5
  <2>7. client' \in ClientState  BY <1>2, <2>1 DEF ClientState, Establishing
  <2>8. /\ client'.phase = "selecting" /\ client'.accepted = client.accepted /\ client'.sizes = client.sizes
        /\ client'.outcome = client.outcome /\ client'.best = client.best /\ client'.inbound = client.inbound
    BY <1>2, <2>1 DEF ClientState
  <2>9. ConnectIpTypeOK'  BY <1>2, <2>6, <2>7 DEF ConnectIpTypeOK
  <2>10. EndsAgree'  BY <1>2, <2>1, <2>3, <2>6, <2>8 DEF EndsAgree, Establishing
  <2>11. (\A n : InRange(n)' <=> InRange(n)) /\ (\A n : Proven(n)' <=> Proven(n))  BY <1>2 DEF InRange, Ceiling, Proven
  <2>12. SearchAgrees'  BY <1>2, <2>1, <2>8, <2>11 DEF SearchAgrees
  <2>13. ChoiceAgrees'  BY <1>2, <2>1, <2>3, <2>6, <2>8, <2>11 DEF ChoiceAgrees, SearchAgrees, Configured
  <2>14. AddressAgrees'  BY <1>2, <2>3, <2>6, <2>8 DEF AddressAgrees
  <2>15. TunnelIsAgreed'  BY <1>2, <2>1, <2>8 DEF TunnelIsAgreed, NegotiationAgrees, AddressComesFirst, NoFallbackOnceAccepted, Occurs
  <2> QED BY <2>9, <2>10, <2>12, <2>13, <2>14, <2>15
<1> QED BY <1>1, <1>2 DEF Propose, SendCapsule

(* The address is asked for after the choice of the MTU, on the same        *)
(* stream.                                                                  *)
LEMMA AskForAddressStep == ASSUME ConnectIpInv, AskForAddress PROVE ConnectIpInv'
<1>1. CASE GiveUp(SetFailure(client, "retryable").failure)
  <2>1. client \in ClientState  BY DEF ConnectIpInv, ConnectIpTypeOK
  <2>2. SetFailure(client, "retryable").failure = "retryable"  BY <2>1 DEF SetFailure, ClientState
  <2> QED BY <1>1, <2>2, GiveUpStep DEF GiveUp, Outcomes, AskForAddress
<1>2. CASE /\ stream' = [up |-> Append(stream.up, AddressRequest), down |-> stream.down]
           /\ client' = [client EXCEPT !.phase = "addressing"]
           /\ UNCHANGED <<config, server, datagrams, quic>> /\ quic = "open"
  <2> USE DEF ConnectIpInv
  <2> DEFINE x == AddressRequest
  <2>1. client.phase = "asking" /\ client \in ClientState /\ stream \in [up : Seq(Ups), down : Seq(Downs)]
    BY DEF AskForAddress, ConnectIpTypeOK
  <2>3. x \in Ups /\ x.kind = "addressRequest"  BY DEF Ups, AddressRequest
  <2> HIDE DEF x
  <2>5. Append(stream.up, x) \in Seq(Ups) /\ ToSet(Append(stream.up, x)) = ToSet(stream.up) \cup {x}
    <3>1. stream.up \in Seq(Ups)  BY <2>1
    <3> QED BY <2>3, <3>1, SeqAppend
  <2>6. /\ stream' \in [up : Seq(Ups), down : Seq(Downs)] /\ ToSet(stream'.up) = ToSet(stream.up) \cup {x}
        /\ stream'.down = stream.down
    BY <1>2, <2>1, <2>5 DEF x
  <2>7. client' \in ClientState  BY <1>2, <2>1 DEF ClientState, Establishing
  <2>8. /\ client'.phase = "addressing" /\ client'.accepted = client.accepted /\ client'.mtu = client.mtu
        /\ client'.outcome = client.outcome /\ client'.best = client.best /\ client'.inbound = client.inbound
    BY <1>2, <2>1 DEF ClientState
  <2>9. ConnectIpTypeOK'  BY <1>2, <2>6, <2>7 DEF ConnectIpTypeOK
  <2>10. EndsAgree'  BY <1>2, <2>1, <2>3, <2>6, <2>8 DEF EndsAgree, Establishing
  <2>11. (\A n : InRange(n)' <=> InRange(n)) /\ (\A n : Proven(n)' <=> Proven(n))  BY <1>2 DEF InRange, Ceiling, Proven
  <2>12. SearchAgrees'  BY <1>2, <2>1, <2>8, <2>11 DEF SearchAgrees
  <2>13. ChoiceAgrees'  BY <1>2, <2>1, <2>3, <2>6, <2>8, <2>11 DEF ChoiceAgrees, Configured
  <2>14. AddressAgrees'  BY <1>2, <2>1, <2>3, <2>6, <2>8 DEF AddressAgrees, ChoiceAgrees, Configured
  <2>15. TunnelIsAgreed'  BY <1>2, <2>1, <2>8 DEF TunnelIsAgreed, NegotiationAgrees, AddressComesFirst, NoFallbackOnceAccepted, Occurs
  <2> QED BY <2>9, <2>10, <2>12, <2>13, <2>14, <2>15
<1> QED BY <1>1, <1>2 DEF AskForAddress, SendCapsule

(* What the establishment waits for and takes is an answer to what it       *)
(* sent.                                                                    *)
LEMMA TakeInboundStep == ASSUME ConnectIpInv, TakeInbound PROVE ConnectIpInv'
<1> USE DEF ConnectIpInv
<1> DEFINE value == Head(client.inbound)
           tail == Tail(client.inbound)
           rest == [client EXCEPT !.inbound = tail]
<1>1. client \in ClientState /\ client.inbound \in Seq(Inbounds) /\ client.inbound # <<>> /\ client.sizes \in SUBSET Nat
  BY DEF TakeInbound, ConnectIpTypeOK, ClientState
<1>2. value \in Inbounds /\ value \in ToSet(client.inbound) /\ tail \in Seq(Inbounds) /\ ToSet(tail) \subseteq ToSet(client.inbound)
  BY <1>1, SeqTail
<1>3. client.phase = "selecting" /\ value.kind = "selected" => value.mtu = client.best
  BY <1>2 DEF ChoiceAgrees
<1>4. /\ UNCHANGED <<config, server, stream, datagrams, quic>>
      /\ client' = CASE client.phase = "probing" /\ value.kind = "probe" /\ IsEcho(value.probe) -> NextSize(rest)
                     [] client.phase = "selecting" /\ value.kind = "selected" ->
                          [rest EXCEPT !.mtu = client.best, !.phase = "asking"]
                     [] client.phase = "addressing" /\ value.kind = "address" ->
                          [rest EXCEPT !.phase = "up", !.outcome = "connected"]
                     [] OTHER -> rest
  BY <1>3 DEF TakeInbound
<1> HIDE DEF value, tail, rest
<1>5. (\A n : InRange(n)' <=> InRange(n)) /\ (\A n : Proven(n)' <=> Proven(n))  BY <1>4 DEF InRange, Ceiling, Proven
<1>6. CASE client.phase = "probing" /\ value.kind = "probe" /\ IsEcho(value.probe)
  <2> DEFINE size == Smallest(client.sizes)
             phase == IF client.sizes = {size} THEN "proposing" ELSE "probing"
             sizes == client.sizes \ {size}
  <2>1. size \in client.sizes /\ size \in Nat  BY <1>1, <1>6, SmallestIn DEF SearchAgrees
  <2>2. client.waiting  BY <1>6 DEF TakeInbound
  <2>3. value.probe.size = size  BY <1>6, <2>2 DEF IsEcho, SearchAgrees
  <2>4. Proven(size) /\ InRange(size)  BY <1>2, <1>6, <2>1, <2>3 DEF SearchAgrees
  <2>5. client' = NextSize(rest)  BY <1>4, <1>6
  <2>6. client' = [client EXCEPT !.inbound = tail, !.best = size, !.sizes = sizes, !.attempt = 1, !.waiting = FALSE, !.phase = phase]
    BY <1>1, <1>6, <2>5 DEF NextSize, rest, ClientState
  <2>7. phase \in {"probing", "proposing"} /\ (phase = "probing" => sizes # {}) /\ sizes \in SUBSET Nat /\ sizes \subseteq client.sizes
    BY <1>1, <2>1
  <2> HIDE DEF size, phase, sizes
  <2>8. client' \in ClientState  BY <1>1, <1>2, <2>1, <2>6, <2>7 DEF ClientState, Establishing
  <2>9. /\ client'.phase = phase /\ ~client'.waiting /\ client'.accepted = client.accepted
        /\ client'.outcome = client.outcome /\ client'.best = size /\ client'.inbound = tail
        /\ client'.sizes = sizes
    BY <1>1, <2>6 DEF ClientState
  <2>10. ConnectIpTypeOK'  BY <1>4, <2>8 DEF ConnectIpTypeOK
  <2>11. EndsAgree'  BY <1>4, <1>6, <2>7, <2>9 DEF EndsAgree, Establishing
  <2>12. SearchAgrees'  BY <1>2, <1>4, <1>5, <1>6, <2>4, <2>7, <2>9 DEF SearchAgrees
  <2>13. ChoiceAgrees'  BY <1>2, <1>4, <1>5, <2>7, <2>9 DEF ChoiceAgrees, Configured
  <2>14. AddressAgrees'  BY <1>2, <1>4, <2>7, <2>9 DEF AddressAgrees
  <2>15. TunnelIsAgreed'  BY <1>4, <2>7, <2>9 DEF TunnelIsAgreed, NegotiationAgrees, AddressComesFirst, NoFallbackOnceAccepted, Occurs
  <2> QED BY <2>10, <2>11, <2>12, <2>13, <2>14, <2>15
<1>7. CASE client.phase = "selecting" /\ value.kind = "selected"
  <2>1. client' = [client EXCEPT !.inbound = tail, !.mtu = client.best, !.phase = "asking"]
    BY <1>1, <1>4, <1>7 DEF rest, ClientState
  <2>2. client.best \in Nat /\ server.committed /\ server.selected = client.best
    BY <1>1, <1>2, <1>3, <1>7 DEF ClientState, ChoiceAgrees
  <2>8. client' \in ClientState  BY <1>1, <1>2, <2>1, <2>2 DEF ClientState, Establishing
  <2>9. /\ client'.phase = "asking" /\ client'.accepted = client.accepted /\ client'.mtu = client.best
        /\ client'.outcome = client.outcome /\ client'.best = client.best /\ client'.inbound = tail
    BY <1>1, <2>1 DEF ClientState
  <2>10. ConnectIpTypeOK'  BY <1>4, <2>8 DEF ConnectIpTypeOK
  <2>11. EndsAgree'  BY <1>4, <1>7, <2>9 DEF EndsAgree, Establishing
  <2>12. SearchAgrees'  BY <1>2, <1>4, <1>5, <2>9 DEF SearchAgrees
  <2>13. ChoiceAgrees'  BY <1>2, <1>4, <1>5, <2>2, <2>9 DEF ChoiceAgrees, Configured
  <2>14. AddressAgrees'  BY <1>2, <1>4, <2>9 DEF AddressAgrees
  <2>15. TunnelIsAgreed'  BY <1>4, <2>9 DEF TunnelIsAgreed, NegotiationAgrees, AddressComesFirst, NoFallbackOnceAccepted, Occurs
  <2> QED BY <2>10, <2>11, <2>12, <2>13, <2>14, <2>15
<1>8. CASE client.phase = "addressing" /\ value.kind = "address"
  <2>1. client' = [client EXCEPT !.inbound = tail, !.phase = "up", !.outcome = "connected"]
    BY <1>1, <1>4, <1>8 DEF rest, ClientState
  <2>2. server.assigned  BY <1>2, <1>8 DEF AddressAgrees
  <2>8. client' \in ClientState  BY <1>1, <1>2, <2>1 DEF ClientState
  <2>9. /\ client'.phase = "up" /\ client'.accepted = client.accepted /\ client'.mtu = client.mtu
        /\ client'.outcome = "connected" /\ client'.best = client.best /\ client'.inbound = tail
    BY <1>1, <2>1 DEF ClientState
  <2>10. ConnectIpTypeOK'  BY <1>4, <2>8 DEF ConnectIpTypeOK
  <2>11. EndsAgree'  BY <1>4, <1>8, <2>9 DEF EndsAgree, Establishing
  <2>12. SearchAgrees'  BY <1>2, <1>4, <1>5, <2>9 DEF SearchAgrees
  <2>13. ChoiceAgrees'  BY <1>2, <1>4, <1>5, <1>8, <2>9 DEF ChoiceAgrees, Configured
  <2>14. AddressAgrees'  BY <1>2, <1>4, <2>2, <2>9 DEF AddressAgrees
  <2>15. TunnelIsAgreed'
    BY <1>4, <1>8, <2>9
       DEF TunnelIsAgreed, NegotiationAgrees, AddressComesFirst, NoFallbackOnceAccepted, Occurs, ChoiceAgrees, Configured
  <2> QED BY <2>10, <2>11, <2>12, <2>13, <2>14, <2>15
<1>9. CASE client' = [client EXCEPT !.inbound = tail]
  <2>8. client' \in ClientState  BY <1>1, <1>2, <1>9 DEF ClientState
  <2>9. /\ client'.phase = client.phase /\ client'.accepted = client.accepted /\ client'.mtu = client.mtu
        /\ client'.outcome = client.outcome /\ client'.best = client.best /\ client'.inbound = tail
        /\ client'.failure = client.failure /\ client'.sizes = client.sizes /\ client'.waiting = client.waiting
        /\ client'.probe = client.probe
    BY <1>1, <1>9 DEF ClientState
  <2>10. ConnectIpTypeOK'  BY <1>4, <2>8 DEF ConnectIpTypeOK
  <2>11. EndsAgree'  BY <1>4, <2>9 DEF EndsAgree, Establishing
  <2>12. SearchAgrees'  BY <1>2, <1>4, <1>5, <2>9 DEF SearchAgrees
  <2>13. ChoiceAgrees'  BY <1>2, <1>4, <1>5, <2>9 DEF ChoiceAgrees, Configured
  <2>14. AddressAgrees'  BY <1>2, <1>4, <2>9 DEF AddressAgrees
  <2>15. TunnelIsAgreed'  BY <1>4, <2>9 DEF TunnelIsAgreed, NegotiationAgrees, AddressComesFirst, NoFallbackOnceAccepted, Occurs
  <2> QED BY <2>10, <2>11, <2>12, <2>13, <2>14, <2>15
<1> QED BY <1>4, <1>6, <1>7, <1>8, <1>9 DEF rest

(* The client takes something from its channel, or puts something into it   *)
(* that came from the gateway, or learns of a failure.                      *)
LEMMA InboundStep ==
  ASSUME ConnectIpInv, client.phase \notin {"dialing", "down"}, NEW inbound \in Seq(Inbounds), NEW lost \in {None, "retryable"},
         client' = [client EXCEPT !.inbound = inbound, !.failure = lost], UNCHANGED <<config, server, quic>>,
         stream'.up = stream.up, stream' \in [up : Seq(Ups), down : Seq(Downs)],
         ToSet(stream'.down) \subseteq ToSet(stream.down),
         stream'.down = stream.down \/ (client.phase # "requested" /\ Len(stream'.down) = Len(stream.down) - 1
                                        /\ \A i \in 1..Len(stream'.down) : stream'.down[i] = stream.down[i + 1]),
         datagrams' \in [up : SUBSET (Probes \cup PacketsOf), down : SUBSET (Probes \cup PacketsOf)],
         datagrams'.up = datagrams.up, datagrams'.down \subseteq datagrams.down,
         \A x \in ToSet(inbound) : x.kind = "failure" \/ x \in ToSet(client.inbound) \cup ToSet(stream.down) \cup datagrams.down
  PROVE ConnectIpInv'
<1> USE DEF ConnectIpInv
<1>1. client \in ClientState /\ stream \in [up : Seq(Ups), down : Seq(Downs)]
      /\ datagrams \in [up : SUBSET (Probes \cup PacketsOf), down : SUBSET (Probes \cup PacketsOf)]
  BY DEF ConnectIpTypeOK
<1>2. client' \in ClientState  BY <1>1 DEF ClientState
<1>3. /\ client'.phase = client.phase /\ client'.accepted = client.accepted /\ client'.mtu = client.mtu
      /\ client'.outcome = client.outcome /\ client'.best = client.best /\ client'.inbound = inbound
      /\ client'.sizes = client.sizes /\ client'.waiting = client.waiting /\ client'.probe = client.probe
  BY <1>1 DEF ClientState
<1>4. (\A n : InRange(n)' <=> InRange(n)) /\ (\A n : Proven(n)' <=> Proven(n))  BY DEF InRange, Ceiling, Proven
<1>5. \A x \in datagrams.down : x.kind \in {"probe", "packet"}  BY <1>1 DEF Probes, PacketsOf
<1>6. \A x \in ToSet(stream.down) : x.kind # "probe"
  <2>1. ToSet(stream.down) \subseteq Downs  BY <1>1, SeqMember
  <2> QED BY <2>1 DEF Downs, Controls, Selections, Addresses, PacketsOf
<1>7. Len(stream.down) \in Nat /\ Len(stream'.down) \in Nat  BY <1>1
<1>8. ConnectIpTypeOK'  BY <1>2 DEF ConnectIpTypeOK
<1>9. EndsAgree'
  <2>1. stream'.down = stream.down \/ stream.down # <<>>
    <3>1. CASE Len(stream'.down) = Len(stream.down) - 1
      <4>1. Len(stream.down) # 0  BY <1>7, <3>1
      <4> QED BY <4>1
    <3> QED BY <3>1
  <2>2. CASE stream'.down = stream.down  BY <1>3, <2>2 DEF EndsAgree, Establishing
  <2>3. CASE /\ client.phase # "requested" /\ Len(stream'.down) = Len(stream.down) - 1
             /\ \A i \in 1..Len(stream'.down) : stream'.down[i] = stream.down[i + 1]
    <3>1. server.phase # "idle"  BY <2>3, <1>7 DEF EndsAgree
    <3>2. ASSUME NEW i \in 1..Len(stream'.down) PROVE stream'.down[i].kind # "response"
      <4>1. i + 1 \in 1..Len(stream.down)  BY <1>7, <2>3
      <4>2. stream.down[i + 1].kind # "response"  BY <2>3, <4>1 DEF EndsAgree
      <4> QED BY <2>3, <4>2
    <3> QED BY <1>3, <2>3, <3>1, <3>2 DEF EndsAgree, Establishing
  <2> QED BY <2>2, <2>3
<1>10. SearchAgrees'  BY <1>3, <1>4, <1>5, <1>6 DEF SearchAgrees
<1>11. ChoiceAgrees'  BY <1>3, <1>4, <1>5 DEF ChoiceAgrees, Configured
<1>12. AddressAgrees'  BY <1>3, <1>5 DEF AddressAgrees
<1>13. TunnelIsAgreed'  BY <1>3 DEF TunnelIsAgreed, NegotiationAgrees, AddressComesFirst, NoFallbackOnceAccepted, Occurs
<1> QED BY <1>8, <1>9, <1>10, <1>11, <1>12, <1>13

(* report_failure adds at most the failure to the channel.                  *)
LEMMA ReportedFailure ==
  ASSUME client \in ClientState, client.failure = None
  PROVE \E inbound \in Seq(Inbounds) :
          /\ ReportFailure(client, "retryable") = [client EXCEPT !.inbound = inbound, !.failure = "retryable"]
          /\ \A x \in ToSet(inbound) : x.kind = "failure" \/ x \in ToSet(client.inbound)
<1> DEFINE x == [kind |-> "failure", error |-> "retryable"]
<1>1. client.inbound \in Seq(Inbounds)  BY DEF ClientState
<1>2. x \in Inbounds /\ x.kind = "failure"  BY DEF Inbounds
<1>3. CASE Len(client.inbound) < InboundSlots
  <2>1. ReportFailure(client, "retryable") = [client EXCEPT !.inbound = Append(client.inbound, x), !.failure = "retryable"]
    BY <1>3 DEF ReportFailure, SetFailure, ClientState
  <2> HIDE DEF x
  <2>2. Append(client.inbound, x) \in Seq(Inbounds) /\ ToSet(Append(client.inbound, x)) = ToSet(client.inbound) \cup {x}
    BY <1>1, <1>2, SeqAppend
  <2> QED BY <1>2, <2>1, <2>2
<1>4. CASE ~(Len(client.inbound) < InboundSlots)
  <2>1. ReportFailure(client, "retryable") = [client EXCEPT !.inbound = client.inbound, !.failure = "retryable"]
    BY <1>4 DEF ReportFailure, SetFailure, ClientState
  <2> QED BY <1>1, <2>1
<1> QED BY <1>3, <1>4

(* run_reader: a capsule moves from the stream to the channel.              *)
LEMMA ReadCapsuleStep == ASSUME ConnectIpInv, ReadCapsule PROVE ConnectIpInv'
<1> DEFINE value == Head(stream.down)
<1>1. /\ client \in ClientState /\ stream \in [up : Seq(Ups), down : Seq(Downs)] /\ client.inbound \in Seq(Inbounds)
      /\ datagrams \in [up : SUBSET (Probes \cup PacketsOf), down : SUBSET (Probes \cup PacketsOf)]
  BY DEF ConnectIpInv, ConnectIpTypeOK, ClientState
<1>2. client.phase \notin {"dialing", "requested", "down"} /\ client.failure = None /\ UNCHANGED <<config, server, quic, datagrams>>
  BY DEF ConnectIpInv, EndsAgree, ReadCapsule, Reading
<1>3. /\ value \in Downs /\ value \in ToSet(stream.down)
      /\ Tail(stream.down) \in Seq(Downs) /\ ToSet(Tail(stream.down)) \subseteq ToSet(stream.down)
      /\ Len(Tail(stream.down)) = Len(stream.down) - 1
      /\ \A i \in 1..Len(Tail(stream.down)) : Tail(stream.down)[i] = stream.down[i + 1]
  BY <1>1, SeqTail DEF ReadCapsule
<1>4. /\ stream' \in [up : Seq(Ups), down : Seq(Downs)] /\ stream'.up = stream.up /\ stream'.down = Tail(stream.down)
  BY <1>1, <1>3 DEF ReadCapsule
<1>5. PICK inbound \in Seq(Inbounds), lost \in {None, "retryable"} :
        /\ client' = [client EXCEPT !.inbound = inbound, !.failure = lost]
        /\ \A x \in ToSet(inbound) : x.kind = "failure" \/ x \in ToSet(client.inbound) \cup ToSet(stream.down)
  <2>1. CASE client' = ReportFailure(client, "retryable")  BY <1>1, <1>2, <2>1, ReportedFailure
  <2>2. CASE value.kind \in {"selected", "address", "packet"} /\ client' = [client EXCEPT !.inbound = Append(@, value)]
    <3>1. value \in Inbounds  BY <1>3, <2>2 DEF Downs, Inbounds, Controls, Selections, Addresses, PacketsOf
    <3> HIDE DEF value
    <3>2. Append(client.inbound, value) \in Seq(Inbounds) /\ ToSet(Append(client.inbound, value)) = ToSet(client.inbound) \cup {value}
      BY <1>1, <3>1, SeqAppend
    <3>3. client' = [client EXCEPT !.inbound = Append(client.inbound, value), !.failure = None]
      BY <1>1, <1>2, <2>2 DEF ClientState
    <3> QED BY <1>3, <3>2, <3>3
  <2> QED BY <2>1, <2>2 DEF ReadCapsule
<1> HIDE DEF value
<1> QED BY <1>1, <1>2, <1>3, <1>4, <1>5, InboundStep

(* run_reader: a datagram moves to the channel.                             *)
LEMMA ReadDatagramStep == ASSUME ConnectIpInv, ReadDatagram PROVE ConnectIpInv'
<1>1. /\ client \in ClientState /\ stream \in [up : Seq(Ups), down : Seq(Downs)] /\ client.inbound \in Seq(Inbounds)
      /\ datagrams \in [up : SUBSET (Probes \cup PacketsOf), down : SUBSET (Probes \cup PacketsOf)]
  BY DEF ConnectIpInv, ConnectIpTypeOK, ClientState
<1>2. client.phase \notin {"dialing", "requested", "down"} /\ client.failure = None /\ UNCHANGED <<config, server, stream, quic>>
  BY DEF ConnectIpInv, EndsAgree, ReadDatagram, Reading
<1>3. PICK value \in datagrams.down : /\ client' = [client EXCEPT !.inbound = Append(@, value)]
                                      /\ datagrams' = [datagrams EXCEPT !.down = @ \ {value}]
  BY DEF ReadDatagram
<1>4. value \in Inbounds  BY <1>1 DEF Inbounds
<1>5. Append(client.inbound, value) \in Seq(Inbounds) /\ ToSet(Append(client.inbound, value)) = ToSet(client.inbound) \cup {value}
  BY <1>1, <1>4, SeqAppend
<1>6. client' = [client EXCEPT !.inbound = Append(client.inbound, value), !.failure = None]
  BY <1>1, <1>2, <1>3 DEF ClientState
<1>7. /\ datagrams' \in [up : SUBSET (Probes \cup PacketsOf), down : SUBSET (Probes \cup PacketsOf)]
      /\ datagrams'.up = datagrams.up /\ datagrams'.down \subseteq datagrams.down
  BY <1>1, <1>3
<1> DEFINE inbound == Append(client.inbound, value)
<1>8. inbound \in Seq(Inbounds) /\ client' = [client EXCEPT !.inbound = inbound, !.failure = None]  BY <1>5, <1>6
<1>9. \A x \in ToSet(inbound) : x.kind = "failure" \/ x \in ToSet(client.inbound) \cup ToSet(stream.down) \cup datagrams.down
  BY <1>3, <1>5
<1>10. None \in {None, "retryable"} /\ stream'.up = stream.up /\ stream'.down = stream.down
       /\ stream' \in [up : Seq(Ups), down : Seq(Downs)] /\ ToSet(stream'.down) \subseteq ToSet(stream.down)
  BY <1>1, <1>2
<1> HIDE DEF inbound
<1> QED BY <1>2, <1>7, <1>8, <1>9, <1>10, InboundStep

(* The failure of the connection is reported.                               *)
LEMMA ConnectionStopsStep == ASSUME ConnectIpInv, ConnectionStops PROVE ConnectIpInv'
<1>1. /\ client \in ClientState /\ stream \in [up : Seq(Ups), down : Seq(Downs)]
      /\ datagrams \in [up : SUBSET (Probes \cup PacketsOf), down : SUBSET (Probes \cup PacketsOf)]
  BY DEF ConnectIpInv, ConnectIpTypeOK
<1>2. /\ client.phase \notin {"dialing", "down"} /\ client.failure = None /\ UNCHANGED <<config, server, stream, datagrams, quic>>
      /\ client' = ReportFailure(client, "retryable")
  BY DEF ConnectionStops
<1>3. PICK inbound \in Seq(Inbounds) :
        /\ client' = [client EXCEPT !.inbound = inbound, !.failure = "retryable"]
        /\ \A x \in ToSet(inbound) : x.kind = "failure" \/ x \in ToSet(client.inbound)
  BY <1>1, <1>2, ReportedFailure
<1> QED BY <1>1, <1>2, <1>3, InboundStep

(* Connection::receive takes a value, or ends with the failure.             *)
LEMMA ReceiveStep == ASSUME ConnectIpInv, Receive PROVE ConnectIpInv'
<1>1. /\ client \in ClientState /\ stream \in [up : Seq(Ups), down : Seq(Downs)] /\ client.inbound \in Seq(Inbounds)
      /\ datagrams \in [up : SUBSET (Probes \cup PacketsOf), down : SUBSET (Probes \cup PacketsOf)]
      /\ client.outcome \in Outcomes /\ client.failure \in {None, "retryable"}
  BY DEF ConnectIpInv, ConnectIpTypeOK, ClientState, Outcomes
<1>2. CASE client' = Dropped(client, client.outcome) /\ NobodyReads("down") /\ quic' = IF quic = "open" THEN "closed" ELSE quic
  <2>1. client.accepted => client.outcome \notin {"permanent", "unavailable"}  BY DEF ConnectIpInv, EndsAgree
  <2> QED BY <1>1, <1>2, <2>1, GiveUpStep DEF Receive
<1>3. CASE /\ client.failure = None /\ client.inbound # <<>> /\ client' = [client EXCEPT !.inbound = Tail(@)]
           /\ UNCHANGED <<stream, datagrams, quic>>
  <2>1. Tail(client.inbound) \in Seq(Inbounds) /\ ToSet(Tail(client.inbound)) \subseteq ToSet(client.inbound)
    BY <1>1, <1>3, SeqTail
  <2>2. client' = [client EXCEPT !.inbound = Tail(client.inbound), !.failure = client.failure]  BY <1>1, <1>3 DEF ClientState
  <2>3. client.phase \notin {"dialing", "down"} /\ UNCHANGED <<config, server>>  BY DEF Receive
  <2> QED BY <1>1, <1>3, <2>1, <2>2, <2>3, InboundStep
<1> QED BY <1>2, <1>3 DEF Receive

(* A client that sends is up, so the gateway has assigned its address.      *)
LEMMA SendStep == ASSUME ConnectIpInv, Send PROVE ConnectIpInv'
<1> USE DEF ConnectIpInv
<1> DEFINE x == [kind |-> "packet", n |-> client.packets]
<1>1. /\ client \in ClientState /\ stream \in [up : Seq(Ups), down : Seq(Downs)] /\ stream.up \in Seq(Ups)
      /\ datagrams \in [up : SUBSET (Probes \cup PacketsOf), down : SUBSET (Probes \cup PacketsOf)]
  BY DEF ConnectIpTypeOK
<1>2. client.phase = "up" /\ UNCHANGED <<config, server, quic>> /\ client' = [client EXCEPT !.packets = @ + 1]  BY DEF Send
<1>3. client.packets \in Nat /\ client.packets + 1 \in Nat  BY <1>1 DEF ClientState
<1>4. x \in PacketsOf /\ x.kind = "packet" /\ x \in Ups  BY <1>3 DEF PacketsOf, Ups
<1>5. client' \in ClientState  BY <1>1, <1>2, <1>3 DEF ClientState
<1>6. /\ client'.phase = client.phase /\ client'.accepted = client.accepted /\ client'.mtu = client.mtu
      /\ client'.outcome = client.outcome /\ client'.best = client.best /\ client'.inbound = client.inbound
      /\ client'.sizes = client.sizes /\ client'.waiting = client.waiting /\ client'.probe = client.probe
      /\ client'.failure = client.failure
  BY <1>1, <1>2 DEF ClientState
<1>7. /\ stream' \in [up : Seq(Ups), down : Seq(Downs)] /\ stream'.down = stream.down
      /\ ToSet(stream'.up) \subseteq ToSet(stream.up) \cup {x} /\ ToSet(stream.up) \subseteq ToSet(stream'.up)
      /\ datagrams' \in [up : SUBSET (Probes \cup PacketsOf), down : SUBSET (Probes \cup PacketsOf)]
      /\ datagrams'.down = datagrams.down /\ datagrams'.up \subseteq datagrams.up \cup {x}
  <2>1. CASE UNCHANGED stream /\ datagrams' = [datagrams EXCEPT !.up = @ \union {x}]
    <3> HIDE DEF x
    <3> QED BY <1>1, <1>4, <2>1
  <2>2. CASE UNCHANGED datagrams /\ stream' = [stream EXCEPT !.up = Append(@, x)]
    <3> HIDE DEF x
    <3>1. Append(stream.up, x) \in Seq(Ups) /\ ToSet(Append(stream.up, x)) = ToSet(stream.up) \cup {x}
      BY <1>1, <1>4, SeqAppend
    <3> QED BY <1>1, <2>2, <3>1
  <2> QED BY <2>1, <2>2 DEF Send
<1> HIDE DEF x
<1>8. (\A n : InRange(n)' <=> InRange(n)) /\ (\A n : Proven(n)' <=> Proven(n))  BY <1>2 DEF InRange, Ceiling, Proven
<1>9. ConnectIpTypeOK'  BY <1>2, <1>5, <1>7 DEF ConnectIpTypeOK
<1>10. EndsAgree'  BY <1>2, <1>4, <1>6, <1>7 DEF EndsAgree, Establishing
<1>11. SearchAgrees'  BY <1>2, <1>6, <1>7, <1>8 DEF SearchAgrees
<1>12. ChoiceAgrees'  BY <1>2, <1>4, <1>6, <1>7, <1>8 DEF ChoiceAgrees, Configured
<1>13. AddressAgrees'  BY <1>2, <1>4, <1>6, <1>7 DEF AddressAgrees
<1>14. TunnelIsAgreed'  BY <1>2, <1>6 DEF TunnelIsAgreed, NegotiationAgrees, AddressComesFirst, NoFallbackOnceAccepted, Occurs
<1> QED BY <1>9, <1>10, <1>11, <1>12, <1>13, <1>14

(* What the gateway says in order stays in order. *)
LEMMA SaysInOrder ==
  ASSUME ConnectIpInv, NEW k \in {"packet", "address", "selected"}, server'.said = Append(server.said, k),
         k = "packet" => "address" \in ToSet(server.said)
  PROVE /\ AddressComesFirst' /\ server'.said \in Seq({"packet", "address", "selected"})
        /\ ToSet(server'.said) = ToSet(server.said) \cup {k}
<1> DEFINE S == {"packet", "address", "selected"}
           said == server.said
           now == server'.said
<1>1. said \in Seq(S) /\ Len(said) \in Nat  BY DEF ConnectIpInv, ConnectIpTypeOK, ServerState
<1>2. k \in S  OBVIOUS
<1>6. now = Append(said, k)  OBVIOUS
<1>3. \A i \in 1..Len(said) : said[i] = "packet" => \E j \in 1..(i - 1) : said[j] = "address"
  BY DEF ConnectIpInv, TunnelIsAgreed, AddressComesFirst
<1>7. DOMAIN said = 1..Len(said)  BY <1>1
<1> HIDE DEF S, said
<1>4. /\ now \in Seq(S) /\ ToSet(now) = ToSet(said) \cup {k} /\ Len(now) = Len(said) + 1
      /\ now[Len(said) + 1] = k /\ \A i \in 1..Len(said) : now[i] = said[i]
  BY <1>1, <1>2, <1>6, SeqAppend
<1>8. k = "packet" => "address" \in ToSet(said)  BY DEF said
<1> HIDE DEF now
<1>5. ASSUME NEW i \in 1..Len(now), now[i] = "packet" PROVE \E j \in 1..(i - 1) : now[j] = "address"
  <2>1. CASE i = Len(said) + 1
    <3>1. PICK j \in 1..Len(said) : said[j] = "address"  BY <1>4, <1>5, <1>7, <1>8, <2>1 DEF ToSet
    <3> QED BY <1>1, <1>4, <2>1, <3>1
  <2>2. CASE i # Len(said) + 1
    <3>1. i \in 1..Len(said)  BY <1>1, <1>4, <2>2
    <3>2. PICK j \in 1..(i - 1) : said[j] = "address"  BY <1>3, <1>4, <1>5, <3>1
    <3>3. j \in 1..Len(said)  BY <1>1, <3>1
    <3> QED BY <1>4, <3>2, <3>3
  <2> QED BY <2>1, <2>2
<1> QED BY <1>4, <1>5 DEF AddressComesFirst, S, said, now

(* The rest follows from what the gateway's type leaves out. *)
LEMMA AgreementHolds ==
  ASSUME ConnectIpTypeOK, EndsAgree, ChoiceAgrees, AddressComesFirst PROVE TunnelIsAgreed
<1>1. server \in ServerState /\ client \in ClientState  BY DEF ConnectIpTypeOK
<1>6. server.said \in Seq({"packet", "address", "selected"})  BY <1>1 DEF ServerState
<1>2. server.reason # "capsule_protocol_error"  BY <1>1, Zenon DEF ServerState, Reasons, None
<1>3. ~Occurs(server.said, "dropped")  BY <1>6 DEF Occurs
<1>4. client.outcome # "permanent" \/ ~client.accepted  BY <1>1 DEF EndsAgree, ClientState
<1>5. NoFallbackOnceAccepted  BY <1>1 DEF EndsAgree, NoFallbackOnceAccepted, ClientState
<1> QED BY <1>2, <1>3, <1>4, <1>5 DEF TunnelIsAgreed, NegotiationAgrees, ChoiceAgrees, Configured

(* A step of the gateway that negotiates nothing. *)
LEMMA GatewayStep ==
  ASSUME ConnectIpInv, server.phase # "idle", UNCHANGED <<config, client, stream, quic>>,
         server' \in ServerState, server'.phase # "idle",
         server'.phase \in {"running", "closing"} => server.phase \in {"running", "closing"},
         server.phase = "ended" => server'.phase = "ended",
         server'.discovery = server.discovery, server'.selected = server.selected,
         server'.committed = server.committed, server'.assigned = server.assigned, server.proven \subseteq server'.proven,
         \A x \in ToSet(server'.control) \cup ToSet(server'.writing) :
           x \in ToSet(server.control) \cup ToSet(server.writing) \/ x.kind = "packet",
         \A x \in ToSet(server'.writing) : x.kind = "packet" => server'.ready,
         server'.data # <<>> => server'.ready,
         server'.ready \/ server'.ack = "sent" => "address" \in ToSet(server'.said), AddressComesFirst',
         datagrams' \in [up : SUBSET (Probes \cup PacketsOf), down : SUBSET (Probes \cup PacketsOf)],
         datagrams'.up \subseteq datagrams.up,
         \A x \in datagrams'.down : \/ x \in datagrams.down \/ x.kind = "packet"
                                    \/ x.kind = "probe" /\ x.probe.size \in server'.proven
  PROVE ConnectIpInv'
<1> USE DEF ConnectIpInv
<1>1. (\A n : InRange(n)' <=> InRange(n)) /\ (\A n : Proven(n) => Proven(n)')  BY DEF InRange, Ceiling, Proven
<1>2. ConnectIpTypeOK'  BY DEF ConnectIpTypeOK
<1>3. EndsAgree'  BY DEF EndsAgree, Establishing
<1>4. SearchAgrees'
  <2>1. ASSUME NEW x \in datagrams'.down, x.kind = "probe" PROVE Proven(x.probe.size)'
    <3>1. CASE x \in datagrams.down  BY <1>1, <2>1, <3>1 DEF SearchAgrees
    <3>2. CASE x.probe.size \in server'.proven  BY <3>2 DEF Proven
    <3> QED BY <2>1, <3>1, <3>2
  <2>2. \A x \in ToSet(client'.inbound) : x.kind = "probe" => Proven(x.probe.size)'  BY <1>1 DEF SearchAgrees
  <2> QED BY <1>1, <2>1, <2>2 DEF SearchAgrees
<1>5. ChoiceAgrees'  BY <1>1 DEF ChoiceAgrees, Configured
<1>6. AddressAgrees'  BY DEF AddressAgrees
<1>7. TunnelIsAgreed'  BY <1>2, <1>3, <1>5, AgreementHolds, PTL
<1> QED BY <1>2, <1>3, <1>4, <1>5, <1>6, <1>7

(* The fields of the gateway that a step of its loop may touch. *)
LEMMA GatewayLoopStep ==
  ASSUME ConnectIpInv, server.phase \in {"running", "closing"}, UNCHANGED <<config, client, stream, datagrams, quic>>,
         NEW phase \in {"running", "closing"}, NEW error \in Errors, NEW stopped \in BOOLEAN, NEW uses \in BOOLEAN,
         server' = [server EXCEPT !.phase = phase, !.error = error, !.cancelled = stopped, !.datagrams = uses]
  PROVE ConnectIpInv'
<1>1. server \in ServerState /\ datagrams \in [up : SUBSET (Probes \cup PacketsOf), down : SUBSET (Probes \cup PacketsOf)]
  BY DEF ConnectIpInv, ConnectIpTypeOK
<1>2. server' \in ServerState  BY <1>1 DEF ServerState
<1>3. /\ server'.phase = phase /\ server'.discovery = server.discovery /\ server'.selected = server.selected
      /\ server'.committed = server.committed /\ server'.assigned = server.assigned /\ server'.proven = server.proven
      /\ server'.control = server.control /\ server'.writing = server.writing /\ server'.data = server.data
      /\ server'.ready = server.ready /\ server'.ack = server.ack /\ server'.said = server.said
  BY <1>1 DEF ServerState
<1>4. AddressComesFirst'  BY <1>3 DEF ConnectIpInv, TunnelIsAgreed, AddressComesFirst
<1>5. /\ \A x \in ToSet(server'.writing) : x.kind = "packet" => server'.ready
      /\ server'.data # <<>> => server'.ready
      /\ server'.ready \/ server'.ack = "sent" => "address" \in ToSet(server'.said)
  BY <1>3 DEF ConnectIpInv, AddressAgrees
<1> QED BY <1>1, <1>2, <1>3, <1>4, <1>5, GatewayStep

(* The loop ends, the session is cancelled, or the datagrams are given up.  *)
LEMMA GatewayEnds ==
  ASSUME ConnectIpInv, DisableDatagrams \/ DownlinkClosed \/ LoopEnds \/ WriterTimesOut \/ CancelSession PROVE ConnectIpInv'
<1>1. server \in ServerState  BY DEF ConnectIpInv, ConnectIpTypeOK
<1>2. /\ server.phase \in {"running", "closing"} /\ UNCHANGED <<config, client, stream, datagrams, quic>>
      /\ server.error \in Errors /\ server.cancelled \in BOOLEAN /\ server.datagrams \in BOOLEAN
  BY <1>1 DEF DisableDatagrams, DownlinkClosed, LoopEnds, WriterTimesOut, CancelSession, Running, WriterRuns, ServerState
<1>3. CASE DisableDatagrams
  <2>1. server' = [server EXCEPT !.phase = server.phase, !.error = server.error, !.cancelled = server.cancelled, !.datagrams = FALSE]
    BY <1>1, <1>3 DEF DisableDatagrams, ServerState
  <2> QED BY <1>2, <2>1, GatewayLoopStep
<1>4. CASE CancelSession
  <2>1. server' = [server EXCEPT !.phase = server.phase, !.error = server.error, !.cancelled = TRUE, !.datagrams = server.datagrams]
    BY <1>1, <1>4 DEF CancelSession, ServerState
  <2> QED BY <1>2, <2>1, GatewayLoopStep
<1>5. CASE DownlinkClosed \/ LoopEnds \/ WriterTimesOut
  <2>1. PICK error \in Errors : server' = EndsWith(server, error)
    BY <1>5 DEF DownlinkClosed, LoopEnds, WriterTimesOut, Errors
  <2>2. server' = [server EXCEPT !.phase = "closing", !.error = error, !.cancelled = server.cancelled, !.datagrams = server.datagrams]
    BY <1>1, <2>1 DEF EndsWith, ServerState
  <2> QED BY <1>2, <2>2, GatewayLoopStep
<1> QED BY <1>3, <1>4, <1>5

(* The downlink is ready once the address has been written.                 *)
LEMMA AssignmentWrittenStep == ASSUME ConnectIpInv, AssignmentWritten PROVE ConnectIpInv'
<1>1. server \in ServerState /\ datagrams \in [up : SUBSET (Probes \cup PacketsOf), down : SUBSET (Probes \cup PacketsOf)]
  BY DEF ConnectIpInv, ConnectIpTypeOK
<1>2. /\ server.phase = "running" /\ UNCHANGED <<config, client, stream, datagrams, quic>> /\ server.ack = "sent"
      /\ server' = [server EXCEPT !.ack = None, !.ready = TRUE]
  BY DEF AssignmentWritten, Running
<1>3. server' \in ServerState  BY <1>1, <1>2 DEF ServerState
<1>4. /\ server'.phase = server.phase /\ server'.discovery = server.discovery /\ server'.selected = server.selected
      /\ server'.committed = server.committed /\ server'.assigned = server.assigned /\ server'.proven = server.proven
      /\ server'.control = server.control /\ server'.writing = server.writing
      /\ server'.ready /\ server'.said = server.said
  BY <1>1, <1>2 DEF ServerState
<1>5. AddressComesFirst'  BY <1>4 DEF ConnectIpInv, TunnelIsAgreed, AddressComesFirst
<1>6. "address" \in ToSet(server'.said)  BY <1>2, <1>4 DEF ConnectIpInv, AddressAgrees
<1> QED BY <1>1, <1>2, <1>3, <1>4, <1>5, <1>6, GatewayStep

(* The writer takes a command; a packet is there only when the downlink is  *)
(* ready.                                                                   *)
LEMMA WriterTakesStep == ASSUME ConnectIpInv, WriterTakes PROVE ConnectIpInv'
<1>1. server \in ServerState /\ datagrams \in [up : SUBSET (Probes \cup PacketsOf), down : SUBSET (Probes \cup PacketsOf)]
  BY DEF ConnectIpInv, ConnectIpTypeOK
<1>2. /\ server.phase \in {"running", "closing"} /\ UNCHANGED <<config, client, stream, datagrams, quic>>
      /\ server.control \in Seq(Controls) /\ server.data \in Seq(PacketsOf)
  BY <1>1 DEF WriterTakes, WriterRuns, ServerState
<1>3. PICK writing \in Seq(Controls \cup PacketsOf), control \in Seq(Controls), data \in Seq(PacketsOf) :
        /\ server' = [server EXCEPT !.writing = writing, !.control = control, !.data = data]
        /\ \A x \in ToSet(control) : x \in ToSet(server.control)
        /\ \A x \in ToSet(writing) : x \in ToSet(server.control) \/ x.kind = "packet"
        /\ \A x \in ToSet(writing) : x.kind = "packet" => server.ready
        /\ data # <<>> => server.ready
  <2>1. CASE server.control # <<>> /\ server' = [server EXCEPT !.writing = <<Head(server.control)>>, !.control = Tail(@)]
    <3> DEFINE x == Head(server.control)
               control == Tail(server.control)
    <3>1. x \in Controls /\ x \in ToSet(server.control) /\ control \in Seq(Controls) /\ ToSet(control) \subseteq ToSet(server.control)
      BY <1>2, <2>1, SeqTail
    <3>2. server' = [server EXCEPT !.writing = <<x>>, !.control = control, !.data = server.data]
      BY <1>1, <2>1 DEF ServerState
    <3> HIDE DEF x, control
    <3>3. x \in Controls \cup PacketsOf /\ x.kind # "packet"  BY <3>1 DEF Controls, Selections, Addresses
    <3>4. <<x>> \in Seq(Controls \cup PacketsOf) /\ ToSet(<<x>>) = {x}  BY <3>3, SeqOne
    <3>5. server.data # <<>> => server.ready  BY DEF ConnectIpInv, AddressAgrees
    <3> QED BY <1>2, <3>1, <3>2, <3>3, <3>4, <3>5
  <2>2. CASE server.data # <<>> /\ server' = [server EXCEPT !.writing = <<Head(server.data)>>, !.data = Tail(@)]
    <3> DEFINE x == Head(server.data)
               data == Tail(server.data)
    <3>1. x \in PacketsOf /\ data \in Seq(PacketsOf)
      BY <1>2, <2>2, SeqTail
    <3>2. server' = [server EXCEPT !.writing = <<x>>, !.control = server.control, !.data = data]
      BY <1>1, <2>2 DEF ServerState
    <3> HIDE DEF x, data
    <3>3. x \in Controls \cup PacketsOf /\ x.kind = "packet"  BY <3>1 DEF PacketsOf
    <3>4. <<x>> \in Seq(Controls \cup PacketsOf) /\ ToSet(<<x>>) = {x}  BY <3>3, SeqOne
    <3>5. server.ready  BY <2>2 DEF ConnectIpInv, AddressAgrees
    <3> QED BY <1>2, <3>1, <3>2, <3>3, <3>4, <3>5
  <2> QED BY <2>1, <2>2 DEF WriterTakes
<1>4. server' \in ServerState  BY <1>1, <1>3 DEF ServerState
<1>5. /\ server'.phase = server.phase /\ server'.discovery = server.discovery /\ server'.selected = server.selected
      /\ server'.committed = server.committed /\ server'.assigned = server.assigned /\ server'.proven = server.proven
      /\ server'.control = control /\ server'.writing = writing /\ server'.data = data
      /\ server'.ready = server.ready /\ server'.ack = server.ack /\ server'.said = server.said
  BY <1>1, <1>3 DEF ServerState
<1>6. AddressComesFirst'  BY <1>5 DEF ConnectIpInv, TunnelIsAgreed, AddressComesFirst
<1>7. server'.ready \/ server'.ack = "sent" => "address" \in ToSet(server'.said)  BY <1>5 DEF ConnectIpInv, AddressAgrees
<1>8. \A x \in ToSet(server'.control) \cup ToSet(server'.writing) :
        x \in ToSet(server.control) \cup ToSet(server.writing) \/ x.kind = "packet"
  BY <1>3, <1>5
<1>9. (\A x \in ToSet(server'.writing) : x.kind = "packet" => server'.ready) /\ (server'.data # <<>> => server'.ready)
  BY <1>3, <1>5
<1> QED BY <1>1, <1>2, <1>4, <1>5, <1>6, <1>7, <1>8, <1>9, GatewayStep

(* A packet of the downlink goes out after the address.                     *)
LEMMA SendDownlinkStep == ASSUME ConnectIpInv, SendDownlink PROVE ConnectIpInv'
<1> DEFINE packet == [kind |-> "packet", n |-> server.packets]
<1>1. server \in ServerState /\ datagrams \in [up : SUBSET (Probes \cup PacketsOf), down : SUBSET (Probes \cup PacketsOf)]
  BY DEF ConnectIpInv, ConnectIpTypeOK
<1>2. server.phase = "running" /\ UNCHANGED <<config, client, stream, quic>> /\ server.ready  BY DEF SendDownlink, Running
<1>3. server.packets \in Nat /\ server.packets + 1 \in Nat  BY <1>1 DEF ServerState
<1>4. packet \in PacketsOf /\ packet.kind = "packet"  BY <1>3 DEF PacketsOf
<1>5. "address" \in ToSet(server.said)  BY <1>2 DEF ConnectIpInv, AddressAgrees
<1>6. \A x \in ToSet(server.writing) : x.kind = "packet" => server.ready  BY <1>2
<1>7. CASE /\ server' = [[server EXCEPT !.packets = @ + 1] EXCEPT !.said = Append(@, "packet")]
           /\ datagrams' = [datagrams EXCEPT !.down = @ \union {packet}]
  <2>1. server' = [server EXCEPT !.packets = server.packets + 1, !.said = Append(server.said, "packet")]
    BY <1>1, <1>7 DEF ServerState
  <2>2. server'.said = Append(server.said, "packet")  BY <1>1, <2>1 DEF ServerState
  <2>3. /\ AddressComesFirst' /\ server'.said \in Seq({"packet", "address", "selected"})
        /\ "address" \in ToSet(server'.said)
    BY <1>5, <2>2, SaysInOrder
  <2>4. server' \in ServerState  BY <1>1, <1>3, <2>1, <2>2, <2>3 DEF ServerState
  <2>5. /\ server'.phase = server.phase /\ server'.discovery = server.discovery /\ server'.selected = server.selected
        /\ server'.committed = server.committed /\ server'.assigned = server.assigned /\ server'.proven = server.proven
        /\ server'.control = server.control /\ server'.writing = server.writing /\ server'.ready
    BY <1>1, <1>2, <2>1 DEF ServerState
  <2> HIDE DEF packet
  <2>6. /\ datagrams' \in [up : SUBSET (Probes \cup PacketsOf), down : SUBSET (Probes \cup PacketsOf)]
        /\ datagrams'.up = datagrams.up /\ \A x \in datagrams'.down : x \in datagrams.down \/ x.kind = "packet"
    BY <1>1, <1>4, <1>7
  <2> QED BY <1>2, <2>3, <2>4, <2>5, <2>6, GatewayStep
<1>8. CASE server' = Packet([server EXCEPT !.packets = @ + 1], packet) /\ UNCHANGED datagrams
  <2>1. PICK phase \in {"running", "closing"}, error \in Errors, data \in Seq(PacketsOf) :
          server' = [server EXCEPT !.packets = server.packets + 1, !.phase = phase, !.error = error, !.data = data]
    <3>1. server.error \in Errors /\ server.data \in Seq(PacketsOf)  BY <1>1 DEF ServerState
    <3>2. CASE Len(server.data) < DataCommands
      <4>1. server' = [server EXCEPT !.packets = server.packets + 1, !.phase = server.phase, !.error = server.error,
                                     !.data = Append(server.data, packet)]
        BY <1>1, <1>8, <3>2 DEF Packet, ServerState
      <4> HIDE DEF packet
      <4>2. Append(server.data, packet) \in Seq(PacketsOf)  BY <1>4, <3>1
      <4> QED BY <1>2, <3>1, <4>1, <4>2
    <3>3. CASE ~(Len(server.data) < DataCommands)
      <4>1. server' = [server EXCEPT !.packets = server.packets + 1, !.phase = "closing", !.error = "overloaded",
                                     !.data = server.data]
        BY <1>1, <1>8, <3>3 DEF Packet, EndsWith, ServerState
      <4>2. "overloaded" \in Errors  BY DEF Errors
      <4> QED BY <3>1, <4>1, <4>2
    <3> QED BY <3>2, <3>3
  <2>2. server' \in ServerState  BY <1>1, <1>3, <2>1 DEF ServerState
  <2>3. /\ server'.phase = phase /\ server'.discovery = server.discovery /\ server'.selected = server.selected
        /\ server'.committed = server.committed /\ server'.assigned = server.assigned /\ server'.proven = server.proven
        /\ server'.control = server.control /\ server'.writing = server.writing /\ server'.ready /\ server'.said = server.said
    BY <1>1, <1>2, <2>1 DEF ServerState
  <2>4. AddressComesFirst'  BY <2>3 DEF ConnectIpInv, TunnelIsAgreed, AddressComesFirst
  <2> QED BY <1>1, <1>2, <1>5, <1>8, <2>2, <2>3, <2>4, GatewayStep
<1> QED BY <1>7, <1>8 DEF SendDownlink

(* A probe that is echoed is proven from then on.                           *)
LEMMA ReceiveProbeStep == ASSUME ConnectIpInv, ReceiveProbe PROVE ConnectIpInv'
<1>1. server \in ServerState /\ datagrams \in [up : SUBSET (Probes \cup PacketsOf), down : SUBSET (Probes \cup PacketsOf)]
  BY DEF ConnectIpInv, ConnectIpTypeOK
<1>2. server.phase = "running" /\ UNCHANGED <<config, client, stream, quic>>  BY DEF ReceiveProbe, Running
<1>3. PICK value \in datagrams.up : value.kind = "probe" /\
        \/ \E echoed \in BOOLEAN :
             /\ server' = Probed(server, value.probe, echoed)
             /\ datagrams' = [up |-> datagrams.up \ {value},
                              down |-> IF echoed THEN datagrams.down \union {value} ELSE datagrams.down]
        \/ UNCHANGED server /\ datagrams' = [datagrams EXCEPT !.up = @ \ {value}]
  BY DEF ReceiveProbe
<1>4. value \in Probes /\ value.probe.size \in Nat  BY <1>1, <1>3 DEF Probes, PacketsOf
<1>5. /\ \A x \in ToSet(server.writing) : x.kind = "packet" => server.ready
      /\ server.data # <<>> => server.ready
      /\ server.ready \/ server.ack = "sent" => "address" \in ToSet(server.said)
  BY DEF ConnectIpInv, AddressAgrees
<1>6. CASE UNCHANGED server /\ datagrams' = [datagrams EXCEPT !.up = @ \ {value}]
  <2>1. AddressComesFirst'  BY <1>6 DEF ConnectIpInv, TunnelIsAgreed, AddressComesFirst
  <2>2. /\ datagrams' \in [up : SUBSET (Probes \cup PacketsOf), down : SUBSET (Probes \cup PacketsOf)]
        /\ datagrams'.up \subseteq datagrams.up /\ datagrams'.down = datagrams.down
    BY <1>1, <1>6
  <2> QED BY <1>1, <1>2, <1>5, <1>6, <2>1, <2>2, GatewayStep
<1>7. ASSUME NEW echoed \in BOOLEAN, server' = Probed(server, value.probe, echoed),
             datagrams' = [up |-> datagrams.up \ {value},
                           down |-> IF echoed THEN datagrams.down \union {value} ELSE datagrams.down]
      PROVE ConnectIpInv'
  <2> DEFINE proven == IF echoed THEN server.proven \union {value.probe.size} ELSE server.proven
  <2>1. server.probes \in Nat /\ server.probes + 1 \in Nat /\ server.proven \in SUBSET Nat  BY <1>1 DEF ServerState
  <2>2. proven \in SUBSET Nat /\ server.proven \subseteq proven /\ (echoed => value.probe.size \in proven)
    BY <1>4, <2>1
  <2>3. server' = [server EXCEPT !.probes = server.probes + 1, !.proven = proven]  BY <1>1, <1>7 DEF Probed, ServerState
  <2> HIDE DEF proven
  <2>4. server' \in ServerState  BY <1>1, <2>1, <2>2, <2>3 DEF ServerState
  <2>5. /\ server'.phase = server.phase /\ server'.discovery = server.discovery /\ server'.selected = server.selected
        /\ server'.committed = server.committed /\ server'.assigned = server.assigned /\ server'.proven = proven
        /\ server'.control = server.control /\ server'.writing = server.writing /\ server'.data = server.data
        /\ server'.ready = server.ready /\ server'.ack = server.ack /\ server'.said = server.said
    BY <1>1, <2>3 DEF ServerState
  <2>6. AddressComesFirst'  BY <2>5 DEF ConnectIpInv, TunnelIsAgreed, AddressComesFirst
  <2>7. /\ datagrams' \in [up : SUBSET (Probes \cup PacketsOf), down : SUBSET (Probes \cup PacketsOf)]
        /\ datagrams'.up \subseteq datagrams.up
        /\ \A x \in datagrams'.down : x \in datagrams.down \/ (x.kind = "probe" /\ x.probe.size \in server'.proven)
    <3>1. CASE echoed
      <4>1. datagrams' = [up |-> datagrams.up \ {value}, down |-> datagrams.down \union {value}]  BY <1>7, <3>1
      <4>2. datagrams'.up = datagrams.up \ {value} /\ datagrams'.down = datagrams.down \union {value}  BY <4>1
      <4>3. datagrams.up \in SUBSET (Probes \cup PacketsOf) /\ datagrams.down \in SUBSET (Probes \cup PacketsOf)  BY <1>1
      <4>4. datagrams'.up \in SUBSET (Probes \cup PacketsOf) /\ datagrams'.down \in SUBSET (Probes \cup PacketsOf)
        BY <1>4, <4>2, <4>3
      <4>5. datagrams' \in [up : SUBSET (Probes \cup PacketsOf), down : SUBSET (Probes \cup PacketsOf)]
        BY <4>1, <4>2, <4>4
      <4> QED BY <1>3, <2>2, <2>5, <3>1, <4>2, <4>5
    <3>2. CASE ~echoed
      <4>1. datagrams' = [up |-> datagrams.up \ {value}, down |-> datagrams.down]  BY <1>7, <3>2
      <4>2. datagrams'.up = datagrams.up \ {value} /\ datagrams'.down = datagrams.down  BY <4>1
      <4>3. datagrams.up \in SUBSET (Probes \cup PacketsOf) /\ datagrams.down \in SUBSET (Probes \cup PacketsOf)  BY <1>1
      <4>4. datagrams'.up \in SUBSET (Probes \cup PacketsOf) /\ datagrams'.down \in SUBSET (Probes \cup PacketsOf)
        BY <4>2, <4>3
      <4>5. datagrams' \in [up : SUBSET (Probes \cup PacketsOf), down : SUBSET (Probes \cup PacketsOf)]
        BY <4>1, <4>2, <4>4
      <4> QED BY <4>2, <4>5
    <3> QED BY <3>1, <3>2
  <2> QED BY <1>2, <1>5, <2>2, <2>4, <2>5, <2>6, <2>7, GatewayStep
<1> QED BY <1>3, <1>6, <1>7

(* A packet of the client never comes before its address is assigned.       *)
LEMMA ReceiveDatagramStep == ASSUME ConnectIpInv, ReceiveDatagram PROVE ConnectIpInv'
<1>1. server \in ServerState /\ datagrams \in [up : SUBSET (Probes \cup PacketsOf), down : SUBSET (Probes \cup PacketsOf)]
  BY DEF ConnectIpInv, ConnectIpTypeOK
<1>2. server.phase = "running" /\ UNCHANGED <<config, client, stream, quic>>  BY DEF ReceiveDatagram, Running
<1>3. PICK value \in datagrams.up :
        value.kind = "packet" /\ server' \in InjectPacket(server) /\ datagrams' = [datagrams EXCEPT !.up = @ \ {value}]
  BY DEF ReceiveDatagram
<1>4. server.assigned  BY <1>3 DEF ConnectIpInv, AddressAgrees
<1>5. PICK phase \in {"running", "closing"}, error \in Errors : server' = [server EXCEPT !.phase = phase, !.error = error]
  <2>1. CASE server' = server
    <3>1. server' = [server EXCEPT !.phase = server.phase, !.error = server.error] /\ server.error \in Errors
      BY <1>1, <2>1 DEF ServerState
    <3> QED BY <1>2, <3>1
  <2>2. CASE server' = EndsWith(server, "router")  BY <2>2 DEF EndsWith, Errors
  <2> QED BY <1>3, <1>4, <2>1, <2>2 DEF InjectPacket
<1>6. server' \in ServerState  BY <1>1, <1>5 DEF ServerState
<1>7. /\ server'.phase = phase /\ server'.discovery = server.discovery /\ server'.selected = server.selected
      /\ server'.committed = server.committed /\ server'.assigned = server.assigned /\ server'.proven = server.proven
      /\ server'.control = server.control /\ server'.writing = server.writing /\ server'.data = server.data
      /\ server'.ready = server.ready /\ server'.ack = server.ack /\ server'.said = server.said
  BY <1>1, <1>5 DEF ServerState
<1>8. AddressComesFirst'  BY <1>7 DEF ConnectIpInv, TunnelIsAgreed, AddressComesFirst
<1>9. /\ \A x \in ToSet(server'.writing) : x.kind = "packet" => server'.ready
      /\ server'.data # <<>> => server'.ready
      /\ server'.ready \/ server'.ack = "sent" => "address" \in ToSet(server'.said)
  BY <1>7 DEF ConnectIpInv, AddressAgrees
<1>10. /\ datagrams' \in [up : SUBSET (Probes \cup PacketsOf), down : SUBSET (Probes \cup PacketsOf)]
       /\ datagrams'.up \subseteq datagrams.up /\ datagrams'.down = datagrams.down
  BY <1>1, <1>3
<1> QED BY <1>2, <1>6, <1>7, <1>8, <1>9, <1>10, GatewayStep

(* A lost datagram takes nothing back.                                      *)
LEMMA LoseDatagramStep == ASSUME ConnectIpInv, LoseDatagram PROVE ConnectIpInv'
<1>1. server \in ServerState /\ datagrams \in [up : SUBSET (Probes \cup PacketsOf), down : SUBSET (Probes \cup PacketsOf)]
  BY DEF ConnectIpInv, ConnectIpTypeOK
<1>2. PICK way \in {"up", "down"} : \E value \in datagrams[way] : datagrams' = [datagrams EXCEPT ![way] = @ \ {value}]
  BY DEF LoseDatagram
<1>3. PICK value \in datagrams[way] : datagrams' = [datagrams EXCEPT ![way] = @ \ {value}]  BY <1>2
<1>4. UNCHANGED <<config, client, server, stream, quic>>  BY DEF LoseDatagram
<1>5. server.phase # "idle"
  <2>1. datagrams.up # {} \/ datagrams.down # {}  BY <1>2
  <2> QED BY <2>1 DEF ConnectIpInv, EndsAgree
<1>6. /\ datagrams' \in [up : SUBSET (Probes \cup PacketsOf), down : SUBSET (Probes \cup PacketsOf)]
      /\ datagrams'.up \subseteq datagrams.up /\ datagrams'.down \subseteq datagrams.down
  <2>1. CASE way = "up"  BY <1>1, <1>3, <2>1
  <2>2. CASE way = "down"  BY <1>1, <1>3, <2>2
  <2> QED BY <2>1, <2>2
<1>7. /\ \A x \in ToSet(server.writing) : x.kind = "packet" => server.ready
      /\ server.data # <<>> => server.ready
      /\ server.ready \/ server.ack = "sent" => "address" \in ToSet(server.said)
  BY DEF ConnectIpInv, AddressAgrees
<1>8. AddressComesFirst'  BY <1>4 DEF ConnectIpInv, TunnelIsAgreed, AddressComesFirst
<1> QED BY <1>1, <1>4, <1>5, <1>6, <1>7, <1>8, GatewayStep

(* The connection is lost.                                                  *)
LEMMA LoseConnectionStep == ASSUME ConnectIpInv, LoseConnection PROVE ConnectIpInv'
<1> USE DEF ConnectIpInv
<1>1. quic' = "lost" /\ UNCHANGED <<config, client, server, stream, datagrams>>  BY DEF LoseConnection
<1>2. ConnectIpTypeOK'  BY <1>1 DEF ConnectIpTypeOK
<1>3. EndsAgree'  BY <1>1 DEF EndsAgree
<1>4. SearchAgrees'  BY <1>1 DEF SearchAgrees, InRange, Ceiling, Proven
<1>5. ChoiceAgrees'  BY <1>1 DEF ChoiceAgrees, InRange, Ceiling, Proven
<1>6. AddressAgrees'  BY <1>1 DEF AddressAgrees
<1>7. TunnelIsAgreed'  BY <1>1 DEF TunnelIsAgreed, NegotiationAgrees, AddressComesFirst, NoFallbackOnceAccepted, Occurs
<1> QED BY <1>2, <1>3, <1>4, <1>5, <1>6, <1>7

(* Nothing happens.                                                         *)
LEMMA Stutters == ASSUME ConnectIpInv, UNCHANGED vars PROVE ConnectIpInv'
<1> USE DEF ConnectIpInv, vars
<1>2. ConnectIpTypeOK'  BY DEF ConnectIpTypeOK
<1>3. EndsAgree'  BY DEF EndsAgree
<1>4. SearchAgrees'  BY DEF SearchAgrees, InRange, Ceiling, Proven
<1>5. ChoiceAgrees'  BY DEF ChoiceAgrees, InRange, Ceiling, Proven
<1>6. AddressAgrees'  BY DEF AddressAgrees
<1>7. TunnelIsAgreed'  BY DEF TunnelIsAgreed, NegotiationAgrees, AddressComesFirst, NoFallbackOnceAccepted, Occurs
<1> QED BY <1>2, <1>3, <1>4, <1>5, <1>6, <1>7

(* The writer puts a command on the stream, behind the response and         *)
(* everything before it.                                                    *)
LEMMA WriterWritesStep == ASSUME ConnectIpInv, WriterWrites PROVE ConnectIpInv'
<1> USE DEF ConnectIpInv
<1> DEFINE c == Head(server.writing)
           ack == IF c.kind = "address" /\ c.ack THEN "sent" ELSE server.ack
           down == stream.down \o server.writing
<1>1. server \in ServerState /\ stream \in [up : Seq(Ups), down : Seq(Downs)]  BY DEF ConnectIpTypeOK
<1>2. /\ server.phase \in {"running", "closing"} /\ quic = "open" /\ UNCHANGED <<config, client, datagrams, quic>>
      /\ server.writing # <<>> /\ server.writing \in Seq(Controls \cup PacketsOf) /\ server.ack \in {None, "waiting", "sent"}
      /\ server.said \in Seq({"packet", "address", "selected"}) /\ stream.down \in Seq(Downs) /\ Len(stream.down) \in Nat
  BY <1>1 DEF WriterWrites, WriterRuns, ServerState
<1>3. c \in Controls \cup PacketsOf /\ c \in ToSet(server.writing)  BY <1>2, SeqTail
<1>4. c.kind \in {"packet", "address", "selected"}  BY <1>3 DEF Controls, Selections, Addresses, PacketsOf
<1>5. server' = [server EXCEPT !.writing = <<>>, !.said = Append(server.said, c.kind), !.ack = ack]
  BY <1>1 DEF WriterWrites, ServerState
<1>6. stream' = [stream EXCEPT !.down = down]  BY DEF WriterWrites
<1>7. ack \in {None, "waiting", "sent"} /\ (ack = "sent" => c.kind = "address" \/ server.ack = "sent")  BY <1>2
<1> HIDE DEF ack, c
<1>8. server'.said = Append(server.said, c.kind)  BY <1>1, <1>5 DEF ServerState
<1>9. c.kind = "packet" => "address" \in ToSet(server.said)  BY <1>3 DEF AddressAgrees
<1>10. /\ AddressComesFirst' /\ server'.said \in Seq({"packet", "address", "selected"})
       /\ ToSet(server'.said) = ToSet(server.said) \cup {c.kind}
  BY <1>4, <1>8, <1>9, SaysInOrder
<1>11. server' \in ServerState
  <2> DEFINE said == Append(server.said, c.kind)
  <2>1. said \in Seq({"packet", "address", "selected"}) /\ <<>> \in Seq(Controls \cup PacketsOf)  BY <1>8, <1>10
  <2>2. server' = [server EXCEPT !.writing = <<>>, !.said = said, !.ack = ack]  BY <1>5
  <2> HIDE DEF said
  <2> QED BY <1>1, <1>7, <2>1, <2>2 DEF ServerState
<1>12. /\ server'.phase = server.phase /\ server'.discovery = server.discovery /\ server'.selected = server.selected
       /\ server'.committed = server.committed /\ server'.assigned = server.assigned /\ server'.proven = server.proven
       /\ server'.control = server.control /\ server'.writing = <<>> /\ server'.data = server.data
       /\ server'.ready = server.ready /\ server'.ack = ack
  BY <1>1, <1>5 DEF ServerState
<1>13. Controls \cup PacketsOf \subseteq Downs /\ \A x \in Controls \cup PacketsOf : x.kind # "response"
  BY DEF Downs, Controls, Selections, Addresses, PacketsOf
<1>14. server.writing \in Seq(Downs) /\ ToSet(server.writing) \subseteq Controls \cup PacketsOf
  <2>1. ToSet(server.writing) \subseteq Controls \cup PacketsOf  BY <1>2, SeqMember
  <2>2. server.writing \in Seq(Downs)  BY <1>2, <1>13
  <2> QED BY <2>1, <2>2
<1>15. /\ down \in Seq(Downs) /\ ToSet(down) = ToSet(stream.down) \cup ToSet(server.writing)
       /\ Len(down) = Len(stream.down) + Len(server.writing) /\ \A i \in 1..Len(stream.down) : down[i] = stream.down[i]
       /\ \A i \in 1..Len(server.writing) : down[Len(stream.down) + i] = server.writing[i]
  <2>1. stream.down \in Seq(Downs) /\ server.writing \in Seq(Downs)  BY <1>2, <1>14
  <2>2. ASSUME NEW s \in Seq(Downs), NEW t \in Seq(Downs)
        PROVE /\ s \o t \in Seq(Downs) /\ ToSet(s \o t) = ToSet(s) \cup ToSet(t)
              /\ Len(s \o t) = Len(s) + Len(t) /\ \A i \in 1..Len(s) : (s \o t)[i] = s[i]
              /\ \A i \in 1..Len(t) : (s \o t)[Len(s) + i] = t[i]
    BY SeqConcat
  <2> QED BY <2>1, <2>2, Zenon
<1> HIDE DEF down
<1>16. stream'.up = stream.up /\ stream'.down = down /\ stream' \in [up : Seq(Ups), down : Seq(Downs)]
  BY <1>1, <1>6, <1>15
<1>17. (\A n : InRange(n)' <=> InRange(n)) /\ (\A n : Proven(n)' <=> Proven(n))  BY <1>2, <1>12 DEF InRange, Ceiling, Proven
<1>18. ConnectIpTypeOK'  BY <1>2, <1>11, <1>16 DEF ConnectIpTypeOK
<1>19. Len(server.writing) \in Nat /\ \A i \in 1..Len(server.writing) : server.writing[i].kind # "response"
  <2>1. \A i \in 1..Len(server.writing) : server.writing[i] \in Controls \cup PacketsOf  BY <1>2
  <2>2. Len(server.writing) \in Nat  BY <1>2
  <2> QED BY <1>13, <2>1, <2>2
<1>20. client.phase = "requested" => Len(stream.down) >= 1
  <2>1. client.phase = "requested" => stream.down # <<>>  BY <1>2 DEF EndsAgree
  <2>2. stream.down # <<>> => Len(stream.down) >= 1  BY <1>2
  <2> QED BY <2>1, <2>2
<1>21. ASSUME NEW i \in 1..Len(down)
       PROVE /\ down[i].kind = "response" <=> (client.phase = "requested" /\ i = 1)
             /\ down[i].kind = "response" /\ down[i].status = 200 => down[i].offer = server.discovery /\ down[i].mtu = config.mtu
  <2>1. CASE i <= Len(stream.down)
    <3>1. i \in 1..Len(stream.down)  BY <1>2, <2>1
    <3>2. down[i] = stream.down[i]  BY <1>15, <3>1
    <3> QED BY <3>1, <3>2 DEF EndsAgree
  <2>2. CASE i > Len(stream.down)
    <3>1. i - Len(stream.down) \in 1..Len(server.writing) /\ Len(stream.down) + (i - Len(stream.down)) = i
      <4>1. Len(stream.down) \in Nat /\ Len(server.writing) \in Nat /\ Len(down) = Len(stream.down) + Len(server.writing)
        BY <1>2, <1>15, <1>19
      <4> DEFINE m == Len(stream.down)
                 n == Len(server.writing)
                 k == Len(down)
      <4>2. m \in Nat /\ n \in Nat /\ k = m + n /\ i \in 1..k /\ i > m  BY <2>2, <4>1
      <4> HIDE DEF m, n, k
      <4>3. i - m \in 1..n /\ m + (i - m) = i  BY <4>2
      <4> QED BY <4>3 DEF m, n
    <3>2. down[i] = server.writing[i - Len(stream.down)]  BY <1>15, <3>1
    <3>3. down[i].kind # "response"  BY <1>19, <3>1, <3>2
    <3>4. ~(client.phase = "requested" /\ i = 1)  BY <1>2, <1>20, <2>2
    <3> QED BY <3>3, <3>4
  <2> QED BY <1>2, <2>1, <2>2
<1>22. down # <<>>
  <2>1. Len(server.writing) >= 1  BY <1>2
  <2>3. Len(stream.down) \in Nat /\ Len(server.writing) \in Nat /\ Len(down) = Len(stream.down) + Len(server.writing)
    BY <1>2, <1>15, <1>19
  <2> DEFINE m == Len(stream.down)
             n == Len(server.writing)
             k == Len(down)
  <2>4. m \in Nat /\ n \in Nat /\ k = m + n /\ n >= 1  BY <2>1, <2>3
  <2> HIDE DEF m, n, k
  <2>5. k >= 1  BY <2>4
  <2>2. Len(down) >= 1  BY <2>5 DEF k
  <2> QED BY <2>2
<1>23. EndsAgree'
  <2>1. client.phase # "down" /\ server.phase # "idle"  BY <1>2 DEF EndsAgree
  <2> QED BY <1>2, <1>12, <1>16, <1>21, <1>22, <2>1 DEF EndsAgree, Establishing
<1>24. SearchAgrees'  BY <1>2, <1>12, <1>16, <1>17 DEF SearchAgrees
<1>25. ChoiceAgrees'  BY <1>2, <1>12, <1>15, <1>16, <1>17, SeqEmpty DEF ChoiceAgrees, Configured
<1>26. AddressAgrees'  BY <1>2, <1>7, <1>10, <1>12, <1>15, <1>16, SeqEmpty DEF AddressAgrees
<1>27. TunnelIsAgreed'  BY <1>10, <1>18, <1>23, <1>25, AgreementHolds, PTL
<1> QED BY <1>18, <1>23, <1>24, <1>25, <1>26, <1>27

(* The tunnel ends: the queues are dropped and the stream is closed behind  *)
(* what was written.                                                        *)
LEMMA CloseTunnelStep == ASSUME ConnectIpInv, CloseTunnel PROVE ConnectIpInv'
<1> USE DEF ConnectIpInv
<1> DEFINE e == [kind |-> "end"]
           down == IF quic = "open" THEN Append(stream.down, e) ELSE stream.down
           reason == Termination(server.error, server.cancelled).reason
<1>1. /\ server \in ServerState /\ stream \in [up : Seq(Ups), down : Seq(Downs)]
      /\ datagrams \in [up : SUBSET (Probes \cup PacketsOf), down : SUBSET (Probes \cup PacketsOf)]
  BY DEF ConnectIpTypeOK
<1>2. /\ server.phase = "closing" /\ UNCHANGED <<config, client, quic>> /\ server.error \in Errors /\ server.cancelled \in BOOLEAN
      /\ stream.down \in Seq(Downs) /\ Len(stream.down) \in Nat
  BY <1>1 DEF CloseTunnel, ServerState
<1>3. server' = [server EXCEPT !.phase = "ended", !.control = <<>>, !.data = <<>>, !.writing = <<>>,
                               !.proven = {}, !.probes = 0, !.ack = None, !.reason = reason]
  BY DEF CloseTunnel
<1>4. reason \in {"cancelled", "downlink_closed", "peer_closed", "quic_timeout", "capsule_writer_overloaded",
                 "capsule_writer_timeout", "router_error"}
  BY <1>2 DEF Termination, Errors, None
<1>5. stream' = [up |-> <<>>, down |-> down] /\ datagrams' = [datagrams EXCEPT !.up = {}]  BY DEF CloseTunnel
<1>6. e \in Downs /\ e.kind = "end"  BY DEF Downs
<1> HIDE DEF reason, e
<1>7. server' \in ServerState
  <2>1. /\ <<>> \in Seq(Controls) /\ <<>> \in Seq(PacketsOf) /\ <<>> \in Seq(Controls \cup PacketsOf) /\ {} \in SUBSET Nat /\ 0 \in Nat
        /\ None \in {None, "waiting", "sent"}
    OBVIOUS
  <2>2. reason \in Reasons  BY <1>4 DEF Reasons
  <2> QED BY <1>1, <1>3, <2>1, <2>2 DEF ServerState
<1>8. /\ server'.phase = "ended" /\ server'.discovery = server.discovery /\ server'.selected = server.selected
      /\ server'.committed = server.committed /\ server'.assigned = server.assigned
      /\ server'.control = <<>> /\ server'.writing = <<>> /\ server'.data = <<>>
      /\ server'.ready = server.ready /\ server'.ack = None /\ server'.said = server.said
  BY <1>1, <1>3 DEF ServerState
<1>9. /\ down \in Seq(Downs) /\ ToSet(down) \subseteq ToSet(stream.down) \cup {e}
      /\ Len(down) = Len(stream.down) \/ (quic = "open" /\ Len(down) = Len(stream.down) + 1 /\ down[Len(stream.down) + 1] = e)
      /\ \A i \in 1..Len(stream.down) : down[i] = stream.down[i]
  <2>1. CASE quic = "open"
    <3>1. down = Append(stream.down, e)  BY <2>1
    <3> HIDE DEF down
    <3> QED BY <1>2, <1>6, <2>1, <3>1, SeqAppend
  <2>2. CASE quic # "open"  BY <1>2, <2>2
  <2> QED BY <2>1, <2>2
<1>19. quic # "open" => down = stream.down  OBVIOUS
<1> HIDE DEF down
<1>10. stream' \in [up : Seq(Ups), down : Seq(Downs)] /\ stream'.up = <<>> /\ stream'.down = down  BY <1>5, <1>9
<1>11. /\ datagrams' \in [up : SUBSET (Probes \cup PacketsOf), down : SUBSET (Probes \cup PacketsOf)]
       /\ datagrams'.up = {} /\ datagrams'.down = datagrams.down
  BY <1>1, <1>5
<1>12. ConnectIpTypeOK'  BY <1>2, <1>7, <1>10, <1>11 DEF ConnectIpTypeOK
<1>13. (\A n : InRange(n)' <=> InRange(n)) /\ (\A n : Proven(n)')  BY <1>2, <1>8 DEF InRange, Ceiling, Proven
<1>20. client.phase = "requested" => Len(stream.down) >= 1
  <2>1. client.phase = "requested" => stream.down # <<>>  BY <1>2 DEF EndsAgree
  <2>2. stream.down # <<>> => Len(stream.down) >= 1  BY <1>2
  <2> QED BY <2>1, <2>2
<1>21. ASSUME NEW i \in 1..Len(down)
       PROVE /\ down[i].kind = "response" <=> (client.phase = "requested" /\ i = 1)
             /\ down[i].kind = "response" /\ down[i].status = 200 => down[i].offer = server.discovery /\ down[i].mtu = config.mtu
  <2>1. CASE i <= Len(stream.down)
    <3>1. i \in 1..Len(stream.down)  BY <1>2, <2>1
    <3>2. down[i] = stream.down[i]  BY <1>9, <3>1
    <3> QED BY <3>1, <3>2 DEF EndsAgree
  <2>2. CASE i > Len(stream.down)
    <3>1. i = Len(stream.down) + 1 /\ down[i] = e  BY <1>2, <1>9, <2>2
    <3>3. ~(client.phase = "requested" /\ i = 1)  BY <1>2, <1>20, <2>2
    <3> QED BY <1>6, <3>1, <3>3
  <2> QED BY <1>2, <2>1, <2>2
<1>14. EndsAgree'
  <2>1. client.phase # "dialing"  BY <1>2 DEF EndsAgree
  <2>2. client.phase = "down" => quic # "open" /\ down = <<>>  BY <1>19 DEF EndsAgree
  <2> QED BY <1>2, <1>8, <1>10, <1>11, <1>21, <2>1, <2>2, SeqEmpty DEF EndsAgree, Establishing
<1>15. SearchAgrees'  BY <1>2, <1>8, <1>10, <1>11, <1>13 DEF SearchAgrees
<1>16. ChoiceAgrees'  BY <1>2, <1>6, <1>8, <1>9, <1>10, <1>13, SeqEmpty DEF ChoiceAgrees, Configured
<1>17. AddressAgrees'  BY <1>2, <1>6, <1>8, <1>9, <1>10, <1>11, SeqEmpty DEF AddressAgrees, None
<1>22. AddressComesFirst'  BY <1>8 DEF TunnelIsAgreed, AddressComesFirst
<1>18. TunnelIsAgreed'  BY <1>12, <1>14, <1>16, <1>22, AgreementHolds, PTL
<1> QED BY <1>12, <1>14, <1>15, <1>16, <1>17, <1>18

(* The gateway answers the request. *)
LEMMA AnswerStep ==
  ASSUME ConnectIpInv, server.phase = "idle", stream.up # <<>>, UNCHANGED <<config, client, datagrams, quic>>,
         NEW phase \in {"running", "ended"}, NEW offer \in BOOLEAN, NEW reason \in Reasons, NEW r \in Downs,
         NEW down \in {<<>>, <<r>>}, offer => config.mtu > SafeMtu, phase = "running" => down # <<>>,
         down # <<>> => quic = "open", r.kind = "response",
         r.status = 200 => r.offer = offer /\ r.mtu = config.mtu,
         server' = [server EXCEPT !.phase = phase, !.discovery = offer, !.reason = reason],
         stream' = [up |-> Tail(stream.up), down |-> down]
  PROVE ConnectIpInv'
<1> USE DEF ConnectIpInv
<1>1. server \in ServerState /\ stream \in [up : Seq(Ups), down : Seq(Downs)]  BY DEF ConnectIpTypeOK
<1>2. /\ client.phase \in {"requested", "down"} /\ ~client.accepted /\ stream.down = <<>> /\ Len(stream.up) <= 1
      /\ datagrams.up = {} /\ datagrams.down = {} /\ server.selected = config.mtu /\ ~server.committed /\ ~server.assigned
      /\ server.control = <<>> /\ server.writing = <<>>
  BY DEF EndsAgree
<1>3. Tail(stream.up) = <<>>
  <2>1. stream.up \in Seq(Ups) /\ Len(stream.up) \in Nat  BY <1>1
  <2>2. Tail(stream.up) \in Seq(Ups) /\ Len(Tail(stream.up)) = Len(stream.up) - 1 /\ Len(stream.up) >= 1  BY <2>1, SeqTail
  <2> DEFINE m == Len(stream.up)
             n == Len(Tail(stream.up))
  <2>4. m \in Nat /\ n = m - 1 /\ m >= 1 /\ m <= 1  BY <1>2, <2>1, <2>2
  <2> HIDE DEF m, n
  <2>5. n = 0  BY <2>4
  <2>3. Len(Tail(stream.up)) = 0  BY <2>5 DEF n
  <2> QED BY <2>2, <2>3
<1>4. <<>> \in Seq(Downs) /\ <<r>> \in Seq(Downs) /\ Len(<<r>>) = 1 /\ <<r>>[1] = r /\ ToSet(<<r>>) = {r}  BY SeqOne
<1>5. /\ stream' \in [up : Seq(Ups), down : Seq(Downs)] /\ stream'.up = <<>> /\ stream'.down = down
  <2>1. <<>> \in Seq(Ups)  OBVIOUS
  <2>2. CASE down = <<>>  BY <1>3, <1>4, <2>1, <2>2
  <2>3. CASE down = <<r>>  BY <1>3, <1>4, <2>1, <2>3
  <2> QED BY <2>2, <2>3
<1>6. server' \in ServerState  BY <1>1 DEF ServerState
<1>7. /\ server'.phase = phase /\ server'.discovery = offer /\ server'.selected = server.selected
      /\ server'.committed = server.committed /\ server'.assigned = server.assigned /\ server'.proven = server.proven
      /\ server'.control = server.control /\ server'.writing = server.writing /\ server'.data = server.data
      /\ server'.ready = server.ready /\ server'.ack = server.ack /\ server'.said = server.said
  BY <1>1 DEF ServerState
<1>8. (\A n : InRange(n)' <=> InRange(n)) /\ (\A n : Proven(n) => Proven(n)')  BY <1>7 DEF InRange, Ceiling, Proven
<1>9. ConnectIpTypeOK'  BY <1>5, <1>6 DEF ConnectIpTypeOK
<1>10. /\ client.phase = "down" => down = <<>>
       /\ \A i \in 1..Len(down) : i = 1 /\ down[i] = r /\ client.phase = "requested"
       /\ ToSet(down) \subseteq {r}
  <2>1. CASE down = <<>>  BY <2>1, SeqEmpty
  <2>2. CASE down = <<r>>
    <3>1. down # <<>>  BY <2>2
    <3>2. client.phase = "requested"  BY <1>2, <3>1 DEF EndsAgree
    <3>3. Len(down) = 1 /\ down[1] = r /\ ToSet(down) = {r}  BY <1>4, <2>2
    <3> QED BY <3>2, <3>3
  <2> QED BY <2>1, <2>2
<1>11. EndsAgree'  BY <1>2, <1>5, <1>7, <1>10, SeqEmpty DEF EndsAgree, Establishing
<1>12. SearchAgrees'  BY <1>2, <1>5, <1>7, <1>8 DEF SearchAgrees
<1>13. ChoiceAgrees'  BY <1>2, <1>5, <1>7, <1>8, <1>10, SeqEmpty DEF ChoiceAgrees, Configured
<1>14. AddressAgrees'  BY <1>2, <1>5, <1>7, <1>10, SeqEmpty DEF AddressAgrees
<1>15. AddressComesFirst'  BY <1>7 DEF TunnelIsAgreed, AddressComesFirst
<1>16. TunnelIsAgreed'  BY <1>9, <1>11, <1>13, <1>15, AgreementHolds, PTL
<1> QED BY <1>9, <1>11, <1>12, <1>13, <1>14, <1>16

(* The gateway refuses the request or opens the tunnel.                     *)
LEMMA AnswerSteps == ASSUME ConnectIpInv, Refuse \/ Open PROVE ConnectIpInv'
<1>1. server \in ServerState /\ config \in [mtu : Mtus, datagrams : BOOLEAN] /\ server.phase = "idle" /\ stream.up # <<>>
      /\ UNCHANGED <<config, client, datagrams, quic>>
  BY DEF ConnectIpInv, ConnectIpTypeOK, Refuse, Open
<1>2. config.mtu \in Nat /\ config.datagrams \in BOOLEAN  BY <1>1, ConnectIpAssumption DEF ConnectIpAssumption
<1>3. stream.down = <<>> /\ server.discovery = FALSE  BY <1>1 DEF ConnectIpInv, EndsAgree, ServerState
<1>4. CASE Refuse
  <2>1. PICK status \in Refusals(Head(stream.up).is) :
          stream' = [up |-> Tail(stream.up),
                     down |-> IF quic = "open" THEN Append(stream.down, Response(status)) ELSE stream.down]
    BY <1>4 DEF Refuse
  <2>2. status \in {400, 401, 408, 409, 426, 429, 503}  BY DEF Refusals
  <2> DEFINE r == Response(status)
             down == IF quic = "open" THEN <<r>> ELSE <<>>
  <2>3. r \in Downs /\ r.kind = "response" /\ r.status = status  BY <1>2, <2>2 DEF Response, Downs
  <2> HIDE DEF r
  <2>4. stream' = [up |-> Tail(stream.up), down |-> down]
    <3>1. Append(<<>>, r) = <<r>>  OBVIOUS
    <3> QED BY <1>3, <2>1, <3>1 DEF r
  <2>5. server' = [server EXCEPT !.phase = "ended", !.discovery = FALSE, !.reason = "refused"]
    BY <1>1, <1>3, <1>4 DEF Refuse, ServerState
  <2>6. down \in {<<>>, <<r>>} /\ (down # <<>> => quic = "open")  OBVIOUS
  <2>7. r.status # 200  BY <2>2, <2>3
  <2> HIDE DEF down
  <2>8. "refused" \in Reasons  BY DEF Reasons
  <2> QED BY <1>1, <2>3, <2>4, <2>5, <2>6, <2>7, <2>8, AnswerStep
<1>5. CASE Open
  <2> DEFINE offer == config.datagrams /\ config.mtu > SafeMtu
             r == [Response(200) EXCEPT !.offer = offer]
  <2>1. offer \in BOOLEAN /\ (offer => config.mtu > SafeMtu)  BY <1>2
  <2>2. server' = [server EXCEPT !.phase = "running", !.discovery = offer] /\ quic = "open"
        /\ stream' = [up |-> Tail(stream.up), down |-> Append(stream.down, r)]
    BY <1>5 DEF Open
  <2> HIDE DEF offer
  <2>3. r = [kind |-> "response", status |-> 200, mtu |-> config.mtu, offer |-> offer]  BY DEF Response
  <2>4. r \in Downs /\ r.kind = "response" /\ r.offer = offer /\ r.mtu = config.mtu  BY <1>2, <2>1, <2>3 DEF Downs
  <2> HIDE DEF r
  <2>5. stream' = [up |-> Tail(stream.up), down |-> <<r>>]
    <3>1. Append(<<>>, r) = <<r>>  OBVIOUS
    <3> QED BY <1>3, <2>2, <3>1
  <2>6. server.reason \in Reasons  BY <1>1 DEF ServerState
  <2>7. server' = [server EXCEPT !.phase = "running", !.discovery = offer, !.reason = server.reason]
    BY <1>1, <2>2 DEF ServerState
  <2>8. <<r>> # <<>> /\ <<r>> \in {<<>>, <<r>>} /\ "running" \in {"running", "ended"}  OBVIOUS
  <2> HIDE DEF offer
  <2>9. quic = "open" /\ stream.up # <<>> /\ server.phase = "idle"  BY <1>1, <2>2
  <2>10. ASSUME NEW down, down = <<r>> PROVE ConnectIpInv'
    <3>1. down \in {<<>>, <<r>>} /\ down # <<>> /\ stream' = [up |-> Tail(stream.up), down |-> down]
      BY <2>5, <2>8, <2>10
    <3> QED BY <1>1, <2>1, <2>4, <2>6, <2>7, <2>8, <2>9, <3>1, AnswerStep
  <2> QED BY <2>10
<1> QED BY <1>4, <1>5

(* The gateway takes a capsule of the negotiation. *)
LEMMA CapsuleStep ==
  ASSUME ConnectIpInv, server.phase = "running", stream.up # <<>>, UNCHANGED <<config, client, datagrams, quic>>,
         stream' = [stream EXCEPT !.up = Tail(@)], server' \in ServerState, server'.phase \in {"running", "closing"},
         server'.discovery = server.discovery, server'.proven = server.proven, server'.writing = server.writing,
         server'.data = server.data, server'.ready = server.ready, server'.said = server.said,
         server.committed => server'.committed /\ server'.selected = server.selected,
         ~server.discovery => ~server'.committed, ~server'.committed => server'.selected = server.selected,
         \A x \in ToSet(stream.up) : x.kind = "select" /\ server'.committed => x.mtu = server'.selected,
         client.phase = "selecting" /\ server'.committed => server'.selected = client.best,
         server.assigned => server'.assigned, server'.ack = "sent" => server.ack = "sent",
         \A x \in ToSet(server'.control) : \/ x \in ToSet(server.control)
                                           \/ x.kind = "selected" /\ server'.committed /\ x.mtu = server'.selected
                                           \/ x.kind = "address" /\ server'.assigned
  PROVE ConnectIpInv'
<1> USE DEF ConnectIpInv
<1>1. server \in ServerState /\ stream \in [up : Seq(Ups), down : Seq(Downs)]  BY DEF ConnectIpTypeOK
<1>2. client.phase \notin {"dialing", "requested", "probing", "proposing"}  BY DEF EndsAgree, SearchAgrees
<1>5. Tail(stream.up) \in Seq(Ups) /\ ToSet(Tail(stream.up)) \subseteq ToSet(stream.up)  BY <1>1, SeqTail
<1>6. /\ stream' \in [up : Seq(Ups), down : Seq(Downs)] /\ stream'.down = stream.down
      /\ ToSet(stream'.up) \subseteq ToSet(stream.up)
  BY <1>1, <1>5
<1>7. (\A n : InRange(n)' <=> InRange(n)) /\ (\A n : Proven(n) => Proven(n)')  BY DEF InRange, Ceiling, Proven
<1>8. ConnectIpTypeOK'  BY <1>6 DEF ConnectIpTypeOK
<1>9. EndsAgree'  BY <1>2, <1>6 DEF EndsAgree, Establishing
<1>10. SearchAgrees'  BY <1>2, <1>6, <1>7 DEF SearchAgrees
<1>11. ChoiceAgrees'
  <2>1. ~server'.discovery => ~server'.committed /\ server'.selected = config'.mtu  BY DEF ChoiceAgrees
  <2>2. \A x \in ToSet(stream'.up) : x.kind = "select" =>
          /\ server'.discovery /\ InRange(x.mtu)' /\ Proven(x.mtu)'
          /\ server'.committed => x.mtu = server'.selected
          /\ client'.phase = "selecting" => x.mtu = client'.best
    BY <1>6, <1>7 DEF ChoiceAgrees
  <2>3. \A x, y \in ToSet(stream'.up) : x.kind = "select" /\ y.kind = "select" => x.mtu = y.mtu  BY <1>6 DEF ChoiceAgrees
  <2>4. client'.phase = "selecting" /\ server'.committed => server'.selected = client'.best  OBVIOUS
  <2>5. \A x \in ToSet(server'.control) \cup ToSet(server'.writing) \cup ToSet(stream'.down) \cup ToSet(client'.inbound) :
          x.kind = "selected" => server'.committed /\ x.mtu = server'.selected
    BY <1>6 DEF ChoiceAgrees
  <2>6. client'.phase \in Configured => client'.mtu = server'.selected /\ (server'.discovery => server'.committed)
    BY DEF ChoiceAgrees
  <2> QED BY <2>1, <2>2, <2>3, <2>4, <2>5, <2>6 DEF ChoiceAgrees
<1>12. AddressAgrees'  BY <1>6 DEF AddressAgrees
<1>13. AddressComesFirst'  BY DEF TunnelIsAgreed, AddressComesFirst
<1>14. TunnelIsAgreed'  BY <1>8, <1>9, <1>11, <1>13, AgreementHolds, PTL
<1> QED BY <1>8, <1>9, <1>10, <1>11, <1>12, <1>14

(* A capsule of the client is never a protocol error: the proposal can be   *)
(* committed to, the address request comes after it, and a packet after     *)
(* both.                                                                    *)
LEMMA ReceiveCapsuleStep == ASSUME ConnectIpInv, ReceiveCapsule PROVE ConnectIpInv'
<1> DEFINE capsule == Head(stream.up)
<1>1. /\ server \in ServerState /\ stream \in [up : Seq(Ups), down : Seq(Downs)]
      /\ server.phase = "running" /\ stream.up # <<>> /\ UNCHANGED <<config, client, datagrams, quic>>
      /\ stream' = [stream EXCEPT !.up = Tail(@)]
  BY DEF ConnectIpInv, ConnectIpTypeOK, ReceiveCapsule, Running
<1>2. capsule \in Ups /\ capsule \in ToSet(stream.up)  BY <1>1, SeqTail
<1>3. server' \in CASE capsule.kind = "select" -> {SelectMtu(server, capsule.mtu)}
                    [] capsule.kind = "addressRequest" -> {AssignAddress(server)}
                    [] capsule.kind = "packet" -> InjectPacket(server)
  BY DEF ReceiveCapsule
<1> HIDE DEF capsule
<1>4. /\ server.error \in Errors /\ server.control \in Seq(Controls) /\ server.selected \in Nat
      /\ server.committed \in BOOLEAN /\ server.assigned \in BOOLEAN /\ server.ack \in {None, "waiting", "sent"}
      /\ "overloaded" \in Errors /\ "router" \in Errors
  BY <1>1 DEF ServerState, Errors
<1>5. capsule.kind # "request"  BY <1>1, <1>2 DEF ConnectIpInv, EndsAgree
<1>6. capsule.kind \in {"select", "addressRequest", "packet"}  BY <1>2, <1>5 DEF Ups, PacketsOf
<1>7. /\ ~server.discovery => ~server.committed
      /\ \A x \in ToSet(stream.up) : x.kind = "select" /\ server.committed => x.mtu = server.selected
      /\ client.phase = "selecting" /\ server.committed => server.selected = client.best
  BY DEF ConnectIpInv, ChoiceAgrees
<1>8. CASE capsule.kind = "select"
  <2> DEFINE mtu == capsule.mtu
             answer == [kind |-> "selected", mtu |-> mtu]
  <2>1. /\ server.discovery /\ InRange(mtu) /\ Proven(mtu) /\ (server.committed => mtu = server.selected)
        /\ client.phase = "selecting" => mtu = client.best
        /\ \A x \in ToSet(stream.up) : x.kind = "select" => x.mtu = mtu
    BY <1>2, <1>8 DEF ConnectIpInv, ChoiceAgrees
  <2>2. CanCommit(server, mtu)  BY <1>1, <2>1 DEF CanCommit, InRange, Ceiling, Proven
  <2>3. mtu \in Nat  BY <1>2, <1>8 DEF Ups, PacketsOf
  <2>4. server' = Control([server EXCEPT !.selected = mtu, !.committed = TRUE], answer)
    BY <1>3, <1>8, <2>1, <2>2 DEF SelectMtu
  <2>5. answer \in Controls /\ answer.kind = "selected" /\ answer.mtu = mtu  BY <2>3 DEF Controls, Selections
  <2> HIDE DEF mtu
  <2>6. CASE Len(server.control) < ControlCommands
    <3> DEFINE control == Append(server.control, answer)
    <3>1. server' = [server EXCEPT !.phase = server.phase, !.error = server.error, !.control = control, !.selected = mtu,
                                   !.committed = TRUE, !.assigned = server.assigned, !.ack = server.ack]
      BY <1>1, <2>4, <2>6 DEF Control, ServerState
    <3> HIDE DEF answer
    <3>2. control \in Seq(Controls) /\ ToSet(control) = ToSet(server.control) \cup {answer}  BY <1>4, <2>5, SeqAppend
    <3> HIDE DEF control
    <3>3. \A x \in ToSet(control) : x \in ToSet(server.control) \/ (x.kind = "selected" /\ x.mtu = mtu)
      BY <2>5, <3>2
    <3>4. server' \in ServerState  BY <1>1, <1>4, <2>3, <3>1, <3>2 DEF ServerState
    <3>5. /\ server'.phase \in {"running", "closing"} /\ server'.discovery = server.discovery /\ server'.proven = server.proven
          /\ server'.writing = server.writing /\ server'.data = server.data /\ server'.ready = server.ready
          /\ server'.said = server.said /\ server'.control = control /\ server'.selected = mtu
          /\ server'.committed = TRUE /\ server'.assigned = server.assigned /\ server'.ack = server.ack
      BY <1>1, <1>4, <3>1 DEF ServerState
    <3> QED BY <1>1, <2>1, <3>3, <3>4, <3>5, CapsuleStep
  <2>7. CASE ~(Len(server.control) < ControlCommands)
    <3>1. server' = [server EXCEPT !.phase = "closing", !.error = "overloaded", !.control = server.control, !.selected = mtu,
                                   !.committed = TRUE, !.assigned = server.assigned, !.ack = server.ack]
      BY <1>1, <2>4, <2>7 DEF Control, EndsWith, ServerState
    <3>2. server' \in ServerState  BY <1>1, <1>4, <2>3, <3>1 DEF ServerState
    <3>3. /\ server'.phase \in {"running", "closing"} /\ server'.discovery = server.discovery /\ server'.proven = server.proven
          /\ server'.writing = server.writing /\ server'.data = server.data /\ server'.ready = server.ready
          /\ server'.said = server.said /\ server'.control = server.control /\ server'.selected = mtu
          /\ server'.committed = TRUE /\ server'.assigned = server.assigned /\ server'.ack = server.ack
      BY <1>1, <1>4, <3>1 DEF ServerState
    <3> QED BY <1>1, <2>1, <3>2, <3>3, CapsuleStep
  <2> QED BY <2>6, <2>7
<1>9. CASE capsule.kind = "addressRequest"
  <2> DEFINE ack == IF ~server.assigned THEN "waiting" ELSE server.ack
             answer == [kind |-> "address", ack |-> ~server.assigned]
  <2>1. ~(server.discovery /\ ~server.committed)  BY <1>2, <1>9 DEF ConnectIpInv, AddressAgrees
  <2>2. ack \in {None, "waiting", "sent"} /\ (ack = "sent" => server.ack = "sent")  BY <1>4
  <2>3. server' = [Control([server EXCEPT !.ack = ack], answer) EXCEPT !.assigned = TRUE]
    BY <1>3, <1>9, <2>1 DEF AssignAddress
  <2>5. answer \in Controls /\ answer.kind = "address"  BY <1>4 DEF Controls, Addresses
  <2> HIDE DEF ack, answer
  <2>6. CASE Len(server.control) < ControlCommands
    <3> DEFINE control == Append(server.control, answer)
    <3>1. server' = [server EXCEPT !.phase = server.phase, !.error = server.error, !.control = control, !.selected = server.selected,
                                   !.committed = server.committed, !.assigned = TRUE, !.ack = ack]
      BY <1>1, <2>3, <2>6 DEF Control, ServerState
    <3>2. control \in Seq(Controls) /\ ToSet(control) = ToSet(server.control) \cup {answer}  BY <1>4, <2>5, SeqAppend
    <3> HIDE DEF control
    <3>3. \A x \in ToSet(control) : x \in ToSet(server.control) \/ x.kind = "address"  BY <2>5, <3>2
    <3>4. server' \in ServerState  BY <1>1, <1>4, <2>2, <3>1, <3>2 DEF ServerState
    <3>5. /\ server'.phase \in {"running", "closing"} /\ server'.discovery = server.discovery /\ server'.proven = server.proven
          /\ server'.writing = server.writing /\ server'.data = server.data /\ server'.ready = server.ready
          /\ server'.said = server.said /\ server'.control = control /\ server'.selected = server.selected
          /\ server'.committed = server.committed /\ server'.assigned = TRUE /\ server'.ack = ack
      BY <1>1, <1>4, <3>1 DEF ServerState
    <3> QED BY <1>1, <1>7, <2>2, <3>3, <3>4, <3>5, CapsuleStep
  <2>7. CASE ~(Len(server.control) < ControlCommands)
    <3>1. server' = [server EXCEPT !.phase = "closing", !.error = "overloaded", !.control = server.control, !.selected = server.selected,
                                   !.committed = server.committed, !.assigned = TRUE, !.ack = ack]
      BY <1>1, <2>3, <2>7 DEF Control, EndsWith, ServerState
    <3>2. server' \in ServerState  BY <1>1, <1>4, <2>2, <3>1 DEF ServerState
    <3>3. /\ server'.phase \in {"running", "closing"} /\ server'.discovery = server.discovery /\ server'.proven = server.proven
          /\ server'.writing = server.writing /\ server'.data = server.data /\ server'.ready = server.ready
          /\ server'.said = server.said /\ server'.control = server.control /\ server'.selected = server.selected
          /\ server'.committed = server.committed /\ server'.assigned = TRUE /\ server'.ack = ack
      BY <1>1, <1>4, <3>1 DEF ServerState
    <3> QED BY <1>1, <1>7, <2>2, <3>2, <3>3, CapsuleStep
  <2> QED BY <2>6, <2>7
<1>10. CASE capsule.kind = "packet"
  <2>1. server.assigned  BY <1>2, <1>10 DEF ConnectIpInv, AddressAgrees
  <2>2. server' \in {server, EndsWith(server, "router")}  BY <1>3, <1>10, <2>1 DEF InjectPacket
  <2>3. server' \in ServerState  BY <1>1, <1>4, <2>2 DEF EndsWith, ServerState
  <2>4. /\ server'.phase \in {"running", "closing"} /\ server'.discovery = server.discovery /\ server'.proven = server.proven
        /\ server'.writing = server.writing /\ server'.data = server.data /\ server'.ready = server.ready
        /\ server'.said = server.said /\ server'.control = server.control /\ server'.selected = server.selected
        /\ server'.committed = server.committed /\ server'.assigned = server.assigned /\ server'.ack = server.ack
    BY <1>1, <1>4, <2>2 DEF EndsWith, ServerState
  <2> QED BY <1>1, <1>7, <2>3, <2>4, CapsuleStep
<1> QED BY <1>6, <1>8, <1>9, <1>10

(* Every step of either end keeps the invariant. *)
LEMMA Steps == ASSUME ConnectIpInv, [Next]_vars PROVE ConnectIpInv'
<1>1. CASE ClientSteps
  BY <1>1, FailingSteps, SendRequestStep, ReceiveResponseStep, SearchSteps, SendProbeStep, ProposeStep, AskForAddressStep,
     TakeInboundStep, ReadCapsuleStep, ReadDatagramStep, ConnectionStopsStep, ReceiveStep
     DEF ClientSteps
<1>2. CASE ServerSteps
  BY <1>2, AnswerSteps, ReceiveCapsuleStep, ReceiveProbeStep, ReceiveDatagramStep, AssignmentWrittenStep, SendDownlinkStep,
     GatewayEnds, WriterTakesStep, WriterWritesStep, CloseTunnelStep
     DEF ServerSteps
<1>3. CASE Cancel \/ Send \/ DisableDatagrams \/ DownlinkClosed \/ CancelSession \/ LoseDatagram \/ LoseConnection
  BY <1>3, FailingSteps, SendStep, GatewayEnds, LoseDatagramStep, LoseConnectionStep
<1>4. CASE UNCHANGED vars  BY <1>4, Stutters
<1> QED BY <1>1, <1>2, <1>3, <1>4 DEF Next

(* Both ends of a CONNECT-IP tunnel agree in every reachable state: on the  *)
(* MTU that discover_mtu and MtuResponder settle on, on the address before  *)
(* the first packet of send_downlink, and on whether there is a tunnel, so  *)
(* that connect() never falls back from one the gateway has accepted.       *)
THEOREM TunnelIsAlwaysAgreed == Spec => []TunnelIsAgreed
<1>1. Init => ConnectIpInv  BY Initially
<1>2. ConnectIpInv /\ [Next]_vars => ConnectIpInv'  BY Steps
<1>3. ConnectIpInv => TunnelIsAgreed  BY DEF ConnectIpInv
<1> QED BY <1>1, <1>2, <1>3, PTL DEF Spec
----------------------------------------------------------------------------
(* A lane's task, its connection and its queue.                             *)
LaneStates == {"down", "asked", "opened", "up", "closing", "gone"}
Conns == [state : {"none", "open", "lost"}, lease : Leases \cup {Absent}, up : Seq(Flows)]
UploadQueues == [open : BOOLEAN, items : Seq(Flows)]
Entries == [flow : Flows, lane : Lanes]

(* What one lane is: the lease of a live one is the group's, no packet      *)
(* waits for a connection that is yet to come, and the queue of a live one  *)
(* is open unless the tunnel could not be established.                      *)
LaneOK(pc, k, q, agreed, phase) ==
  /\ pc \in LaneStates /\ k \in Conns /\ q \in UploadQueues
  /\ k.state # "none" => k.lease \in Leases
  /\ pc \in {"opened", "up"} => k.state # "none" /\ k.lease = agreed
  /\ (q.items # <<>> \/ q.open) => pc \in {"opened", "up", "closing"}
  /\ pc = "opened" => q.items = <<>>
  /\ pc # "up" => k.up = <<>>
  /\ (pc \in {"opened", "up"} /\ ~q.open) => phase = "failed"

(* The dispatcher, and the startup wait and the monitor.                    *)
Routes == [pc : {"idle", "chosen", "refused"}, flow : Flows \cup {Absent}, lane : Lanes \cup {Absent}]
Early == {"starting", "armed", "parked", "failed"}
Watches == [pc : Early \cup {"running", "watchArmed", "watching", "lost", "lostArmed", "lostParked", "stopped"}, woken : BOOLEAN]

LanesOK ==
  /\ DOMAIN lane = Lanes /\ DOMAIN conn = Lanes /\ DOMAIN queue = Lanes
  /\ \A l \in Lanes : LaneOK(lane[l], conn[l], queue[l], lease, watch.pc)
  /\ active = {l \in Lanes : lane[l] = "up"}
  /\ lease \in Leases \cup {Absent}
  /\ granted \in Leases
  /\ route \in Routes /\ watch \in Watches

PinnedTo(p, f, l) == \E i \in 1..Len(p) : p[i].flow = f /\ p[i].lane = l
Once(p) == \A i, j \in 1..Len(p) : p[i].flow = p[j].flow => i = j

(* The packet being routed, once the tunnel is handed out: its lane has not been dialed again, and a data  *)
(* flow is pinned to the lane that was chosen for it, and to none while the *)
(* control lane carries it or it was refused.                               *)
RouteOK(r, p, pcs, phase) ==
  r.pc # "idle" =>
    /\ r.lane \in Lanes /\ r.flow \in Flows
    /\ pcs[r.lane] \notin {"asked", "opened"}
    /\ phase \notin Early
    /\ ~IsControl(r.flow) =>
         \/ r.pc = "chosen" /\ r.lane # 0 /\ PinnedTo(p, r.flow, r.lane)
         \/ (r.pc = "refused" \/ r.lane = 0) /\ \A l \in Lanes : ~PinnedTo(p, r.flow, l)

(* A flow under way on a live data lane is pinned to it.                    *)
PinsOK ==
  /\ pins \in Seq(Entries) /\ Once(pins)
  /\ \A f \in (TcpFlows \cup DatagramFlows) \ evicted, l \in DataLanes : Carries(l, f) => PinnedTo(pins, f, l)

LanesInv == LanesOK /\ RouteOK(route, pins, lane, watch.pc) /\ PinsOK
----------------------------------------------------------------------------
(* Sequences.                                                               *)
LEMMA AppendedRange ==
  ASSUME NEW S, NEW s \in Seq(S), NEW x \in S
  PROVE  Append(s, x) \in Seq(S) /\ Range(Append(s, x)) = Range(s) \cup {x}
<1>1. Append(s, x) \in Seq(S) /\ Len(Append(s, x)) = Len(s) + 1  OBVIOUS
<1>2. \A i \in 1..Len(s) : Append(s, x)[i] = s[i]  OBVIOUS
<1>3. Append(s, x)[Len(s) + 1] = x  OBVIOUS
<1>4. DOMAIN s = 1..Len(s) /\ DOMAIN Append(s, x) = 1..(Len(s) + 1)  BY <1>1
<1>5. Len(s) \in Nat  OBVIOUS
<1>6. \A y : y \in Range(Append(s, x)) <=> (y \in Range(s) \/ y = x)
  <2> TAKE y
  <2>1. y \in Range(Append(s, x)) <=> \E i \in 1..(Len(s) + 1) : Append(s, x)[i] = y  BY <1>4 DEF Range
  <2>2. y \in Range(s) <=> \E i \in 1..Len(s) : s[i] = y  BY <1>4 DEF Range
  <2>3. ASSUME NEW i \in 1..(Len(s) + 1), Append(s, x)[i] = y  PROVE y \in Range(s) \/ y = x
    <3>1. CASE i = Len(s) + 1  BY <3>1, <2>3, <1>3
    <3>2. CASE i # Len(s) + 1  BY <3>2, <2>3, <1>2, <1>5, <2>2
    <3> QED BY <3>1, <3>2
  <2>4. ASSUME NEW i \in 1..Len(s), s[i] = y  PROVE \E k \in 1..(Len(s) + 1) : Append(s, x)[k] = y
    BY <2>4, <1>2, <1>5
  <2>5. y = x => \E k \in 1..(Len(s) + 1) : Append(s, x)[k] = y  BY <1>3, <1>5
  <2> QED BY <2>1, <2>2, <2>3, <2>4, <2>5
<1> QED BY <1>1, <1>6

LEMMA RemovedAt ==
  ASSUME NEW S, NEW s \in Seq(S), NEW i \in 1..Len(s)
  PROVE  /\ RemoveAt(s, i) \in Seq(S) /\ Len(RemoveAt(s, i)) = Len(s) - 1
         /\ \A j \in 1..(Len(s) - 1) : RemoveAt(s, i)[j] = IF j < i THEN s[j] ELSE s[j + 1]
<1> DEFINE a == SubSeq(s, 1, i - 1)
           b == SubSeq(s, i + 1, Len(s))
<1>1. a \in Seq(S) /\ Len(a) = i - 1 /\ \A j \in 1..(i - 1) : a[j] = s[j]  OBVIOUS
<1>2. b \in Seq(S) /\ Len(b) = Len(s) - i /\ \A j \in 1..(Len(s) - i) : b[j] = s[i + j]  OBVIOUS
<1>3. RemoveAt(s, i) = a \o b  BY DEF RemoveAt
<1> HIDE DEF a, b
<1>6. a \in Seq(S) /\ b \in Seq(S)  BY <1>1, <1>2
<1>7. a \o b \in Seq(S) /\ Len(a \o b) = Len(a) + Len(b)  BY <1>6
<1>8. Len(a) + Len(b) = Len(s) - 1  BY <1>1, <1>2
<1>4. a \o b \in Seq(S) /\ Len(a \o b) = Len(s) - 1  BY <1>7, <1>8
<1>5. ASSUME NEW j \in 1..(Len(s) - 1)  PROVE (a \o b)[j] = IF j < i THEN s[j] ELSE s[j + 1]
  <2>1. CASE j < i
    <3>1. j \in 1..Len(a)  BY <2>1, <1>1
    <3>2. (a \o b)[j] = a[j]  BY <3>1, <1>1, <1>2
    <3> QED BY <3>1, <3>2, <2>1, <1>1
  <2>2. CASE ~(j < i)
    <3>1. j \in (Len(a) + 1)..(Len(a) + Len(b)) /\ j - Len(a) \in 1..(Len(s) - i) /\ i + (j - Len(a)) = j + 1  BY <2>2, <1>1, <1>2
    <3>2. (a \o b)[j] = b[j - Len(a)]  BY <3>1, <1>1, <1>2
    <3> QED BY <3>1, <3>2, <2>2, <1>2
  <2> QED BY <2>1, <2>2
<1> QED BY <1>3, <1>4, <1>5

LEMMA RemovedRange ==
  ASSUME NEW S, NEW s \in Seq(S), NEW i \in 1..Len(s)
  PROVE  RemoveAt(s, i) \in Seq(S) /\ Range(RemoveAt(s, i)) \subseteq Range(s)
<1> DEFINE t == RemoveAt(s, i)
<1>1. /\ t \in Seq(S) /\ Len(t) = Len(s) - 1
      /\ \A j \in 1..(Len(s) - 1) : t[j] = IF j < i THEN s[j] ELSE s[j + 1]
  BY RemovedAt
<1> HIDE DEF t
<1>2. DOMAIN s = 1..Len(s) /\ DOMAIN t = 1..(Len(s) - 1)  BY <1>1
<1>3. ASSUME NEW j \in 1..(Len(s) - 1)  PROVE t[j] \in Range(s)
  <2>1. j \in 1..Len(s) /\ j + 1 \in 1..Len(s)  OBVIOUS
  <2> QED BY <2>1, <1>1, <1>2 DEF Range
<1>4. \A y \in Range(t) : y \in Range(s)  BY <1>2, <1>3 DEF Range
<1> QED BY <1>1, <1>4 DEF t

LEMMA TailRange ==
  ASSUME NEW S, NEW s \in Seq(S), s # <<>>
  PROVE  Tail(s) \in Seq(S) /\ Range(Tail(s)) \subseteq Range(s)
<1>1. Tail(s) \in Seq(S) /\ Len(Tail(s)) = Len(s) - 1 /\ \A j \in 1..(Len(s) - 1) : Tail(s)[j] = s[j + 1]  OBVIOUS
<1>2. DOMAIN s = 1..Len(s) /\ DOMAIN Tail(s) = 1..(Len(s) - 1)  BY <1>1
<1>3. \A y \in Range(Tail(s)) : \E j \in 1..(Len(s) - 1) : y = s[j + 1]  BY <1>1, <1>2 DEF Range
<1>4. \A j \in 1..(Len(s) - 1) : j + 1 \in 1..Len(s)  OBVIOUS
<1>5. \A y \in Range(Tail(s)) : y \in Range(s)  BY <1>2, <1>3, <1>4 DEF Range
<1> QED BY <1>1, <1>5

LEMMA JoinedRange ==
  ASSUME NEW S, NEW s \in Seq(S), NEW t \in Seq(S)
  PROVE  s \o t \in Seq(S) /\ Range(s \o t) \subseteq Range(s) \cup Range(t)
<1>1. /\ s \o t \in Seq(S) /\ Len(s \o t) = Len(s) + Len(t)
      /\ \A i \in 1..Len(s) : (s \o t)[i] = s[i]
      /\ \A i \in (Len(s) + 1)..(Len(s) + Len(t)) : (s \o t)[i] = t[i - Len(s)]
  OBVIOUS
<1>2. DOMAIN s = 1..Len(s) /\ DOMAIN t = 1..Len(t) /\ DOMAIN (s \o t) = 1..(Len(s) + Len(t))  BY <1>1
<1>3. ASSUME NEW i \in 1..(Len(s) + Len(t))  PROVE (s \o t)[i] \in Range(s) \cup Range(t)
  <2>1. CASE i \in 1..Len(s)  BY <2>1, <1>1, <1>2 DEF Range
  <2>2. CASE i \notin 1..Len(s)
    <3>1. i \in (Len(s) + 1)..(Len(s) + Len(t)) /\ i - Len(s) \in 1..Len(t)  BY <2>2
    <3> QED BY <3>1, <1>1, <1>2 DEF Range
  <2> QED BY <2>1, <2>2
<1>4. \A y \in Range(s \o t) : y \in Range(s) \cup Range(t)  BY <1>2, <1>3 DEF Range
<1> QED BY <1>1, <1>4

LEMMA EmptyRange == Range(<<>>) = {} /\ <<>> \in Seq(Flows)
BY DEF Range

LEMMA FirstIsOne ==
  ASSUME NEW S, S # {}, S \subseteq Nat
  PROVE  FirstOf(S) \in S
<1>1. IsWellFoundedOn(OpToRel(<, Nat), Nat)  BY NatLessThanWellFounded
<1>2. PICK x \in S : \A y \in S : ~(<<y, x>> \in OpToRel(<, Nat))  BY <1>1, WFMin
<1>3. ASSUME NEW y \in S PROVE x <= y
  <2>1. x \in Nat /\ y \in Nat  OBVIOUS
  <2>2. ~(y < x)  BY <1>2, <2>1, Zenon DEF OpToRel
  <2> QED BY <2>1, <2>2
<1> QED BY <1>3 DEF FirstOf

(* The flow table.                                                          *)
LEMMA UnpinnedFlow ==
  ASSUME NEW p \in Seq(Entries), Once(p), NEW f
  PROVE  /\ Unpinned(p, f) \in Seq(Entries) /\ Once(Unpinned(p, f))
         /\ \A i \in 1..Len(Unpinned(p, f)) : Unpinned(p, f)[i].flow # f
         /\ \A g, l : g # f => (PinnedTo(Unpinned(p, f), g, l) <=> PinnedTo(p, g, l))
<1>0. Len(p) \in Nat /\ DOMAIN p = 1..Len(p)  OBVIOUS
<1> DEFINE at == {i \in DOMAIN p : p[i].flow = f}
           u == Unpinned(p, f)
<1>1. CASE at = {}
  <2>1. u = p  BY <1>1 DEF Unpinned
  <2>2. \A i \in 1..Len(p) : p[i].flow # f  BY <1>0, <1>1
  <2> QED BY <2>1, <2>2
<1>2. CASE at # {}
  <2> DEFINE n == CHOOSE i \in at : TRUE
  <2>1. n \in at  BY <1>2
  <2>2. u = RemoveAt(p, n)  BY <1>2 DEF Unpinned
  <2> HIDE DEF n
  <2>3. n \in 1..Len(p) /\ p[n].flow = f  BY <2>1, <1>0
  <2>4. /\ u \in Seq(Entries) /\ Len(u) = Len(p) - 1
        /\ \A j \in 1..(Len(p) - 1) : u[j] = IF j < n THEN p[j] ELSE p[j + 1]
    BY <2>2, <2>3, RemovedAt
  <2> HIDE DEF u, at
  <2> DEFINE from(j) == IF j < n THEN j ELSE j + 1
  <2>5. \A j \in 1..Len(u) : from(j) \in 1..Len(p) /\ from(j) # n /\ u[j] = p[from(j)]  BY <2>3, <2>4, <1>0
  <2>6. \A i, j \in 1..Len(u) : from(i) = from(j) => i = j  BY <2>3, <2>4, <1>0
  <2>7. \A i \in 1..Len(p) : i # n => \E j \in 1..Len(u) : from(j) = i
    <3> SUFFICES ASSUME NEW i \in 1..Len(p), i # n PROVE \E j \in 1..Len(u) : from(j) = i  OBVIOUS
    <3>1. CASE i < n
      <4>1. i \in 1..Len(u) /\ from(i) = i  BY <3>1, <2>3, <2>4, <1>0
      <4> QED BY <4>1
    <3>2. CASE ~(i < n)
      <4>1. i - 1 \in 1..Len(u) /\ from(i - 1) = i  BY <3>2, <2>3, <2>4, <1>0
      <4> QED BY <4>1
    <3> QED BY <3>1, <3>2
  <2> HIDE DEF from
  <2>8. Once(u)  BY <2>5, <2>6 DEF Once
  <2>9. \A i \in 1..Len(u) : u[i].flow # f  BY <2>3, <2>5 DEF Once
  <2>10. ASSUME NEW g, NEW l, g # f  PROVE PinnedTo(u, g, l) <=> PinnedTo(p, g, l)
    <3>1. PinnedTo(u, g, l) => PinnedTo(p, g, l)  BY <2>5 DEF PinnedTo
    <3>2. ASSUME NEW i \in 1..Len(p), p[i].flow = g, p[i].lane = l  PROVE PinnedTo(u, g, l)
      <4>1. i # n  BY <3>2, <2>3, <2>10
      <4>2. PICK j \in 1..Len(u) : from(j) = i  BY <4>1, <2>7
      <4> QED BY <4>2, <3>2, <2>5 DEF PinnedTo
    <3> QED BY <3>1, <3>2 DEF PinnedTo
  <2> QED BY <2>4, <2>8, <2>9, <2>10 DEF u
<1> QED BY <1>1, <1>2

LEMMA PinnedFlow ==
  ASSUME NEW p \in Seq(Entries), Once(p), NEW f \in Flows, NEW l \in Lanes
  PROVE  /\ Pinned(p, f, l) \in Seq(Entries) /\ Once(Pinned(p, f, l)) /\ PinnedTo(Pinned(p, f, l), f, l)
         /\ \A g, k : g # f /\ g \notin Forgotten(p, f) /\ PinnedTo(p, g, k) => PinnedTo(Pinned(p, f, l), g, k)
<1> DEFINE others == Unpinned(p, f)
           room == IF Len(others) >= FlowLimit THEN Tail(others) ELSE others
           e == [flow |-> f, lane |-> l]
           r == Append(room, e)
<1>1. /\ others \in Seq(Entries) /\ Once(others)
      /\ \A i \in 1..Len(others) : others[i].flow # f
      /\ \A g, k : g # f => (PinnedTo(others, g, k) <=> PinnedTo(p, g, k))
  BY UnpinnedFlow
<1>2. Pinned(p, f, l) = r  BY DEF Pinned
<1>3. Forgotten(p, f) = IF Len(others) >= FlowLimit THEN {Head(others).flow} ELSE {}  BY DEF Forgotten
<1>4. e \in Entries /\ e.flow = f /\ e.lane = l  BY DEF Entries
<1> HIDE DEF others, e
<1>5. /\ room \in Seq(Entries) /\ Once(room) /\ \A i \in 1..Len(room) : room[i].flow # f
      /\ \A g, k : g \notin Forgotten(p, f) /\ PinnedTo(others, g, k) => PinnedTo(room, g, k)
  <2>1. CASE Len(others) >= FlowLimit
    <3>1. others # <<>> /\ Len(others) \in Nat /\ Len(others) > 0  BY <2>1, <1>1, LanesAssumption
    <3>2. room = Tail(others) /\ Forgotten(p, f) = {others[1].flow}  BY <2>1, <1>3, <1>1, <3>1
    <3>3. /\ Tail(others) \in Seq(Entries) /\ Len(Tail(others)) = Len(others) - 1
          /\ \A j \in 1..(Len(others) - 1) : Tail(others)[j] = others[j + 1]
      BY <1>1, <3>1
    <3> DEFINE t == Tail(others)
    <3>4. t \in Seq(Entries) /\ Len(t) = Len(others) - 1 /\ \A j \in 1..Len(t) : j + 1 \in 1..Len(others) /\ t[j] = others[j + 1]
      BY <3>1, <3>3
    <3> HIDE DEF t
    <3>5. Once(t)
      <4> SUFFICES ASSUME NEW i \in 1..Len(t), NEW j \in 1..Len(t), t[i].flow = t[j].flow PROVE i = j  BY DEF Once
      <4>1. i + 1 = j + 1  BY <3>4, <1>1 DEF Once
      <4> QED BY <4>1
    <3>6. \A i \in 1..Len(t) : t[i].flow # f  BY <3>4, <1>1
    <3>7. ASSUME NEW g, NEW k, g # others[1].flow, PinnedTo(others, g, k) PROVE PinnedTo(t, g, k)
      <4>1. PICK i \in 1..Len(others) : others[i].flow = g /\ others[i].lane = k  BY <3>7 DEF PinnedTo
      <4>2. i # 1  BY <4>1, <3>7
      <4>3. i - 1 \in 1..Len(t) /\ (i - 1) + 1 = i  BY <4>2, <3>1, <3>4
      <4>4. t[i - 1] = others[i]  BY <4>3, <3>4
      <4> QED BY <4>1, <4>3, <4>4 DEF PinnedTo
    <3>8. room = t /\ \A g : g \notin Forgotten(p, f) => g # others[1].flow  BY <3>2 DEF t
    <3> QED BY <3>4, <3>5, <3>6, <3>7, <3>8
  <2>2. CASE ~(Len(others) >= FlowLimit)  BY <2>2, <1>1
  <2> QED BY <2>1, <2>2
<1> HIDE DEF room
<1>6. r \in Seq(Entries) /\ Len(r) = Len(room) + 1 /\ Len(room) \in Nat  BY <1>4, <1>5
<1>7. (\A i \in 1..Len(room) : r[i] = room[i]) /\ r[Len(room) + 1] = e  BY <1>4, <1>5
<1> HIDE DEF r
<1>8. Once(r)
  <2> SUFFICES ASSUME NEW i \in 1..Len(r), NEW j \in 1..Len(r), r[i].flow = r[j].flow PROVE i = j  BY DEF Once
  <2>1. CASE i \in 1..Len(room) /\ j \in 1..Len(room)  BY <2>1, <1>5, <1>7 DEF Once
  <2>2. CASE ~(i \in 1..Len(room) /\ j \in 1..Len(room))
    <3>1. i = Len(room) + 1 \/ j = Len(room) + 1  BY <2>2, <1>6
    <3>2. i \in 1..Len(room) => r[i].flow # f  BY <1>5, <1>7
    <3>3. j \in 1..Len(room) => r[j].flow # f  BY <1>5, <1>7
    <3>4. (i = Len(room) + 1 => r[i].flow = f) /\ (j = Len(room) + 1 => r[j].flow = f)  BY <1>7, <1>4
    <3>5. (i \in 1..Len(room) \/ i = Len(room) + 1) /\ (j \in 1..Len(room) \/ j = Len(room) + 1)  BY <1>6
    <3> QED BY <3>1, <3>2, <3>3, <3>4, <3>5
  <2> QED BY <2>1, <2>2
<1>9. PinnedTo(r, f, l)
  <2>1. Len(room) + 1 \in 1..Len(r)  BY <1>6
  <2> QED BY <2>1, <1>7, <1>4 DEF PinnedTo
<1>10. ASSUME NEW g, NEW k, PinnedTo(room, g, k) PROVE PinnedTo(r, g, k)
  <2>1. PICK i \in 1..Len(room) : room[i].flow = g /\ room[i].lane = k  BY <1>10 DEF PinnedTo
  <2>2. i \in 1..Len(r)  BY <1>6
  <2> QED BY <2>1, <2>2, <1>7 DEF PinnedTo
<1>11. ASSUME NEW g, NEW k, g # f, g \notin Forgotten(p, f), PinnedTo(p, g, k) PROVE PinnedTo(r, g, k)
  BY <1>1, <1>5, <1>10, <1>11
<1> QED BY <1>2, <1>6, <1>8, <1>9, <1>11

LEMMA PinOfFlow ==
  ASSUME NEW p \in Seq(Entries), p = pins, Once(p), NEW f, NEW l, PinnedTo(p, f, l)
  PROVE  PinOf(f) = l
<1> DEFINE at == {i \in DOMAIN pins : pins[i].flow = f}
           n == CHOOSE i \in at : TRUE
<1>1. PICK i \in 1..Len(p) : p[i].flow = f /\ p[i].lane = l  BY DEF PinnedTo
<1>2. i \in at  BY <1>1
<1>3. n \in at  BY <1>2
<1>4. PinOf(f) = pins[n].lane  BY <1>2 DEF PinOf
<1> HIDE DEF n
<1>5. n = i  BY <1>1, <1>3 DEF Once
<1> QED BY <1>1, <1>4, <1>5

(* UploadQueue::enqueue.                                                    *)
LEMMA EnqueueResult ==
  ASSUME NEW q \in UploadQueues, NEW f \in Flows
  PROVE  /\ Enqueue(q, f).items \in Seq(Flows)
         /\ Range(Enqueue(q, f).items) \subseteq Range(q.items) \cup {f}
         /\ ~q.open => Enqueue(q, f).items = q.items
         /\ Enqueue(q, f).result \in {"ok", "full", "unavailable"}
         /\ Enqueue(q, f).result = "unavailable" => ~q.open
         /\ Enqueue(q, f).result # "ok" => Enqueue(q, f).items = q.items
<1> DEFINE full == Len(q.items) >= QueuePackets
           room == IF full THEN RemoveAt(q.items, FirstOf(Victims(q, f))) ELSE q.items
<1>1. q.items \in Seq(Flows) /\ DOMAIN q.items = 1..Len(q.items) /\ q.open \in BOOLEAN  BY DEF UploadQueues
<1>2. Victims(q, f) \subseteq 1..Len(q.items)  BY <1>1 DEF Victims
<1>3. CASE q.open /\ ~(full /\ Victims(q, f) = {})
  <2>1. room \in Seq(Flows) /\ Range(room) \subseteq Range(q.items)
    <3>1. CASE full
      <4>1. Victims(q, f) # {} /\ Victims(q, f) \subseteq Nat  BY <3>1, <1>3, <1>2
      <4>2. FirstOf(Victims(q, f)) \in 1..Len(q.items)  BY <4>1, <1>2, FirstIsOne
      <4> QED BY <3>1, <4>2, <1>1, RemovedRange
    <3>2. CASE ~full  BY <3>2, <1>1
    <3> QED BY <3>1, <3>2
  <2>2. Enqueue(q, f) = [result |-> "ok", items |-> Append(room, f)]  BY <1>3 DEF Enqueue
  <2> HIDE DEF room
  <2>3. Append(room, f) \in Seq(Flows) /\ Range(Append(room, f)) = Range(room) \cup {f}  BY <2>1, AppendedRange
  <2>4. Enqueue(q, f).result = "ok" /\ Enqueue(q, f).items = Append(room, f)  BY <2>2
  <2> QED BY <1>3, <2>1, <2>3, <2>4
<1>4. CASE q.open /\ full /\ Victims(q, f) = {}
  <2>1. Enqueue(q, f) = [result |-> "full", items |-> q.items]  BY <1>4 DEF Enqueue
  <2> QED BY <2>1, <1>1, <1>4
<1>5. CASE ~q.open
  <2>1. Enqueue(q, f) = [result |-> "unavailable", items |-> q.items]  BY <1>5 DEF Enqueue
  <2> QED BY <2>1, <1>1, <1>5
<1> QED BY <1>1, <1>3, <1>4, <1>5

----------------------------------------------------------------------------
(* A step of one lane: what it has to show.                                 *)
LEMMA LaneMoves ==
  ASSUME LanesInv, NEW l \in Lanes,
         DOMAIN lane' = Lanes, DOMAIN conn' = Lanes, DOMAIN queue' = Lanes,
         \A k \in Lanes : k # l => lane'[k] = lane[k] /\ conn'[k] = conn[k] /\ queue'[k] = queue[k],
         LaneOK(lane'[l], conn'[l], queue'[l], lease', watch'.pc),
         lease' = lease \/ (lease = Absent /\ lease' \in Leases),
         watch' \in Watches, watch'.pc = watch.pc,
         active' = {k \in Lanes : lane'[k] = "up"},
         granted' = granted, pins' = pins, route' = route, evicted' = evicted,
         lane'[l] \in {"asked", "opened"} => lane[l] \in {"asked", "opened"} \/ route.pc = "idle",
         lane'[l] = "up" => \/ lane[l] = "up" /\ Range(queue'[l].items) \cup Range(conn'[l].up)
                                                  \subseteq Range(queue[l].items) \cup Range(conn[l].up)
                            \/ Range(queue'[l].items) = {} /\ Range(conn'[l].up) = {}
  PROVE  LanesInv'
<1> USE DEF LanesInv
<1>1. ASSUME NEW k \in Lanes PROVE LaneOK(lane'[k], conn'[k], queue'[k], lease', watch'.pc)
  <2>1. CASE k = l  BY <2>1
  <2>2. CASE k # l
    <3>1. LaneOK(lane[k], conn[k], queue[k], lease, watch.pc)  BY DEF LanesOK
    <3>2. CASE lease' = lease  BY <2>2, <3>1, <3>2
    <3>3. CASE lease = Absent /\ lease' \in Leases
      <4>1. lane[k] \notin {"opened", "up"}  BY <3>1, <3>3, LanesAssumption DEF LaneOK
      <4> QED BY <2>2, <3>1, <4>1 DEF LaneOK
    <3> QED BY <3>2, <3>3
  <2> QED BY <2>1, <2>2
<1>2. LanesOK'  BY <1>1 DEF LanesOK
<1>3. RouteOK(route', pins', lane', watch'.pc)
  <2>1. ASSUME route.pc # "idle" PROVE lane'[route.lane] \notin {"asked", "opened"}
    <3>1. route.lane \in Lanes /\ lane[route.lane] \notin {"asked", "opened"}  BY <2>1 DEF RouteOK
    <3> QED BY <2>1, <3>1
  <2> QED BY <2>1 DEF RouteOK
<1>4. \A f, k : k \in Lanes /\ Carries(k, f)' => Carries(k, f)
  <2> SUFFICES ASSUME NEW f, NEW k \in Lanes, lane'[k] = "up", f \in Range(queue'[k].items) \cup Range(conn'[k].up) PROVE Carries(k, f)
    BY DEF Carries
  <2>1. CASE k = l  BY <2>1 DEF Carries
  <2>2. CASE k # l  BY <2>2 DEF Carries
  <2> QED BY <2>1, <2>2
<1>5. PinsOK'  BY <1>4 DEF PinsOK, DataLanes
<1> QED BY <1>2, <1>3, <1>5

(* What is there before a step of a lane.                                   *)
LEMMA OfLane ==
  ASSUME LanesInv, NEW l \in Lanes
  PROVE  /\ LaneOK(lane[l], conn[l], queue[l], lease, watch.pc)
         /\ DOMAIN lane = Lanes /\ DOMAIN conn = Lanes /\ DOMAIN queue = Lanes /\ watch \in Watches
         /\ active = {k \in Lanes : lane[k] = "up"}
BY DEF LanesInv, LanesOK

LEMMA NoConnIsTyped == NoConn \in Conns /\ NoConn.state = "none" /\ NoConn.up = <<>>
BY DEF NoConn, Conns

LEMMA WokenKeepsPc == ASSUME NEW w \in Watches PROVE Woken(w) \in Watches /\ Woken(w).pc = w.pc
<1>1. CASE Woken(w) = w  BY <1>1
<1>2. CASE Woken(w) = [w EXCEPT !.woken = TRUE]  BY <1>2 DEF Watches
<1> QED BY <1>1, <1>2 DEF Woken

LEMMA FailKeepsPc == ASSUME watch \in Watches, NEW e, Fail(e) PROVE watch' \in Watches /\ watch'.pc = watch.pc
BY WokenKeepsPc DEF Fail

LEMMA Closes ==
  ASSUME NEW l \in Lanes, DOMAIN conn = Lanes, CloseConn(l)
  PROVE  DOMAIN conn' = Lanes /\ conn'[l] = NoConn /\ \A k \in Lanes : k # l => conn'[k] = conn[k]
BY DEF CloseConn

LEMMA Goes ==
  ASSUME NEW l \in Lanes, NEW pc, DOMAIN lane = Lanes, Goto(l, pc)
  PROVE  DOMAIN lane' = Lanes /\ lane'[l] = pc /\ \A k \in Lanes : k # l => lane'[k] = lane[k]
BY DEF Goto

LEMMA DialStep == ASSUME LanesInv, NEW l \in Lanes, Dial(l) PROVE LanesInv'
<1> USE DEF Dial, laneVars, groupVars, upVars, gateVars
<1>1. LaneOK(lane[l], conn[l], queue[l], lease, watch.pc) /\ lane[l] = "down"  BY OfLane
<1>2. DOMAIN lane' = Lanes /\ lane'[l] = "asked" /\ \A k \in Lanes : k # l => lane'[k] = lane[k]  BY OfLane, Goes
<1>3. LaneOK(lane'[l], conn'[l], queue'[l], lease', watch'.pc)  BY <1>1, <1>2 DEF LaneOK, LaneStates
<1> QED BY <1>1, <1>2, <1>3, OfLane, LaneMoves

LEMMA EstablishFailsStep == ASSUME LanesInv, NEW l \in Lanes, EstablishFails(l) PROVE LanesInv'
<1> USE DEF EstablishFails, laneVars, groupVars, upVars, gateVars
<1>1. LaneOK(lane[l], conn[l], queue[l], lease, watch.pc) /\ lane[l] = "asked"  BY OfLane
<1>2. DOMAIN lane' = Lanes /\ lane'[l] = "down" /\ \A k \in Lanes : k # l => lane'[k] = lane[k]  BY OfLane, Goes
<1>3. DOMAIN conn' = Lanes /\ conn'[l] = NoConn /\ \A k \in Lanes : k # l => conn'[k] = conn[k]  BY OfLane, Closes
<1>4. LaneOK(lane'[l], conn'[l], queue'[l], lease', watch'.pc)  BY <1>1, <1>2, <1>3, NoConnIsTyped DEF LaneOK, LaneStates
<1> QED BY <1>1, <1>2, <1>3, <1>4, OfLane, LaneMoves

LEMMA EstablishRefusedStep == ASSUME LanesInv, NEW l \in Lanes, EstablishRefused(l) PROVE LanesInv'
<1> USE DEF EstablishRefused, laneVars, groupVars, upVars, gateVars
<1>1. LaneOK(lane[l], conn[l], queue[l], lease, watch.pc) /\ lane[l] = "asked"  BY OfLane
<1>2. DOMAIN lane' = Lanes /\ lane'[l] = "gone" /\ \A k \in Lanes : k # l => lane'[k] = lane[k]  BY OfLane, Goes
<1>3. watch' \in Watches /\ watch'.pc = watch.pc  BY OfLane, FailKeepsPc
<1>4. LaneOK(lane'[l], conn'[l], queue'[l], lease', watch'.pc)  BY <1>1, <1>2, <1>3 DEF LaneOK, LaneStates
<1> QED BY <1>1, <1>2, <1>3, <1>4, OfLane, LaneMoves

LEMMA AcceptStep == ASSUME LanesInv, NEW l \in Lanes, Accept(l) PROVE LanesInv'
<1> USE DEF Accept, laneVars, groupVars, upVars, gateVars
<1>1. LaneOK(lane[l], conn[l], queue[l], lease, watch.pc) /\ lane[l] = "asked" /\ conn[l].state # "none"  BY OfLane
<1>2. CASE LeaseVerdict(l) = "ok"
  <2>1. DOMAIN lane' = Lanes /\ lane'[l] = "opened" /\ \A k \in Lanes : k # l => lane'[k] = lane[k]  BY <1>2, OfLane, Goes
  <2>2. queue[l] \in UploadQueues /\ queue[l].items = <<>>  BY <1>1 DEF LaneOK
  <2>3. queue' = [queue EXCEPT ![l].open = TRUE]  BY <1>2
  <2>4. /\ DOMAIN queue' = Lanes /\ queue'[l] \in UploadQueues /\ queue'[l].open = TRUE /\ queue'[l].items = <<>>
        /\ \A k \in Lanes : k # l => queue'[k] = queue[k]
    BY <2>2, <2>3, OfLane DEF UploadQueues
  <2>5. lease' = conn[l].lease /\ lease' \in Leases /\ (lease' = lease \/ lease = Absent)
    BY <1>1, <1>2 DEF LeaseVerdict, LaneOK
  <2>6. conn' = conn /\ watch' = watch  BY <1>2
  <2>7. LaneOK(lane'[l], conn'[l], queue'[l], lease', watch'.pc)  BY <1>1, <2>1, <2>4, <2>5, <2>6 DEF LaneOK, LaneStates
  <2> QED BY <1>1, <2>1, <2>4, <2>5, <2>6, <2>7, OfLane, LaneMoves
<1>3. CASE LeaseVerdict(l) # "ok"
  <2>1. DOMAIN lane' = Lanes /\ lane'[l] = "gone" /\ \A k \in Lanes : k # l => lane'[k] = lane[k]  BY <1>3, OfLane, Goes
  <2>2. DOMAIN conn' = Lanes /\ conn'[l] = NoConn /\ \A k \in Lanes : k # l => conn'[k] = conn[k]  BY <1>3, OfLane, Closes
  <2>3. watch' \in Watches /\ watch'.pc = watch.pc  BY <1>3, OfLane, FailKeepsPc
  <2>4. lease' = lease /\ queue' = queue  BY <1>3
  <2>5. LaneOK(lane'[l], conn'[l], queue'[l], lease', watch'.pc)  BY <1>1, <2>1, <2>2, <2>3, <2>4, NoConnIsTyped DEF LaneOK, LaneStates
  <2> QED BY <1>1, <2>1, <2>2, <2>3, <2>4, <2>5, OfLane, LaneMoves
<1> QED BY <1>2, <1>3

LEMMA ActivateStep == ASSUME LanesInv, NEW l \in Lanes, Activate(l) PROVE LanesInv'
<1> USE DEF Activate, laneVars, groupVars, upVars, gateVars
<1>1. LaneOK(lane[l], conn[l], queue[l], lease, watch.pc) /\ lane[l] = "opened"  BY OfLane
<1>2. DOMAIN lane' = Lanes /\ lane'[l] = "up" /\ \A k \in Lanes : k # l => lane'[k] = lane[k]  BY OfLane, Goes
<1>3. watch' \in Watches /\ watch'.pc = watch.pc  BY OfLane, WokenKeepsPc
<1>4. LaneOK(lane'[l], conn'[l], queue'[l], lease', watch'.pc)  BY <1>1, <1>2, <1>3 DEF LaneOK, LaneStates
<1>5. active' = {k \in Lanes : lane'[k] = "up"}  BY <1>2, OfLane
<1>6. Range(queue'[l].items) = {} /\ Range(conn'[l].up) = {}  BY <1>1, EmptyRange DEF LaneOK
<1> QED BY <1>1, <1>2, <1>3, <1>4, <1>5, <1>6, OfLane, LaneMoves

LEMMA LaneEndsStep == ASSUME LanesInv, NEW l \in Lanes, LaneEnds(l) PROVE LanesInv'
<1> USE DEF LaneEnds, laneVars, groupVars, upVars, gateVars
<1>1. LaneOK(lane[l], conn[l], queue[l], lease, watch.pc) /\ lane[l] = "up"  BY OfLane
<1>2. DOMAIN lane' = Lanes /\ lane'[l] = "closing" /\ \A k \in Lanes : k # l => lane'[k] = lane[k]  BY OfLane, Goes
<1>3. DOMAIN conn' = Lanes /\ conn'[l] = NoConn /\ \A k \in Lanes : k # l => conn'[k] = conn[k]  BY OfLane, Closes
<1>4. LaneOK(lane'[l], conn'[l], queue'[l], lease', watch'.pc)  BY <1>1, <1>2, <1>3, NoConnIsTyped DEF LaneOK, LaneStates
<1>5. active' = {k \in Lanes : lane'[k] = "up"}  BY <1>2, OfLane
<1> QED BY <1>1, <1>2, <1>3, <1>4, <1>5, OfLane, LaneMoves

LEMMA DeactivateStep == ASSUME LanesInv, NEW l \in Lanes, Deactivate(l) PROVE LanesInv'
<1> USE DEF Deactivate, laneVars, groupVars, upVars, gateVars
<1>1. LaneOK(lane[l], conn[l], queue[l], lease, watch.pc) /\ lane[l] = "closing"  BY OfLane
<1>2. DOMAIN lane' = Lanes /\ lane'[l] \in {"gone", "down"} /\ \A k \in Lanes : k # l => lane'[k] = lane[k]  BY OfLane, Goes
<1>3. watch' \in Watches /\ watch'.pc = watch.pc  BY OfLane, WokenKeepsPc
<1>4. DOMAIN queue' = Lanes /\ queue'[l] = Emptied(queue[l]) /\ \A k \in Lanes : k # l => queue'[k] = queue[k]  BY OfLane
<1>5. Emptied(queue[l]) \in UploadQueues /\ Emptied(queue[l]).items = <<>> /\ ~Emptied(queue[l]).open  BY DEF Emptied, UploadQueues
<1>6. LaneOK(lane'[l], conn'[l], queue'[l], lease', watch'.pc)  BY <1>1, <1>2, <1>3, <1>4, <1>5 DEF LaneOK, LaneStates
<1>7. active' = {k \in Lanes : lane'[k] = "up"}  BY <1>1, <1>2, OfLane
<1> QED BY <1>1, <1>2, <1>3, <1>4, <1>6, <1>7, OfLane, LaneMoves

LEMMA LaneCancelledStep == ASSUME LanesInv, NEW l \in Lanes, LaneCancelled(l) PROVE LanesInv'
<1> USE DEF LaneCancelled, laneVars, groupVars, upVars, gateVars
<1>1. LaneOK(lane[l], conn[l], queue[l], lease, watch.pc) /\ lane[l] \in {"down", "asked"}  BY OfLane
<1>2. DOMAIN lane' = Lanes /\ lane'[l] = "gone" /\ \A k \in Lanes : k # l => lane'[k] = lane[k]  BY OfLane, Goes
<1>3. DOMAIN conn' = Lanes /\ conn'[l] = NoConn /\ \A k \in Lanes : k # l => conn'[k] = conn[k]  BY OfLane, Closes
<1>4. LaneOK(lane'[l], conn'[l], queue'[l], lease', watch'.pc)  BY <1>1, <1>2, <1>3, NoConnIsTyped DEF LaneOK, LaneStates
<1> QED BY <1>1, <1>2, <1>3, <1>4, OfLane, LaneMoves

LEMMA ExpireStep == ASSUME LanesInv, NEW l \in Lanes, Expire(l) PROVE LanesInv'
<1> USE DEF laneVars, groupVars, upVars, gateVars
<1>1. LaneOK(lane[l], conn[l], queue[l], lease, watch.pc) /\ queue[l].items \in Seq(Flows)
  BY OfLane DEF LaneOK, UploadQueues
<1>2. PICK i : i \in 1..Len(queue[l].items) /\ queue' = [queue EXCEPT ![l].items = RemoveAt(queue[l].items, i)]
  <2>1. PICK class : LET old == {i \in DOMAIN queue[l].items : queue[l].items[i] \in class}
                     IN old # {} /\ queue' = [queue EXCEPT ![l].items = RemoveAt(queue[l].items, FirstOf(old))]
    BY DEF Expire
  <2> DEFINE old == {i \in DOMAIN queue[l].items : queue[l].items[i] \in class}
  <2>2. old \subseteq 1..Len(queue[l].items) /\ old # {}  BY <1>1, <2>1
  <2>4. old \subseteq Nat  BY <2>2
  <2>3. FirstOf(old) \in old  BY <2>2, <2>4, FirstIsOne
  <2> QED BY <2>1, <2>2, <2>3
<1>3. RemoveAt(queue[l].items, i) \in Seq(Flows) /\ Range(RemoveAt(queue[l].items, i)) \subseteq Range(queue[l].items)
  BY <1>1, <1>2, RemovedRange
<1>4. /\ DOMAIN queue' = Lanes /\ queue'[l] \in UploadQueues /\ queue'[l].open = queue[l].open
      /\ queue'[l].items = RemoveAt(queue[l].items, i) /\ \A k \in Lanes : k # l => queue'[k] = queue[k]
  BY <1>1, <1>2, <1>3, OfLane DEF UploadQueues, LaneOK
<1>5. queue[l].items # <<>>  BY <1>1, <1>2
<1>6. UNCHANGED <<lane, conn, stale, active, lease, groupVars, upVars, gateVars>>  BY DEF Expire
<1>7. LaneOK(lane'[l], conn'[l], queue'[l], lease', watch'.pc)  BY <1>1, <1>4, <1>5, <1>6 DEF LaneOK
<1>8. lane'[l] = "up" => lane[l] = "up" /\ Range(queue'[l].items) \cup Range(conn'[l].up) \subseteq Range(queue[l].items) \cup Range(conn[l].up)
  BY <1>3, <1>4, <1>6
<1> QED BY <1>4, <1>6, <1>7, <1>8, OfLane, LaneMoves

LEMMA UploadStep == ASSUME LanesInv, NEW l \in Lanes, Upload(l) PROVE LanesInv'
<1> USE DEF laneVars, groupVars, upVars, gateVars
<1>1. LaneOK(lane[l], conn[l], queue[l], lease, watch.pc) /\ lane[l] = "up"  BY OfLane DEF Upload
<1>2. conn[l] \in Conns /\ conn[l].up \in Seq(Flows) /\ queue[l] \in UploadQueues /\ queue[l].items \in Seq(Flows)
  BY <1>1 DEF LaneOK, Conns, UploadQueues
<1> DEFINE sent == IF conn[l].state = "lost" THEN conn[l].up ELSE conn[l].up \o queue[l].items
<1>3. sent \in Seq(Flows) /\ Range(sent) \subseteq Range(queue[l].items) \cup Range(conn[l].up)  BY <1>2, JoinedRange
<1>4. conn' = [conn EXCEPT ![l].up = sent] /\ queue' = [queue EXCEPT ![l].items = <<>>]  BY DEF Upload
<1> HIDE DEF sent
<1>5. /\ DOMAIN conn' = Lanes /\ conn'[l] \in Conns /\ conn'[l].up = sent /\ conn'[l].lease = conn[l].lease /\ conn'[l].state = conn[l].state
      /\ \A k \in Lanes : k # l => conn'[k] = conn[k]
  BY <1>2, <1>3, <1>4, OfLane DEF Conns
<1>6. /\ DOMAIN queue' = Lanes /\ queue'[l] \in UploadQueues /\ queue'[l].items = <<>> /\ queue'[l].open = queue[l].open
      /\ \A k \in Lanes : k # l => queue'[k] = queue[k]
  BY <1>2, <1>4, OfLane, EmptyRange DEF UploadQueues
<1>7. UNCHANGED <<lane, stale, active, lease, groupVars, upVars, gateVars>>  BY DEF Upload
<1>8. LaneOK(lane'[l], conn'[l], queue'[l], lease', watch'.pc)  BY <1>1, <1>5, <1>6, <1>7 DEF LaneOK
<1>9. lane'[l] = "up" => lane[l] = "up" /\ Range(queue'[l].items) \cup Range(conn'[l].up) \subseteq Range(queue[l].items) \cup Range(conn[l].up)
  BY <1>1, <1>3, <1>5, <1>6, EmptyRange
<1> QED BY <1>5, <1>6, <1>7, <1>8, <1>9, OfLane, LaneMoves

LEMMA HandleStep == ASSUME LanesInv, NEW l \in Lanes, Handle(l) PROVE LanesInv'
<1> USE DEF laneVars, groupVars, upVars, gateVars
<1>1. LaneOK(lane[l], conn[l], queue[l], lease, watch.pc) /\ lane[l] = "asked"  BY OfLane DEF Handle
<1>2. conn[l] \in Conns /\ conn[l].up = <<>>  BY <1>1 DEF LaneOK
<1>3. granted \in Leases  BY DEF LanesInv, LanesOK
<1>4. conn' = [conn EXCEPT ![l] = [conn[l] EXCEPT !.state = "open", !.lease = granted]]  BY OfLane DEF Handle
<1>5. /\ DOMAIN conn' = Lanes /\ conn'[l] \in Conns /\ conn'[l].up = <<>> /\ conn'[l].lease = granted /\ conn'[l].state = "open"
      /\ \A k \in Lanes : k # l => conn'[k] = conn[k]
  BY <1>2, <1>3, <1>4, OfLane DEF Conns
<1>6. UNCHANGED <<lane, stale, active, queue, lease, groupVars, upVars, gateVars>>  BY DEF Handle
<1>7. LaneOK(lane'[l], conn'[l], queue'[l], lease', watch'.pc)  BY <1>1, <1>3, <1>5, <1>6 DEF LaneOK
<1> QED BY <1>1, <1>5, <1>6, <1>7, OfLane, LaneMoves

LEMMA ServeUploadStep == ASSUME LanesInv, NEW l \in Lanes, ServeUpload(l) PROVE LanesInv'
<1> USE DEF laneVars, groupVars, upVars, gateVars
<1>1. LaneOK(lane[l], conn[l], queue[l], lease, watch.pc) /\ conn[l].up # <<>>  BY OfLane DEF ServeUpload
<1>2. conn[l] \in Conns /\ conn[l].up \in Seq(Flows)  BY <1>1 DEF LaneOK, Conns
<1> DEFINE rest == Tail(conn[l].up)
<1>3. rest \in Seq(Flows) /\ Range(rest) \subseteq Range(conn[l].up)  BY <1>1, <1>2, TailRange
<1>4. conn' = [conn EXCEPT ![l].up = rest]  BY DEF ServeUpload
<1> HIDE DEF rest
<1>5. /\ DOMAIN conn' = Lanes /\ conn'[l] \in Conns /\ conn'[l].up = rest /\ conn'[l].lease = conn[l].lease /\ conn'[l].state = conn[l].state
      /\ \A k \in Lanes : k # l => conn'[k] = conn[k]
  BY <1>2, <1>3, <1>4, OfLane DEF Conns
<1>6. UNCHANGED <<lane, stale, active, queue, lease, groupVars, upVars, gateVars>>  BY DEF ServeUpload
<1>7. LaneOK(lane'[l], conn'[l], queue'[l], lease', watch'.pc)  BY <1>1, <1>5, <1>6 DEF LaneOK
<1>8. lane'[l] = "up" => lane[l] = "up" /\ Range(queue'[l].items) \cup Range(conn'[l].up) \subseteq Range(queue[l].items) \cup Range(conn[l].up)
  BY <1>3, <1>5, <1>6
<1>9. DOMAIN lane' = Lanes /\ DOMAIN queue' = Lanes /\ watch' \in Watches /\ active' = {k \in Lanes : lane'[k] = "up"}  BY <1>6, OfLane
<1> QED BY <1>5, <1>6, <1>7, <1>8, <1>9, LaneMoves

LEMMA LoseStep == ASSUME LanesInv, NEW l \in Lanes, Lose(l) PROVE LanesInv'
<1> USE DEF laneVars, groupVars, upVars, gateVars
<1>1. LaneOK(lane[l], conn[l], queue[l], lease, watch.pc) /\ conn[l].state = "open"  BY OfLane DEF Lose
<1>2. conn[l] \in Conns  BY <1>1 DEF LaneOK
<1>3. conn' = [conn EXCEPT ![l] = [conn[l] EXCEPT !.state = "lost", !.up = <<>>]]  BY OfLane DEF Lose
<1>4. /\ DOMAIN conn' = Lanes /\ conn'[l] \in Conns /\ conn'[l].up = <<>> /\ conn'[l].lease = conn[l].lease /\ conn'[l].state = "lost"
      /\ \A k \in Lanes : k # l => conn'[k] = conn[k]
  BY <1>2, <1>3, OfLane, EmptyRange DEF Conns
<1>5. UNCHANGED <<lane, stale, active, queue, lease, groupVars, upVars, gateVars>>  BY DEF Lose
<1>6. LaneOK(lane'[l], conn'[l], queue'[l], lease', watch'.pc)  BY <1>1, <1>4, <1>5 DEF LaneOK
<1>7. lane'[l] = "up" => lane[l] = "up" /\ Range(queue'[l].items) \cup Range(conn'[l].up) \subseteq Range(queue[l].items) \cup Range(conn[l].up)
  BY <1>4, <1>5, EmptyRange
<1> QED BY <1>4, <1>5, <1>6, <1>7, OfLane, LaneMoves

(* Nothing the invariant speaks of.                                         *)
LEMMA LanesStutter ==
  ASSUME LanesInv, UNCHANGED <<lane, conn, active, queue, lease, pins, route, evicted, watch>>, granted' \in Leases
  PROVE  LanesInv'
<1>1. LanesOK'  BY DEF LanesInv, LanesOK
<1>2. RouteOK(route', pins', lane', watch'.pc)  BY DEF LanesInv
<1>3. PinsOK'  BY DEF LanesInv, PinsOK, Carries
<1> QED BY <1>1, <1>2, <1>3 DEF LanesInv

LEMMA OtherSteps ==
  ASSUME LanesInv, CloseGroup \/ ChangeLease \/ (\E l \in Lanes : ServeEnds(l)) \/ UNCHANGED lanes_vars
  PROVE  LanesInv'
<1>1. granted \in Leases  BY DEF LanesInv, LanesOK
<1>2. CASE CloseGroup  BY <1>1, <1>2, LanesStutter DEF CloseGroup, laneVars, groupVars, upVars, gateVars
<1>3. CASE ChangeLease  BY <1>1, <1>3, LanesStutter DEF ChangeLease, laneVars, groupVars, upVars, gateVars
<1>4. CASE \E l \in Lanes : ServeEnds(l)  BY <1>1, <1>4, LanesStutter DEF ServeEnds, laneVars, groupVars, upVars, gateVars
<1>5. CASE UNCHANGED lanes_vars  BY <1>1, <1>5, LanesStutter DEF lanes_vars, laneVars, groupVars, upVars, gateVars
<1> QED BY <1>2, <1>3, <1>4, <1>5

(* A step of the startup wait or of the monitor.                            *)
LEMMA WatchMoves ==
  ASSUME LanesInv, UNCHANGED <<lane, conn, active, lease, granted, pins, route, evicted>>, watch' \in Watches,
         \/ queue' = queue /\ watch.pc # "failed"
         \/ queue' = [k \in Lanes |-> Emptied(queue[k])] /\ watch'.pc = "failed",
         route.pc = "idle" \/ watch'.pc \notin Early
  PROVE  LanesInv'
<1>0. DOMAIN queue = Lanes  BY DEF LanesInv, LanesOK
<1>1. ASSUME NEW k \in Lanes PROVE LaneOK(lane'[k], conn'[k], queue'[k], lease', watch'.pc)
  <2>1. LaneOK(lane[k], conn[k], queue[k], lease, watch.pc)  BY DEF LanesInv, LanesOK
  <2>2. CASE queue' = queue /\ watch.pc # "failed"  BY <2>1, <2>2 DEF LaneOK
  <2>3. CASE queue' = [j \in Lanes |-> Emptied(queue[j])] /\ watch'.pc = "failed"
    <3>1. queue'[k] \in UploadQueues /\ queue'[k].items = <<>> /\ ~queue'[k].open  BY <2>3 DEF Emptied, UploadQueues
    <3> QED BY <2>1, <2>3, <3>1 DEF LaneOK
  <2> QED BY <2>2, <2>3
<1>2. DOMAIN queue' = Lanes  BY <1>0
<1>3. LanesOK'  BY <1>1, <1>2 DEF LanesInv, LanesOK
<1>4. RouteOK(route', pins', lane', watch'.pc)  BY DEF LanesInv, RouteOK
<1>5. ASSUME NEW f, NEW k \in Lanes, Carries(k, f)' PROVE Carries(k, f)
  <2>1. CASE queue' = queue  BY <1>5, <2>1 DEF Carries
  <2>2. CASE queue' = [j \in Lanes |-> Emptied(queue[j])]
    <3>1. Range(queue'[k].items) = {}  BY <2>2, EmptyRange DEF Emptied
    <3> QED BY <1>5, <3>1 DEF Carries
  <2> QED BY <2>1, <2>2
<1>6. PinsOK'  BY <1>5 DEF LanesInv, PinsOK, DataLanes
<1> QED BY <1>3, <1>4, <1>6 DEF LanesInv

LEMMA StartupStep == ASSUME LanesInv, Startup PROVE LanesInv'
<1> USE DEF laneVars, groupVars, upVars, gateVars
<1>1. watch \in Watches /\ watch.pc \in {"starting", "armed", "parked"}
  BY DEF LanesInv, LanesOK, Startup, StartupChecks, StartupWakes, StartupTimesOut
<1>2. route.pc = "idle"  BY <1>1 DEF LanesInv, RouteOK, Early
<1>3. UNCHANGED <<lane, conn, active, lease, granted, pins, route, evicted>>
  BY DEF Startup, StartupChecks, StartupWakes, StartupTimesOut
<1>4. \/ queue' = queue
      \/ queue' = [k \in Lanes |-> Emptied(queue[k])] /\ watch'.pc = "failed"
  BY DEF Startup, StartupChecks, StartupWakes, StartupTimesOut, WatchGoes
<1>7. \E pc \in Early \cup {"running"}, woken \in BOOLEAN : watch' = [pc |-> pc, woken |-> woken]
  <2>1. watch.woken \in BOOLEAN /\ \A pc : [watch EXCEPT !.pc = pc] = [pc |-> pc, woken |-> watch.woken]  BY <1>1 DEF Watches
  <2>2. CASE StartupChecks
    <3>1. \/ \E pc \in Early : watch' = [watch EXCEPT !.pc = pc]
          \/ \E pc \in Early \cup {"running"} : watch' = [pc |-> pc, woken |-> FALSE]
      BY <2>2 DEF StartupChecks, WatchGoes, Early
    <3> QED BY <2>1, <3>1
  <2>3. CASE StartupWakes  BY <2>3 DEF StartupWakes, WatchGoes, Early
  <2>4. CASE StartupTimesOut  BY <2>4 DEF StartupTimesOut, WatchGoes, Early
  <2> QED BY <2>2, <2>3, <2>4 DEF Startup
<1>5. watch' \in Watches  BY <1>7 DEF Watches
<1>6. watch.pc # "failed"  BY <1>1
<1> QED BY <1>2, <1>3, <1>4, <1>5, <1>6, WatchMoves

LEMMA MonitorStep == ASSUME LanesInv, Monitor PROVE LanesInv'
<1> USE DEF laneVars, groupVars, upVars, gateVars
<1> DEFINE late == {"running", "watchArmed", "watching", "lost", "lostArmed", "lostParked", "stopped"}
<1>1. watch \in Watches /\ watch.pc # "failed"
  BY DEF LanesInv, LanesOK, Monitor, MonitorChecks, MonitorWakes, MonitorTimesOut
<1>2. UNCHANGED <<lane, conn, active, lease, granted, pins, route, evicted, queue>>
  BY DEF Monitor, MonitorChecks, MonitorWakes, MonitorTimesOut
<1>3. \E pc \in late, woken \in BOOLEAN : watch' = [pc |-> pc, woken |-> woken]
  <2>1. watch.woken \in BOOLEAN /\ \A pc : [watch EXCEPT !.pc = pc] = [pc |-> pc, woken |-> watch.woken]  BY <1>1 DEF Watches
  <2>2. CASE MonitorChecks
    <3>1. \/ \E pc \in late : watch' = [watch EXCEPT !.pc = pc]
          \/ \E pc \in late : watch' = [pc |-> pc, woken |-> FALSE]
      BY <2>2 DEF MonitorChecks, LookAgain
    <3> QED BY <2>1, <3>1
  <2>3. CASE MonitorWakes  BY <2>3 DEF MonitorWakes, WatchGoes
  <2>4. CASE MonitorTimesOut  BY <2>4 DEF MonitorTimesOut, WatchGoes
  <2> QED BY <2>2, <2>3, <2>4 DEF Monitor
<1>4. watch' \in Watches /\ watch'.pc \notin Early  BY <1>3 DEF Watches, Early
<1> QED BY <1>1, <1>2, <1>4, WatchMoves

----------------------------------------------------------------------------
(* The dispatcher chooses among the live lanes.                             *)
LEMMA ActiveLane == ASSUME LanesInv, NEW l \in active PROVE l \in Lanes /\ lane[l] = "up"
BY DEF LanesInv, LanesOK

LEMMA LeastLane == ASSUME NEW l \in Least(active \cap DataLanes) PROVE l \in active /\ l \in DataLanes
BY DEF Least

LEMMA ControlChoice == ASSUME NEW l \in ControlLane PROVE l \in active
BY LeastLane DEF ControlLane

LEMMA DataChoice == ASSUME NEW f, NEW l \in DataLane(f) PROVE l \in active /\ l \in DataLanes
<1>1. CASE KeepsPin(f)  BY <1>1 DEF DataLane, KeepsPin
<1>2. CASE ~KeepsPin(f)  BY <1>2, LeastLane DEF DataLane
<1> QED BY <1>1, <1>2

(* Whoever carries a data flow has its pin, and keeps it while it lives.    *)
LEMMA CarrierIsChosen ==
  ASSUME LanesInv, NEW f \in (TcpFlows \cup DatagramFlows) \ evicted, NEW l \in DataLanes, Carries(l, f)
  PROVE  PinnedTo(pins, f, l) /\ DataLane(f) = {l}
<1>1. PinnedTo(pins, f, l) /\ pins \in Seq(Entries) /\ Once(pins)  BY DEF LanesInv, PinsOK
<1>2. PinOf(f) = l  BY <1>1, PinOfFlow
<1>3. l \in active  BY DEF Carries, LanesInv, LanesOK, DataLanes
<1> QED BY <1>1, <1>2, <1>3 DEF DataLane, KeepsPin

LEMMA DataFlows == \A f \in TcpFlows \cup DatagramFlows : f \in Flows /\ ~IsControl(f)
BY LanesAssumption DEF Flows, IsControl

LEMMA RoutePacketStep == ASSUME LanesInv, NEW f \in Flows, RoutePacket(f) PROVE LanesInv'
<1> USE DEF laneVars, groupVars, upVars, gateVars
<1>1. UNCHANGED <<lane, conn, active, queue, lease, watch, granted>> /\ route.pc = "idle" /\ watch.pc \notin Early
  BY DEF RoutePacket, Early
<1>2. pins \in Seq(Entries) /\ Once(pins)  BY DEF LanesInv, PinsOK
<1>3. \A k, g : Carries(k, g)' <=> Carries(k, g)  BY <1>1 DEF Carries
<1>4. ASSUME route' \in Routes, RouteOK(route', pins', lane, watch.pc), pins' \in Seq(Entries), Once(pins'), evicted \subseteq evicted',
             \A g \in (TcpFlows \cup DatagramFlows) \ evicted', k \in DataLanes :
               PinnedTo(pins, g, k) /\ Carries(k, g) => PinnedTo(pins', g, k)
      PROVE  LanesInv'
  <2>1. LanesOK'  BY <1>1, <1>4 DEF LanesInv, LanesOK
  <2>2. RouteOK(route', pins', lane', watch'.pc)  BY <1>1, <1>4
  <2>3. PinsOK'  BY <1>3, <1>4 DEF LanesInv, PinsOK
  <2> QED BY <2>1, <2>2, <2>3 DEF LanesInv
<1>5. ASSUME NEW l \in Lanes, lane[l] = "up", route' = [pc |-> "chosen", flow |-> f, lane |-> l]
      PROVE  /\ route' \in Routes /\ route'.pc = "chosen" /\ route'.flow = f /\ route'.lane = l
             /\ lane[route'.lane] \notin {"asked", "opened"}
  BY <1>5 DEF Routes
<1>6. CASE IsControl(f)
  <2>1. UNCHANGED <<pins, evicted>>  BY <1>6 DEF RoutePacket
  <2>2. route' = route \/ \E l \in ControlLane : route' = [pc |-> "chosen", flow |-> f, lane |-> l]  BY <1>6 DEF RoutePacket
  <2>3. CASE route' = route
    <3>1. route' \in Routes /\ RouteOK(route', pins', lane, watch.pc)  BY <2>1, <2>3 DEF LanesInv, LanesOK
    <3> QED BY <3>1, <2>1, <1>2, <1>4
  <2>4. CASE \E l \in ControlLane : route' = [pc |-> "chosen", flow |-> f, lane |-> l]
    <3>1. PICK l \in ControlLane : route' = [pc |-> "chosen", flow |-> f, lane |-> l]  BY <2>4
    <3>2. l \in Lanes /\ lane[l] = "up"  BY ControlChoice, ActiveLane
    <3>3. /\ route' \in Routes /\ route'.pc = "chosen" /\ route'.flow = f /\ route'.lane = l
          /\ lane[route'.lane] \notin {"asked", "opened"}
      BY <3>1, <3>2, <1>5
    <3>4. RouteOK(route', pins', lane, watch.pc)  BY <3>2, <3>3, <1>1, <1>6 DEF RouteOK
    <3> QED BY <3>3, <3>4, <2>1, <1>2, <1>4
  <2> QED BY <2>2, <2>3, <2>4
<1>7. CASE ~IsControl(f) /\ \E l \in DataLane(f) : route' = [pc |-> "chosen", flow |-> f, lane |-> l] /\ PinTo(pins, f, l)
  <2>1. PICK l \in DataLane(f) : route' = [pc |-> "chosen", flow |-> f, lane |-> l] /\ PinTo(pins, f, l)  BY <1>7
  <2>2. l \in Lanes /\ lane[l] = "up" /\ l \in DataLanes /\ l # 0  BY DataChoice, ActiveLane DEF DataLanes
  <2>3. /\ route' \in Routes /\ route'.pc = "chosen" /\ route'.flow = f /\ route'.lane = l
        /\ lane[route'.lane] \notin {"asked", "opened"}
    BY <2>1, <2>2, <1>5
  <2>4. pins' = Pinned(pins, f, l) /\ evicted' = evicted \cup Forgotten(pins, f)  BY <2>1 DEF PinTo
  <2>5. /\ pins' \in Seq(Entries) /\ Once(pins') /\ PinnedTo(pins', f, l)
        /\ \A g, k : g # f /\ g \notin Forgotten(pins, f) /\ PinnedTo(pins, g, k) => PinnedTo(pins', g, k)
    BY <1>2, <2>2, <2>4, PinnedFlow
  <2>6. RouteOK(route', pins', lane, watch.pc)  BY <2>2, <2>3, <2>5, <1>1 DEF RouteOK
  <2>7. ASSUME NEW g \in (TcpFlows \cup DatagramFlows) \ evicted', NEW k \in DataLanes, PinnedTo(pins, g, k), Carries(k, g)
        PROVE  PinnedTo(pins', g, k)
    <3>1. g \in (TcpFlows \cup DatagramFlows) \ evicted /\ g \notin Forgotten(pins, f)  BY <2>4
    <3>2. CASE g = f
      <4>1. DataLane(f) = {k}  BY <3>1, <3>2, <2>7, CarrierIsChosen
      <4> QED BY <4>1, <2>5, <3>2
    <3>3. CASE g # f  BY <3>1, <3>3, <2>5, <2>7
    <3> QED BY <3>2, <3>3
  <2>8. evicted \subseteq evicted'  BY <2>4
  <2> QED BY <2>3, <2>5, <2>6, <2>7, <2>8, <1>4
<1>8. CASE /\ ~IsControl(f) /\ DataLane(f) = {}
           /\ route' = IF {0} \cap active = {} THEN route ELSE [pc |-> "chosen", flow |-> f, lane |-> 0]
           /\ pins' = Unpinned(pins, f) /\ UNCHANGED evicted
  <2>1. /\ pins' \in Seq(Entries) /\ Once(pins')
        /\ \A i \in 1..Len(pins') : pins'[i].flow # f
        /\ \A g, l : g # f => (PinnedTo(pins', g, l) <=> PinnedTo(pins, g, l))
    BY <1>2, <1>8, UnpinnedFlow
  <2>2. \A l : ~PinnedTo(pins', f, l)  BY <2>1 DEF PinnedTo
  <2>3. route' \in Routes /\ RouteOK(route', pins', lane, watch.pc)
    <3>1. CASE 0 \in active
      <4>1. 0 \in Lanes /\ lane[0] = "up"  BY <3>1, ActiveLane
      <4>2. route' = [pc |-> "chosen", flow |-> f, lane |-> 0]  BY <1>8, <3>1
      <4>3. /\ route' \in Routes /\ route'.pc = "chosen" /\ route'.flow = f /\ route'.lane = 0
            /\ lane[route'.lane] \notin {"asked", "opened"}
        BY <4>1, <4>2, <1>5
      <4> QED BY <4>1, <4>3, <2>2, <1>1 DEF RouteOK
    <3>2. CASE 0 \notin active
      <4>1. route' = route  BY <1>8, <3>2
      <4> QED BY <4>1, <1>1 DEF LanesInv, LanesOK, RouteOK
    <3> QED BY <3>1, <3>2
  <2>4. ASSUME NEW g \in (TcpFlows \cup DatagramFlows) \ evicted', NEW k \in DataLanes, PinnedTo(pins, g, k), Carries(k, g)
        PROVE  PinnedTo(pins', g, k)
    <3>1. DataLane(g) = {k}  BY <2>4, <1>8, CarrierIsChosen
    <3>2. g # f  BY <3>1, <1>8
    <3> QED BY <3>2, <2>1, <2>4
  <2> QED BY <2>1, <2>3, <2>4, <1>4, <1>8
<1> QED BY <1>6, <1>7, <1>8 DEF RoutePacket

(* A packet is offered to a lane that has not been dialed again.            *)
LEMMA Offered ==
  ASSUME LanesInv, NEW l \in Lanes, NEW f \in Flows, lane[l] \notin {"asked", "opened"},
         queue' = [queue EXCEPT ![l].items = Enqueue(queue[l], f).items],
         UNCHANGED <<lane, conn, active, lease, granted, watch>>, route' \in Routes
  PROVE  LanesOK' /\ \A k \in Lanes : \A g : Carries(k, g)' => Carries(k, g) \/ (k = l /\ g = f /\ lane[l] = "up")
<1> DEFINE items == Enqueue(queue[l], f).items
<1>1. LaneOK(lane[l], conn[l], queue[l], lease, watch.pc) /\ queue[l] \in UploadQueues  BY OfLane DEF LaneOK
<1>2. /\ items \in Seq(Flows) /\ Range(items) \subseteq Range(queue[l].items) \cup {f}
      /\ ~queue[l].open => items = queue[l].items
  BY <1>1, EnqueueResult
<1> HIDE DEF items
<1>3. /\ DOMAIN queue' = Lanes /\ queue'[l] \in UploadQueues /\ queue'[l].items = items /\ queue'[l].open = queue[l].open
      /\ \A k \in Lanes : k # l => queue'[k] = queue[k]
  BY <1>1, <1>2, OfLane DEF UploadQueues, items
<1>4. LaneOK(lane'[l], conn'[l], queue'[l], lease', watch'.pc)  BY <1>1, <1>2, <1>3 DEF LaneOK
<1>5. \A k \in Lanes : LaneOK(lane'[k], conn'[k], queue'[k], lease', watch'.pc)
  <2> TAKE k \in Lanes
  <2>1. LaneOK(lane[k], conn[k], queue[k], lease, watch.pc)  BY OfLane
  <2>2. CASE k = l  BY <2>2, <1>4
  <2>3. CASE k # l  BY <2>1, <2>3, <1>3
  <2> QED BY <2>2, <2>3
<1>6. LanesOK'  BY <1>3, <1>5 DEF LanesInv, LanesOK
<1>7. ASSUME NEW k \in Lanes, NEW g, Carries(k, g)' PROVE Carries(k, g) \/ (k = l /\ g = f /\ lane[l] = "up")
  <2>1. CASE k = l  BY <2>1, <1>2, <1>3, <1>7 DEF Carries
  <2>2. CASE k # l  BY <2>2, <1>3, <1>7 DEF Carries
  <2> QED BY <2>1, <2>2
<1> QED BY <1>6, <1>7

LEMMA IdleIsTyped == Idle \in Routes /\ Idle.pc = "idle" /\ \A p, pcs, phase : RouteOK(Idle, p, pcs, phase)
BY DEF Idle, Routes, RouteOK

LEMMA QueuePacketStep == ASSUME LanesInv, QueuePacket PROVE LanesInv'
<1> USE DEF laneVars, groupVars, upVars, gateVars
<1> DEFINE l == route.lane
           f == route.flow
           r == Enqueue(queue[l], f)
<1>1. /\ route.pc = "chosen" /\ queue' = [queue EXCEPT ![l].items = r.items]
      /\ UNCHANGED <<lane, conn, active, lease, granted, watch, evicted>>
  BY DEF QueuePacket
<1>2. /\ l \in Lanes /\ f \in Flows /\ lane[l] \notin {"asked", "opened"} /\ watch.pc \notin Early
      /\ ~IsControl(f) => \/ l # 0 /\ PinnedTo(pins, f, l)
                          \/ l = 0 /\ \A k \in Lanes : ~PinnedTo(pins, f, k)
  BY <1>1 DEF LanesInv, RouteOK
<1>3. LaneOK(lane[l], conn[l], queue[l], lease, watch.pc) /\ queue[l] \in UploadQueues  BY <1>2, OfLane DEF LaneOK
<1>4. /\ r.result \in {"ok", "full", "unavailable"} /\ (r.result = "unavailable" => ~queue[l].open)
      /\ r.result # "ok" => r.items = queue[l].items
  BY <1>2, <1>3, EnqueueResult
<1>5. pins \in Seq(Entries) /\ Once(pins) /\ route \in Routes  BY DEF LanesInv, PinsOK, LanesOK
<1>6. CASE r.result = "ok" \/ TailDrops(r.result, f)
  <2>1. route' = Idle /\ pins' = pins  BY <1>6 DEF QueuePacket
  <2>2. /\ LanesOK'
        /\ \A k \in Lanes : \A g : Carries(k, g)' => Carries(k, g) \/ (k = l /\ g = f /\ lane[l] = "up")
    BY <1>1, <1>2, <2>1, IdleIsTyped, Offered
  <2>3. RouteOK(route', pins', lane', watch'.pc)  BY <2>1, IdleIsTyped
  <2>4. ASSUME NEW g \in (TcpFlows \cup DatagramFlows) \ evicted, NEW k \in DataLanes, Carries(k, g)'  PROVE PinnedTo(pins, g, k)
    <3>1. k \in Lanes /\ k # 0  BY DEF DataLanes
    <3>2. CASE Carries(k, g)  BY <3>2, CarrierIsChosen
    <3>3. CASE k = l /\ g = f  BY <3>1, <3>3, <1>2, DataFlows
    <3> QED BY <3>1, <3>2, <3>3, <2>2, <2>4
  <2>5. PinsOK'  BY <1>1, <1>5, <2>1, <2>4 DEF PinsOK
  <2> QED BY <2>2, <2>3, <2>5 DEF LanesInv
<1>7. CASE ~(r.result = "ok" \/ TailDrops(r.result, f))
  <2>1. route' = [route EXCEPT !.pc = "refused"] /\ pins' = IF IsControl(f) THEN pins ELSE Unpinned(pins, f)
    BY <1>7 DEF QueuePacket
  <2>2. route' \in Routes /\ route'.pc = "refused" /\ route'.flow = f /\ route'.lane = l  BY <1>5, <2>1 DEF Routes
  <2>3. LanesOK'  BY <1>1, <1>2, <2>2, Offered
  <2>4. \A k \in Lanes : \A g : Carries(k, g)' => Carries(k, g)
    <3>1. r.items = queue[l].items  BY <1>4, <1>7
    <3>2. queue[l] = [open |-> queue[l].open, items |-> queue[l].items]  BY <1>3 DEF UploadQueues
    <3>3. \A k \in Lanes : queue'[k].items = queue[k].items  BY <1>1, <1>2, <3>1, <3>2, OfLane
    <3> QED BY <3>3, <1>1 DEF Carries
  <2>5. CASE IsControl(f)
    <3>1. RouteOK(route', pins', lane', watch'.pc)  BY <1>1, <1>2, <2>2, <2>5 DEF RouteOK
    <3>2. PinsOK'  BY <1>1, <1>5, <2>1, <2>4, <2>5 DEF LanesInv, PinsOK, DataLanes
    <3> QED BY <2>3, <3>1, <3>2 DEF LanesInv
  <2>6. CASE ~IsControl(f)
    <3>1. /\ pins' \in Seq(Entries) /\ Once(pins')
          /\ \A i \in 1..Len(pins') : pins'[i].flow # f
          /\ \A g, k : g # f => (PinnedTo(pins', g, k) <=> PinnedTo(pins, g, k))
      BY <1>5, <2>1, <2>6, UnpinnedFlow
    <3>2. \A k : ~PinnedTo(pins', f, k)  BY <3>1 DEF PinnedTo
    <3>3. RouteOK(route', pins', lane', watch'.pc)  BY <1>1, <1>2, <2>2, <3>2 DEF RouteOK
    <3>4. ~queue[l].open  BY <1>4, <1>7, <2>6 DEF TailDrops
    <3>5. lane[l] # "up"  BY <1>2, <1>3, <3>4 DEF LaneOK, Early
    <3>6. ASSUME NEW g \in (TcpFlows \cup DatagramFlows) \ evicted, NEW k \in DataLanes, Carries(k, g)'  PROVE PinnedTo(pins', g, k)
      <4>1. k \in Lanes /\ Carries(k, g)  BY <2>4, <3>6 DEF DataLanes
      <4>2. PinnedTo(pins, g, k)  BY <4>1, CarrierIsChosen
      <4>3. g # f
        <5> SUFFICES ASSUME g = f PROVE FALSE  OBVIOUS
        <5>1. PinnedTo(pins, f, l)  BY <1>2, <2>6, <4>1, <4>2
        <5>2. PinOf(f) = l /\ PinOf(f) = k  BY <1>5, <4>2, <5>1, PinOfFlow
        <5> QED BY <5>2, <4>1, <3>5 DEF Carries
      <4> QED BY <4>2, <4>3, <3>1
    <3>7. PinsOK'  BY <1>1, <3>1, <3>6 DEF PinsOK
    <3> QED BY <2>3, <3>3, <3>7 DEF LanesInv
  <2> QED BY <2>5, <2>6
<1> QED BY <1>6, <1>7

LEMMA RerouteStep == ASSUME LanesInv, Reroute PROVE LanesInv'
<1> USE DEF laneVars, groupVars, upVars, gateVars
<1> DEFINE f == route.flow
           data == IF IsControl(f) THEN {} ELSE DataLane(f)
           Offer(l) == IF l = route.lane THEN UNCHANGED queue
                       ELSE queue' = [queue EXCEPT ![l].items = Enqueue(queue[l], f).items]
<1>1. /\ route.pc = "refused" /\ route' = Idle
      /\ UNCHANGED <<lane, conn, active, lease, granted, watch>>
  BY DEF Reroute
<1>2. \/ \E l \in data : PinTo(pins, f, l) /\ Offer(l)
      \/ /\ data = {} /\ UNCHANGED <<pins, evicted>>
         /\ UNCHANGED queue \/ \E l \in ControlLane : Offer(l)
  BY DEF Reroute
<1>3. f \in Flows /\ (~IsControl(f) => \A k \in Lanes : ~PinnedTo(pins, f, k))  BY <1>1 DEF LanesInv, RouteOK
<1>4. pins \in Seq(Entries) /\ Once(pins)  BY DEF LanesInv, PinsOK
<1>5. RouteOK(route', pins', lane', watch'.pc)  BY <1>1, IdleIsTyped
<1>6. ASSUME NEW l \in active, Offer(l)
      PROVE  LanesOK' /\ \A k \in Lanes : \A g : Carries(k, g)' => Carries(k, g) \/ (k = l /\ g = f)
  <2>1. l \in Lanes /\ lane[l] \notin {"asked", "opened"}  BY ActiveLane
  <2>2. CASE UNCHANGED queue
    <3>1. LanesOK'  BY <1>1, <2>2, IdleIsTyped DEF LanesInv, LanesOK
    <3> QED BY <1>1, <2>2, <3>1 DEF Carries
  <2>3. CASE queue' = [queue EXCEPT ![l].items = Enqueue(queue[l], f).items]
    <3>1. route' \in Routes  BY <1>1, IdleIsTyped
    <3>2. LanesOK' /\ \A k \in Lanes : \A g : Carries(k, g)' => Carries(k, g) \/ (k = l /\ g = f /\ lane[l] = "up")
      BY <1>1, <1>3, <2>1, <2>3, <3>1, Offered
    <3> QED BY <3>2
  <2> QED BY <1>6, <2>2, <2>3
<1> HIDE DEF Offer
<1>7. CASE \E l \in data : PinTo(pins, f, l) /\ Offer(l)
  <2>1. PICK l \in data : PinTo(pins, f, l) /\ Offer(l)  BY <1>7
  <2>2. ~IsControl(f) /\ l \in DataLane(f)  BY <2>1
  <2>3. l \in active /\ l \in DataLanes /\ l \in Lanes  BY <2>2, DataChoice, ActiveLane
  <2>4. LanesOK' /\ \A k \in Lanes : \A g : Carries(k, g)' => Carries(k, g) \/ (k = l /\ g = f)  BY <1>6, <2>1, <2>3
  <2>5. pins' = Pinned(pins, f, l) /\ evicted' = evicted \cup Forgotten(pins, f)  BY <2>1 DEF PinTo
  <2>6. /\ pins' \in Seq(Entries) /\ Once(pins') /\ PinnedTo(pins', f, l)
        /\ \A g, k : g # f /\ g \notin Forgotten(pins, f) /\ PinnedTo(pins, g, k) => PinnedTo(pins', g, k)
    BY <1>3, <1>4, <2>3, <2>5, PinnedFlow
  <2>7. ASSUME NEW g \in (TcpFlows \cup DatagramFlows) \ evicted', NEW k \in DataLanes, Carries(k, g)'  PROVE PinnedTo(pins', g, k)
    <3>1. k \in Lanes /\ g \in (TcpFlows \cup DatagramFlows) \ evicted /\ g \notin Forgotten(pins, f)  BY <2>5 DEF DataLanes
    <3>2. CASE k = l /\ g = f  BY <3>2, <2>6
    <3>3. CASE Carries(k, g)
      <4>1. PinnedTo(pins, g, k)  BY <3>1, <3>3, CarrierIsChosen
      <4>2. g # f  BY <4>1, <1>3, <2>2, <3>1
      <4> QED BY <4>1, <4>2, <3>1, <2>6
    <3> QED BY <3>1, <3>2, <3>3, <2>4, <2>7
  <2>8. PinsOK'  BY <2>6, <2>7 DEF PinsOK
  <2> QED BY <1>5, <2>4, <2>8 DEF LanesInv
<1>8. CASE /\ data = {} /\ UNCHANGED <<pins, evicted>>
           /\ UNCHANGED queue \/ \E l \in ControlLane : Offer(l)
  <2>1. LanesOK' /\ \A k \in DataLanes, g \in TcpFlows \cup DatagramFlows : Carries(k, g)' => Carries(k, g)
    <3>1. CASE UNCHANGED queue
      <4>1. LanesOK'  BY <1>1, <3>1, IdleIsTyped DEF LanesInv, LanesOK
      <4> QED BY <1>1, <3>1, <4>1 DEF Carries
    <3>2. CASE \E l \in ControlLane : Offer(l)
      <4>1. PICK l \in ControlLane : Offer(l)  BY <3>2
      <4>2. l \in active  BY <4>1, ControlChoice
      <4>3. LanesOK' /\ \A k \in Lanes : \A g : Carries(k, g)' => Carries(k, g) \/ (k = l /\ g = f)  BY <1>6, <4>1, <4>2
      <4>4. IsControl(f) \/ l = 0
        <5> SUFFICES ASSUME ~IsControl(f), 0 \notin active PROVE FALSE  BY <4>1 DEF ControlLane
        <5>1. DataLane(f) = {}  BY <1>8
        <5>2. l \in Least(active \cap DataLanes)  BY <4>1 DEF ControlLane
        <5> QED BY <5>1, <5>2 DEF DataLane
      <4>5. \A k \in DataLanes : k \in Lanes /\ k # 0  BY DEF DataLanes
      <4> QED BY <4>3, <4>4, <4>5, DataFlows
    <3> QED BY <1>8, <3>1, <3>2
  <2>2. PinsOK'  BY <1>4, <1>8, <2>1 DEF LanesInv, PinsOK
  <2> QED BY <1>5, <2>1, <2>2 DEF LanesInv
<1> QED BY <1>2, <1>7, <1>8
----------------------------------------------------------------------------
LEMMA LanesInitially == ASSUME LanesInit PROVE LanesInv
<1>1. PICK s \in Scenarios : Began(s)  BY DEF LanesInit
<1>2. s.lanes \subseteq Lanes /\ s.established \in BOOLEAN /\ FirstLease \in Leases  BY LanesAssumption
<1> DEFINE up == IF s.established THEN s.lanes ELSE {}
<1>3. up \subseteq Lanes  BY <1>2
<1>4. /\ granted = FirstLease /\ pins = <<>> /\ evicted = {}
      /\ route = [pc |-> "idle", flow |-> Absent, lane |-> Absent]
  BY DEF LanesInit
<1>5. /\ lane = [l \in Lanes |-> IF l \in up THEN "up" ELSE IF l \in s.lanes THEN "down" ELSE "gone"]
      /\ active = up /\ queue = [l \in Lanes |-> [open |-> l \in up, items |-> <<>>]]
      /\ conn = [l \in Lanes |-> IF l \in up THEN [NoConn EXCEPT !.state = "open", !.lease = granted] ELSE NoConn]
      /\ lease = IF s.established THEN granted ELSE Absent
      /\ watch = [pc |-> IF s.established THEN "running" ELSE "starting", woken |-> FALSE]
  BY <1>1 DEF Began
<1>6. (\A l \in up : lease = granted) /\ lease \in Leases \cup {Absent}  BY <1>2, <1>4, <1>5
<1> HIDE DEF up
<1>7. watch \in Watches
  <2>1. \E pc \in {"running", "starting"}, woken \in BOOLEAN : watch = [pc |-> pc, woken |-> woken]  BY <1>5
  <2> QED BY <2>1 DEF Watches, Early
<1>8. route \in Routes  BY <1>4 DEF Routes
<1>9. ASSUME NEW l \in Lanes PROVE LaneOK(lane[l], conn[l], queue[l], lease, watch.pc) /\ (lane[l] = "up" <=> l \in up)
  <2> DEFINE open == l \in up
  <2>1. queue[l] = [open |-> open, items |-> <<>>] /\ open \in BOOLEAN  BY <1>5
  <2> HIDE DEF open
  <2>2. queue[l] \in UploadQueues /\ queue[l].open = open /\ queue[l].items = <<>>  BY <2>1, EmptyRange DEF UploadQueues
  <2>3. CASE l \in up
    <3>1. conn[l] = [NoConn EXCEPT !.state = "open", !.lease = granted] /\ lane[l] = "up"  BY <1>5, <2>3
    <3>2. conn[l] \in Conns /\ conn[l].state = "open" /\ conn[l].lease = granted /\ conn[l].up = <<>>
      BY <3>1, <1>2, <1>4, EmptyRange DEF NoConn, Conns
    <3>3. queue[l].open  BY <2>2, <2>3 DEF open
    <3> QED BY <2>2, <2>3, <3>1, <3>2, <3>3, <1>2, <1>4, <1>6 DEF LaneOK, LaneStates
  <2>4. CASE l \notin up
    <3>1. conn[l] = NoConn /\ lane[l] \in {"down", "gone"}  BY <1>5, <2>4
    <3>2. ~queue[l].open  BY <2>2, <2>4 DEF open
    <3>3. NoConn \in Conns /\ NoConn.state = "none" /\ NoConn.up = <<>>  BY NoConnIsTyped
    <3> QED BY <2>2, <2>4, <3>1, <3>2, <3>3 DEF LaneOK, LaneStates
  <2> QED BY <2>3, <2>4
<1>10. active = {l \in Lanes : lane[l] = "up"}  BY <1>3, <1>5, <1>9
<1>11. LanesOK  BY <1>2, <1>4, <1>5, <1>6, <1>7, <1>8, <1>9, <1>10 DEF LanesOK
<1>12. RouteOK(route, pins, lane, watch.pc)  BY <1>4 DEF RouteOK
<1>13. ASSUME NEW f, NEW l \in Lanes PROVE ~Carries(l, f)
  <2>1. queue[l].items = <<>>  BY <1>5
  <2>2. conn[l].up = <<>>  BY <1>5, NoConnIsTyped DEF NoConn
  <2> QED BY <2>1, <2>2, EmptyRange DEF Carries
<1>14. PinsOK
  <2>1. pins \in Seq(Entries) /\ Once(pins)  BY <1>4 DEF Once
  <2> QED BY <2>1, <1>13 DEF PinsOK, DataLanes
<1> QED BY <1>11, <1>12, <1>14 DEF LanesInv

LEMMA LanesSteps == ASSUME LanesInv, [LanesNext]_lanes_vars PROVE LanesInv'
<1>1. CASE \E l \in Lanes : LaneStep(l)
  <2>1. PICK l \in Lanes : LaneStep(l)  BY <1>1
  <2> QED BY <2>1, DialStep, EstablishFailsStep, EstablishRefusedStep, AcceptStep, ActivateStep, LaneEndsStep, DeactivateStep,
             LaneCancelledStep, ExpireStep, UploadStep DEF LaneStep
<1>2. CASE \E f \in Flows : RoutePacket(f)  BY <1>2, RoutePacketStep
<1>3. CASE QueuePacket \/ Reroute  BY <1>3, QueuePacketStep, RerouteStep
<1>4. CASE Startup \/ Monitor  BY <1>4, StartupStep, MonitorStep
<1>5. CASE Gateway
  <2>1. CASE \E l \in Lanes : Handle(l) \/ ServeUpload(l) \/ Lose(l)  BY <2>1, HandleStep, ServeUploadStep, LoseStep
  <2>2. CASE ChangeLease \/ \E l \in Lanes : ServeEnds(l)  BY <2>2, OtherSteps
  <2> QED BY <1>5, <2>1, <2>2 DEF Gateway
<1>6. CASE CloseGroup \/ UNCHANGED lanes_vars  BY <1>6, OtherSteps
<1> QED BY <1>1, <1>2, <1>3, <1>4, <1>5, <1>6 DEF LanesNext

(* At most one live data lane has the pin of a flow.                        *)
LEMMA LanesInvIsEnough == ASSUME LanesInv PROVE LanesAreSound
<1>1. \A l \in active : conn[l].lease = lease  BY DEF LanesInv, LanesOK, LaneOK
<1>2. \A l \in Lanes : queue[l].items # <<>> => lane[l] \in {"opened", "up", "closing"}  BY DEF LanesInv, LanesOK, LaneOK
<1>3. ASSUME NEW f \in (TcpFlows \cup DatagramFlows) \ evicted
      PROVE  Cardinality({l \in DataLanes : Carries(l, f)}) <= 1
  <2> DEFINE S == {l \in DataLanes : Carries(l, f)}
  <2>1. \A l \in S : DataLane(f) = {l}  BY CarrierIsChosen
  <2>2. CASE S = {}  BY <2>2, FS_EmptySet
  <2>3. CASE S # {}
    <3>1. PICK l : l \in S  BY <2>3
    <3>2. S = {l}  BY <3>1, <2>1
    <3> QED BY <3>2, FS_Singleton
  <2> QED BY <2>2, <2>3
<1> QED BY <1>1, <1>2, <1>3 DEF LanesAreSound, LanesAgree, FlowsKeepLane

(* Group::route, accept_lease and deactivate_and_clear: for any number of   *)
(* lanes, flows, packets and reconnects, any queue and any flow table, the  *)
(* lanes that may be chosen run on the agreed lease, no packet waits for a  *)
(* connection it was not meant for, and the packets of a flow that was not  *)
(* forgotten are under way on at most one live data lane.                   *)
THEOREM LanesAreAlwaysSound == LanesSpec => []LanesAreSound
<1>1. LanesInit => LanesInv  BY LanesInitially
<1>2. LanesInv /\ [LanesNext]_lanes_vars => LanesInv'  BY LanesSteps
<1>3. LanesInv => LanesAreSound  BY LanesInvIsEnough
<1> QED BY <1>1, <1>2, <1>3, PTL DEF LanesSpec
============================================================================
