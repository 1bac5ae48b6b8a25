--------------------------- MODULE WindowsProofs ---------------------------
(***************************************************************************)
(* The Windows client is safe and its desktop application sound, for any   *)
(* endpoints, leases, adapters, profiles, tasks and limits, and any number *)
(* of failures, crashes and restarts.                                      *)
(*                                                                         *)
(* The network.  WindowsIsSafe is not inductive: why a step finds what it  *)
(* undoes, and why nothing is left when the guard goes, is in how far the  *)
(* process and its helper have come.  The invariant has a part that holds  *)
(* whoever stops where (Consistent: the journal covers the system) and one *)
(* that ties the system and the journal to the place of the process        *)
(* (Shape, Noted, Covered, Bound, Undone).  An error ends the process, so  *)
(* that a failing step need only keep the first part.                      *)
(*                                                                         *)
(* The application.  Beside its types the invariant needs to know why an   *)
(* exit is clean: the decision to exit is taken with the lock, and what it *)
(* rests on is still so when the application exits, unless a connect came  *)
(* in between.                                                             *)
(***************************************************************************)
EXTENDS WindowsNetwork, Desktop, TLAPS

TunAddresses == {l.address : l \in Leases}
Prefixes == Endpoints \cup PortaDns \cup {"low", "high"}
Routes == [kind : {"escape", "dns", "tunnel"}, prefix : Prefixes, on : Physical \cup Adapters, index : Physical \cup Indexes]
Guards == [endpoint : Endpoints, tun : Adapters \cup {None}]
Tuns == [id : Adapters \cup {None}, index : Indexes \cup {None}, addresses : SUBSET TunAddresses,
         dns : PortaDns \cup {"own", "admin"}, mtu : PortaMtu \cup {"own", "admin"}, dhcp : BOOLEAN]
Systems == [tun : Tuns, kept : BOOLEAN, phys : Physical, routes : SUBSET Routes, guard : Guards \cup {None}]
Journals == [endpoint : Endpoints \cup {None}, id : Adapters \cup {None}, index : Indexes \cup {None}, dhcp : BOOLEAN,
             addresses : SUBSET TunAddresses, routes : SUBSET Routes,
             dns : Records(PortaDns) \cup {None}, mtu : Records(PortaMtu) \cup {None}]

Owned(o, j) ==
  /\ \A r \in j.routes : IF r.kind = "escape" THEN r.on \in Physical /\ r.index = r.on ELSE r.on = j.id
  /\ o.routes \subseteq j.routes
  /\ \A r \in o.routes : Present(o, r.on) /\ r.index = IndexOf(o, r.on)

(* A value in force is claimed by a record unless one was lost. *)
Recorded(record, value, porta, o, j, l) ==
  /\ record # None /\ ~l => record.original \notin porta
  /\ value \in porta /\ ~l => j.id = o.tun.id /\ record # None /\ Ours(record, value)

Consistent(o, j, l) ==
  /\ o \in Systems /\ j \in Journals /\ l \in BOOLEAN
  /\ validate_state(j)
  /\ o.guard # None => j.endpoint # None
  /\ o.tun.id = None => o.tun = NoTun
  /\ o.tun.id # None => o.tun.index # None
  /\ Owned(o, j)
  /\ o.tun.id # None =>
       /\ (o.tun.addresses # {} \/ ~o.tun.dhcp) => j.id = o.tun.id
       /\ ~o.tun.dhcp => j.dhcp
  /\ o.tun.addresses \subseteq j.addresses
  /\ Recorded(j.dns, o.tun.dns, PortaDns, o, j, l)
  /\ Recorded(j.mtu, o.tun.mtu, PortaMtu, o, j, l)
  /\ (o.routes # {} \/ o.tun.addresses # {} \/ (o.tun.dns \in PortaDns /\ ~l)) => o.guard # None

Late == {"mtu", "dns-route", "dns", "set-dns", "keep-dns", "low", "high", "stale", "addresses"}
Cleared == {"restore-dns", "restore-mtu", "forget", "remove-addresses", "dhcp"}
StepsOf(script) ==
  CASE script = "none" -> {"none"}
    [] script = "retire" -> {"retire", "done"}
    [] script = "prepare" -> {"escape", "escaped", "done"}
    [] script = "configure" -> {"escape", "escaped", "identity", "address", "done"}
    [] script = "up" -> {"escape", "escaped", "identity", "address", "done"} \cup Late
    [] script = "down" -> {"routes", "done"} \cup Cleared

(* Where the process and its helper are. *)
Places == {"off", "loop", "dial", "acquire", "next", "guard", "script", "prepared", "device", "configure", "mtu", "set-mtu",
           "keep-mtu", "connected", "restore", "forget-mtu", "unguard", "remove", "downed"}
Calls == {"none", "prepare", "up", "down"}
Processes ==
  [pc : Places, op : Calls, script : {"none", "retire", "prepare", "configure", "up", "down"},
   step : {"none", "retire", "escape", "escaped", "identity", "address", "routes", "done"} \cup Late \cup Cleared,
   dial : Endpoints \cup {None}, lease : Leases \cup {NoLease}, active : BOOLEAN, device : BOOLEAN,
   endpoints : SUBSET Endpoints, dead : BOOLEAN]

Shape(k) ==
  /\ k \in Processes
  /\ k.step \in StepsOf(k.script)
  /\ k.pc = "script" <=> k.script # "none"
  /\ k.dead => k.script # "none"
  /\ k.script = "prepare" => k.op \in {"prepare", "up"}
  /\ k.script \in {"retire", "configure", "up"} \/ k.pc \in {"configure", "mtu", "set-mtu", "keep-mtu"} => k.op = "up"
  /\ k.script = "down" \/ k.pc \in {"restore", "forget-mtu", "unguard", "remove"} => k.op = "down"
  /\ k.pc \in {"next", "guard"} => k.op \in {"prepare", "up"}
  /\ k.pc = "acquire" => k.op # "none"
  /\ k.op \in {"prepare", "up"} \/ k.pc \in {"dial", "device", "connected"} => k.dial \in Endpoints
  /\ k.op = "up" \/ k.pc = "device" => k.lease \in Leases
  /\ (k.pc = "prepared" => k.op = "prepare") /\ (k.pc = "connected" => k.op = "none")

Guard(k, o) == [endpoint |-> k.dial, tun |-> IF k.op = "prepare" THEN None ELSE o.tun.id]

(* The manager's copy of the journal is the journal, and what it names.     *)
Noted(k, o, j, m) ==
  /\ k.pc \in {"next", "mtu", "set-mtu", "keep-mtu", "restore", "forget-mtu"} => m = j
  /\ k.script # "none" \/ k.pc \in {"restore", "forget-mtu"} => j.endpoint # None
  /\ k.pc = "guard" => j.endpoint = k.dial /\ (k.op = "up" => o.tun.id # None)

(* While the network is set up the guard stands. *)
Covered(k, o, j) ==
  /\ k.script \in {"prepare", "configure", "up"} => o.guard # None
  /\ (k.script \in {"prepare", "configure", "up"} /\ ~k.dead) \/ k.pc \in {"configure", "mtu", "set-mtu", "keep-mtu", "connected"} =>
       /\ o.guard = Guard(k, o) /\ j.endpoint = k.dial
       /\ k.op # "prepare" => o.tun.id # None
  /\ k.pc = "connected" => o.tun.addresses = {k.lease.address}

Bound(k, o, j) ==
  LET gone == k.dead /\ o.tun.id = None IN
  /\ k.script \in {"configure", "up"} /\ k.step \in {"address", "done"} \cup Late =>
       j.id # None /\ (gone \/ (o.tun.id = j.id /\ o.tun.index = j.index))
  /\ k.script = "up" /\ k.step \in {"done"} \cup Late => gone \/ k.lease.address \in o.tun.addresses
  /\ k.script = "up" /\ k.step = "done" => j.addresses \subseteq {k.lease.address}
  /\ k.step \in {"set-dns", "keep-dns"} => j.dns # None /\ j.dns.pending = k.lease.dns
  /\ k.step = "keep-dns" => gone \/ o.tun.dns = k.lease.dns
  /\ k.pc \in {"set-mtu", "keep-mtu"} => j.id = o.tun.id /\ j.mtu # None /\ j.mtu.pending = k.lease.mtu
  /\ k.pc = "keep-mtu" => o.tun.mtu = k.lease.mtu

Undone(k, o, j, l) ==
  LET down == k.script = "down"
      after == k.pc \in {"unguard", "remove"} IN
  /\ (down /\ k.step # "routes") \/ after => j.routes = {}
  /\ (down /\ k.step \notin {"routes", "restore-dns"}) \/ after => o.tun.dns \notin PortaDns \/ l
  /\ (down /\ k.step \notin {"routes", "restore-dns", "restore-mtu"}) \/ after \/ k.pc = "forget-mtu" => o.tun.mtu \notin PortaMtu \/ l
  /\ (down /\ k.step \in {"dhcp", "done"}) \/ after => o.tun.addresses = {}
  /\ (down /\ k.step = "done") \/ after => o.tun.id = None \/ o.tun.dhcp
  /\ k.pc = "remove" => o.guard = None

(* What depends on the place of the process, and the inductive invariant. *)
Rest(k, o, j, m, l) == Shape(k) /\ Noted(k, o, j, m) /\ Covered(k, o, j) /\ Bound(k, o, j) /\ Undone(k, o, j, l)

WindowsInv == Consistent(os, journal, lost) /\ Rest(c, os, journal, mem, lost)

(* The history is never forgotten. *)
LostStep == lost' \in BOOLEAN /\ (lost => lost')
----------------------------------------------------------------------------
(* A permit filter of a layer, in the conditions that a packet meets. *)
Local1(g, p) == p.loopback = TRUE \/ (p.family = 4 /\ g.tun # None /\ p.interface = g.tun)

Gateway1(g, p, kind) ==
  /\ p.family = family(g.endpoint) /\ p.address = g.endpoint
  /\ kind = "packet" \/ (/\ p.protocol \in {"tcp", "udp"} /\ p.port = "gateway"
                         /\ kind \in {"connect", "accept"} => p.application = "porta")

Neighbors1(g, p, kind) ==
  /\ p.family # 4 /\ family(g.endpoint) # 4 /\ p.address \in {"link", "multicast"}
  /\ kind = "packet" \/ (p.protocol = "icmp6" /\ (p.type \in {133, 135, 136} \/ (kind = "accept" /\ p.type = 134)))

Meets(conditions, p) == \A condition \in conditions : p[condition[1]] = condition[2]

LEMMA FieldsOfPackets ==
  ASSUME NEW p \in Packets
  PROVE  /\ p["loopback"] = p.loopback /\ p["interface"] = p.interface /\ p["address"] = p.address
         /\ p["protocol"] = p.protocol /\ p["port"] = p.port /\ p["type"] = p.type
         /\ p["application"] = p.application
  BY DEF Packets

LEMMA MeetsOne ==
  ASSUME NEW p, NEW f, NEW v
  PROVE  Meets({<<f, v>>}, p) <=> p[f] = v
  BY DEF Meets

LEMMA MeetsThree ==
  ASSUME NEW p, NEW f, NEW v, NEW f2, NEW v2, NEW f3, NEW v3
  PROVE  Meets({<<f, v>>, <<f2, v2>>, <<f3, v3>>}, p) <=> (p[f] = v /\ p[f2] = v2 /\ p[f3] = v3)
  BY DEF Meets

LEMMA MeetsMore ==
  ASSUME NEW p, NEW S, NEW T
  PROVE  Meets(S \cup T, p) <=> (Meets(S, p) /\ Meets(T, p))
  BY DEF Meets

LEMMA MeetsNone ==
  ASSUME NEW p
  PROVE  Meets({}, p)
  BY DEF Meets

LEMMA LocalPermits ==
  ASSUME NEW p \in Packets, NEW g \in Guards, NEW kind
  PROVE  (\E cs \in Local(g, kind, p.family) : Meets(cs, p)) <=> Local1(g, p)
<1>1. Meets({<<"loopback", TRUE>>}, p) <=> p.loopback = TRUE
  BY MeetsOne, FieldsOfPackets
<1>2. Meets({<<"interface", g.tun>>}, p) <=> p.interface = g.tun
  BY MeetsOne, FieldsOfPackets
<1>3. CASE p.family = 4 /\ g.tun # None
  <2>1. Local(g, kind, p.family) = {{<<"loopback", TRUE>>}} \cup {{<<"interface", g.tun>>}}
    BY <1>3 DEF Local
  <2> QED BY <1>1, <1>2, <1>3, <2>1, Zenon DEF Local1
<1>4. CASE ~(p.family = 4 /\ g.tun # None)
  <2>1. Local(g, kind, p.family) = {{<<"loopback", TRUE>>}} \cup {}
    BY <1>4, Zenon DEF Local
  <2> QED BY <1>1, <1>4, <2>1, Zenon DEF Local1
<1> QED BY <1>3, <1>4

LEMMA GatewayPermits ==
  ASSUME NEW p \in Packets, NEW g \in Guards, NEW kind \in Layers
  PROVE  (\E cs \in Gateway(g, kind, p.family) : Meets(cs, p)) <=> Gateway1(g, p, kind)
<1>0. p["address"] = p.address /\ p["protocol"] = p.protocol /\ p["port"] = p.port
  BY FieldsOfPackets
<1> DEFINE address == <<"address", g.endpoint>>
           program == IF kind \in {"connect", "accept"} THEN {<<"application", "porta">>} ELSE {}
           three(q) == {<<"address", g.endpoint>>, <<"protocol", q>>, <<"port", "gateway">>}
<1>1. CASE p.family # family(g.endpoint)
  <2>1. Gateway(g, kind, p.family) = {}
    BY <1>1, Zenon DEF Gateway
  <2> QED BY <1>1, <2>1, Zenon DEF Gateway1
<1>2. CASE p.family = family(g.endpoint) /\ kind = "packet"
  <2>1. Gateway(g, kind, p.family) = {{address}}
    BY <1>2, Zenon DEF Gateway
  <2>2. Meets({address}, p) <=> p.address = g.endpoint
    BY MeetsOne, FieldsOfPackets
  <2> QED BY <1>2, <2>1, <2>2, Zenon DEF Gateway1
<1>3. CASE p.family = family(g.endpoint) /\ kind # "packet"
  <2>1. Gateway(g, kind, p.family) = {three(q) \cup program : q \in {"tcp", "udp"}}
    BY <1>3, Zenon DEF Gateway
  <2>2. ASSUME NEW q PROVE Meets(three(q), p) <=> (p.address = g.endpoint /\ p.protocol = q /\ p.port = "gateway")
    <3>1. \A a : Meets({<<"address", a>>, <<"protocol", q>>, <<"port", "gateway">>}, p) <=>
                 (p["address"] = a /\ p["protocol"] = q /\ p["port"] = "gateway")
      BY MeetsThree, Zenon
    <3> QED BY <3>1, <1>0, Zenon
  <2>3. Meets(program, p) <=> (kind \in {"connect", "accept"} => p.application = "porta")
    BY MeetsOne, MeetsNone, FieldsOfPackets
  <2>4. ASSUME NEW q PROVE Meets(three(q) \cup program, p) <=> (Meets(three(q), p) /\ Meets(program, p))
    BY MeetsMore, Zenon
  <2> HIDE DEF three, program
  <2>5. (\E cs \in Gateway(g, kind, p.family) : Meets(cs, p)) <=> \E q \in {"tcp", "udp"} : Meets(three(q) \cup program, p)
    BY <2>1, Zenon
  <2> QED BY <1>3, <2>5, <2>2, <2>3, <2>4, Zenon DEF Gateway1
<1> QED BY <1>1, <1>2, <1>3

LEMMA NeighborsPermit ==
  ASSUME NEW p \in Packets, NEW g \in Guards, NEW kind \in Layers
  PROVE  (\E cs \in Neighbors(g, kind, p.family) : Meets(cs, p)) <=> Neighbors1(g, p, kind)
<1>0. p["address"] = p.address /\ p["protocol"] = p.protocol /\ p["type"] = p.type
  BY FieldsOfPackets
<1> DEFINE types == {133, 135, 136} \cup (IF kind = "accept" THEN {134} ELSE {})
           three(a, t) == {<<"address", a>>, <<"protocol", "icmp6">>, <<"type", t>>}
<1>1. CASE p.family = 4 \/ family(g.endpoint) = 4
  <2>1. Neighbors(g, kind, p.family) = {}
    BY <1>1 DEF Neighbors
  <2> QED BY <1>1, <2>1, Zenon DEF Neighbors1
<1>2. CASE ~(p.family = 4 \/ family(g.endpoint) = 4) /\ kind = "packet"
  <2>1. Neighbors(g, kind, p.family) = {{<<"address", a>>} : a \in {"link", "multicast"}}
    BY <1>2 DEF Neighbors
  <2>2. ASSUME NEW a PROVE Meets({<<"address", a>>}, p) <=> p.address = a
    BY MeetsOne, FieldsOfPackets
  <2>3. (\E cs \in Neighbors(g, kind, p.family) : Meets(cs, p)) <=> \E a \in {"link", "multicast"} : p.address = a
    BY <2>1, <2>2, Zenon
  <2> QED BY <1>2, <2>3, Zenon DEF Neighbors1
<1>3. CASE ~(p.family = 4 \/ family(g.endpoint) = 4) /\ kind # "packet"
  <2>1. Neighbors(g, kind, p.family) = {three(a, t) : a \in {"link", "multicast"}, t \in types}
    BY <1>3 DEF Neighbors
  <2>2. ASSUME NEW a, NEW t PROVE Meets(three(a, t), p) <=> (p.address = a /\ p.protocol = "icmp6" /\ p.type = t)
    BY MeetsThree, <1>0, Zenon
  <2>3. p.type \in types <=> (p.type \in {133, 135, 136} \/ (kind = "accept" /\ p.type = 134))
    OBVIOUS
  <2> HIDE DEF three, types
  <2>4. (\E cs \in Neighbors(g, kind, p.family) : Meets(cs, p)) <=> \E a \in {"link", "multicast"}, t \in types : Meets(three(a, t), p)
    BY <2>1
  <2>5. @ <=> (p.address \in {"link", "multicast"} /\ p.protocol = "icmp6" /\ p.type \in types)
    BY <2>2, Zenon
  <2> QED BY <1>3, <2>4, <2>5, <2>3, Zenon DEF Neighbors1
<1> QED BY <1>1, <1>2, <1>3


(* What permits outweighs what blocks, and the block always matches.        *)
LEMMA PermitsDecide ==
  ASSUME NEW p \in Packets, NEW g \in Guards, NEW kind \in Layers \cup {"forward"}
  PROVE  LET at == {x \in guard_filters(g) : x.layer = <<kind, p.family>> /\ Matches(x, p)} IN
         (at = {} \/ \E x \in at : x.permit /\ \A y \in at : y.weight <= x.weight)
         <=> kind \in Layers /\ \E cs \in Local(g, kind, p.family) \cup Gateway(g, kind, p.family) \cup Neighbors(g, kind, p.family) : Meets(cs, p)
<1> DEFINE at == {x \in guard_filters(g) : x.layer = <<kind, p.family>> /\ Matches(x, p)}
           conditions(k, f) == Local(g, k, f) \cup Gateway(g, k, f) \cup Neighbors(g, k, f)
<1>1. guard_filters(g) = Permits(g) \cup Blocks
  BY DEF guard_filters
<1>2. p.family \in {4, 6}
  BY DEF Packets
<1>7. \A k, f, cs : LET x == Permit(k, f, cs) IN
        x.layer = <<k, f>> /\ x.permit = TRUE /\ x.weight = 100 /\ (Matches(x, p) <=> Meets(cs, p))
  BY DEF Permit, Matches, Meets
<1>8. \A k, f : LET x == Block(k, f) IN x.layer = <<k, f>> /\ x.permit = FALSE /\ x.weight = 1 /\ Matches(x, p)
  BY DEF Block, Matches
<1> DEFINE at2(k, f) == {Permit(k, f, cs) : cs \in conditions(k, f)}
<1>0. Permits(g) = UNION {at2(k, f) : k \in Layers, f \in {4, 6}}
  BY DEF Permits
<1> HIDE DEF at2
<1>3. ASSUME NEW x \in Permits(g) PROVE \E k \in Layers, f \in {4, 6} : \E cs \in conditions(k, f) : x = Permit(k, f, cs)
  <2>2. PICK s \in {at2(k, f) : k \in Layers, f \in {4, 6}} : x \in s
    BY <1>0
  <2>3. PICK k \in Layers, f \in {4, 6} : x \in at2(k, f)
    BY <2>2
  <2> QED BY <2>3 DEF at2
<1>4. \A k \in Layers, f \in {4, 6} : \A cs \in conditions(k, f) : Permit(k, f, cs) \in Permits(g)
  <2>1. \A k \in Layers, f \in {4, 6} : at2(k, f) \subseteq Permits(g)
    BY <1>0
  <2> QED BY <2>1 DEF at2
<1>5. \A x \in Blocks : \E k \in Layers \cup {"forward"}, f \in {4, 6} : x = Block(k, f)
  BY DEF Blocks
<1>6. Block(kind, p.family) \in Blocks
  BY <1>2 DEF Blocks
<1> HIDE DEF conditions
<1>9. Block(kind, p.family) \in at
  BY <1>1, <1>6, <1>8
<1>10. \A y \in at : y.weight \in {1, 100} /\ (y.permit => y \in Permits(g) /\ y.weight = 100)
  BY <1>1, <1>3, <1>5, <1>7, <1>8
<1>11. (\E x \in at : x.permit) <=> kind \in Layers /\ \E cs \in conditions(kind, p.family) : Meets(cs, p)
  <2>1. ASSUME NEW x \in at, x.permit
        PROVE  kind \in Layers /\ \E cs \in conditions(kind, p.family) : Meets(cs, p)
    <3>1. PICK k \in Layers, f \in {4, 6} : \E cs \in conditions(k, f) : x = Permit(k, f, cs)
      BY <2>1, <1>10, <1>3
    <3>2. PICK cs \in conditions(k, f) : x = Permit(k, f, cs)
      BY <3>1
    <3>3. x.layer = <<k, f>> /\ x.layer = <<kind, p.family>> /\ Meets(cs, p)
      BY <3>2, <1>7
    <3>4. k = kind /\ f = p.family
      BY <3>3
    <3> QED BY <3>2, <3>3, <3>4
  <2>2. ASSUME kind \in Layers, NEW cs \in conditions(kind, p.family), Meets(cs, p)
        PROVE  \E x \in at : x.permit
    <3>1. Permit(kind, p.family, cs) \in Permits(g)
      BY <1>2, <1>4, <2>2
    <3>2. Permit(kind, p.family, cs) \in at
      BY <3>1, <1>1, <1>7, <2>2
    <3> QED BY <3>2, <1>7
  <2> QED BY <2>1, <2>2
<1> HIDE DEF at
<1>12. (at = {} \/ \E x \in at : x.permit /\ \A y \in at : y.weight <= x.weight) <=> \E x \in at : x.permit
  BY <1>9, <1>10
<1> QED BY <1>11, <1>12, Zenon DEF at, conditions

(* What passes a layer. *)
LEMMA LayerPasses ==
  ASSUME NEW p \in Packets, NEW g \in Guards
  PROVE  Admits(guard_filters(g), p) <=>
         \A kind \in Seen(p.way) : kind \in Layers /\ (Local1(g, p) \/ Gateway1(g, p, kind) \/ Neighbors1(g, p, kind))
<1>1. Seen(p.way) \subseteq Layers \cup {"forward"}
  BY DEF Seen, Layers, Packets
<1>2. ASSUME NEW kind \in Seen(p.way)
      PROVE  LET at == {x \in guard_filters(g) : x.layer = <<kind, p.family>> /\ Matches(x, p)} IN
             (at = {} \/ \E x \in at : x.permit /\ \A y \in at : y.weight <= x.weight)
             <=> kind \in Layers /\ (Local1(g, p) \/ Gateway1(g, p, kind) \/ Neighbors1(g, p, kind))
  <2>1. kind \in Layers \cup {"forward"}
    BY <1>1
  <2>2. kind \in Layers =>
          ((\E cs \in Local(g, kind, p.family) \cup Gateway(g, kind, p.family) \cup Neighbors(g, kind, p.family) : Meets(cs, p))
           <=> (Local1(g, p) \/ Gateway1(g, p, kind) \/ Neighbors1(g, p, kind)))
    BY LocalPermits, GatewayPermits, NeighborsPermit, Zenon
  <2> QED BY <2>1, <2>2, PermitsDecide, Zenon
<1> QED BY <1>2, Zenon DEF Admits

LEMMA GuardsConfine ==
  Guards \subseteq Confining
<1>1. SUFFICES ASSUME NEW g \in Guards, NEW p \in Packets PROVE Admits(guard_filters(g), p) <=> Meant(g, p)
  BY Zenon DEF Confining, Guards
<1>2. g.endpoint \notin {"link", "multicast"} /\ family(g.endpoint) \in {4, 6}
  BY WindowsAssumption DEF Guards, family
<1>3. /\ p.family \in {4, 6} /\ p.loopback \in BOOLEAN /\ p.type \in {0, 134, 135}
      /\ p.way \in {"in", "out", "forward"}
  BY DEF Packets
<1>4. CASE p.way = "out"
  <2>1. Seen(p.way) = {"packet", "transport", "connect"}  BY <1>4 DEF Seen
  <2>2. Admits(guard_filters(g), p) <=> \A kind \in {"packet", "transport", "connect"} :
                                            Local1(g, p) \/ Gateway1(g, p, kind) \/ Neighbors1(g, p, kind)
    BY <2>1, LayerPasses, Zenon DEF Layers
  <2>3. Local1(g, p) => Meant(g, p)
    BY <1>4 DEF Local1, Meant
  <2>4. ~Local1(g, p) => (Meant(g, p) <=> (Gateway1(g, p, "connect") \/ Neighbors1(g, p, "connect")))
    BY <1>2, <1>3, <1>4 DEF Local1, Gateway1, Neighbors1, Meant
  <2>5. /\ Gateway1(g, p, "connect") => Gateway1(g, p, "packet") /\ Gateway1(g, p, "transport")
        /\ Neighbors1(g, p, "connect") => Neighbors1(g, p, "packet") /\ Neighbors1(g, p, "transport")
    BY DEF Gateway1, Neighbors1
  <2> QED BY <2>2, <2>3, <2>4, <2>5, Zenon
<1>5. CASE p.way = "in"
  <2>1. Seen(p.way) = {"accept"}  BY <1>5 DEF Seen
  <2>2. Admits(guard_filters(g), p) <=> (Local1(g, p) \/ Gateway1(g, p, "accept") \/ Neighbors1(g, p, "accept"))
    BY <2>1, LayerPasses, Zenon DEF Layers
  <2>3. Local1(g, p) => Meant(g, p)
    BY <1>5 DEF Local1, Meant
  <2>4. ~Local1(g, p) => (Meant(g, p) <=> (Gateway1(g, p, "accept") \/ Neighbors1(g, p, "accept")))
    BY <1>2, <1>3, <1>5 DEF Local1, Gateway1, Neighbors1, Meant
  <2> QED BY <2>2, <2>3, <2>4, Zenon
<1>6. CASE p.way = "forward"
  <2>1. Seen(p.way) = {"forward"}  BY <1>6 DEF Seen
  <2> QED BY <2>1, <1>6, LayerPasses DEF Layers, Meant
<1> QED BY <1>3, <1>4, <1>5, <1>6
----------------------------------------------------------------------------
LEMMA NoTunIsTyped == NoTun \in Tuns /\ NoTun.id = None /\ NoTun.index = None /\ NoTun.addresses = {} /\ NoTun.dns = "own" /\ NoTun.mtu = "own"
BY DEF NoTun, Tuns

LEMMA EmptyIsTyped ==
  /\ Empty \in Journals /\ Empty.endpoint = None /\ Empty.id = None /\ Empty.index = None /\ Empty.dhcp = FALSE
  /\ Empty.addresses = {} /\ Empty.routes = {} /\ Empty.dns = None /\ Empty.mtu = None
BY DEF Empty, Journals

(* A journal is not empty iff it names an endpoint. *)
LEMMA EndpointNamed ==
  ASSUME NEW j, validate_state(j)
  PROVE  (j # Empty) <=> (j.endpoint # None)
BY EmptyIsTyped DEF validate_state

LEMMA LostGrows ==
  ASSUME NEW o, NEW j, NEW l, NEW l2 \in BOOLEAN, Consistent(o, j, l), l => l2
  PROVE  Consistent(o, j, l2)
BY DEF Consistent, Recorded

LEMMA ClosedKeeps ==
  ASSUME NEW o, NEW j, NEW l, Consistent(o, j, l)
  PROVE  Consistent(Closed(o), j, l) /\ Closed(o).guard = o.guard /\ Closed(o).kept = o.kept /\ Closed(o).phys = o.phys
<1> DEFINE n == WithoutTun(o)
<1>1. o \in Systems  BY DEF Consistent
<1>2. n \in Systems /\ n.tun = NoTun /\ n.guard = o.guard /\ n.kept = o.kept /\ n.phys = o.phys
      /\ n.routes = {r \in o.routes : r.on # o.tun.id}
  BY <1>1, NoTunIsTyped DEF WithoutTun, Systems
<1> HIDE DEF n
<1>3. \A r \in o.routes : Present(o, r.on) /\ r.index = IndexOf(o, r.on)  BY DEF Consistent, Owned
<1>4. \A r \in n.routes : r \in o.routes /\ r.on \in Physical /\ Present(n, r.on) /\ r.index = IndexOf(n, r.on)
  BY <1>2, <1>3 DEF Present, IndexOf
<1>5. Owned(n, j)  BY <1>4 DEF Consistent, Owned
<1>6. "own" \notin PortaDns /\ "own" \notin PortaMtu  BY WindowsAssumption
<1>7. Recorded(j.dns, n.tun.dns, PortaDns, n, j, l)  BY <1>2, <1>6, NoTunIsTyped DEF Consistent, Recorded
<1>8. Recorded(j.mtu, n.tun.mtu, PortaMtu, n, j, l)  BY <1>2, <1>6, NoTunIsTyped DEF Consistent, Recorded
<1>9. n.routes # {} => o.guard # None  BY <1>4 DEF Consistent
<1>10. Consistent(n, j, l)  BY <1>2, <1>5, <1>6, <1>7, <1>8, <1>9, NoTunIsTyped DEF Consistent
<1> QED BY <1>2, <1>10 DEF Closed, n

(* Changes of the system that the journal already names. *)
LEMMA RouteAdded ==
  ASSUME NEW o, NEW j, NEW l, Consistent(o, j, l), NEW r \in j.routes, Present(o, r.on), r.index = IndexOf(o, r.on), o.guard # None
  PROVE  Consistent([o EXCEPT !.routes = o.routes \cup {r}], j, l)
<1> DEFINE n == [o EXCEPT !.routes = o.routes \cup {r}]
<1>1. o \in Systems /\ r \in Routes  BY DEF Consistent, Journals
<1>2. n \in Systems /\ n.tun = o.tun /\ n.guard = o.guard /\ n.routes = o.routes \cup {r}
  BY <1>1 DEF Systems
<1> HIDE DEF n
<1>3. \A x \in n.routes : x \in j.routes /\ Present(n, x.on) /\ x.index = IndexOf(n, x.on)
  BY <1>2 DEF Consistent, Owned, Present, IndexOf
<1>4. Owned(n, j)  BY <1>3 DEF Consistent, Owned
<1>5. Consistent(n, j, l)  BY <1>2, <1>4 DEF Consistent, Recorded
<1> QED BY <1>5 DEF n

LEMMA RoutesDropped ==
  ASSUME NEW o, NEW j, NEW l, Consistent(o, j, l), NEW R \in SUBSET o.routes
  PROVE  Consistent([o EXCEPT !.routes = R], j, l)
<1> DEFINE n == [o EXCEPT !.routes = R]
<1>1. o \in Systems /\ R \subseteq Routes  BY DEF Consistent, Systems
<1>2. n \in Systems /\ n.tun = o.tun /\ n.guard = o.guard /\ n.routes = R
  BY <1>1 DEF Systems
<1> HIDE DEF n
<1>3. \A x \in n.routes : x \in j.routes /\ Present(n, x.on) /\ x.index = IndexOf(n, x.on)
  BY <1>2 DEF Consistent, Owned, Present, IndexOf
<1>4. Owned(n, j) /\ (n.routes # {} => o.routes # {})  BY <1>2, <1>3 DEF Consistent, Owned
<1>5. Consistent(n, j, l)  BY <1>2, <1>4 DEF Consistent, Recorded
<1> QED BY <1>5 DEF n

(* The adapter is changed and not replaced. *)
LEMMA TunChanged ==
  ASSUME NEW o, NEW j, NEW l, Consistent(o, j, l), NEW t \in Tuns, t.id = o.tun.id, t.index = o.tun.index, t.id # None,
         (t.addresses # {} \/ ~t.dhcp) => j.id = t.id,
         ~t.dhcp => j.dhcp,
         t.addresses \subseteq j.addresses,
         t.addresses # {} => o.guard # None,
         t.dns \in PortaDns /\ ~l => j.id = t.id /\ j.dns # None /\ Ours(j.dns, t.dns) /\ o.guard # None,
         t.mtu \in PortaMtu /\ ~l => j.id = t.id /\ j.mtu # None /\ Ours(j.mtu, t.mtu)
  PROVE  Consistent([o EXCEPT !.tun = t], j, l)
<1> DEFINE n == [o EXCEPT !.tun = t]
<1>1. o \in Systems  BY DEF Consistent
<1>2. n \in Systems /\ n.tun = t /\ n.guard = o.guard /\ n.routes = o.routes
  BY <1>1 DEF Systems
<1> HIDE DEF n
<1>3. Owned(n, j)  BY <1>2 DEF Consistent, Owned, Present, IndexOf
<1>4. Recorded(j.dns, n.tun.dns, PortaDns, n, j, l) /\ Recorded(j.mtu, n.tun.mtu, PortaMtu, n, j, l)
  BY <1>2 DEF Consistent, Recorded
<1>5. Consistent(n, j, l)  BY <1>2, <1>3, <1>4 DEF Consistent
<1> QED BY <1>5 DEF n

LEMMA GuardChanged ==
  ASSUME NEW o, NEW j, NEW l, Consistent(o, j, l), NEW g \in Guards \cup {None}, g # None => j.endpoint # None,
         (o.routes # {} \/ o.tun.addresses # {} \/ (o.tun.dns \in PortaDns /\ ~l)) => g # None
  PROVE  Consistent([o EXCEPT !.guard = g], j, l)
<1> DEFINE n == [o EXCEPT !.guard = g]
<1>1. o \in Systems  BY DEF Consistent
<1>2. n \in Systems /\ n.tun = o.tun /\ n.guard = g /\ n.routes = o.routes
  BY <1>1 DEF Systems
<1> HIDE DEF n
<1>3. Owned(n, j)  BY <1>2 DEF Consistent, Owned, Present, IndexOf
<1>4. Consistent(n, j, l)  BY <1>2, <1>3 DEF Consistent, Recorded
<1> QED BY <1>4 DEF n

(* Changes of the journal. *)
LEMMA Listed ==
  ASSUME NEW o, NEW j, NEW l, Consistent(o, j, l), j.endpoint # None, NEW r \in Routes,
         IF r.kind = "escape" THEN r.on \in Physical /\ r.index = r.on ELSE r.on = j.id /\ j.id # None
  PROVE  Consistent(o, [j EXCEPT !.routes = j.routes \cup {r}], l)
<1> DEFINE n == [j EXCEPT !.routes = j.routes \cup {r}]
<1>1. j \in Journals  BY DEF Consistent
<1>2. n \in Journals /\ n.routes = j.routes \cup {r} /\ n.endpoint = j.endpoint /\ n.id = j.id /\ n.index = j.index /\ n.dhcp = j.dhcp
      /\ n.addresses = j.addresses /\ n.dns = j.dns /\ n.mtu = j.mtu
  BY <1>1 DEF Journals
<1> HIDE DEF n
<1>3. validate_state(n)  BY <1>2, EmptyIsTyped DEF Consistent, validate_state
<1>4. Owned(o, n)  BY <1>2 DEF Consistent, Owned
<1>5. Consistent(o, n, l)  BY <1>2, <1>3, <1>4 DEF Consistent, Recorded
<1> QED BY <1>5 DEF n

LEMMA Struck ==
  ASSUME NEW o, NEW j, NEW l, Consistent(o, j, l), j.endpoint # None, NEW R \in SUBSET j.routes, o.routes \subseteq R
  PROVE  Consistent(o, [j EXCEPT !.routes = R], l)
<1> DEFINE n == [j EXCEPT !.routes = R]
<1>1. j \in Journals /\ R \subseteq Routes  BY DEF Consistent, Journals
<1>2. n \in Journals /\ n.routes = R /\ n.endpoint = j.endpoint /\ n.id = j.id /\ n.index = j.index /\ n.dhcp = j.dhcp
      /\ n.addresses = j.addresses /\ n.dns = j.dns /\ n.mtu = j.mtu
  BY <1>1 DEF Journals
<1> HIDE DEF n
<1>3. validate_state(n)  BY <1>2, EmptyIsTyped DEF Consistent, validate_state
<1>4. Owned(o, n)  BY <1>2 DEF Consistent, Owned
<1>5. Consistent(o, n, l)  BY <1>2, <1>3, <1>4 DEF Consistent, Recorded
<1> QED BY <1>5 DEF n

(* Everything of the journal but its routes. *)
LEMMA Rewritten ==
  ASSUME NEW o, NEW j, NEW l, NEW l2 \in BOOLEAN, Consistent(o, j, l), l => l2, NEW n \in Journals, n.endpoint # None,
         \/ n.id = j.id
         \/ j.id = None,
         n.routes = j.routes,
         o.tun.addresses \subseteq n.addresses,
         ~o.tun.dhcp /\ o.tun.id # None => n.dhcp,
         n.addresses # {} \/ n.dns # None \/ n.mtu # None => n.id # None,
         n.dns # None /\ ~l2 => n.dns.original \notin PortaDns,
         n.mtu # None /\ ~l2 => n.mtu.original \notin PortaMtu,
         o.tun.dns \in PortaDns /\ ~l2 => n.dns # None /\ Ours(n.dns, o.tun.dns),
         o.tun.mtu \in PortaMtu /\ ~l2 => n.mtu # None /\ Ours(n.mtu, o.tun.mtu)
  PROVE  Consistent(o, n, l2)
<1>1. j.id = None => \A r \in j.routes : r.kind = "escape"
  BY EmptyIsTyped DEF Consistent, validate_state
<1>2. j.dns # None \/ j.mtu # None => j.id # None
  BY EmptyIsTyped DEF Consistent, validate_state
<1>3. validate_state(n)
  BY <1>1, EmptyIsTyped DEF Consistent, validate_state
<1>4. Owned(o, n)  BY <1>1 DEF Consistent, Owned
<1>5. o.tun.id # None => ((o.tun.addresses # {} \/ ~o.tun.dhcp) => n.id = o.tun.id)
  BY DEF Consistent
<1>6. Recorded(n.dns, o.tun.dns, PortaDns, o, n, l2)  BY <1>2 DEF Consistent, Recorded
<1>7. Recorded(n.mtu, o.tun.mtu, PortaMtu, o, n, l2)  BY <1>2 DEF Consistent, Recorded
<1> QED BY <1>3, <1>4, <1>5, <1>6, <1>7 DEF Consistent

LEMMA OffFields ==
  /\ Off.pc = "off" /\ Off.op = "none" /\ Off.script = "none" /\ Off.step = "none" /\ Off.dial = None /\ Off.lease = NoLease
  /\ Off.active = FALSE /\ Off.device = FALSE /\ Off.endpoints = {} /\ Off.dead = FALSE
BY DEF Off

LEMMA OffRests ==
  ASSUME NEW o, NEW j, NEW m, NEW l
  PROVE  Rest(Off, o, j, m, l)
<1>1. Off \in Processes  BY DEF Off, Processes, Places, Calls
<1>2. Shape(Off)  BY <1>1, OffFields DEF Shape, StepsOf
<1> QED BY <1>2, OffFields DEF Rest, Noted, Covered, Bound, Undone, Late

LEMMA ExitKeeps ==
  ASSUME NEW o, Exit(o), Consistent(o, journal', lost')
  PROVE  WindowsInv'
BY ClosedKeeps, OffRests DEF Exit, WindowsInv

LEMMA FailsKeeps ==
  ASSUME NEW o, Fails(o), Consistent(o, journal', lost')
  PROVE  WindowsInv'
<1>1. CASE c.dead  BY <1>1, OffRests DEF Fails, WindowsInv
<1>2. CASE ~c.dead  BY <1>2, ExitKeeps DEF Fails
<1> QED BY <1>1, <1>2

LEMMA StillConsistent == ASSUME WindowsInv, LostStep PROVE Consistent(os, journal, lost')
BY LostGrows DEF WindowsInv, LostStep

LEMMA SaveKeeps ==
  ASSUME NEW new, NEW next, WindowsInv, LostStep, Save(new, next), journal' = new => Consistent(os, new, lost'),
         Rest(next, os, new, mem, lost')
  PROVE  WindowsInv'
<1>1. CASE journal' = new /\ c' = next /\ UNCHANGED <<os, mem>>  BY <1>1 DEF WindowsInv
<1>2. CASE \E file \in {journal, new} : journal' = file /\ Fails(os)
  <2>1. Consistent(os, journal', lost')  BY <1>2, StillConsistent
  <2> QED BY <1>2, <2>1, FailsKeeps
<1> QED BY <1>1, <1>2 DEF Save

LEMMA CommandKeeps ==
  ASSUME NEW new, NEW next, WindowsInv, LostStep, Command(new, next), Consistent(new, journal, lost'),
         Rest(next, new, journal, mem, lost')
  PROVE  WindowsInv'
<1>1. CASE os' = new /\ c' = next /\ UNCHANGED <<journal, mem>>  BY <1>1 DEF WindowsInv
<1>2. CASE \E o \in {os, new} : Fails(o) /\ UNCHANGED journal
  <2>1. PICK o \in {os, new} : Fails(o) /\ UNCHANGED journal  BY <1>2
  <2>2. Consistent(o, journal', lost')  BY <2>1, StillConsistent
  <2> QED BY <2>1, <2>2, FailsKeeps
<1> QED BY <1>1, <1>2 DEF Command

LEMMA ThrowKeeps == ASSUME WindowsInv, LostStep, Throw PROVE WindowsInv'
BY StillConsistent, FailsKeeps DEF Throw

LEMMA StopKeeps == ASSUME WindowsInv, LostStep, Exit(os), UNCHANGED journal PROVE WindowsInv'
BY StillConsistent, ExitKeeps

LEMMA SkipKeeps ==
  ASSUME NEW next, WindowsInv, LostStep, Skip(next), Rest(next, os, journal, mem, lost')
  PROVE  WindowsInv'
BY StillConsistent DEF Skip, WindowsInv

LEMMA persistKeeps ==
  ASSUME NEW new, NEW next, WindowsInv, LostStep, persist(new, next), journal' = new => Consistent(os, new, lost'),
         Rest(next, os, new, new, lost')
  PROVE  WindowsInv'
<1>1. CASE journal' = new /\ mem' = new /\ c' = next /\ UNCHANGED os  BY <1>1 DEF WindowsInv
<1>2. CASE \E file \in {journal, new} : journal' = file /\ Exit(os)
  <2>1. Consistent(os, journal', lost')  BY <1>2, StillConsistent
  <2> QED BY <1>2, <2>1, ExitKeeps
<1> QED BY <1>1, <1>2 DEF persist, replace_journal

LEMMA nativeKeeps ==
  ASSUME NEW new, NEW next, WindowsInv, LostStep, native(new, next), Consistent(new, journal, lost'),
         Rest(next, new, journal, mem, lost')
  PROVE  WindowsInv'
<1>1. CASE os' = new /\ c' = next /\ UNCHANGED <<journal, mem>>  BY <1>1 DEF WindowsInv
<1>2. CASE \E o \in {os, new} : Exit(o) /\ UNCHANGED journal
  <2>1. PICK o \in {os, new} : Exit(o) /\ UNCHANGED journal  BY <1>2
  <2>2. Consistent(o, journal', lost')  BY <2>1, StillConsistent
  <2> QED BY <2>1, <2>2, ExitKeeps
<1> QED BY <1>1, <1>2 DEF native

----------------------------------------------------------------------------
(* The script that a step is of. *)
LEMMA StepScripts ==
  ASSUME NEW k, Shape(k), k.script # "none"
  PROVE  /\ k.pc = "script" /\ k.script \in {"retire", "prepare", "configure", "up", "down"}
         /\ k.step = "retire" => k.script = "retire"
         /\ k.step \in {"escape", "escaped"} => k.script \in {"prepare", "configure", "up"}
         /\ k.step \in {"identity", "address"} => k.script \in {"configure", "up"}
         /\ k.step \in Late => k.script = "up"
         /\ k.step = "routes" \/ k.step \in Cleared => k.script = "down"
         /\ k.script \in {"prepare", "configure", "up"} => k.op \in {"prepare", "up"} /\ k.dial \in Endpoints
         /\ k.script \in {"retire", "configure", "up"} => k.op = "up" /\ k.lease \in Leases
<1>1. k.pc = "script" /\ k.script \in {"retire", "prepare", "configure", "up", "down"}  BY DEF Shape, Processes
<1>2. k.step \in StepsOf(k.script)  BY DEF Shape
<1>3. CASE k.script = "retire"  BY <1>1, <1>2, <1>3 DEF Shape, StepsOf, Late, Cleared
<1>4. CASE k.script = "prepare"  BY <1>1, <1>2, <1>4 DEF Shape, StepsOf, Late, Cleared
<1>5. CASE k.script = "configure"  BY <1>1, <1>2, <1>5 DEF Shape, StepsOf, Late, Cleared
<1>6. CASE k.script = "up"  BY <1>1, <1>2, <1>6 DEF Shape, StepsOf, Late, Cleared
<1>7. CASE k.script = "down"  BY <1>1, <1>2, <1>7 DEF Shape, StepsOf, Late, Cleared
<1> QED BY <1>1, <1>3, <1>4, <1>5, <1>6, <1>7

LEMMA AtFields ==
  ASSUME NEW k, Shape(k), NEW s
  PROVE  LET n == [k EXCEPT !.step = s] IN
         /\ n.pc = k.pc /\ n.op = k.op /\ n.script = k.script /\ n.step = s /\ n.dial = k.dial /\ n.lease = k.lease
         /\ n.active = k.active /\ n.device = k.device /\ n.endpoints = k.endpoints /\ n.dead = k.dead
BY DEF Shape, Processes

LEMMA AtShaped ==
  ASSUME NEW k, Shape(k), k.script # "none", NEW s \in StepsOf(k.script)
  PROVE  Shape([k EXCEPT !.step = s])
<1> DEFINE n == [k EXCEPT !.step = s]
<1>1. k.script \in {"retire", "prepare", "configure", "up", "down"}  BY DEF Shape, Processes
<1>2. s \in {"none", "retire", "escape", "escaped", "identity", "address", "routes", "done"} \cup Late \cup Cleared
  BY <1>1 DEF StepsOf
<1>3. n \in Processes
  BY <1>2 DEF Shape, Processes
<1>4. /\ n.pc = k.pc /\ n.op = k.op /\ n.script = k.script /\ n.step = s /\ n.dial = k.dial /\ n.lease = k.lease
      /\ n.active = k.active /\ n.device = k.device /\ n.endpoints = k.endpoints /\ n.dead = k.dead
  BY AtFields
<1> HIDE DEF n
<1>5. Shape(n)  BY <1>3, <1>4 DEF Shape
<1> QED BY <1>5 DEF n

LEMMA AtIs ==
  ASSUME Shape(c), NEW s
  PROVE  /\ At(s).pc = c.pc /\ At(s).op = c.op /\ At(s).script = c.script /\ At(s).step = s /\ At(s).dial = c.dial
         /\ At(s).lease = c.lease /\ At(s).dead = c.dead
BY AtFields DEF At

LEMMA HelperRests ==
  ASSUME NEW s, NEW o, NEW j, WindowsInv, LostStep, c.script # "none", s \in StepsOf(c.script),
         o.guard = os.guard, o.tun.id = os.tun.id, j.endpoint = journal.endpoint,
         Bound(At(s), o, j), Undone(At(s), o, j, lost')
  PROVE  Rest(At(s), o, j, mem, lost')
<1>1. Shape(c) /\ c.pc = "script"  BY StepScripts DEF WindowsInv, Rest
<1>2. Shape(At(s))  BY <1>1, AtShaped DEF At
<1>3. Noted(At(s), o, j, mem)  BY <1>1, AtIs DEF WindowsInv, Rest, Noted
<1>4. Covered(At(s), o, j)  BY <1>1, AtIs DEF WindowsInv, Rest, Covered, Guard
<1> QED BY <1>2, <1>3, <1>4 DEF Rest

LEMMA HelperStays ==
  ASSUME NEW o, NEW j, WindowsInv, LostStep, c.script # "none",
         o.guard = os.guard, o.tun.id = os.tun.id, j.endpoint = journal.endpoint,
         Bound(c, o, j), Undone(c, o, j, lost')
  PROVE  Rest(c, o, j, mem, lost')
<1>1. Shape(c) /\ c.pc = "script"  BY StepScripts DEF WindowsInv, Rest
<1>3. Noted(c, o, j, mem)  BY <1>1 DEF WindowsInv, Rest, Noted
<1>4. Covered(c, o, j)  BY <1>1 DEF WindowsInv, Rest, Covered, Guard
<1> QED BY <1>1, <1>3, <1>4 DEF Rest

(* What every step of the helper may use. *)
LEMMA HelperFacts ==
  ASSUME WindowsInv, LostStep, c.script # "none"
  PROVE  /\ Shape(c) /\ c.pc = "script" /\ journal.endpoint # None /\ Consistent(os, journal, lost)
         /\ Consistent(os, journal, lost') /\ os \in Systems /\ journal \in Journals
         /\ c.script \in {"prepare", "configure", "up"} => os.guard # None
BY StepScripts, StillConsistent DEF WindowsInv, Rest, Noted, Covered, Consistent

LEMMA RetireRouteKeeps ==
  ASSUME WindowsInv, LostStep, c.script # "none", c.script # "down", NEW r \in journal.routes, RetireOwnedRoute(r)
  PROVE  WindowsInv'
<1>1. Shape(c) /\ c.pc = "script" /\ journal.endpoint # None /\ Consistent(os, journal, lost') /\ os \in Systems /\ journal \in Journals
  BY HelperFacts
<1>2. CASE r \in os.routes
  <2> DEFINE new == [os EXCEPT !.routes = os.routes \ {r}]
  <2>1. Command(new, c)  BY <1>2 DEF RetireOwnedRoute
  <2>2. Consistent(new, journal, lost')  BY <1>1, RoutesDropped
  <2>3. new.tun = os.tun /\ new.guard = os.guard  BY <1>1 DEF Systems
  <2> HIDE DEF new
  <2>4. Bound(c, new, journal) /\ Undone(c, new, journal, lost')  BY <1>1, <2>3 DEF WindowsInv, Rest, Bound, Undone
  <2>5. Rest(c, new, journal, mem, lost')  BY <2>3, <2>4, HelperStays
  <2> QED BY <2>1, <2>2, <2>5, CommandKeeps
<1>3. CASE r \notin os.routes
  <2> DEFINE new == [journal EXCEPT !.routes = journal.routes \ {r}]
  <2>1. Save(new, c)  BY <1>3 DEF RetireOwnedRoute
  <2>2. os.routes \subseteq journal.routes \ {r}  BY <1>1, <1>3 DEF Consistent, Owned
  <2>3. Consistent(os, new, lost')  BY <1>1, <2>2, Struck
  <2>4. new.id = journal.id /\ new.index = journal.index /\ new.addresses = journal.addresses /\ new.dns = journal.dns
        /\ new.mtu = journal.mtu /\ new.endpoint = journal.endpoint
    BY <1>1 DEF Journals
  <2> HIDE DEF new
  <2>5. Bound(c, os, new) /\ Undone(c, os, new, lost')  BY <1>1, <2>4 DEF WindowsInv, Rest, Bound, Undone
  <2>6. Rest(c, os, new, mem, lost')  BY <2>4, <2>5, HelperStays
  <2> QED BY <2>1, <2>3, <2>6, SaveKeeps
<1> QED BY <1>2, <1>3

LEMMA AddRouteKeeps ==
  ASSUME WindowsInv, LostStep, c.script \in {"prepare", "configure", "up"}, NEW r, NEW s \in StepsOf(c.script), AddOwnedRoute(r, s),
         Present(os, r.on) =>
           /\ r \in Routes /\ r.index = IndexOf(os, r.on)
           /\ IF r.kind = "escape" THEN r.on \in Physical /\ r.index = r.on ELSE r.on = journal.id /\ journal.id # None,
         Bound(At(s), os, journal)
  PROVE  WindowsInv'
<1>1. Shape(c) /\ c.pc = "script" /\ journal.endpoint # None /\ Consistent(os, journal, lost') /\ os \in Systems /\ journal \in Journals
      /\ os.guard # None
  BY HelperFacts
<1>2. CASE ~Present(os, r.on)  BY <1>2, ThrowKeeps DEF AddOwnedRoute
<1>3. \A o, j : Undone(At(s), o, j, lost') /\ Undone(c, o, j, lost')  BY <1>1, AtIs DEF Undone
<1>4. CASE Present(os, r.on) /\ r \in os.routes
  <2>1. Skip(At(s))  BY <1>4 DEF AddOwnedRoute
  <2>2. Rest(At(s), os, journal, mem, lost')  BY <1>1, <1>3, HelperRests
  <2> QED BY <2>1, <2>2, SkipKeeps
<1>5. CASE Present(os, r.on) /\ r \notin os.routes /\ r \notin journal.routes
  <2> DEFINE new == [journal EXCEPT !.routes = journal.routes \cup {r}]
  <2>1. Save(new, c)  BY <1>5 DEF AddOwnedRoute
  <2>2. Consistent(os, new, lost')  BY <1>1, <1>5, Listed
  <2>3. new.id = journal.id /\ new.index = journal.index /\ new.addresses = journal.addresses /\ new.dns = journal.dns
        /\ new.mtu = journal.mtu /\ new.endpoint = journal.endpoint
    BY <1>1 DEF Journals
  <2> HIDE DEF new
  <2>4. Bound(c, os, new)  BY <1>1, <2>3 DEF WindowsInv, Rest, Bound
  <2>5. Rest(c, os, new, mem, lost')  BY <1>3, <2>3, <2>4, HelperStays
  <2> QED BY <2>1, <2>2, <2>5, SaveKeeps
<1>6. CASE Present(os, r.on) /\ r \notin os.routes /\ r \in journal.routes
  <2> DEFINE new == [os EXCEPT !.routes = os.routes \cup {r}]
  <2>1. Command(new, At(s))  BY <1>6 DEF AddOwnedRoute
  <2>2. Consistent(new, journal, lost')  BY <1>1, <1>6, RouteAdded
  <2>3. new.tun = os.tun /\ new.guard = os.guard  BY <1>1 DEF Systems
  <2> HIDE DEF new
  <2>4. Bound(At(s), new, journal)  BY <2>3 DEF Bound
  <2>5. Rest(At(s), new, journal, mem, lost')  BY <1>3, <2>3, <2>4, HelperRests
  <2> QED BY <2>1, <2>2, <2>5, CommandKeeps
<1> QED BY <1>2, <1>4, <1>5, <1>6

LEMMA Unbound ==
  ASSUME NEW o, NEW j, NEW l, Consistent(o, j, l), j.endpoint # None, j.id # None, o.tun.id # j.id,
         \A r \in j.routes : r.kind \notin {"tunnel", "dns"}
  PROVE  Consistent(o, [Empty EXCEPT !.endpoint = j.endpoint, !.routes = j.routes], l)
<1> DEFINE n == [Empty EXCEPT !.endpoint = j.endpoint, !.routes = j.routes]
<1>1. j \in Journals /\ \A r \in j.routes : r.kind = "escape"  BY DEF Consistent, Journals, Routes
<1>2. n \in Journals /\ n.routes = j.routes /\ n.endpoint = j.endpoint /\ n.id = None /\ n.index = None /\ n.dhcp = FALSE
      /\ n.addresses = {} /\ n.dns = None /\ n.mtu = None
  BY <1>1 DEF Journals, Empty
<1> HIDE DEF n
<1>3. validate_state(n)  BY <1>1, <1>2 DEF validate_state
<1>4. Owned(o, n)  BY <1>1, <1>2 DEF Consistent, Owned
<1>5. o.tun.addresses = {} /\ (o.tun.id # None => o.tun.dhcp)  BY NoTunIsTyped DEF Consistent
<1>6. Recorded(n.dns, o.tun.dns, PortaDns, o, n, l) /\ Recorded(n.mtu, o.tun.mtu, PortaMtu, o, n, l)
  BY <1>2 DEF Consistent, Recorded
<1>7. Consistent(o, n, l)  BY <1>2, <1>3, <1>4, <1>5, <1>6 DEF Consistent
<1> QED BY <1>7 DEF n

LEMMA RetireStep == ASSUME WindowsInv, LostStep, Retire PROVE WindowsInv'
<1>1. c.script # "none" /\ c.step = "retire"  BY DEF Retire, Step
<1>2. c.script = "retire"  BY <1>1, HelperFacts, StepScripts
<1>3. Shape(c) /\ c.pc = "script" /\ journal.endpoint # None /\ Consistent(os, journal, lost')  BY <1>1, HelperFacts
<1> DEFINE tunnel == {r \in journal.routes : r.kind \in {"tunnel", "dns"}}
           new == [Empty EXCEPT !.endpoint = journal.endpoint, !.routes = journal.routes]
<1>4. \/ Throw
      \/ \E r \in tunnel : RetireOwnedRoute(r)
      \/ journal.id # None /\ ~Present(os, journal.id) /\ tunnel = {} /\ Save(new, At("done"))
  BY Zenon DEF Retire
<1>5. CASE Throw  BY <1>5, ThrowKeeps
<1>6. CASE \E r \in tunnel : RetireOwnedRoute(r)  BY <1>1, <1>2, <1>6, RetireRouteKeeps
<1>7. CASE journal.id # None /\ ~Present(os, journal.id) /\ tunnel = {} /\ Save(new, At("done"))
  <2>1. os.tun.id # journal.id /\ \A r \in journal.routes : r.kind \notin {"tunnel", "dns"}  BY <1>7 DEF Present
  <2>2. Consistent(os, new, lost')  BY <1>3, <1>7, <2>1, Unbound
  <2>3. new.endpoint = journal.endpoint  BY DEF Empty
  <2> HIDE DEF new
  <2>4. Bound(At("done"), os, new) /\ Undone(At("done"), os, new, lost')  BY <1>2, <1>3, AtIs DEF Bound, Undone
  <2>5. "done" \in StepsOf(c.script)  BY <1>2 DEF StepsOf
  <2>6. Rest(At("done"), os, new, mem, lost')  BY <1>1, <2>3, <2>4, <2>5, HelperRests
  <2> QED BY <1>7, <2>2, <2>6, SaveKeeps
<1> QED BY <1>4, <1>5, <1>6, <1>7

LEMMA EscapeStep == ASSUME WindowsInv, LostStep, Escape PROVE WindowsInv'
<1>1. c.script # "none" /\ c.step = "escape" /\ AddOwnedRoute(EscapeRoute, "escaped")  BY DEF Escape, Step
<1>2. c.script \in {"prepare", "configure", "up"}  BY <1>1, HelperFacts, StepScripts
<1>3. Shape(c) /\ c.pc = "script" /\ journal.endpoint # None /\ os \in Systems /\ journal \in Journals  BY <1>1, HelperFacts
<1>4. /\ EscapeRoute \in Routes /\ EscapeRoute.index = IndexOf(os, EscapeRoute.on)
      /\ EscapeRoute.kind = "escape" /\ EscapeRoute.on \in Physical /\ EscapeRoute.index = EscapeRoute.on
  BY <1>3 DEF EscapeRoute, Route, Routes, Prefixes, Systems, Journals, IndexOf
<1>5. "escaped" \in StepsOf(c.script)  BY <1>2 DEF StepsOf
<1>6. Bound(At("escaped"), os, journal)  BY <1>3, AtIs DEF Bound, Late
<1> QED BY <1>1, <1>2, <1>4, <1>5, <1>6, AddRouteKeeps

LEMMA EscapedStep == ASSUME WindowsInv, LostStep, Escaped PROVE WindowsInv'
<1>1. c.script # "none" /\ c.step = "escaped"  BY DEF Escaped, Step
<1>2. c.script \in {"prepare", "configure", "up"}  BY <1>1, HelperFacts, StepScripts
<1>3. Shape(c) /\ c.pc = "script"  BY <1>1, HelperFacts
<1> DEFINE s == IF c.script = "prepare" THEN "done" ELSE "identity"
<1>4. Skip(At(s)) \/ \E r \in journal.routes : RetireOwnedRoute(r)  BY DEF Escaped, Each
<1>5. CASE Skip(At(s))
  <2>1. s \in StepsOf(c.script)  BY <1>2 DEF StepsOf
  <2>2. Bound(At(s), os, journal) /\ Undone(At(s), os, journal, lost')  BY <1>2, <1>3, AtIs DEF Bound, Undone, Late
  <2> HIDE DEF s
  <2>3. Rest(At(s), os, journal, mem, lost')  BY <1>1, <2>1, <2>2, HelperRests
  <2> QED BY <1>5, <2>3, SkipKeeps
<1>6. CASE \E r \in journal.routes : RetireOwnedRoute(r)  BY <1>1, <1>2, <1>6, RetireRouteKeeps
<1> QED BY <1>4, <1>5, <1>6

LEMMA IdentityStep == ASSUME WindowsInv, LostStep, Identity PROVE WindowsInv'
<1>1. c.script # "none" /\ c.step = "identity"  BY DEF Identity, Step
<1>2. c.script \in {"configure", "up"}  BY <1>1, HelperFacts, StepScripts
<1>3. Shape(c) /\ c.pc = "script" /\ journal.endpoint # None /\ Consistent(os, journal, lost') /\ os \in Systems /\ journal \in Journals
  BY <1>1, HelperFacts
<1> DEFINE new == [journal EXCEPT !.id = os.tun.id, !.index = os.tun.index]
<1>4. CASE Throw  BY <1>4, ThrowKeeps
<1>5. CASE os.tun.id # None /\ journal.id \in {None, os.tun.id} /\ Save(new, At("address"))
  <2>1. os.tun.id \in Adapters \cup {None} /\ os.tun.index \in Indexes \cup {None}  BY <1>3 DEF Systems, Tuns
  <2>2. /\ new \in Journals /\ new.id = os.tun.id /\ new.index = os.tun.index /\ new.endpoint = journal.endpoint
        /\ new.dhcp = journal.dhcp /\ new.addresses = journal.addresses /\ new.routes = journal.routes /\ new.dns = journal.dns
        /\ new.mtu = journal.mtu
    BY <1>3, <2>1 DEF Journals
  <2> HIDE DEF new
  <2>3. Consistent(os, new, lost')
    <3>1. /\ os.tun.addresses \subseteq new.addresses /\ (~os.tun.dhcp /\ os.tun.id # None => new.dhcp)
          /\ lost' \in BOOLEAN
          /\ new.dns # None /\ ~lost' => new.dns.original \notin PortaDns
          /\ new.mtu # None /\ ~lost' => new.mtu.original \notin PortaMtu
          /\ os.tun.dns \in PortaDns /\ ~lost' => new.dns # None /\ Ours(new.dns, os.tun.dns)
          /\ os.tun.mtu \in PortaMtu /\ ~lost' => new.mtu # None /\ Ours(new.mtu, os.tun.mtu)
      BY <1>3, <2>2 DEF Consistent, Recorded
    <3> QED BY <1>3, <1>5, <2>2, <3>1, Rewritten
  <2>4. Bound(At("address"), os, new) /\ Undone(At("address"), os, new, lost')
    BY <1>2, <1>3, <1>5, <2>2, AtIs DEF Bound, Undone, Late
  <2>5. "address" \in StepsOf(c.script)  BY <1>2 DEF StepsOf
  <2>6. Rest(At("address"), os, new, mem, lost')  BY <1>1, <2>2, <2>4, <2>5, HelperRests
  <2> QED BY <1>5, <2>3, <2>6, SaveKeeps
<1> QED BY <1>4, <1>5, Zenon DEF Identity

(* What the journal says of the system, as Rewritten asks for it. *)
LEMMA Parts ==
  ASSUME NEW o, NEW j, NEW l, Consistent(o, j, l)
  PROVE  /\ l \in BOOLEAN /\ o \in Systems /\ j \in Journals /\ o.tun \in Tuns
         /\ o.tun.addresses \subseteq j.addresses /\ (~o.tun.dhcp /\ o.tun.id # None => j.dhcp)
         /\ j.dns # None /\ ~l => j.dns.original \notin PortaDns
         /\ j.mtu # None /\ ~l => j.mtu.original \notin PortaMtu
         /\ o.tun.dns \in PortaDns /\ ~l => j.id = o.tun.id /\ j.dns # None /\ Ours(j.dns, o.tun.dns)
         /\ o.tun.mtu \in PortaMtu /\ ~l => j.id = o.tun.id /\ j.mtu # None /\ Ours(j.mtu, o.tun.mtu)
         /\ o.tun.addresses # {} \/ (o.tun.dns \in PortaDns /\ ~l) => o.guard # None
         /\ o.tun.id = None => o.tun = NoTun
         /\ o.tun.addresses # {} => j.id = o.tun.id
         /\ ~o.tun.dhcp /\ o.tun.id # None => j.id = o.tun.id
         /\ j.addresses # {} \/ j.dns # None \/ j.mtu # None => j.id # None
<1>1. o \in Systems /\ o.tun \in Tuns  BY DEF Consistent, Systems
<1>2. j.addresses # {} \/ j.dns # None \/ j.mtu # None => j.id # None
  BY EmptyIsTyped DEF Consistent, validate_state
<1> QED BY <1>1, <1>2, NoTunIsTyped DEF Consistent, Recorded

LEMMA LeaseTyped ==
  ASSUME NEW l \in Leases
  PROVE  l.address \in TunAddresses /\ l.dns \in PortaDns /\ l.mtu \in PortaMtu
BY DEF TunAddresses, PortaDns, PortaMtu

LEMMA AddressStep == ASSUME WindowsInv, LostStep, Address PROVE WindowsInv'
<1>1. c.script # "none" /\ c.step = "address"  BY DEF Address, Step
<1>2. c.script \in {"configure", "up"} /\ c.lease \in Leases  BY <1>1, HelperFacts, StepScripts
<1>3. Shape(c) /\ c.pc = "script" /\ journal.endpoint # None /\ Consistent(os, journal, lost') /\ os \in Systems /\ journal \in Journals
      /\ os.guard # None
  BY <1>1, <1>2, HelperFacts
<1> DEFINE s == IF c.script = "configure" THEN "done" ELSE "mtu"
           a == c.lease.address
           new == [journal EXCEPT !.addresses = journal.addresses \cup {a}, !.dhcp = journal.dhcp \/ os.tun.dhcp]
           t == [os.tun EXCEPT !.addresses = os.tun.addresses \cup {a}, !.dhcp = FALSE]
           sys == [os EXCEPT !.tun = t]
<1>4. CASE Throw  BY <1>4, ThrowKeeps
<1>5. s \in StepsOf(c.script)  BY <1>2 DEF StepsOf, Late
<1>6. a \in TunAddresses  BY <1>2, LeaseTyped
<1>7. Mine => os.tun.id = journal.id /\ os.tun.index = journal.index /\ journal.id # None
  BY <1>1, <1>2 DEF WindowsInv, Rest, Bound, Mine
<1>8. CASE Mine /\ a \in os.tun.addresses /\ Skip(At(s))
  <2>1. Bound(At(s), os, journal) /\ Undone(At(s), os, journal, lost')
    BY <1>2, <1>3, <1>7, <1>8, AtIs DEF Bound, Undone, Late
  <2>2. Rest(At(s), os, journal, mem, lost')  BY <1>1, <1>5, <2>1, HelperRests
  <2> QED BY <1>8, <2>2, SkipKeeps
<1>9. CASE Mine /\ Save(new, c)
  <2>1. /\ new \in Journals /\ new.addresses = journal.addresses \cup {a} /\ new.dhcp = (journal.dhcp \/ os.tun.dhcp)
        /\ new.id = journal.id /\ new.index = journal.index /\ new.endpoint = journal.endpoint
        /\ new.routes = journal.routes /\ new.dns = journal.dns /\ new.mtu = journal.mtu
    <3>1. journal.addresses \cup {a} \in SUBSET TunAddresses  BY <1>3, <1>6 DEF Journals
    <3>2. (journal.dhcp \/ os.tun.dhcp) \in BOOLEAN  BY <1>3 DEF Journals, Systems, Tuns
    <3> QED BY <1>3, <3>1, <3>2 DEF Journals
  <2> HIDE DEF new
  <2>2. Consistent(os, new, lost')
    <3>2. ~os.tun.dhcp /\ os.tun.id # None => new.dhcp
      <4>1. ~os.tun.dhcp /\ os.tun.id # None => journal.dhcp  BY <1>3, Parts
      <4> QED BY <2>1, <4>1, Zenon
    <3>1. /\ os.tun.addresses \subseteq new.addresses /\ lost' \in BOOLEAN
          /\ new.dns # None /\ ~lost' => new.dns.original \notin PortaDns
          /\ new.mtu # None /\ ~lost' => new.mtu.original \notin PortaMtu
          /\ os.tun.dns \in PortaDns /\ ~lost' => new.dns # None /\ Ours(new.dns, os.tun.dns)
          /\ os.tun.mtu \in PortaMtu /\ ~lost' => new.mtu # None /\ Ours(new.mtu, os.tun.mtu)
      BY <1>3, <2>1, Parts
    <3> QED BY <1>3, <1>7, <1>9, <2>1, <3>1, <3>2, Rewritten
  <2>3. Bound(c, os, new) /\ Undone(c, os, new, lost')  BY <1>1, <1>2, <1>3, <1>7, <1>9, <2>1 DEF Bound, Undone, Late
  <2>4. Rest(c, os, new, mem, lost')  BY <1>1, <2>1, <2>3, HelperStays
  <2> QED BY <1>9, <2>2, <2>4, SaveKeeps
<1>10. CASE Mine /\ a \in journal.addresses /\ ~(os.tun.dhcp /\ ~journal.dhcp) /\ Command(sys, At(s))
  <2>1. os.tun \in Tuns /\ os.tun.id # None  BY <1>3, <1>10 DEF Systems, Mine
  <2>2. /\ t \in Tuns /\ t.id = os.tun.id /\ t.index = os.tun.index /\ t.addresses = os.tun.addresses \cup {a} /\ t.dhcp = FALSE
        /\ t.dns = os.tun.dns /\ t.mtu = os.tun.mtu
    BY <1>6, <2>1 DEF Tuns
  <2>3. sys.tun = t /\ sys.guard = os.guard  BY <1>3 DEF Systems
  <2> HIDE DEF t
  <2>4. Consistent(sys, journal, lost')
    <3>1. journal.dhcp  BY <1>3, <1>10, <2>1, Parts
    <3> QED BY <1>3, <1>7, <1>10, <2>1, <2>2, <3>1, Parts, TunChanged
  <2> HIDE DEF sys
  <2>5. Bound(At(s), sys, journal) /\ Undone(At(s), sys, journal, lost')
    BY <1>2, <1>3, <1>7, <1>10, <2>2, <2>3, AtIs DEF Bound, Undone, Late
  <2>6. Rest(At(s), sys, journal, mem, lost')  BY <1>1, <1>5, <2>2, <2>3, <2>5, HelperRests
  <2> QED BY <1>10, <2>4, <2>6, CommandKeeps
<1> QED BY <1>4, <1>8, <1>9, <1>10, Zenon DEF Address

(* The adapter is the one of the journal while its routes are set. *)
LEMMA LateBound ==
  ASSUME WindowsInv, c.script # "none", c.step \in Late
  PROVE  /\ c.script = "up" /\ c.lease \in Leases /\ journal.id # None
         /\ \/ c.dead /\ os.tun.id = None
            \/ os.tun.id = journal.id /\ os.tun.index = journal.index /\ c.lease.address \in os.tun.addresses
<1>1. Shape(c)  BY DEF WindowsInv, Rest
<1>2. c.script = "up" /\ c.lease \in Leases  BY <1>1, StepScripts
<1> QED BY <1>2 DEF WindowsInv, Rest, Bound

(* The step that follows, when it asks for nothing new. *)
LEMMA LateGoesOn ==
  ASSUME WindowsInv, LostStep, c.script # "none", c.step \in Late, NEW s \in Late \ {"set-dns", "keep-dns"}
  PROVE  s \in StepsOf(c.script) /\ Bound(At(s), os, journal) /\ Undone(At(s), os, journal, lost')
<1>1. Shape(c) /\ c.pc = "script"  BY HelperFacts
<1>2. s # "done" /\ s \notin {"set-dns", "keep-dns"}  BY DEF Late
<1> QED BY <1>1, <1>2, LateBound, AtIs DEF StepsOf, Bound, Undone

LEMMA TunnelRoute ==
  ASSUME WindowsInv, LostStep, c.script # "none", c.step \in Late, NEW kind \in {"dns", "tunnel"}, NEW prefix \in Prefixes,
         NEW s \in Late \ {"set-dns", "keep-dns"}, AddOwnedRoute(Route(kind, prefix, os.tun.id, os.tun.index), s)
  PROVE  WindowsInv'
<1>1. os \in Systems  BY HelperFacts
<1>2. c.script = "up"  BY LateBound
<1>3. s \in StepsOf(c.script) /\ Bound(At(s), os, journal)  BY LateGoesOn
<1> DEFINE r == Route(kind, prefix, os.tun.id, os.tun.index)
<1>4. r.on = os.tun.id /\ r.index = os.tun.index /\ r.kind = kind /\ r.prefix = prefix  BY DEF Route
<1>5. ASSUME Present(os, r.on)
      PROVE  r \in Routes /\ r.index = IndexOf(os, r.on) /\ r.kind # "escape" /\ r.on = journal.id /\ journal.id # None
  <2>1. os.tun.id \in Adapters \cup {None} /\ os.tun.index \in Indexes \cup {None}  BY <1>1 DEF Systems, Tuns
  <2>2. os.tun.id # None  BY <1>4, <1>5, WindowsAssumption DEF Present
  <2>3. os.tun.id \in Adapters /\ os.tun.id \notin Physical  BY <2>1, <2>2, WindowsAssumption
  <2>4. os.tun.index # None  BY <2>2 DEF WindowsInv, Consistent
  <2>5. r \in Routes  BY <2>1, <2>3, <2>4 DEF Route, Routes
  <2>6. os.tun.id = journal.id /\ journal.id # None  BY <2>2, LateBound
  <2> QED BY <1>4, <2>3, <2>5, <2>6 DEF IndexOf
<1> HIDE DEF r
<1>6. AddOwnedRoute(r, s)  BY DEF r
<1> QED BY <1>2, <1>3, <1>4, <1>5, <1>6, AddRouteKeeps

LEMMA MtuStep == ASSUME WindowsInv, LostStep, Mtu PROVE WindowsInv'
<1>1. c.script # "none" /\ c.step \in Late /\ Skip(At("dns-route"))  BY DEF Mtu, Step, Late
<1>2. "dns-route" \in StepsOf(c.script) /\ Bound(At("dns-route"), os, journal) /\ Undone(At("dns-route"), os, journal, lost')
  BY <1>1, LateGoesOn DEF Late
<1>3. Rest(At("dns-route"), os, journal, mem, lost')  BY <1>1, <1>2, HelperRests
<1> QED BY <1>1, <1>3, SkipKeeps

LEMMA DnsRouteStep == ASSUME WindowsInv, LostStep, DnsRoute PROVE WindowsInv'
<1>1. c.script # "none" /\ c.step \in Late  BY DEF DnsRoute, Step, Late
<1>2. c.lease.dns \in Prefixes  BY <1>1, LateBound, LeaseTyped DEF Prefixes
<1>3. "dns" \in Late \ {"set-dns", "keep-dns"}  BY DEF Late
<1> QED BY <1>1, <1>2, <1>3, TunnelRoute DEF DnsRoute

LEMMA HalvesStep == ASSUME WindowsInv, LostStep, Halves PROVE WindowsInv'
<1>1. c.script # "none" /\ c.step \in Late  BY DEF Halves, Step, Late
<1>2. "high" \in Late \ {"set-dns", "keep-dns"} /\ "stale" \in Late \ {"set-dns", "keep-dns"} /\ "low" \in Prefixes /\ "high" \in Prefixes
  BY DEF Late, Prefixes
<1>3. CASE AddOwnedRoute(Route("tunnel", "low", os.tun.id, os.tun.index), "high")  BY <1>1, <1>2, <1>3, TunnelRoute
<1>4. CASE AddOwnedRoute(Route("tunnel", "high", os.tun.id, os.tun.index), "stale")  BY <1>1, <1>2, <1>4, TunnelRoute
<1> QED BY <1>3, <1>4 DEF Halves

LEMMA StaleStep == ASSUME WindowsInv, LostStep, Stale PROVE WindowsInv'
<1>1. c.script # "none" /\ c.step \in Late  BY DEF Stale, Step, Late
<1>2. Skip(At("addresses")) \/ \E r \in journal.routes : RetireOwnedRoute(r)  BY DEF Stale, Each
<1>3. CASE Skip(At("addresses"))
  <2>1. "addresses" \in StepsOf(c.script) /\ Bound(At("addresses"), os, journal) /\ Undone(At("addresses"), os, journal, lost')
    BY <1>1, LateGoesOn DEF Late
  <2>2. Rest(At("addresses"), os, journal, mem, lost')  BY <1>1, <2>1, HelperRests
  <2> QED BY <1>3, <2>2, SkipKeeps
<1>4. CASE \E r \in journal.routes : RetireOwnedRoute(r)  BY <1>1, <1>4, LateBound, RetireRouteKeeps
<1> QED BY <1>2, <1>3, <1>4

LEMMA DnsChanged ==
  ASSUME NEW j \in Journals, NEW r \in Records(PortaDns) \cup {None}
  PROVE  LET n == [j EXCEPT !.dns = r] IN
         /\ n \in Journals /\ n.dns = r /\ n.endpoint = j.endpoint /\ n.id = j.id /\ n.index = j.index /\ n.dhcp = j.dhcp
         /\ n.addresses = j.addresses /\ n.routes = j.routes /\ n.mtu = j.mtu
BY DEF Journals

LEMMA DnsStep == ASSUME WindowsInv, LostStep, WindowsNext, Dns PROVE WindowsInv'
<1>1. c.script # "none" /\ c.step \in Late  BY DEF Dns, Step, Late
<1>2. c.script = "up" /\ c.lease \in Leases /\ journal.id # None  BY <1>1, LateBound
<1>3. Shape(c) /\ c.pc = "script" /\ journal.endpoint # None /\ Consistent(os, journal, lost) /\ Consistent(os, journal, lost')
      /\ os \in Systems /\ journal \in Journals /\ os.guard # None
  BY <1>1, <1>2, HelperFacts
<1>4. c.lease.dns \in PortaDns /\ c.lease.dns # None  BY <1>2, LeaseTyped, WindowsAssumption
<1>5. journal.dns \in Records(PortaDns) \cup {None} /\ os.tun \in Tuns /\ os.tun.dns \in PortaDns \cup {"own", "admin"}
  BY <1>3 DEF Journals, Systems, Tuns
<1>6. "set-dns" \in StepsOf(c.script) /\ "keep-dns" \in StepsOf(c.script) /\ "low" \in StepsOf(c.script)
  BY <1>2 DEF StepsOf, Late
<1>7. CASE Step("dns") /\ Save([journal EXCEPT !.dns = DnsRecord], At("set-dns"))
  <2> DEFINE record == DnsRecord
             new == [journal EXCEPT !.dns = record]
  <2>1. /\ record \in Records(PortaDns) /\ record.pending = c.lease.dns
        /\ IF journal.dns = None THEN record.original = os.tun.dns /\ record.applied = None
           ELSE record.original = journal.dns.original /\ record.applied = journal.dns.applied
    <3>1. CASE journal.dns = None
      <4>1. DnsRecord = [original |-> os.tun.dns, applied |-> None, pending |-> c.lease.dns]  BY <3>1 DEF DnsRecord
      <4> QED BY <1>4, <1>5, <3>1, <4>1 DEF Records
    <3>2. CASE journal.dns # None
      <4>1. DnsRecord = [journal.dns EXCEPT !.pending = c.lease.dns]  BY <3>2 DEF DnsRecord
      <4> QED BY <1>4, <1>5, <3>2, <4>1 DEF Records
    <3> QED BY <3>1, <3>2
  <2>2. record # None  BY <2>1, WindowsAssumption
  <2> HIDE DEF record
  <2>3. /\ new \in Journals /\ new.dns = record /\ new.endpoint = journal.endpoint /\ new.id = journal.id /\ new.index = journal.index
        /\ new.dhcp = journal.dhcp /\ new.addresses = journal.addresses /\ new.routes = journal.routes /\ new.mtu = journal.mtu
    BY <1>3, <2>1, DnsChanged
  <2> HIDE DEF new
  <2>4. ASSUME journal' = new PROVE Consistent(os, new, lost')
    <3>1. lost' = (lost \/ Overtakes(journal.dns, journal'.dns, os.tun.dns) \/ Overtakes(journal.mtu, journal'.mtu, os.tun.mtu))
      BY DEF WindowsNext
    <3>2. ASSUME ~lost', os.tun.dns \in PortaDns PROVE Ours(record, os.tun.dns)
      <4>1. ~lost /\ ~Overtakes(journal.dns, record, os.tun.dns)  BY <2>3, <2>4, <3>1, <3>2
      <4>2. journal.dns # None /\ Ours(journal.dns, os.tun.dns)  BY <1>3, <3>2, <4>1, Parts
      <4> QED BY <1>4, <2>1, <2>2, <4>1, <4>2 DEF Overtakes, Ours
    <3>3. ASSUME ~lost' PROVE record.original \notin PortaDns
      <4>1. journal.dns = None => os.tun.dns \notin PortaDns  BY <1>3, <3>3, Parts
      <4>2. journal.dns # None => journal.dns.original \notin PortaDns  BY <1>3, <3>3, Parts
      <4> QED BY <2>1, <4>1, <4>2
    <3>4. /\ os.tun.addresses \subseteq new.addresses /\ (~os.tun.dhcp /\ os.tun.id # None => new.dhcp) /\ lost' \in BOOLEAN
          /\ new.mtu # None /\ ~lost' => new.mtu.original \notin PortaMtu
          /\ os.tun.mtu \in PortaMtu /\ ~lost' => new.mtu # None /\ Ours(new.mtu, os.tun.mtu)
      BY <1>3, <2>3, Parts
    <3> QED BY <1>2, <1>3, <2>2, <2>3, <3>2, <3>3, <3>4, Rewritten
  <2>5. Bound(At("set-dns"), os, new) /\ Undone(At("set-dns"), os, new, lost')
    BY <1>1, <1>2, <1>3, <2>1, <2>2, <2>3, LateBound, AtIs DEF Bound, Undone, Late
  <2>6. Rest(At("set-dns"), os, new, mem, lost')  BY <1>1, <1>6, <2>3, <2>5, HelperRests
  <2>7. Save(new, At("set-dns"))  BY <1>7 DEF new, record
  <2> QED BY <2>4, <2>6, <2>7, SaveKeeps
<1>8. CASE Step("set-dns") /\ (IF ~Mine THEN Throw ELSE Command([os EXCEPT !.tun = [os.tun EXCEPT !.dns = c.lease.dns]], At("keep-dns")))
  <2> DEFINE t == [os.tun EXCEPT !.dns = c.lease.dns]
             new == [os EXCEPT !.tun = t]
  <2>1. CASE ~Mine  BY <1>8, <2>1, ThrowKeeps
  <2>2. CASE Mine
    <3>1. os.tun.id # None /\ os.tun.id = journal.id  BY <1>1, <2>2, LateBound DEF Mine
    <3>2. journal.dns # None /\ journal.dns.pending = c.lease.dns  BY <1>8 DEF WindowsInv, Rest, Bound, Step
    <3>3. /\ t \in Tuns /\ t.id = os.tun.id /\ t.index = os.tun.index /\ t.addresses = os.tun.addresses /\ t.dhcp = os.tun.dhcp
          /\ t.dns = c.lease.dns /\ t.mtu = os.tun.mtu
      BY <1>4, <1>5 DEF Tuns
    <3>4. new.tun = t /\ new.guard = os.guard  BY <1>3 DEF Systems
    <3> HIDE DEF t
    <3>5. Ours(journal.dns, t.dns)  BY <1>4, <3>2, <3>3 DEF Ours
    <3>6. Consistent(new, journal, lost')
      <4>1. /\ t.addresses # {} \/ ~t.dhcp => journal.id = t.id
            /\ ~t.dhcp => journal.dhcp
            /\ t.addresses \subseteq journal.addresses
            /\ t.mtu \in PortaMtu /\ ~lost' => journal.id = t.id /\ journal.mtu # None /\ Ours(journal.mtu, t.mtu)
        BY <1>3, <3>1, <3>3, Parts
      <4> QED BY <1>3, <3>1, <3>2, <3>3, <3>5, <4>1, TunChanged
    <3> HIDE DEF new
    <3>7. Bound(At("keep-dns"), new, journal) /\ Undone(At("keep-dns"), new, journal, lost')
      BY <1>1, <1>2, <1>3, <3>1, <3>2, <3>3, <3>4, LateBound, AtIs DEF Bound, Undone, Late
    <3>8. Rest(At("keep-dns"), new, journal, mem, lost')  BY <1>1, <1>6, <3>3, <3>4, <3>7, HelperRests
    <3>9. Command(new, At("keep-dns"))  BY <1>8, <2>2 DEF new, t
    <3> QED BY <3>6, <3>8, <3>9, CommandKeeps
  <2> QED BY <2>1, <2>2
<1>9. CASE Step("keep-dns") /\ Save([journal EXCEPT !.dns = [journal.dns EXCEPT !.applied = c.lease.dns, !.pending = None]], At("low"))
  <2> DEFINE record == [journal.dns EXCEPT !.applied = c.lease.dns, !.pending = None]
             new == [journal EXCEPT !.dns = record]
  <2>1. journal.dns # None /\ ((c.dead /\ os.tun.id = None) \/ os.tun.dns = c.lease.dns)  BY <1>9 DEF WindowsInv, Rest, Bound, Step
  <2>2. record \in Records(PortaDns) /\ record.original = journal.dns.original /\ record.applied = c.lease.dns
    BY <1>4, <1>5, <2>1 DEF Records
  <2>3. record # None  BY <2>2, WindowsAssumption
  <2> HIDE DEF record
  <2>4. /\ new \in Journals /\ new.dns = record /\ new.endpoint = journal.endpoint /\ new.id = journal.id /\ new.index = journal.index
        /\ new.dhcp = journal.dhcp /\ new.addresses = journal.addresses /\ new.routes = journal.routes /\ new.mtu = journal.mtu
    BY <1>3, <2>2, DnsChanged
  <2> HIDE DEF new
  <2>5. os.tun.dns \in PortaDns => Ours(record, os.tun.dns)
    <3>1. os.tun.id = None => os.tun.dns = "own"  BY <1>3, Parts, NoTunIsTyped
    <3>2. "own" \notin PortaDns  BY WindowsAssumption
    <3> QED BY <1>4, <2>1, <2>2, <3>1, <3>2 DEF Ours
  <2>6. Consistent(os, new, lost')
    <3>1. /\ os.tun.addresses \subseteq new.addresses /\ (~os.tun.dhcp /\ os.tun.id # None => new.dhcp) /\ lost' \in BOOLEAN
          /\ ~lost' => new.dns.original \notin PortaDns
          /\ new.mtu # None /\ ~lost' => new.mtu.original \notin PortaMtu
          /\ os.tun.mtu \in PortaMtu /\ ~lost' => new.mtu # None /\ Ours(new.mtu, os.tun.mtu)
      BY <1>3, <2>1, <2>2, <2>4, Parts
    <3> QED BY <1>2, <1>3, <2>3, <2>4, <2>5, <3>1, Rewritten
  <2>7. Bound(At("low"), os, new) /\ Undone(At("low"), os, new, lost')
    BY <1>1, <1>2, <1>3, <2>4, LateBound, AtIs DEF Bound, Undone, Late
  <2>8. Rest(At("low"), os, new, mem, lost')  BY <1>1, <1>6, <2>4, <2>7, HelperRests
  <2>9. Save(new, At("low"))  BY <1>9 DEF new, record
  <2> QED BY <2>6, <2>8, <2>9, SaveKeeps
<1> QED BY <1>7, <1>8, <1>9, Zenon DEF Dns

LEMMA RemoveAddressKeeps ==
  ASSUME WindowsInv, LostStep, c.script # "none", c.step \in {"addresses", "remove-addresses"}, NEW a \in journal.addresses, NEW index,
         a \in os.tun.addresses => os.tun.index = index, c.script = "up" => a # c.lease.address, RemoveAddress(a, index)
  PROVE  WindowsInv'
<1>1. Shape(c) /\ c.pc = "script" /\ journal.endpoint # None /\ Consistent(os, journal, lost') /\ os \in Systems /\ journal \in Journals
  BY HelperFacts
<1>2. os.tun \in Tuns  BY <1>1 DEF Systems
<1>3. CASE a \in os.tun.addresses
  <2> DEFINE t == [os.tun EXCEPT !.addresses = os.tun.addresses \ {a}]
             new == [os EXCEPT !.tun = t]
  <2>1. Command(new, c)  BY <1>3 DEF RemoveAddress
  <2>2. os.tun.addresses # {} /\ os.tun.id # None /\ os.guard # None /\ journal.id = os.tun.id  BY <1>1, <1>3, Parts, NoTunIsTyped
  <2>3. /\ t \in Tuns /\ t.id = os.tun.id /\ t.index = os.tun.index /\ t.addresses = os.tun.addresses \ {a} /\ t.dhcp = os.tun.dhcp
        /\ t.dns = os.tun.dns /\ t.mtu = os.tun.mtu
    BY <1>2 DEF Tuns
  <2>4. new.tun = t /\ new.guard = os.guard  BY <1>1 DEF Systems
  <2> HIDE DEF t
  <2>5. Consistent(new, journal, lost')
    <3>1. /\ ~t.dhcp => journal.dhcp
          /\ t.addresses \subseteq journal.addresses
          /\ t.dns \in PortaDns /\ ~lost' => journal.id = t.id /\ journal.dns # None /\ Ours(journal.dns, t.dns)
          /\ t.mtu \in PortaMtu /\ ~lost' => journal.id = t.id /\ journal.mtu # None /\ Ours(journal.mtu, t.mtu)
      BY <1>1, <2>2, <2>3, Parts
    <3> QED BY <1>1, <2>2, <2>3, <3>1, TunChanged
  <2> HIDE DEF new
  <2>6. Bound(c, new, journal)  BY <1>1, <2>3, <2>4 DEF WindowsInv, Rest, Bound
  <2>7. Undone(c, new, journal, lost')  BY <1>1, <2>3, <2>4 DEF WindowsInv, Rest, Undone, LostStep
  <2>8. Rest(c, new, journal, mem, lost')  BY <2>3, <2>4, <2>6, <2>7, HelperStays
  <2> QED BY <2>1, <2>5, <2>8, CommandKeeps
<1>4. CASE a \notin os.tun.addresses
  <2> DEFINE new == [journal EXCEPT !.addresses = journal.addresses \ {a}]
  <2>1. Save(new, c)  BY <1>4 DEF RemoveAddress
  <2>2. /\ new \in Journals /\ new.addresses = journal.addresses \ {a} /\ new.endpoint = journal.endpoint /\ new.id = journal.id
        /\ new.index = journal.index /\ new.dhcp = journal.dhcp /\ new.routes = journal.routes /\ new.dns = journal.dns
        /\ new.mtu = journal.mtu
    BY <1>1 DEF Journals
  <2> HIDE DEF new
  <2>3. Consistent(os, new, lost')
    <3>1. /\ os.tun.addresses \subseteq new.addresses /\ (~os.tun.dhcp /\ os.tun.id # None => new.dhcp) /\ lost' \in BOOLEAN
          /\ new.dns # None /\ ~lost' => new.dns.original \notin PortaDns
          /\ new.mtu # None /\ ~lost' => new.mtu.original \notin PortaMtu
          /\ os.tun.dns \in PortaDns /\ ~lost' => new.dns # None /\ Ours(new.dns, os.tun.dns)
          /\ os.tun.mtu \in PortaMtu /\ ~lost' => new.mtu # None /\ Ours(new.mtu, os.tun.mtu)
      BY <1>1, <1>4, <2>2, Parts
    <3>2. new.addresses # {} \/ new.dns # None \/ new.mtu # None => new.id # None  BY <1>1, <2>2, Parts
    <3> QED BY <1>1, <2>2, <3>1, <3>2, Rewritten
  <2>4. Bound(c, os, new)  BY <1>1, <2>2 DEF WindowsInv, Rest, Bound
  <2>5. Undone(c, os, new, lost')  BY <1>1, <2>2 DEF WindowsInv, Rest, Undone, LostStep
  <2>6. Rest(c, os, new, mem, lost')  BY <2>2, <2>4, <2>5, HelperStays
  <2> QED BY <2>1, <2>3, <2>6, SaveKeeps
<1> QED BY <1>3, <1>4

LEMMA OldAddressesStep == ASSUME WindowsInv, LostStep, OldAddresses PROVE WindowsInv'
<1>1. c.script # "none" /\ c.step = "addresses" /\ c.step \in Late  BY DEF OldAddresses, Step, Late
<1>2. c.script = "up"  BY <1>1, LateBound
<1>3. Shape(c) /\ c.pc = "script" /\ Consistent(os, journal, lost')  BY <1>1, HelperFacts
<1>4. \/ journal.addresses \ {c.lease.address} = {} /\ Skip(At("done"))
      \/ \E a \in journal.addresses \ {c.lease.address} : RemoveAddress(a, journal.index)
  BY DEF OldAddresses, Each
<1>5. CASE journal.addresses \ {c.lease.address} = {} /\ Skip(At("done"))
  <2>1. Bound(At("done"), os, journal) /\ Undone(At("done"), os, journal, lost')
    BY <1>1, <1>2, <1>3, <1>5, LateBound, AtIs DEF Bound, Undone
  <2>2. "done" \in StepsOf(c.script)  BY <1>2 DEF StepsOf
  <2>3. Rest(At("done"), os, journal, mem, lost')  BY <1>1, <2>1, <2>2, HelperRests
  <2> QED BY <1>5, <2>3, SkipKeeps
<1>6. CASE \E a \in journal.addresses \ {c.lease.address} : RemoveAddress(a, journal.index)
  <2>1. PICK a \in journal.addresses \ {c.lease.address} : RemoveAddress(a, journal.index)  BY <1>6
  <2>2. os.tun.id = None => os.tun.addresses = {}  BY <1>3, Parts, NoTunIsTyped
  <2>3. a \in os.tun.addresses => os.tun.index = journal.index  BY <1>1, <2>2, LateBound
  <2> QED BY <1>1, <2>1, <2>3, RemoveAddressKeeps
<1> QED BY <1>4, <1>5, <1>6

(* The steps of down. *)
LEMMA DownFacts ==
  ASSUME WindowsInv, LostStep, c.script # "none", c.step \in Cleared \cup {"routes"}
  PROVE  /\ c.script = "down" /\ Shape(c) /\ c.pc = "script" /\ journal.endpoint # None /\ Consistent(os, journal, lost')
         /\ os \in Systems /\ journal \in Journals /\ os.tun \in Tuns
         /\ Undone(c, os, journal, lost')
         /\ \A s, o, j : Bound(At(s), o, j) \/ s \in {"set-dns", "keep-dns"}
         /\ \A s \in Cleared \cup {"done"} : s \in StepsOf(c.script) /\ s \notin {"set-dns", "keep-dns"}
<1>1. /\ c.script = "down" /\ Shape(c) /\ c.pc = "script" /\ journal.endpoint # None /\ Consistent(os, journal, lost')
      /\ os \in Systems /\ journal \in Journals
  BY HelperFacts, StepScripts
<1>2. os.tun \in Tuns  BY <1>1 DEF Systems
<1>3. Undone(c, os, journal, lost')  BY DEF WindowsInv, Rest, Undone, LostStep
<1>4. \A s, o, j : Bound(At(s), o, j) \/ s \in {"set-dns", "keep-dns"}  BY <1>1, AtIs DEF Bound
<1>5. \A s \in Cleared \cup {"done"} : s \in StepsOf(c.script) /\ s \notin {"set-dns", "keep-dns"}  BY <1>1 DEF StepsOf, Cleared
<1> QED BY <1>1, <1>2, <1>3, <1>4, <1>5

LEMMA DownSkips ==
  ASSUME WindowsInv, LostStep, c.script # "none", c.step \in Cleared \cup {"routes"}, NEW s \in Cleared \cup {"done"}, Skip(At(s)),
         Undone(At(s), os, journal, lost')
  PROVE  WindowsInv'
<1>1. s \in StepsOf(c.script) /\ Bound(At(s), os, journal)  BY DownFacts
<1>2. Rest(At(s), os, journal, mem, lost')  BY <1>1, HelperRests
<1> QED BY <1>2, SkipKeeps

LEMMA DownRoutesStep == ASSUME WindowsInv, LostStep, DownRoutes PROVE WindowsInv'
<1>1. c.script # "none" /\ c.step = "routes"  BY DEF DownRoutes, Step
<1>2. /\ c.script = "down" /\ Shape(c) /\ c.pc = "script" /\ journal.endpoint # None /\ Consistent(os, journal, lost')
      /\ os \in Systems /\ journal \in Journals
  BY <1>1, DownFacts
<1>3. (journal.routes = {} /\ Skip(At("restore-dns"))) \/ \E r \in journal.routes : RemoveRoute(r)  BY DEF DownRoutes, Each
<1>4. CASE journal.routes = {} /\ Skip(At("restore-dns"))
  <2>1. Undone(At("restore-dns"), os, journal, lost')  BY <1>2, <1>4, AtIs DEF Undone
  <2> QED BY <1>1, <1>4, <2>1, DownSkips DEF Cleared
<1>5. CASE \E r \in journal.routes : RemoveRoute(r)
  <2>1. PICK r \in journal.routes : RemoveRoute(r)  BY <1>5
  <2> DEFINE now == [r EXCEPT !.index = IndexOf(os, r.on)]
             sys == [os EXCEPT !.routes = os.routes \ {now}]
             new == [journal EXCEPT !.routes = journal.routes \ {r}]
  <2>2. CASE Command(sys, c)
    <3>1. Consistent(sys, journal, lost')  BY <1>2, RoutesDropped
    <3>2. sys.tun = os.tun /\ sys.guard = os.guard  BY <1>2 DEF Systems
    <3> HIDE DEF sys
    <3>3. Bound(c, sys, journal) /\ Undone(c, sys, journal, lost')  BY <1>1, <1>2 DEF Bound, Undone, Late
    <3>4. Rest(c, sys, journal, mem, lost')  BY <1>1, <3>2, <3>3, HelperStays
    <3> QED BY <2>2, <3>1, <3>4, CommandKeeps
  <2>3. CASE ~(Present(os, r.on) /\ now \in os.routes) /\ Save(new, c)
    <3>1. r \in os.routes => now = r
      <4>1. r \in Routes  BY <1>2 DEF Journals
      <4>2. r \in os.routes => r.index = IndexOf(os, r.on)  BY <1>2 DEF Consistent, Owned
      <4> QED BY <4>1, <4>2 DEF Routes
    <3>2. r \in os.routes => Present(os, r.on)  BY <1>2 DEF Consistent, Owned
    <3>3. os.routes \subseteq journal.routes \ {r}  BY <1>2, <2>3, <3>1, <3>2 DEF Consistent, Owned
    <3>4. Consistent(os, new, lost')  BY <1>2, <3>3, Struck
    <3>5. new.endpoint = journal.endpoint  BY <1>2 DEF Journals
    <3> HIDE DEF new
    <3>6. Bound(c, os, new) /\ Undone(c, os, new, lost')  BY <1>1, <1>2 DEF Bound, Undone, Late
    <3>7. Rest(c, os, new, mem, lost')  BY <1>1, <3>5, <3>6, HelperStays
    <3> QED BY <2>3, <3>4, <3>7, SaveKeeps
  <2> QED BY <2>1, <2>2, <2>3 DEF RemoveRoute
<1> QED BY <1>3, <1>4, <1>5

LEMMA RestoreDnsStep == ASSUME WindowsInv, LostStep, RestoreDns PROVE WindowsInv'
<1>1. c.script # "none" /\ c.step = "restore-dns" /\ c.step \in Cleared  BY DEF RestoreDns, Step, Cleared
<1>2. /\ c.script = "down" /\ Shape(c) /\ c.pc = "script" /\ journal.endpoint # None /\ Consistent(os, journal, lost')
      /\ os \in Systems /\ journal \in Journals /\ os.tun \in Tuns /\ Undone(c, os, journal, lost')
  BY <1>1, DownFacts
<1>3. "restore-mtu" \in Cleared /\ "restore-mtu" \in StepsOf(c.script)  BY <1>2 DEF Cleared, StepsOf
<1>4. CASE journal.dns # None /\ Same /\ Ours(journal.dns, os.tun.dns)
           /\ Command([os EXCEPT !.tun = [os.tun EXCEPT !.dns = journal.dns.original]], At("restore-mtu"))
  <2> DEFINE t == [os.tun EXCEPT !.dns = journal.dns.original]
             new == [os EXCEPT !.tun = t]
  <2>1. journal.dns.original \in PortaDns \cup {"own", "admin"}  BY <1>2, <1>4 DEF Journals, Records
  <2>2. /\ t \in Tuns /\ t.id = os.tun.id /\ t.index = os.tun.index /\ t.addresses = os.tun.addresses /\ t.dhcp = os.tun.dhcp
        /\ t.dns = journal.dns.original /\ t.mtu = os.tun.mtu
    BY <1>2, <2>1 DEF Tuns
  <2>3. new.tun = t /\ new.guard = os.guard  BY <1>2 DEF Systems
  <2>4. os.tun.id # None /\ os.tun.id = journal.id  BY <1>4 DEF Same
  <2>5. Command(new, At("restore-mtu"))  BY <1>4
  <2> HIDE DEF t
  <2>6. t.dns \notin PortaDns \/ lost'  BY <1>2, <1>4, <2>2, Parts
  <2>7. Consistent(new, journal, lost')
    <3>1. /\ ~t.dhcp => journal.dhcp
          /\ t.addresses \subseteq journal.addresses /\ (t.addresses # {} => os.guard # None)
          /\ t.mtu \in PortaMtu /\ ~lost' => journal.id = t.id /\ journal.mtu # None /\ Ours(journal.mtu, t.mtu)
      BY <1>2, <2>2, <2>4, Parts
    <3> QED BY <1>2, <2>2, <2>4, <2>6, <3>1, TunChanged
  <2> HIDE DEF new
  <2>8. Undone(At("restore-mtu"), new, journal, lost')  BY <1>1, <1>2, <2>2, <2>3, <2>6, AtIs DEF Undone
  <2>9. Bound(At("restore-mtu"), new, journal)  BY <1>1, DownFacts
  <2>10. Rest(At("restore-mtu"), new, journal, mem, lost')  BY <1>1, <1>3, <2>2, <2>3, <2>8, <2>9, HelperRests
  <2> QED BY <2>5, <2>7, <2>10, CommandKeeps
<1>5. CASE ~(journal.dns # None /\ Same /\ Ours(journal.dns, os.tun.dns)) /\ Skip(At("restore-mtu"))
  <2>1. os.tun.dns \notin PortaDns \/ lost'  BY <1>2, <1>5, Parts DEF Same
  <2>2. Undone(At("restore-mtu"), os, journal, lost')  BY <1>1, <1>2, <2>1, AtIs DEF Undone
  <2> QED BY <1>1, <1>3, <1>5, <2>2, DownSkips
<1> QED BY <1>4, <1>5, Zenon DEF RestoreDns

LEMMA ForgetDnsStep == ASSUME WindowsInv, LostStep, ForgetDns PROVE WindowsInv'
<1>1. c.script # "none" /\ c.step \in {"restore-mtu", "forget"} /\ c.step \in Cleared  BY DEF ForgetDns, Step, Cleared
<1>2. /\ c.script = "down" /\ Shape(c) /\ c.pc = "script" /\ journal.endpoint # None /\ Consistent(os, journal, lost')
      /\ os \in Systems /\ journal \in Journals /\ os.tun \in Tuns /\ Undone(c, os, journal, lost')
  BY <1>1, DownFacts
<1>3. /\ "forget" \in Cleared /\ "forget" \in StepsOf(c.script)
      /\ "remove-addresses" \in Cleared /\ "remove-addresses" \in StepsOf(c.script)
  BY <1>2 DEF Cleared, StepsOf
<1>4. CASE /\ c.step = "restore-mtu" /\ journal.mtu # None /\ Same /\ Ours(journal.mtu, os.tun.mtu)
           /\ Command([os EXCEPT !.tun = [os.tun EXCEPT !.mtu = journal.mtu.original]], At("forget"))
  <2> DEFINE t == [os.tun EXCEPT !.mtu = journal.mtu.original]
             new == [os EXCEPT !.tun = t]
  <2>1. journal.mtu.original \in PortaMtu \cup {"own", "admin"}  BY <1>2, <1>4 DEF Journals, Records
  <2>2. /\ t \in Tuns /\ t.id = os.tun.id /\ t.index = os.tun.index /\ t.addresses = os.tun.addresses /\ t.dhcp = os.tun.dhcp
        /\ t.mtu = journal.mtu.original /\ t.dns = os.tun.dns
    BY <1>2, <2>1 DEF Tuns
  <2>3. new.tun = t /\ new.guard = os.guard  BY <1>2 DEF Systems
  <2>4. os.tun.id # None /\ os.tun.id = journal.id  BY <1>4 DEF Same
  <2>5. Command(new, At("forget"))  BY <1>4
  <2> HIDE DEF t
  <2>6. t.mtu \notin PortaMtu \/ lost'  BY <1>2, <1>4, <2>2, Parts
  <2>7. Consistent(new, journal, lost')
    <3>1. /\ ~t.dhcp => journal.dhcp
          /\ t.addresses \subseteq journal.addresses /\ (t.addresses # {} => os.guard # None)
          /\ t.dns \in PortaDns /\ ~lost' => journal.id = t.id /\ journal.dns # None /\ Ours(journal.dns, t.dns) /\ os.guard # None
      BY <1>2, <2>2, <2>4, Parts
    <3> QED BY <1>2, <2>2, <2>4, <2>6, <3>1, TunChanged
  <2> HIDE DEF new
  <2>8. Undone(At("forget"), new, journal, lost')  BY <1>2, <1>4, <2>2, <2>3, <2>6, AtIs DEF Undone
  <2>9. Bound(At("forget"), new, journal)  BY <1>1, DownFacts
  <2>10. Rest(At("forget"), new, journal, mem, lost')  BY <1>1, <1>3, <2>2, <2>3, <2>8, <2>9, HelperRests
  <2> QED BY <2>5, <2>7, <2>10, CommandKeeps
<1>5. CASE c.step = "restore-mtu" /\ ~(journal.mtu # None /\ Same /\ Ours(journal.mtu, os.tun.mtu)) /\ Skip(At("forget"))
  <2>1. os.tun.mtu \notin PortaMtu \/ lost'  BY <1>2, <1>5, Parts DEF Same
  <2>2. Undone(At("forget"), os, journal, lost')  BY <1>2, <1>5, <2>1, AtIs DEF Undone
  <2> QED BY <1>1, <1>3, <1>5, <2>2, DownSkips
<1>6. CASE c.step = "forget" /\ Save([journal EXCEPT !.dns = None, !.mtu = None], At("remove-addresses"))
  <2> DEFINE new == [journal EXCEPT !.dns = None, !.mtu = None]
  <2>1. /\ new \in Journals /\ new.dns = None /\ new.mtu = None /\ new.endpoint = journal.endpoint /\ new.id = journal.id
        /\ new.index = journal.index /\ new.dhcp = journal.dhcp /\ new.addresses = journal.addresses /\ new.routes = journal.routes
    BY <1>2 DEF Journals
  <2>2. Save(new, At("remove-addresses"))  BY <1>6
  <2> HIDE DEF new
  <2>3. (os.tun.dns \notin PortaDns \/ lost') /\ (os.tun.mtu \notin PortaMtu \/ lost') /\ journal.routes = {}
    BY <1>2, <1>6 DEF Undone
  <2>4. Consistent(os, new, lost')
    <3>1. /\ os.tun.addresses \subseteq new.addresses /\ (~os.tun.dhcp /\ os.tun.id # None => new.dhcp) /\ lost' \in BOOLEAN
          /\ new.addresses # {} => new.id # None
      BY <1>2, <2>1, Parts
    <3> QED BY <1>2, <2>1, <2>3, <3>1, Rewritten
  <2>5. Undone(At("remove-addresses"), os, new, lost')  BY <1>2, <2>1, <2>3, AtIs DEF Undone
  <2>6. Bound(At("remove-addresses"), os, new)  BY <1>1, DownFacts
  <2>7. Rest(At("remove-addresses"), os, new, mem, lost')  BY <1>1, <1>3, <2>1, <2>5, <2>6, HelperRests
  <2> QED BY <2>2, <2>4, <2>7, SaveKeeps
<1> QED BY <1>4, <1>5, <1>6, Zenon DEF ForgetDns, Step

LEMMA DownAddressesStep == ASSUME WindowsInv, LostStep, DownAddresses PROVE WindowsInv'
<1>1. c.script # "none" /\ c.step = "remove-addresses" /\ c.step \in Cleared  BY DEF DownAddresses, Step, Cleared
<1>2. /\ c.script = "down" /\ Shape(c) /\ c.pc = "script" /\ Consistent(os, journal, lost') /\ Undone(c, os, journal, lost')
  BY <1>1, DownFacts
<1> DEFINE set == IF Same THEN journal.addresses ELSE {}
<1>3. (set = {} /\ Skip(At("dhcp"))) \/ \E a \in set : RemoveAddress(a, os.tun.index)  BY DEF DownAddresses, Each
<1>4. CASE set = {} /\ Skip(At("dhcp"))
  <2>1. os.tun.addresses = {}  BY <1>2, <1>4, Parts, NoTunIsTyped DEF Same
  <2>2. Undone(At("dhcp"), os, journal, lost')  BY <1>1, <1>2, <2>1, AtIs DEF Undone
  <2> QED BY <1>1, <1>4, <2>2, DownSkips DEF Cleared
<1>5. CASE \E a \in set : RemoveAddress(a, os.tun.index)
  <2>1. PICK a \in set : RemoveAddress(a, os.tun.index)  BY <1>5
  <2> QED BY <1>1, <1>2, <2>1, RemoveAddressKeeps
<1> QED BY <1>3, <1>4, <1>5

LEMMA DhcpStep == ASSUME WindowsInv, LostStep, Dhcp PROVE WindowsInv'
<1>1. c.script # "none" /\ c.step = "dhcp" /\ c.step \in Cleared  BY DEF Dhcp, Step, Cleared
<1>2. /\ c.script = "down" /\ Shape(c) /\ c.pc = "script" /\ journal.endpoint # None /\ Consistent(os, journal, lost')
      /\ os \in Systems /\ journal \in Journals /\ os.tun \in Tuns /\ Undone(c, os, journal, lost')
  BY <1>1, DownFacts
<1>3. CASE Same /\ journal.dhcp /\ Command([os EXCEPT !.tun = [os.tun EXCEPT !.dhcp = TRUE]], At("done"))
  <2> DEFINE t == [os.tun EXCEPT !.dhcp = TRUE]
             new == [os EXCEPT !.tun = t]
  <2>1. /\ t \in Tuns /\ t.id = os.tun.id /\ t.index = os.tun.index /\ t.addresses = os.tun.addresses /\ t.dhcp = TRUE
        /\ t.mtu = os.tun.mtu /\ t.dns = os.tun.dns
    BY <1>2 DEF Tuns
  <2>2. new.tun = t /\ new.guard = os.guard  BY <1>2 DEF Systems
  <2>3. os.tun.id # None /\ os.tun.id = journal.id  BY <1>3 DEF Same
  <2>4. Command(new, At("done"))  BY <1>3
  <2> HIDE DEF t
  <2>5. Consistent(new, journal, lost')
    <3>1. /\ t.addresses \subseteq journal.addresses /\ (t.addresses # {} => os.guard # None)
          /\ t.dns \in PortaDns /\ ~lost' => journal.id = t.id /\ journal.dns # None /\ Ours(journal.dns, t.dns) /\ os.guard # None
          /\ t.mtu \in PortaMtu /\ ~lost' => journal.id = t.id /\ journal.mtu # None /\ Ours(journal.mtu, t.mtu)
      BY <1>2, <2>1, <2>3, Parts
    <3> QED BY <1>2, <2>1, <2>3, <3>1, TunChanged
  <2> HIDE DEF new
  <2>6. Undone(At("done"), new, journal, lost')  BY <1>1, <1>2, <2>1, <2>2, AtIs DEF Undone
  <2>7. Bound(At("done"), new, journal) /\ "done" \in StepsOf(c.script)  BY <1>1, DownFacts
  <2>8. Rest(At("done"), new, journal, mem, lost')  BY <1>1, <2>1, <2>2, <2>6, <2>7, HelperRests
  <2> QED BY <2>4, <2>5, <2>8, CommandKeeps
<1>4. CASE ~(Same /\ journal.dhcp) /\ Skip(At("done"))
  <2>1. os.tun.id = None \/ os.tun.dhcp  BY <1>2, <1>4, Parts DEF Same
  <2>2. Undone(At("done"), os, journal, lost')  BY <1>1, <1>2, <2>1, AtIs DEF Undone
  <2> QED BY <1>1, <1>4, <2>2, DownSkips
<1> QED BY <1>3, <1>4, Zenon DEF Dhcp

----------------------------------------------------------------------------
(* A process that has ended its helper is at another place. *)
LEMMA MovedShaped ==
  ASSUME NEW n \in Processes, n.script = "none", n.step = "none", n.pc # "script", ~n.dead,
         n.pc \in {"configure", "mtu", "set-mtu", "keep-mtu"} => n.op = "up",
         n.pc \in {"restore", "forget-mtu", "unguard", "remove"} => n.op = "down",
         n.pc \in {"next", "guard"} => n.op \in {"prepare", "up"},
         n.pc = "acquire" => n.op # "none",
         n.op \in {"prepare", "up"} \/ n.pc \in {"dial", "device", "connected"} => n.dial \in Endpoints,
         n.op = "up" \/ n.pc = "device" => n.lease \in Leases,
         (n.pc = "prepared" => n.op = "prepare") /\ (n.pc = "connected" => n.op = "none")
  PROVE  Shape(n)
BY DEF Shape, StepsOf

LEMMA GotoFields ==
  ASSUME Shape(c), NEW pc \in Places
  PROVE  /\ Goto(pc) \in Processes /\ Goto(pc).pc = pc /\ Goto(pc).op = c.op /\ Goto(pc).script = c.script /\ Goto(pc).step = c.step
         /\ Goto(pc).dial = c.dial /\ Goto(pc).lease = c.lease /\ Goto(pc).dead = c.dead
BY DEF Goto, Shape, Processes

(* Nobody helps: where the process is. *)
LEMMA Alone ==
  ASSUME Shape(c), c.pc # "script"
  PROVE  c.script = "none" /\ c.step = "none" /\ ~c.dead /\ c \in Processes
BY DEF Shape, StepsOf

LEMMA RunFields ==
  ASSUME Shape(c), c.pc # "script", NEW script \in {"retire", "prepare", "configure", "up", "down"},
         script = "prepare" => c.op \in {"prepare", "up"},
         script \in {"retire", "configure", "up"} => c.op = "up",
         script = "down" => c.op = "down"
  PROVE  LET n == Run(script) IN
         /\ Shape(n) /\ n.pc = "script" /\ n.script = script /\ n.op = c.op /\ n.dial = c.dial /\ n.lease = c.lease /\ n.dead = FALSE
         /\ n.step \in {"retire", "routes", "escape"} /\ (script = "down" <=> n.step = "routes")
<1> DEFINE step == CASE script = "retire" -> "retire" [] script = "down" -> "routes" [] OTHER -> "escape"
           n == [c EXCEPT !.pc = "script", !.script = script, !.step = step]
<1>1. step \in {"retire", "routes", "escape"} /\ step \in StepsOf(script) /\ (script = "down" <=> step = "routes")
  BY DEF StepsOf
<1>2. Run(script) = n  BY DEF Run
<1> HIDE DEF step
<1>3. c \in Processes /\ c.dead = FALSE  BY Alone DEF Processes
<1>6. "script" \in Places /\ script \in {"none", "retire", "prepare", "configure", "up", "down"}
      /\ step \in {"none", "retire", "escape", "escaped", "identity", "address", "routes", "done"} \cup Late \cup Cleared
  BY <1>1 DEF Places
<1>4. /\ n \in Processes /\ n.pc = "script" /\ n.script = script /\ n.op = c.op /\ n.dial = c.dial /\ n.lease = c.lease
      /\ n.dead = FALSE /\ n.step = step
  <2>1. n \in Processes  BY <1>3, <1>6 DEF Processes
  <2>2. n.pc = "script" /\ n.script = script /\ n.step = step  BY <1>3 DEF Processes
  <2>3. n.op = c.op /\ n.dial = c.dial /\ n.lease = c.lease  BY <1>3 DEF Processes
  <2>4. n.dead = c.dead  BY <1>3 DEF Processes
  <2> QED BY <1>3, <2>1, <2>2, <2>3, <2>4
<1> HIDE DEF n
<1>5. Shape(n)  BY <1>1, <1>4 DEF Shape
<1> QED BY <1>1, <1>2, <1>4, <1>5

LEMMA DoneStep == ASSUME WindowsInv, LostStep, Done PROVE WindowsInv'
<1>1. c.script # "none" /\ c.step = "done"  BY DEF Done
<1>2. Shape(c) /\ c.pc = "script" /\ journal.endpoint # None /\ Consistent(os, journal, lost')  BY <1>1, HelperFacts
<1>3. c \in Processes /\ c.script \in {"retire", "prepare", "configure", "up", "down"}  BY <1>1, <1>2, StepScripts DEF Shape
<1>4. CASE Throw  BY <1>4, ThrowKeeps
<1>5. CASE c.dead /\ c' = Return /\ UNCHANGED <<os, journal>>
  <2>1. c' = Off  BY <1>5 DEF Return
  <2> QED BY <1>2, <1>5, <2>1, OffRests DEF WindowsInv
<1>6. CASE ~c.dead /\ c' = Return /\ mem' \in read_state /\ UNCHANGED <<os, journal>>
  <2>1. mem' = journal  BY <1>6 DEF read_state
  <2> DEFINE ended == [c EXCEPT !.script = "none", !.step = "none"]
             pc == CASE c.script = "retire" -> "next" [] c.script = "configure" -> "mtu" [] c.script = "up" -> "connected"
                     [] c.script = "down" -> "unguard" [] OTHER -> IF c.op = "up" THEN "configure" ELSE "prepared"
             op == IF c.script = "up" THEN "none" ELSE c.op
  <2>2. pc \in Places /\ op \in Calls  BY <1>3 DEF Places, Calls, Processes
  <2>3. c' \in Processes /\ c'.pc = pc /\ c'.op = op /\ c'.script = "none" /\ c'.step = "none" /\ c'.dial = c.dial
        /\ c'.lease = c.lease /\ c'.dead = c.dead
    <3>1. CASE c.script = "up"
      <4>1. c' = [ended EXCEPT !.pc = pc, !.op = op]  BY <1>3, <1>6, <3>1 DEF Return
      <4> HIDE DEF pc, op
      <4> QED BY <1>3, <2>2, <4>1 DEF Processes
    <3>2. CASE c.script # "up"
      <4>1. c' = [ended EXCEPT !.pc = pc]  BY <1>3, <1>6, <3>2 DEF Return
      <4>2. op = c.op  BY <3>2
      <4> HIDE DEF pc, op
      <4> QED BY <1>3, <2>2, <4>1, <4>2 DEF Processes
    <3> QED BY <3>1, <3>2
  <2>4. /\ c.script \in {"prepare", "configure", "up"} => c.op \in {"prepare", "up"} /\ c.dial \in Endpoints
        /\ c.script \in {"retire", "configure", "up"} => c.op = "up" /\ c.lease \in Leases /\ c.dial \in Endpoints
        /\ c.script = "down" => c.op = "down"
    BY <1>1, <1>2, StepScripts DEF Shape
  <2>5. c.op = "up" => c.lease \in Leases  BY <1>2 DEF Shape
  <2>6. Shape(c')  BY <1>3, <1>6, <2>3, <2>4, <2>5, MovedShaped
  <2>7. Noted(c', os, journal, mem')  BY <1>2, <1>3, <2>1, <2>3 DEF Noted
  <2>8. Covered(c', os, journal)
    <3>1. CASE c.script \in {"prepare", "configure"}
      BY <1>6, <2>3, <2>4, <3>1 DEF WindowsInv, Rest, Covered, Guard
    <3>2. CASE c.script = "up"
      <4>1. os.guard = Guard(c, os) /\ journal.endpoint = c.dial /\ os.tun.id # None
        BY <1>6, <2>4, <3>2 DEF WindowsInv, Rest, Covered
      <4>2. c.lease.address \in os.tun.addresses /\ journal.addresses \subseteq {c.lease.address}
        BY <1>1, <1>6, <3>2 DEF WindowsInv, Rest, Bound
      <4>3. os.tun.addresses = {c.lease.address}  BY <1>2, <4>2, Parts
      <4> QED BY <2>3, <2>4, <3>2, <4>1, <4>3 DEF Covered, Guard
    <3>3. CASE c.script \in {"retire", "down"}  BY <2>3, <3>3 DEF Covered
    <3> QED BY <1>3, <3>1, <3>2, <3>3
  <2>9. Bound(c', os, journal)  BY <2>3 DEF Bound
  <2>10. Undone(c', os, journal, lost')
    <3>1. CASE c.script = "down"  BY <1>1, <2>3, <3>1 DEF WindowsInv, Rest, Undone, LostStep
    <3>2. CASE c.script # "down"  BY <1>3, <2>3, <3>2 DEF Undone
    <3> QED BY <3>1, <3>2
  <2> QED BY <1>2, <1>6, <2>6, <2>7, <2>8, <2>9, <2>10 DEF WindowsInv, Rest
<1> QED BY <1>4, <1>5, <1>6, Zenon DEF Done

----------------------------------------------------------------------------
(* What every step of the manager may use. *)
LEMMA ManagerFacts ==
  ASSUME WindowsInv, LostStep, c.pc # "script"
  PROVE  /\ Shape(c) /\ c.script = "none" /\ c.step = "none" /\ ~c.dead /\ c \in Processes
         /\ Consistent(os, journal, lost) /\ Consistent(os, journal, lost') /\ os \in Systems /\ journal \in Journals
         /\ validate_state(journal) /\ os.tun \in Tuns
BY Alone, StillConsistent, Parts DEF WindowsInv, Rest, Consistent

(* The helper is started; nothing but the guard matters to it. *)
LEMMA RunRests ==
  ASSUME Shape(c), c.pc # "script", NEW script \in {"retire", "prepare", "configure", "up", "down"},
         script = "prepare" => c.op \in {"prepare", "up"},
         script \in {"retire", "configure", "up"} => c.op = "up",
         script = "down" => c.op = "down",
         NEW o, NEW j, NEW m, NEW l, j.endpoint # None,
         script \in {"prepare", "configure", "up"} =>
           o.guard # None /\ o.guard = Guard(c, o) /\ j.endpoint = c.dial /\ (c.op # "prepare" => o.tun.id # None)
  PROVE  Rest(Run(script), o, j, m, l)
<1> DEFINE n == Run(script)
<1>1. /\ Shape(n) /\ n.pc = "script" /\ n.script = script /\ n.op = c.op /\ n.dial = c.dial /\ n.lease = c.lease /\ n.dead = FALSE
      /\ n.step \in {"retire", "routes", "escape"} /\ (script = "down" <=> n.step = "routes")
  BY RunFields
<1> HIDE DEF n
<1>2. Noted(n, o, j, m)  BY <1>1 DEF Noted
<1>3. Covered(n, o, j)  BY <1>1 DEF Covered, Guard
<1>4. Bound(n, o, j)  BY <1>1 DEF Bound, Late
<1>5. Undone(n, o, j, l)  BY <1>1 DEF Undone
<1>6. Rest(n, o, j, m, l)  BY <1>1, <1>2, <1>3, <1>4, <1>5 DEF Rest
<1> QED BY <1>6 DEF n

LEMMA GotoShaped ==
  ASSUME Shape(c), c.pc # "script", NEW pc \in Places \ {"script"},
         pc \in {"configure", "mtu", "set-mtu", "keep-mtu"} => c.op = "up",
         pc \in {"restore", "forget-mtu", "unguard", "remove"} => c.op = "down",
         pc \in {"next", "guard"} => c.op \in {"prepare", "up"},
         pc \notin {"dial", "device", "connected", "acquire", "prepared"}
  PROVE  /\ Shape(Goto(pc)) /\ Goto(pc).pc = pc /\ Goto(pc).op = c.op /\ Goto(pc).script = "none" /\ Goto(pc).step = "none"
         /\ Goto(pc).dial = c.dial /\ Goto(pc).lease = c.lease /\ ~Goto(pc).dead
<1> DEFINE n == Goto(pc)
<1>1. /\ n \in Processes /\ n.pc = pc /\ n.op = c.op /\ n.script = "none" /\ n.step = "none"
      /\ n.dial = c.dial /\ n.lease = c.lease /\ ~n.dead
  BY GotoFields, Alone
<1>2. (c.op \in {"prepare", "up"} => c.dial \in Endpoints) /\ (c.op = "up" => c.lease \in Leases)  BY DEF Shape
<1> HIDE DEF n
<1>3. Shape(n)  BY <1>1, <1>2, MovedShaped
<1> QED BY <1>1, <1>3 DEF n

LEMMA acquireStep == ASSUME WindowsInv, LostStep, acquire PROVE WindowsInv'
<1>1. c.pc = "acquire" /\ UNCHANGED journal  BY DEF acquire
<1>2. Shape(c) /\ c.op \in {"prepare", "up", "down"} /\ Consistent(os, journal, lost') /\ validate_state(journal)
  BY <1>1, ManagerFacts DEF Shape, Processes, Calls
<1>3. CASE Exit(os)  BY <1>1, <1>3, StopKeeps
<1>4. CASE /\ mem' \in read_state /\ UNCHANGED os
           /\ c' = CASE c.op = "down" -> Goto(IF needs_cleanup(journal) THEN "restore" ELSE "downed")
                     [] c.op = "up" /\ journal.id \notin {None, os.tun.id} -> Run("retire")
                     [] OTHER -> Goto("next")
  <2>1. mem' = journal  BY <1>4 DEF read_state
  <2>2. CASE c' = Goto("restore") /\ c.op = "down" /\ journal # Empty
    <3>1. Shape(Goto("restore")) /\ Goto("restore").pc = "restore" /\ Goto("restore").script = "none" /\ Goto("restore").step = "none"
      BY <1>1, <1>2, <2>2, GotoShaped DEF Places
    <3>2. journal.endpoint # None  BY <1>2, <2>2, EndpointNamed
    <3>3. Rest(c', os, journal, mem', lost')  BY <2>1, <2>2, <3>1, <3>2 DEF Rest, Noted, Covered, Bound, Undone, Late
    <3> QED BY <1>1, <1>2, <1>4, <3>3 DEF WindowsInv
  <2>3. CASE c' = Goto("downed")
    <3>1. Shape(Goto("downed")) /\ Goto("downed").pc = "downed" /\ Goto("downed").script = "none" /\ Goto("downed").step = "none"
      BY <1>1, <1>2, GotoShaped DEF Places
    <3>2. Rest(c', os, journal, mem', lost')  BY <2>3, <3>1 DEF Rest, Noted, Covered, Bound, Undone, Late
    <3> QED BY <1>1, <1>2, <1>4, <3>2 DEF WindowsInv
  <2>4. CASE c' = Run("retire") /\ c.op = "up" /\ journal.id # None
    <3>1. journal.endpoint # None  BY <1>2, <2>4, EmptyIsTyped, EndpointNamed
    <3>2. Rest(c', os, journal, mem', lost')  BY <1>1, <1>2, <2>4, <3>1, RunRests
    <3> QED BY <1>1, <1>2, <1>4, <3>2 DEF WindowsInv
  <2>5. CASE c' = Goto("next") /\ c.op \in {"prepare", "up"}
    <3>1. Shape(Goto("next")) /\ Goto("next").pc = "next" /\ Goto("next").script = "none" /\ Goto("next").step = "none"
      BY <1>1, <1>2, <2>5, GotoShaped DEF Places
    <3>2. Rest(c', os, journal, mem', lost')  BY <2>1, <2>5, <3>1 DEF Rest, Noted, Covered, Bound, Undone, Late
    <3> QED BY <1>1, <1>2, <1>4, <3>2 DEF WindowsInv
  <2>6. CASE c.op = "down"
    BY <1>4, <2>2, <2>3, <2>6 DEF needs_cleanup
  <2>7. CASE c.op # "down"
    BY <1>2, <1>4, <2>4, <2>5, <2>7
  <2> QED BY <2>6, <2>7
<1> QED BY <1>3, <1>4, Zenon DEF acquire

LEMMA next_stateStep == ASSUME WindowsInv, LostStep, next_state PROVE WindowsInv'
<1>1. c.pc = "next"  BY DEF next_state
<1>2. /\ Shape(c) /\ Consistent(os, journal, lost') /\ os \in Systems /\ journal \in Journals /\ os.tun \in Tuns
      /\ c.op \in {"prepare", "up"} /\ c.dial \in Endpoints /\ mem = journal
  BY <1>1, ManagerFacts DEF Shape, WindowsInv, Rest, Noted
<1> DEFINE id == IF c.op = "up" THEN os.tun.id ELSE mem.id
           new == [mem EXCEPT !.endpoint = c.dial, !.id = id]
<1>3. CASE Exit(os) /\ UNCHANGED journal  BY <1>3, StopKeeps
<1>4. CASE (c.op = "up" => os.tun.id # None /\ mem.id \in {None, os.tun.id}) /\ persist(new, Goto("guard"))
  <2>1. /\ id \in Adapters \cup {None} /\ (id = journal.id \/ journal.id = None) /\ (c.op = "up" => id # None)
    BY <1>2, <1>4 DEF Journals, Tuns
  <2>2. persist(new, Goto("guard"))  BY <1>4
  <2> HIDE DEF id
  <2>3. /\ new \in Journals /\ new.endpoint = c.dial /\ new.id = id /\ new.index = journal.index /\ new.dhcp = journal.dhcp
        /\ new.addresses = journal.addresses /\ new.routes = journal.routes /\ new.dns = journal.dns /\ new.mtu = journal.mtu
    BY <1>2, <2>1 DEF Journals
  <2> HIDE DEF new
  <2>4. c.dial # None  BY <1>2, WindowsAssumption
  <2>5. Consistent(os, new, lost')
    <3>1. /\ os.tun.addresses \subseteq new.addresses /\ (~os.tun.dhcp /\ os.tun.id # None => new.dhcp) /\ lost' \in BOOLEAN
          /\ new.dns # None /\ ~lost' => new.dns.original \notin PortaDns
          /\ new.mtu # None /\ ~lost' => new.mtu.original \notin PortaMtu
          /\ os.tun.dns \in PortaDns /\ ~lost' => new.dns # None /\ Ours(new.dns, os.tun.dns)
          /\ os.tun.mtu \in PortaMtu /\ ~lost' => new.mtu # None /\ Ours(new.mtu, os.tun.mtu)
      BY <1>2, <2>3, Parts
    <3>2. new.addresses # {} \/ new.dns # None \/ new.mtu # None => new.id # None  BY <1>2, <2>1, <2>3, Parts
    <3> QED BY <1>2, <2>1, <2>3, <2>4, <3>1, <3>2, Rewritten
  <2>6. /\ Shape(Goto("guard")) /\ Goto("guard").pc = "guard" /\ Goto("guard").script = "none" /\ Goto("guard").step = "none"
        /\ Goto("guard").op = c.op /\ Goto("guard").dial = c.dial
    BY <1>1, <1>2, GotoShaped DEF Places
  <2>7. Rest(Goto("guard"), os, new, new, lost')  BY <1>4, <2>3, <2>6 DEF Rest, Noted, Covered, Bound, Undone, Late
  <2> QED BY <2>2, <2>5, <2>7, persistKeeps
<1> QED BY <1>3, <1>4, Zenon DEF next_state

LEMMA replace_guardStep == ASSUME WindowsInv, LostStep, replace_guard PROVE WindowsInv'
<1>1. c.pc = "guard"  BY DEF replace_guard
<1>2. /\ Shape(c) /\ Consistent(os, journal, lost') /\ os \in Systems /\ os.tun \in Tuns
      /\ c.op \in {"prepare", "up"} /\ c.dial \in Endpoints /\ journal.endpoint = c.dial /\ (c.op = "up" => os.tun.id # None)
  BY <1>1, ManagerFacts DEF Shape, WindowsInv, Rest, Noted
<1> DEFINE g == [endpoint |-> c.dial, tun |-> IF c.op = "up" THEN os.tun.id ELSE None]
           new == [os EXCEPT !.guard = g]
<1>3. native(new, Run("prepare"))  BY DEF replace_guard, Transaction
<1>4. g \in Guards /\ g # None  BY <1>2, WindowsAssumption DEF Guards, Tuns
<1>5. new.tun = os.tun /\ new.guard = g  BY <1>2 DEF Systems
<1>6. g = Guard(c, new)  BY <1>2, <1>5 DEF Guard
<1> HIDE DEF g
<1>7. c.dial # None  BY <1>2, WindowsAssumption
<1>8. Consistent(new, journal, lost')  BY <1>2, <1>4, <1>7, GuardChanged
<1> HIDE DEF new
<1>9. Rest(Run("prepare"), new, journal, mem, lost')  BY <1>1, <1>2, <1>4, <1>5, <1>6, <1>7, RunRests
<1> QED BY <1>3, <1>8, <1>9, nativeKeeps

LEMMA configureStep == ASSUME WindowsInv, LostStep, configure PROVE WindowsInv'
<1>1. c.pc = "configure" /\ Skip(Run("configure"))  BY DEF configure
<1>2. Shape(c) /\ c.op = "up" /\ c.dial \in Endpoints  BY <1>1, ManagerFacts DEF Shape
<1>3. os.guard = Guard(c, os) /\ journal.endpoint = c.dial /\ os.tun.id # None  BY <1>1, <1>2 DEF WindowsInv, Rest, Covered
<1>4. os.guard # None /\ c.dial # None
  <2>1. os \in Systems /\ os.tun.id \in Adapters \cup {None}  BY <1>1, ManagerFacts DEF Systems, Tuns
  <2>2. Guard(c, os) \in Guards  BY <1>2, <2>1 DEF Guard, Guards
  <2> QED BY <1>2, <1>3, <2>2, WindowsAssumption DEF Guards
<1>5. Rest(Run("configure"), os, journal, mem, lost')  BY <1>1, <1>2, <1>3, <1>4, RunRests
<1> QED BY <1>1, <1>5, SkipKeeps

LEMMA MtuChanged ==
  ASSUME NEW j \in Journals, NEW r \in Records(PortaMtu) \cup {None}
  PROVE  LET n == [j EXCEPT !.mtu = r] IN
         /\ n \in Journals /\ n.mtu = r /\ n.endpoint = j.endpoint /\ n.id = j.id /\ n.index = j.index /\ n.dhcp = j.dhcp
         /\ n.addresses = j.addresses /\ n.routes = j.routes /\ n.dns = j.dns
BY DEF Journals

LEMMA apply_mtuStep == ASSUME WindowsInv, LostStep, WindowsNext, apply_mtu PROVE WindowsInv'
<1>1. c.pc \in {"mtu", "set-mtu", "keep-mtu"}  BY DEF apply_mtu
<1>2. /\ Shape(c) /\ Consistent(os, journal, lost) /\ Consistent(os, journal, lost') /\ os \in Systems /\ journal \in Journals
      /\ os.tun \in Tuns /\ c.op = "up" /\ c.lease \in Leases /\ c.dial \in Endpoints /\ mem = journal
  BY <1>1, ManagerFacts DEF Shape, WindowsInv, Rest, Noted
<1>3. os.guard = Guard(c, os) /\ journal.endpoint = c.dial /\ os.tun.id # None  BY <1>1, <1>2 DEF WindowsInv, Rest, Covered
<1>4. c.lease.mtu \in PortaMtu /\ c.lease.mtu # None /\ c.dial # None  BY <1>2, LeaseTyped, WindowsAssumption
<1>5. journal.mtu \in Records(PortaMtu) \cup {None} /\ os.tun.mtu \in PortaMtu \cup {"own", "admin"} /\ os.tun.id \in Adapters \cup {None}
  BY <1>2 DEF Journals, Tuns
<1>6. os.guard # None
  <2>1. Guard(c, os) \in Guards  BY <1>2, <1>5 DEF Guard, Guards
  <2> QED BY <1>3, <2>1, WindowsAssumption DEF Guards
<1>7. CASE Exit(os) /\ UNCHANGED journal  BY <1>7, StopKeeps
<1>8. CASE c.pc = "mtu" /\ mem.id # None /\ os.tun.id = mem.id /\ persist([mem EXCEPT !.mtu = MtuRecord], Goto("set-mtu"))
  <2> DEFINE record == MtuRecord
             new == [mem EXCEPT !.mtu = record]
  <2>1. /\ record \in Records(PortaMtu) /\ record.pending = c.lease.mtu
        /\ IF journal.mtu = None THEN record.original = os.tun.mtu /\ record.applied = None
           ELSE record.original = journal.mtu.original /\ record.applied = journal.mtu.applied
    <3>1. CASE journal.mtu = None
      <4>1. MtuRecord = [original |-> os.tun.mtu, applied |-> None, pending |-> c.lease.mtu]  BY <1>2, <3>1 DEF MtuRecord
      <4> QED BY <1>4, <1>5, <3>1, <4>1 DEF Records
    <3>2. CASE journal.mtu # None
      <4>1. MtuRecord = [journal.mtu EXCEPT !.pending = c.lease.mtu]  BY <1>2, <3>2 DEF MtuRecord
      <4> QED BY <1>4, <1>5, <3>2, <4>1 DEF Records
    <3> QED BY <3>1, <3>2
  <2>2. record # None  BY <2>1, WindowsAssumption
  <2> HIDE DEF record
  <2>3. /\ new \in Journals /\ new.mtu = record /\ new.endpoint = journal.endpoint /\ new.id = journal.id /\ new.index = journal.index
        /\ new.dhcp = journal.dhcp /\ new.addresses = journal.addresses /\ new.routes = journal.routes /\ new.dns = journal.dns
    BY <1>2, <2>1, MtuChanged
  <2>4. persist(new, Goto("set-mtu"))  BY <1>8 DEF record
  <2> HIDE DEF new
  <2>5. ASSUME journal' = new PROVE Consistent(os, new, lost')
    <3>1. lost' = (lost \/ Overtakes(journal.dns, journal'.dns, os.tun.dns) \/ Overtakes(journal.mtu, journal'.mtu, os.tun.mtu))
      BY DEF WindowsNext
    <3>2. ASSUME ~lost', os.tun.mtu \in PortaMtu PROVE Ours(record, os.tun.mtu)
      <4>1. ~lost /\ ~Overtakes(journal.mtu, record, os.tun.mtu)  BY <2>3, <2>5, <3>1, <3>2
      <4>2. journal.mtu # None /\ Ours(journal.mtu, os.tun.mtu)  BY <1>2, <3>2, <4>1, Parts
      <4> QED BY <1>4, <2>1, <2>2, <4>1, <4>2 DEF Overtakes, Ours
    <3>3. ASSUME ~lost' PROVE record.original \notin PortaMtu
      <4>1. journal.mtu = None => os.tun.mtu \notin PortaMtu  BY <1>2, <3>3, Parts
      <4>2. journal.mtu # None => journal.mtu.original \notin PortaMtu  BY <1>2, <3>3, Parts
      <4> QED BY <2>1, <4>1, <4>2
    <3>4. /\ os.tun.addresses \subseteq new.addresses /\ (~os.tun.dhcp /\ os.tun.id # None => new.dhcp) /\ lost' \in BOOLEAN
          /\ new.dns # None /\ ~lost' => new.dns.original \notin PortaDns
          /\ os.tun.dns \in PortaDns /\ ~lost' => new.dns # None /\ Ours(new.dns, os.tun.dns)
      BY <1>2, <2>3, Parts
    <3> QED BY <1>2, <1>3, <1>4, <1>8, <2>2, <2>3, <3>2, <3>3, <3>4, Rewritten
  <2>6. /\ Shape(Goto("set-mtu")) /\ Goto("set-mtu").pc = "set-mtu" /\ Goto("set-mtu").script = "none" /\ Goto("set-mtu").step = "none"
        /\ Goto("set-mtu").op = c.op /\ Goto("set-mtu").dial = c.dial /\ Goto("set-mtu").lease = c.lease
    BY <1>1, <1>2, GotoShaped DEF Places
  <2>7. Rest(Goto("set-mtu"), os, new, new, lost')
    BY <1>2, <1>3, <1>8, <2>1, <2>2, <2>3, <2>6 DEF Rest, Noted, Covered, Guard, Bound, Undone, Late
  <2> QED BY <2>4, <2>5, <2>7, persistKeeps
<1>9. CASE c.pc = "set-mtu" /\ native([os EXCEPT !.tun = [os.tun EXCEPT !.mtu = c.lease.mtu]], Goto("keep-mtu"))
  <2> DEFINE t == [os.tun EXCEPT !.mtu = c.lease.mtu]
             new == [os EXCEPT !.tun = t]
  <2>1. journal.id = os.tun.id /\ journal.mtu # None /\ journal.mtu.pending = c.lease.mtu  BY <1>9 DEF WindowsInv, Rest, Bound
  <2>2. /\ t \in Tuns /\ t.id = os.tun.id /\ t.index = os.tun.index /\ t.addresses = os.tun.addresses /\ t.dhcp = os.tun.dhcp
        /\ t.dns = os.tun.dns /\ t.mtu = c.lease.mtu
    BY <1>2, <1>4 DEF Tuns
  <2>3. new.tun = t /\ new.guard = os.guard  BY <1>2 DEF Systems
  <2>4. native(new, Goto("keep-mtu"))  BY <1>9
  <2> HIDE DEF t
  <2>5. Ours(journal.mtu, t.mtu)  BY <1>4, <2>1, <2>2 DEF Ours
  <2>6. Consistent(new, journal, lost')
    <3>1. /\ ~t.dhcp => journal.dhcp
          /\ t.addresses \subseteq journal.addresses
          /\ t.dns \in PortaDns /\ ~lost' => journal.id = t.id /\ journal.dns # None /\ Ours(journal.dns, t.dns)
      BY <1>2, <1>3, <2>2, Parts
    <3> QED BY <1>2, <1>3, <1>6, <2>1, <2>2, <2>5, <3>1, TunChanged
  <2> HIDE DEF new
  <2>7. /\ Shape(Goto("keep-mtu")) /\ Goto("keep-mtu").pc = "keep-mtu" /\ Goto("keep-mtu").script = "none" /\ Goto("keep-mtu").step = "none"
        /\ Goto("keep-mtu").op = c.op /\ Goto("keep-mtu").dial = c.dial /\ Goto("keep-mtu").lease = c.lease
    BY <1>1, <1>2, GotoShaped DEF Places
  <2>8. Rest(Goto("keep-mtu"), new, journal, mem, lost')
    BY <1>2, <1>3, <2>1, <2>2, <2>3, <2>7 DEF Rest, Noted, Covered, Guard, Bound, Undone, Late
  <2> QED BY <2>4, <2>6, <2>8, nativeKeeps
<1>10. CASE c.pc = "keep-mtu" /\ persist([mem EXCEPT !.mtu = [mem.mtu EXCEPT !.applied = c.lease.mtu, !.pending = None]], Run("up"))
  <2> DEFINE record == [journal.mtu EXCEPT !.applied = c.lease.mtu, !.pending = None]
             new == [journal EXCEPT !.mtu = record]
  <2>1. journal.id = os.tun.id /\ journal.mtu # None /\ os.tun.mtu = c.lease.mtu  BY <1>10 DEF WindowsInv, Rest, Bound
  <2>2. record \in Records(PortaMtu) /\ record.original = journal.mtu.original /\ record.applied = c.lease.mtu
    BY <1>4, <1>5, <2>1 DEF Records
  <2>3. record # None  BY <2>2, WindowsAssumption
  <2>4. persist(new, Run("up"))  BY <1>2, <1>10
  <2> HIDE DEF record
  <2>5. /\ new \in Journals /\ new.mtu = record /\ new.endpoint = journal.endpoint /\ new.id = journal.id /\ new.index = journal.index
        /\ new.dhcp = journal.dhcp /\ new.addresses = journal.addresses /\ new.routes = journal.routes /\ new.dns = journal.dns
    BY <1>2, <2>2, MtuChanged
  <2> HIDE DEF new
  <2>6. Ours(record, os.tun.mtu)  BY <1>4, <2>1, <2>2 DEF Ours
  <2>7. Consistent(os, new, lost')
    <3>1. /\ os.tun.addresses \subseteq new.addresses /\ (~os.tun.dhcp /\ os.tun.id # None => new.dhcp) /\ lost' \in BOOLEAN
          /\ ~lost' => new.mtu.original \notin PortaMtu
          /\ new.dns # None /\ ~lost' => new.dns.original \notin PortaDns
          /\ os.tun.dns \in PortaDns /\ ~lost' => new.dns # None /\ Ours(new.dns, os.tun.dns)
      BY <1>2, <2>1, <2>2, <2>5, Parts
    <3> QED BY <1>2, <1>3, <1>4, <2>1, <2>3, <2>5, <2>6, <3>1, Rewritten
  <2>8. Rest(Run("up"), os, new, new, lost')  BY <1>1, <1>2, <1>3, <1>4, <1>6, <2>5, RunRests
  <2> QED BY <2>4, <2>7, <2>8, persistKeeps
<1> QED BY <1>7, <1>8, <1>9, <1>10, Zenon DEF apply_mtu

LEMMA restore_mtuStep == ASSUME WindowsInv, LostStep, restore_mtu PROVE WindowsInv'
<1>1. c.pc \in {"restore", "forget-mtu"}  BY DEF restore_mtu
<1>2. /\ Shape(c) /\ Consistent(os, journal, lost') /\ os \in Systems /\ journal \in Journals /\ os.tun \in Tuns /\ c.op = "down"
      /\ mem = journal /\ journal.endpoint # None
  BY <1>1, ManagerFacts DEF Shape, WindowsInv, Rest, Noted
<1>3. /\ Shape(Goto("forget-mtu")) /\ Goto("forget-mtu").pc = "forget-mtu" /\ Goto("forget-mtu").script = "none"
      /\ Goto("forget-mtu").step = "none"
  BY <1>1, <1>2, GotoShaped DEF Places
<1>4. CASE Skip(Run("down"))
  <2>1. Rest(Run("down"), os, journal, mem, lost')  BY <1>1, <1>2, RunRests
  <2> QED BY <1>4, <2>1, SkipKeeps
<1>5. CASE /\ mem.mtu # None /\ mem.id # None /\ os.tun.id = mem.id /\ Ours(mem.mtu, os.tun.mtu)
           /\ native([os EXCEPT !.tun = [os.tun EXCEPT !.mtu = mem.mtu.original]], Goto("forget-mtu"))
  <2> DEFINE t == [os.tun EXCEPT !.mtu = mem.mtu.original]
             new == [os EXCEPT !.tun = t]
  <2>1. journal.mtu.original \in PortaMtu \cup {"own", "admin"}  BY <1>2, <1>5 DEF Journals, Records
  <2>2. /\ t \in Tuns /\ t.id = os.tun.id /\ t.index = os.tun.index /\ t.addresses = os.tun.addresses /\ t.dhcp = os.tun.dhcp
        /\ t.mtu = journal.mtu.original /\ t.dns = os.tun.dns
    BY <1>2, <2>1 DEF Tuns
  <2>3. new.tun = t /\ new.guard = os.guard  BY <1>2 DEF Systems
  <2>4. native(new, Goto("forget-mtu"))  BY <1>5
  <2> HIDE DEF t
  <2>5. t.mtu \notin PortaMtu \/ lost'  BY <1>2, <1>5, <2>2, Parts
  <2>6. Consistent(new, journal, lost')
    <3>1. /\ ~t.dhcp => journal.dhcp
          /\ t.addresses \subseteq journal.addresses /\ (t.addresses # {} => os.guard # None)
          /\ t.dns \in PortaDns /\ ~lost' => journal.id = t.id /\ journal.dns # None /\ Ours(journal.dns, t.dns) /\ os.guard # None
      BY <1>2, <1>5, <2>2, Parts
    <3> QED BY <1>2, <1>5, <2>2, <2>5, <3>1, TunChanged
  <2> HIDE DEF new
  <2>7. Rest(Goto("forget-mtu"), new, journal, mem, lost')
    BY <1>2, <1>3, <2>2, <2>3, <2>5 DEF Rest, Noted, Covered, Bound, Undone, Late
  <2> QED BY <2>4, <2>6, <2>7, nativeKeeps
<1>6. CASE /\ mem.mtu # None /\ mem.id # None /\ os.tun.id = mem.id /\ ~Ours(mem.mtu, os.tun.mtu)
           /\ Skip(Goto("forget-mtu"))
  <2>1. os.tun.mtu \notin PortaMtu \/ lost'  BY <1>2, <1>6, Parts
  <2>2. Rest(Goto("forget-mtu"), os, journal, mem, lost')  BY <1>2, <1>3, <2>1 DEF Rest, Noted, Covered, Bound, Undone, Late
  <2> QED BY <1>6, <2>2, SkipKeeps
<1>7. CASE c.pc = "forget-mtu" /\ persist([mem EXCEPT !.mtu = None], Run("down"))
  <2> DEFINE new == [journal EXCEPT !.mtu = None]
  <2>1. /\ new \in Journals /\ new.mtu = None /\ new.endpoint = journal.endpoint /\ new.id = journal.id /\ new.index = journal.index
        /\ new.dhcp = journal.dhcp /\ new.addresses = journal.addresses /\ new.routes = journal.routes /\ new.dns = journal.dns
    BY <1>2, MtuChanged
  <2>2. persist(new, Run("down"))  BY <1>2, <1>7
  <2> HIDE DEF new
  <2>3. os.tun.mtu \notin PortaMtu \/ lost'  BY <1>7 DEF WindowsInv, Rest, Undone, LostStep
  <2>4. Consistent(os, new, lost')
    <3>1. /\ os.tun.addresses \subseteq new.addresses /\ (~os.tun.dhcp /\ os.tun.id # None => new.dhcp) /\ lost' \in BOOLEAN
          /\ new.dns # None /\ ~lost' => new.dns.original \notin PortaDns
          /\ os.tun.dns \in PortaDns /\ ~lost' => new.dns # None /\ Ours(new.dns, os.tun.dns)
          /\ new.addresses # {} \/ new.dns # None => new.id # None
      BY <1>2, <2>1, Parts
    <3> QED BY <1>2, <2>1, <2>3, <3>1, Rewritten
  <2>5. Rest(Run("down"), os, new, new, lost')  BY <1>1, <1>2, <2>1, RunRests
  <2> QED BY <2>2, <2>4, <2>5, persistKeeps
<1> QED BY <1>4, <1>5, <1>6, <1>7, Zenon DEF restore_mtu

LEMMA Forgotten ==
  ASSUME NEW o, NEW j, NEW l, Consistent(o, j, l), j.routes = {}, o.guard = None, o.tun.addresses = {},
         o.tun.id = None \/ o.tun.dhcp, o.tun.dns \notin PortaDns \/ l, o.tun.mtu \notin PortaMtu \/ l
  PROVE  Consistent(o, Empty, l)
<1>1. Owned(o, Empty)  BY EmptyIsTyped DEF Consistent, Owned
<1>2. Recorded(Empty.dns, o.tun.dns, PortaDns, o, Empty, l) /\ Recorded(Empty.mtu, o.tun.mtu, PortaMtu, o, Empty, l)
  BY EmptyIsTyped DEF Recorded
<1>3. o.routes = {} /\ validate_state(Empty)  BY DEF Consistent, Owned, validate_state
<1> QED BY <1>1, <1>2, <1>3, EmptyIsTyped DEF Consistent

LEMMA remove_guardStep == ASSUME WindowsInv, LostStep, remove_guard PROVE WindowsInv'
<1>1. c.pc \in {"unguard", "remove"}  BY DEF remove_guard
<1>2. Shape(c) /\ Consistent(os, journal, lost') /\ os \in Systems /\ journal \in Journals /\ c.op = "down"
  BY <1>1, ManagerFacts DEF Shape
<1>3. Undone(c, os, journal, lost')  BY DEF WindowsInv, Rest, Undone, LostStep
<1>4. /\ journal.routes = {} /\ os.tun.addresses = {} /\ (os.tun.id = None \/ os.tun.dhcp)
      /\ (os.tun.dns \notin PortaDns \/ lost') /\ (os.tun.mtu \notin PortaMtu \/ lost') /\ os.routes = {}
  BY <1>1, <1>2, <1>3 DEF Undone, Consistent, Owned
<1>5. CASE c.pc = "unguard" /\ Transaction(None, Goto("remove"))
  <2> DEFINE new == [os EXCEPT !.guard = None]
  <2>1. native(new, Goto("remove"))  BY <1>5 DEF Transaction
  <2>2. Consistent(new, journal, lost')  BY <1>2, <1>4, GuardChanged
  <2>3. new.tun = os.tun /\ new.guard = None  BY <1>2 DEF Systems
  <2> HIDE DEF new
  <2>4. Shape(Goto("remove")) /\ Goto("remove").pc = "remove" /\ Goto("remove").script = "none" /\ Goto("remove").step = "none"
    BY <1>1, <1>2, GotoShaped DEF Places
  <2>5. Rest(Goto("remove"), new, journal, mem, lost')
    BY <1>4, <2>3, <2>4 DEF Rest, Noted, Covered, Bound, Undone, Late
  <2> QED BY <2>1, <2>2, <2>5, nativeKeeps
<1>6. CASE c.pc = "remove" /\ journal' = Empty /\ mem' = Empty /\ c' = Goto("downed") /\ UNCHANGED os
  <2>1. os.guard = None  BY <1>3, <1>6 DEF Undone
  <2>2. Consistent(os, Empty, lost')  BY <1>2, <1>4, <2>1, Forgotten
  <2>3. Shape(Goto("downed")) /\ Goto("downed").pc = "downed" /\ Goto("downed").script = "none" /\ Goto("downed").step = "none"
    BY <1>1, <1>2, GotoShaped DEF Places
  <2>4. Rest(Goto("downed"), os, Empty, Empty, lost')  BY <2>3 DEF Rest, Noted, Covered, Bound, Undone, Late
  <2> QED BY <1>6, <2>2, <2>4 DEF WindowsInv
<1>7. CASE Exit(os) /\ UNCHANGED journal  BY <1>7, StopKeeps
<1> QED BY <1>5, <1>6, <1>7, Zenon DEF remove_guard

----------------------------------------------------------------------------
(* run: the process goes on, and neither the system nor the journal changes. *)
LEMMA WindowsMoves ==
  ASSUME WindowsInv, LostStep, UNCHANGED <<os, journal>>, c' \in Processes, c'.script = "none", c'.step = "none", ~c'.dead,
         c'.pc \in {"loop", "dial", "acquire", "device"},
         c'.pc = "acquire" => c'.op # "none",
         c'.op \in {"prepare", "up"} \/ c'.pc \in {"dial", "device"} => c'.dial \in Endpoints,
         c'.op = "up" \/ c'.pc = "device" => c'.lease \in Leases
  PROVE  WindowsInv'
<1>1. Shape(c')  BY MovedShaped
<1>2. Rest(c', os, journal, mem', lost')  BY <1>1 DEF Rest, Noted, Covered, Bound, Undone, Late
<1> QED BY <1>2, StillConsistent DEF WindowsInv

LEMMA ClientSteps ==
  ASSUME WindowsInv, LostStep,
         Open \/ Disconnect \/ Retry \/ Cancel \/ prepared \/ (\E e \in Endpoints : Dial(e)) \/ (\E lease \in Leases : Connects(lease))
  PROVE  WindowsInv'
<1>0. Places = {"off", "loop", "dial", "acquire", "next", "guard", "script", "prepared", "device", "configure", "mtu", "set-mtu",
                "keep-mtu", "connected", "restore", "forget-mtu", "unguard", "remove", "downed"} /\ Calls = {"none", "prepare", "up", "down"}
  BY DEF Places, Calls
<1>1. Shape(c) /\ validate_state(journal) /\ journal \in Journals  BY DEF WindowsInv, Rest, Consistent
<1>2. CASE Open
  <2>1. PICK known \in KnownEndpoints : c' = [Off EXCEPT !.pc = "loop", !.active = needs_cleanup(journal), !.endpoints = known]
    BY <1>2 DEF Open
  <2>2. known \subseteq Endpoints
    <3>1. needs_cleanup(journal) => journal.endpoint \in Endpoints
      BY <1>1, EndpointNamed DEF needs_cleanup, Journals
    <3> QED BY <2>1, <3>1 DEF KnownEndpoints
  <2>3. needs_cleanup(journal) \in BOOLEAN  BY DEF needs_cleanup
  <2>4. Off \in Processes  BY OffRests DEF Rest, Shape
  <2> DEFINE b == needs_cleanup(journal)
  <2>5. c' = [Off EXCEPT !.pc = "loop", !.active = b, !.endpoints = known] /\ b \in BOOLEAN  BY <2>1, <2>3
  <2> HIDE DEF b
  <2>6. c' \in Processes /\ c'.script = "none" /\ c'.step = "none" /\ ~c'.dead /\ c'.pc = "loop" /\ c'.op = "none"
    BY <1>0, <2>2, <2>4, <2>5, OffFields DEF Processes
  <2> QED BY <1>2, <2>6, WindowsMoves DEF Open
<1>3. CASE Disconnect
  <2>1. Off \in Processes  BY OffRests DEF Rest, Shape
  <2>2. c' \in Processes /\ c'.script = "none" /\ c'.step = "none" /\ ~c'.dead /\ c'.pc = "acquire" /\ c'.op = "down"
    BY <1>0, <1>3, <2>1, OffFields DEF Disconnect, Processes
  <2> QED BY <1>3, <2>2, WindowsMoves DEF Disconnect
<1>4. CASE Retry
  <2>1. c.script = "none" /\ c.step = "none" /\ ~c.dead /\ c \in Processes  BY <1>1, <1>4, Alone DEF Retry
  <2>2. c' = [c EXCEPT !.pc = "loop", !.op = "none", !.lease = NoLease]  BY <1>4 DEF Retry
  <2>3. c' \in Processes /\ c'.script = "none" /\ c'.step = "none" /\ c'.dead = c.dead /\ c'.pc = "loop" /\ c'.op = "none"
    BY <1>0, <2>1, <2>2 DEF Processes
  <2> QED BY <1>4, <2>1, <2>3, WindowsMoves DEF Retry
<1>5. CASE Cancel
  <2>1. c.script = "none" /\ c.step = "none" /\ ~c.dead /\ c \in Processes  BY <1>1, <1>5, Alone DEF Cancel
  <2>2. c' = [c EXCEPT !.pc = "acquire", !.op = "down"]  BY <1>5 DEF Cancel
  <2>3. c' \in Processes /\ c'.script = "none" /\ c'.step = "none" /\ c'.dead = c.dead /\ c'.pc = "acquire" /\ c'.op = "down"
    BY <1>0, <2>1, <2>2 DEF Processes
  <2> QED BY <1>5, <2>1, <2>3, WindowsMoves DEF Cancel
<1>6. CASE prepared
  <2>1. c.script = "none" /\ c.step = "none" /\ ~c.dead /\ c \in Processes  BY <1>1, <1>6, Alone DEF prepared
  <2> DEFINE pc == IF c.lease = NoLease THEN "dial" ELSE "device"
  <2>2. c' = [c EXCEPT !.pc = pc, !.active = TRUE, !.op = "none"] /\ pc \in {"dial", "device"} /\ pc \in Places
        /\ (pc = "device" => c.lease # NoLease)
    BY <1>0, <1>6 DEF prepared
  <2> HIDE DEF pc
  <2>3. c' \in Processes /\ c'.script = "none" /\ c'.step = "none" /\ c'.dead = c.dead /\ c'.pc = pc /\ c'.op = "none"
        /\ c'.dial = c.dial /\ c'.lease = c.lease
    BY <1>0, <2>1, <2>2 DEF Processes
  <2>4. c.dial \in Endpoints  BY <1>1, <1>6 DEF Shape, prepared
  <2>5. pc = "device" => c.lease \in Leases  BY <2>1, <2>2 DEF Processes
  <2> QED BY <1>6, <2>1, <2>2, <2>3, <2>4, <2>5, WindowsMoves DEF prepared
<1>7. CASE \E e \in Endpoints : Dial(e)
  <2>1. PICK e \in Endpoints : Dial(e)  BY <1>7
  <2>2. c.script = "none" /\ c.step = "none" /\ ~c.dead /\ c \in Processes  BY <1>1, <2>1, Alone DEF Dial
  <2> DEFINE pc == IF c.active THEN "acquire" ELSE "dial"
  <2>3. c' = [c EXCEPT !.pc = pc, !.op = "prepare", !.dial = e] /\ pc \in {"dial", "acquire"} /\ pc \in Places  BY <1>0, <2>1 DEF Dial
  <2> HIDE DEF pc
  <2>4. c' \in Processes /\ c'.script = "none" /\ c'.step = "none" /\ c'.dead = c.dead /\ c'.pc = pc /\ c'.op = "prepare" /\ c'.dial = e
    BY <1>0, <2>2, <2>3 DEF Processes
  <2> QED BY <2>1, <2>2, <2>3, <2>4, WindowsMoves DEF Dial
<1>8. CASE \E lease \in Leases : Connects(lease)
  <2>1. PICK lease \in Leases : Connects(lease)  BY <1>8
  <2>2. c.script = "none" /\ c.step = "none" /\ ~c.dead /\ c \in Processes  BY <1>1, <2>1, Alone DEF Connects
  <2> DEFINE pc == IF c.active THEN "device" ELSE "acquire"
  <2>3. c' = [c EXCEPT !.pc = pc, !.op = "prepare", !.lease = lease] /\ pc \in {"device", "acquire"} /\ pc \in Places
    BY <1>0, <2>1 DEF Connects
  <2> HIDE DEF pc
  <2>4. c' \in Processes /\ c'.script = "none" /\ c'.step = "none" /\ c'.dead = c.dead /\ c'.pc = pc /\ c'.op = "prepare"
        /\ c'.dial = c.dial /\ c'.lease = lease
    BY <1>0, <2>2, <2>3 DEF Processes
  <2>5. c.dial \in Endpoints  BY <1>1, <2>1 DEF Shape, Connects
  <2> QED BY <2>1, <2>2, <2>3, <2>4, <2>5, WindowsMoves DEF Connects
<1> QED BY <1>2, <1>3, <1>4, <1>5, <1>6, <1>7, <1>8

LEMMA AdapterMade ==
  ASSUME NEW o, NEW j, NEW l, Consistent(o, j, l), o.tun = NoTun, NEW id \in Adapters \ {j.id}, NEW i \in Indexes
  PROVE  Consistent([o EXCEPT !.tun = NewTun(id, i)], j, l)
<1> DEFINE t == NewTun(id, i)
           n == [o EXCEPT !.tun = t]
<1>1. t \in Tuns /\ t.id = id /\ t.index = i /\ t.addresses = {} /\ t.dns = "own" /\ t.mtu = "own" /\ t.dhcp = TRUE
  BY DEF NewTun, NoTun, Tuns
<1> HIDE DEF t
<1>2. o \in Systems  BY DEF Consistent
<1>3. n \in Systems /\ n.tun = t /\ n.guard = o.guard /\ n.routes = o.routes  BY <1>1, <1>2 DEF Systems
<1> HIDE DEF n
<1>4. id # None /\ i # None /\ "own" \notin PortaDns /\ "own" \notin PortaMtu  BY WindowsAssumption
<1>5. \A r \in o.routes : r.on \in Physical /\ r.index = r.on
  BY NoTunIsTyped DEF Consistent, Owned, Present, IndexOf
<1>6. Owned(n, j)  BY <1>3, <1>5 DEF Consistent, Owned, Present, IndexOf
<1>7. Recorded(j.dns, n.tun.dns, PortaDns, n, j, l) /\ Recorded(j.mtu, n.tun.mtu, PortaMtu, n, j, l)
  BY <1>1, <1>3, <1>4 DEF Consistent, Recorded
<1>8. Consistent(n, j, l)  BY <1>1, <1>3, <1>4, <1>6, <1>7 DEF Consistent
<1> QED BY <1>8 DEF n, t

LEMMA DeviceStep == ASSUME WindowsInv, LostStep, Device PROVE WindowsInv'
<1>1. Shape(c) /\ c.pc = "device" /\ journal' = journal /\ mem' = mem  BY DEF WindowsInv, Rest, Device
<1>2. c.script = "none" /\ c.step = "none" /\ ~c.dead /\ c \in Processes /\ c.dial \in Endpoints /\ c.lease \in Leases
  BY <1>1, Alone DEF Shape
<1>3. c' = [c EXCEPT !.pc = "acquire", !.op = "up", !.device = TRUE]  BY DEF Device
<1>4. c' \in Processes /\ c'.script = "none" /\ c'.step = "none" /\ c'.dead = c.dead /\ c'.pc = "acquire" /\ c'.op = "up"
      /\ c'.dial = c.dial /\ c'.lease = c.lease
  <2>1. "acquire" \in Places /\ "up" \in Calls  BY DEF Places, Calls
  <2> QED BY <1>2, <1>3, <2>1 DEF Processes
<1>5. Shape(c')  BY <1>2, <1>4, MovedShaped
<1>6. Rest(c', os', journal, mem, lost')  BY <1>2, <1>4, <1>5 DEF Rest, Noted, Covered, Bound, Undone, Late
<1>7. Consistent(os', journal, lost')
  <2>1. CASE UNCHANGED os  BY <2>1, StillConsistent
  <2>2. CASE os.tun = NoTun /\ \E id \in Adapters \ {journal.id}, i \in Indexes : os' = [os EXCEPT !.tun = NewTun(id, i)]
    BY <2>2, StillConsistent, AdapterMade
  <2> QED BY <2>1, <2>2, Zenon DEF Device
<1> QED BY <1>1, <1>6, <1>7 DEF WindowsInv

LEMMA DieStep == ASSUME WindowsInv, LostStep, Die PROVE WindowsInv'
<1>1. CASE Exit(os) /\ UNCHANGED journal  BY <1>1, StopKeeps
<1>2. CASE c.script # "none" /\ c' = [c EXCEPT !.dead = TRUE, !.pc = "script"] /\ mem' = Empty /\ os' = Closed(os) /\ UNCHANGED journal
  <2>1. Shape(c) /\ c.pc = "script" /\ journal.endpoint # None /\ Consistent(os, journal, lost')  BY <1>2, HelperFacts
  <2>2. Consistent(os', journal, lost') /\ os'.guard = os.guard  BY <1>2, <2>1, ClosedKeeps
  <2>3. /\ c' \in Processes /\ c'.pc = "script" /\ c'.script = c.script /\ c'.step = c.step /\ c'.op = c.op /\ c'.dial = c.dial
        /\ c'.lease = c.lease /\ c'.dead = TRUE
    BY <1>2, <2>1 DEF Shape, Processes
  <2>4. Shape(c')  BY <1>2, <2>1, <2>3 DEF Shape
  <2>5. os' = os \/ os'.tun = NoTun
    BY <1>2, <2>1 DEF Closed, WithoutTun, Consistent, Systems
  <2>6. Noted(c', os', journal, mem')  BY <1>2, <2>1, <2>3 DEF Noted
  <2>7. Covered(c', os', journal)  BY <2>2, <2>3 DEF WindowsInv, Rest, Covered
  <2>8. Bound(c', os', journal)
    <3>1. CASE os' = os  BY <2>1, <2>3, <3>1 DEF WindowsInv, Rest, Bound
    <3>2. CASE os'.tun = NoTun  BY <2>1, <2>3, <3>2, NoTunIsTyped DEF WindowsInv, Rest, Bound
    <3> QED BY <2>5, <3>1, <3>2
  <2>9. Undone(c', os', journal, lost')
    <3>1. CASE os' = os  BY <2>1, <2>3, <3>1 DEF WindowsInv, Rest, Undone, LostStep
    <3>2. CASE os'.tun = NoTun
      <4>1. "own" \notin PortaDns /\ "own" \notin PortaMtu  BY WindowsAssumption
      <4> QED BY <2>1, <2>3, <3>2, <4>1, NoTunIsTyped DEF WindowsInv, Rest, Undone
    <3> QED BY <2>5, <3>1, <3>2
  <2> QED BY <1>2, <2>2, <2>4, <2>6, <2>7, <2>8, <2>9 DEF WindowsInv, Rest
<1> QED BY <1>1, <1>2, Zenon DEF Die

LEMMA RebootStep == ASSUME WindowsInv, LostStep, Reboot PROVE WindowsInv'
<1> DEFINE o == Closed(os)
           p == [o EXCEPT !.routes = {}]
<1>1. Consistent(o, journal, lost')  BY StillConsistent, ClosedKeeps
<1> HIDE DEF o
<1>2. PICK i \in Indexes : os' = [o EXCEPT !.routes = {}, !.tun = [o.tun EXCEPT !.index = IF o.tun.index = None THEN None ELSE i]]
  BY DEF Reboot, o
<1> DEFINE index == IF o.tun.index = None THEN None ELSE i
           t == [o.tun EXCEPT !.index = index]
<1>3. o \in Systems /\ o.tun \in Tuns  BY <1>1, Parts
<1>4. index \in Indexes \cup {None} /\ (index = None <=> o.tun.index = None)  BY WindowsAssumption
<1>5. os' = [o EXCEPT !.routes = {}, !.tun = t]  BY <1>2
<1> HIDE DEF index
<1>6. /\ t \in Tuns /\ t.id = o.tun.id /\ t.index = index /\ t.addresses = o.tun.addresses /\ t.dhcp = o.tun.dhcp
      /\ t.dns = o.tun.dns /\ t.mtu = o.tun.mtu
  BY <1>3, <1>4 DEF Tuns
<1>7. o.tun = NoTun => t = NoTun
  <2>1. o.tun = NoTun => index = o.tun.index  BY <1>4, NoTunIsTyped
  <2> QED BY <1>3, <2>1 DEF Tuns
<1> HIDE DEF t
<1>8. os' \in Systems /\ os'.tun = t /\ os'.guard = o.guard /\ os'.routes = {}  BY <1>3, <1>5, <1>6 DEF Systems
<1>9. Owned(os', journal)  BY <1>1, <1>8 DEF Consistent, Owned
<1>10. Recorded(journal.dns, t.dns, PortaDns, os', journal, lost') /\ Recorded(journal.mtu, t.mtu, PortaMtu, os', journal, lost')
  BY <1>1, <1>6, <1>8 DEF Consistent, Recorded
<1>11. Consistent(os', journal, lost')  BY <1>1, <1>4, <1>6, <1>7, <1>8, <1>9, <1>10, NoTunIsTyped DEF Consistent
<1> QED BY <1>11, OffRests DEF Reboot, WindowsInv

LEMMA PathStep == ASSUME WindowsInv, LostStep, PathChanges PROVE WindowsInv'
<1>1. PICK p \in Physical \ {os.phys} :
        os' \in {[os EXCEPT !.phys = p], [os EXCEPT !.phys = p, !.routes = {r \in os.routes : r.on # os.phys}]}
  BY DEF PathChanges
<1>2. os \in Systems /\ Consistent(os, journal, lost')  BY StillConsistent, Parts
<1>3. os' \in Systems /\ os'.tun = os.tun /\ os'.guard = os.guard /\ os'.routes \subseteq os.routes
  <2>1. CASE os' = [os EXCEPT !.phys = p]  BY <1>2, <2>1 DEF Systems
  <2>2. CASE os' = [os EXCEPT !.phys = p, !.routes = {r \in os.routes : r.on # os.phys}]  BY <1>2, <2>2 DEF Systems
  <2> QED BY <1>1, <2>1, <2>2
<1>4. Owned(os', journal)  BY <1>2, <1>3 DEF Consistent, Owned, Present, IndexOf
<1>5. Consistent(os', journal, lost')  BY <1>2, <1>3, <1>4 DEF Consistent, Recorded
<1>6. Rest(c, os', journal, mem, lost')
  BY <1>3 DEF WindowsInv, Rest, Noted, Covered, Guard, Bound, Undone, LostStep
<1> QED BY <1>5, <1>6 DEF PathChanges, WindowsInv

LEMMA AdminStep == ASSUME WindowsInv, LostStep, AdminSets PROVE WindowsInv'
<1>1. Consistent(os, journal, lost') /\ os \in Systems /\ os.tun \in Tuns /\ os.tun.id # None /\ c.pc \in {"off", "connected"}
  BY StillConsistent, Parts DEF AdminSets
<1> DEFINE d == [os.tun EXCEPT !.dns = "admin"]
           m == [os.tun EXCEPT !.mtu = "admin"]
<1>2. "admin" \notin PortaDns /\ "admin" \notin PortaMtu  BY WindowsAssumption
<1>3. \E t \in {d, m} : os' = [os EXCEPT !.tun = t]  BY DEF AdminSets
<1>4. ASSUME NEW t \in {d, m}
      PROVE  /\ t \in Tuns /\ t.id = os.tun.id /\ t.index = os.tun.index /\ t.addresses = os.tun.addresses /\ t.dhcp = os.tun.dhcp
             /\ t.dns \in {os.tun.dns, "admin"} /\ t.mtu \in {os.tun.mtu, "admin"}
  BY <1>1 DEF Tuns
<1> HIDE DEF d, m
<1>5. PICK t \in {d, m} : os' = [os EXCEPT !.tun = t]  BY <1>3
<1>6. /\ t \in Tuns /\ t.id = os.tun.id /\ t.index = os.tun.index /\ t.addresses = os.tun.addresses /\ t.dhcp = os.tun.dhcp
      /\ t.dns \in {os.tun.dns, "admin"} /\ t.mtu \in {os.tun.mtu, "admin"}
  BY <1>4
<1>7. Consistent(os', journal, lost')
  <2>1. /\ t.addresses # {} \/ ~t.dhcp => journal.id = t.id
        /\ ~t.dhcp => journal.dhcp
        /\ t.addresses \subseteq journal.addresses /\ (t.addresses # {} => os.guard # None)
        /\ t.dns \in PortaDns /\ ~lost' => journal.id = t.id /\ journal.dns # None /\ Ours(journal.dns, t.dns) /\ os.guard # None
        /\ t.mtu \in PortaMtu /\ ~lost' => journal.id = t.id /\ journal.mtu # None /\ Ours(journal.mtu, t.mtu)
    BY <1>1, <1>2, <1>6, Parts
  <2> QED BY <1>1, <1>5, <1>6, <2>1, TunChanged
<1>8. os'.tun = t /\ os'.guard = os.guard  BY <1>1, <1>5 DEF Systems
<1>9. Shape(c) /\ c.script = "none" /\ c.step = "none"  BY <1>1, Alone DEF WindowsInv, Rest
<1>10. Rest(c, os', journal, mem, lost')
  BY <1>1, <1>6, <1>8, <1>9 DEF WindowsInv, Rest, Noted, Covered, Guard, Bound, Undone, Late
<1> QED BY <1>7, <1>10 DEF AdminSets, WindowsInv

LEMMA InitiallyConsistent ==
  ASSUME NEW t, NEW kept \in BOOLEAN, NEW p \in Physical, NEW l \in BOOLEAN, t = NoTun \/ \E id \in Adapters, i \in Indexes : t = NewTun(id, i)
  PROVE  Consistent([tun |-> t, kept |-> kept, phys |-> p, routes |-> {}, guard |-> None], Empty, l)
<1> DEFINE o == [tun |-> t, kept |-> kept, phys |-> p, routes |-> {}, guard |-> None]
<1>1. /\ t \in Tuns /\ t.addresses = {} /\ t.dns = "own" /\ t.mtu = "own"
      /\ (t.id = None => t = NoTun) /\ (t.id # None => t.index # None /\ t.dhcp)
  <2>1. CASE t = NoTun  BY <2>1, NoTunIsTyped
  <2>2. CASE t # NoTun
    <3>1. PICK id \in Adapters, i \in Indexes : t = NewTun(id, i)  BY <2>2
    <3>2. t \in Tuns /\ t.id = id /\ t.index = i /\ t.addresses = {} /\ t.dns = "own" /\ t.mtu = "own" /\ t.dhcp = TRUE
      BY <3>1 DEF NewTun, NoTun, Tuns
    <3> QED BY <3>2, WindowsAssumption
  <2> QED BY <2>1, <2>2
<1>2. o \in Systems /\ o.tun = t /\ o.routes = {} /\ o.guard = None  BY <1>1 DEF Systems
<1> HIDE DEF o
<1>3. "own" \notin PortaDns /\ "own" \notin PortaMtu  BY WindowsAssumption
<1>4. Owned(o, Empty) /\ validate_state(Empty)  BY <1>2, EmptyIsTyped DEF Owned, validate_state
<1>5. Recorded(Empty.dns, o.tun.dns, PortaDns, o, Empty, l) /\ Recorded(Empty.mtu, o.tun.mtu, PortaMtu, o, Empty, l)
  BY <1>1, <1>2, <1>3, EmptyIsTyped DEF Recorded
<1>6. Consistent(o, Empty, l)  BY <1>1, <1>2, <1>3, <1>4, <1>5, EmptyIsTyped DEF Consistent
<1> QED BY <1>6 DEF o

LEMMA WindowsInitially == ASSUME WindowsInit PROVE WindowsInv
<1>1. journal = Empty /\ c = Off  BY DEF WindowsInit
<1>2. lost = FALSE  BY Zenon DEF WindowsInit
<1>3. lost \in BOOLEAN  BY <1>2, Zenon
<1>4. PICK t \in FreshTuns, p \in Physical :
        os = [tun |-> t, kept |-> t # NoTun, phys |-> p, routes |-> {}, guard |-> None]
  BY DEF WindowsInit
<1>5. t = NoTun \/ \E id \in Adapters, i \in Indexes : t = NewTun(id, i)  BY DEF FreshTuns
<1> DEFINE kept == t # NoTun
<1>6. kept \in BOOLEAN /\ os = [tun |-> t, kept |-> kept, phys |-> p, routes |-> {}, guard |-> None]  BY <1>4
<1> HIDE DEF kept
<1>7. Consistent(os, Empty, lost)  BY <1>3, <1>5, <1>6, InitiallyConsistent
<1> QED BY <1>1, <1>7, OffRests DEF WindowsInv

LEMMA WindowsSteps == ASSUME WindowsInv, [WindowsNext]_windows_vars PROVE WindowsInv'
<1>1. CASE UNCHANGED windows_vars
  BY <1>1 DEF windows_vars, WindowsInv
<1>2. CASE WindowsNext
  <2>1. LostStep
    <3>1. lost \in BOOLEAN  BY DEF WindowsInv, Consistent
    <3>2. lost' = (lost \/ Overtakes(journal.dns, journal'.dns, os.tun.dns) \/ Overtakes(journal.mtu, journal'.mtu, os.tun.mtu))
      BY <1>2 DEF WindowsNext
    <3> QED BY <3>1, <3>2, Zenon DEF LostStep
  <2>2. CASE Retire \/ Escape \/ Escaped \/ Identity \/ Address \/ Mtu \/ DnsRoute \/ Halves \/ Stale
    BY <2>1, <2>2, RetireStep, EscapeStep, EscapedStep, IdentityStep, AddressStep, MtuStep, DnsRouteStep, HalvesStep, StaleStep
  <2>3. CASE OldAddresses \/ DownRoutes \/ RestoreDns \/ ForgetDns \/ DownAddresses \/ Dhcp \/ Done
    BY <2>1, <2>3, OldAddressesStep, DownRoutesStep, RestoreDnsStep, ForgetDnsStep, DownAddressesStep, DhcpStep, DoneStep
  <2>4. CASE Dns  BY <1>2, <2>1, <2>4, DnsStep
  <2>5. CASE apply_mtu  BY <1>2, <2>1, <2>5, apply_mtuStep
  <2>6. CASE acquire \/ next_state \/ replace_guard \/ configure \/ restore_mtu \/ remove_guard
    BY <2>1, <2>6, acquireStep, next_stateStep, replace_guardStep, configureStep, restore_mtuStep, remove_guardStep
  <2>7. CASE Open \/ Disconnect \/ Retry \/ Cancel \/ prepared \/ (\E e \in Endpoints : Dial(e)) \/ (\E lease \in Leases : Connects(lease))
    BY <2>1, <2>7, ClientSteps
  <2>8. CASE Device \/ Die \/ Reboot \/ PathChanges \/ AdminSets
    BY <2>1, <2>8, DeviceStep, DieStep, RebootStep, PathStep, AdminStep
  <2>9. CASE downed  BY <2>1, <2>9, StopKeeps DEF downed
  <2> QED BY <1>2, <2>2, <2>3, <2>4, <2>5, <2>6, <2>7, <2>8, <2>9, Zenon DEF WindowsNext, Helper, Manager, Client, Event
<1> QED BY <1>1, <1>2

LEMMA InvIsSafe == ASSUME WindowsInv PROVE WindowsIsSafe
<1>1. /\ Consistent(os, journal, lost) /\ validate_state(journal) /\ os \in Systems  BY DEF WindowsInv, Consistent
<1>2. WindowsJournalRestores
  <2>1. os.guard # None => journal # Empty  BY <1>1, EndpointNamed DEF Consistent
  <2>2. \A r \in os.routes : \E owned \in journal.routes : owned.kind = r.kind /\ owned.prefix = r.prefix /\ owned.on = r.on
    BY <1>1 DEF Consistent, Owned
  <2>3. os.tun.id # None =>
          /\ (os.tun.addresses # {} \/ ~os.tun.dhcp) => journal.id = os.tun.id
          /\ os.tun.addresses \subseteq journal.addresses
          /\ ~os.tun.dhcp => journal.dhcp
    BY <1>1, Parts
  <2>4. (os.tun.dns \in PortaDns /\ ~lost) => Claims(journal.dns, os.tun.dns, PortaDns)  BY <1>1, Parts DEF Claims
  <2>5. (os.tun.mtu \in PortaMtu /\ ~lost) => Claims(journal.mtu, os.tun.mtu, PortaMtu)  BY <1>1, Parts DEF Claims
  <2> QED BY <1>1, <2>1, <2>2, <2>3, <2>4, <2>5, Zenon DEF WindowsJournalRestores
<1>3. WindowsGuardCovers
  <2>1. (os.routes # {} \/ os.tun.addresses # {} \/ (os.tun.dns \in PortaDns /\ ~lost)) => os.guard # None
    BY <1>1 DEF Consistent
  <2>2. ASSUME c.pc = "connected"
        PROVE  os.guard = [endpoint |-> c.dial, tun |-> os.tun.id] /\ journal.endpoint = c.dial /\ os.tun.addresses = {c.lease.address}
    <3>1. /\ os.guard = Guard(c, os) /\ journal.endpoint = c.dial /\ os.tun.addresses = {c.lease.address}
      BY <2>2 DEF WindowsInv, Rest, Covered
    <3>2. c.op # "prepare"  BY <2>2 DEF WindowsInv, Rest, Shape
    <3> QED BY <3>1, <3>2 DEF Guard
  <2> QED BY <2>1, <2>2 DEF WindowsGuardCovers
<1>4. os.guard # None => os.guard \in Confining
  BY <1>1, GuardsConfine DEF Systems
<1> QED BY <1>2, <1>3, <1>4 DEF WindowsIsSafe

(* The journal names every change in force, and a guard that confines       *)
(* stands while one is: network.rs, its helper network.ps1 and the process  *)
(* around them may fail, be killed or be restarted at any step.             *)
THEOREM WindowsIsAlwaysSafe == WindowsSpec => []WindowsIsSafe
<1>1. WindowsInit => WindowsInv  BY WindowsInitially
<1>2. WindowsInv /\ [WindowsNext]_windows_vars => WindowsInv'  BY WindowsSteps
<1>3. WindowsInv => WindowsIsSafe  BY InvIsSafe
<1> QED BY <1>1, <1>2, <1>3, PTL DEF WindowsSpec
----------------------------------------------------------------------------
(* Where a task is, what the window shows, and the records of both. *)
Phases == {"idle", "start", "loop", "dial", "up", "session", "wait", "stop", "done", "tail"}
Statuses ==
  {"Action required", "Network recovery available", "Disconnected", "Ready", "Connecting", "Disconnecting", "Connected",
   "Reconnecting", "Configuring network", "Recovering network", "Restoring network", "Connection error",
   "Network recovery failed", "Connection action failed"}
DeskState ==
  [selected : Profiles \cup {Nothing}, active : Profiles \cup {Nothing}, cancellation : Tasks \cup {Nothing},
   running : BOOLEAN, connected : BOOLEAN, disconnecting : BOOLEAN, restoring : BOOLEAN, quitting : BOOLEAN,
   recovery : BOOLEAN, startup_blocked : BOOLEAN, status : Statuses, info : BOOLEAN, activity : Nat]
TaskState == [at : Phases, restores : BOOLEAN, cancelled : BOOLEAN, exit : BOOLEAN, ok : BOOLEAN]

(* The types of the variables. *)
DesktopTypeOK ==
  /\ life \in {"on", "quit", "killed"}
  /\ desktop \in DeskState
  /\ profiles \in SUBSET Profiles
  /\ captured \in BOOLEAN
  /\ log \in [lines : Nat, rotated : BOOLEAN]
  /\ ui \in [at : {"free", "cancel", "connect", "disconnect", "restore", "exit"}, token : Tasks \cup {Nothing}]
  /\ ui.at = "cancel" => ui.token \in Tasks
  /\ task \in [Tasks -> TaskState]
  /\ overtaken \in BOOLEAN

(* An application that could not start has no task; a decision to exit was  *)
(* taken without a connection and with the network given back.              *)
ExitsClean ==
  /\ desktop.startup_blocked => ~desktop.running /\ ~desktop.restoring
  /\ ui.at = "exit" => ~desktop.running /\ (captured => desktop.startup_blocked)
  /\ \A t \in Tasks : task[t].at = "tail" /\ task[t].exit /\ ~overtaken => ~captured /\ ~desktop.running

(* The inductive invariant. *)
DesktopInv == DesktopTypeOK /\ DesktopIsSound /\ ExitsClean

(* Operators: the bounded counter, a new state, a change of one field, and  *)
(* what telling the user leaves of the state and of the log.                *)
LEMMA AtMostNat == ASSUME NEW a \in Nat, NEW b \in Nat PROVE AtMost(a, b) \in Nat /\ AtMost(a, b) <= b
BY DEF AtMost

(* Controller::new makes a state, with a list of lines within its limit. *)
LEMMA NewIsTyped ==
  ASSUME DesktopAssumption, profiles \in SUBSET Profiles, log \in [lines : Nat, rotated : BOOLEAN], captured \in BOOLEAN,
         NEW blocked \in BOOLEAN, NEW first \in Firsts(profiles)
  PROVE NewState(blocked, first) \in DeskState /\ NewState(blocked, first).activity <= MaxLines
<1> DEFINE n == AtMost(log.lines, MaxLines)
           m == n + (IF (~blocked /\ captured) \/ blocked THEN 1 ELSE 0)
           act == AtMost(m, MaxLines)
<1>1. MaxLines \in Nat /\ log.lines \in Nat  BY DEF DesktopAssumption
<1>2. n \in Nat  BY <1>1, AtMostNat
<1>3. m \in Nat  BY <1>2
<1>4. act \in Nat /\ act <= MaxLines  BY <1>1, <1>3, AtMostNat
<1>5. NewState(blocked, first).activity = act  BY DEF NewState
<1>6. first \in Profiles \cup {Nothing}  BY DEF Firsts
<1> DEFINE rec == ~blocked /\ captured
           st == NewState(blocked, first).status
<1>7. NewState(blocked, first) =
        [selected |-> first, active |-> Nothing, cancellation |-> Nothing, running |-> FALSE, connected |-> FALSE,
         disconnecting |-> FALSE, restoring |-> FALSE, quitting |-> FALSE, recovery |-> rec,
         startup_blocked |-> blocked, status |-> st, info |-> FALSE, activity |-> act]
  BY DEF NewState
<1>8. st \in Statuses /\ rec \in BOOLEAN  BY DEF NewState, Statuses
<1>9. act \in Nat  BY <1>4
<1> HIDE DEF act, rec, st
<1>10. NewState(blocked, first) \in DeskState  BY <1>6, <1>7, <1>8, <1>9 DEF DeskState
<1> QED BY <1>4, <1>5, <1>10

(* The list of lines is one field of the state. *)
LEMMA SetActivity ==
  ASSUME NEW d \in DeskState, NEW k \in Nat
  PROVE [d EXCEPT !.activity = k] \in DeskState /\ [d EXCEPT !.activity = k].activity = k
BY DEF DeskState

(* write_activity, with its rotation, keeps a log of at most MaxLog lines. *)
LEMMA LogIsBounded ==
  ASSUME MaxLog \in Nat \ {0}, log \in [lines : Nat, rotated : BOOLEAN], log.lines <= MaxLog, write_activity
  PROVE log' \in [lines : Nat, rotated : BOOLEAN] /\ log'.lines <= MaxLog
<1> DEFINE open == open_for_append(log)
<1>1. open \in [lines : Nat, rotated : BOOLEAN] /\ open.lines < MaxLog  BY DEF open_for_append
<1>2. CASE log' = [open EXCEPT !.lines = @ + 1]
  <2> HIDE DEF open
  <2>1. open.lines \in Nat /\ open.lines + 1 \in Nat /\ open.lines + 1 <= MaxLog  BY <1>1
  <2>2. log'.lines = open.lines + 1 /\ log' \in [lines : Nat, rotated : BOOLEAN]  BY <1>1, <1>2, <2>1
  <2> QED BY <2>1, <2>2
<1>3. CASE log' = log  BY <1>3
<1>4. CASE log' = [log EXCEPT !.rotated = FALSE]  BY <1>4
<1> QED BY <1>2, <1>3, <1>4 DEF write_activity

(* add_activity and write_activity change nothing but the lines. *)
LEMMA Told ==
  ASSUME DesktopInv, NEW d \in DeskState, d.activity <= MaxLines, Tell(d)
  PROVE /\ desktop' = [d EXCEPT !.activity = desktop'.activity] /\ desktop' \in DeskState
        /\ log' \in [lines : Nat, rotated : BOOLEAN]
        /\ LogsAreBounded'
<1>1. MaxLines \in Nat /\ MaxLog \in Nat \ {0}  BY DesktopAssumption DEF DesktopAssumption
<1>2. d.activity \in Nat  BY DEF DeskState
<1>8. d.activity + 1 \in Nat  BY <1>2
<1> DEFINE k == AtMost(d.activity + 1, MaxLines)
<1>3. k \in Nat /\ k <= MaxLines  BY <1>1, <1>8, AtMostNat
<1>4. desktop' = [d EXCEPT !.activity = k]  BY DEF Tell, add_activity
<1> HIDE DEF k
<1>9. k \in Nat  BY <1>3
<1>5. desktop' \in DeskState /\ desktop'.activity = k  BY <1>9, <1>4, SetActivity
<1>6. log \in [lines : Nat, rotated : BOOLEAN] /\ log.lines <= MaxLog  BY DEF DesktopInv, DesktopTypeOK, DesktopIsSound, LogsAreBounded
<1>7. log' \in [lines : Nat, rotated : BOOLEAN] /\ log'.lines <= MaxLog
  BY <1>1, <1>6, LogIsBounded DEF Tell
<1> QED BY <1>3, <1>4, <1>5, <1>7 DEF LogsAreBounded

(* The invariant holds when the application starts. *)
LEMMA DesktopInitially == DesktopInit => DesktopInv
<1> SUFFICES ASSUME DesktopInit PROVE DesktopInv  OBVIOUS
<1> USE DesktopAssumption
<1>0. PICK blocked \in BOOLEAN, first \in Firsts(profiles) : desktop = NewState(blocked, first)  BY DEF DesktopInit
<1>1. first \in Profiles \cup {Nothing}  BY DEF DesktopInit, Firsts
<1>9. log \in [lines : Nat, rotated : BOOLEAN] /\ log.lines = 0  BY DEF DesktopInit
<1>10. desktop \in DeskState /\ desktop.activity <= MaxLines  BY <1>0, <1>9, NewIsTyped DEF DesktopInit
<1>11. task \in [Tasks -> TaskState]  BY DEF DesktopInit, NoTask, TaskState, Phases
<1>2. DesktopTypeOK  BY <1>9, <1>10, <1>11 DEF DesktopInit, DesktopTypeOK, Free
<1>3. Owners = {}  BY DEF Owners, DesktopInit, NoTask
<1>4. OneOwner  BY <1>0, <1>3 DEF OneOwner, NewState
<1>5. ShowsTheTruth  BY <1>0 DEF ShowsTheTruth, NewState
<1>6. QuitsClean  BY <1>0 DEF QuitsClean, NewState, DesktopInit
<1>7. LogsAreBounded  BY <1>9, <1>10, DesktopAssumption DEF LogsAreBounded, DesktopAssumption
<1>8. ExitsClean  BY <1>0 DEF ExitsClean, NewState, DesktopInit, NoTask, Free
<1> QED BY <1>2, <1>4, <1>5, <1>6, <1>7, <1>8 DEF DesktopInv, DesktopIsSound

(* select_profile *)
LEMMA SelectStep == ASSUME DesktopInv, NEW id \in profiles, select_profile(id) PROVE DesktopInv'
<1> USE DEF DesktopInv, DesktopTypeOK, DesktopIsSound, select_profile
<1>7. desktop' \in DeskState  BY DEF DeskState, Statuses
<1>1. DesktopTypeOK' BY <1>7
<1>2. OneOwner' BY DEF OneOwner, Owners, DeskState
<1>3. ShowsTheTruth' BY DEF ShowsTheTruth, DeskState
<1>4. QuitsClean' BY DEF QuitsClean, DeskState
<1>5. LogsAreBounded' BY DEF LogsAreBounded, DeskState
<1>6. ExitsClean' BY DEF ExitsClean, DeskState
<1> QED BY <1>1, <1>2, <1>3, <1>4, <1>5, <1>6

(* connect, from the window or from the tray: there is no owner before. *)
LEMMA ConnectStep == ASSUME DesktopInv, NEW id, life = "on", Connect(id) PROVE DesktopInv'
<1> USE DesktopAssumption DEF DesktopInv, DesktopTypeOK, DesktopIsSound, Connect
<1>7. PICK t \in Idlers : task' = [task EXCEPT ![t] = [NoTask EXCEPT !.at = "start"]]
                         /\ Tell(reset_connection([desktop EXCEPT !.selected = id, !.active = id, !.cancellation = t,
                              !.running = TRUE, !.connected = FALSE, !.disconnecting = FALSE, !.status = "Connecting"]))
  OBVIOUS
<1> DEFINE d == reset_connection([desktop EXCEPT !.selected = id, !.active = id, !.cancellation = t,
                              !.running = TRUE, !.connected = FALSE, !.disconnecting = FALSE, !.status = "Connecting"])
<1>8. t \in Tasks /\ id \in Profiles  BY DEF Idlers, CanConnect
<1>9. d.activity = desktop.activity  BY DEF reset_connection, DeskState
<1>10. d \in DeskState  BY <1>8 DEF reset_connection, DeskState, Statuses
<1>11. desktop' \in DeskState /\ log' \in [lines : Nat, rotated : BOOLEAN]  BY <1>7, <1>9, <1>10, Told DEF LogsAreBounded
<1>12. task' \in [Tasks -> TaskState]  BY <1>7, <1>8 DEF NoTask, TaskState, Phases
<1>13. overtaken' \in BOOLEAN  OBVIOUS
<1>1. DesktopTypeOK'  BY <1>11, <1>12, <1>13 DEF Free
<1>2. OneOwner' BY DEF OneOwner, Owners, DeskState, Tell, add_activity, reset_connection, TaskState, NoTask, Idlers, CanConnect, Busy
<1>3. ShowsTheTruth' BY DEF ShowsTheTruth, DeskState, Tell, add_activity, reset_connection, CanConnect
<1>4. QuitsClean' BY DEF QuitsClean, DeskState, Tell, add_activity, reset_connection
<1>5. LogsAreBounded' BY DEF LogsAreBounded, DeskState, Tell, add_activity, reset_connection, write_activity, open_for_append, AtMost
<1>6. ExitsClean' BY DEF ExitsClean, DeskState, Tell, add_activity, reset_connection, TaskState, NoTask, Free, CanConnect, Idlers
<1> QED BY <1>1, <1>2, <1>3, <1>4, <1>5, <1>6

(* The statuses that a connection reports. *)
RunStatuses == {"Connected", "Connecting", "Disconnecting", "Reconnecting", "Configuring network", "Recovering network"}

(* A task that has the network goes on with it. *)
Moves(t) ==
  /\ t \in Owners /\ task' \in [Tasks -> TaskState]
  /\ \A u \in Tasks \ {t} : task'[u] = task[u]
  /\ task'[t].at \notin {"idle", "tail"} /\ task'[t].restores = task[t].restores

(* A step of client::run that does not end it, or that does: the task keeps *)
(* the network until its last turn with the lock.                           *)
LEMMA GoesMoves ==
  ASSUME DesktopTypeOK, NEW t \in Owners, NEW at \in Phases \ {"idle", "tail"}, Goes(t, at) PROVE Moves(t)
BY DEF DesktopTypeOK, Owners, Goes, Moves, TaskState

(* The end of client::run or of down(). *)
LEMMA EndsMoves ==
  ASSUME DesktopTypeOK, NEW t \in Owners, NEW ok \in BOOLEAN,
         task' = [task EXCEPT ![t] = [@ EXCEPT !.at = "done", !.ok = ok]]
  PROVE Moves(t)
BY DEF DesktopTypeOK, Owners, Moves, TaskState, Phases

(* Then the tasks that have the network are the same. *)
LEMMA MovesOwners == ASSUME NEW t, Moves(t) PROVE Owners' = Owners /\ \A u \in Owners : task'[u].restores = task[u].restores
BY DEF Moves, Owners

(* A task that goes on without telling anything. *)
LEMMA QuietStep ==
  ASSUME DesktopInv, NEW t \in Tasks, Moves(t), life = "on", captured' \in BOOLEAN, desktop.running \/ (captured' => captured),
         UNCHANGED <<life, desktop, profiles, log, ui, overtaken>>
  PROVE DesktopInv'
<1> USE DEF DesktopInv, DesktopTypeOK, DesktopIsSound
<1>1. DesktopTypeOK'  BY DEF Moves
<1>2. OneOwner'  BY MovesOwners DEF OneOwner
<1>3. ShowsTheTruth'  BY DEF ShowsTheTruth
<1>4. QuitsClean'  BY DEF QuitsClean
<1>5. LogsAreBounded'  BY DEF LogsAreBounded
<1>6. ExitsClean'  BY DEF ExitsClean, Moves
<1> QED BY <1>1, <1>2, <1>3, <1>4, <1>5, <1>6

(* A task that goes on and reports an event: its connection runs. *)
LEMMA EventStep ==
  ASSUME DesktopInv, NEW t \in Tasks, Moves(t), life = "on", ~task[t].restores, captured' \in BOOLEAN,
         NEW status \in RunStatuses, handle_connection_event(status), UNCHANGED <<life, profiles, ui, overtaken>>
  PROVE DesktopInv'
<1> USE DEF DesktopInv, DesktopTypeOK, DesktopIsSound
<1>1. desktop.running  BY DEF OneOwner, Moves
<1> DEFINE d == CASE status = "Connected" -> [desktop EXCEPT !.status = status, !.connected = TRUE, !.info = TRUE]
                  [] status = "Reconnecting" -> [desktop EXCEPT !.status = status, !.connected = FALSE]
                  [] OTHER -> [desktop EXCEPT !.status = status]
<1>2. d \in DeskState /\ d.activity = desktop.activity
  <2>1. status \in Statuses  BY DEF RunStatuses, Statuses
  <2>2. CASE status = "Connected"  BY <2>1, <2>2 DEF DeskState
  <2>3. CASE status = "Reconnecting"  BY <2>1, <2>3 DEF DeskState
  <2>4. CASE status \notin {"Connected", "Reconnecting"}  BY <2>1, <2>4 DEF DeskState
  <2> QED BY <2>2, <2>3, <2>4
<1>3. /\ d.running = desktop.running /\ d.cancellation = desktop.cancellation /\ d.active = desktop.active
      /\ d.disconnecting = desktop.disconnecting /\ d.restoring = desktop.restoring /\ d.recovery = desktop.recovery
      /\ d.startup_blocked = desktop.startup_blocked /\ d.status = status
  <2>2. CASE status = "Connected"  BY <2>2 DEF DeskState
  <2>3. CASE status = "Reconnecting"  BY <2>3 DEF DeskState
  <2>4. CASE status \notin {"Connected", "Reconnecting"}  BY <2>4 DEF DeskState
  <2> QED BY <2>2, <2>3, <2>4
<1>4. Tell(d)  BY DEF handle_connection_event
<1> HIDE DEF d
<1>5. /\ desktop' = [d EXCEPT !.activity = desktop'.activity] /\ desktop' \in DeskState
      /\ log' \in [lines : Nat, rotated : BOOLEAN] /\ LogsAreBounded'
  BY <1>2, <1>4, Told DEF LogsAreBounded
<1>6. /\ desktop'.running = desktop.running /\ desktop'.cancellation = desktop.cancellation /\ desktop'.active = desktop.active
      /\ desktop'.disconnecting = desktop.disconnecting /\ desktop'.restoring = desktop.restoring
      /\ desktop'.startup_blocked = desktop.startup_blocked /\ desktop'.status = status
  BY <1>2, <1>3, <1>5 DEF DeskState
<1>7. DesktopTypeOK'  BY <1>5 DEF Moves
<1>8. OneOwner'  BY <1>6, MovesOwners DEF OneOwner
<1>9. ShowsTheTruth'  BY <1>1, <1>6 DEF ShowsTheTruth, RunStatuses
<1>10. QuitsClean'  BY <1>1, <1>6 DEF QuitsClean
<1>11. ExitsClean'  BY <1>1, <1>6 DEF ExitsClean, Moves
<1> QED BY <1>5, <1>7, <1>8, <1>9, <1>10, <1>11

(* The steps of client::run. *)
LEMMA RunSteps ==
  ASSUME DesktopInv, NEW t \in Tasks,
         RunStart(t) \/ RunLoop(t) \/ RunDial(t) \/ RunUp(t) \/ RunSession(t) \/ RunWait(t) \/ RunStop(t)
  PROVE DesktopInv'
<1> USE DEF In
<1>1. life = "on" /\ ~task[t].restores /\ t \in Owners
  BY DEF RunStart, RunLoop, RunDial, RunUp, RunSession, RunWait, RunStop, Owners
<1>2. desktop.running /\ DesktopTypeOK  BY <1>1 DEF DesktopInv, DesktopIsSound, OneOwner
<1>3. captured \in BOOLEAN  BY <1>2 DEF DesktopTypeOK
<1>4. \A at \in Phases \ {"idle", "tail"} : Goes(t, at) => Moves(t)  BY <1>1, <1>2, GoesMoves
<1>5. \A ok \in BOOLEAN : Ends(t, ok) => Moves(t) /\ UNCHANGED <<desktop, log>>  BY <1>1, <1>2, EndsMoves DEF Ends
<1>6. \A status \in RunStatuses : handle_connection_event(status) /\ Moves(t) /\ captured' \in BOOLEAN
                                    /\ UNCHANGED <<life, profiles, ui, overtaken>> => DesktopInv'
  BY <1>1, EventStep
<1>7. Moves(t) /\ captured' \in BOOLEAN /\ UNCHANGED <<life, desktop, profiles, log, ui, overtaken>> => DesktopInv'
  BY <1>1, <1>2, QuietStep
<1> USE DEF RunStatuses, Phases
<1>8. CASE RunStart(t)  BY <1>3, <1>4, <1>5, <1>6, <1>7, <1>8 DEF RunStart
<1>9. CASE RunLoop(t)  BY <1>3, <1>4, <1>6, <1>9 DEF RunLoop
<1>10. CASE RunDial(t)  BY <1>3, <1>4, <1>5, <1>6, <1>7, <1>10 DEF RunDial
<1>11. CASE RunUp(t)  BY <1>3, <1>4, <1>5, <1>6, <1>7, <1>11 DEF RunUp
<1>12. CASE RunSession(t)  BY <1>3, <1>4, <1>5, <1>6, <1>7, <1>12 DEF RunSession
<1>13. CASE RunWait(t)  BY <1>3, <1>4, <1>6, <1>7, <1>13 DEF RunWait
<1>14. CASE RunStop(t)  BY <1>3, <1>5, <1>7, <1>14 DEF RunStop
<1> QED BY <1>8, <1>9, <1>10, <1>11, <1>12, <1>13, <1>14

(* down() of the task that restores the network. *)
LEMMA RestoreDownStep == ASSUME DesktopInv, NEW t \in Tasks, RestoreDown(t) PROVE DesktopInv'
<1> USE DEF RestoreDown
<1>1. t \in Owners /\ DesktopTypeOK  BY DEF Owners, DesktopInv
<1>2. captured \in BOOLEAN  BY <1>1 DEF DesktopTypeOK
<1>3. Moves(t)  BY <1>1, EndsMoves
<1>4. captured' = FALSE \/ captured' = captured  OBVIOUS
<1>5. captured' \in BOOLEAN /\ (captured' => captured)
  <2>1. CASE captured' = FALSE  BY <2>1
  <2>2. CASE captured' = captured  BY <1>2, <2>2
  <2> QED BY <1>4, <2>1, <2>2
<1> QED BY <1>3, <1>5, QuietStep

(* The last turn of run_connection with the lock, where it decides to exit. *)
LEMMA RunDoneStep == ASSUME DesktopInv, NEW t \in Tasks, RunDone(t) PROVE DesktopInv'
<1> USE DEF DesktopInv, DesktopTypeOK, DesktopIsSound
<1>0. life = "on" /\ t \in Owners /\ ~task[t].restores  BY DEF RunDone, In, Owners
<1>1. Owners = {t} /\ ~desktop.restoring  BY <1>0 DEF OneOwner
<1>2. PICK recovery \in network_recovery :
       /\ Tell(reset_connection(
            [desktop EXCEPT !.running = FALSE, !.connected = FALSE, !.disconnecting = FALSE, !.cancellation = Nothing,
                            !.active = Nothing, !.recovery = recovery, !.quitting = @ /\ task[t].ok,
                            !.status = IF task[t].ok THEN "Disconnected" ELSE "Connection error"]))
       /\ task' = [task EXCEPT ![t] = [@ EXCEPT !.at = "tail", !.exit = desktop.quitting /\ task[t].ok /\ ~recovery]]
  BY DEF RunDone
<1> DEFINE d == reset_connection(
            [desktop EXCEPT !.running = FALSE, !.connected = FALSE, !.disconnecting = FALSE, !.cancellation = Nothing,
                            !.active = Nothing, !.recovery = recovery, !.quitting = @ /\ task[t].ok,
                            !.status = IF task[t].ok THEN "Disconnected" ELSE "Connection error"])
<1>3. recovery \in BOOLEAN /\ (captured => recovery)  BY DEF network_recovery
<1>4. d \in DeskState /\ d.activity = desktop.activity
  <2> DEFINE q == desktop.quitting /\ task[t].ok
             st == IF task[t].ok THEN "Disconnected" ELSE "Connection error"
  <2>1. desktop.quitting \in BOOLEAN /\ task[t].ok \in BOOLEAN  BY DEF DeskState, TaskState
  <2>2. q \in BOOLEAN /\ st \in Statuses  BY <2>1 DEF Statuses
  <2>3. d = [desktop EXCEPT !.running = FALSE, !.connected = FALSE, !.disconnecting = FALSE, !.cancellation = Nothing,
                            !.active = Nothing, !.recovery = recovery, !.quitting = q, !.status = st, !.info = FALSE]
    BY DEF reset_connection, DeskState
  <2> HIDE DEF q, st, d
  <2>4. d = [selected |-> desktop.selected, active |-> Nothing, cancellation |-> Nothing, running |-> FALSE,
             connected |-> FALSE, disconnecting |-> FALSE, restoring |-> desktop.restoring, quitting |-> q,
             recovery |-> recovery, startup_blocked |-> desktop.startup_blocked, status |-> st, info |-> FALSE,
             activity |-> desktop.activity]
    BY <2>3 DEF DeskState
  <2>5. recovery \in BOOLEAN  BY <1>3
  <2> QED BY <2>5, <2>2, <2>4 DEF DeskState
<1>5. /\ ~d.running /\ d.cancellation = Nothing /\ d.active = Nothing /\ ~d.connected /\ ~d.disconnecting /\ ~d.info
      /\ d.restoring = desktop.restoring /\ d.recovery = recovery /\ d.startup_blocked = desktop.startup_blocked
      /\ d.status \in {"Disconnected", "Connection error"}
  BY DEF reset_connection, DeskState
<1>6. Tell(d)  BY <1>2
<1> HIDE DEF d
<1>7. /\ desktop' = [d EXCEPT !.activity = desktop'.activity] /\ desktop' \in DeskState
      /\ log' \in [lines : Nat, rotated : BOOLEAN] /\ LogsAreBounded'
  BY <1>4, <1>6, Told DEF LogsAreBounded
<1>8. /\ ~desktop'.running /\ desktop'.cancellation = Nothing /\ desktop'.active = Nothing /\ ~desktop'.connected
      /\ ~desktop'.disconnecting /\ ~desktop'.info /\ ~desktop'.restoring /\ desktop'.recovery = recovery
      /\ desktop'.startup_blocked = desktop.startup_blocked /\ desktop'.status \in {"Disconnected", "Connection error"}
  BY <1>1, <1>4, <1>5, <1>7 DEF DeskState
<1>9. task' \in [Tasks -> TaskState] /\ task'[t].at = "tail" /\ (task'[t].exit => ~recovery)
      /\ \A u \in Tasks \ {t} : task'[u] = task[u]
  BY <1>2, <1>3 DEF TaskState, Phases
<1>10. Owners' = {}  BY <1>1, <1>9 DEF Owners
<1> USE DEF RunDone
<1>11. DesktopTypeOK'  BY <1>7, <1>9
<1>12. OneOwner'  BY <1>8, <1>10 DEF OneOwner
<1>13. ShowsTheTruth'  BY <1>8 DEF ShowsTheTruth
<1>14. QuitsClean'  BY <1>0, <1>3, <1>8 DEF QuitsClean
<1>15. ExitsClean'  BY <1>3, <1>8, <1>9 DEF ExitsClean
<1> QED BY <1>7, <1>11, <1>12, <1>13, <1>14, <1>15

(* The last turn of the task that restores the network. *)
LEMMA RestoreDoneStep == ASSUME DesktopInv, NEW t \in Tasks, RestoreDone(t) PROVE DesktopInv'
<1> USE DEF DesktopInv, DesktopTypeOK, DesktopIsSound
<1>0. life = "on" /\ t \in Owners /\ task[t].restores  BY DEF RestoreDone, Owners
<1>1. Owners = {t} /\ ~desktop.running  BY <1>0 DEF OneOwner
<1>2. PICK recovery \in network_recovery :
       /\ Tell([desktop EXCEPT !.restoring = FALSE, !.recovery = recovery, !.quitting = @ /\ (task[t].ok /\ ~recovery),
                               !.status = IF task[t].ok /\ ~recovery THEN "Disconnected" ELSE "Network recovery failed"])
       /\ task' = [task EXCEPT ![t] = [@ EXCEPT !.at = "tail", !.exit = task[t].exit /\ desktop.quitting /\ (task[t].ok /\ ~recovery)]]
  BY DEF RestoreDone
<1> DEFINE d == [desktop EXCEPT !.restoring = FALSE, !.recovery = recovery, !.quitting = @ /\ (task[t].ok /\ ~recovery),
                               !.status = IF task[t].ok /\ ~recovery THEN "Disconnected" ELSE "Network recovery failed"]
<1>3. recovery \in BOOLEAN /\ (captured => recovery)  BY DEF network_recovery
<1>4. d \in DeskState /\ d.activity = desktop.activity  BY <1>3 DEF DeskState, Statuses
<1>5. /\ d.running = desktop.running /\ d.cancellation = desktop.cancellation /\ d.active = desktop.active
      /\ d.connected = desktop.connected /\ d.disconnecting = desktop.disconnecting /\ d.info = desktop.info
      /\ ~d.restoring /\ d.recovery = recovery /\ d.startup_blocked = desktop.startup_blocked
      /\ d.status \in {"Disconnected", "Network recovery failed"}
  BY DEF DeskState
<1>6. Tell(d)  BY <1>2
<1> HIDE DEF d
<1>7. /\ desktop' = [d EXCEPT !.activity = desktop'.activity] /\ desktop' \in DeskState
      /\ log' \in [lines : Nat, rotated : BOOLEAN] /\ LogsAreBounded'
  BY <1>4, <1>6, Told DEF LogsAreBounded
<1>8. /\ desktop'.running = desktop.running /\ desktop'.cancellation = desktop.cancellation
      /\ desktop'.active = desktop.active /\ desktop'.connected = desktop.connected
      /\ desktop'.disconnecting = desktop.disconnecting /\ desktop'.info = desktop.info /\ ~desktop'.restoring
      /\ desktop'.recovery = recovery /\ desktop'.startup_blocked = desktop.startup_blocked
      /\ desktop'.status \in {"Disconnected", "Network recovery failed"}
  BY <1>4, <1>5, <1>7 DEF DeskState
<1>9. task' \in [Tasks -> TaskState] /\ task'[t].at = "tail" /\ (task'[t].exit => ~recovery)
      /\ \A u \in Tasks \ {t} : task'[u] = task[u]
  <2> DEFINE e == task[t].exit /\ desktop.quitting /\ (task[t].ok /\ ~recovery)
  <2>1. task[t].exit \in BOOLEAN /\ desktop.quitting \in BOOLEAN /\ task[t].ok \in BOOLEAN  BY DEF DeskState, TaskState
  <2>2. e \in BOOLEAN /\ (e => ~recovery)  BY <1>3, <2>1
  <2>3. task' = [task EXCEPT ![t] = [@ EXCEPT !.at = "tail", !.exit = e]]  BY <1>2
  <2> HIDE DEF e
  <2> QED BY <2>2, <2>3 DEF TaskState, Phases
<1>10. Owners' = {}  BY <1>1, <1>9 DEF Owners
<1> USE DEF RestoreDone
<1>11. DesktopTypeOK'  BY <1>7, <1>9
<1>12. OneOwner'  BY <1>1, <1>8, <1>10 DEF OneOwner
<1>13. ShowsTheTruth'  BY <1>1, <1>8 DEF ShowsTheTruth
<1>14. QuitsClean'  BY <1>0, <1>3, <1>8 DEF QuitsClean
<1>15. ExitsClean'  BY <1>1, <1>3, <1>8, <1>9 DEF ExitsClean
<1> QED BY <1>7, <1>11, <1>12, <1>13, <1>14, <1>15

(* The end of a task: the application exits, if that was decided. *)
LEMMA TailStep == ASSUME DesktopInv, NEW t \in Tasks, Tail(t) PROVE DesktopInv'
<1> USE DEF DesktopInv, DesktopTypeOK, DesktopIsSound, Tail
<1>1. desktop' \in DeskState  BY DEF DeskState
<1>2. task' \in [Tasks -> TaskState]  BY DEF NoTask, TaskState, Phases
<1>3. DesktopTypeOK'  BY <1>1, <1>2
<1>4. Owners' = Owners /\ \A u \in Owners : task'[u] = task[u]  BY DEF Owners, NoTask
<1>5. OneOwner'  BY <1>4 DEF OneOwner, DeskState
<1>6. ShowsTheTruth'  BY DEF ShowsTheTruth, DeskState
<1>7. QuitsClean'  BY DEF QuitsClean, ExitsClean, DeskState
<1>8. LogsAreBounded'  BY DEF LogsAreBounded, DeskState
<1>9. ExitsClean'  BY DEF ExitsClean, DeskState, NoTask
<1> QED BY <1>3, <1>5, <1>6, <1>7, <1>8, <1>9

(* A command that changes the selection and the status, and tells of it. *)
LEMMA NotedStep ==
  ASSUME DesktopInv, NEW id \in Profiles \cup {Nothing}, NEW status \in Statuses \ (RunStatuses \cup {"Restoring network"}),
         Tell([desktop EXCEPT !.selected = id, !.status = status]),
         profiles' \in SUBSET Profiles, desktop.running => profiles' = profiles, ui' = ui \/ ui' = Free,
         UNCHANGED <<life, captured, task, overtaken>>
  PROVE DesktopInv'
<1> USE DEF DesktopInv, DesktopTypeOK, DesktopIsSound
<1> DEFINE d == [desktop EXCEPT !.selected = id, !.status = status]
<1>1. d \in DeskState /\ d.activity = desktop.activity  BY DEF DeskState
<1>2. /\ d.running = desktop.running /\ d.cancellation = desktop.cancellation /\ d.active = desktop.active
      /\ d.connected = desktop.connected /\ d.disconnecting = desktop.disconnecting /\ d.info = desktop.info
      /\ d.restoring = desktop.restoring /\ d.recovery = desktop.recovery /\ d.startup_blocked = desktop.startup_blocked
      /\ d.status = status
  BY DEF DeskState
<1>3. Tell(d)  OBVIOUS
<1> HIDE DEF d
<1>4. /\ desktop' = [d EXCEPT !.activity = desktop'.activity] /\ desktop' \in DeskState
      /\ log' \in [lines : Nat, rotated : BOOLEAN] /\ LogsAreBounded'
  BY <1>1, <1>3, Told DEF LogsAreBounded
<1>5. /\ desktop'.running = desktop.running /\ desktop'.cancellation = desktop.cancellation
      /\ desktop'.active = desktop.active /\ desktop'.connected = desktop.connected
      /\ desktop'.disconnecting = desktop.disconnecting /\ desktop'.info = desktop.info
      /\ desktop'.restoring = desktop.restoring /\ desktop'.recovery = desktop.recovery
      /\ desktop'.startup_blocked = desktop.startup_blocked /\ desktop'.status = status
  BY <1>1, <1>2, <1>4 DEF DeskState
<1>11. ui' \in [at : {"free", "cancel", "connect", "disconnect", "restore", "exit"}, token : Tasks \cup {Nothing}]
       /\ (ui'.at = "cancel" => ui'.token \in Tasks) /\ (ui'.at = "exit" => ui.at = "exit")
  <2>1. CASE ui' = ui  BY <2>1
  <2>2. CASE ui' = Free  BY <2>2 DEF Free
  <2> QED BY <2>1, <2>2
<1>6. DesktopTypeOK'  BY <1>4, <1>11
<1>12. Owners' = Owners /\ task' = task  BY DEF Owners
<1>7. OneOwner'  BY <1>5, <1>12 DEF OneOwner
<1>8. ShowsTheTruth'  BY <1>5 DEF ShowsTheTruth, RunStatuses
<1>9. QuitsClean'  BY <1>5 DEF QuitsClean
<1>10. ExitsClean'  BY <1>5, <1>11 DEF ExitsClean
<1> QED BY <1>4, <1>6, <1>7, <1>8, <1>9, <1>10

(* save_profile and delete_profile *)
LEMMA ProfileSteps == ASSUME DesktopInv, NEW id \in Profiles, save_profile(id) \/ delete_profile(id) PROVE DesktopInv'
<1> USE DEF DesktopInv, DesktopTypeOK, Statuses, RunStatuses
<1>1. CASE save_profile(id)
  BY <1>1, NotedStep DEF save_profile, Saved, Busy
<1>2. CASE delete_profile(id)
  <2>1. profiles' \in SUBSET Profiles /\ ~desktop.running  BY <1>2 DEF delete_profile, Deleted, Busy
  <2>2. PICK first \in Firsts(profiles') :
          Tell([desktop EXCEPT !.selected = first, !.status = IF first = Nothing THEN "Disconnected" ELSE "Ready"])
    BY <1>2 DEF delete_profile
  <2>3. first \in Profiles \cup {Nothing}  BY <2>1 DEF Firsts
  <2>4. CASE first = Nothing
    <3>1. Tell([desktop EXCEPT !.selected = first, !.status = "Disconnected"])  BY <2>2, <2>4
    <3> QED BY <1>2, <2>1, <2>3, <3>1, NotedStep DEF delete_profile
  <2>5. CASE first # Nothing
    <3>1. Tell([desktop EXCEPT !.selected = first, !.status = "Ready"])  BY <2>2, <2>5
    <3> QED BY <1>2, <2>1, <2>3, <3>1, NotedStep DEF delete_profile
  <2> QED BY <2>4, <2>5
<1> QED BY <1>1, <1>2

(* A command of the tray that is refused. *)
LEMMA ErrorStep ==
  ASSUME DesktopInv, NEW action \in {"Connection action failed", "Network recovery failed"}, record_error(action),
         ui' = ui \/ ui' = Free, UNCHANGED <<life, profiles, captured, task, overtaken>>
  PROVE DesktopInv'
<1>1. desktop.selected \in Profiles \cup {Nothing} /\ desktop \in DeskState /\ profiles \in SUBSET Profiles
  BY DEF DesktopInv, DesktopTypeOK, DeskState
<1>2. [desktop EXCEPT !.status = action] = [desktop EXCEPT !.selected = desktop.selected, !.status = action]
  BY <1>1 DEF DeskState
<1>3. Tell([desktop EXCEPT !.selected = desktop.selected, !.status = action])  BY <1>2 DEF record_error
<1>4. action \in Statuses \ (RunStatuses \cup {"Restoring network"})  BY DEF Statuses, RunStatuses
<1> QED BY <1>1, <1>3, <1>4, NotedStep

(* disconnect *)
LEMMA DisconnectionStep == ASSUME DesktopInv, life = "on", Disconnection PROVE DesktopInv'
<1> USE DEF DesktopInv, DesktopTypeOK, DesktopIsSound, Disconnection
<1>1. CASE desktop.cancellation = Nothing
  <2>1. DesktopTypeOK'  BY <1>1 DEF Free
  <2>2. OneOwner'  BY <1>1 DEF OneOwner, Owners
  <2>3. ShowsTheTruth' /\ QuitsClean' /\ LogsAreBounded'  BY <1>1 DEF ShowsTheTruth, QuitsClean, LogsAreBounded
  <2>4. ExitsClean'  BY <1>1 DEF ExitsClean, Free
  <2> QED BY <2>1, <2>2, <2>3, <2>4
<1>2. CASE desktop.cancellation # Nothing
  <2>1. desktop.running /\ desktop.cancellation \in Tasks  BY <1>2 DEF OneOwner, DeskState
  <2>2. desktop' = [desktop EXCEPT !.disconnecting = TRUE, !.status = "Disconnecting"]  BY <1>2
  <2>3. desktop' \in DeskState  BY <2>2 DEF DeskState, Statuses
  <2>4. ui' = [at |-> "cancel", token |-> desktop.cancellation]  BY <1>2
  <2>5. DesktopTypeOK'  BY <2>1, <2>3, <2>4
  <2>6. OneOwner'  BY <2>2 DEF OneOwner, Owners, DeskState
  <2>7. ShowsTheTruth' /\ QuitsClean' /\ LogsAreBounded'  BY <2>1, <2>2 DEF ShowsTheTruth, QuitsClean, LogsAreBounded, DeskState
  <2>8. ExitsClean'  BY <2>1, <2>2, <2>4 DEF ExitsClean, DeskState
  <2> QED BY <2>5, <2>6, <2>7, <2>8
<1> QED BY <1>1, <1>2

(* The token that disconnect or quit took is cancelled after the lock. *)
LEMMA CancelTokenStep == ASSUME DesktopInv, CancelToken PROVE DesktopInv'
<1> USE DEF DesktopInv, DesktopTypeOK, DesktopIsSound, CancelToken
<1>1. ui.token \in Tasks  OBVIOUS
<1>2. /\ task' \in [Tasks -> TaskState]
      /\ \A t \in Tasks : task'[t].at = task[t].at /\ task'[t].restores = task[t].restores /\ task'[t].exit = task[t].exit
  BY <1>1 DEF TaskState
<1>3. DesktopTypeOK'  BY <1>2 DEF Free
<1>4. Owners' = Owners  BY <1>2 DEF Owners
<1>5. OneOwner'  BY <1>2, <1>4 DEF OneOwner, Owners
<1>6. ShowsTheTruth' /\ QuitsClean' /\ LogsAreBounded'  BY DEF ShowsTheTruth, QuitsClean, LogsAreBounded
<1>7. ExitsClean'  BY <1>2 DEF ExitsClean, Free
<1> QED BY <1>3, <1>5, <1>6, <1>7

(* toggle, and what it turned out to be. *)
LEMMA ToggleSteps == ASSUME DesktopInv, toggle \/ Toggled PROVE DesktopInv'
<1>1. CASE toggle
  <2> USE <1>1 DEF DesktopInv, DesktopTypeOK, DesktopIsSound, toggle
  <2>1. DesktopTypeOK'  BY DEF Free
  <2>2. OneOwner'  BY DEF OneOwner, Owners
  <2>3. ShowsTheTruth' /\ QuitsClean' /\ LogsAreBounded'  BY DEF ShowsTheTruth, QuitsClean, LogsAreBounded
  <2>4. ExitsClean'  BY DEF ExitsClean, Free
  <2> QED BY <2>1, <2>2, <2>3, <2>4
<1>2. CASE Toggled
  BY <1>2, DisconnectionStep, ConnectStep, ErrorStep DEF Toggled
<1> QED BY <1>1, <1>2

(* restore_network *)
LEMMA RestoreNetworkStep == ASSUME DesktopInv, life = "on", NEW exit \in BOOLEAN, restore_network(exit) PROVE DesktopInv'
<1> USE DEF DesktopInv, DesktopTypeOK, DesktopIsSound, restore_network, CanRestore, Busy
<1>1. PICK t \in Idlers : task' = [task EXCEPT ![t] = [NoTask EXCEPT !.at = "start", !.restores = TRUE, !.exit = exit]]
  OBVIOUS
<1>2. t \in Tasks /\ task[t].at = "idle"  BY DEF Idlers
<1>3. /\ task' \in [Tasks -> TaskState] /\ task'[t].at = "start" /\ task'[t].restores
      /\ \A u \in Tasks \ {t} : task'[u] = task[u]
  BY <1>1, <1>2 DEF NoTask, TaskState, Phases
<1>4. Owners = {}  BY DEF OneOwner
<1>5. Owners' = {t}  BY <1>2, <1>3, <1>4 DEF Owners
<1>6. desktop' \in DeskState  BY DEF DeskState, Statuses
<1>7. DesktopTypeOK'  BY <1>3, <1>6 DEF Free
<1>8. OneOwner'  BY <1>3, <1>5 DEF OneOwner, DeskState
<1>9. ShowsTheTruth' /\ QuitsClean' /\ LogsAreBounded'  BY DEF ShowsTheTruth, QuitsClean, LogsAreBounded, DeskState
<1>10. ExitsClean'  BY <1>3 DEF ExitsClean, DeskState, Free
<1> QED BY <1>7, <1>8, <1>9, <1>10

(* restore_network from the window or the tray. *)
LEMMA RestoreStep == ASSUME DesktopInv, Restore PROVE DesktopInv'
<1>1. life = "on"  BY DEF Restore, Awake
<1>2. CASE restore_network(FALSE)  BY <1>1, <1>2, RestoreNetworkStep
<1>3. CASE record_error("Network recovery failed") /\ UNCHANGED <<life, profiles, captured, ui, task, overtaken>>
  BY <1>3, ErrorStep
<1> QED BY <1>2, <1>3 DEF Restore

(* quit decides: a connection is ended first, what is left is restored.     *)
(* It exits at once only when there is neither.                             *)
LEMMA QuitStep == ASSUME DesktopInv, quit PROVE DesktopInv'
<1> USE DEF DesktopInv, DesktopTypeOK, DesktopIsSound, quit, Awake
<1>1. CASE desktop.running
  <2>1. desktop' = [desktop EXCEPT !.quitting = TRUE, !.disconnecting = TRUE, !.status = "Disconnecting"]
    BY <1>1 DEF DeskState
  <2>2. desktop' \in DeskState  BY <2>1 DEF DeskState, Statuses
  <2>3. ui' \in [at : {"free", "cancel"}, token : Tasks \cup {Nothing}] /\ (ui'.at = "cancel" => ui'.token \in Tasks)
    BY <1>1 DEF Free, DeskState
  <2>4. DesktopTypeOK'  BY <2>2, <2>3
  <2>5. OneOwner'  BY <2>1 DEF OneOwner, Owners, DeskState
  <2>6. ShowsTheTruth' /\ QuitsClean' /\ LogsAreBounded'  BY <1>1, <2>1 DEF ShowsTheTruth, QuitsClean, LogsAreBounded, DeskState
  <2>7. ExitsClean'  BY <1>1, <2>1, <2>3 DEF ExitsClean, DeskState
  <2> QED BY <2>4, <2>5, <2>6, <2>7
<1>2. CASE ~desktop.running
  <2>1. desktop' = [desktop EXCEPT !.quitting = TRUE]  BY <1>2 DEF DeskState
  <2>2. desktop' \in DeskState  BY <2>1 DEF DeskState
  <2>3. ui' = [Free EXCEPT !.at = IF desktop.recovery THEN "restore" ELSE "exit"]  BY <1>2
  <2>4. DesktopTypeOK'  BY <2>2, <2>3 DEF Free
  <2>5. OneOwner'  BY <2>1 DEF OneOwner, Owners, DeskState
  <2>6. ShowsTheTruth' /\ QuitsClean' /\ LogsAreBounded'  BY <2>1 DEF ShowsTheTruth, QuitsClean, LogsAreBounded, DeskState
  <2>7. ExitsClean'  BY <1>2, <2>1, <2>3 DEF ExitsClean, QuitsClean, DeskState, Free
  <2> QED BY <2>4, <2>5, <2>6, <2>7
<1> QED BY <1>1, <1>2 DEF DeskState

(* quit acts. *)
LEMMA QuittingStep == ASSUME DesktopInv, Quitting PROVE DesktopInv'
<1> USE DEF DesktopInv, DesktopTypeOK, DesktopIsSound
<1>1. CASE ui.at = "exit" /\ life' = "quit" /\ ui' = Free /\ UNCHANGED <<desktop, profiles, captured, log, task, overtaken>>
  <2> USE <1>1
  <2>1. DesktopTypeOK'  BY DEF Free
  <2>2. OneOwner'  BY DEF OneOwner, Owners
  <2>3. ShowsTheTruth' /\ LogsAreBounded'  BY DEF ShowsTheTruth, LogsAreBounded
  <2>4. QuitsClean'  BY DEF QuitsClean, ExitsClean
  <2>5. ExitsClean'  BY DEF ExitsClean, Free
  <2> QED BY <2>1, <2>2, <2>3, <2>4, <2>5
<1>2. CASE restore_network(TRUE)
  <2> HIDE DEF DesktopInv
  <2> QED BY <1>2, RestoreNetworkStep DEF Quitting
<1>3. CASE ui.at = "restore" /\ ui' = Free /\ desktop' = [desktop EXCEPT !.quitting = FALSE]
           /\ UNCHANGED <<life, profiles, captured, log, task, overtaken>>
  <2> USE <1>3
  <2>1. desktop' \in DeskState  BY DEF DeskState
  <2>2. DesktopTypeOK'  BY <2>1 DEF Free
  <2>3. OneOwner'  BY DEF OneOwner, Owners, DeskState
  <2>4. ShowsTheTruth' /\ QuitsClean' /\ LogsAreBounded'  BY DEF ShowsTheTruth, QuitsClean, LogsAreBounded, DeskState
  <2>5. ExitsClean'  BY DEF ExitsClean, Free, DeskState
  <2> QED BY <2>2, <2>3, <2>4, <2>5
<1> QED BY <1>1, <1>2, <1>3 DEF Quitting

(* clear_activity *)
LEMMA ClearStep == ASSUME DesktopInv, clear_activity PROVE DesktopInv'
<1> USE DEF DesktopInv, DesktopTypeOK, DesktopIsSound, clear_activity
<1>1. desktop' \in DeskState  BY DEF DeskState
<1>2. log' \in [lines : Nat, rotated : BOOLEAN] /\ log'.lines = 0
  <2>1. CASE log' = [lines |-> 0, rotated |-> FALSE]  BY <2>1
  <2>2. CASE log' = [log EXCEPT !.lines = 0]  BY <2>2
  <2> QED BY <2>1, <2>2
<1>3. DesktopTypeOK'  BY <1>1, <1>2
<1>4. OneOwner'  BY DEF OneOwner, Owners, DeskState
<1>5. ShowsTheTruth' /\ QuitsClean'  BY DEF ShowsTheTruth, QuitsClean, DeskState
<1>6. desktop'.activity = 0 \/ desktop'.activity = desktop.activity  BY DEF DeskState
<1>7. MaxLines \in Nat /\ MaxLog \in Nat  BY DesktopAssumption DEF DesktopAssumption
<1>8. LogsAreBounded'  BY <1>2, <1>6, <1>7 DEF LogsAreBounded
<1>9. ExitsClean'  BY DEF ExitsClean, DeskState
<1> QED BY <1>3, <1>4, <1>5, <1>8, <1>9

(* The process is killed, started again, or another one cleans up. *)
LEMMA RestartSteps == ASSUME DesktopInv, Kill \/ run \/ cleanup_network PROVE DesktopInv'
<1> USE DEF DesktopInv, DesktopTypeOK, DesktopIsSound
<1>1. CASE Kill
  <2> USE <1>1 DEF Kill
  <2>1. DesktopTypeOK' /\ ShowsTheTruth' /\ QuitsClean' /\ LogsAreBounded' /\ ExitsClean'
    BY DEF ShowsTheTruth, QuitsClean, LogsAreBounded, ExitsClean
  <2>2. OneOwner'  BY DEF OneOwner, Owners
  <2> QED BY <2>1, <2>2
<1>2. CASE cleanup_network
  <2> USE <1>2 DEF cleanup_network
  <2>1. DesktopTypeOK' /\ ShowsTheTruth' /\ QuitsClean' /\ LogsAreBounded' /\ ExitsClean'
    BY DEF ShowsTheTruth, QuitsClean, LogsAreBounded, ExitsClean
  <2>2. OneOwner'  BY DEF OneOwner, Owners
  <2> QED BY <2>1, <2>2
<1>3. CASE run
  <2> USE <1>3 DEF run
  <2>1. PICK blocked \in BOOLEAN, first \in Firsts(profiles) : desktop' = NewState(blocked, first)  OBVIOUS
  <2>2. NewState(blocked, first) \in DeskState /\ NewState(blocked, first).activity <= MaxLines
    BY DesktopAssumption, NewIsTyped
  <2>3. /\ ~desktop'.running /\ ~desktop'.restoring /\ desktop'.cancellation = Nothing /\ desktop'.active = Nothing
        /\ ~desktop'.connected /\ ~desktop'.info /\ ~desktop'.disconnecting
        /\ desktop'.startup_blocked = blocked /\ desktop'.recovery = (~blocked /\ captured)
        /\ desktop'.status \in {"Action required", "Network recovery available", "Disconnected", "Ready"}
    BY <2>1 DEF NewState
  <2>4. task' \in [Tasks -> TaskState] /\ \A t \in Tasks : task'[t].at = "idle"  BY DEF NoTask, TaskState, Phases
  <2>5. DesktopTypeOK'  BY <2>1, <2>2, <2>4 DEF Free
  <2>6. Owners' = {}  BY <2>4 DEF Owners
  <2>7. OneOwner'  BY <2>3, <2>6 DEF OneOwner
  <2>8. ShowsTheTruth'  BY <2>3 DEF ShowsTheTruth
  <2>9. QuitsClean'  BY <2>3 DEF QuitsClean
  <2>10. LogsAreBounded'  BY <2>1, <2>2 DEF LogsAreBounded
  <2>11. ExitsClean'  BY <2>3, <2>4 DEF ExitsClean, Free
  <2> QED BY <2>5, <2>7, <2>8, <2>9, <2>10, <2>11
<1> QED BY <1>1, <1>2, <1>3

(* Nothing happens. *)
LEMMA DesktopStutters == ASSUME DesktopInv, UNCHANGED desktop_vars PROVE DesktopInv'
<1>1. DesktopTypeOK'  BY DEF desktop_vars, DesktopInv, DesktopTypeOK
<1>2. OneOwner'  BY DEF desktop_vars, DesktopInv, DesktopIsSound, OneOwner, Owners
<1>3. ShowsTheTruth'  BY DEF desktop_vars, DesktopInv, DesktopIsSound, ShowsTheTruth
<1>4. QuitsClean'  BY DEF desktop_vars, DesktopInv, DesktopIsSound, QuitsClean
<1>5. LogsAreBounded'  BY DEF desktop_vars, DesktopInv, DesktopIsSound, LogsAreBounded
<1>6. ExitsClean'  BY DEF desktop_vars, DesktopInv, ExitsClean
<1> QED BY <1>1, <1>2, <1>3, <1>4, <1>5, <1>6 DEF DesktopInv, DesktopIsSound

(* One task at a time has the network, the window shows what runs, the      *)
(* application quits only with the network given back, and the log stays    *)
(* within its limits: whatever commands of desktop.rs cross its tasks, and  *)
(* whatever fails, is killed or is started again.                           *)
THEOREM DesktopIsAlwaysSound == DesktopSpec => []DesktopIsSound
<1>1. DesktopInit => DesktopInv  BY DesktopInitially
<1>2. DesktopInv /\ [DesktopNext]_desktop_vars => DesktopInv'
  <2> SUFFICES ASSUME DesktopInv, [DesktopNext]_desktop_vars PROVE DesktopInv'  OBVIOUS
  <2>1. profiles \subseteq Profiles  BY DEF DesktopInv, DesktopTypeOK
  <2>2. CASE \E id \in profiles : select_profile(id) \/ delete_profile(id) \/ connect(id)
    BY <2>1, <2>2, SelectStep, ProfileSteps, ConnectStep DEF connect, Awake
  <2>3. CASE \E id \in Profiles : save_profile(id)  BY <2>3, ProfileSteps
  <2>4. CASE disconnect_active  BY <2>4, DisconnectionStep DEF disconnect_active, Awake
  <2>5. CASE CancelToken \/ toggle \/ Toggled \/ Restore \/ quit \/ Quitting \/ clear_activity
    BY <2>5, CancelTokenStep, ToggleSteps, RestoreStep, QuitStep, QuittingStep, ClearStep
  <2>6. CASE \E t \in Tasks : RunStart(t) \/ RunLoop(t) \/ RunDial(t) \/ RunUp(t) \/ RunSession(t) \/ RunWait(t) \/ RunStop(t)
    BY <2>6, RunSteps
  <2>7. CASE \E t \in Tasks : RunDone(t) \/ Tail(t) \/ RestoreDown(t) \/ RestoreDone(t)
    BY <2>7, RunDoneStep, TailStep, RestoreDownStep, RestoreDoneStep
  <2>8. CASE Kill \/ run \/ cleanup_network  BY <2>8, RestartSteps
  <2>9. CASE UNCHANGED desktop_vars  BY <2>9, DesktopStutters
  <2> QED BY <2>2, <2>3, <2>4, <2>5, <2>6, <2>7, <2>8, <2>9 DEF DesktopNext
<1>3. DesktopInv => DesktopIsSound  BY DEF DesktopInv
<1> QED BY <1>1, <1>2, <1>3, PTL DEF DesktopSpec
=============================================================================
