--------------------------- MODULE WindowsNetwork ---------------------------
(***************************************************************************)
(* Automatic networking of the Windows client: the recovery journal and    *)
(* the filters of the guard (porta-client/src/windows/network.rs), the     *)
(* PowerShell helper that changes addresses, routes and name servers and   *)
(* writes the journal as well (network.ps1), and the life of the process   *)
(* (windows/client.rs).  A step is one write of the journal or one change  *)
(* of the system.                                                          *)
(*                                                                         *)
(* An adapter is known by its GUID and LUID, which are one identity here,  *)
(* and by an index the system may give anew.  A helper that times out is   *)
(* killed; one whose parent dies runs on.  It is taken to end before the   *)
(* client is started again.  Next hops and metrics are left out.  *)
(***************************************************************************)
EXTENDS Integers, FiniteSets

CONSTANTS Endpoints,   \* addresses of the gateway
          SixEndpoints, \* those of them that are IPv6
          Leases,      \* records of an address, a DNS server and an MTU
          Adapters,    \* identities the tunnel adapter may have
          Physical,    \* the physical adapters
          Indexes,     \* interface indexes of the tunnel adapter
          None,
          MaxEvents    \* bound: starts, redials, and changes of the system

(* The values of a name server or an MTU that the adapter may have, and the *)
(* records the journal keeps of them.                                       *)
PortaDns == {l.dns : l \in Leases}
PortaMtu == {l.mtu : l \in Leases}
Records(porta) == [original : porta \cup {"own", "admin"}, applied : porta \cup {None}, pending : porta \cup {None}]

(* None stands for no value, and names are not mistaken for one another. *)
ASSUME WindowsAssumption ==
  /\ None \notin Endpoints \cup Adapters \cup Indexes \cup Physical \cup PortaDns \cup PortaMtu
  /\ None \notin Records(PortaDns) \cup Records(PortaMtu) \cup [endpoint : Endpoints, tun : Adapters \cup {None}]
  /\ {"own", "admin"} \cap (PortaDns \cup PortaMtu) = {}
  /\ Adapters \cap (Physical \cup {"physical"}) = {} /\ Endpoints \cap {"link", "multicast", "other"} = {}

VARIABLES os,     \* the tunnel adapter, the routes, the guard and the default route
          journal,   \* the journal file; Empty when there is none
          mem,    \* NetworkManager.state
          c,      \* the process: run(), the call and the helper in progress
          lost,   \* history: an unconfirmed change has been overtaken
          events  \* what the bound leaves

windows_vars == <<os, journal, mem, c, lost, events>>
----------------------------------------------------------------------------
(* "own" stands for what the adapter had before Porta changed it. *)
Empty == [endpoint |-> None, id |-> None, index |-> None, dhcp |-> FALSE, addresses |-> {},
          routes |-> {}, dns |-> None, mtu |-> None]
NoTun == [id |-> None, index |-> None, addresses |-> {}, dns |-> "own", mtu |-> "own", dhcp |-> FALSE]
NewTun(id, i) == [NoTun EXCEPT !.id = id, !.index = i, !.dhcp = TRUE]
NoLease == [address |-> None, dns |-> None, mtu |-> None]

(* pc: where run() and the manager are; op: the call, prepare, up or down;  *)
(* script and step: the helper and where it is; active: network_active;     *)
(* dead: the process is gone and the helper runs on.                        *)
Off == [pc |-> "off", op |-> "none", script |-> "none", step |-> "none", dial |-> None, lease |-> NoLease,
        active |-> FALSE, device |-> FALSE, endpoints |-> {}, dead |-> FALSE]

FreshTuns == {NoTun} \cup {NewTun(id, i) : id \in Adapters, i \in Indexes}
WindowsInit ==
  /\ \E t \in FreshTuns, p \in Physical :
       os = [tun |-> t, kept |-> t # NoTun, phys |-> p, routes |-> {}, guard |-> None]
  /\ journal = Empty /\ mem = Empty /\ c = Off /\ lost = FALSE /\ events = MaxEvents

(* needs_cleanup, of a journal *)
needs_cleanup(j) == j # Empty
----------------------------------------------------------------------------
(* The adapter goes with the process that made it, and its routes with it;  *)
(* an adapter that was there before stays.                                  *)
WithoutTun(o) ==
  [o EXCEPT !.tun = NoTun, !.routes = {r \in o.routes : r.on # o.tun.id}]
Closed(o) == IF o.kept THEN o ELSE WithoutTun(o)

(* Every error ends the process and leaves the journal and the guard. *)
Exit(o) == c' = Off /\ mem' = Empty /\ os' = Closed(o)

Goto(pc) == [c EXCEPT !.pc = pc]

(* replace_journal: the pending file takes the place of the journal or does *)
(* not; persist may fail on either side of it.                              *)
replace_journal(new) == {journal, new}

persist(new, next) ==
  \/ journal' = new /\ mem' = new /\ c' = next /\ UNCHANGED os
  \/ \E file \in replace_journal(new) : journal' = file /\ Exit(os)

(* A native call; one that fails may have been carried out. *)
native(new, next) ==
  \/ os' = new /\ c' = next /\ UNCHANGED <<journal, mem>>
  \/ \E o \in {os, new} : Exit(o) /\ UNCHANGED journal

(* with_wfp_transaction: the old filters are deleted and the new ones added *)
(* in one transaction.                                                      *)
Transaction(guard, next) == native([os EXCEPT !.guard = guard], next)

(* validate_state: what is set on a tunnel adapter is bound to it. *)
validate_state(j) ==
  \/ j = Empty
  \/ /\ j.endpoint # None
     /\ (j.addresses # {} \/ j.dns # None \/ j.mtu # None \/ \E r \in j.routes : r.kind # "escape") => j.id # None

(* read_state: the journal is read whenever the lock is taken, and after a  *)
(* helper that may have written it; one that is not valid is refused.       *)
read_state == {state \in {journal} : validate_state(state)}
----------------------------------------------------------------------------
(* The filters of the guard [endpoint, tun], by layer and family.  What     *)
(* permits has weight 100, the block that ends a layer 1, and in a sublayer *)
(* the heaviest filter whose conditions all match decides.                  *)
Layers == {"packet", "transport", "connect", "accept"}

family(endpoint) == IF endpoint \in SixEndpoints THEN 6 ELSE 4

Local(g, kind, f) ==
  {{<<"loopback", TRUE>>}} \cup (IF f = 4 /\ g.tun # None THEN {{<<"interface", g.tun>>}} ELSE {})

Gateway(g, kind, f) ==
  LET address == <<"address", g.endpoint>>
      program == IF kind \in {"connect", "accept"} THEN {<<"application", "porta">>} ELSE {} IN
  IF f # family(g.endpoint) THEN {}
  ELSE IF kind = "packet" THEN {{address}}
  ELSE {{address, <<"protocol", q>>, <<"port", "gateway">>} \cup program : q \in {"tcp", "udp"}}

(* Neighbor discovery; an advertisement of a router is only accepted. *)
Neighbors(g, kind, f) ==
  IF f = 4 \/ family(g.endpoint) = 4 THEN {}
  ELSE IF kind = "packet" THEN {{<<"address", a>>} : a \in {"link", "multicast"}}
  ELSE {{<<"address", a>>, <<"protocol", "icmp6">>, <<"type", t>>} :
        a \in {"link", "multicast"}, t \in {133, 135, 136} \cup (IF kind = "accept" THEN {134} ELSE {})}

Permit(kind, f, conditions) == [layer |-> <<kind, f>>, permit |-> TRUE, weight |-> 100, conditions |-> conditions]
Block(kind, f) == [layer |-> <<kind, f>>, permit |-> FALSE, weight |-> 1, conditions |-> {}]

Permits(g) ==
  UNION {{Permit(kind, f, cs) : cs \in Local(g, kind, f) \cup Gateway(g, kind, f) \cup Neighbors(g, kind, f)} :
         kind \in Layers, f \in {4, 6}}
Blocks == {Block(kind, f) : kind \in Layers \cup {"forward"}, f \in {4, 6}}

guard_filters(g) == Permits(g) \cup Blocks

Matches(filter, p) == \A condition \in filter.conditions : p[condition[1]] = condition[2]

(* The layers a packet is seen at: the system's. *)
Seen(way) ==
  CASE way = "out" -> {"packet", "transport", "connect"} [] way = "in" -> {"accept"} [] OTHER -> {"forward"}

Admits(filters, p) ==
  \A kind \in Seen(p.way) :
    LET at == {x \in filters : x.layer = <<kind, p.family>> /\ Matches(x, p)} IN
    at = {} \/ \E x \in at : x.permit /\ \A y \in at : y.weight <= x.weight

Packets ==
  [way : {"out", "in", "forward"}, family : {4, 6}, loopback : BOOLEAN,
   interface : Adapters \cup {"physical"}, address : Endpoints \cup {"link", "multicast", "other"},
   protocol : {"tcp", "udp", "icmp6"}, port : {"gateway", "other"}, type : {0, 134, 135},
   application : {"porta", "other"}]
----------------------------------------------------------------------------
(* The helper.  It works on the journal it read; a write and a command may  *)
(* fail, or the helper be killed around them: invoke then reports an error. *)
Step(at) == c.script # "none" /\ c.step = at
At(next) == [c EXCEPT !.step = next]
Run(script) == [c EXCEPT !.pc = "script", !.script = script,
                         !.step = CASE script = "retire" -> "retire" [] script = "down" -> "routes" [] OTHER -> "escape"]

(* What the caller does once the helper has ended well and the journal has  *)
(* been read again.                                                         *)
Return ==
  LET ended == [c EXCEPT !.script = "none", !.step = "none"] IN
  IF c.dead THEN Off
  ELSE CASE c.script = "retire" -> [ended EXCEPT !.pc = "next"]
         [] c.script = "prepare" -> [ended EXCEPT !.pc = IF c.op = "up" THEN "configure" ELSE "prepared"]
         [] c.script = "configure" -> [ended EXCEPT !.pc = "mtu"]
         [] c.script = "up" -> [ended EXCEPT !.pc = "connected", !.op = "none"]
         [] c.script = "down" -> [ended EXCEPT !.pc = "unguard"]

Fails(o) == IF c.dead THEN c' = Off /\ os' = o /\ UNCHANGED mem ELSE Exit(o)

Save(new, next) ==
  \/ journal' = new /\ c' = next /\ UNCHANGED <<os, mem>>
  \/ \E file \in {journal, new} : journal' = file /\ Fails(os)
Command(new, next) ==
  \/ os' = new /\ c' = next /\ UNCHANGED <<journal, mem>>
  \/ \E o \in {os, new} : Fails(o) /\ UNCHANGED journal
Throw == Fails(os) /\ UNCHANGED journal
Skip(next) == c' = next /\ UNCHANGED <<os, journal, mem>>

Done ==
  /\ c.script # "none" /\ c.step = "done"
  /\ IF ~c.dead /\ read_state = {} THEN Throw
     ELSE c' = Return /\ mem' \in (IF c.dead THEN {mem} ELSE read_state) /\ UNCHANGED <<os, journal>>
----------------------------------------------------------------------------
(* Routes.  One is known by its kind, its prefix and its adapter. *)
Route(kind, prefix, on, index) == [kind |-> kind, prefix |-> prefix, on |-> on, index |-> index]
Present(o, id) == id \in Physical \/ (id # None /\ o.tun.id = id)
IndexOf(o, id) == IF id \in Physical THEN id ELSE o.tun.index

(* A mutant: the route is added and then listed. *)
AddUnlisted(r, next) ==
  IF ~Present(os, r.on) THEN Throw
  ELSE IF r \notin os.routes THEN Command([os EXCEPT !.routes = os.routes \cup {r}], c)
  ELSE IF r \notin journal.routes THEN Save([journal EXCEPT !.routes = journal.routes \cup {r}], At(next))
  ELSE Skip(At(next))

(* Add-OwnedRoute: a route that is there is left; one that is not is listed *)
(* before it is added.                                                      *)
AddOwnedRoute(r, next) ==
  IF ~Present(os, r.on) THEN Throw
  ELSE IF r \in os.routes THEN Skip(At(next))
  ELSE IF r \notin journal.routes THEN Save([journal EXCEPT !.routes = journal.routes \cup {r}], c)
  ELSE Command([os EXCEPT !.routes = os.routes \cup {r}], At(next))

(* Retire-OwnedRoute: removed, if the adapter is still the one, and then    *)
(* struck out.                                                              *)
RetireOwnedRoute(r) ==
  IF r \in os.routes THEN Command([os EXCEPT !.routes = os.routes \ {r}], c)
  ELSE Save([journal EXCEPT !.routes = journal.routes \ {r}], c)

(* A route of the set, in the order of the list, which is left open. *)
Each(set, act(_), next) == IF set = {} THEN Skip(At(next)) ELSE \E r \in set : act(r)
----------------------------------------------------------------------------
(* retire-interface *)

Retire ==
  /\ Step("retire")
  /\ LET tunnel == {r \in journal.routes : r.kind \in {"tunnel", "dns"}} IN
     IF journal.id = None \/ Present(os, journal.id) THEN Throw
     ELSE IF tunnel # {} THEN \E r \in tunnel : RetireOwnedRoute(r)
     ELSE Save([Empty EXCEPT !.endpoint = journal.endpoint, !.routes = journal.routes], At("done"))

(* prepare, which configure-interface and up begin with: the escape route   *)
(* over the best physical adapter, and then no other.                       *)
EscapeRoute == Route("escape", journal.endpoint, os.phys, os.phys)

Escape == Step("escape") /\ AddOwnedRoute(EscapeRoute, "escaped")

Escaped ==
  /\ Step("escaped")
  /\ Each({r \in journal.routes : r.kind = "escape" /\ (r.prefix # journal.endpoint \/ r.on # os.phys)},
          RetireOwnedRoute, IF c.script = "prepare" THEN "done" ELSE "identity")

(* configure-interface *)
Identity ==
  /\ Step("identity")
  /\ IF \/ os.tun.id = None \/ journal.id \notin {None, os.tun.id}
        \/ journal.index \notin {None, os.tun.index} /\ (journal.addresses # {} \/ journal.dns # None)
       THEN Throw
       ELSE Save([journal EXCEPT !.id = os.tun.id, !.index = os.tun.index], At("address"))

Mine == os.tun.id # None /\ os.tun.index = journal.index

Address ==
  /\ Step("address")
  /\ LET next == IF c.script = "configure" THEN "done" ELSE "mtu"
         a == c.lease.address IN
     IF ~Mine THEN Throw
     ELSE IF a \in os.tun.addresses THEN Skip(At(next))
     ELSE IF a \notin journal.addresses \/ (os.tun.dhcp /\ ~journal.dhcp)
       THEN Save([journal EXCEPT !.addresses = journal.addresses \cup {a}, !.dhcp = journal.dhcp \/ os.tun.dhcp], c)
     ELSE Command([os EXCEPT !.tun = [os.tun EXCEPT !.addresses = os.tun.addresses \cup {a}, !.dhcp = FALSE]], At(next))

(* up.  apply_mtu has run, so the MTU is as the lease wants it. *)
Mtu == Step("mtu") /\ Skip(At("dns-route"))

DnsRoute == Step("dns-route") /\ AddOwnedRoute(Route("dns", c.lease.dns, os.tun.id, os.tun.index), "dns")

DnsRecord ==
  IF journal.dns = None THEN [original |-> os.tun.dns, applied |-> None, pending |-> c.lease.dns]
  ELSE [journal.dns EXCEPT !.pending = c.lease.dns]

Dns ==
  \/ Step("dns") /\ Save([journal EXCEPT !.dns = DnsRecord], At("set-dns"))
  \/ Step("set-dns") /\ (IF ~Mine THEN Throw ELSE Command([os EXCEPT !.tun = [os.tun EXCEPT !.dns = c.lease.dns]], At("keep-dns")))
  \/ Step("keep-dns") /\ Save([journal EXCEPT !.dns = [journal.dns EXCEPT !.applied = c.lease.dns, !.pending = None]], At("low"))

Halves ==
  \/ Step("low") /\ AddOwnedRoute(Route("tunnel", "low", os.tun.id, os.tun.index), "high")
  \/ Step("high") /\ AddOwnedRoute(Route("tunnel", "high", os.tun.id, os.tun.index), "stale")

Stale ==
  /\ Step("stale")
  /\ Each({r \in journal.routes : r.kind = "dns" /\ (r.prefix # c.lease.dns \/ r.index # os.tun.index \/ r.on # journal.id)},
          RetireOwnedRoute, "addresses")

RemoveAddress(a, index) ==
  IF os.tun.index = index /\ a \in os.tun.addresses
    THEN Command([os EXCEPT !.tun = [os.tun EXCEPT !.addresses = os.tun.addresses \ {a}]], c)
    ELSE Save([journal EXCEPT !.addresses = journal.addresses \ {a}], c)

OldAddresses ==
  /\ Step("addresses")
  /\ Each(journal.addresses \ {c.lease.address}, LAMBDA a : RemoveAddress(a, journal.index), "done")

(* down: the routes, by the index their adapter has now; then, on the same  *)
(* adapter, name servers and MTU if they are still Porta's, the addresses,  *)
(* and DHCP.                                                                *)
Same == journal.id # None /\ os.tun.id = journal.id

RemoveRoute(r) ==
  LET now == [r EXCEPT !.index = IndexOf(os, r.on)] IN
  IF Present(os, r.on) /\ now \in os.routes THEN Command([os EXCEPT !.routes = os.routes \ {now}], c)
  ELSE Save([journal EXCEPT !.routes = journal.routes \ {r}], c)

DownRoutes == Step("routes") /\ Each(journal.routes, RemoveRoute, "restore-dns")

Ours(record, value) == value # None /\ value \in {record.applied, record.pending}

RestoreDns ==
  /\ Step("restore-dns")
  /\ IF journal.dns # None /\ Same /\ Ours(journal.dns, os.tun.dns)
       THEN Command([os EXCEPT !.tun = [os.tun EXCEPT !.dns = journal.dns.original]], At("restore-mtu"))
       ELSE Skip(At("restore-mtu"))

(* restore_mtu of the manager has run, but for an adapter it did not see. *)
ForgetDns ==
  \/ /\ Step("restore-mtu")
     /\ IF journal.mtu # None /\ Same /\ Ours(journal.mtu, os.tun.mtu)
          THEN Command([os EXCEPT !.tun = [os.tun EXCEPT !.mtu = journal.mtu.original]], At("forget"))
          ELSE Skip(At("forget"))
  \/ Step("forget") /\ Save([journal EXCEPT !.dns = None, !.mtu = None], At("remove-addresses"))

DownAddresses ==
  /\ Step("remove-addresses")
  /\ Each(IF Same THEN journal.addresses ELSE {}, LAMBDA a : RemoveAddress(a, os.tun.index), "dhcp")

Dhcp ==
  /\ Step("dhcp")
  /\ IF Same /\ journal.dhcp THEN Command([os EXCEPT !.tun = [os.tun EXCEPT !.dhcp = TRUE]], At("done")) ELSE Skip(At("done"))
----------------------------------------------------------------------------
(* The manager.  acquire: the lock is taken once, if it is to be had, and   *)
(* the journal read anew.                                                   *)
open_lock == {TRUE, FALSE}

acquire ==
  /\ c.pc = "acquire"
  /\ UNCHANGED journal
  /\ \E locked \in open_lock :
       IF ~locked \/ read_state = {} THEN Exit(os)
       ELSE /\ mem' \in read_state
            /\ c' = CASE c.op = "down" -> Goto(IF needs_cleanup(journal) THEN "restore" ELSE "downed")
                      [] c.op = "up" /\ journal.id \notin {None, os.tun.id} -> Run("retire")
                      [] OTHER -> Goto("next")
            /\ UNCHANGED os

(* prepare_inner: the journal names the endpoint and the adapter ... *)
next_state ==
  /\ c.pc = "next"
  /\ IF c.op = "up" /\ (os.tun.id = None \/ mem.id \notin {None, os.tun.id}) THEN Exit(os) /\ UNCHANGED journal
     ELSE persist([mem EXCEPT !.endpoint = c.dial, !.id = IF c.op = "up" THEN os.tun.id ELSE mem.id], Goto("guard"))

(* A mutant: the filters are put in place once the interface is set up. *)
replace_guard_late ==
  /\ c.pc = "guard"
  /\ IF c.op = "up" /\ os.guard # None THEN Transaction([endpoint |-> c.dial, tun |-> os.tun.id], Run("prepare"))
     ELSE Skip(Run("prepare"))

(* ... before one transaction replaces the filters: those of prepare let    *)
(* nothing through the tunnel adapter.                                      *)
replace_guard ==
  /\ c.pc = "guard"
  /\ Transaction([endpoint |-> c.dial, tun |-> IF c.op = "up" THEN os.tun.id ELSE None], Run("prepare"))

configure == c.pc = "configure" /\ Skip(Run("configure"))

MtuRecord ==
  IF mem.mtu = None THEN [original |-> os.tun.mtu, applied |-> None, pending |-> c.lease.mtu]
  ELSE [mem.mtu EXCEPT !.pending = c.lease.mtu]

(* apply_mtu: listed as pending, set, listed as applied. *)
apply_mtu ==
  LET m == c.lease.mtu IN
  \/ /\ c.pc = "mtu"
     /\ IF mem.id = None \/ os.tun.id # mem.id THEN Exit(os) /\ UNCHANGED journal
        ELSE persist([mem EXCEPT !.mtu = MtuRecord], Goto("set-mtu"))
  \/ /\ c.pc = "set-mtu"
     /\ IF os.tun.id # mem.id THEN Exit(os) /\ UNCHANGED journal
        ELSE native([os EXCEPT !.tun = [os.tun EXCEPT !.mtu = m]], Goto("keep-mtu"))
  \/ /\ c.pc = "keep-mtu"
     /\ persist([mem EXCEPT !.mtu = [mem.mtu EXCEPT !.applied = m, !.pending = None]], Run("up"))

(* restore_mtu: only on the adapter of the journal, and only Porta's value. *)
restore_mtu ==
  \/ /\ c.pc = "restore"
     /\ IF mem.mtu = None \/ mem.id = None \/ os.tun.id # mem.id THEN Skip(Run("down"))
        ELSE IF Ours(mem.mtu, os.tun.mtu) THEN native([os EXCEPT !.tun = [os.tun EXCEPT !.mtu = mem.mtu.original]], Goto("forget-mtu"))
        ELSE Skip(Goto("forget-mtu"))
  \/ /\ c.pc = "forget-mtu"
     /\ persist([mem EXCEPT !.mtu = None], Run("down"))

(* down, after the helper: the filters, then the journal. *)
remove_guard ==
  \/ /\ c.pc = "unguard" /\ Transaction(None, Goto("remove"))
  \/ /\ c.pc = "remove"
     /\ \/ journal' = Empty /\ mem' = Empty /\ c' = Goto("downed") /\ UNCHANGED os
        \/ Exit(os) /\ UNCHANGED journal
----------------------------------------------------------------------------
(* run.  With a journal the gateway is dialed at the saved endpoint, or at  *)
(* the one its URL spells out, and only behind the guard.                   *)
KnownEndpoints == {IF needs_cleanup(journal) THEN {journal.endpoint} ELSE Endpoints} \cup {{e} : e \in Endpoints}

Open ==
  /\ c.pc = "off"
  /\ mem' \in read_state
  /\ \E known \in KnownEndpoints :
       c' = [Off EXCEPT !.pc = "loop", !.active = needs_cleanup(journal), !.endpoints = known]
  /\ UNCHANGED <<os, journal>>

(* The disconnect command of the CLI and of the desktop application. *)
Disconnect ==
  /\ c.pc = "off"
  /\ mem' \in read_state /\ c' = [Off EXCEPT !.pc = "acquire", !.op = "down"]
  /\ UNCHANGED <<os, journal>>

Dial(e) ==
  /\ c.pc = "loop" /\ e \in c.endpoints
  /\ c' = [c EXCEPT !.pc = IF c.active THEN "acquire" ELSE "dial", !.op = "prepare", !.dial = e]
  /\ UNCHANGED <<os, journal, mem>>

(* The gateway answers: prepare, unless that was done before the dial. *)
Connects(lease) ==
  /\ c.pc = "dial"
  /\ c' = [c EXCEPT !.pc = IF c.active THEN "device" ELSE "acquire", !.op = "prepare", !.lease = lease]
  /\ UNCHANGED <<os, journal, mem>>

prepared ==
  /\ c.pc = "prepared"
  /\ c' = [c EXCEPT !.pc = IF c.lease = NoLease THEN "dial" ELSE "device", !.active = TRUE, !.op = "none"]
  /\ UNCHANGED <<os, journal, mem>>

(* The dial or the session fails and is tried again, or not. *)
Retry ==
  /\ c.pc \in {"dial", "connected"}
  /\ c' = [c EXCEPT !.pc = "loop", !.op = "none", !.lease = NoLease]
  /\ UNCHANGED <<os, journal, mem>>

(* Tun::open, once; then up, which begins with prepare. *)
Device ==
  /\ c.pc = "device"
  /\ IF c.device \/ os.tun # NoTun THEN UNCHANGED os
     ELSE \E id \in Adapters \ {journal.id}, i \in Indexes : os' = [os EXCEPT !.tun = NewTun(id, i)]
  /\ c' = [c EXCEPT !.pc = "acquire", !.op = "up", !.device = TRUE]
  /\ UNCHANGED <<journal, mem>>

(* stop: the user cancels; down. *)
Cancel ==
  /\ c.pc \in {"loop", "dial", "connected"}
  /\ c' = [c EXCEPT !.pc = "acquire", !.op = "down"]
  /\ UNCHANGED <<os, journal, mem>>

downed == c.pc = "downed" /\ Exit(os) /\ UNCHANGED journal

(* fail_after_device, or the process dies: the guard stays.  A helper in    *)
(* progress runs on without it.                                             *)
Die ==
  /\ c.pc # "off" /\ ~c.dead
  /\ IF c.script = "none" THEN Exit(os)
     ELSE c' = [c EXCEPT !.dead = TRUE, !.pc = "script"] /\ mem' = Empty /\ os' = Closed(os)
  /\ UNCHANGED journal
----------------------------------------------------------------------------
(* The machine restarts: routes of the active store go, and an adapter of   *)
(* Porta's; the filters are persistent.                                     *)
Reboot ==
  /\ c' = Off /\ mem' = Empty
  /\ LET o == Closed(os) IN
     \E i \in Indexes : os' = [o EXCEPT !.routes = {}, !.tun = [o.tun EXCEPT !.index = IF o.tun.index = None THEN None ELSE i]]
  /\ UNCHANGED journal

(* Another physical adapter has the best route; the last one may be gone.   *)
(* Not between the look-up of the route and the command that uses it.       *)
PathChanges ==
  /\ c.step # "escape"
  /\ \E p \in Physical \ {os.phys} :
       os' \in {[os EXCEPT !.phys = p], [os EXCEPT !.phys = p, !.routes = {r \in os.routes : r.on # os.phys}]}
  /\ UNCHANGED <<journal, mem, c>>

(* The user sets name servers or the MTU of the tunnel adapter himself. *)
AdminSets ==
  /\ os.tun.id # None /\ c.pc \in {"off", "connected"}
  /\ os' \in {[os EXCEPT !.tun = [os.tun EXCEPT !.dns = "admin"]], [os EXCEPT !.tun = [os.tun EXCEPT !.mtu = "admin"]]}
  /\ UNCHANGED <<journal, mem, c>>

Helper == \/ Retire \/ Escape \/ Escaped \/ Identity \/ Address \/ Mtu \/ DnsRoute \/ Dns \/ Halves \/ Stale
          \/ OldAddresses \/ DownRoutes \/ RestoreDns \/ ForgetDns \/ DownAddresses \/ Dhcp \/ Done
Manager == acquire \/ next_state \/ replace_guard \/ configure \/ apply_mtu \/ restore_mtu \/ remove_guard
Client == \/ Device \/ prepared \/ Cancel \/ downed \/ Die
          \/ \E e \in Endpoints : Dial(e)
          \/ \E lease \in Leases : Connects(lease)
Event == Open \/ Disconnect \/ Retry \/ Reboot \/ PathChanges \/ AdminSets

(* A value that was set while pending, and not confirmed, and that the new  *)
(* record of the pending change no longer names.                            *)
Overtakes(old, new, value) ==
  /\ old # None /\ new # None /\ old.pending = value /\ old.applied # value
  /\ new.pending \notin {None, value}

WindowsNext ==
  /\ \/ (Helper \/ Manager \/ Client) /\ UNCHANGED events
     \/ Event /\ events > 0 /\ events' = events - 1
  /\ lost' = (lost \/ Overtakes(journal.dns, journal'.dns, os.tun.dns) \/ Overtakes(journal.mtu, journal'.mtu, os.tun.mtu))

WindowsSpec == WindowsInit /\ [][WindowsNext]_windows_vars
----------------------------------------------------------------------------
(* The record of a name server or MTU keeps the original and names the      *)
(* value in force.                                                          *)
Claims(record, value, porta) ==
  journal.id = os.tun.id /\ record # None /\ record.original \notin porta /\ Ours(record, value)

(* Wherever the process, the helper or the machine stops, and whichever     *)
(* write or command fails, the journal on file names every change that is   *)
(* in force (address, DHCP, name server, MTU, route, filters) with the      *)
(* value to go back to, and is one that open() accepts, so that a later     *)
(* disconnect restores the system.  The one exception is a name server or   *)
(* MTU of an adapter Porta did not make whose change was interrupted before *)
(* it was confirmed and then overtaken by the next run's.                   *)
WindowsJournalRestores ==
  /\ validate_state(journal)
  /\ os.guard # None => journal # Empty
  /\ \A r \in os.routes : \E owned \in journal.routes : owned.kind = r.kind /\ owned.prefix = r.prefix /\ owned.on = r.on
  /\ os.tun.id # None =>
       /\ (os.tun.addresses # {} \/ ~os.tun.dhcp) => journal.id = os.tun.id
       /\ os.tun.addresses \subseteq journal.addresses
       /\ ~os.tun.dhcp => journal.dhcp
       /\ (os.tun.dns \in PortaDns /\ ~lost) => Claims(journal.dns, os.tun.dns, PortaDns)
       /\ (os.tun.mtu \in PortaMtu /\ ~lost) => Claims(journal.mtu, os.tun.mtu, PortaMtu)

(* Of the packets that would pass beside the guard, these are meant to. *)
Meant(g, p) ==
  /\ p.way # "forward"
  /\ \/ p.loopback
     \/ p.family = 4 /\ g.tun # None /\ p.interface = g.tun
     \/ /\ p.address = g.endpoint /\ p.family = family(g.endpoint) /\ p.application = "porta"
        /\ p.protocol \in {"tcp", "udp"} /\ p.port = "gateway"
     \/ /\ p.family = 6 /\ family(g.endpoint) = 6 /\ p.address \in {"link", "multicast"} /\ p.protocol = "icmp6"
        /\ p.type = 135 \/ (p.type = 134 /\ p.way = "in")

(* The guards that let pass what they are meant to and nothing else: loop-  *)
(* back, IPv4 over the tunnel adapter they name, the client's own traffic   *)
(* with the endpoint and, with an IPv6 endpoint, neighbor discovery.        *)
Confining ==
  UNION {LET filters == guard_filters(g) IN
         IF \A p \in Packets : Admits(filters, p) <=> Meant(g, p) THEN {g} ELSE {} :
         g \in [endpoint : Endpoints, tun : Adapters \cup {None}]}

(* The guard stands while anything of Porta's is set: from before the first *)
(* change, over every failure, crash and restart, until disconnect has      *)
(* undone the last one.  In a session it names the endpoint in use, as the  *)
(* journal does, and the tunnel adapter.                                    *)
WindowsGuardCovers ==
  /\ (os.routes # {} \/ os.tun.addresses # {} \/ (os.tun.dns \in PortaDns /\ ~lost)) => os.guard # None
  /\ c.pc = "connected" => /\ os.guard = [endpoint |-> c.dial, tun |-> os.tun.id]
                           /\ journal.endpoint = c.dial
                           /\ os.tun.addresses = {c.lease.address}

(* Whatever stops, what was changed can be undone, and until then a guard   *)
(* stands that confines.                                                    *)
WindowsIsSafe ==
  /\ WindowsJournalRestores /\ WindowsGuardCovers
  /\ os.guard # None => os.guard \in Confining
============================================================================
