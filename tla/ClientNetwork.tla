--------------------------- MODULE ClientNetwork ---------------------------
(***************************************************************************)
(* Automatic networking of the Linux client: the recovery journal and the  *)
(* output guard (porta-client/src/linux/network.rs) under the life of the  *)
(* process (linux/client.rs).  The journal file and the kernel outlive the *)
(* process; a step is one write of the journal or one command that changes *)
(* the kernel, with the reads that precede it, so the process may die, and *)
(* the write or the command may fail, between any two of them.             *)
(*                                                                         *)
(* A tunnel link is known by its index and by the alias Porta gives it,    *)
(* which names the nftables table of the journal; a physical link by its   *)
(* index and hardware address, or by index and name when it has none.      *)
(* There is one physical default route, gateways and the MTU are left out, *)
(* and the name of the tunnel interface is the same in every run.          *)
(***************************************************************************)
EXTENDS Integers, FiniteSets, Sequences, SequencesExt

CONSTANTS Endpoints,     \* addresses of the gateway
          Leases,        \* leases: records of an address and a DNS server
          Indexes,       \* interface indexes the kernel may give
          Names,         \* names of the physical link
          Hardware,      \* its hardware addresses; None: it has none
          Tables,        \* random table names
          AdminRoutes,   \* endpoints the administrator may route himself
          None,
          MaxActions,    \* MAX_ACTIONS
          MaxEndpoints,  \* MAX_ENDPOINTS
          MaxEvents      \* bound: starts, redials, reboots, and changes of the physical link
                         \*   and of the administrator's routes

ASSUME NetworkAssumption ==
  /\ None \notin Indexes \cup Tables \cup Hardware /\ AdminRoutes \subseteq Endpoints
  /\ Cardinality(Indexes) > 1 /\ Cardinality(Tables) > 1 /\ MaxEvents \in Nat
  /\ MaxActions \in Nat /\ MaxEndpoints \in Nat \ {0} /\ IsFiniteSet(Endpoints)
  /\ \A l \in Leases : /\ l = [address |-> l.address, dns |-> l.dns]
                       /\ l.address # None /\ l.dns \notin {None, "low", "high"}

VARIABLES os,      \* the kernel and systemd-resolved
          saved,   \* the journal file; Empty when there is none
          mem,     \* NetworkManager.state
          c,       \* the process: run(), run_loop() and the call in progress
          events   \* what the bound leaves

network_vars == <<os, saved, mem, c, events>>
----------------------------------------------------------------------------
Empty == [table |-> None, interface |-> None, endpoints |-> {}, undo |-> <<>>]
NoTun == [index |-> None, alias |-> None, link |-> "down", addresses |-> {}, routes |-> {}, dns |-> None]
NewTun(i) == [NoTun EXCEPT !.index = i]
NoLease == [address |-> None, dns |-> None]
Off == [pc |-> "off", then |-> "off", half |-> FALSE, mode |-> "none", dial |-> None,
        escape |-> None, next |-> NoLease, lease |-> NoLease, started |-> FALSE, endpoints |-> {}]
Loop == [Off EXCEPT !.pc = "loop", !.lease = c.lease, !.started = c.started, !.endpoints = c.endpoints]
Down == [Off EXCEPT !.pc = "cleanup", !.mode = "all"]

Links == [index : Indexes, name : Names, mac : Hardware \cup {None}]

Booted(o) ==
  /\ o.phys \in Links
  /\ o.escapes = {} /\ o.foreign = {} /\ o.guards = {}
  /\ o.persistent \in BOOLEAN
  /\ IF o.persistent THEN \E i \in Indexes \ {o.phys.index} : o.tun = NewTun(i) ELSE o.tun = NoTun

Kernels == [tun : {NoTun} \cup {NewTun(i) : i \in Indexes}, phys : Links, escapes : {{}}, foreign : {{}},
            guards : {{}}, persistent : BOOLEAN]

NetworkInit ==
  /\ os \in {o \in Kernels : Booted(o)}
  /\ saved = Empty /\ mem = Empty /\ c = Off /\ events = MaxEvents
----------------------------------------------------------------------------
(* The kernel takes a tunnel link away, with its addresses and routes, when *)
(* the process that opened it dies, unless the administrator made it.       *)
Closed(o) == IF o.persistent THEN o ELSE [o EXCEPT !.tun = NoTun]

End(o) == c' = Off /\ mem' = Empty /\ os' = Closed(o)

(* An error ends the process and leaves the guard; if the user has asked    *)
(* for a disconnection meanwhile, the changes are undone first.  state is   *)
(* the journal in memory as the failed call leaves it.                      *)
Fails(state, o) ==
  \/ End(o)
  \/ /\ c.started /\ c.mode # "all"
     /\ c' = Down /\ mem' = state /\ os' = o

(* persist: the file is replaced by a rename; the error may come before the *)
(* rename or, from the sync of the directory, after it.                     *)
persist(new, back, next) ==
  \/ mem' = new /\ saved' = new /\ c' = next /\ UNCHANGED os
  \/ \E file \in {saved, new} : saved' = file /\ Fails(back, os)

(* A command; one that times out may have been carried out. *)
invoke(new, next) ==
  \/ os' = new /\ c' = next /\ UNCHANGED <<saved, mem>>
  \/ \E o \in {os, new} : Fails(mem, o) /\ UNCHANGED saved

Half == [c EXCEPT !.half = TRUE]
Goto(pc) == [c EXCEPT !.pc = pc, !.half = FALSE]

(* A mutant: the action is kept in memory until the next write. *)
RecordInMemory(a, next) ==
  mem' = [mem EXCEPT !.undo = Append(@, a)] /\ c' = next /\ UNCHANGED <<os, saved>>

(* record: the action is in the file before the change is made; a journal   *)
(* that is full takes no more.                                              *)
record(a, next) ==
  IF Len(mem.undo) >= MaxActions THEN Fails(mem, os) /\ UNCHANGED saved
  ELSE persist([mem EXCEPT !.undo = Append(@, a)], mem, next)
----------------------------------------------------------------------------
(* The actions of the journal. *)
link_action(kind, value) ==
  [kind |-> kind, value |-> value, index |-> os.tun.index, name |-> None, mac |-> None]
escape_action(e) ==
  [kind |-> "escape", value |-> e, index |-> os.phys.index, name |-> os.phys.name, mac |-> os.phys.mac]

has_action(kind) == \E i \in DOMAIN mem.undo : mem.undo[i].kind = kind
has_address(x) == \E i \in DOMAIN mem.undo : mem.undo[i].kind = "address" /\ mem.undo[i].value = x

TunIs(o, table, index) == table # None /\ o.tun.index = index /\ o.tun.alias = table

same_link_identity(a, o) == IF a.mac # None THEN o.phys.mac = a.mac ELSE o.phys.name = a.name

(* action_link: whether the link an action is about is still there ... *)
action_link(a, o, table) ==
  IF a.kind # "escape" THEN TunIs(o, table, a.index)
  ELSE o.phys.index = a.index /\ same_link_identity(a, o)

(* Whether the kernel has a link of that index. *)
link_by_index(o, index) == index \in {o.phys.index, o.tun.index}

(* ... and the case in which undo refuses to say. *)
Unverifiable(a, o) ==
  /\ a.kind = "escape" /\ a.mac = None
  /\ ~(o.phys.index = a.index /\ o.phys.name = a.name)
  /\ link_by_index(o, a.index)

(* A route of Porta's is told from others by the metric of its journal and  *)
(* a protocol number; the name of the journal's table stands for both.      *)
owned_route(value, table) == <<value, table>>

(* undo: what the command makes of the kernel.  Taking a link down flushes  *)
(* the routes over it.                                                      *)
Undone(a, o, table) ==
  IF ~action_link(a, o, table) THEN o
  ELSE CASE a.kind = "alias" -> [o EXCEPT !.tun.alias = None]
         [] a.kind = "link" -> [o EXCEPT !.tun.link = a.value,
                                         !.tun.routes = IF a.value = "up" THEN @ ELSE {}]
         [] a.kind = "address" -> [o EXCEPT !.tun.addresses = @ \ {a.value}]
         [] a.kind \in {"route", "dns-route"} -> [o EXCEPT !.tun.routes = @ \ {owned_route(a.value, table)}]
         [] a.kind = "dns" -> [o EXCEPT !.tun.dns = None]
         [] a.kind = "escape" -> [o EXCEPT !.escapes = @ \ {owned_route(a.value, table)}]

(* cleanup_matching: from the last action to the first, undo, then forget. *)
Wanted(a) ==
  CASE c.mode = "stale" -> a.kind # "escape"
    [] c.mode = "final" -> \/ a.kind = "address" /\ a.value # c.next.address
                           \/ a.kind = "dns-route" /\ a.value # c.next.dns
                           \/ a.kind = "escape" /\ a.value # c.dial
    [] OTHER -> TRUE

Pending == {i \in DOMAIN mem.undo : Wanted(mem.undo[i])}
LastWanted == CHOOSE i \in Pending : \A j \in Pending : j <= i

undo ==
  /\ c.pc = "cleanup" /\ ~c.half /\ Pending # {}
  /\ LET a == mem.undo[LastWanted] IN
       IF Unverifiable(a, os) THEN Fails(mem, os) /\ UNCHANGED saved
       ELSE invoke(Undone(a, os, mem.table), Half)

forget ==
  /\ c.pc = "cleanup" /\ c.half
  /\ persist([mem EXCEPT !.undo = RemoveAt(@, LastWanted)], mem, [c EXCEPT !.half = FALSE])

cleaned ==
  /\ c.pc = "cleanup" /\ ~c.half /\ Pending = {}
  /\ \/ c.mode = "stale" /\ persist([mem EXCEPT !.interface = None], [mem EXCEPT !.interface = None],
                                    [Goto("alias") EXCEPT !.mode = "none"])
     \/ c.mode = "final" /\ c' = [Loop EXCEPT !.pc = "connected", !.lease = c.next]
                         /\ UNCHANGED <<os, saved, mem>>
     \/ c.mode = "all" /\ c' = Goto("table") /\ UNCHANGED <<os, saved, mem>>
----------------------------------------------------------------------------
(* down, after its cleanup: the guard, then the file. *)
delete_table ==
  /\ c.pc = "table"
  /\ IF \E g \in os.guards : g.table = mem.table
       THEN invoke([os EXCEPT !.guards = {g \in @ : g.table # mem.table}], Goto("remove"))
       ELSE c' = Goto("remove") /\ UNCHANGED <<os, saved, mem>>

remove_file ==
  /\ c.pc = "remove"
  /\ \E file \in {saved, Empty} : saved' = file
  /\ End(os)
----------------------------------------------------------------------------
(* prepare(c.dial), then c.then. *)
TablesInUse == {saved.table, mem.table, os.tun.alias} \cup {g.table : g \in os.guards}
               \cup {r[2] : r \in os.escapes} \cup {r[2] : r \in os.tun.routes}
FreshTable == CHOOSE t \in Tables : t \notin TablesInUse

(* preflight: whether the rules of routing and the resolver are ones that   *)
(* Porta can work with; they are the administrator's and are not kept here. *)
check_rules == {TRUE, FALSE}
check_stub_resolver == {TRUE, FALSE}

preflight ==
  /\ c.pc = "prepare" /\ ~c.half
  /\ \E rules \in check_rules, resolver \in check_stub_resolver :
       IF rules /\ resolver THEN c' = Half /\ UNCHANGED <<os, saved, mem>>
       ELSE Fails(mem, os) /\ UNCHANGED saved

initialize_state ==
  /\ c.pc = "prepare" /\ c.half /\ mem.table = None
  /\ persist([Empty EXCEPT !.table = FreshTable], Empty, c)

admit ==
  /\ c.pc = "prepare" /\ c.half /\ mem.table # None /\ c.dial \notin mem.endpoints
  /\ IF Cardinality(mem.endpoints) >= MaxEndpoints THEN Fails(mem, os) /\ UNCHANGED saved
     ELSE persist([mem EXCEPT !.endpoints = @ \cup {c.dial}], mem, c)

(* protect: one transaction replaces the rules of the table. *)
Protected(o) ==
  LET link == IF mem.interface # None /\ TunIs(o, mem.table, mem.interface) THEN mem.interface ELSE None
      guard == [table |-> mem.table, tun |-> link, endpoints |-> mem.endpoints]
  IN [o EXCEPT !.guards = {g \in @ : g.table # mem.table} \cup {guard}]

(* A mutant: the guard is left to the end of up. *)
LateProtect ==
  /\ c.pc = "prepare" /\ c.half /\ mem.table # None /\ c.dial \in mem.endpoints
  /\ c' = Goto("escape") /\ UNCHANGED <<os, saved, mem>>

protect ==
  /\ c.pc = "prepare" /\ c.half /\ mem.table # None /\ c.dial \in mem.endpoints
  /\ invoke(Protected(os), Goto("escape"))

HostRoutes(e) == {r \in os.escapes : r[1] = e} \cup {<<f, None>> : f \in os.foreign \cap {e}}
Recorded(a) == a \in Range(mem.undo)

(* ensure_escape: an existing host route will do, whoever made it. *)
ensure_escape ==
  /\ c.pc = "escape"
  /\ CASE Cardinality(HostRoutes(c.dial)) > 1 -> Fails(mem, os) /\ UNCHANGED saved
       [] Cardinality(HostRoutes(c.dial)) = 1 -> c' = Goto(c.then) /\ UNCHANGED <<os, saved, mem>>
       [] OTHER -> LET a == escape_action(c.dial)
                       next == [Goto("add") EXCEPT !.escape = a]
                   IN IF Recorded(a) THEN c' = next /\ UNCHANGED <<os, saved, mem>> ELSE record(a, next)

(* The route is added by the name of the link, which may have changed. *)
add_escape ==
  /\ c.pc = "add"
  /\ IF c.escape.name = os.phys.name
       THEN invoke([os EXCEPT !.escapes = @ \cup {owned_route(c.dial, mem.table)}],
                   [Goto(c.then) EXCEPT !.escape = None])
       ELSE Fails(mem, os) /\ UNCHANGED saved
----------------------------------------------------------------------------
(* up: the link, and the lease for it, may be ones it refuses; then what an *)
(* earlier run or an earlier link left.                                     *)
PreviousIndex ==
  LET marks == {i \in DOMAIN mem.undo : mem.undo[i].kind \in {"link", "alias"}}
  IN IF mem.interface # None \/ marks = {} THEN mem.interface
     ELSE mem.undo[CHOOSE i \in marks : \A j \in marks : i <= j].index

up ==
  /\ c.pc = "up"
  /\ UNCHANGED saved
  /\ \/ Fails(mem, os)
     \/ /\ c' = IF PreviousIndex # None /\ ~TunIs(os, mem.table, PreviousIndex)
                  THEN [Goto("cleanup") EXCEPT !.mode = "stale"] ELSE Goto("alias")
        /\ UNCHANGED <<os, mem>>

Order == <<"alias", "link", "interface", "start", "address", "low", "high", "dns-route", "dns",
           "endpoints", "guard">>
After(pc) == Order[1 + CHOOSE i \in DOMAIN Order : Order[i] = pc]
Done == Goto(After(c.pc))

set_alias ==
  /\ c.pc = "alias"
  /\ CASE os.tun.alias = mem.table -> c' = Done /\ UNCHANGED <<os, saved, mem>>
       [] os.tun.alias \notin {None, mem.table} -> Fails(mem, os) /\ UNCHANGED saved
       [] OTHER -> IF c.half THEN invoke([os EXCEPT !.tun.alias = mem.table], Done)
                   ELSE record(link_action("alias", "-"), Half)

record_link ==
  /\ c.pc = "link"
  /\ CASE has_action("link") -> c' = Done /\ UNCHANGED <<os, saved, mem>>
       [] ~has_action("link") /\ os.tun.addresses # {} -> Fails(mem, os) /\ UNCHANGED saved
       [] OTHER -> record(link_action("link", os.tun.link), Done)

record_interface ==
  /\ c.pc = "interface"
  /\ IF mem.interface = os.tun.index THEN c' = Done /\ UNCHANGED <<os, saved, mem>>
     ELSE LET new == [mem EXCEPT !.interface = os.tun.index] IN persist(new, new, Done)

start_link == c.pc = "start" /\ invoke([os EXCEPT !.tun.link = "up"], Done)

set_address ==
  /\ c.pc = "address"
  /\ LET x == c.next.address IN
       CASE ~has_address(x) -> record(link_action("address", x), c)
         [] has_address(x) /\ x \in os.tun.addresses -> c' = Done /\ UNCHANGED <<os, saved, mem>>
         [] OTHER -> invoke([os EXCEPT !.tun.addresses = @ \cup {x}], Done)

(* ensure_route, for the two halves of the address space and for the DNS. *)
ensure_route ==
  /\ c.pc \in {"low", "high", "dns-route"}
  /\ LET a == IF c.pc = "dns-route" THEN link_action("dns-route", c.next.dns) ELSE link_action("route", c.pc)
         there == {r \in os.tun.routes : r[1] = a.value}
     IN CASE there # {} -> IF Recorded(a) /\ there = {owned_route(a.value, mem.table)}
                             THEN c' = Done /\ UNCHANGED <<os, saved, mem>>
                             ELSE Fails(mem, os) /\ UNCHANGED saved
          [] there = {} /\ ~Recorded(a) -> record(a, c)
          [] OTHER -> invoke([os EXCEPT !.tun.routes = @ \cup {owned_route(a.value, mem.table)}], Done)

set_dns ==
  /\ c.pc = "dns"
  /\ CASE has_action("dns") -> invoke([os EXCEPT !.tun.dns = c.next.dns], Done)
       [] ~has_action("dns") /\ os.tun.dns # None -> Fails(mem, os) /\ UNCHANGED saved
       [] OTHER -> record(link_action("dns", "-"), c)

keep_endpoint ==
  /\ c.pc = "endpoints"
  /\ persist([mem EXCEPT !.endpoints = {c.dial}], mem, Done)

(* A mutant: what earlier leases and endpoints left is not cleaned up. *)
NoFinalCleanup ==
  /\ c.pc = "guard"
  /\ invoke(Protected(os), [Loop EXCEPT !.pc = "connected", !.lease = c.next])

protect_again ==
  /\ c.pc = "guard"
  /\ invoke(Protected(os), [Goto("cleanup") EXCEPT !.mode = "final"])
----------------------------------------------------------------------------
(* What open() takes for a journal: what this program may have written. *)
validate_action(a) ==
  /\ a.index # None
  /\ CASE a.kind = "alias" -> a.value = "-"
       [] a.kind = "link" -> a.value \in {"up", "down"}
       [] a.kind = "address" -> a.value \in {l.address : l \in Leases}
       [] a.kind = "dns-route" -> a.value \in {l.dns : l \in Leases}
       [] a.kind = "route" -> a.value \in {"low", "high"}
       [] a.kind = "escape" -> a.value \in Endpoints
       [] OTHER -> a.kind = "dns"

validate_state(state) ==
  /\ state.table \in Tables /\ state.interface \in Indexes \cup {None}
  /\ state.endpoints \subseteq Endpoints /\ Cardinality(state.endpoints) <= MaxEndpoints
  /\ Len(state.undo) <= MaxActions
  /\ \A i \in DOMAIN state.undo : validate_action(state.undo[i])

(* open_lock: the process keeps the lock to its end, so there is one at a   *)
(* time.  read_state: no file is an empty journal, and with a file that is  *)
(* not taken for a journal the program ends at once.                        *)
open_lock == c.pc = "off"
read_state == IF saved = Empty THEN {Empty} ELSE {state \in {saved} : validate_state(state)}
open_manager == open_lock /\ mem' \in read_state

(* The endpoints to dial after a restart: those of the journal that have    *)
(* the port of the gateway's URL, or its host if that is an address.        *)
restored_endpoints(known) == (SUBSET known \ {{}}) \cup {{e} : e \in Endpoints}

(* run: the endpoints of the journal, if it has any, mean that the guard is *)
(* to be in place before the first dial.                                    *)
Start ==
  /\ open_manager
  /\ \E known \in IF saved.endpoints = {} THEN {{}} ELSE restored_endpoints(saved.endpoints) :
       c' = [Off EXCEPT !.pc = "loop", !.started = saved.endpoints # {}, !.endpoints = known]
  /\ UNCHANGED <<os, saved>>

cleanup_network ==
  /\ open_manager
  /\ c' = Down
  /\ UNCHANGED <<os, saved>>

(* A disconnection undoes the changes, if the network was started. *)
Cancel ==
  /\ c.pc \in {"loop", "dial", "connected"}
  /\ UNCHANGED saved
  /\ IF c.started THEN c' = Down /\ UNCHANGED <<os, mem>>
     ELSE End(os)

(* The host name is resolved once; the addresses are kept. *)
resolve_endpoints == IF c.endpoints = {} THEN Endpoints ELSE c.endpoints

Dial(e) ==
  /\ c.pc = "loop"
  /\ e \in resolve_endpoints
  /\ c' = [Goto(IF c.started THEN "prepare" ELSE "dial") EXCEPT
              !.then = "dial", !.dial = e, !.endpoints = resolve_endpoints]
  /\ UNCHANGED <<os, saved, mem>>

(* The dial fails: the loop goes on. *)
Retry == c.pc = "dial" /\ c' = Loop /\ UNCHANGED <<os, saved, mem>>

(* The packets are pumped both ways until the tunnel fails, and the loop    *)
(* goes on, or the device does, which ends the run.                         *)
run_connection ==
  /\ c.pc = "connected"
  /\ \/ c' = Loop /\ UNCHANGED <<os, mem>>
     \/ Fails(mem, os)
  /\ UNCHANGED saved

Connected(lease) ==
  /\ c.pc = "dial"
  /\ c' = [Goto(IF c.started THEN "device" ELSE "prepare") EXCEPT
              !.then = "device", !.next = lease, !.started = TRUE]
  /\ UNCHANGED <<os, saved, mem>>

(* A new device is a new link, unless the administrator made it. *)
replace_device(o) ==
  IF o.persistent THEN {o} ELSE {[o EXCEPT !.tun = NewTun(i)] : i \in Indexes \ {o.phys.index}}

(* The device is replaced when the address has changed; then up, which      *)
(* begins with prepare.                                                     *)
Device ==
  /\ c.pc = "device"
  /\ os' \in IF c.lease.address = c.next.address THEN {os} ELSE replace_device(os)
  /\ c' = [Goto("prepare") EXCEPT !.then = "up"]
  /\ UNCHANGED <<saved, mem>>

(* A crash, an error elsewhere in the client, a time-out of the cleanup. *)
Die ==
  /\ c.pc # "off"
  /\ End(os)
  /\ UNCHANGED saved
----------------------------------------------------------------------------
(* The machine restarts: of all this only the file is left. *)
Reboot ==
  /\ os' \in {o \in Kernels : Booted(o) /\ o.persistent = os.persistent}
  /\ c' = Off /\ mem' = Empty /\ UNCHANGED saved

(* The physical link is renamed; or it goes down and comes back under an-  *)
(* other index or hardware address, which flushes the routes over it.  The *)
(* latter is taken not to happen between the look-up of the link and the   *)
(* command that adds a route by its name.                                  *)
Rename ==
  /\ \E name \in Names \ {os.phys.name} : os' = [os EXCEPT !.phys.name = name]
  /\ UNCHANGED <<saved, mem, c>>

Replace ==
  /\ c.pc # "add"
  /\ \E link \in Links :
       /\ <<link.index, link.mac>> # <<os.phys.index, os.phys.mac>>
       /\ link.name = os.phys.name /\ link.index # os.tun.index
       /\ os' = [os EXCEPT !.phys = link, !.escapes = {}, !.foreign = {}]
  /\ UNCHANGED <<saved, mem, c>>

AdminRoute(e) ==
  /\ os' = [os EXCEPT !.foreign = IF e \in @ THEN @ \ {e} ELSE @ \cup {e}]
  /\ UNCHANGED <<saved, mem, c>>
----------------------------------------------------------------------------
Prepare == preflight \/ initialize_state \/ admit \/ protect \/ ensure_escape \/ add_escape
Configure == \/ up \/ set_alias \/ record_link \/ record_interface \/ start_link \/ set_address
             \/ ensure_route \/ set_dns \/ keep_endpoint \/ protect_again
Cleanup == undo \/ forget \/ cleaned \/ delete_table \/ remove_file
Client == \/ Cancel \/ Device \/ Die
          \/ \E e \in Endpoints : Dial(e)
          \/ \E lease \in Leases : Connected(lease)
Event == \/ Start \/ cleanup_network \/ Retry \/ run_connection \/ Reboot \/ Rename \/ Replace
         \/ \E e \in AdminRoutes : AdminRoute(e)

NetworkNext ==
  \/ (Prepare \/ Configure \/ Cleanup \/ Client) /\ UNCHANGED events
  \/ Event /\ events > 0 /\ events' = events - 1

NetworkSpec == NetworkInit /\ [][NetworkNext]_network_vars
----------------------------------------------------------------------------
Guards == [table : Tables, tun : Indexes \cup {None}, endpoints : (SUBSET Endpoints) \ {{}}]

NetworkTypes ==
  /\ os.phys \in Links /\ os.tun.index \in (Indexes \ {os.phys.index}) \cup {None}
  /\ os.escapes \subseteq Endpoints \X Tables /\ os.guards \subseteq Guards
  /\ mem = Empty \/ validate_state(mem)

(* The kernel without any of Porta's changes but the guard. *)
Clean(o) == o.tun = NewTun(o.tun.index) /\ o.escapes = {}

Restored == FoldRight(LAMBDA a, o : Undone(a, o, saved.table), saved.undo, os)

(* Wherever the process or the machine stops, and whichever write or com-  *)
(* mand fails, the journal on file is one that the next process opens, and *)
(* it gives the kernel back: undoing its actions from the last to the      *)
(* first leaves no change of Porta's, and its table is the only one;       *)
(* unless it holds an action about a link without hardware address that    *)
(* undo refuses to touch.  Each change is undone once: no action is listed *)
(* twice.                                                                  *)
JournalRestores ==
  /\ NetworkTypes
  /\ saved = Empty \/ validate_state(saved)
  /\ (\E a \in Range(saved.undo) : Unverifiable(a, os)) \/ Clean(Restored)
  /\ \A g \in os.guards : g.table = saved.table
  /\ \A i, j \in DOMAIN saved.undo : saved.undo[i] = saved.undo[j] => i = j

(* "removes the guard last" (docs/clients.md): no change is made before the *)
(* guard is there and none is left when it goes, through crashes, failures, *)
(* reconnections and partial restorations.  A guard that is left is remem-  *)
(* bered: the journal names endpoints, so the next run dials under it.      *)
GuardCovers ==
  /\ ~Clean(os) => os.guards # {}
  /\ os.guards # {} => saved.endpoints # {}

(* What the process leaves behind, wherever it stops: a journal that gives  *)
(* the kernel back, and the guard over whatever is not given back yet.      *)
NetworkIsSafe == JournalRestores /\ GuardCovers

Routes(dns) == {"low", "high", dns} \X {saved.table}

(* Once started, and after any crash or reboot that left a journal, the     *)
(* client dials under the guard, to an endpoint that the guard admits and   *)
(* that has a route beside the tunnel.  When it reports that it is connec-  *)
(* ted, link, guard and routes are those of this lease and this endpoint,   *)
(* and nothing is left of earlier ones.                                     *)
ReadyStep ==
  /\ c.pc # "dial" /\ c'.pc = "dial" /\ (c'.started \/ saved.endpoints # {}) =>
       /\ \E g \in os'.guards : c'.dial \in g.endpoints
       /\ HostRoutes(c.dial)' # {}
  /\ c.pc # "connected" /\ c'.pc = "connected" =>
       /\ os'.guards = {[table |-> saved.table, tun |-> os.tun.index, endpoints |-> {c.dial}]}
       /\ os'.tun = [index |-> os.tun.index, alias |-> saved.table, link |-> "up",
                      addresses |-> {c.next.address}, routes |-> Routes(c.next.dns),
                      dns |-> c.next.dns]
       /\ \A r \in os'.escapes : r[1] = c.dial

ReadyWhenReached == [][ReadyStep]_network_vars
============================================================================
