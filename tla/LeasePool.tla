----------------------------- MODULE LeasePool -----------------------------
(***************************************************************************)
(* The gateway's address pool (porta-server/src/state/pool.rs).            *)
(*                                                                         *)
(* Every identity that ever obtained a tunnel address keeps it: an         *)
(* inactive lease is still a reservation, because connection-tracking      *)
(* state of the old owner may linger in the kernel.  All fields of         *)
(* PoolInner are guarded by one mutex that is held across the write of the *)
(* state file, so acquire, release and register_lease are atomic with      *)
(* respect to each other; what is not atomic is the file against a crash.  *)
(*                                                                         *)
(* An address is its offset from the network address of the pool: offset 0 *)
(* is the network, 1 the gateway, Broadcast the broadcast address.  A      *)
(* client without a record has the record NoRecord (a persisted generation *)
(* 0 is refused by load_state, so 0 can stand for "no generation").        *)
(***************************************************************************)
EXTENDS Integers, FiniteSets

CONSTANTS Clients,        \* lease identities (registry_identity's lease_id)
          GroupIds,       \* HTTP/2 lane-session IDs
          NoGroup,        \* the empty group ID of an exclusive lease
          NoClient,       \* an address that nobody owns
          Handles,        \* the callers that may hold a Lease value
          Broadcast,      \* offset of the broadcast address
          MaxGeneration   \* bound on next_generation (u64::MAX in the code)

ASSUME PoolAssumption ==
  /\ NoGroup \notin GroupIds
  /\ NoClient \notin Clients
  /\ Broadcast \in Nat /\ Broadcast >= 3      \* /30 is the longest prefix
  /\ MaxGeneration \in Nat
  /\ IsFiniteSet(Handles)

VARIABLES by_client,        \* client -> [address, generation, active]
          by_address,       \* address -> client
          groups,           \* client -> [id, generation, references]
          next_generation,
          running,          \* the daemon is up and the pool is loaded
          disk,             \* what a read of the lease file returns
          durable,          \* what it may return after the machine crashed
          held,             \* handle -> the Lease value the caller holds
          granted           \* history: every lease acquire ever returned

pool_vars == <<by_client, by_address, groups, next_generation, running,
               disk, durable, held, granted>>
----------------------------------------------------------------------------
Gateway   == 1
Leasable  == (Gateway + 1) .. (Broadcast - 1)
NoAddress == 0

LeaseRecord == [address : Leasable \cup {NoAddress},
                generation : Nat, active : BOOLEAN]
NoRecord    == [address |-> NoAddress, generation |-> 0, active |-> FALSE]

ActiveLeaseGroup == [id : GroupIds \cup {NoGroup},
                     generation : Nat, references : Nat]
NoActiveGroup    == [id |-> NoGroup, generation |-> 0, references |-> 0]

Lease   == [client : Clients, address : Leasable, generation : Nat]
NoLease == [client |-> NoClient, address |-> NoAddress, generation |-> 0]

LeaseOf(c, record) == [client |-> c, address |-> record.address,
                       generation |-> record.generation]

(* The state file: addresses and generations, never who is active. *)
PersistedLease == [address : Leasable \cup {NoAddress}, generation : Nat]
PoolState(records) ==
  [c \in Clients |-> [address |-> records[c].address,
                      generation |-> records[c].generation]]

Reserved(c) == by_client[c].address # NoAddress
----------------------------------------------------------------------------
Init ==
  /\ by_client = [c \in Clients |-> NoRecord]
  /\ by_address = [a \in Leasable |-> NoClient]
  /\ groups = [c \in Clients |-> NoActiveGroup]
  /\ next_generation = 0
  /\ running = TRUE
  /\ disk = PoolState([c \in Clients |-> NoRecord])
  /\ durable = {disk}
  /\ held = [h \in Handles |-> NoLease]
  /\ granted = {}

(* write_state_atomically: a write, sync or rename that fails leaves the    *)
(* old file; a failing directory sync leaves the new file, which a machine  *)
(* crash may still lose.                                                    *)
Outcomes == {"ok", "io", "durability"}

write_state_atomically(records, outcome) ==
  \/ /\ outcome = "ok"
     /\ disk' = PoolState(records)
     /\ durable' = {PoolState(records)}
  \/ /\ outcome = "durability"
     /\ disk' = PoolState(records)
     /\ durable' = durable \cup {PoolState(records)}
  \/ /\ outcome = "io"
     /\ UNCHANGED <<disk, durable>>

activate_group(c, g, generation) ==
  groups' = [groups EXCEPT ![c] =
               IF g = NoGroup THEN NoActiveGroup
               ELSE [id |-> g, generation |-> generation, references |-> 1]]

abandon_committed_lease(c, record) ==
  /\ by_client' = [by_client EXCEPT ![c] = [record EXCEPT !.active = FALSE]]
  /\ groups' = [groups EXCEPT ![c] = NoActiveGroup]

(* The lanes of one HTTP/2 tunnel share the generation of the first. *)
Joinable(c, g) ==
  /\ g # NoGroup
  /\ groups[c].id = g
  /\ Reserved(c)
  /\ by_client[c].generation = groups[c].generation
  /\ by_client[c].active

JoinGroup(h, c, g) ==
  /\ running /\ held[h] = NoLease
  /\ Joinable(c, g)
  /\ groups' = [groups EXCEPT ![c].references = @ + 1]
  /\ held' = [held EXCEPT ![h] = LeaseOf(c, by_client[c])]
  /\ granted' = granted \cup {LeaseOf(c, by_client[c])}
  /\ UNCHANGED <<by_client, by_address, next_generation, running, disk, durable>>

(* acquire_inner past the group check, up to the persisted replacement. *)
NewGeneration(h, c, g) ==
  /\ running /\ held[h] = NoLease
  /\ ~Joinable(c, g)
  /\ next_generation < MaxGeneration
  /\ next_generation' = next_generation + 1
  /\ UNCHANGED running

(* Everything acquire_inner does once the file was replaced and synced. *)
Grant(h, c, g, record) ==
  /\ by_client' = [by_client EXCEPT ![c] = record]
  /\ activate_group(c, g, record.generation)
  /\ held' = [held EXCEPT ![h] = LeaseOf(c, record)]
  /\ granted' = granted \cup {LeaseOf(c, record)}

(* A known identity gets its own address back under a new generation. *)
Renew(h, c, g, outcome) ==
  LET record == [address |-> by_client[c].address,
                 generation |-> next_generation + 1, active |-> TRUE]
  IN /\ NewGeneration(h, c, g)
     /\ Reserved(c)
     /\ write_state_atomically([by_client EXCEPT ![c] = record], outcome)
     /\ \/ outcome = "ok" /\ Grant(h, c, g, record)
        \/ /\ outcome = "durability"
           /\ abandon_committed_lease(c, record)
           /\ UNCHANGED <<held, granted>>
        \/ outcome = "io" /\ UNCHANGED <<by_client, groups, held, granted>>
     /\ UNCHANGED by_address

FreeAddresses == {a \in Leasable : by_address[a] = NoClient}

(* A mutant of Allocate: a failed directory sync is ignored. *)
AllocateIgnoresSync(h, c, g, outcome) ==
  /\ NewGeneration(h, c, g)
  /\ ~Reserved(c)
  /\ \E a \in FreeAddresses :
       LET record == [address |-> a, generation |-> next_generation + 1,
                      active |-> TRUE]
       IN /\ write_state_atomically([by_client EXCEPT ![c] = record], outcome)
          /\ outcome # "io"
          /\ Grant(h, c, g, record)
          /\ by_address' = [by_address EXCEPT ![a] = c]

(* A new identity gets the lowest free address. *)
Allocate(h, c, g, outcome) ==
  /\ NewGeneration(h, c, g)
  /\ ~Reserved(c)
  /\ \E a \in FreeAddresses :
       LET record == [address |-> a, generation |-> next_generation + 1,
                      active |-> TRUE]
       IN /\ \A b \in FreeAddresses : a <= b
          /\ write_state_atomically([by_client EXCEPT ![c] = record], outcome)
          /\ \/ /\ outcome = "ok"
                /\ Grant(h, c, g, record)
                /\ by_address' = [by_address EXCEPT ![a] = c]
             \/ /\ outcome = "durability"
                /\ abandon_committed_lease(c, record)
                /\ by_address' = [by_address EXCEPT ![a] = c]
                /\ UNCHANGED <<held, granted>>
             \/ /\ outcome = "io"
                /\ UNCHANGED <<by_client, by_address, groups, held, granted>>

(* PoolError::Exhausted: only the generation counter has moved. *)
Exhausted(h, c, g) ==
  /\ NewGeneration(h, c, g)
  /\ ~Reserved(c)
  /\ FreeAddresses = {}
  /\ UNCHANGED <<by_client, by_address, groups, disk, durable, held, granted>>

(* Mutants of Release: the generation is not compared; the last reference   *)
(* is counted down instead of removed; the reservation ends with the lease. *)
ReleaseIgnoresGeneration(h) ==
  LET c == held[h].client
  IN /\ running /\ held[h] # NoLease
     /\ held' = [held EXCEPT ![h] = NoLease]
     /\ by_client' = [by_client EXCEPT ![c].active = FALSE]
     /\ groups' = [groups EXCEPT ![c] = NoActiveGroup]
     /\ UNCHANGED <<by_address, next_generation, running, disk, durable, granted>>

(* A mutant: the address goes with the last of its lanes. *)
ReleaseFreesAddress(h) ==
  LET c == held[h].client
  IN /\ running /\ held[h] # NoLease
     /\ held' = [held EXCEPT ![h] = NoLease]
     /\ by_client' = [by_client EXCEPT ![c] = NoRecord]
     /\ by_address' = [by_address EXCEPT ![held[h].address] = NoClient]
     /\ groups' = [groups EXCEPT ![c] = NoActiveGroup]
     /\ UNCHANGED <<next_generation, running, disk, durable, granted>>

(* Pool::release as PoolAdapter calls it: once for every Lease value. *)
Release(h) ==
  LET lease == held[h]
      c == lease.client
      shared == groups[c].generation = lease.generation /\ groups[c].references > 1
  IN /\ running /\ lease # NoLease
     /\ held' = [held EXCEPT ![h] = NoLease]
     /\ \/ /\ by_client[c].generation # lease.generation
           /\ UNCHANGED <<by_client, groups>>
        \/ /\ by_client[c].generation = lease.generation
           /\ shared
           /\ groups' = [groups EXCEPT ![c].references = @ - 1]
           /\ UNCHANGED by_client
        \/ /\ by_client[c].generation = lease.generation
           /\ ~shared
           /\ groups' = IF groups[c].generation = lease.generation
                        THEN [groups EXCEPT ![c] = NoActiveGroup] ELSE groups
           /\ by_client' = [by_client EXCEPT ![c].active = FALSE]
     /\ UNCHANGED <<by_address, next_generation, running, disk, durable, granted>>

(* The test register_lease makes under the pool's mutex. *)
LeaseIsCurrent(lease) ==
  /\ by_client[lease.client].active
  /\ by_client[lease.client].generation = lease.generation

(* The daemon dies; if the machine dies with it, the directory entry goes   *)
(* back to any version that no successful directory sync has superseded.    *)
Crash(machine) ==
  /\ running
  /\ running' = FALSE
  /\ by_client' = [c \in Clients |-> NoRecord]
  /\ by_address' = [a \in Leasable |-> NoClient]
  /\ groups' = [c \in Clients |-> NoActiveGroup]
  /\ next_generation' = 0
  /\ held' = [h \in Handles |-> NoLease]
  /\ \/ /\ machine
        /\ disk' \in durable
        /\ durable' = {disk'}
     \/ ~machine /\ UNCHANGED <<disk, durable>>
  /\ UNCHANGED granted

(* The conditions under which load_state and restore_lease accept a file. *)
LoadAccepts(file) ==
  /\ \A c \in Clients : file[c].address # NoAddress => file[c].generation # 0
  /\ \A c, d \in Clients :
       (file[c].address = file[d].address /\ file[c].address # NoAddress) => c = d

(* A mutant: the generation counter starts again from zero. *)
LoadResetsGeneration ==
  /\ ~running
  /\ LoadAccepts(disk)
  /\ running' = TRUE
  /\ by_client' = [c \in Clients |-> [address |-> disk[c].address,
                                      generation |-> disk[c].generation,
                                      active |-> FALSE]]
  /\ by_address' \in [Leasable -> Clients \cup {NoClient}]
  /\ \A a \in Leasable, c \in Clients : by_address'[a] = c <=> disk[c].address = a
  /\ next_generation' = 0
  /\ UNCHANGED <<groups, disk, durable, held, granted>>

load_state ==
  /\ ~running
  /\ LoadAccepts(disk)
  /\ running' = TRUE
  /\ by_client' = [c \in Clients |-> [address |-> disk[c].address,
                                      generation |-> disk[c].generation,
                                      active |-> FALSE]]
  /\ by_address' \in [Leasable -> Clients \cup {NoClient}]
  /\ \A a \in Leasable, c \in Clients : by_address'[a] = c <=> disk[c].address = a
  /\ next_generation' \in {disk[c].generation : c \in Clients} \cup {0}
  /\ \A c \in Clients : disk[c].generation <= next_generation'
  /\ UNCHANGED <<groups, disk, durable, held, granted>>
----------------------------------------------------------------------------
Acquire(h, c, g) ==
  \/ JoinGroup(h, c, g)
  \/ \E outcome \in Outcomes : Renew(h, c, g, outcome) \/ Allocate(h, c, g, outcome)
  \/ Exhausted(h, c, g)

Next ==
  \/ \E h \in Handles, c \in Clients, g \in GroupIds \cup {NoGroup} : Acquire(h, c, g)
  \/ \E h \in Handles : Release(h)
  \/ \E machine \in BOOLEAN : Crash(machine)
  \/ load_state

Spec == Init /\ [][Next]_pool_vars
----------------------------------------------------------------------------
TypeOK ==
  /\ by_client \in [Clients -> LeaseRecord]
  /\ by_address \in [Leasable -> Clients \cup {NoClient}]
  /\ groups \in [Clients -> ActiveLeaseGroup]
  /\ next_generation \in Nat
  /\ running \in BOOLEAN
  /\ disk \in [Clients -> PersistedLease]
  /\ durable \in SUBSET [Clients -> PersistedLease]
  /\ held \in [Handles -> Lease \cup {NoLease}]
  /\ granted \in SUBSET Lease

(* No address that a client was ever told to use is given to another one,   *)
(* and no client is moved: across releases, failed writes, crashes of the   *)
(* daemon and crashes of the machine ("cross-identity reuse is unsafe").    *)
GrantsNeverMove ==
  \A l, m \in granted : l.client = m.client <=> l.address = m.address

(* A generation names one acquisition for good.  release and register_lease *)
(* recognise a superseded lease only by its generation, so a generation     *)
(* must not be handed out again, not even after a restart from the file.    *)
GenerationsAreFresh ==
  \A l, m \in granted : l.generation = m.generation => l = m

(* Whatever version of the file a crash leaves, it still reserves every     *)
(* lease that was handed out, at a generation no older than that lease.     *)
ReservesGrants(file) ==
  \A l \in granted : /\ file[l.client].address = l.address
                     /\ file[l.client].generation >= l.generation
GrantsAreDurable == \A file \in durable \cup {disk} : ReservesGrants(file)

(* An identity keeps its address for good: among the leases ever handed out *)
(* and in every file the next start may find.                               *)
GrantsAreKept == GrantsNeverMove /\ GrantsAreDurable

(* The daemon never writes a lease file that it would refuse to start from. *)
RestartIsAccepted == \A file \in durable \cup {disk} : LoadAccepts(file)

(* A lease is active exactly while somebody still holds it, and the lanes   *)
(* that share it are counted right: a superseded holder's late release      *)
(* neither ends the new lease nor leaves it active for ever.                *)
Holders(c) == {h \in Handles : held[h] = LeaseOf(c, by_client[c])}
ActiveIffHeld ==
  \A c \in Clients :
    /\ by_client[c].active <=> Holders(c) # {}
    /\ groups[c] # NoActiveGroup =>
         /\ by_client[c].active
         /\ groups[c].generation = by_client[c].generation
         /\ groups[c].references = Cardinality(Holders(c))
    /\ groups[c] = NoActiveGroup => Cardinality(Holders(c)) <= 1

(* While the daemon runs, the records in memory and the file on disk agree  *)
(* on every reservation - after a failed write and after a write whose      *)
(* directory sync failed, too - and by_address is the inverse of by_client, *)
(* so the search for a free address never overlooks a reservation.          *)
MemoryMatchesFile ==
  running => /\ disk = PoolState(by_client)
             /\ \A a \in Leasable, c \in Clients :
                  by_address[a] = c <=> by_client[c].address = a

(* What the pool promises is an address book: an identity is entered once,  *)
(* under an address nobody else has, and no entry is changed or removed.    *)
Book == INSTANCE AddressBook
          WITH Addresses <- Leasable,
               book <- {<<l.client, l.address>> : l \in granted}
ImplementsAddressBook == Book!Spec
============================================================================
