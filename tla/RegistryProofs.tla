--------------------------- MODULE RegistryProofs ---------------------------
(***************************************************************************)
(* The registry keeps its promises for any number of accounts, devices,    *)
(* requests and workers: the file can always be opened again, nobody's     *)
(* session outlives its access, and what is changed reaches the file.      *)
(* So does the other keeper of a file that must survive whatever happens,  *)
(* the automatic networking of the Linux client: its journal gives the     *)
(* kernel back, and the client dials and reports when all is in place.     *)
(***************************************************************************)
EXTENDS Registry, ClientNetwork, FiniteSums, SequenceTheorems

(* Who holds the mutations lock.                                             *)
AttemptHolds(t) == attempt[t].pc \in {"writing", "written"}
AdminHolds(x) == admin[x].pc \in {"writing", "written", "drain", "cancel", "waiting"}
WorkerHolds(w) == worker[w] \in {"write", "written", "last_write", "last_written"}
CloserHolds == closer.pc \in {"write", "written"}

(* The holder of the lock is the one task between taking it and giving it    *)
(* back, and after closed nobody but a flush takes it.                       *)
LockInv ==
  /\ \A t \in Attempts : AttemptHolds(t) <=> mutations = t
  /\ \A x \in Admins : AdminHolds(x) <=> mutations = x
  /\ \A w \in Workers : WorkerHolds(w) <=> mutations = w
  /\ CloserHolds <=> mutations = Closer
  /\ closed => mutations \in Workers \cup {Closer, Nobody}

(* The drains under way, which retiring_accounts and retiring_devices count. *)
Draining == {x \in Admins : admin[x].pc \in {"cancel", "waiting", "retired"}}
AccountDrains(a) == {x \in Draining : admin[x].device = All /\ admin[x].account = a}
DeviceDrains(k) == {x \in Draining : <<admin[x].account, admin[x].device>> = k}

CountInv ==
  /\ \A a \in Accounts : retiring_accounts[a] = Cardinality(AccountDrains(a))
  /\ \A k \in Keys : retiring_devices[k] = Cardinality(DeviceDrains(k))

(* The operation that an administrative request is in the middle of.         *)
Changes == {"create", "enable", "disable", "rotate", "delete", "retire"}

OpInv ==
  \A x \in Admins :
    /\ admin[x].pc \in {"writing", "written"} =>
         admin[x].op \in Changes
    /\ admin[x].op \in {"create", "enable", "disable", "rotate", "delete"} => admin[x].device = All
    /\ admin[x].op = "retire" => admin[x].device # All
    /\ admin[x].pc = "retired" => admin[x].op = "retire"

(* The clock stamps an enrolment with a time, which is never NotEnrolled,    *)
(* and a device shows a nonce.                                               *)
StampInv ==
  /\ now >= 1
  /\ \A t \in Attempts : /\ attempt[t].pc # "idle" => attempt[t].now >= 1
                         /\ attempt[t].device # Proxy => attempt[t].nonce \in Nonces

(* The candidate of a holder that is not a flush, and what publishing it     *)
(* makes of memory: the same clients with the same devices, and the very     *)
(* same records unless metadata became dirty meanwhile.                      *)
Alike(f, g) ==
  \A a \in Accounts :
    /\ f[a].present = g[a].present /\ f[a].token = g[a].token
    /\ f[a].enabled = g[a].enabled /\ f[a].max_devices = g[a].max_devices
    /\ Enrolled(f[a]) = Enrolled(g[a])
Follows(file, memory) == Alike(file, memory) /\ (~metadata_dirty => file = memory)

PublishedEnrolment(t) ==
  [clients EXCEPT ![attempt[t].account].devices[attempt[t].device] =
                     candidate[attempt[t].account].devices[attempt[t].device]]

CandidateInv ==
  /\ OpenAccepts(clients) /\ OpenAccepts(disk) /\ OpenAccepts(candidate)
  /\ \A file \in durable : OpenAccepts(file)
  /\ \A t \in Attempts :
       AttemptHolds(t) =>
         /\ Follows(candidate, PublishedEnrolment(t))
         /\ candidate[attempt[t].account].devices[attempt[t].device] # NotEnrolled
  /\ \A x \in Admins :
       admin[x].pc \in {"writing", "written"} =>
         Follows(candidate, Published(admin[x].op, admin[x].account, admin[x].device))

(* What is on the disk.  A flush writes a snapshot of the version it took.   *)
Written == \/ \E t \in Attempts : attempt[t].pc = "written"
           \/ \E x \in Admins : admin[x].pc = "written"
Flushes(p) == /\ metadata_dirty
              /\ flush_version[p] <= metadata_version
              /\ flush_version[p] = metadata_version => clients = candidate

FileInv ==
  /\ (~metadata_dirty /\ ~Written) => disk = clients
  /\ Written => disk = candidate
  /\ \A w \in Workers : /\ WorkerHolds(w) => Flushes(w)
                        /\ worker[w] \in {"written", "last_written"} => disk = candidate
                        /\ worker[w] \in {"last_flush", "last_write", "last_written"} => closed
  /\ CloserHolds => Flushes(Closer) /\ flush_version[Closer] = metadata_version
  /\ closer.pc = "written" => disk = candidate
  /\ closer.pc # "open" => closed
  /\ closer.pc \in {"sync", "ok"} => ~metadata_dirty
  /\ closer.pc = "ok" => ~durability_error
  /\ (persisted /\ ~durability_error) => durable = {disk}
  /\ DirtyHasWriter

(* An attempt that began before a drain ended stays refused: the epoch of    *)
(* that drain is not pruned while the attempt is under way.  A drain waits   *)
(* for every session it covers, and none comes in once it is under way.      *)
EpochInv ==
  /\ \A t \in Attempts : attempt[t].epoch <= disconnect_epoch
  /\ \A k \in Keys : drained[k] <= disconnect_epoch

StaleIsRefused ==
  \A t \in Attempts :
    (attempt[t].pc \in {"begun", "waiting"} /\ attempt[t].epoch < drained[KeyOf(t)]) =>
      \/ account_disconnect[attempt[t].account] > attempt[t].epoch
      \/ device_disconnect[KeyOf(t)] > attempt[t].epoch

Admitted == {t \in Attempts : attempt[t].pc \in {"writing", "written", "starting", "live"}}

DrainInv ==
  /\ \A t \in Admitted : attempt[t].epoch >= drained[KeyOf(t)]
  /\ \A x \in Admins :
       /\ admin[x].pc = "waiting" => {t \in Live : Covers(x, KeyOf(t))} \subseteq admin[x].waiting
       /\ admin[x].pc = "waiting" => \A t \in admin[x].waiting : t \in Live /\ attempt[t].cancelled
       /\ admin[x].pc = "retired" => \A t \in Admitted : ~Covers(x, KeyOf(t))

(* Access: an enrolment under way is authorized, and an account is created   *)
(* once.                                                                     *)
AccessInv ==
  /\ \A t \in Attempts :
       AttemptHolds(t) => attempt[t].account \in client_for_token(attempt[t].token)
  /\ \A a \in unused :
       /\ ~clients[a].present /\ ~disk[a].present /\ ~candidate[a].present
       /\ \A file \in durable : ~file[a].present
  /\ \A x \in Admins :
       admin[x].pc \in {"writing", "written"} =>
         /\ admin[x].op = "create" => ~clients[admin[x].account].present
         /\ admin[x].op = "enable" => candidate[admin[x].account].enabled

IInv ==
  /\ TypeOK /\ LockInv /\ CountInv /\ OpInv /\ StampInv /\ CandidateInv /\ FileInv
  /\ EpochInv /\ StaleIsRefused /\ DrainInv /\ AccessInv /\ SessionsAreAuthorized
----------------------------------------------------------------------------
(* What the operators of the model do.                                       *)

Files == [Accounts -> ClientRecord]

(* g is f with one device's entry written.                                   *)
Puts(f, g, a, d, v) ==
  /\ g \in Files
  /\ \A b \in Accounts :
       /\ g[b].present = f[b].present /\ g[b].token = f[b].token
       /\ g[b].enabled = f[b].enabled /\ g[b].max_devices = f[b].max_devices
       /\ b # a => g[b] = f[b]
       /\ \A e \in Devices : g[b].devices[e] = IF b = a /\ e = d THEN v ELSE f[b].devices[e]

(* Writing one entry does what Puts says.                                    *)
LEMMA PutEntry ==
  ASSUME NEW f \in Files, NEW a \in Accounts, NEW d \in Devices, NEW v \in Nat,
         NEW g, g = [f EXCEPT ![a].devices[d] = v]
  PROVE  Puts(f, g, a, d, v)
  BY DEF Files, ClientRecord, Puts

(* The records that the model builds have their types.                       *)
LEMMA SomeRecords ==
  /\ NoClient \in ClientRecord
  /\ \A token \in Nat, max \in Nat : NewClient(token, max) \in ClientRecord
  /\ NoCandidate \in Files
  /\ Idle \in AttemptRecord /\ NoChange \in AdminRecord
  BY RegistryAssumption
     DEF NoClient, NewClient, NoCandidate, ClientRecord, NotEnrolled, Idle, NoChange, NoNonce,
         Files, AttemptRecord, AdminRecord

(* What prune_disconnects keeps.                                             *)
LEMMA PrunedKeeps ==
  ASSUME NEW K, NEW f \in [K -> Nat], NEW S, NEW e \in Nat, TypeOK, S \subseteq Attempts
  PROVE  /\ Pruned(f, S, e) \in [K -> Nat]
         /\ \A k \in K, t \in S : f[k] > attempt[t].epoch => Pruned(f, S, e)[k] = f[k]
  BY DEF Pruned

(* How a step moves one request: it goes on to pc and keeps what it is.      *)
Proceeds(t, from, to) ==
  /\ attempt[t].pc \in from /\ attempt'[t].pc = to
  /\ attempt'[t].account = attempt[t].account /\ attempt'[t].device = attempt[t].device
  /\ attempt'[t].token = attempt[t].token /\ attempt'[t].epoch = attempt[t].epoch
  /\ attempt'[t].now = attempt[t].now /\ attempt'[t].cancelled = attempt[t].cancelled
  /\ attempt'[t].nonce = attempt[t].nonce
  /\ \A s \in Attempts \ {t} : attempt'[s] = attempt[s]

Leaves(t, from) ==
  /\ attempt[t].pc \in from /\ attempt'[t] = Idle /\ attempt'[t].pc = "idle"
  /\ \A s \in Attempts \ {t} : attempt'[s] = attempt[s]

(* What prune_disconnects leaves to the attempts that are still under way.   *)
StillRefused(S) ==
  \A s \in S :
    /\ \A a \in Accounts : account_disconnect[a] > attempt[s].epoch =>
                           account_disconnect'[a] > attempt[s].epoch
    /\ \A k \in Keys : device_disconnect[k] > attempt[s].epoch =>
                       device_disconnect'[k] > attempt[s].epoch

(* A request that goes on keeps what it was asked with.                      *)
LEMMA Proceeding ==
  ASSUME TypeOK, NEW t \in Attempts, NEW to \in {"waiting", "writing", "written", "live"},
         attempt' = [attempt EXCEPT ![t].pc = to]
  PROVE  Proceeds(t, {attempt[t].pc}, to) /\ attempt' \in [Attempts -> AttemptRecord]
<1>1. attempt \in [Attempts -> AttemptRecord]
  BY DEF TypeOK
<1> QED
  BY <1>1 DEF AttemptRecord, Proceeds

(* A request whose call returns leaves the drains that others need.          *)
LEMMA Returning ==
  ASSUME TypeOK, NEW t \in Attempts, NEW pc \in {"idle", "starting", "live"}, Returns(t, pc)
  PROVE  /\ attempt' \in [Attempts -> AttemptRecord]
         /\ IF pc = "idle" THEN Leaves(t, {attempt[t].pc})
            ELSE Proceeds(t, {attempt[t].pc}, pc)
         /\ StillRefused(InFlight \ {t})
         /\ account_disconnect' \in [Accounts -> Nat] /\ device_disconnect' \in [Keys -> Nat]
         /\ UNCHANGED <<retiring_accounts, retiring_devices, disconnect_epoch, drained>>
<1> DEFINE S == InFlight \ {t}
<1>1. S \subseteq Attempts /\ disconnect_epoch \in Nat
      /\ account_disconnect \in [Accounts -> Nat] /\ device_disconnect \in [Keys -> Nat]
  BY DEF TypeOK, InFlight
<1>2. /\ account_disconnect' = Pruned(account_disconnect, S, disconnect_epoch)
      /\ device_disconnect' = Pruned(device_disconnect, S, disconnect_epoch)
      /\ attempt' = [attempt EXCEPT ![t] = IF pc = "idle" THEN Idle ELSE [@ EXCEPT !.pc = pc]]
      /\ UNCHANGED <<retiring_accounts, retiring_devices, disconnect_epoch, drained>>
  BY DEF Returns
<1> HIDE DEF S
<1>3. /\ account_disconnect' \in [Accounts -> Nat]
      /\ \A a \in Accounts, s \in S : account_disconnect[a] > attempt[s].epoch =>
                                      account_disconnect'[a] = account_disconnect[a]
  BY <1>1, <1>2, PrunedKeeps
<1>4. /\ device_disconnect' \in [Keys -> Nat]
      /\ \A k \in Keys, s \in S : device_disconnect[k] > attempt[s].epoch =>
                                  device_disconnect'[k] = device_disconnect[k]
  BY <1>1, <1>2, PrunedKeeps
<1>5. StillRefused(S)
  BY <1>3, <1>4 DEF StillRefused
<1>6. attempt' \in [Attempts -> AttemptRecord]
      /\ \A s \in Attempts \ {t} : attempt'[s] = attempt[s]
  BY <1>2, SomeRecords, ZenonT(30) DEF TypeOK, AttemptRecord
<1>7. pc = "idle" => Leaves(t, {attempt[t].pc})
  BY <1>2, <1>6 DEF Leaves, TypeOK, Idle
<1>8. pc # "idle" => Proceeds(t, {attempt[t].pc}, pc)
  BY <1>2, <1>6 DEF Proceeds, TypeOK, AttemptRecord
<1> QED
  BY <1>2, <1>3, <1>4, <1>5, <1>6, <1>7, <1>8 DEF S
----------------------------------------------------------------------------
(* What a step that leaves the state of a part of IInv alone leaves true.    *)
LEMMA LockFrame == LockInv /\ UNCHANGED <<attempt, admin, worker, closer, mutations,
                                          closed>> => LockInv'
  BY DEF LockInv, AttemptHolds, AdminHolds, WorkerHolds, CloserHolds
LEMMA CountFrame == CountInv /\ UNCHANGED <<admin, retiring_accounts,
                                            retiring_devices>> => CountInv'
  BY DEF CountInv, AccountDrains, DeviceDrains, Draining
LEMMA OpFrame == OpInv /\ UNCHANGED admin => OpInv'
  BY DEF OpInv
LEMMA StampFrame == StampInv /\ UNCHANGED <<now, attempt>> => StampInv'
  BY DEF StampInv

SameHolders ==
  /\ \A s \in Attempts :
       AttemptHolds(s)' =>
         /\ AttemptHolds(s) /\ attempt'[s].account = attempt[s].account
         /\ attempt'[s].device = attempt[s].device
  /\ \A x \in Admins :
       admin'[x].pc \in {"writing", "written"} =>
         /\ admin[x].pc \in {"writing", "written"} /\ admin'[x].op = admin[x].op
         /\ admin'[x].account = admin[x].account /\ admin'[x].device = admin[x].device

(* The candidate, while its holder and what it was made from stay.           *)
LEMMA CandidateFrame ==
  ASSUME CandidateInv, SameHolders, UNCHANGED <<clients, disk, candidate, durable,
                                                metadata_dirty>>
  PROVE  CandidateInv'
<1>1. \A op, a, d : Published(op, a, d)' = Published(op, a, d)
  BY DEF Published
<1>2. \A t \in Attempts :
        AttemptHolds(t)' => AttemptHolds(t) /\ PublishedEnrolment(t)' = PublishedEnrolment(t)
  BY DEF PublishedEnrolment, SameHolders
<1>3. \A f, g : Follows(f, g)' = Follows(f, g)
  BY DEF Follows, Alike
<1> QED
  BY <1>1, <1>2, <1>3 DEF CandidateInv, SameHolders
LEMMA FileFrame ==
  FileInv /\ UNCHANGED <<metadata_dirty, attempt, admin, clients, candidate, worker,
                         flush_version, metadata_version, closer, closed, file_vars>>
    => FileInv'
  BY DEF FileInv, Written, Flushes, WorkerHolds, CloserHolds, DirtyHasWriter, file_vars
LEMMA EpochFrame == EpochInv /\ UNCHANGED <<attempt, disconnect_epoch, drained>> => EpochInv'
  BY DEF EpochInv
LEMMA StaleFrame ==
  StaleIsRefused /\ UNCHANGED <<attempt, drained, account_disconnect, device_disconnect>>
    => StaleIsRefused'
  BY DEF StaleIsRefused, KeyOf
LEMMA DrainFrame == DrainInv /\ UNCHANGED <<attempt, admin, drained>> => DrainInv'
  BY DEF DrainInv, Admitted, Live, Covers, KeyOf
LEMMA AccessFrame ==
  AccessInv /\ UNCHANGED <<attempt, clients, unused, disk, candidate, durable,
                           admin>> => AccessInv'
  BY DEF AccessInv, AttemptHolds, client_for_token
LEMMA AuthorizedFrame ==
  SessionsAreAuthorized /\ UNCHANGED <<attempt, clients, admin>> => SessionsAreAuthorized'
  BY DEF SessionsAreAuthorized, Authorized, Live, Covers, KeyOf, LastSeen, client_for_token

(* Nobody begins a write who leaves both tables alone.                       *)
LEMMA SameHoldersFrame == UNCHANGED <<attempt, admin>> => SameHolders
  BY DEF SameHolders, AttemptHolds
----------------------------------------------------------------------------
(* The types that reasoning about epochs needs.                              *)
LEMMA EpochTypes ==
  ASSUME TypeOK
  PROVE  /\ unused \subseteq Accounts
         /\ disconnect_epoch \in Nat /\ drained \in [Keys -> Nat]
         /\ account_disconnect \in [Accounts -> Nat] /\ device_disconnect \in [Keys -> Nat]
         /\ \A t \in Attempts : /\ attempt[t].epoch \in Nat /\ attempt[t].account \in Accounts
                                /\ attempt[t].device \in Devices /\ KeyOf(t) \in Keys
  BY DEF TypeOK, AttemptRecord, KeyOf, Keys

(* The drains under way can be counted.                                      *)
LEMMA FiniteDrains ==
  /\ \A a : IsFiniteSet(AccountDrains(a)) /\ \A k : IsFiniteSet(DeviceDrains(k))
  /\ \A a : IsFiniteSet(AccountDrains(a))' /\ \A k : IsFiniteSet(DeviceDrains(k))'
  BY RegistryAssumption, FS_Subset DEF AccountDrains, DeviceDrains, Draining

(* The counts stay while the same drains are under way.                      *)
LEMMA CountKept ==
  ASSUME CountInv, UNCHANGED <<retiring_accounts, retiring_devices>>, Draining' = Draining,
         \A x \in Draining : /\ admin'[x].account = admin[x].account
                             /\ admin'[x].device = admin[x].device
  PROVE  CountInv'
<1>1. \A a : AccountDrains(a)' = AccountDrains(a)
  BY DEF AccountDrains
<1>2. \A k : DeviceDrains(k)' = DeviceDrains(k)
  BY DEF DeviceDrains
<1> QED
  BY <1>1, <1>2 DEF CountInv

(* What Admissible means: no drain under way covers the attempt, and none    *)
(* that ended after it began.                                                *)
LEMMA AdmissibleIsFresh ==
  ASSUME IInv, NEW t \in Attempts, attempt[t].pc \in {"begun", "waiting"}, Admissible(t)
  PROVE  /\ ~closed
         /\ attempt[t].account \in client_for_token(attempt[t].token)
         /\ attempt[t].epoch >= drained[KeyOf(t)]
         /\ \A x \in Draining : ~Covers(x, KeyOf(t))
<1>1. /\ ~closed /\ attempt[t].account \in client_for_token(attempt[t].token)
      /\ ~(retiring_accounts[attempt[t].account] > 0) /\ ~(retiring_devices[KeyOf(t)] > 0)
      /\ ~(account_disconnect[attempt[t].account] > attempt[t].epoch)
      /\ ~(device_disconnect[KeyOf(t)] > attempt[t].epoch)
  BY DEF Admissible, authentication_blocked, KeyOf
<1>2. attempt[t].epoch >= drained[KeyOf(t)]
  BY <1>1, EpochTypes DEF IInv, StaleIsRefused
<1>3. \A a \in Accounts : AccountDrains(a) # {} => retiring_accounts[a] > 0
  BY FiniteDrains, FS_EmptySet, FS_CardinalityType DEF IInv, CountInv
<1>4. \A k \in Keys : DeviceDrains(k) # {} => retiring_devices[k] > 0
  BY FiniteDrains, FS_EmptySet, FS_CardinalityType DEF IInv, CountInv
<1>5. ASSUME NEW x \in Draining, Covers(x, KeyOf(t)) PROVE FALSE
  <2>1. CASE admin[x].device = All
    BY <1>1, <1>3, <1>5, <2>1, EpochTypes DEF IInv, AccountDrains, Covers, KeyOf
  <2>2. CASE admin[x].device # All
    BY <1>1, <1>4, <1>5, <2>2, EpochTypes DEF IInv, DeviceDrains, Covers, KeyOf
  <2> QED
    BY <2>1, <2>2
<1> QED
  BY <1>1, <1>2, <1>5

(* Alike is an equivalence, and keeps a file that opens one that opens.      *)
LEMMA AlikeFacts ==
  /\ \A f : Alike(f, f)
  /\ \A f, g : Alike(f, g) => Alike(g, f)
  /\ \A f, g, h : Alike(f, g) /\ Alike(g, h) => Alike(f, h)
  /\ \A f, g : Alike(f, g) /\ OpenAccepts(f) => OpenAccepts(g)
  BY DEF Alike, OpenAccepts

(* An entry that is there already may be written anew.                       *)
LEMMA TouchEntry ==
  ASSUME NEW f \in Files, NEW a \in Accounts, NEW d \in Devices, NEW v \in Nat,
         v # NotEnrolled, f[a].devices[d] # NotEnrolled
  PROVE  Alike(f, [f EXCEPT ![a].devices[d] = v])
<1> DEFINE g == [f EXCEPT ![a].devices[d] = v]
<1>1. Puts(f, g, a, d, v)
  BY PutEntry
<1> HIDE DEF g
<1>2. \A b \in Accounts : Enrolled(g[b]) = Enrolled(f[b])
  BY <1>1 DEF Enrolled, Puts
<1>3. Alike(f, g)
  BY <1>1, <1>2 DEF Alike, Puts
<1> QED
  BY <1>3 DEF g

(* One more device may be enrolled below the limit.                          *)
LEMMA AddEntry ==
  ASSUME NEW f \in Files, NEW a \in Accounts, NEW d \in Devices, NEW v \in Nat, OpenAccepts(f),
         f[a].devices[d] # NotEnrolled \/ Cardinality(Enrolled(f[a])) < f[a].max_devices
  PROVE  OpenAccepts([f EXCEPT ![a].devices[d] = v])
<1> DEFINE g == [f EXCEPT ![a].devices[d] = v]
<1>1. Puts(f, g, a, d, v)
  BY PutEntry
<1> HIDE DEF g
<1>2. IsFiniteSet(Enrolled(f[a])) /\ f[a].max_devices \in Nat
  BY RegistryAssumption, FS_Subset DEF Enrolled, Files, ClientRecord
<1>3. /\ Enrolled(g[a]) \subseteq Enrolled(f[a]) \cup {d}
      /\ f[a].devices[d] # NotEnrolled => Enrolled(g[a]) \subseteq Enrolled(f[a])
  BY <1>1 DEF Enrolled, Puts
<1>4. Cardinality(Enrolled(g[a])) <= g[a].max_devices
  <2>1. CASE Enrolled(g[a]) \subseteq Enrolled(f[a])
    <3>1. /\ Cardinality(Enrolled(g[a])) <= Cardinality(Enrolled(f[a]))
          /\ Cardinality(Enrolled(f[a])) <= f[a].max_devices
      BY <1>2, <2>1, FS_Subset DEF OpenAccepts
    <3> QED
      BY <1>1, <1>2, <2>1, <3>1, FS_Subset, FS_CardinalityType DEF Puts
  <2>2. CASE ~(Enrolled(g[a]) \subseteq Enrolled(f[a]))
    <3>1. d \notin Enrolled(f[a]) /\ Cardinality(Enrolled(f[a])) < f[a].max_devices
      BY <1>3, <2>2 DEF Enrolled
    <3>2. IsFiniteSet(Enrolled(f[a]) \cup {d})
          /\ Cardinality(Enrolled(f[a]) \cup {d}) = Cardinality(Enrolled(f[a])) + 1
      BY <1>2, <3>1, FS_AddElement
    <3>3. /\ IsFiniteSet(Enrolled(g[a]))
          /\ Cardinality(Enrolled(g[a])) <= Cardinality(Enrolled(f[a]) \cup {d})
      BY <1>3, <3>2, FS_Subset
    <3> QED
      BY <1>1, <1>2, <3>1, <3>2, <3>3, FS_CardinalityType DEF Puts
  <2> QED
    BY <2>1, <2>2
<1>5. OpenAccepts(g)
  BY <1>1, <1>4 DEF OpenAccepts, Puts
<1> QED
  BY <1>5 DEF g

(* The candidate of a free lock holds no client.                             *)
LEMMA NoCandidateAccepted == OpenAccepts(NoCandidate) /\ \A a \in Accounts : ~NoCandidate[a].present
<1>1. \A a \in Accounts : Enrolled(NoCandidate[a]) = {} /\ NoCandidate[a].max_devices = 0
                          /\ ~NoCandidate[a].present
  BY DEF NoCandidate, NoClient, Enrolled, NotEnrolled
<1> QED
  BY <1>1, FS_EmptySet DEF OpenAccepts

(* A change made to two registries that are alike leaves them alike.         *)
LEMMA PutAlike ==
  ASSUME NEW f \in Files, NEW g \in Files, Alike(f, g),
         NEW a \in Accounts, NEW d \in Devices, NEW v \in Nat
  PROVE  Alike([f EXCEPT ![a].devices[d] = v], [g EXCEPT ![a].devices[d] = v])
<1> DEFINE f1 == [f EXCEPT ![a].devices[d] = v]
           g1 == [g EXCEPT ![a].devices[d] = v]
<1>1. Puts(f, f1, a, d, v)
  BY PutEntry
<1>2. Puts(g, g1, a, d, v)
  BY PutEntry
<1> HIDE DEF f1, g1
<1>3. \A b \in Accounts : Enrolled(f1[b]) = Enrolled(g1[b])
  BY <1>1, <1>2 DEF Alike, Enrolled, Puts
<1>4. Alike(f1, g1)
  BY <1>1, <1>2, <1>3 DEF Alike, Puts
<1> QED
  BY <1>4 DEF f1, g1

(* So does a change of the whole record or of one of its fields.             *)
LEMMA ChangesAlike ==
  ASSUME NEW f \in Files, NEW g \in Files, Alike(f, g), NEW a \in Accounts,
         NEW new \in ClientRecord
  PROVE  /\ Alike([f EXCEPT ![a] = new], [g EXCEPT ![a] = new])
         /\ Alike([f EXCEPT ![a].token = new.token], [g EXCEPT ![a].token = new.token])
         /\ Alike([f EXCEPT ![a].max_devices = new.max_devices, ![a].enabled = new.enabled],
                  [g EXCEPT ![a].max_devices = new.max_devices, ![a].enabled = new.enabled])
<1>1. Alike([f EXCEPT ![a] = new], [g EXCEPT ![a] = new])
  BY DEF Alike, Files
<1>2. Alike([f EXCEPT ![a].token = new.token], [g EXCEPT ![a].token = new.token])
  BY DEF Alike, Files, ClientRecord, Enrolled
<1>3. Alike([f EXCEPT ![a].max_devices = new.max_devices, ![a].enabled = new.enabled],
            [g EXCEPT ![a].max_devices = new.max_devices, ![a].enabled = new.enabled])
  BY DEF Alike, Files, ClientRecord, Enrolled
<1> QED
  BY <1>1, <1>2, <1>3

(* The attempts that stay under way stay refused.                            *)
LEMMA StaleKept ==
  ASSUME TypeOK, StaleIsRefused, NEW t \in Attempts, attempt'[t].pc \notin {"begun", "waiting"},
         \A s \in Attempts \ {t} : attempt'[s] = attempt[s],
         StillRefused(InFlight \ {t}), UNCHANGED drained
  PROVE  StaleIsRefused'
<1> SUFFICES ASSUME NEW s \in Attempts, attempt'[s].pc \in {"begun", "waiting"},
                    attempt'[s].epoch < drained'[KeyOf(s)']
             PROVE  \/ account_disconnect'[attempt'[s].account] > attempt'[s].epoch
                    \/ device_disconnect'[KeyOf(s)'] > attempt'[s].epoch
  BY DEF StaleIsRefused
<1>1. attempt'[s] = attempt[s] /\ KeyOf(s)' = KeyOf(s) /\ s \in InFlight \ {t}
  BY DEF KeyOf, InFlight
<1>2. \/ account_disconnect[attempt[s].account] > attempt[s].epoch
      \/ device_disconnect[KeyOf(s)] > attempt[s].epoch
  BY <1>1 DEF StaleIsRefused
<1> QED
  BY <1>1, <1>2, EpochTypes DEF StillRefused

(* What the caller of persist_clients can rely on.                           *)
LEMMA Persisting ==
  ASSUME IInv, NEW outcome \in Outcomes, persist_clients(outcome)
  PROVE  /\ disk' \in Files /\ durable' \in SUBSET Files
         /\ persisted' \in BOOLEAN /\ durability_error' \in BOOLEAN
         /\ outcome # "io" => disk' = candidate
         /\ outcome = "io" => UNCHANGED file_vars
         /\ disk' \in {disk, candidate} /\ durable' \subseteq durable \cup {candidate}
         /\ (persisted' /\ ~durability_error') => durable' = {disk'}
         /\ OpenAccepts(disk') /\ \A file \in durable' : OpenAccepts(file)
         /\ \A a \in unused : ~disk'[a].present /\ \A file \in durable' : ~file[a].present
<1>1. /\ disk \in Files /\ durable \in SUBSET Files /\ candidate \in Files
      /\ persisted \in BOOLEAN /\ durability_error \in BOOLEAN
  BY DEF IInv, TypeOK, Files
<1>2. /\ OpenAccepts(disk) /\ OpenAccepts(candidate) /\ \A file \in durable : OpenAccepts(file)
      /\ (persisted /\ ~durability_error) => durable = {disk}
      /\ \A a \in unused : /\ ~disk[a].present /\ ~candidate[a].present
                           /\ \A file \in durable : ~file[a].present
  BY DEF IInv, CandidateInv, FileInv, AccessInv
<1>3. CASE outcome = "ok"
  BY <1>1, <1>2, <1>3 DEF persist_clients, file_vars
<1>4. CASE outcome = "durability"
  BY <1>1, <1>2, <1>4 DEF persist_clients, file_vars
<1>5. CASE outcome = "io"
  BY <1>1, <1>2, <1>5 DEF persist_clients, file_vars
<1> QED
  BY <1>3, <1>4, <1>5 DEF persist_clients

(* Sessions that stay, and stay what they are, stay authorized or awaited.   *)
LEMMA AuthorizedKept ==
  ASSUME SessionsAreAuthorized, UNCHANGED admin,
         \A s \in Live' : \/ Authorized(s)'
                          \/ /\ s \in Live /\ KeyOf(s)' = KeyOf(s)
                             /\ Authorized(s) => Authorized(s)'
  PROVE  SessionsAreAuthorized'
<1>1. \A x, k : Covers(x, k)' = Covers(x, k)
  BY DEF Covers
<1> QED
  BY <1>1 DEF SessionsAreAuthorized

----------------------------------------------------------------------------
(* The steps of an authentication.                                           *)

LEMMA BeginAuthenticationStep ==
  ASSUME IInv, NEW t \in Attempts, NEW d \in Devices, NEW token \in 1..next_token,
         NEW nonce \in IF d = Proxy THEN {NoNonce} ELSE Nonces,
         BeginAuthentication(t, d, token, nonce)
  PROVE  IInv'
<1> USE DEF IInv, file_vars, drain_vars, meta_vars, close_vars, source_vars
<1>1. /\ attempt' \in [Attempts -> AttemptRecord]
      /\ attempt[t].pc = "idle" /\ attempt'[t].pc = "begun"
      /\ attempt'[t].epoch = disconnect_epoch /\ attempt'[t].now = now
      /\ attempt'[t].device # Proxy => attempt'[t].nonce \in Nonces
      /\ attempt'[t].account \in Accounts /\ attempt'[t].device \in Devices
      /\ \A s \in Attempts \ {t} : attempt'[s] = attempt[s]
      /\ UNCHANGED <<nonces, clients, mutations, candidate, admin, file_vars, meta_vars,
                     close_vars, source_vars, drain_vars>>
  BY DEF TypeOK, BeginAuthentication, client_for_token, AttemptRecord
<1>2. ~(attempt'[t].epoch < drained'[KeyOf(t)'])
  BY <1>1, EpochTypes DEF EpochInv, KeyOf, Keys
<1>3. TypeOK'
  BY <1>1 DEF TypeOK
<1>4. LockInv'
  BY <1>1 DEF LockInv, AttemptHolds, AdminHolds, WorkerHolds, CloserHolds
<1>5. StampInv'
  BY <1>1 DEF StampInv
<1>6. CandidateInv'
  BY <1>1, CandidateFrame DEF SameHolders, AttemptHolds
<1>7. FileInv'
  BY <1>1 DEF FileInv, Written, Flushes, WorkerHolds, CloserHolds, DirtyHasWriter
<1>8. EpochInv'
  BY <1>1, EpochTypes DEF EpochInv
<1>9. StaleIsRefused'
  BY <1>1, <1>2 DEF StaleIsRefused, KeyOf
<1>10. DrainInv'
  BY <1>1 DEF DrainInv, Admitted, Live, Covers, KeyOf
<1>11. AccessInv'
  BY <1>1 DEF AccessInv, AttemptHolds, client_for_token
<1>12. SessionsAreAuthorized'
  BY <1>1 DEF SessionsAreAuthorized, Authorized, Live, Covers, KeyOf, LastSeen, client_for_token
<1>13. CountInv' /\ OpInv'
  BY <1>1, CountFrame, OpFrame
<1> QED
  BY <1>3, <1>4, <1>5, <1>6, <1>7, <1>8, <1>9, <1>10, <1>11, <1>12, <1>13

(* A request is registered on what is in memory, by either path.             *)
LEMMA RegisterStep ==
  ASSUME IInv, NEW t \in Attempts, attempt[t].pc \in {"begun", "waiting"}, Admissible(t),
         LastSeen(t) # NotEnrolled, remember_nonce(t), Returns(t, "live"),
         UNCHANGED <<clients, mutations, candidate, admin, file_vars, meta_vars, close_vars,
                     source_vars>>
  PROVE  IInv'
<1> USE DEF IInv, file_vars, drain_vars, meta_vars, close_vars, source_vars
<1>1. /\ attempt' \in [Attempts -> AttemptRecord]
      /\ Proceeds(t, {"begun", "waiting"}, "live") /\ StillRefused(InFlight \ {t})
      /\ account_disconnect' \in [Accounts -> Nat] /\ device_disconnect' \in [Keys -> Nat]
      /\ UNCHANGED <<clients, mutations, candidate, admin, file_vars, meta_vars, close_vars,
                     source_vars, retiring_accounts, retiring_devices, disconnect_epoch, drained>>
  BY Returning DEF Proceeds
<1>2. nonces' \in [Keys -> SUBSET Nonces]
  BY EpochTypes DEF TypeOK, remember_nonce, StampInv, KeyOf
<1>3. /\ attempt[t].account \in client_for_token(attempt[t].token)
      /\ attempt[t].epoch >= drained[KeyOf(t)]
      /\ \A x \in Draining : ~Covers(x, KeyOf(t))
  BY AdmissibleIsFresh
<1>4. TypeOK'
  BY <1>1, <1>2 DEF TypeOK
<1>5. LockInv'
  BY <1>1 DEF Proceeds, LockInv, AttemptHolds, AdminHolds, WorkerHolds, CloserHolds
<1>6. StampInv'
  BY <1>1 DEF Proceeds, StampInv
<1>7. CandidateInv'
  BY <1>1, CandidateFrame DEF SameHolders, AttemptHolds, Proceeds
<1>8. FileInv'
  BY <1>1 DEF Proceeds, FileInv, Written, Flushes, WorkerHolds, CloserHolds, DirtyHasWriter
<1>9. EpochInv'
  BY <1>1, EpochTypes DEF EpochInv, Proceeds
<1>10. StaleIsRefused'
  BY <1>1, StaleKept DEF Proceeds
<1>11. DrainInv'
  BY <1>1, <1>3, EpochTypes DEF Proceeds, Draining, DrainInv, Admitted, Live, Covers, KeyOf
<1>12. AccessInv'
  BY <1>1 DEF Proceeds, AccessInv, AttemptHolds, client_for_token
<1>13. SessionsAreAuthorized'
  BY <1>1, <1>3, EpochTypes
     DEF Proceeds, SessionsAreAuthorized, Authorized, Live, Covers, KeyOf, LastSeen,
         client_for_token
<1>14. CountInv' /\ OpInv'
  BY <1>1, CountFrame, OpFrame
<1> QED
  BY <1>4, <1>5, <1>6, <1>7, <1>8, <1>9, <1>10, <1>11, <1>12, <1>13, <1>14

(* The fast path of a device registers on what is in memory.                 *)
LEMMA FastRegisterStep ==
  ASSUME IInv, NEW t \in Attempts, FastRegister(t)
  PROVE  IInv'
  BY RegisterStep DEF FastRegister

(* So does the slow path when somebody else enrolled the device.             *)
LEMMA SlowRegisterStep ==
  ASSUME IInv, NEW t \in Attempts, SlowRegister(t)
  PROVE  IInv'
  BY RegisterStep DEF SlowRegister, NeedsPersist

(* The fast path of the proxy changes memory under whoever writes the file.  *)
LEMMA TouchKeepsPublished ==
  ASSUME IInv, NEW a \in Accounts, NEW v \in Nat, v # NotEnrolled,
         clients[a].devices[Proxy] # NotEnrolled,
         clients' = [clients EXCEPT ![a].devices[Proxy] = v], UNCHANGED candidate
  PROVE  /\ clients' \in Files /\ Alike(clients, clients')
         /\ \A b \in Accounts, d \in Devices :
              Alike([clients EXCEPT ![b].devices[d] = candidate[b].devices[d]],
                    [clients' EXCEPT ![b].devices[d] = candidate[b].devices[d]])
         /\ \A b \in Accounts, d \in Devices \cup {All}, op \in Changes :
              (op = "retire" => d # All) => Alike(Published(op, b, d), Published(op, b, d)')
<1>1. clients \in Files /\ candidate \in Files /\ Proxy \in Devices
  BY RegistryAssumption DEF IInv, TypeOK, Files
<1>2. clients' \in Files /\ Alike(clients, clients')
  <2>1. Puts(clients, clients', a, Proxy, v)
    BY <1>1, PutEntry
  <2> QED
    BY <1>1, <2>1, TouchEntry DEF Puts
<1>3. \A b \in Accounts, d \in Devices :
        Alike([clients EXCEPT ![b].devices[d] = candidate[b].devices[d]],
              [clients' EXCEPT ![b].devices[d] = candidate[b].devices[d]])
  <2> TAKE b \in Accounts, d \in Devices
  <2>1. candidate[b].devices[d] \in Nat
    BY <1>1 DEF Files, ClientRecord
  <2> QED
    BY <1>1, <1>2, <2>1, PutAlike
<1>4. ASSUME NEW b \in Accounts, NEW d \in Devices \cup {All}, NEW op \in Changes,
             op = "retire" => d # All
      PROVE  Alike(Published(op, b, d), Published(op, b, d)')
  <2>1. candidate[b] \in ClientRecord
    BY <1>1 DEF Files
  <2>2. CASE op = "retire"
    <3>1. Alike([clients EXCEPT ![b].devices[d] = NotEnrolled],
                [clients' EXCEPT ![b].devices[d] = NotEnrolled])
      BY <1>1, <1>2, <1>4, <2>2, PutAlike DEF NotEnrolled
    <3> QED
      BY <2>2, <3>1 DEF Published
  <2>3. CASE op = "rotate"
    BY <1>1, <1>2, <2>1, <2>3, ChangesAlike DEF Published
  <2>4. CASE op \in {"create", "delete"}
    BY <1>1, <1>2, <2>1, <2>4, ChangesAlike DEF Published
  <2>5. CASE op \in {"enable", "disable"}
    <3> DEFINE new == candidate[b]
    <3>1. Alike([clients EXCEPT ![b].max_devices = new.max_devices, ![b].enabled = new.enabled],
                [clients' EXCEPT ![b].max_devices = new.max_devices, ![b].enabled = new.enabled])
      BY <1>1, <1>2, <2>1, ChangesAlike
    <3> QED
      BY <2>5, <3>1 DEF Published
  <2> QED
    BY <2>2, <2>3, <2>4, <2>5 DEF Changes
<1> QED
  BY <1>2, <1>3, <1>4

(* The proxy's record is refreshed in memory and marked dirty.               *)
LEMMA TouchStep ==
  ASSUME IInv, NEW t \in Attempts, attempt[t].pc = "begun", Admissible(t),
         attempt[t].device = Proxy, LastSeen(t) # NotEnrolled,
         clients' = [clients EXCEPT ![attempt[t].account].devices[Proxy] = attempt[t].now],
         metadata_dirty' = TRUE, metadata_version' = metadata_version + 1, Returns(t, "starting"),
         UNCHANGED <<nonces, mutations, candidate, admin, file_vars, metadata_worker, worker,
                     flush_version, close_vars, source_vars>>
  PROVE  IInv'
<1> USE DEF IInv, file_vars, drain_vars, meta_vars, close_vars, source_vars
<1>1. /\ attempt' \in [Attempts -> AttemptRecord]
      /\ Proceeds(t, {"begun"}, "starting") /\ StillRefused(InFlight \ {t})
      /\ account_disconnect' \in [Accounts -> Nat] /\ device_disconnect' \in [Keys -> Nat]
      /\ metadata_dirty' /\ metadata_version' = metadata_version + 1
      /\ UNCHANGED <<nonces, mutations, candidate, admin, file_vars, metadata_worker, worker,
                     flush_version, close_vars, source_vars, retiring_accounts,
                     retiring_devices, disconnect_epoch, drained>>
  BY Returning DEF Proceeds
<1>2. /\ ~closed /\ attempt[t].account \in client_for_token(attempt[t].token)
      /\ attempt[t].epoch >= drained[KeyOf(t)]
      /\ \A x \in Draining : ~Covers(x, KeyOf(t))
  BY AdmissibleIsFresh
<1>3. /\ clients \in Files /\ attempt[t].account \in Accounts /\ attempt[t].now \in Nat
      /\ attempt[t].now # NotEnrolled
      /\ clients[attempt[t].account].devices[Proxy] # NotEnrolled /\ Proxy \in Devices
  BY RegistryAssumption, SMTT(30) DEF TypeOK, Files, AttemptRecord, StampInv, NotEnrolled, LastSeen
<1>4. /\ clients' \in Files /\ Alike(clients, clients')
      /\ \A b \in Accounts, d \in Devices :
           Alike([clients EXCEPT ![b].devices[d] = candidate[b].devices[d]],
                 [clients' EXCEPT ![b].devices[d] = candidate[b].devices[d]])
      /\ \A b \in Accounts, d \in Devices \cup {All}, op \in Changes :
           (op = "retire" => d # All) => Alike(Published(op, b, d), Published(op, b, d)')
  BY <1>1, <1>3, TouchKeepsPublished
<1>5. Puts(clients, clients', attempt[t].account, Proxy, attempt[t].now)
  BY <1>3, PutEntry
<1>6. \A b \in Accounts : /\ clients'[b].present = clients[b].present
                          /\ clients'[b].token = clients[b].token
                          /\ clients'[b].enabled = clients[b].enabled
                          /\ \A e \in Devices : clients[b].devices[e] # NotEnrolled
                                                => clients'[b].devices[e] # NotEnrolled
  BY <1>3, <1>5 DEF Puts
<1>7. \A s \in Attempts : AttemptHolds(s)' =>
        /\ AttemptHolds(s) /\ Alike(candidate, PublishedEnrolment(s))
        /\ Alike(PublishedEnrolment(s), PublishedEnrolment(s)')
  BY <1>1, <1>4, EpochTypes, ZenonT(30) DEF CandidateInv, Follows, Proceeds, AttemptHolds, PublishedEnrolment
<1>8. ASSUME NEW x \in Admins, admin[x].pc \in {"writing", "written"}
      PROVE  Alike(candidate, Published(admin[x].op, admin[x].account, admin[x].device)')
  <2>1. admin[x].account \in Accounts /\ admin[x].device \in Devices \cup {All}
        /\ admin[x].op \in Changes /\ (admin[x].op = "retire" => admin[x].device # All)
    BY <1>8 DEF TypeOK, AdminRecord, OpInv, Changes
  <2>2. Alike(candidate, Published(admin[x].op, admin[x].account, admin[x].device))
    BY <1>8 DEF CandidateInv, Follows
  <2> QED
    BY <1>4, <2>1, <2>2, AlikeFacts
<1>9. TypeOK'
  BY <1>1, <1>4 DEF TypeOK, Files
<1>10. LockInv'
  BY <1>1 DEF Proceeds, LockInv, AttemptHolds, AdminHolds, WorkerHolds, CloserHolds
<1>11. StampInv'
  BY <1>1 DEF Proceeds, StampInv
<1>12. CandidateInv'
  BY <1>1, <1>4, <1>7, <1>8, AlikeFacts DEF CandidateInv, Follows, Proceeds, AttemptHolds
<1>13. FileInv'
  BY <1>1, <1>2
     DEF Proceeds, TypeOK, FileInv, Written, Flushes, WorkerHolds, CloserHolds, DirtyHasWriter
<1>14. EpochInv'
  BY <1>1, EpochTypes DEF EpochInv, Proceeds
<1>15. StaleIsRefused'
  BY <1>1, StaleKept DEF Proceeds
<1>16. DrainInv'
  BY <1>1, <1>2, EpochTypes DEF Proceeds, Draining, DrainInv, Admitted, Live, Covers, KeyOf
<1>17. AccessInv'
  BY <1>1, <1>6, EpochTypes DEF Proceeds, AccessInv, AttemptHolds, client_for_token
<1>18. SessionsAreAuthorized'
  BY <1>1, <1>2, <1>6, EpochTypes
     DEF Proceeds, SessionsAreAuthorized, Authorized, Live, Covers, KeyOf, LastSeen,
         client_for_token
<1>19. CountInv' /\ OpInv'
  BY <1>1, CountFrame, OpFrame
<1> QED
  BY <1>9, <1>10, <1>11, <1>12, <1>13, <1>14, <1>15, <1>16, <1>17, <1>18, <1>19

(* The fast path of the proxy refreshes its record or only registers.        *)
LEMMA FastRegisterProxyStep ==
  ASSUME IInv, NEW t \in Attempts, FastRegisterProxy(t)
  PROVE  IInv'
  BY RegisterStep, TouchStep DEF FastRegisterProxy, remember_nonce, meta_vars

(* The worker that will write the dirty record is started.                   *)
LEMMA StartMetadataWorkerStep ==
  ASSUME IInv, NEW t \in Attempts, start_metadata_worker(t)
  PROVE  IInv'
<1> USE DEF IInv, file_vars, drain_vars, meta_vars, close_vars, source_vars
<1>1. /\ attempt' \in [Attempts -> AttemptRecord] /\ Proceeds(t, {"starting"}, "live")
      /\ UNCHANGED <<clients, nonces, mutations, candidate, admin, file_vars, drain_vars,
                     metadata_dirty, metadata_version, flush_version, close_vars, source_vars>>
  BY Proceeding DEF start_metadata_worker, Proceeds
<1>2. /\ metadata_worker' \in Workers /\ worker'[metadata_worker'] # "off"
      /\ worker' \in [Workers -> {"off", "sleep", "flush", "write", "written", "check",
                               "last_flush", "last_write", "last_written"}]
      /\ \A w \in Workers : \/ worker'[w] = worker[w]
                            \/ worker[w] = "off" /\ worker'[w] = "sleep"
  BY DEF TypeOK, start_metadata_worker, Runs, Unused, NoWorker
<1>3. TypeOK'
  BY <1>1, <1>2 DEF TypeOK
<1>4. LockInv'
  BY <1>1, <1>2 DEF Proceeds, LockInv, AttemptHolds, AdminHolds, WorkerHolds, CloserHolds
<1>5. StampInv'
  BY <1>1 DEF Proceeds, StampInv
<1>6. CandidateInv'
  BY <1>1, CandidateFrame DEF SameHolders, AttemptHolds, Proceeds
<1>7. FileInv'
  BY <1>1, <1>2 DEF Proceeds, FileInv, Written, Flushes, WorkerHolds, CloserHolds, DirtyHasWriter
<1>8. EpochInv'
  BY <1>1, EpochTypes DEF EpochInv, Proceeds
<1>9. StaleIsRefused'
  BY <1>1, EpochTypes DEF StaleIsRefused, Proceeds, InFlight, KeyOf
<1>10. DrainInv'
  BY <1>1 DEF Proceeds, DrainInv, Admitted, Live, Covers, KeyOf
<1>11. AccessInv'
  BY <1>1 DEF Proceeds, AccessInv, AttemptHolds, client_for_token
<1>12. SessionsAreAuthorized'
  BY <1>1
     DEF Proceeds, SessionsAreAuthorized, Authorized, Live, Covers, KeyOf, LastSeen,
         client_for_token
<1>13. CountInv' /\ OpInv'
  BY <1>1, CountFrame, OpFrame
<1> QED
  BY <1>3, <1>4, <1>5, <1>6, <1>7, <1>8, <1>9, <1>10, <1>11, <1>12, <1>13

(* A request queues for the mutations lock.                                  *)
LEMMA AwaitMutationsStep ==
  ASSUME IInv, NEW t \in Attempts, AwaitMutations(t)
  PROVE  IInv'
<1> USE DEF IInv, file_vars, drain_vars, meta_vars, close_vars, source_vars
<1>1. /\ attempt' \in [Attempts -> AttemptRecord] /\ Proceeds(t, {"begun"}, "waiting")
      /\ UNCHANGED <<nonces, clients, mutations, candidate, admin, file_vars, meta_vars,
                     close_vars, source_vars, drain_vars>>
  BY Proceeding DEF AwaitMutations, Proceeds
<1>2. TypeOK'
  BY <1>1 DEF Proceeds, TypeOK
<1>3. LockInv'
  BY <1>1 DEF Proceeds, LockInv, AttemptHolds, AdminHolds, WorkerHolds, CloserHolds
<1>4. StampInv'
  BY <1>1 DEF Proceeds, StampInv
<1>5. CandidateInv'
  BY <1>1, CandidateFrame DEF SameHolders, AttemptHolds, Proceeds
<1>6. FileInv'
  BY <1>1 DEF Proceeds, FileInv, Written, Flushes, WorkerHolds, CloserHolds, DirtyHasWriter
<1>7. EpochInv'
  BY <1>1, EpochTypes DEF EpochInv, Proceeds
<1>8. StaleIsRefused'
  BY <1>1, EpochTypes DEF StaleIsRefused, Proceeds, InFlight, KeyOf
<1>9. DrainInv'
  BY <1>1 DEF Proceeds, DrainInv, Admitted, Live, Covers, KeyOf
<1>10. AccessInv'
  BY <1>1 DEF Proceeds, AccessInv, AttemptHolds, client_for_token
<1>11. SessionsAreAuthorized'
  BY <1>1
     DEF Proceeds, SessionsAreAuthorized, Authorized, Live, Covers, KeyOf, LastSeen,
         client_for_token
<1>12. CountInv' /\ OpInv'
  BY <1>1, CountFrame, OpFrame
<1> QED
  BY <1>2, <1>3, <1>4, <1>5, <1>6, <1>7, <1>8, <1>9, <1>10, <1>11, <1>12

(* A refused request leaves, and the drains that refuse others stay.         *)
LEMMA RefuseStep ==
  ASSUME IInv, NEW t \in Attempts, Refuse(t)
  PROVE  IInv'
<1> USE DEF IInv, file_vars, drain_vars, meta_vars, close_vars, source_vars
<1>1. /\ attempt' \in [Attempts -> AttemptRecord]
      /\ Leaves(t, {"begun", "waiting"}) /\ StillRefused(InFlight \ {t})
      /\ account_disconnect' \in [Accounts -> Nat] /\ device_disconnect' \in [Keys -> Nat]
      /\ UNCHANGED <<nonces, clients, mutations, candidate, admin, file_vars, meta_vars,
                     close_vars, source_vars, retiring_accounts, retiring_devices,
                     disconnect_epoch, drained>>
  BY Returning DEF Refuse, Leaves
<1>2. TypeOK'
  BY <1>1 DEF Leaves, TypeOK
<1>3. LockInv'
  BY <1>1 DEF Leaves, LockInv, AttemptHolds, AdminHolds, WorkerHolds, CloserHolds
<1>4. StampInv'
  BY <1>1 DEF StampInv, Leaves, Idle
<1>5. CandidateInv'
  BY <1>1, CandidateFrame DEF SameHolders, AttemptHolds, Leaves
<1>6. FileInv'
  BY <1>1 DEF Leaves, FileInv, Written, Flushes, WorkerHolds, CloserHolds, DirtyHasWriter
<1>7. EpochInv'
  BY <1>1, EpochTypes DEF EpochInv, Leaves, Idle
<1>8. StaleIsRefused'
  BY <1>1, StaleKept DEF Leaves
<1>9. DrainInv'
  BY <1>1 DEF Leaves, DrainInv, Admitted, Live, Covers, KeyOf
<1>10. AccessInv'
  BY <1>1 DEF Leaves, AccessInv, AttemptHolds, client_for_token
<1>11. SessionsAreAuthorized'
  BY <1>1
     DEF Leaves, SessionsAreAuthorized, Authorized, Live, Covers, KeyOf, LastSeen,
         client_for_token
<1>12. CountInv' /\ OpInv'
  BY <1>1, CountFrame, OpFrame
<1> QED
  BY <1>2, <1>3, <1>4, <1>5, <1>6, <1>7, <1>8, <1>9, <1>10, <1>11, <1>12

(* An enrolment takes the lock below the limit of devices.                   *)
LEMMA EnrolStep ==
  ASSUME IInv, NEW t \in Attempts, Enrol(t)
  PROVE  IInv'
<1> USE DEF IInv, file_vars, drain_vars, meta_vars, close_vars, source_vars
<1>1. /\ attempt' \in [Attempts -> AttemptRecord] /\ Proceeds(t, {"waiting"}, "writing")
      /\ mutations = Nobody /\ mutations' = t
      /\ candidate' = [clients EXCEPT ![attempt[t].account].devices[attempt[t].device] =
                                         attempt[t].now]
      /\ UNCHANGED <<clients, nonces, admin, file_vars, drain_vars, meta_vars, close_vars,
                     source_vars>>
  BY Proceeding DEF Enrol, Lock, Proceeds
<1>2. /\ \A s \in Attempts : ~AttemptHolds(s)
      /\ \A x \in Admins : ~AdminHolds(x)
      /\ \A w \in Workers : ~WorkerHolds(w)
      /\ ~CloserHolds
  BY <1>1, HolderAssumption DEF LockInv
<1>3. /\ ~closed /\ attempt[t].account \in client_for_token(attempt[t].token)
      /\ attempt[t].epoch >= drained[KeyOf(t)]
      /\ \A x \in Draining : ~Covers(x, KeyOf(t))
  BY <1>1, AdmissibleIsFresh DEF Enrol, Proceeds
<1>4. /\ clients \in Files /\ attempt[t].account \in Accounts /\ attempt[t].device \in Devices
      /\ attempt[t].now \in Nat /\ attempt[t].now # NotEnrolled
  BY <1>1 DEF TypeOK, Files, AttemptRecord, StampInv, NotEnrolled, Proceeds
<1>5. Puts(clients, candidate', attempt[t].account, attempt[t].device, attempt[t].now)
  BY <1>1, <1>4, PutEntry
<1>6. OpenAccepts(candidate')
  <2>1. clients[attempt[t].account].max_devices \in Nat
        /\ Cardinality(Enrolled(clients[attempt[t].account])) \in Nat
    BY <1>4, RegistryAssumption, FS_Subset, FS_CardinalityType DEF Files, ClientRecord, Enrolled
  <2>2. \/ clients[attempt[t].account].devices[attempt[t].device] # NotEnrolled
        \/ Cardinality(Enrolled(clients[attempt[t].account])) <
             clients[attempt[t].account].max_devices
    BY <2>1 DEF Enrol, DeviceLimit, LastSeen
  <2>3. OpenAccepts(clients)
    BY DEF CandidateInv
  <2>4. OpenAccepts([clients EXCEPT ![attempt[t].account].devices[attempt[t].device] =
                                       attempt[t].now])
    BY <1>4, <2>2, <2>3, AddEntry
  <2> QED
    BY <1>1, <2>4
<1>7. Follows(candidate, PublishedEnrolment(t))'
  <2>1. /\ attempt'[t].account = attempt[t].account /\ attempt'[t].device = attempt[t].device
        /\ clients' = clients
    BY <1>1 DEF Proceeds
  <2>2. candidate'[attempt[t].account].devices[attempt[t].device] = attempt[t].now
    BY <1>4, <1>5 DEF Puts
  <2>3. candidate' = [clients EXCEPT ![attempt[t].account].devices[attempt[t].device] =
                                       attempt[t].now]
    BY <1>1
  <2>4. candidate' = PublishedEnrolment(t)'
    BY <2>1, <2>2, <2>3 DEF PublishedEnrolment
  <2> QED
    BY <2>4, AlikeFacts DEF Follows
<1>8. TypeOK'
  BY <1>1, <1>5 DEF TypeOK, Files, Puts
<1>9. LockInv'
  BY <1>1, <1>2, <1>3, HolderAssumption
     DEF Proceeds, LockInv, AttemptHolds, AdminHolds, WorkerHolds, CloserHolds
<1>10. StampInv'
  BY <1>1 DEF Proceeds, StampInv
<1>11. CandidateInv'
  <2>1. \A s \in Attempts : AttemptHolds(s)' => s = t
    BY <1>1, <1>2 DEF Proceeds, AttemptHolds
  <2>2. candidate'[attempt'[t].account].devices[attempt'[t].device] # NotEnrolled
    BY <1>1, <1>4, <1>5 DEF Puts, Proceeds
  <2>3. \A x \in Admins : ~(admin'[x].pc \in {"writing", "written"})
    BY <1>1, <1>2 DEF AdminHolds
  <2> QED
    BY <1>1, <1>6, <1>7, <2>1, <2>2, <2>3 DEF CandidateInv
<1>12. FileInv'
  BY <1>1, <1>2
     DEF Proceeds, AttemptHolds, AdminHolds, FileInv, Written, Flushes, WorkerHolds, CloserHolds,
         DirtyHasWriter
<1>13. EpochInv'
  BY <1>1, EpochTypes DEF EpochInv, Proceeds
<1>14. StaleIsRefused'
  BY <1>1, EpochTypes DEF StaleIsRefused, Proceeds, InFlight, KeyOf
<1>15. DrainInv'
  BY <1>1, <1>3, EpochTypes DEF Proceeds, Draining, DrainInv, Admitted, Live, Covers, KeyOf
<1>16. AccessInv'
  BY <1>1, <1>2, <1>3, <1>5, EpochTypes
     DEF Puts, Proceeds, AdminHolds, AccessInv, AttemptHolds, client_for_token
<1>17. SessionsAreAuthorized'
  BY <1>1
     DEF Proceeds, SessionsAreAuthorized, Authorized, Live, Covers, KeyOf, LastSeen,
         client_for_token
<1>18. CountInv' /\ OpInv'
  BY <1>1, CountFrame, OpFrame
<1> QED
  BY <1>8, <1>9, <1>10, <1>11, <1>12, <1>13, <1>14, <1>15, <1>16, <1>17, <1>18

(* The write failed: the attempt is over and the lock is free.               *)
LEMMA AbortEnrolmentStep ==
  ASSUME IInv, NEW t \in Attempts, attempt[t].pc = "writing", Returns(t, "idle"), Unlock(t),
         UNCHANGED <<clients, nonces, admin, file_vars, meta_vars, close_vars, source_vars>>
  PROVE  IInv'
<1> USE DEF IInv, file_vars, drain_vars, meta_vars, close_vars, source_vars
<1>1. /\ attempt' \in [Attempts -> AttemptRecord]
      /\ Leaves(t, {"writing"}) /\ StillRefused(InFlight \ {t})
      /\ account_disconnect' \in [Accounts -> Nat] /\ device_disconnect' \in [Keys -> Nat]
      /\ mutations' = Nobody /\ candidate' = NoCandidate
      /\ UNCHANGED <<clients, nonces, admin, file_vars, meta_vars, close_vars, source_vars,
                     retiring_accounts, retiring_devices, disconnect_epoch, drained>>
  BY Returning DEF Leaves, Unlock
<1>2. /\ \A s \in Attempts \ {t} : ~AttemptHolds(s)
      /\ \A x \in Admins : ~AdminHolds(x)
      /\ \A w \in Workers : ~WorkerHolds(w)
      /\ ~CloserHolds /\ ~closed /\ mutations = t
  BY <1>1, HolderAssumption DEF LockInv, AttemptHolds, Proceeds, Leaves
<1>3. TypeOK'
  BY <1>1, SomeRecords DEF TypeOK, Files
<1>4. LockInv'
  BY <1>1, <1>2, HolderAssumption
     DEF Leaves, LockInv, AttemptHolds, AdminHolds, WorkerHolds, CloserHolds
<1>5. StampInv'
  BY <1>1 DEF StampInv, Leaves, Idle
<1>6. CandidateInv'
  BY <1>1, <1>2, NoCandidateAccepted DEF CandidateInv, Leaves, AttemptHolds, AdminHolds
<1>7. FileInv'
  BY <1>1, <1>2
     DEF Leaves, AttemptHolds, AdminHolds, FileInv, Written, Flushes, WorkerHolds, CloserHolds,
         DirtyHasWriter
<1>8. EpochInv'
  BY <1>1, EpochTypes DEF EpochInv, Leaves, Idle
<1>9. StaleIsRefused'
  BY <1>1, StaleKept DEF Leaves
<1>10. DrainInv'
  BY <1>1 DEF Leaves, DrainInv, Admitted, Live, Covers, KeyOf
<1>11. AccessInv'
  BY <1>1, <1>2, NoCandidateAccepted, EpochTypes
     DEF Leaves, AdminHolds, AccessInv, AttemptHolds, client_for_token
<1>12. SessionsAreAuthorized'
  BY <1>1
     DEF Leaves, SessionsAreAuthorized, Authorized, Live, Covers, KeyOf, LastSeen,
         client_for_token
<1>13. CountInv' /\ OpInv'
  BY <1>1, CountFrame, OpFrame
<1> QED
  BY <1>3, <1>4, <1>5, <1>6, <1>7, <1>8, <1>9, <1>10, <1>11, <1>12, <1>13

(* The write of an enrolment reaches the file or fails.                      *)
LEMMA WriteEnrolmentStep ==
  ASSUME IInv, NEW t \in Attempts, NEW outcome \in Outcomes, WriteEnrolment(t, outcome)
  PROVE  IInv'
<1> USE DEF IInv, file_vars, drain_vars, meta_vars, close_vars, source_vars
<1>1. CASE outcome = "io"
  <2>1. UNCHANGED file_vars
    BY <1>1, Persisting DEF WriteEnrolment
  <2> QED
    BY <1>1, <2>1, AbortEnrolmentStep DEF WriteEnrolment
<1> SUFFICES ASSUME outcome # "io" PROVE IInv'
  BY <1>1
<1>2. /\ attempt' \in [Attempts -> AttemptRecord] /\ Proceeds(t, {"writing"}, "written")
      /\ UNCHANGED <<clients, nonces, mutations, candidate, admin, drain_vars, meta_vars,
                     close_vars, source_vars>>
  BY Proceeding DEF WriteEnrolment, Proceeds
<1>3. /\ \A s \in Attempts \ {t} : ~AttemptHolds(s)
      /\ \A x \in Admins : ~AdminHolds(x)
      /\ \A w \in Workers : ~WorkerHolds(w)
      /\ ~CloserHolds /\ ~closed /\ mutations = t
  BY <1>2, HolderAssumption DEF LockInv, AttemptHolds, Proceeds, Leaves
<1>4. /\ disk' \in Files /\ durable' \in SUBSET Files
      /\ persisted' \in BOOLEAN /\ durability_error' \in BOOLEAN
      /\ (persisted' /\ ~durability_error') => durable' = {disk'}
      /\ OpenAccepts(disk') /\ \A file \in durable' : OpenAccepts(file)
      /\ \A a \in unused : ~disk'[a].present /\ \A file \in durable' : ~file[a].present
      /\ outcome # "io" => disk' = candidate
      /\ outcome = "io" => UNCHANGED file_vars
  BY Persisting DEF WriteEnrolment
<1>5. TypeOK'
  BY <1>2, <1>4 DEF TypeOK, Files
<1>6. LockInv'
  BY <1>2 DEF Proceeds, LockInv, AttemptHolds, AdminHolds, WorkerHolds, CloserHolds
<1>7. StampInv'
  BY <1>2 DEF Proceeds, StampInv
<1>8. CandidateInv'
  <2>1. PublishedEnrolment(t)' = PublishedEnrolment(t)
    BY <1>2 DEF PublishedEnrolment, Proceeds
  <2> QED
    BY <1>2, <1>3, <1>4, <2>1 DEF CandidateInv, Follows, Alike, Proceeds, AttemptHolds, AdminHolds
<1>9. FileInv'
  BY <1>2, <1>3, <1>4
     DEF Proceeds, AttemptHolds, AdminHolds, FileInv, Written, Flushes, WorkerHolds, CloserHolds,
         DirtyHasWriter
<1>10. EpochInv'
  BY <1>2, EpochTypes DEF EpochInv, Proceeds
<1>11. StaleIsRefused'
  BY <1>2, EpochTypes DEF StaleIsRefused, Proceeds, InFlight, KeyOf
<1>12. DrainInv'
  BY <1>2 DEF Proceeds, DrainInv, Admitted, Live, Covers, KeyOf
<1>13. AccessInv'
  BY <1>2, <1>3, <1>4 DEF Proceeds, AdminHolds, AccessInv, AttemptHolds, client_for_token
<1>14. SessionsAreAuthorized'
  BY <1>2
     DEF Proceeds, SessionsAreAuthorized, Authorized, Live, Covers, KeyOf, LastSeen,
         client_for_token
<1>15. CountInv' /\ OpInv'
  BY <1>2, CountFrame, OpFrame
<1> QED
  BY <1>5, <1>6, <1>7, <1>8, <1>9, <1>10, <1>11, <1>12, <1>13, <1>14, <1>15

(* The enrolment is copied into memory and its session registered.           *)
LEMMA PublishEnrolmentStep ==
  ASSUME IInv, NEW t \in Attempts, PublishEnrolment(t)
  PROVE  IInv'
<1> USE DEF IInv, file_vars, drain_vars, meta_vars, close_vars, source_vars
<1>1. /\ attempt' \in [Attempts -> AttemptRecord]
      /\ Proceeds(t, {"written"}, "live") /\ StillRefused(InFlight \ {t})
      /\ account_disconnect' \in [Accounts -> Nat] /\ device_disconnect' \in [Keys -> Nat]
      /\ clients' = PublishedEnrolment(t)
      /\ mutations' = Nobody /\ candidate' = NoCandidate
      /\ UNCHANGED <<admin, file_vars, meta_vars, close_vars, source_vars,
                     retiring_accounts, retiring_devices, disconnect_epoch, drained>>
  BY Returning DEF PublishEnrolment, PublishedEnrolment, Proceeds, Unlock
<1>2. /\ \A s \in Attempts \ {t} : ~AttemptHolds(s)
      /\ \A x \in Admins : ~AdminHolds(x)
      /\ \A w \in Workers : ~WorkerHolds(w)
      /\ ~CloserHolds /\ ~closed /\ mutations = t
  BY <1>1, HolderAssumption DEF LockInv, AttemptHolds, Proceeds, Leaves
<1>3. /\ Follows(candidate, clients') /\ disk = candidate /\ OpenAccepts(candidate)
      /\ candidate[attempt[t].account].devices[attempt[t].device] # NotEnrolled
      /\ attempt[t].account \in client_for_token(attempt[t].token)
  BY <1>1 DEF CandidateInv, FileInv, AccessInv, Written, AttemptHolds, Proceeds
<1>4. nonces' \in [Keys -> SUBSET Nonces]
  BY EpochTypes DEF TypeOK, PublishEnrolment, remember_nonce, StampInv, KeyOf
<1>5. /\ clients \in Files /\ attempt[t].account \in Accounts /\ attempt[t].device \in Devices
      /\ candidate[attempt[t].account].devices[attempt[t].device] \in Nat
  BY EpochTypes DEF TypeOK, Files, ClientRecord
<1>6. Puts(clients, clients', attempt[t].account, attempt[t].device,
           candidate[attempt[t].account].devices[attempt[t].device])
  BY <1>1, <1>5, PutEntry DEF PublishedEnrolment
<1>7. OpenAccepts(clients')
  BY <1>3, AlikeFacts DEF Follows
<1>8. TypeOK'
  BY <1>1, <1>4, <1>6, SomeRecords DEF TypeOK, Files, Puts
<1>9. LockInv'
  BY <1>1, <1>2, HolderAssumption
     DEF Proceeds, LockInv, AttemptHolds, AdminHolds, WorkerHolds, CloserHolds
<1>10. StampInv'
  BY <1>1 DEF Proceeds, StampInv
<1>11. CandidateInv'
  BY <1>1, <1>2, <1>7, NoCandidateAccepted DEF CandidateInv, Proceeds, AttemptHolds, AdminHolds
<1>12. FileInv'
  BY <1>1, <1>2, <1>3
     DEF Proceeds, Follows, AttemptHolds, AdminHolds, FileInv, Written, Flushes, WorkerHolds,
         CloserHolds, DirtyHasWriter
<1>13. EpochInv'
  BY <1>1, EpochTypes DEF EpochInv, Proceeds
<1>14. StaleIsRefused'
  BY <1>1, StaleKept DEF Proceeds
<1>15. DrainInv'
  BY <1>1, <1>2, EpochTypes DEF Proceeds, AdminHolds, DrainInv, Admitted, Live, Covers, KeyOf
<1>16. AccessInv'
  BY <1>1, <1>2, <1>6, NoCandidateAccepted, EpochTypes
     DEF Puts, Proceeds, AdminHolds, AccessInv, AttemptHolds, client_for_token
<1>17. SessionsAreAuthorized'
  <2>1. \A a \in Accounts : \A token :
           a \in client_for_token(token)' <=> a \in client_for_token(token)
    BY <1>6 DEF Puts, client_for_token
  <2>2. /\ \A s \in Attempts \ {t} : attempt'[s] = attempt[s]
        /\ attempt'[t].account = attempt[t].account /\ attempt'[t].token = attempt[t].token
        /\ attempt'[t].device = attempt[t].device
    BY <1>1 DEF Proceeds
  <2>3. /\ \A a \in Accounts, d \in Devices : clients[a].devices[d] # NotEnrolled
                                               => clients'[a].devices[d] # NotEnrolled
        /\ clients'[attempt[t].account].devices[attempt[t].device] # NotEnrolled
    BY <1>3, <1>5, <1>6 DEF Puts
  <2>4. Authorized(t)'
    BY <1>3, <1>5, <2>1, <2>2, <2>3 DEF Authorized, LastSeen
  <2>5. ASSUME NEW s \in Attempts \ {t}
        PROVE  /\ s \in Live' => s \in Live
               /\ KeyOf(s)' = KeyOf(s)
               /\ Authorized(s) => Authorized(s)'
    BY <2>1, <2>2, <2>3, EpochTypes DEF Authorized, LastSeen, Live, KeyOf
  <2>6. \A s \in Live' : s \in Attempts
    BY DEF Live
  <2> QED
    BY <1>1, <2>4, <2>5, <2>6, AuthorizedKept
<1>18. CountInv' /\ OpInv'
  BY <1>1, CountFrame, OpFrame
<1> QED
  BY <1>8, <1>9, <1>10, <1>11, <1>12, <1>13, <1>14, <1>15, <1>16, <1>17, <1>18

(* A session that ends leaves every set of awaited sessions.                 *)
LEMMA FinishSessionStep ==
  ASSUME IInv, NEW t \in Attempts, FinishSession(t)
  PROVE  IInv'
<1> USE DEF IInv, file_vars, drain_vars, meta_vars, close_vars, source_vars
<1>1. /\ attempt' \in [Attempts -> AttemptRecord] /\ Leaves(t, {"live"})
      /\ UNCHANGED <<clients, nonces, mutations, candidate, file_vars, drain_vars, meta_vars,
                     close_vars, source_vars>>
  BY SomeRecords DEF FinishSession, Leaves, TypeOK, Idle
<1>2. /\ admin' \in [Admins -> AdminRecord]
      /\ \A x \in Admins : /\ admin'[x].pc = admin[x].pc /\ admin'[x].op = admin[x].op
                           /\ admin'[x].account = admin[x].account
                           /\ admin'[x].device = admin[x].device
                           /\ admin'[x].waiting = admin[x].waiting \ {t}
  <2>1. admin \in [Admins -> AdminRecord]
        /\ admin' = [x \in Admins |-> [admin[x] EXCEPT !.waiting = @ \ {t}]]
    BY DEF TypeOK, FinishSession
  <2> QED
    BY <2>1 DEF AdminRecord
<1>3. TypeOK'
  BY <1>1, <1>2 DEF Leaves, TypeOK
<1>4. LockInv'
  BY <1>1, <1>2 DEF Leaves, LockInv, AttemptHolds, AdminHolds, WorkerHolds, CloserHolds
<1>5. CountInv'
  BY <1>1, <1>2, CountKept DEF Draining
<1>6. OpInv'
  BY <1>1, <1>2 DEF OpInv
<1>7. StampInv'
  BY <1>1, <1>2 DEF StampInv, Leaves, Idle
<1>8. CandidateInv'
  BY <1>1, <1>2, CandidateFrame DEF SameHolders, AttemptHolds, Leaves
<1>9. FileInv'
  BY <1>1, <1>2 DEF Leaves, FileInv, Written, Flushes, WorkerHolds, CloserHolds, DirtyHasWriter
<1>10. EpochInv'
  BY <1>1, <1>2, EpochTypes DEF EpochInv, Leaves, Idle
<1>11. StaleIsRefused'
  BY <1>1, <1>2, EpochTypes DEF StaleIsRefused, Leaves, InFlight, KeyOf
<1>12. DrainInv'
  BY <1>1, <1>2 DEF Leaves, DrainInv, Admitted, Live, Covers, KeyOf
<1>13. AccessInv'
  BY <1>1, <1>2 DEF Leaves, AccessInv, AttemptHolds, client_for_token
<1>14. SessionsAreAuthorized'
  BY <1>1, <1>2
     DEF Leaves, SessionsAreAuthorized, Authorized, Live, Covers, KeyOf, LastSeen,
         client_for_token
<1> QED
  BY <1>3, <1>4, <1>5, <1>6, <1>7, <1>8, <1>9, <1>10, <1>11, <1>12, <1>13, <1>14

----------------------------------------------------------------------------
(* The steps of an administrative change.                                    *)

AdminGoes(x, from, to) ==
  /\ admin[x].pc \in from /\ admin'[x].pc = to
  /\ admin'[x].op = admin[x].op /\ admin'[x].account = admin[x].account
  /\ admin'[x].device = admin[x].device
  /\ \A y \in Admins \ {x} : admin'[y] = admin[y]

AdminEnds(x, from) ==
  /\ admin[x].pc \in from /\ admin'[x] = NoChange /\ admin'[x].pc = "idle"
  /\ admin'[x].op = "none"
  /\ \A y \in Admins \ {x} : admin'[y] = admin[y]

(* A change that goes on keeps what it changes.                              *)
LEMMA AdminGoing ==
  ASSUME TypeOK, NEW x \in Admins, NEW to \in {"written", "drain", "cancel", "retired"},
         admin' = [admin EXCEPT ![x].pc = to]
  PROVE  /\ admin' \in [Admins -> AdminRecord] /\ AdminGoes(x, {admin[x].pc}, to)
         /\ admin'[x].waiting = admin[x].waiting
<1>1. admin \in [Admins -> AdminRecord]
  BY DEF TypeOK
<1> QED
  BY <1>1 DEF AdminRecord, AdminGoes

(* A change that is over leaves its place free.                              *)
LEMMA AdminEnding ==
  ASSUME TypeOK, NEW x \in Admins, admin' = [admin EXCEPT ![x] = NoChange]
  PROVE  admin' \in [Admins -> AdminRecord] /\ AdminEnds(x, {admin[x].pc})
<1>1. admin \in [Admins -> AdminRecord]
  BY DEF TypeOK
<1>2. admin' \in [Admins -> AdminRecord] /\ admin'[x] = NoChange
      /\ \A y \in Admins \ {x} : admin'[y] = admin[y]
  BY <1>1, SomeRecords
<1> QED
  BY <1>2 DEF AdminEnds, NoChange

(* The types of a change under way.                                          *)
LEMMA AdminTypes ==
  ASSUME TypeOK, NEW x \in Admins
  PROVE  /\ admin[x].account \in Accounts /\ admin[x].device \in Devices \cup {All}
         /\ admin[x].waiting \subseteq Attempts
         /\ admin[x].op \in Changes \cup {"none", "disconnect"}
  BY DEF TypeOK, AdminRecord, Changes

(* A change takes the lock with a candidate that publishing will match.      *)
LEMMA BeginStep ==
  ASSUME IInv, NEW x \in Admins, NEW op \in Changes, NEW a \in Accounts,
         NEW d \in Devices \cup {All}, op = "retire" <=> d # All, Begin(x, op, a, d, "writing"),
         candidate' \in Files, OpenAccepts(candidate'), candidate' = Published(op, a, d)',
         op = "create" => ~clients[a].present, op = "enable" => candidate'[a].enabled,
         next_token' \in Nat, unused' \subseteq unused, \A b \in unused' : ~candidate'[b].present
  PROVE  IInv'
<1> USE DEF IInv, file_vars, drain_vars, meta_vars, close_vars, source_vars
<1>1. /\ admin[x].pc = "idle" /\ ~closed /\ mutations = Nobody /\ mutations' = x
      /\ UNCHANGED <<clients, nonces, attempt, file_vars, drain_vars, meta_vars, close_vars, now>>
  BY DEF Begin, Lock
<1>2. /\ admin' \in [Admins -> AdminRecord]
      /\ admin'[x].pc = "writing" /\ admin'[x].op = op /\ admin'[x].account = a
      /\ admin'[x].device = d
      /\ \A y \in Admins \ {x} : admin'[y] = admin[y]
  <2>1. admin \in [Admins -> AdminRecord]
    BY DEF TypeOK
  <2> QED
    BY <2>1 DEF Begin, AdminRecord, Changes
<1>3. /\ \A s \in Attempts : ~AttemptHolds(s)
      /\ \A y \in Admins : ~AdminHolds(y)
      /\ \A w \in Workers : ~WorkerHolds(w)
      /\ ~CloserHolds
  BY <1>1, HolderAssumption DEF LockInv
<1>4. TypeOK'
  BY <1>1, <1>2 DEF TypeOK, Files
<1>5. LockInv'
  BY <1>1, <1>3, <1>2, HolderAssumption
     DEF LockInv, AttemptHolds, AdminHolds, WorkerHolds, CloserHolds
<1>6. CountInv'
  BY <1>1, <1>2, CountKept DEF Draining
<1>7. OpInv'
  BY <1>1, <1>2 DEF OpInv, Changes
<1>8. CandidateInv'
  <2>1. \A s \in Attempts : ~AttemptHolds(s)'
    BY <1>1, <1>3 DEF AttemptHolds
  <2>2. \A y \in Admins : admin'[y].pc \in {"writing", "written"} => y = x
    BY <1>2, <1>3 DEF AdminHolds
  <2>3. Follows(candidate, Published(admin[x].op, admin[x].account, admin[x].device))'
    BY <1>2, AlikeFacts DEF Follows
  <2> QED
    BY <1>1, <2>1, <2>2, <2>3 DEF CandidateInv
<1>9. FileInv'
  BY <1>1, <1>3, <1>2
     DEF AttemptHolds, AdminHolds, FileInv, Written, Flushes, WorkerHolds, CloserHolds,
         DirtyHasWriter
<1>10. DrainInv'
  BY <1>1, <1>2 DEF DrainInv, Admitted, Live, Covers, KeyOf
<1>11. AccessInv'
  BY <1>1, <1>3, <1>2 DEF AdminHolds, AccessInv, AttemptHolds, client_for_token
<1>12. SessionsAreAuthorized'
  BY <1>1, <1>2
     DEF SessionsAreAuthorized, Authorized, Live, Covers, KeyOf, LastSeen, client_for_token
<1>13. StampInv' /\ EpochInv' /\ StaleIsRefused'
  BY <1>1, StampFrame, EpochFrame, StaleFrame
<1> QED
  BY <1>4, <1>5, <1>6, <1>7, <1>8, <1>9, <1>10, <1>11, <1>12, <1>13

(* A disconnect takes the lock and changes no record.                        *)
LEMMA DisconnectStep ==
  ASSUME IInv, NEW x \in Admins, NEW a \in Accounts, NEW d \in Devices \cup {All},
         disconnect(x, a, d)
  PROVE  IInv'
<1> USE DEF IInv, file_vars, drain_vars, meta_vars, close_vars, source_vars
<1>1. /\ admin[x].pc = "idle" /\ ~closed /\ mutations = Nobody /\ mutations' = x
      /\ UNCHANGED <<clients, nonces, attempt, file_vars, drain_vars, meta_vars, close_vars,
                     source_vars, candidate>>
  BY DEF disconnect, Begin, Lock
<1>2. /\ admin' \in [Admins -> AdminRecord]
      /\ admin'[x].pc = "drain" /\ admin'[x].op = "disconnect" /\ admin'[x].account = a
      /\ admin'[x].device = d
      /\ \A y \in Admins \ {x} : admin'[y] = admin[y]
  <2>1. admin \in [Admins -> AdminRecord]
    BY DEF TypeOK
  <2> QED
    BY <2>1 DEF disconnect, Begin, AdminRecord, Changes
<1>3. /\ \A s \in Attempts : ~AttemptHolds(s)
      /\ \A y \in Admins : ~AdminHolds(y)
      /\ \A w \in Workers : ~WorkerHolds(w)
      /\ ~CloserHolds
  BY <1>1, HolderAssumption DEF LockInv
<1>4. TypeOK'
  BY <1>1, <1>2 DEF TypeOK, Files
<1>5. LockInv'
  BY <1>1, <1>3, <1>2, HolderAssumption
     DEF LockInv, AttemptHolds, AdminHolds, WorkerHolds, CloserHolds
<1>6. CountInv'
  BY <1>1, <1>2, CountKept DEF Draining
<1>7. OpInv'
  BY <1>1, <1>2 DEF OpInv, Changes
<1>8. CandidateInv'
  BY <1>1, <1>3, <1>2, CandidateFrame DEF SameHolders, AttemptHolds, AdminHolds
<1>9. FileInv'
  BY <1>1, <1>3, <1>2
     DEF AttemptHolds, AdminHolds, FileInv, Written, Flushes, WorkerHolds, CloserHolds,
         DirtyHasWriter
<1>10. DrainInv'
  BY <1>1, <1>2 DEF DrainInv, Admitted, Live, Covers, KeyOf
<1>11. AccessInv'
  BY <1>1, <1>3, <1>2 DEF AdminHolds, AccessInv, AttemptHolds, client_for_token
<1>12. SessionsAreAuthorized'
  BY <1>1, <1>2
     DEF SessionsAreAuthorized, Authorized, Live, Covers, KeyOf, LastSeen, client_for_token
<1>13. StampInv' /\ EpochInv' /\ StaleIsRefused'
  BY <1>1, StampFrame, EpochFrame, StaleFrame
<1> QED
  BY <1>4, <1>5, <1>6, <1>7, <1>8, <1>9, <1>10, <1>11, <1>12, <1>13

(* A new account is one that no file has ever held.                          *)
LEMMA CreateStep ==
  ASSUME IInv, NEW x \in Admins, NEW a \in Accounts, NEW max \in 1..MaxDevices, create(x, a, max)
  PROVE  IInv'
<1>1. /\ a \in unused /\ next_token' = next_token + 1 /\ unused' = unused \ {a}
      /\ Begin(x, "create", a, All, "writing") /\ clients' = clients
      /\ candidate' = [clients EXCEPT ![a] = NewClient(next_token + 1, max)]
  BY DEF create, FreshToken, Begin
<1>2. /\ clients \in Files /\ next_token \in Nat /\ unused \subseteq Accounts /\ max \in Nat
      /\ OpenAccepts(clients) /\ \A b \in unused : ~clients[b].present
  BY RegistryAssumption DEF IInv, TypeOK, Files, CandidateInv, AccessInv
<1>3. NewClient(next_token + 1, max) \in ClientRecord
  BY <1>2, SomeRecords
<1>4. /\ candidate' \in Files /\ candidate'[a] = NewClient(next_token + 1, max)
      /\ \A b \in Accounts \ {a} : candidate'[b] = clients[b]
  BY <1>1, <1>2, <1>3 DEF Files
<1>5. candidate' = Published("create", a, All)'
  BY <1>1, <1>4 DEF Published
<1>6. OpenAccepts(candidate')
  <2>1. Enrolled(candidate'[a]) = {} /\ candidate'[a].max_devices = max
    BY <1>4 DEF NewClient, Enrolled, NotEnrolled
  <2> QED
    BY <1>2, <1>4, <2>1, FS_EmptySet DEF OpenAccepts
<1>7. /\ next_token' \in Nat /\ unused' \subseteq unused /\ ~clients[a].present
      /\ \A b \in unused' : ~candidate'[b].present
  BY <1>1, <1>2, <1>4
<1> QED
  BY <1>1, <1>4, <1>5, <1>6, <1>7, BeginStep DEF Changes

(* A limit is never set below the devices that are enrolled.                 *)
LEMMA UpdateStep ==
  ASSUME IInv, NEW x \in Admins, NEW a \in Accounts, NEW max \in 1..MaxDevices,
         NEW enabled \in BOOLEAN, update(x, a, max, enabled)
  PROVE  IInv'
<1> DEFINE op == IF enabled THEN "enable" ELSE "disable"
<1>1. /\ Begin(x, op, a, All, "writing") /\ clients' = clients
      /\ candidate' = [clients EXCEPT ![a].max_devices = max, ![a].enabled = enabled]
      /\ clients[a].present /\ max >= Cardinality(Enrolled(clients[a]))
      /\ UNCHANGED <<next_token, unused>>
  BY DEF update, Begin
<1>2. /\ clients \in Files /\ next_token \in Nat /\ unused \subseteq Accounts /\ max \in Nat
      /\ OpenAccepts(clients) /\ \A b \in unused : ~clients[b].present
  BY RegistryAssumption DEF IInv, TypeOK, Files, CandidateInv, AccessInv
<1>3. /\ candidate' \in Files /\ candidate'[a].max_devices = max
      /\ candidate'[a].enabled = enabled /\ candidate'[a].present = clients[a].present
      /\ candidate'[a].devices = clients[a].devices
      /\ \A b \in Accounts \ {a} : candidate'[b] = clients[b]
  BY <1>1, <1>2 DEF Files, ClientRecord
<1>4. candidate' = Published(op, a, All)'
  BY <1>1, <1>3 DEF Published
<1>5. OpenAccepts(candidate')
  <2>1. Enrolled(candidate'[a]) = Enrolled(clients[a])
    BY <1>3 DEF Enrolled
  <2>2. IsFiniteSet(Enrolled(clients[a])) /\ Cardinality(Enrolled(clients[a])) \in Nat
    BY RegistryAssumption, FS_Subset, FS_CardinalityType DEF Enrolled
  <2> QED
    BY <1>1, <1>2, <1>3, <2>1, <2>2 DEF OpenAccepts
<1>6. op \in Changes /\ op # "retire" /\ op # "create" /\ (op = "enable" => candidate'[a].enabled)
  BY <1>3 DEF Changes
<1> QED
  BY <1>1, <1>2, <1>3, <1>4, <1>5, <1>6, BeginStep

(* A new token changes no device.                                            *)
LEMMA RotateTokenStep ==
  ASSUME IInv, NEW x \in Admins, NEW a \in Accounts, rotate_token(x, a)
  PROVE  IInv'
<1>1. /\ Begin(x, "rotate", a, All, "writing") /\ clients' = clients
      /\ candidate' = [clients EXCEPT ![a].token = next_token + 1]
      /\ clients[a].present /\ next_token' = next_token + 1 /\ UNCHANGED unused
  BY DEF rotate_token, FreshToken, Begin
<1>2. /\ clients \in Files /\ next_token \in Nat /\ unused \subseteq Accounts
      /\ OpenAccepts(clients) /\ \A b \in unused : ~clients[b].present
  BY DEF IInv, TypeOK, Files, CandidateInv, AccessInv
<1>3. /\ candidate' \in Files /\ candidate'[a].token = next_token + 1
      /\ candidate'[a].max_devices = clients[a].max_devices
      /\ candidate'[a].present = clients[a].present
      /\ candidate'[a].devices = clients[a].devices
      /\ \A b \in Accounts \ {a} : candidate'[b] = clients[b]
  <2> DEFINE v == next_token + 1
  <2>1. v \in Nat /\ candidate' = [clients EXCEPT ![a].token = v]
    BY <1>1, <1>2
  <2> HIDE DEF v
  <2>2. /\ candidate' \in Files /\ candidate'[a].token = v
        /\ candidate'[a].max_devices = clients[a].max_devices
        /\ candidate'[a].present = clients[a].present
        /\ candidate'[a].devices = clients[a].devices
        /\ \A b \in Accounts \ {a} : candidate'[b] = clients[b]
    BY <1>2, <2>1 DEF Files, ClientRecord
  <2> QED
    BY <2>2 DEF v
<1>4. candidate' = Published("rotate", a, All)'
  BY <1>1, <1>3 DEF Published
<1>5. OpenAccepts(candidate')
  <2>1. \A b \in Accounts : Enrolled(candidate'[b]) = Enrolled(clients[b])
                            /\ candidate'[b].max_devices = clients[b].max_devices
    BY <1>3 DEF Enrolled
  <2> QED
    BY <1>2, <2>1 DEF OpenAccepts
<1>6. /\ next_token' \in Nat /\ unused' \subseteq unused
      /\ \A b \in unused' : ~candidate'[b].present
  BY <1>1, <1>2, <1>3
<1> QED
  BY <1>1, <1>3, <1>4, <1>5, <1>6, BeginStep DEF Changes

(* A deleted account leaves an empty record.                                 *)
LEMMA DeleteStep ==
  ASSUME IInv, NEW x \in Admins, NEW a \in Accounts, delete(x, a)
  PROVE  IInv'
<1>1. /\ Begin(x, "delete", a, All, "writing") /\ clients' = clients
      /\ candidate' = [clients EXCEPT ![a] = NoClient]
      /\ clients[a].present /\ UNCHANGED <<next_token, unused>>
  BY DEF delete, Begin
<1>2. /\ clients \in Files /\ next_token \in Nat /\ unused \subseteq Accounts
      /\ OpenAccepts(clients) /\ \A b \in unused : ~clients[b].present
  BY DEF IInv, TypeOK, Files, CandidateInv, AccessInv
<1>3. /\ candidate' \in Files /\ candidate'[a] = NoClient
      /\ \A b \in Accounts \ {a} : candidate'[b] = clients[b]
  BY <1>1, <1>2, SomeRecords DEF Files
<1>4. candidate' = Published("delete", a, All)'
  BY <1>1, <1>3 DEF Published
<1>5. OpenAccepts(candidate')
  <2>1. Enrolled(candidate'[a]) = {} /\ candidate'[a].max_devices = 0
    BY <1>3 DEF NoClient, Enrolled, NotEnrolled
  <2>2. Cardinality(Enrolled(candidate'[a])) <= candidate'[a].max_devices
    BY <2>1, FS_EmptySet
  <2> QED
    BY <1>2, <1>3, <2>2 DEF OpenAccepts
<1> QED
  BY <1>1, <1>2, <1>3, <1>4, <1>5, BeginStep DEF Changes

(* A retired device leaves its entry empty.                                  *)
LEMMA RetireDeviceStep ==
  ASSUME IInv, NEW x \in Admins, NEW a \in Accounts, NEW d \in Devices, retire_device(x, a, d)
  PROVE  IInv'
<1>1. /\ Begin(x, "retire", a, d, "writing") /\ clients' = clients
      /\ candidate' = [clients EXCEPT ![a].devices[d] = NotEnrolled]
      /\ d \in Enrolled(clients[a]) /\ UNCHANGED <<next_token, unused>>
  BY DEF retire_device, Begin
<1>2. /\ clients \in Files /\ next_token \in Nat /\ unused \subseteq Accounts
      /\ OpenAccepts(clients) /\ \A b \in unused : ~clients[b].present
      /\ d # All /\ clients[a].devices[d] # NotEnrolled
  BY <1>1, RegistryAssumption DEF IInv, TypeOK, Files, CandidateInv, AccessInv, Enrolled
<1>3. Puts(clients, candidate', a, d, NotEnrolled)
  BY <1>1, <1>2, PutEntry DEF NotEnrolled
<1>4. candidate' = Published("retire", a, d)'
  BY <1>1 DEF Published
<1>5. OpenAccepts(candidate')
  BY <1>1, <1>2, AddEntry DEF NotEnrolled
<1> QED
  BY <1>1, <1>2, <1>3, <1>4, <1>5, BeginStep DEF Changes, Puts
(* The write failed: the change is over and the lock is free.                *)
LEMMA AbortChangeStep ==
  ASSUME IInv, NEW x \in Admins, admin[x].pc = "writing",
         admin' = [admin EXCEPT ![x] = NoChange], Unlock(x),
         UNCHANGED <<clients, nonces, attempt, file_vars, drain_vars, meta_vars, close_vars,
                     source_vars>>
  PROVE  IInv'
<1> USE DEF IInv, file_vars, drain_vars, meta_vars, close_vars, source_vars
<1>1. /\ admin' \in [Admins -> AdminRecord] /\ AdminEnds(x, {"writing"})
      /\ mutations' = Nobody /\ candidate' = NoCandidate
      /\ UNCHANGED <<clients, nonces, attempt, file_vars, drain_vars, meta_vars, close_vars,
                     source_vars>>
  BY AdminEnding DEF AdminEnds, Unlock
<1>2. /\ \A s \in Attempts : ~AttemptHolds(s)
      /\ \A y \in Admins \ {x} : ~AdminHolds(y)
      /\ \A w \in Workers : ~WorkerHolds(w)
      /\ ~CloserHolds /\ ~closed /\ mutations = x
  BY <1>1, HolderAssumption DEF LockInv, AdminHolds, AdminGoes, AdminEnds
<1>3. TypeOK'
  BY <1>1, SomeRecords DEF TypeOK, Files
<1>4. LockInv'
  BY <1>1, <1>2, HolderAssumption
     DEF AdminGoes, AdminEnds, LockInv, AttemptHolds, AdminHolds, WorkerHolds, CloserHolds
<1>5. CountInv'
  BY <1>1, CountKept DEF Draining, AdminGoes, AdminEnds
<1>6. OpInv'
  BY <1>1 DEF OpInv, AdminEnds
<1>7. CandidateInv'
  BY <1>1, <1>2, NoCandidateAccepted DEF CandidateInv, AdminEnds, AttemptHolds, AdminHolds
<1>8. FileInv'
  BY <1>1, <1>2
     DEF AdminEnds, AttemptHolds, AdminHolds, FileInv, Written, Flushes, WorkerHolds, CloserHolds,
         DirtyHasWriter
<1>9. DrainInv'
  BY <1>1 DEF AdminGoes, AdminEnds, DrainInv, Admitted, Live, Covers, KeyOf
<1>10. AccessInv'
  BY <1>1, <1>2, NoCandidateAccepted, EpochTypes
     DEF AdminEnds, AdminHolds, AccessInv, AttemptHolds, client_for_token
<1>11. SessionsAreAuthorized'
  BY <1>1
     DEF AdminGoes, AdminEnds, SessionsAreAuthorized, Authorized, Live, Covers, KeyOf, LastSeen,
         client_for_token
<1>12. StampInv' /\ EpochInv' /\ StaleIsRefused'
  BY <1>1, StampFrame, EpochFrame, StaleFrame
<1> QED
  BY <1>3, <1>4, <1>5, <1>6, <1>7, <1>8, <1>9, <1>10, <1>11, <1>12

(* The write of a change reaches the file or fails.                          *)
LEMMA WriteChangeStep ==
  ASSUME IInv, NEW x \in Admins, NEW outcome \in Outcomes, WriteChange(x, outcome)
  PROVE  IInv'
<1> USE DEF IInv, file_vars, drain_vars, meta_vars, close_vars, source_vars
<1>1. CASE outcome = "io"
  <2>1. UNCHANGED file_vars
    BY <1>1, Persisting DEF WriteChange
  <2> QED
    BY <1>1, <2>1, AbortChangeStep DEF WriteChange
<1> SUFFICES ASSUME outcome # "io" PROVE IInv'
  BY <1>1
<1>2. /\ admin' \in [Admins -> AdminRecord] /\ AdminGoes(x, {"writing"}, "written")
      /\ UNCHANGED <<clients, nonces, mutations, candidate, attempt, drain_vars, meta_vars,
                     close_vars, source_vars>>
  BY AdminGoing DEF WriteChange, AdminGoes
<1>3. /\ \A s \in Attempts : ~AttemptHolds(s)
      /\ \A y \in Admins \ {x} : ~AdminHolds(y)
      /\ \A w \in Workers : ~WorkerHolds(w)
      /\ ~CloserHolds /\ ~closed /\ mutations = x
  BY <1>2, HolderAssumption DEF LockInv, AdminHolds, AdminGoes, AdminEnds
<1>4. /\ disk' \in Files /\ durable' \in SUBSET Files
      /\ persisted' \in BOOLEAN /\ durability_error' \in BOOLEAN
      /\ (persisted' /\ ~durability_error') => durable' = {disk'}
      /\ OpenAccepts(disk') /\ \A file \in durable' : OpenAccepts(file)
      /\ \A a \in unused : ~disk'[a].present /\ \A file \in durable' : ~file[a].present
      /\ outcome # "io" => disk' = candidate
      /\ outcome = "io" => UNCHANGED file_vars
  BY Persisting DEF WriteChange
<1>5. TypeOK'
  BY <1>2, <1>4 DEF TypeOK, Files
<1>6. LockInv'
  BY <1>2, <1>3, HolderAssumption
     DEF AdminGoes, AdminEnds, LockInv, AttemptHolds, AdminHolds, WorkerHolds, CloserHolds
<1>7. CountInv'
  BY <1>2, CountKept DEF Draining, AdminGoes, AdminEnds
<1>8. OpInv'
  BY <1>2 DEF OpInv, Changes, AdminGoes, AdminEnds
<1>9. CandidateInv'
  <2>1. \A op, a, d : Published(op, a, d)' = Published(op, a, d)
    BY <1>2 DEF Published
  <2> QED
    BY <1>2, <1>3, <1>4, <2>1
       DEF CandidateInv, Follows, Alike, AdminGoes, AttemptHolds, AdminHolds
<1>10. FileInv'
  BY <1>2, <1>3, <1>4
     DEF AdminGoes, AttemptHolds, AdminHolds, FileInv, Written, Flushes, WorkerHolds, CloserHolds,
         DirtyHasWriter
<1>11. DrainInv'
  BY <1>2 DEF AdminGoes, AdminEnds, DrainInv, Admitted, Live, Covers, KeyOf
<1>12. AccessInv'
  BY <1>2, <1>3, <1>4 DEF AdminGoes, AdminHolds, AccessInv, AttemptHolds, client_for_token
<1>13. SessionsAreAuthorized'
  BY <1>2
     DEF AdminGoes, AdminEnds, SessionsAreAuthorized, Authorized, Live, Covers, KeyOf, LastSeen,
         client_for_token
<1>14. StampInv' /\ EpochInv' /\ StaleIsRefused'
  BY <1>2, StampFrame, EpochFrame, StaleFrame
<1> QED
  BY <1>5, <1>6, <1>7, <1>8, <1>9, <1>10, <1>11, <1>12, <1>13, <1>14

(* What a change makes of memory when it is published.                       *)
ChangesOnly(op, a, d, after) ==
  /\ after \in Files
  /\ \A b \in Accounts \ {a} : after[b] = clients[b]
  /\ op = "enable" =>
       /\ after[a].present = clients[a].present /\ after[a].token = clients[a].token
       /\ after[a].enabled = candidate[a].enabled /\ after[a].devices = clients[a].devices
  /\ op = "retire" =>
       /\ after[a].present = clients[a].present /\ after[a].token = clients[a].token
       /\ after[a].enabled = clients[a].enabled
       /\ \A e \in Devices \ {d} : after[a].devices[e] = clients[a].devices[e]

(* Publishing changes no account but its own, and only what it says.         *)
LEMMA PublishedFacts ==
  ASSUME TypeOK, NEW op \in Changes, NEW a \in Accounts, NEW d, op = "retire" => d \in Devices,
         NEW after, after = Published(op, a, d)
  PROVE  ChangesOnly(op, a, d, after)
<1>1. clients \in Files /\ candidate \in Files /\ candidate[a] \in ClientRecord
  BY DEF TypeOK, Files
<1>2. CASE op \in {"create", "delete"}
  <2>1. after = [clients EXCEPT ![a] = candidate[a]]
    BY <1>2 DEF Published
  <2> QED
    BY <1>1, <1>2, <2>1 DEF Files, ChangesOnly
<1>3. CASE op \in {"enable", "disable"}
  <2> DEFINE max == candidate[a].max_devices
             enabled == candidate[a].enabled
  <2>1. after = [clients EXCEPT ![a].max_devices = max, ![a].enabled = enabled]
    BY <1>3 DEF Published
  <2>2. max \in Nat /\ enabled \in BOOLEAN
    BY <1>1 DEF ClientRecord
  <2> HIDE DEF max, enabled
  <2>3. \A b \in Accounts : clients[b] \in ClientRecord
    BY <1>1 DEF Files
  <2>4. \A b \in Accounts \ {a} : after[b] = clients[b]
    BY <1>1, <2>1 DEF Files
  <2>5. after[a] = [clients[a] EXCEPT !.max_devices = max, !.enabled = enabled]
    BY <1>1, <2>1 DEF Files
  <2>6. /\ after[a] \in ClientRecord /\ after[a].present = clients[a].present
        /\ after[a].token = clients[a].token /\ after[a].devices = clients[a].devices
        /\ after[a].enabled = enabled
    BY <2>2, <2>3, <2>5 DEF ClientRecord
  <2>7. after \in Files
    BY <1>1, <2>1, <2>3, <2>4, <2>6 DEF Files
  <2> QED
    BY <1>3, <2>4, <2>6, <2>7 DEF ChangesOnly, enabled
<1>4. CASE op = "rotate"
  <2>1. after = [clients EXCEPT ![a].token = candidate[a].token]
    BY <1>4 DEF Published
  <2> QED
    BY <1>1, <1>4, <2>1 DEF Files, ClientRecord, ChangesOnly
<1>5. CASE op = "retire"
  <2>1. after = [clients EXCEPT ![a].devices[d] = NotEnrolled]
    BY <1>5 DEF Published
  <2>2. Puts(clients, after, a, d, NotEnrolled)
    BY <1>1, <1>5, <2>1, PutEntry DEF NotEnrolled
  <2> QED
    BY <1>1, <1>5, <2>2 DEF Puts, ChangesOnly
<1> QED
  BY <1>2, <1>3, <1>4, <1>5 DEF Changes

(* The sessions that publishing leaves without access are covered by it.     *)
LEMMA PublishChangeStep ==
  ASSUME IInv, NEW x \in Admins, PublishChange(x)
  PROVE  IInv'
<1> USE DEF IInv, file_vars, drain_vars, meta_vars, close_vars, source_vars
<1> DEFINE op == admin[x].op
           a == admin[x].account
           d == admin[x].device
<1>1. /\ admin' \in [Admins -> AdminRecord]
      /\ \/ /\ op \in {"create", "enable"} /\ AdminEnds(x, {"written"})
            /\ mutations' = Nobody /\ candidate' = NoCandidate
         \/ /\ op \notin {"create", "enable"} /\ AdminGoes(x, {"written"}, "drain")
            /\ UNCHANGED <<mutations, candidate>>
      /\ clients' = Published(op, a, d)
      /\ UNCHANGED <<nonces, attempt, file_vars, drain_vars, meta_vars, close_vars, source_vars>>
  BY AdminGoing, AdminEnding DEF PublishChange, Unlock, AdminGoes, AdminEnds
<1>2. /\ \A s \in Attempts : ~AttemptHolds(s)
      /\ \A y \in Admins \ {x} : ~AdminHolds(y)
      /\ \A w \in Workers : ~WorkerHolds(w)
      /\ ~CloserHolds /\ ~closed /\ mutations = x
  BY <1>1, HolderAssumption DEF LockInv, AdminHolds, AdminGoes, AdminEnds
<1>3. /\ Follows(candidate, clients') /\ disk = candidate /\ OpenAccepts(candidate)
      /\ op = "create" => ~clients[a].present
      /\ op = "enable" => candidate[a].enabled
      /\ a \in Accounts /\ op \in Changes
      /\ d # All => op = "retire"
  BY <1>1, AdminTypes
     DEF CandidateInv, FileInv, AccessInv, OpInv, Written, AdminGoes, AdminEnds, Changes
<1>4. /\ clients' \in Files
      /\ \A b \in Accounts \ {a} : clients'[b] = clients[b]
      /\ op = "enable" =>
           /\ clients'[a].present = clients[a].present /\ clients'[a].token = clients[a].token
           /\ clients'[a].enabled = candidate[a].enabled
           /\ clients'[a].devices = clients[a].devices
      /\ op = "retire" =>
           /\ clients'[a].present = clients[a].present /\ clients'[a].token = clients[a].token
           /\ clients'[a].enabled = clients[a].enabled
           /\ \A e \in Devices \ {d} : clients'[a].devices[e] = clients[a].devices[e]
  <2>1. op = "retire" => d \in Devices
    BY AdminTypes DEF OpInv
  <2>2. ChangesOnly(op, a, d, clients')
    BY <1>1, <1>3, <2>1, PublishedFacts
  <2> QED
    BY <2>2 DEF ChangesOnly
<1>5. OpenAccepts(clients')
  BY <1>3, AlikeFacts DEF Follows
<1>6. \A b \in Accounts : clients'[b].present = candidate[b].present
  BY <1>3 DEF Follows, Alike
<1>7. TypeOK'
  BY <1>1, <1>4, SomeRecords DEF TypeOK, Files
<1>8. LockInv'
  BY <1>1, <1>2, HolderAssumption
     DEF AdminGoes, AdminEnds, LockInv, AttemptHolds, AdminHolds, WorkerHolds, CloserHolds
<1>9. CountInv'
  BY <1>1, CountKept DEF Draining, AdminGoes, AdminEnds
<1>10. OpInv'
  BY <1>1 DEF OpInv, Changes, AdminGoes, AdminEnds
<1>11. CandidateInv'
  BY <1>1, <1>2, <1>5, NoCandidateAccepted
     DEF CandidateInv, AdminEnds, AdminGoes, AttemptHolds, AdminHolds
<1>12. FileInv'
  BY <1>1, <1>2, <1>3
     DEF Follows, AdminGoes, AdminEnds, AttemptHolds, AdminHolds, FileInv, Written, Flushes,
         WorkerHolds, CloserHolds, DirtyHasWriter
<1>13. DrainInv'
  BY <1>1 DEF AdminGoes, AdminEnds, DrainInv, Admitted, Live, Covers, KeyOf
<1>14. AccessInv'
  BY <1>1, <1>2, <1>6, NoCandidateAccepted, EpochTypes
     DEF AdminHolds, AdminGoes, AdminEnds, AccessInv, AttemptHolds, client_for_token
<1>15. SessionsAreAuthorized'
  <2>1. \A s \in Live : Authorized(s)
    BY <1>1, <1>2 DEF SessionsAreAuthorized, AdminHolds, AdminEnds, AdminGoes
  <2>2. ASSUME NEW s \in Live, ~Authorized(s)'
        PROVE  Covers(x, KeyOf(s)) /\ op \notin {"create", "enable"}
    <3>1. /\ s \in Attempts /\ attempt' = attempt /\ Authorized(s)
          /\ attempt[s].account \in Accounts /\ attempt[s].device \in Devices
      BY <1>1, <2>1, EpochTypes DEF Live
    <3>2. attempt[s].account = a
      BY <1>4, <2>2, <3>1 DEF Authorized, LastSeen, client_for_token
    <3>3. op \notin {"create", "enable"}
      BY <1>3, <1>4, <2>2, <3>1, <3>2 DEF Authorized, LastSeen, client_for_token
    <3>4. d \in {All, attempt[s].device}
      BY <1>3, <1>4, <2>2, <3>1, <3>2 DEF Authorized, LastSeen, client_for_token
    <3> QED
      BY <3>2, <3>3, <3>4 DEF Covers, KeyOf
  <2>3. Live' = Live /\ \A s \in Live : KeyOf(s)' = KeyOf(s)
    BY <1>1 DEF Live, KeyOf
  <2>4. op \notin {"create", "enable"} =>
          admin'[x].pc = "drain" /\ \A k : Covers(x, k) => Covers(x, k)'
    BY <1>1 DEF AdminGoes, Covers
  <2> QED
    BY <2>2, <2>3, <2>4 DEF SessionsAreAuthorized
<1>16. StampInv' /\ EpochInv' /\ StaleIsRefused'
  BY <1>1, StampFrame, EpochFrame, StaleFrame
<1> QED
  BY <1>7, <1>8, <1>9, <1>10, <1>11, <1>12, <1>13, <1>14, <1>15, <1>16

(* One drain more, or one less, of what it covers.                           *)
LEMMA DrainBegins ==
  ASSUME IInv, NEW x \in Admins, AdminGoes(x, {"drain"}, "cancel"),
         \/ /\ admin[x].device = All
            /\ retiring_accounts' = [retiring_accounts EXCEPT ![admin[x].account] = @ + 1]
            /\ UNCHANGED retiring_devices
         \/ /\ admin[x].device # All
            /\ retiring_devices' =
                 [retiring_devices EXCEPT ![<<admin[x].account, admin[x].device>>] = @ + 1]
            /\ UNCHANGED retiring_accounts
  PROVE  /\ CountInv'
         /\ retiring_accounts' \in [Accounts -> Nat] /\ retiring_devices' \in [Keys -> Nat]
<1>1. PICK a, k : a = admin[x].account /\ k = <<admin[x].account, admin[x].device>>
  OBVIOUS
<1>2. /\ a \in Accounts /\ (admin[x].device # All => k \in Keys)
      /\ retiring_accounts \in [Accounts -> Nat] /\ retiring_devices \in [Keys -> Nat]
      /\ CountInv /\ All \notin Devices
  BY <1>1, AdminTypes, RegistryAssumption DEF IInv, TypeOK, Keys
<1>3. /\ x \notin Draining /\ Draining' = Draining \cup {x}
      /\ \A y \in Admins : /\ admin'[y].account = admin[y].account
                           /\ admin'[y].device = admin[y].device
  BY DEF Draining, AdminGoes
<1>4. /\ \A b \in Accounts : /\ admin[x].device = All /\ b = a =>
                                 AccountDrains(b)' = AccountDrains(b) \cup {x}
                             /\ ~(admin[x].device = All /\ b = a) =>
                                 AccountDrains(b)' = AccountDrains(b)
      /\ \A b : x \notin AccountDrains(b)
  BY <1>1, <1>3 DEF AccountDrains, Draining
<1>5. /\ \A j \in Keys : /\ j = k => DeviceDrains(j)' = DeviceDrains(j) \cup {x}
                         /\ j # k => DeviceDrains(j)' = DeviceDrains(j)
      /\ \A j : x \notin DeviceDrains(j)
  BY <1>1, <1>3 DEF DeviceDrains, Draining
<1>6. CASE admin[x].device = All
  <2>1. retiring_accounts' = [retiring_accounts EXCEPT ![a] = @ + 1] /\ UNCHANGED retiring_devices
    BY <1>1, <1>6
  <2>2. Cardinality(AccountDrains(a) \cup {x}) = Cardinality(AccountDrains(a)) + 1
    BY <1>4, FiniteDrains, FS_AddElement
  <2>3. k \notin Keys
    BY <1>1, <1>2, <1>6 DEF Keys
  <2>4. AccountDrains(a)' = AccountDrains(a) \cup {x}
    BY <1>2, <1>4, <1>6
  <2>5. retiring_accounts[a] = Cardinality(AccountDrains(a)) /\ retiring_accounts[a] \in Nat
    BY <1>2 DEF CountInv
  <2>6. /\ retiring_accounts[a] + 1 = Cardinality(AccountDrains(a)')
        /\ retiring_accounts[a] + 1 \in Nat
    BY <2>2, <2>4, <2>5
  <2>7. /\ retiring_accounts' \in [Accounts -> Nat]
        /\ retiring_accounts'[a] = Cardinality(AccountDrains(a)')
        /\ \A b \in Accounts \ {a} : retiring_accounts'[b] = retiring_accounts[b]
    BY <1>2, <2>1, <2>6
  <2>8. \A b \in Accounts : retiring_accounts'[b] = Cardinality(AccountDrains(b)')
    BY <1>2, <1>4, <2>7 DEF CountInv
  <2>9. \A j \in Keys : retiring_devices'[j] = Cardinality(DeviceDrains(j)')
    BY <1>2, <1>5, <2>1, <2>3 DEF CountInv
  <2> QED
    BY <1>2, <2>1, <2>7, <2>8, <2>9 DEF CountInv
<1>7. CASE admin[x].device # All
  <2>1. retiring_devices' = [retiring_devices EXCEPT ![k] = @ + 1] /\ UNCHANGED retiring_accounts
    BY <1>1, <1>7
  <2>2. Cardinality(DeviceDrains(k) \cup {x}) = Cardinality(DeviceDrains(k)) + 1
    BY <1>5, FiniteDrains, FS_AddElement
  <2>3. DeviceDrains(k)' = DeviceDrains(k) \cup {x}
    BY <1>2, <1>5, <1>7
  <2>4. retiring_devices[k] = Cardinality(DeviceDrains(k)) /\ retiring_devices[k] \in Nat
    BY <1>2, <1>7 DEF CountInv
  <2>5. /\ retiring_devices[k] + 1 = Cardinality(DeviceDrains(k)')
        /\ retiring_devices[k] + 1 \in Nat
    BY <2>2, <2>3, <2>4
  <2>6. /\ retiring_devices' \in [Keys -> Nat]
        /\ retiring_devices'[k] = Cardinality(DeviceDrains(k)')
        /\ \A j \in Keys \ {k} : retiring_devices'[j] = retiring_devices[j]
    BY <1>2, <1>7, <2>1, <2>5
  <2>7. \A j \in Keys : retiring_devices'[j] = Cardinality(DeviceDrains(j)')
    BY <1>2, <1>5, <2>6 DEF CountInv
  <2>8. \A b \in Accounts : retiring_accounts'[b] = Cardinality(AccountDrains(b)')
    BY <1>2, <1>4, <1>7, <2>1 DEF CountInv
  <2> QED
    BY <1>2, <2>1, <2>6, <2>7, <2>8 DEF CountInv
<1> QED
  BY <1>6, <1>7

(* A drain that has ended is counted no more.                                *)
LEMMA DrainEnds ==
  ASSUME IInv, NEW x \in Admins, AdminEnds(x, {"waiting", "retired"}),
         \/ /\ admin[x].device = All
            /\ retiring_accounts' = decrement(retiring_accounts, admin[x].account)
            /\ UNCHANGED retiring_devices
         \/ /\ admin[x].device # All
            /\ retiring_devices' =
                 decrement(retiring_devices, <<admin[x].account, admin[x].device>>)
            /\ UNCHANGED retiring_accounts
  PROVE  /\ CountInv'
         /\ retiring_accounts' \in [Accounts -> Nat] /\ retiring_devices' \in [Keys -> Nat]
<1>1. PICK a, k : a = admin[x].account /\ k = <<admin[x].account, admin[x].device>>
  OBVIOUS
<1>2. /\ a \in Accounts /\ (admin[x].device # All => k \in Keys)
      /\ retiring_accounts \in [Accounts -> Nat] /\ retiring_devices \in [Keys -> Nat]
      /\ CountInv /\ All \notin Devices
  BY <1>1, AdminTypes, RegistryAssumption DEF IInv, TypeOK, Keys
<1>3. /\ x \in Draining /\ Draining' = Draining \ {x}
      /\ \A y \in Admins \ {x} : /\ admin'[y].account = admin[y].account
                                 /\ admin'[y].device = admin[y].device
  BY DEF Draining, AdminEnds
<1>4. \A b \in Accounts : /\ admin[x].device = All /\ b = a =>
                               AccountDrains(b)' = AccountDrains(b) \ {x} /\ x \in AccountDrains(b)
                          /\ ~(admin[x].device = All /\ b = a) =>
                               AccountDrains(b)' = AccountDrains(b)
  BY <1>1, <1>3 DEF AccountDrains, Draining
<1>5. \A j \in Keys : /\ j = k => DeviceDrains(j)' = DeviceDrains(j) \ {x} /\ x \in DeviceDrains(j)
                      /\ j # k => DeviceDrains(j)' = DeviceDrains(j)
  BY <1>1, <1>3 DEF DeviceDrains, Draining
<1>6. CASE admin[x].device = All
  <2>1. retiring_accounts' = [retiring_accounts EXCEPT ![a] = @ - 1] /\ UNCHANGED retiring_devices
    BY <1>1, <1>6 DEF decrement
  <2>2. /\ Cardinality(AccountDrains(a) \ {x}) = Cardinality(AccountDrains(a)) - 1
        /\ Cardinality(AccountDrains(a) \ {x}) \in Nat
    BY <1>2, <1>4, <1>6, FiniteDrains, FS_RemoveElement, FS_CardinalityType
  <2>3. k \notin Keys
    BY <1>1, <1>2, <1>6 DEF Keys
  <2>4. /\ retiring_accounts[a] - 1 = Cardinality(AccountDrains(a)')
        /\ retiring_accounts[a] - 1 \in Nat
    BY <1>2, <1>4, <1>6, <2>2 DEF CountInv
  <2>5. /\ retiring_accounts' \in [Accounts -> Nat]
        /\ retiring_accounts'[a] = Cardinality(AccountDrains(a)')
        /\ \A b \in Accounts \ {a} : retiring_accounts'[b] = retiring_accounts[b]
    BY <1>2, <2>1, <2>4
  <2>6. \A b \in Accounts : retiring_accounts'[b] = Cardinality(AccountDrains(b)')
    BY <1>2, <1>4, <2>5 DEF CountInv
  <2>7. \A j \in Keys : retiring_devices'[j] = Cardinality(DeviceDrains(j)')
    BY <1>2, <1>5, <2>1, <2>3 DEF CountInv
  <2> QED
    BY <1>2, <2>1, <2>5, <2>6, <2>7 DEF CountInv
<1>7. CASE admin[x].device # All
  <2>1. retiring_devices' = [retiring_devices EXCEPT ![k] = @ - 1] /\ UNCHANGED retiring_accounts
    BY <1>1, <1>7 DEF decrement
  <2>2. /\ Cardinality(DeviceDrains(k) \ {x}) = Cardinality(DeviceDrains(k)) - 1
        /\ Cardinality(DeviceDrains(k) \ {x}) \in Nat
    BY <1>2, <1>5, <1>7, FiniteDrains, FS_RemoveElement, FS_CardinalityType
  <2>3. /\ retiring_devices[k] - 1 = Cardinality(DeviceDrains(k)')
        /\ retiring_devices[k] - 1 \in Nat
    BY <1>2, <1>5, <1>7, <2>2 DEF CountInv
  <2>4. /\ retiring_devices' \in [Keys -> Nat]
        /\ retiring_devices'[k] = Cardinality(DeviceDrains(k)')
        /\ \A j \in Keys \ {k} : retiring_devices'[j] = retiring_devices[j]
    BY <1>2, <1>7, <2>1, <2>3
  <2>5. \A j \in Keys : retiring_devices'[j] = Cardinality(DeviceDrains(j)')
    BY <1>2, <1>5, <2>4 DEF CountInv
  <2>6. \A b \in Accounts : retiring_accounts'[b] = Cardinality(AccountDrains(b)')
    BY <1>2, <1>4, <1>7, <2>1 DEF CountInv
  <2> QED
    BY <1>2, <2>1, <2>4, <2>5, <2>6 DEF CountInv
<1> QED
  BY <1>6, <1>7

(* The drain refuses everybody who began before it.                          *)
LEMMA BeginDrainStep ==
  ASSUME IInv, NEW x \in Admins, BeginDrain(x)
  PROVE  IInv'
<1> USE DEF IInv, file_vars, drain_vars, meta_vars, close_vars, source_vars
<1> DEFINE a == admin[x].account
           k == <<admin[x].account, admin[x].device>>
           epoch == disconnect_epoch + 1
<1>1. /\ admin' \in [Admins -> AdminRecord] /\ AdminGoes(x, {"drain"}, "cancel")
      /\ admin'[x].waiting = admin[x].waiting
      /\ disconnect_epoch' = epoch
      /\ UNCHANGED <<clients, mutations, candidate, attempt, file_vars, drained, meta_vars,
                     close_vars, source_vars>>
  BY AdminGoing DEF BeginDrain, AdminGoes
<1>2. /\ \A s \in Attempts : ~AttemptHolds(s)
      /\ \A y \in Admins \ {x} : ~AdminHolds(y)
      /\ \A w \in Workers : ~WorkerHolds(w)
      /\ ~CloserHolds /\ ~closed /\ mutations = x
  BY <1>1, HolderAssumption DEF LockInv, AdminHolds, AdminGoes, AdminEnds
<1>3. nonces' \in [Keys -> SUBSET Nonces]
  BY DEF TypeOK, BeginDrain
<1>4. /\ CountInv'
      /\ retiring_accounts' \in [Accounts -> Nat] /\ retiring_devices' \in [Keys -> Nat]
  BY <1>1, DrainBegins DEF BeginDrain
<1>5. /\ epoch \in Nat /\ account_disconnect' \in [Accounts -> Nat]
      /\ device_disconnect' \in [Keys -> Nat]
      /\ \A t \in Attempts : /\ account_disconnect[attempt[t].account] > attempt[t].epoch =>
                                  account_disconnect'[attempt[t].account] > attempt[t].epoch
                             /\ device_disconnect[KeyOf(t)] > attempt[t].epoch =>
                                  device_disconnect'[KeyOf(t)] > attempt[t].epoch
  <2>1. /\ epoch \in Nat /\ \A t \in Attempts : attempt[t].epoch < epoch
        /\ account_disconnect \in [Accounts -> Nat] /\ device_disconnect \in [Keys -> Nat]
        /\ \A t \in Attempts : attempt[t].account \in Accounts /\ KeyOf(t) \in Keys
    BY EpochTypes DEF EpochInv
  <2>2. /\ \/ account_disconnect' = [account_disconnect EXCEPT ![a] = epoch]
           \/ account_disconnect' = account_disconnect
        /\ \/ device_disconnect' = [device_disconnect EXCEPT ![k] = epoch]
           \/ device_disconnect' = device_disconnect
    BY DEF BeginDrain
  <2> HIDE DEF epoch, a, k
  <2>3. account_disconnect' \in [Accounts -> Nat] /\ device_disconnect' \in [Keys -> Nat]
    BY <2>1, <2>2
  <2>4. /\ \A b \in Accounts : account_disconnect'[b] \in {account_disconnect[b], epoch}
        /\ \A j \in Keys : device_disconnect'[j] \in {device_disconnect[j], epoch}
    BY <2>1, <2>2
  <2> QED
    BY <2>1, <2>3, <2>4
<1> HIDE DEF epoch
<1>6. TypeOK'
  BY <1>1, <1>3, <1>4, <1>5 DEF TypeOK
<1>7. LockInv'
  BY <1>1, <1>2, HolderAssumption
     DEF AdminGoes, AdminEnds, LockInv, AttemptHolds, AdminHolds, WorkerHolds, CloserHolds
<1>8. CountInv'
  BY <1>4
<1>9. OpInv'
  BY <1>1 DEF OpInv, Changes, AdminGoes, AdminEnds
<1>10. CandidateInv'
  BY <1>1, CandidateFrame DEF SameHolders, AdminGoes, AttemptHolds
<1>11. FileInv'
  BY <1>1
     DEF AdminGoes, AttemptHolds, AdminHolds, FileInv, Written, Flushes, WorkerHolds, CloserHolds,
         DirtyHasWriter
<1>12. EpochInv'
  BY <1>1, EpochTypes DEF EpochInv, epoch
<1>13. StaleIsRefused'
  BY <1>1, <1>5 DEF StaleIsRefused, KeyOf
<1>14. DrainInv'
  BY <1>1 DEF AdminGoes, AdminEnds, DrainInv, Admitted, Live, Covers, KeyOf
<1>15. AccessInv'
  BY <1>1 DEF AdminGoes, AdminHolds, AccessInv, AttemptHolds, client_for_token
<1>16. SessionsAreAuthorized'
  BY <1>1
     DEF AdminGoes, AdminEnds, SessionsAreAuthorized, Authorized, Live, Covers, KeyOf, LastSeen,
         client_for_token
<1>17. StampInv'
  BY <1>1, StampFrame
<1> QED
  BY <1>6, <1>7, <1>8, <1>9, <1>10, <1>11, <1>12, <1>13, <1>14, <1>15, <1>16, <1>17

(* Every session that the drain covers is cancelled and awaited.             *)
LEMMA CancelSessionsStep ==
  ASSUME IInv, NEW x \in Admins, CancelSessions(x)
  PROVE  IInv'
<1> USE DEF IInv, file_vars, drain_vars, meta_vars, close_vars, source_vars
<1> DEFINE active == {t \in Live : Covers(x, KeyOf(t))}
<1>1. /\ attempt' \in [Attempts -> AttemptRecord]
      /\ \A t \in Attempts :
           /\ attempt'[t].pc = attempt[t].pc /\ attempt'[t].account = attempt[t].account
           /\ attempt'[t].device = attempt[t].device /\ attempt'[t].token = attempt[t].token
           /\ attempt'[t].nonce = attempt[t].nonce /\ attempt'[t].epoch = attempt[t].epoch
           /\ attempt'[t].now = attempt[t].now
           /\ attempt'[t].cancelled = (attempt[t].cancelled \/ t \in active)
  <2>1. /\ attempt \in [Attempts -> AttemptRecord]
        /\ attempt' = [t \in Attempts |-> IF t \in active
                                          THEN [attempt[t] EXCEPT !.cancelled = TRUE]
                                          ELSE attempt[t]]
    BY DEF TypeOK, CancelSessions
  <2> HIDE DEF active
  <2> QED
    BY <2>1 DEF AttemptRecord
<1>2. /\ admin' \in [Admins -> AdminRecord] /\ AdminGoes(x, {"cancel"}, "waiting")
      /\ admin'[x].waiting = active
  <2>1. /\ admin \in [Admins -> AdminRecord] /\ active \in SUBSET Attempts
        /\ admin' = [admin EXCEPT ![x].pc = "waiting", ![x].waiting = active]
        /\ admin[x].pc = "cancel"
    BY DEF TypeOK, CancelSessions, Live
  <2> HIDE DEF active
  <2> QED
    BY <2>1 DEF AdminRecord, AdminGoes
<1>3. /\ AdminGoes(x, {"cancel"}, "waiting")
      /\ UNCHANGED <<clients, nonces, mutations, candidate, file_vars, drain_vars, meta_vars,
                     close_vars, source_vars>>
  BY <1>2 DEF CancelSessions
<1>4. /\ \A s \in Attempts : ~AttemptHolds(s)
      /\ \A y \in Admins \ {x} : ~AdminHolds(y)
      /\ \A w \in Workers : ~WorkerHolds(w)
      /\ ~CloserHolds /\ ~closed /\ mutations = x
  BY <1>3, HolderAssumption DEF LockInv, AdminHolds, AdminGoes, AdminEnds
<1>5. \A t : KeyOf(t)' = KeyOf(t) \/ t \notin Attempts
  BY <1>1 DEF KeyOf
<1>6. Live' = Live /\ Admitted' = Admitted /\ Live \subseteq Attempts /\ Admitted \subseteq Attempts
  BY <1>1 DEF Live, Admitted
<1>7. \A y \in Admins : \A j : Covers(y, j)' <=> Covers(y, j)
  BY <1>2 DEF Covers, AdminGoes
<1> HIDE DEF active
<1>8. TypeOK'
  BY <1>3, <1>1, <1>2 DEF TypeOK
<1>9. LockInv'
  BY <1>3, <1>4, <1>1, HolderAssumption
     DEF AdminGoes, LockInv, AttemptHolds, AdminHolds, WorkerHolds, CloserHolds
<1>10. CountInv'
  BY <1>3, CountKept DEF Draining, AdminGoes, AdminEnds
<1>11. OpInv'
  BY <1>3 DEF OpInv, Changes, AdminGoes, AdminEnds
<1>12. StampInv'
  BY <1>3, <1>1 DEF StampInv
<1>13. CandidateInv'
  BY <1>3, <1>1, CandidateFrame DEF SameHolders, AdminGoes, AttemptHolds
<1>14. FileInv'
  BY <1>3, <1>1
     DEF AdminGoes, AttemptHolds, AdminHolds, FileInv, Written, Flushes, WorkerHolds, CloserHolds,
         DirtyHasWriter
<1>15. EpochInv'
  BY <1>3, <1>1 DEF EpochInv
<1>16. StaleIsRefused'
  BY <1>3, <1>1 DEF StaleIsRefused, KeyOf
<1>17. DrainInv'
  <2>1. \A t \in Admitted' : attempt'[t].epoch >= drained'[KeyOf(t)']
    BY <1>3, <1>1, <1>5, <1>6 DEF DrainInv
  <2>2. ASSUME NEW y \in Admins, admin'[y].pc = "waiting"
        PROVE  /\ {t \in Live' : Covers(y, KeyOf(t))'} \subseteq admin'[y].waiting
               /\ \A t \in admin'[y].waiting : t \in Live' /\ attempt'[t].cancelled
    <3>1. y = x
      BY <1>3, <1>4, <2>2 DEF AdminGoes, AdminHolds
    <3>2. {t \in Live' : Covers(x, KeyOf(t))'} = active
      BY <1>5, <1>6, <1>7 DEF active
    <3> QED
      BY <1>1, <1>2, <1>6, <3>1, <3>2 DEF active
  <2>3. ASSUME NEW y \in Admins, admin'[y].pc = "retired"
        PROVE  \A t \in Admitted' : ~Covers(y, KeyOf(t))'
    BY <1>3, <1>5, <1>6, <1>7, <2>3 DEF DrainInv, AdminGoes
  <2> QED
    BY <2>1, <2>2, <2>3 DEF DrainInv
<1>18. AccessInv'
  BY <1>3, <1>1 DEF AdminGoes, AdminHolds, AccessInv, AttemptHolds, client_for_token
<1>19. SessionsAreAuthorized'
  <2>1. \A t \in Live : Authorized(t)' <=> Authorized(t)
    BY <1>3, <1>1, <1>6 DEF Authorized, LastSeen, client_for_token
  <2>2. ASSUME NEW t \in Live, ~Authorized(t)
        PROVE  \E y \in Admins : /\ Covers(y, KeyOf(t))
                                 /\ \/ admin'[y].pc \in {"drain", "cancel"}
                                    \/ admin'[y].pc = "waiting" /\ t \in admin'[y].waiting
    <3>1. PICK y \in Admins : /\ Covers(y, KeyOf(t))
                              /\ \/ admin[y].pc \in {"drain", "cancel"}
                                 \/ admin[y].pc = "waiting" /\ t \in admin[y].waiting
      BY <2>2 DEF SessionsAreAuthorized
    <3>2. CASE y = x
      BY <1>3, <1>2, <2>2, <3>1, <3>2 DEF active, AdminGoes
    <3>3. CASE y # x
      BY <1>3, <3>1, <3>3 DEF AdminGoes
    <3> QED
      BY <3>2, <3>3
  <2> QED
    BY <1>5, <1>6, <1>7, <2>1, <2>2 DEF SessionsAreAuthorized
<1> QED
  BY <1>8, <1>9, <1>10, <1>11, <1>12, <1>13, <1>14, <1>15, <1>16, <1>17, <1>18, <1>19

(* The retired device has no session left when the lock is given back.       *)
LEMMA ReturnRetirementStep ==
  ASSUME IInv, NEW x \in Admins, ReturnRetirement(x)
  PROVE  IInv'
<1> USE DEF IInv, file_vars, drain_vars, meta_vars, close_vars, source_vars
<1>1. /\ admin' \in [Admins -> AdminRecord] /\ AdminGoes(x, {"waiting"}, "retired")
      /\ admin[x].waiting = {} /\ admin'[x].waiting = {} /\ admin[x].op = "retire"
      /\ mutations' = Nobody /\ candidate' = NoCandidate
      /\ UNCHANGED <<clients, nonces, attempt, file_vars, drain_vars, meta_vars, close_vars,
                     source_vars>>
  BY AdminGoing DEF ReturnRetirement, AdminGoes, Unlock
<1>2. /\ \A s \in Attempts : ~AttemptHolds(s)
      /\ \A y \in Admins \ {x} : ~AdminHolds(y)
      /\ \A w \in Workers : ~WorkerHolds(w)
      /\ ~CloserHolds /\ ~closed /\ mutations = x
  BY <1>1, HolderAssumption DEF LockInv, AdminHolds, AdminGoes, AdminEnds
<1>3. TypeOK'
  BY <1>1, SomeRecords DEF TypeOK, Files
<1>4. LockInv'
  BY <1>1, <1>2, HolderAssumption
     DEF AdminGoes, AdminEnds, LockInv, AttemptHolds, AdminHolds, WorkerHolds, CloserHolds
<1>5. CountInv'
  BY <1>1, CountKept DEF Draining, AdminGoes, AdminEnds
<1>6. OpInv'
  BY <1>1 DEF OpInv, Changes, AdminGoes, AdminEnds
<1>7. CandidateInv'
  BY <1>1, <1>2, NoCandidateAccepted DEF CandidateInv, AdminGoes, AttemptHolds, AdminHolds
<1>8. FileInv'
  BY <1>1, <1>2
     DEF AdminGoes, AttemptHolds, AdminHolds, FileInv, Written, Flushes, WorkerHolds, CloserHolds,
         DirtyHasWriter
<1>9. DrainInv'
  BY <1>1, <1>2 DEF AdminGoes, AttemptHolds, DrainInv, Admitted, Live, Covers, KeyOf
<1>10. AccessInv'
  BY <1>1, <1>2, NoCandidateAccepted, EpochTypes
     DEF AdminGoes, AdminHolds, AccessInv, AttemptHolds, client_for_token
<1>11. SessionsAreAuthorized'
  BY <1>1
     DEF AdminGoes, AdminEnds, SessionsAreAuthorized, Authorized, Live, Covers, KeyOf, LastSeen,
         client_for_token
<1>12. StampInv' /\ EpochInv' /\ StaleIsRefused'
  BY <1>1, StampFrame, EpochFrame, StaleFrame
<1> QED
  BY <1>3, <1>4, <1>5, <1>6, <1>7, <1>8, <1>9, <1>10, <1>11, <1>12

(* Whoever began before the drain ended stays refused, pruned or not.        *)
LEMMA FinishDrainStep ==
  ASSUME IInv, NEW x \in Admins, finish_drain(x)
  PROVE  IInv'
<1> USE DEF IInv, file_vars, drain_vars, meta_vars, close_vars, source_vars
<1> DEFINE a == admin[x].account
           k == <<admin[x].account, admin[x].device>>
           epoch == disconnect_epoch + 1
           accounts == IF admin[x].device = All
                       THEN [account_disconnect EXCEPT ![a] = epoch] ELSE account_disconnect
           devices == IF admin[x].device = All
                      THEN device_disconnect ELSE [device_disconnect EXCEPT ![k] = epoch]
<1>1. /\ admin' \in [Admins -> AdminRecord] /\ AdminEnds(x, {"waiting", "retired"})
      /\ disconnect_epoch' = epoch
      /\ \/ /\ admin[x].pc = "waiting" /\ admin[x].waiting = {}
            /\ mutations' = Nobody /\ candidate' = NoCandidate
         \/ admin[x].pc = "retired" /\ UNCHANGED <<mutations, candidate>>
      /\ UNCHANGED <<clients, nonces, attempt, file_vars, meta_vars, close_vars, source_vars>>
  BY AdminEnding DEF finish_drain, AdminEnds, Unlock
<1>2. admin[x].pc = "waiting" =>
        /\ \A s \in Attempts : ~AttemptHolds(s)
        /\ \A y \in Admins \ {x} : ~AdminHolds(y)
        /\ \A w \in Workers : ~WorkerHolds(w)
        /\ ~CloserHolds /\ ~closed /\ mutations = x
  BY HolderAssumption DEF LockInv, AdminHolds
<1>3. /\ CountInv'
      /\ retiring_accounts' \in [Accounts -> Nat] /\ retiring_devices' \in [Keys -> Nat]
  BY <1>1, DrainEnds DEF finish_drain
<1>4. \A t \in Admitted : ~Covers(x, KeyOf(t))
  BY <1>1, <1>2 DEF DrainInv, Admitted, Live, AttemptHolds
<1>5. /\ epoch \in Nat /\ drained' \in [Keys -> Nat]
      /\ \A j \in Keys : drained'[j] = IF Covers(x, j) THEN epoch ELSE drained[j]
  BY EpochTypes DEF finish_drain
<1>6. /\ a \in Accounts /\ (admin[x].device # All => k \in Keys)
      /\ accounts \in [Accounts -> Nat] /\ devices \in [Keys -> Nat]
      /\ InFlight \subseteq Attempts
      /\ account_disconnect' = Pruned(accounts, InFlight, epoch)
      /\ device_disconnect' = Pruned(devices, InFlight, epoch)
  BY <1>5, AdminTypes, EpochTypes DEF finish_drain, InFlight, Keys
<1>7. /\ \A b \in Accounts : accounts[b] = IF admin[x].device = All /\ b = a
                                          THEN epoch ELSE account_disconnect[b]
      /\ \A j \in Keys : devices[j] = IF admin[x].device # All /\ j = k
                                     THEN epoch ELSE device_disconnect[j]
  <2> HIDE DEF epoch, a, k
  <2> QED
    BY EpochTypes
<1>8. /\ \A t \in Attempts : attempt[t].epoch < epoch /\ attempt[t].epoch \in Nat
      /\ \A j \in Keys : drained[j] \in Nat /\ drained[j] <= epoch
  BY EpochTypes DEF EpochInv
<1> HIDE DEF accounts, devices, epoch
<1>9. /\ account_disconnect' \in [Accounts -> Nat] /\ device_disconnect' \in [Keys -> Nat]
      /\ \A b \in Accounts, t \in InFlight :
           accounts[b] > attempt[t].epoch => account_disconnect'[b] = accounts[b]
      /\ \A j \in Keys, t \in InFlight :
           devices[j] > attempt[t].epoch => device_disconnect'[j] = devices[j]
  BY <1>5, <1>6, PrunedKeeps
<1>10. TypeOK'
  BY <1>1, <1>3, <1>5, <1>9, SomeRecords DEF TypeOK, Files
<1>11. LockInv'
  <2>1. CASE admin[x].pc = "waiting"
    BY <1>1, <1>2, <2>1, HolderAssumption
       DEF AdminEnds, LockInv, AttemptHolds, AdminHolds, WorkerHolds, CloserHolds
  <2>2. CASE admin[x].pc = "retired"
    BY <1>1, <2>2, HolderAssumption
       DEF AdminEnds, LockInv, AttemptHolds, AdminHolds, WorkerHolds, CloserHolds
  <2> QED
    BY <1>1, <2>1, <2>2 DEF AdminEnds
<1>12. CountInv'
  BY <1>3
<1>13. OpInv'
  BY <1>1 DEF OpInv, AdminEnds
<1>14. CandidateInv'
  <2>1. CASE admin[x].pc = "waiting"
    BY <1>1, <1>2, <2>1, NoCandidateAccepted DEF AdminEnds, CandidateInv, AttemptHolds, AdminHolds
  <2>2. CASE admin[x].pc = "retired"
    BY <1>1, <2>2, CandidateFrame DEF AdminEnds, SameHolders, AttemptHolds
  <2> QED
    BY <1>1, <2>1, <2>2 DEF AdminEnds
<1>15. FileInv'
  BY <1>1, <1>2
     DEF AdminEnds, AttemptHolds, AdminHolds, FileInv, Written, Flushes, WorkerHolds, CloserHolds,
         DirtyHasWriter
<1>16. EpochInv'
  BY <1>1, <1>5, <1>8 DEF EpochInv
<1>17. StaleIsRefused'
  <2> SUFFICES ASSUME NEW t \in Attempts, attempt[t].pc \in {"begun", "waiting"},
                      attempt[t].epoch < drained'[KeyOf(t)]
               PROVE  \/ account_disconnect'[attempt[t].account] > attempt[t].epoch
                      \/ device_disconnect'[KeyOf(t)] > attempt[t].epoch
    BY <1>1 DEF StaleIsRefused, KeyOf
  <2>1. t \in InFlight /\ attempt[t].account \in Accounts /\ KeyOf(t) \in Keys
    BY EpochTypes DEF InFlight
  <2>2. accounts[attempt[t].account] > attempt[t].epoch \/ devices[KeyOf(t)] > attempt[t].epoch
    <3>1. CASE Covers(x, KeyOf(t))
      BY <1>5, <1>7, <1>8, <2>1, <3>1, RegistryAssumption DEF Covers, KeyOf
    <3>2. CASE ~Covers(x, KeyOf(t))
      <4>1. \/ account_disconnect[attempt[t].account] > attempt[t].epoch
            \/ device_disconnect[KeyOf(t)] > attempt[t].epoch
        BY <1>5, <2>1, <3>2 DEF StaleIsRefused
      <4> QED
        BY <1>5, <1>7, <1>8, <2>1, <4>1
    <3> QED
      BY <3>1, <3>2
  <2> QED
    BY <1>9, <2>1, <2>2
<1>18. DrainInv'
  <2>1. \A t \in Admitted : attempt'[t].epoch >= drained'[KeyOf(t)']
    BY <1>1, <1>4, <1>5, EpochTypes DEF DrainInv, Admitted, KeyOf
  <2> QED
    BY <1>1, <2>1 DEF AdminEnds, DrainInv, Admitted, Live, Covers, KeyOf
<1>19. AccessInv'
  <2>1. CASE admin[x].pc = "waiting"
    BY <1>1, <1>2, <2>1, NoCandidateAccepted, EpochTypes
       DEF AdminEnds, AdminHolds, AccessInv, AttemptHolds, client_for_token
  <2>2. CASE admin[x].pc = "retired"
    BY <1>1, <2>2, EpochTypes DEF AdminEnds, AccessInv, AttemptHolds, client_for_token
  <2> QED
    BY <1>1, <2>1, <2>2 DEF AdminEnds
<1>20. SessionsAreAuthorized'
  <2>1. \A t \in Live : ~Covers(x, KeyOf(t))
    BY <1>4 DEF Live, Admitted
  <2> QED
    BY <1>1, <2>1
       DEF AdminEnds, SessionsAreAuthorized, Authorized, Live, Covers, KeyOf, LastSeen,
           client_for_token
<1>21. StampInv'
  BY <1>1, StampFrame
<1> QED
  BY <1>10, <1>11, <1>12, <1>13, <1>14, <1>15, <1>16, <1>17, <1>18, <1>19, <1>20, <1>21

----------------------------------------------------------------------------
(* The steps of the metadata worker and of close.                            *)

WorkerMoves(w, from, to) ==
  /\ worker' \in [Workers -> {"off", "sleep", "flush", "write", "written", "check",
                              "last_flush", "last_write", "last_written"}]
  /\ worker[w] = from /\ worker'[w] = to
  /\ \A v \in Workers \ {w} : worker'[v] = worker[v]

(* One worker moves and the others stay.                                     *)
LEMMA WorkerMoving ==
  ASSUME TypeOK, NEW w \in Workers, NEW from,
         NEW to \in {"off", "sleep", "flush", "write", "written", "check",
                     "last_flush", "last_write", "last_written"},
         WorkerStep(w, from, to)
  PROVE  WorkerMoves(w, from, to)
  BY DEF TypeOK, WorkerStep, WorkerMoves

(* close() moves on.                                                         *)
LEMMA CloserMoving ==
  ASSUME TypeOK, NEW to \in {"stop", "flush", "write", "written", "sync", "ok", "failed"},
         closer' = [closer EXCEPT !.pc = to]
  PROVE  /\ closer'.pc = to
         /\ closer' \in [pc : {"open", "stop", "join", "flush", "write", "written", "sync",
                              "ok", "failed"},
                        joins : Workers \cup {NoWorker}]
  BY DEF TypeOK

(* The worker wakes, for the last time once it was stopped.                  *)
LEMMA WorkerWakesStep ==
  ASSUME IInv, NEW w \in Workers, WorkerWakes(w)
  PROVE  IInv'
<1> USE DEF IInv, file_vars, drain_vars, meta_vars, close_vars, source_vars
<1>1. /\ \/ WorkerMoves(w, "sleep", "flush")
         \/ closed /\ WorkerMoves(w, "sleep", "last_flush")
      /\ UNCHANGED <<clients, nonces, attempt, admin, file_vars, drain_vars, mutations,
                     candidate, metadata_dirty, metadata_version,
                     metadata_worker, flush_version, close_vars, source_vars>>
  BY WorkerMoving DEF WorkerWakes, Stopped
<1>2. TypeOK'
  BY <1>1 DEF TypeOK, WorkerMoves
<1>3. LockInv'
  BY <1>1 DEF WorkerMoves, LockInv, AttemptHolds, AdminHolds, WorkerHolds, CloserHolds
<1>4. FileInv'
  BY <1>1
     DEF WorkerMoves, AttemptHolds, AdminHolds, FileInv, Written, Flushes, WorkerHolds,
         CloserHolds, DirtyHasWriter
<1>5. CountInv' /\ OpInv' /\ StampInv' /\ EpochInv' /\ StaleIsRefused' /\ DrainInv'
      /\ SessionsAreAuthorized' /\ CandidateInv' /\ AccessInv'
  BY <1>1, CountFrame, OpFrame, StampFrame, EpochFrame, StaleFrame, DrainFrame,
     AuthorizedFrame, CandidateFrame, SameHoldersFrame, AccessFrame
<1> QED
  BY <1>2, <1>3, <1>4, <1>5

(* A flush takes a snapshot of the records.                                  *)
LEMMA TakeSnapshotKeeps ==
  ASSUME IInv, NEW p \in Workers \cup {Closer}, TakeSnapshot(p),
         UNCHANGED <<clients, attempt, admin, unused, file_vars, metadata_dirty,
                     metadata_version>>
  PROVE  /\ metadata_dirty /\ mutations = Nobody /\ mutations' = p /\ candidate' = clients
         /\ candidate' \in Files /\ flush_version' \in [Workers \cup {Closer} -> Nat]
         /\ Flushes(p)' /\ flush_version'[p] = metadata_version
         /\ \A q \in (Workers \cup {Closer}) \ {p} : flush_version'[q] = flush_version[q]
         /\ CandidateInv' /\ AccessInv'
<1>1. /\ metadata_dirty /\ mutations = Nobody /\ mutations' = p /\ candidate' = clients
      /\ candidate' \in Files /\ flush_version' \in [Workers \cup {Closer} -> Nat]
      /\ flush_version'[p] = metadata_version /\ metadata_version \in Nat
      /\ \A q \in (Workers \cup {Closer}) \ {p} : flush_version'[q] = flush_version[q]
  BY DEF IInv, TypeOK, Files, TakeSnapshot, Lock
<1>2. (\A s \in Attempts : ~AttemptHolds(s)) /\ (\A y \in Admins : ~AdminHolds(y))
  BY <1>1, HolderAssumption DEF IInv, LockInv
<1>3. Flushes(p)'
  BY <1>1 DEF Flushes
<1>4. CandidateInv'
  BY <1>1, <1>2 DEF IInv, CandidateInv, AttemptHolds, AdminHolds, file_vars
<1>5. AccessInv'
  BY <1>1, <1>2 DEF IInv, AccessInv, AttemptHolds, AdminHolds, file_vars
<1> QED
  BY <1>1, <1>3, <1>4, <1>5

(* A flush gives the lock back.                                              *)
LEMMA UnlockKeeps ==
  ASSUME IInv, NEW p \in Workers \cup {Closer}, Unlock(p),
         UNCHANGED <<clients, attempt, admin, unused>>,
         \/ UNCHANGED file_vars
         \/ disk' = candidate /\ durable' \subseteq durable \cup {candidate}
  PROVE  /\ mutations' = Nobody /\ candidate' \in Files
         /\ CandidateInv' /\ AccessInv'
<1>1. mutations = p /\ mutations' = Nobody /\ candidate' = NoCandidate
  BY DEF Unlock
<1>2. (\A s \in Attempts : ~AttemptHolds(s)) /\ (\A y \in Admins : ~AdminHolds(y))
  BY <1>1, HolderAssumption DEF IInv, LockInv
<1>3. candidate' \in Files
  BY <1>1, SomeRecords
<1>4. CandidateInv'
  BY <1>1, <1>2, NoCandidateAccepted DEF IInv, CandidateInv, AttemptHolds, AdminHolds, file_vars
<1>5. AccessInv'
  BY <1>1, <1>2, NoCandidateAccepted, EpochTypes
     DEF IInv, AccessInv, AttemptHolds, AdminHolds, file_vars
<1> QED
  BY <1>1, <1>3, <1>4, <1>5

(* The worker flushes what is dirty.                                         *)
LEMMA WorkerFlushesStep ==
  ASSUME IInv, NEW w \in Workers, WorkerFlushes(w)
  PROVE  IInv'
<1> USE DEF IInv, file_vars, drain_vars, meta_vars, close_vars, source_vars
<1>1. UNCHANGED <<clients, nonces, attempt, admin, file_vars, drain_vars, metadata_dirty,
                  metadata_version, metadata_worker,
                  close_vars, source_vars>>
  BY DEF WorkerFlushes
<1>2. CASE /\ TakeSnapshot(w)
           /\ WorkerStep(w, "flush", "write") \/ WorkerStep(w, "last_flush", "last_write")
  <2>1. /\ \/ WorkerMoves(w, "flush", "write")
           \/ WorkerMoves(w, "last_flush", "last_write")
        /\ metadata_dirty /\ mutations = Nobody /\ mutations' = w /\ candidate' = clients
        /\ candidate' \in Files /\ flush_version' \in [Workers \cup {Closer} -> Nat]
        /\ Flushes(w)' /\ CandidateInv' /\ AccessInv'
        /\ \A q \in (Workers \cup {Closer}) \ {w} : flush_version'[q] = flush_version[q]
    BY <1>1, <1>2, WorkerMoving, TakeSnapshotKeeps
  <2>2. /\ \A s \in Attempts : ~AttemptHolds(s)
        /\ \A y \in Admins : ~AdminHolds(y)
        /\ \A v \in Workers : ~WorkerHolds(v)
        /\ ~CloserHolds
    BY <2>1, HolderAssumption DEF LockInv
  <2>3. TypeOK'
    BY <1>1, <2>1 DEF TypeOK, Files, WorkerMoves
  <2>4. LockInv'
    BY <1>1, <2>1, <2>2, HolderAssumption
       DEF WorkerMoves, LockInv, AttemptHolds, AdminHolds, WorkerHolds, CloserHolds
  <2>5. FileInv'
    BY <1>1, <2>1, <2>2
       DEF WorkerMoves, AttemptHolds, AdminHolds, FileInv, Written, Flushes, WorkerHolds,
           CloserHolds, DirtyHasWriter
  <2>6. CountInv' /\ OpInv' /\ StampInv' /\ EpochInv' /\ StaleIsRefused' /\ DrainInv'
        /\ SessionsAreAuthorized'
    BY <1>1, CountFrame, OpFrame, StampFrame, EpochFrame, StaleFrame, DrainFrame, AuthorizedFrame
  <2> QED
    BY <2>1, <2>3, <2>4, <2>5, <2>6
<1>3. CASE /\ ~metadata_dirty
           /\ WorkerStep(w, "flush", "check") \/ WorkerStep(w, "last_flush", "off")
           /\ UNCHANGED <<mutations, candidate, flush_version>>
  <2>1. \/ WorkerMoves(w, "flush", "check")
        \/ WorkerMoves(w, "last_flush", "off")
    BY <1>3, WorkerMoving
  <2>2. TypeOK'
    BY <1>1, <1>3, <2>1 DEF TypeOK, WorkerMoves
  <2>3. LockInv'
    BY <1>1, <1>3, <2>1
       DEF WorkerMoves, LockInv, AttemptHolds, AdminHolds, WorkerHolds, CloserHolds
  <2>4. FileInv'
    BY <1>1, <1>3, <2>1
       DEF WorkerMoves, AttemptHolds, AdminHolds, FileInv, Written, Flushes, WorkerHolds,
           CloserHolds, DirtyHasWriter
  <2>5. CountInv' /\ OpInv' /\ StampInv' /\ EpochInv' /\ StaleIsRefused' /\ DrainInv'
        /\ SessionsAreAuthorized' /\ CandidateInv' /\ AccessInv'
    BY <1>1, <1>3, CountFrame, OpFrame, StampFrame, EpochFrame, StaleFrame, DrainFrame,
       AuthorizedFrame, CandidateFrame, SameHoldersFrame, AccessFrame
  <2> QED
    BY <2>2, <2>3, <2>4, <2>5
<1> QED
  BY <1>2, <1>3 DEF WorkerFlushes

(* The write of a flush reaches the file or fails.                           *)
LEMMA WorkerWritesStep ==
  ASSUME IInv, NEW w \in Workers, NEW outcome \in Outcomes, WorkerWrites(w, outcome)
  PROVE  IInv'
<1> USE DEF IInv, file_vars, drain_vars, meta_vars, close_vars, source_vars
<1>1. /\ \/ WorkerMoves(w, "write", "sleep") \/ WorkerMoves(w, "last_write", "off")
         \/ WorkerMoves(w, "write", "written") \/ WorkerMoves(w, "last_write", "last_written")
      /\ UNCHANGED <<clients, nonces, attempt, admin, drain_vars, metadata_dirty,
                     metadata_version, metadata_worker, flush_version, close_vars, source_vars>>
  BY WorkerMoving DEF WorkerWrites
<1>2. /\ \A s \in Attempts : ~AttemptHolds(s)
      /\ \A y \in Admins : ~AdminHolds(y)
      /\ \A v \in Workers \ {w} : ~WorkerHolds(v)
      /\ ~CloserHolds /\ mutations = w
  BY <1>1, HolderAssumption DEF LockInv, WorkerHolds, WorkerMoves
<1>3. /\ disk' \in Files /\ durable' \in SUBSET Files
      /\ persisted' \in BOOLEAN /\ durability_error' \in BOOLEAN
      /\ (persisted' /\ ~durability_error') => durable' = {disk'}
      /\ OpenAccepts(disk') /\ \A file \in durable' : OpenAccepts(file)
      /\ \A a \in unused : ~disk'[a].present /\ \A file \in durable' : ~file[a].present
      /\ outcome # "io" => disk' = candidate
      /\ outcome = "io" => UNCHANGED file_vars
  BY Persisting DEF WorkerWrites
<1>4. \/ /\ outcome = "io" /\ UNCHANGED file_vars
         /\ mutations' = Nobody /\ candidate' \in Files
         /\ WorkerMoves(w, "write", "sleep") \/ WorkerMoves(w, "last_write", "off")
         /\ CandidateInv' /\ AccessInv'
      \/ /\ outcome # "io" /\ disk' = candidate /\ UNCHANGED <<mutations, candidate>>
         /\ WorkerMoves(w, "write", "written") \/ WorkerMoves(w, "last_write", "last_written")
  BY <1>1, <1>3, WorkerMoving, UnlockKeeps DEF WorkerWrites
<1>5. TypeOK'
  BY <1>1, <1>3, <1>4 DEF TypeOK, Files, WorkerMoves
<1>6. LockInv'
  BY <1>1, <1>2, <1>4, HolderAssumption
     DEF WorkerMoves, LockInv, AttemptHolds, AdminHolds, WorkerHolds, CloserHolds
<1>7. CandidateInv'
  BY <1>1, <1>2, <1>3, <1>4 DEF CandidateInv, AttemptHolds, AdminHolds
<1>8. FileInv'
  BY <1>1, <1>2, <1>3, <1>4
     DEF WorkerMoves, AttemptHolds, AdminHolds, FileInv, Written, Flushes, WorkerHolds,
         CloserHolds, DirtyHasWriter
<1>9. AccessInv'
  BY <1>1, <1>2, <1>3, <1>4 DEF AdminHolds, AccessInv, AttemptHolds, client_for_token
<1>10. CountInv' /\ OpInv' /\ StampInv' /\ EpochInv' /\ StaleIsRefused' /\ DrainInv'
       /\ SessionsAreAuthorized'
  BY <1>1, CountFrame, OpFrame, StampFrame, EpochFrame, StaleFrame, DrainFrame, AuthorizedFrame
<1> QED
  BY <1>5, <1>6, <1>7, <1>8, <1>9, <1>10

(* Only the version that was written becomes clean.                          *)
LEMMA WorkerWroteStep ==
  ASSUME IInv, NEW w \in Workers, WorkerWrote(w)
  PROVE  IInv'
<1> USE DEF IInv, file_vars, drain_vars, meta_vars, close_vars, source_vars
<1>1. /\ \/ WorkerMoves(w, "written", "check") \/ WorkerMoves(w, "last_written", "off")
      /\ metadata_dirty' = (metadata_dirty /\ metadata_version # flush_version[w])
      /\ UNCHANGED <<clients, nonces, attempt, admin, file_vars, drain_vars, metadata_version,
                     metadata_worker, flush_version,
                     close_vars, source_vars>>
  BY WorkerMoving DEF WorkerWrote, CleanSnapshot
<1>2. /\ \A s \in Attempts : ~AttemptHolds(s)
      /\ \A y \in Admins : ~AdminHolds(y)
      /\ \A v \in Workers \ {w} : ~WorkerHolds(v)
      /\ ~CloserHolds /\ mutations = w
  BY <1>1, HolderAssumption DEF LockInv, WorkerHolds, WorkerMoves
<1>3. mutations' = Nobody /\ candidate' \in Files /\ CandidateInv' /\ AccessInv'
  BY <1>1, UnlockKeeps DEF WorkerWrote, CleanSnapshot
<1>4. TypeOK'
  BY <1>1, <1>3 DEF TypeOK, Files, WorkerMoves
<1>5. LockInv'
  BY <1>1, <1>2, <1>3, HolderAssumption
     DEF WorkerMoves, LockInv, AttemptHolds, AdminHolds, WorkerHolds, CloserHolds
<1>6. CandidateInv'
  BY <1>3
<1>7. FileInv'
  BY <1>1, <1>2, <1>3
     DEF WorkerMoves, TypeOK, AttemptHolds, AdminHolds, FileInv, Written, Flushes, WorkerHolds,
         CloserHolds, DirtyHasWriter
<1>8. AccessInv'
  BY <1>3
<1>9. CountInv' /\ OpInv' /\ StampInv' /\ EpochInv' /\ StaleIsRefused' /\ DrainInv'
      /\ SessionsAreAuthorized'
  BY <1>1, CountFrame, OpFrame, StampFrame, EpochFrame, StaleFrame, DrainFrame, AuthorizedFrame
<1> QED
  BY <1>4, <1>5, <1>6, <1>7, <1>8, <1>9

(* The worker retires only when nothing is dirty.                            *)
LEMMA RetireMetadataWorkerStep ==
  ASSUME IInv, NEW w \in Workers, retire_metadata_worker_if_clean(w)
  PROVE  IInv'
<1> USE DEF IInv, file_vars, drain_vars, meta_vars, close_vars, source_vars
<1>1. /\ \/ WorkerMoves(w, "check", "sleep") /\ UNCHANGED metadata_worker
         \/ ~metadata_dirty /\ WorkerMoves(w, "check", "off") /\ metadata_worker' = NoWorker
      /\ UNCHANGED <<clients, nonces, attempt, admin, file_vars, drain_vars, mutations,
                     candidate, metadata_dirty, metadata_version,
                     flush_version, close_vars, source_vars>>
  BY WorkerMoving DEF retire_metadata_worker_if_clean
<1>2. TypeOK'
  BY <1>1 DEF TypeOK, WorkerMoves
<1>3. LockInv'
  BY <1>1 DEF WorkerMoves, LockInv, AttemptHolds, AdminHolds, WorkerHolds, CloserHolds
<1>4. FileInv'
  BY <1>1
     DEF WorkerMoves, AttemptHolds, AdminHolds, FileInv, Written, Flushes, WorkerHolds,
         CloserHolds, DirtyHasWriter
<1>5. CountInv' /\ OpInv' /\ StampInv' /\ EpochInv' /\ StaleIsRefused' /\ DrainInv'
      /\ SessionsAreAuthorized' /\ CandidateInv' /\ AccessInv'
  BY <1>1, CountFrame, OpFrame, StampFrame, EpochFrame, StaleFrame, DrainFrame,
     AuthorizedFrame, CandidateFrame, SameHoldersFrame, AccessFrame
<1> QED
  BY <1>2, <1>3, <1>4, <1>5

(* close() begins when nobody holds the lock.                                *)
LEMMA CloseStep ==
  ASSUME IInv, close
  PROVE  IInv'
<1> USE DEF IInv, file_vars, drain_vars, meta_vars, close_vars, source_vars
<1>1. /\ closer' \in [pc : {"open", "stop", "join", "flush", "write", "written", "sync",
                           "ok", "failed"},
                     joins : Workers \cup {NoWorker}]
      /\ mutations = Nobody /\ closed' = TRUE /\ closer'.pc \in {"flush", "stop"}
      /\ UNCHANGED <<clients, nonces, attempt, admin, drain_vars, mutations, candidate,
                     file_vars, meta_vars, source_vars>>
  BY CloserMoving DEF close
<1>2. TypeOK'
  BY <1>1 DEF TypeOK
<1>3. LockInv'
  BY <1>1, HolderAssumption DEF LockInv, AttemptHolds, AdminHolds, WorkerHolds, CloserHolds
<1>4. FileInv'
  BY <1>1
     DEF AttemptHolds, AdminHolds, FileInv, Written, Flushes, WorkerHolds, CloserHolds,
         DirtyHasWriter
<1>5. CountInv' /\ OpInv' /\ StampInv' /\ EpochInv' /\ StaleIsRefused' /\ DrainInv'
      /\ SessionsAreAuthorized' /\ CandidateInv' /\ AccessInv'
  BY <1>1, CountFrame, OpFrame, StampFrame, EpochFrame, StaleFrame, DrainFrame,
     AuthorizedFrame, CandidateFrame, SameHoldersFrame, AccessFrame
<1> QED
  BY <1>2, <1>3, <1>4, <1>5

(* close() takes the worker's handle and stops it.                           *)
LEMMA CloseStopsWorkerStep ==
  ASSUME IInv, CloseStopsWorker
  PROVE  IInv'
<1> USE DEF IInv, file_vars, drain_vars, meta_vars, close_vars, source_vars
<1>1. /\ closer' \in [pc : {"open", "stop", "join", "flush", "write", "written", "sync",
                           "ok", "failed"},
                     joins : Workers \cup {NoWorker}]
      /\ closer.pc = "stop" /\ closer'.pc = "join" /\ metadata_worker' = NoWorker
      /\ UNCHANGED <<clients, nonces, attempt, admin, drain_vars, mutations, candidate,
                     file_vars, metadata_dirty,
                     metadata_version, worker, flush_version, closed, source_vars>>
  BY DEF TypeOK, CloseStopsWorker
<1>2. TypeOK'
  BY <1>1 DEF TypeOK
<1>3. LockInv'
  BY <1>1 DEF LockInv, AttemptHolds, AdminHolds, WorkerHolds, CloserHolds
<1>4. FileInv'
  BY <1>1
     DEF AttemptHolds, AdminHolds, FileInv, Written, Flushes, WorkerHolds, CloserHolds,
         DirtyHasWriter
<1>5. CountInv' /\ OpInv' /\ StampInv' /\ EpochInv' /\ StaleIsRefused' /\ DrainInv'
      /\ SessionsAreAuthorized' /\ CandidateInv' /\ AccessInv'
  BY <1>1, CountFrame, OpFrame, StampFrame, EpochFrame, StaleFrame, DrainFrame,
     AuthorizedFrame, CandidateFrame, SameHoldersFrame, AccessFrame
<1> QED
  BY <1>2, <1>3, <1>4, <1>5

(* close() flushes what the worker left dirty.                               *)
LEMMA CloseFlushesStep ==
  ASSUME IInv, CloseFlushes
  PROVE  IInv'
<1> USE DEF IInv, file_vars, drain_vars, meta_vars, close_vars, source_vars
<1>1. /\ closer.pc \in {"join", "flush"}
      /\ UNCHANGED <<clients, nonces, attempt, admin, drain_vars, file_vars, metadata_dirty,
                     metadata_version,
                     metadata_worker, worker, closed, source_vars>>
  BY DEF CloseFlushes
<1>2. CASE TakeSnapshot(Closer) /\ closer' = [closer EXCEPT !.pc = "write"]
  <2>1. /\ closer' \in [pc : {"open", "stop", "join", "flush", "write", "written", "sync",
                           "ok", "failed"},
                     joins : Workers \cup {NoWorker}]
        /\ closer'.pc = "write"
    BY <1>2, CloserMoving
  <2>2. /\ metadata_dirty /\ mutations = Nobody /\ mutations' = Closer /\ candidate' = clients
        /\ candidate' \in Files /\ flush_version' \in [Workers \cup {Closer} -> Nat]
        /\ Flushes(Closer)' /\ flush_version'[Closer] = metadata_version
        /\ CandidateInv' /\ AccessInv'
        /\ \A q \in (Workers \cup {Closer}) \ {Closer} : flush_version'[q] = flush_version[q]
    BY <1>1, <1>2, TakeSnapshotKeeps
  <2>3. /\ \A s \in Attempts : ~AttemptHolds(s)
        /\ \A y \in Admins : ~AdminHolds(y)
        /\ \A v \in Workers : ~WorkerHolds(v)
    BY <2>2, HolderAssumption DEF LockInv
  <2>4. TypeOK'
    BY <1>1, <2>1, <2>2 DEF TypeOK, Files
  <2>5. LockInv'
    BY <1>1, <2>1, <2>2, <2>3, HolderAssumption
       DEF LockInv, AttemptHolds, AdminHolds, WorkerHolds, CloserHolds
  <2>6. FileInv'
    BY <1>1, <2>1, <2>2, <2>3
       DEF AttemptHolds, AdminHolds, FileInv, Written, Flushes, WorkerHolds, CloserHolds,
           DirtyHasWriter
  <2>7. CountInv' /\ OpInv' /\ StampInv' /\ EpochInv' /\ StaleIsRefused' /\ DrainInv'
        /\ SessionsAreAuthorized'
    BY <1>1, CountFrame, OpFrame, StampFrame, EpochFrame, StaleFrame, DrainFrame, AuthorizedFrame
  <2> QED
    BY <2>2, <2>4, <2>5, <2>6, <2>7
<1>3. CASE /\ ~metadata_dirty /\ closer' = [closer EXCEPT !.pc = "sync"]
           /\ UNCHANGED <<mutations, candidate, flush_version>>
  <2>1. /\ closer' \in [pc : {"open", "stop", "join", "flush", "write", "written", "sync",
                           "ok", "failed"},
                     joins : Workers \cup {NoWorker}]
        /\ closer'.pc = "sync"
    BY <1>3, CloserMoving
  <2>2. TypeOK'
    BY <1>1, <1>3, <2>1 DEF TypeOK
  <2>3. LockInv'
    BY <1>1, <1>3, <2>1 DEF LockInv, AttemptHolds, AdminHolds, WorkerHolds, CloserHolds
  <2>4. FileInv'
    BY <1>1, <1>3, <2>1
       DEF AttemptHolds, AdminHolds, FileInv, Written, Flushes, WorkerHolds, CloserHolds,
           DirtyHasWriter
  <2>5. CountInv' /\ OpInv' /\ StampInv' /\ EpochInv' /\ StaleIsRefused' /\ DrainInv'
        /\ SessionsAreAuthorized' /\ CandidateInv' /\ AccessInv'
    BY <1>1, <1>3, CountFrame, OpFrame, StampFrame, EpochFrame, StaleFrame, DrainFrame,
       AuthorizedFrame, CandidateFrame, SameHoldersFrame, AccessFrame
  <2> QED
    BY <2>2, <2>3, <2>4, <2>5
<1> QED
  BY <1>2, <1>3 DEF CloseFlushes

(* The write of close() reaches the file or fails.                           *)
LEMMA CloseWritesStep ==
  ASSUME IInv, NEW outcome \in Outcomes, CloseWrites(outcome)
  PROVE  IInv'
<1> USE DEF IInv, file_vars, drain_vars, meta_vars, close_vars, source_vars
<1>1. /\ closer' \in [pc : {"open", "stop", "join", "flush", "write", "written", "sync",
                           "ok", "failed"},
                     joins : Workers \cup {NoWorker}]
      /\ closer.pc = "write" /\ closer'.pc \in {"failed", "written"}
      /\ UNCHANGED <<clients, nonces, attempt, admin, drain_vars, meta_vars, closed, source_vars>>
  BY CloserMoving DEF CloseWrites
<1>2. /\ \A s \in Attempts : ~AttemptHolds(s)
      /\ \A y \in Admins : ~AdminHolds(y)
      /\ \A v \in Workers : ~WorkerHolds(v)
      /\ mutations = Closer
  BY <1>1, HolderAssumption DEF LockInv, CloserHolds
<1>3. /\ disk' \in Files /\ durable' \in SUBSET Files
      /\ persisted' \in BOOLEAN /\ durability_error' \in BOOLEAN
      /\ (persisted' /\ ~durability_error') => durable' = {disk'}
      /\ OpenAccepts(disk') /\ \A file \in durable' : OpenAccepts(file)
      /\ \A a \in unused : ~disk'[a].present /\ \A file \in durable' : ~file[a].present
      /\ outcome # "io" => disk' = candidate
      /\ outcome = "io" => UNCHANGED file_vars
  BY Persisting DEF CloseWrites
<1>4. \/ /\ outcome = "io" /\ UNCHANGED file_vars /\ closer'.pc = "failed"
         /\ mutations' = Nobody /\ candidate' \in Files
         /\ CandidateInv' /\ AccessInv'
      \/ /\ outcome # "io" /\ disk' = candidate /\ UNCHANGED <<mutations, candidate>>
         /\ closer'.pc = "written"
  BY <1>1, <1>3, CloserMoving, UnlockKeeps DEF CloseWrites
<1>5. TypeOK'
  BY <1>1, <1>3, <1>4 DEF TypeOK, Files
<1>6. LockInv'
  BY <1>1, <1>2, <1>4, HolderAssumption
     DEF LockInv, AttemptHolds, AdminHolds, WorkerHolds, CloserHolds
<1>7. CandidateInv'
  BY <1>1, <1>2, <1>3, <1>4 DEF CandidateInv, AttemptHolds, AdminHolds
<1>8. FileInv'
  BY <1>1, <1>2, <1>3, <1>4
     DEF AttemptHolds, AdminHolds, FileInv, Written, Flushes, WorkerHolds, CloserHolds,
         DirtyHasWriter
<1>9. AccessInv'
  BY <1>1, <1>2, <1>3, <1>4 DEF AdminHolds, AccessInv, AttemptHolds, client_for_token
<1>10. CountInv' /\ OpInv' /\ StampInv' /\ EpochInv' /\ StaleIsRefused' /\ DrainInv'
       /\ SessionsAreAuthorized'
  BY <1>1, CountFrame, OpFrame, StampFrame, EpochFrame, StaleFrame, DrainFrame, AuthorizedFrame
<1> QED
  BY <1>5, <1>6, <1>7, <1>8, <1>9, <1>10

(* Nothing changed after closed, so what was written is clean.               *)
LEMMA CloseWroteStep ==
  ASSUME IInv, CloseWrote
  PROVE  IInv'
<1> USE DEF IInv, file_vars, drain_vars, meta_vars, close_vars, source_vars
<1>1. /\ closer' \in [pc : {"open", "stop", "join", "flush", "write", "written", "sync",
                           "ok", "failed"},
                     joins : Workers \cup {NoWorker}]
      /\ closer.pc = "written" /\ closer'.pc = "sync"
      /\ metadata_dirty' = (metadata_dirty /\ metadata_version # flush_version[Closer])
      /\ UNCHANGED <<clients, nonces, attempt, admin, drain_vars, file_vars, metadata_version,
                     metadata_worker, worker,
                     flush_version, closed, source_vars>>
  BY CloserMoving DEF CloseWrote, CleanSnapshot
<1>2. /\ \A s \in Attempts : ~AttemptHolds(s)
      /\ \A y \in Admins : ~AdminHolds(y)
      /\ \A v \in Workers : ~WorkerHolds(v)
      /\ mutations = Closer
  BY <1>1, HolderAssumption DEF LockInv, CloserHolds
<1>3. mutations' = Nobody /\ candidate' \in Files /\ CandidateInv' /\ AccessInv'
  BY <1>1, UnlockKeeps DEF CloseWrote, CleanSnapshot
<1>4. TypeOK'
  BY <1>1, <1>3 DEF TypeOK, Files
<1>5. LockInv'
  BY <1>1, <1>2, <1>3, HolderAssumption
     DEF LockInv, AttemptHolds, AdminHolds, WorkerHolds, CloserHolds
<1>6. CandidateInv'
  BY <1>3
<1>7. FileInv'
  BY <1>1, <1>2, <1>3
     DEF AttemptHolds, AdminHolds, FileInv, Written, Flushes, WorkerHolds, CloserHolds,
         DirtyHasWriter
<1>8. AccessInv'
  BY <1>3
<1>9. CountInv' /\ OpInv' /\ StampInv' /\ EpochInv' /\ StaleIsRefused' /\ DrainInv'
      /\ SessionsAreAuthorized'
  BY <1>1, CountFrame, OpFrame, StampFrame, EpochFrame, StaleFrame, DrainFrame, AuthorizedFrame
<1> QED
  BY <1>4, <1>5, <1>6, <1>7, <1>8, <1>9

(* A directory sync that had failed is made good or reported.                *)
LEMMA RetryDurabilitySyncStep ==
  ASSUME IInv, NEW outcome \in Outcomes, retry_durability_sync(outcome)
  PROVE  IInv'
<1> USE DEF IInv, file_vars, drain_vars, meta_vars, close_vars, source_vars
<1>1. /\ closer' \in [pc : {"open", "stop", "join", "flush", "write", "written", "sync",
                           "ok", "failed"},
                     joins : Workers \cup {NoWorker}]
      /\ closer.pc = "sync" /\ closer'.pc \in {"ok", "failed"}
      /\ \/ ~durability_error' /\ durable' = IF durability_error THEN {disk} ELSE durable
         \/ closer'.pc = "failed" /\ UNCHANGED <<durability_error, durable>>
      /\ durability_error' \in BOOLEAN
      /\ UNCHANGED <<clients, nonces, attempt, admin, drain_vars, mutations, candidate, disk,
                     persisted, meta_vars, closed,
                     source_vars>>
  BY CloserMoving DEF retry_durability_sync, TypeOK
<1>2. TypeOK'
  BY <1>1 DEF TypeOK
<1>3. LockInv'
  BY <1>1 DEF LockInv, AttemptHolds, AdminHolds, WorkerHolds, CloserHolds
<1>4. CandidateInv'
  <2>1. \A op, a, d : Published(op, a, d)' = Published(op, a, d)
    BY <1>1 DEF Published
  <2>2. \A t \in Attempts : PublishedEnrolment(t)' = PublishedEnrolment(t)
    BY <1>1 DEF PublishedEnrolment
  <2> QED
    BY <1>1, <2>1, <2>2 DEF CandidateInv, Follows, Alike, AttemptHolds
<1>5. FileInv'
  BY <1>1
     DEF AttemptHolds, AdminHolds, FileInv, Written, Flushes, WorkerHolds, CloserHolds,
         DirtyHasWriter
<1>6. AccessInv'
  BY <1>1 DEF AccessInv, AttemptHolds, client_for_token
<1>7. CountInv' /\ OpInv' /\ StampInv' /\ EpochInv' /\ StaleIsRefused' /\ DrainInv'
      /\ SessionsAreAuthorized'
  BY <1>1, CountFrame, OpFrame, StampFrame, EpochFrame, StaleFrame, DrainFrame, AuthorizedFrame
<1> QED
  BY <1>2, <1>3, <1>4, <1>5, <1>6, <1>7

(* The clock advances.                                                       *)
LEMMA TickStep ==
  ASSUME IInv, Tick
  PROVE  IInv'
<1> USE DEF IInv, file_vars, drain_vars, meta_vars, close_vars, source_vars
<1>1. /\ now' = now + 1 /\ now \in Nat
      /\ UNCHANGED <<clients, nonces, attempt, admin, drain_vars, mutations, candidate,
                     file_vars, meta_vars, close_vars,
                     next_token, unused>>
  BY DEF Tick, TypeOK
<1>2. TypeOK'
  BY <1>1 DEF TypeOK
<1>3. StampInv'
  BY <1>1 DEF StampInv
<1>4. CountInv' /\ OpInv' /\ EpochInv' /\ StaleIsRefused' /\ DrainInv'
      /\ SessionsAreAuthorized' /\ LockInv' /\ CandidateInv' /\ FileInv' /\ AccessInv'
  BY <1>1, CountFrame, OpFrame, EpochFrame, StaleFrame, DrainFrame, AuthorizedFrame, LockFrame,
     CandidateFrame, SameHoldersFrame, FileFrame, AccessFrame
<1> QED
  BY <1>2, <1>3, <1>4

----------------------------------------------------------------------------
(* A registry that has just been opened.                                     *)
Opened ==
  /\ disk \in Files /\ durable \in SUBSET Files
  /\ OpenAccepts(disk) /\ \A file \in durable : OpenAccepts(file)
  /\ clients = disk /\ candidate = NoCandidate
  /\ nonces = [k \in Keys |-> {}]
  /\ retiring_accounts = [a \in Accounts |-> 0] /\ retiring_devices = [k \in Keys |-> 0]
  /\ account_disconnect = [a \in Accounts |-> 0] /\ device_disconnect = [k \in Keys |-> 0]
  /\ disconnect_epoch = 0 /\ drained = [k \in Keys |-> 0]
  /\ metadata_dirty = FALSE /\ metadata_version = 0
  /\ mutations = Nobody
  /\ persisted \in BOOLEAN /\ (persisted => durable = {disk}) /\ durability_error = FALSE
  /\ closed = FALSE /\ closer = [pc |-> "open", joins |-> NoWorker]
  /\ metadata_worker = NoWorker /\ worker = [w \in Workers |-> "off"]
  /\ flush_version = [p \in Workers \cup {Closer} |-> 0]
  /\ attempt = [t \in Attempts |-> Idle] /\ admin = [x \in Admins |-> NoChange]
  /\ now \in Nat /\ now >= 1 /\ next_token \in Nat /\ unused \subseteq Accounts
  /\ \A a \in unused : ~disk[a].present /\ \A file \in durable : ~file[a].present

(* A registry that was just opened satisfies the invariant.                  *)
LEMMA OpenedIInv == Opened => IInv
<1> SUFFICES ASSUME Opened PROVE IInv
  OBVIOUS
<1>1. /\ \A t \in Attempts : /\ attempt[t] = Idle /\ attempt[t].pc = "idle"
                             /\ attempt[t].epoch = 0 /\ attempt[t].device = Proxy
                             /\ KeyOf(t) \in Keys
      /\ \A x \in Admins : /\ admin[x] = NoChange /\ admin[x].pc = "idle"
                           /\ admin[x].op = "none"
      /\ \A w \in Workers : worker[w] = "off"
      /\ closer.pc = "open" /\ mutations = Nobody /\ ~closed
  BY RegistryAssumption DEF Opened, Idle, NoChange, KeyOf, Keys
<1>2. TypeOK
  <2>1. attempt \in [Attempts -> AttemptRecord] /\ admin \in [Admins -> AdminRecord]
    BY SomeRecords DEF Opened
  <2> QED
    BY <2>1, SomeRecords DEF Opened, TypeOK, Files, NoWorker
<1>3. LockInv
  BY <1>1, HolderAssumption DEF LockInv, AttemptHolds, AdminHolds, WorkerHolds, CloserHolds
<1>4. CountInv
  <2>1. Draining = {}
    BY <1>1 DEF Draining
  <2>2. (\A a : AccountDrains(a) = {}) /\ (\A k : DeviceDrains(k) = {})
    BY <2>1 DEF AccountDrains, DeviceDrains
  <2> QED
    BY <2>2, FS_EmptySet DEF Opened, CountInv
<1>5. OpInv /\ StampInv
  BY <1>1 DEF Opened, OpInv, StampInv
<1>6. CandidateInv
  BY <1>1, NoCandidateAccepted DEF Opened, CandidateInv, AttemptHolds
<1>7. FileInv
  BY <1>1 DEF Opened, FileInv, Written, Flushes, WorkerHolds, CloserHolds, DirtyHasWriter
<1>8. EpochInv /\ StaleIsRefused
  BY <1>1 DEF Opened, EpochInv, StaleIsRefused
<1>9. DrainInv
  BY <1>1 DEF DrainInv, Admitted
<1>10. AccessInv
  BY <1>1, NoCandidateAccepted DEF Opened, AccessInv, AttemptHolds
<1>11. SessionsAreAuthorized
  BY <1>1 DEF SessionsAreAuthorized, Live
<1> QED
  BY <1>2, <1>3, <1>4, <1>5, <1>6, <1>7, <1>8, <1>9, <1>10, <1>11 DEF IInv

(* So it does when the daemon comes back after a crash.                      *)
LEMMA OpenStep ==
  ASSUME IInv, NEW machine \in BOOLEAN, open(machine)
  PROVE  IInv'
<1>1. /\ disk \in Files /\ durable \in SUBSET Files /\ OpenAccepts(disk)
      /\ \A file \in durable : OpenAccepts(file)
      /\ now \in Nat /\ now >= 1 /\ next_token \in Nat /\ unused \subseteq Accounts
      /\ \A a \in unused : ~disk[a].present /\ \A file \in durable : ~file[a].present
  BY DEF IInv, TypeOK, Files, CandidateInv, AccessInv, StampInv
<1>2. /\ disk' \in Files /\ durable' \in SUBSET Files /\ OpenAccepts(disk')
      /\ \A file \in durable' : OpenAccepts(file)
      /\ \A a \in unused : ~disk'[a].present /\ \A file \in durable' : ~file[a].present
  BY <1>1 DEF open
<1>3. Opened'
  BY <1>1, <1>2 DEF open, Opened, source_vars, OpenAccepts
<1>4. (Opened => IInv)'
  BY OpenedIInv, PTL
<1> QED
  BY <1>3, <1>4

(* A new registry is one that was just opened.                               *)
LEMMA InitIInv == Init => IInv
<1> SUFFICES ASSUME Init PROVE IInv
  OBVIOUS
<1>1. NewClient(1, MaxDevices) \in ClientRecord /\ NoClient \in ClientRecord
  BY RegistryAssumption, SomeRecords
<1>2. disk \in Files /\ durable = {disk}
  BY <1>1 DEF Init, Files
<1>3. \A a \in Accounts : Enrolled(disk[a]) = {} /\ disk[a].max_devices \in Nat
  BY RegistryAssumption DEF Init, Enrolled, NewClient, NoClient, NotEnrolled
<1>4. OpenAccepts(disk)
  BY <1>3, FS_EmptySet DEF OpenAccepts
<1>5. \A a \in unused : a \in Accounts /\ ~disk[a].present
  BY DEF Init, NoClient
<1>6. Opened
  BY <1>2, <1>4, <1>5 DEF Init, Opened
<1> QED
  BY <1>6, OpenedIInv

----------------------------------------------------------------------------

(* A step that changes nothing of the registry keeps the invariant.          *)
LEMMA StutterStep ==
  ASSUME IInv, UNCHANGED vars
  PROVE  IInv'
<1> USE DEF vars, file_vars, drain_vars, meta_vars, close_vars, source_vars
<1>1. TypeOK'
  BY DEF IInv, TypeOK
<1>2. LockInv' /\ CountInv' /\ OpInv' /\ StampInv' /\ CandidateInv'
  BY LockFrame, CountFrame, OpFrame, StampFrame, CandidateFrame, SameHoldersFrame DEF IInv
<1>3. FileInv' /\ EpochInv' /\ StaleIsRefused' /\ DrainInv' /\ AccessInv'
      /\ SessionsAreAuthorized'
  BY FileFrame, EpochFrame, StaleFrame, DrainFrame, AccessFrame, AuthorizedFrame DEF IInv
<1> QED
  BY <1>1, <1>2, <1>3 DEF IInv

(* Every step keeps the invariant: one lemma per action.                     *)
LEMMA NextIInv == IInv /\ [Next]_vars => IInv'
<1> SUFFICES ASSUME IInv, [Next]_vars PROVE IInv'
  OBVIOUS
<1>1. ASSUME NEW t \in Attempts, NEW d \in Devices, NEW token \in 1..next_token,
             NEW nonce \in IF d = Proxy THEN {NoNonce} ELSE Nonces,
             BeginAuthentication(t, d, token, nonce)
      PROVE  IInv'
  BY <1>1, BeginAuthenticationStep
<1>2. ASSUME NEW t \in Attempts, AttemptStep(t) PROVE IInv'
  BY <1>2, FastRegisterStep, FastRegisterProxyStep, StartMetadataWorkerStep, AwaitMutationsStep,
     RefuseStep, SlowRegisterStep, EnrolStep, WriteEnrolmentStep, PublishEnrolmentStep
     DEF AttemptStep
<1>3. ASSUME NEW t \in Attempts, FinishSession(t) PROVE IInv'
  BY <1>3, FinishSessionStep
<1>4. ASSUME NEW x \in Admins, Change(x) PROVE IInv'
  BY <1>4, CreateStep, UpdateStep, RotateTokenStep, DeleteStep, RetireDeviceStep, DisconnectStep
     DEF Change
<1>5. ASSUME NEW x \in Admins, AdminStep(x) PROVE IInv'
  BY <1>5, WriteChangeStep, PublishChangeStep, BeginDrainStep, CancelSessionsStep,
     ReturnRetirementStep, FinishDrainStep DEF AdminStep
<1>6. ASSUME NEW w \in Workers, WorkerNext(w) PROVE IInv'
  BY <1>6, WorkerWakesStep, WorkerFlushesStep, WorkerWritesStep, WorkerWroteStep,
     RetireMetadataWorkerStep DEF WorkerNext
<1>7. ASSUME close \/ CloserNext PROVE IInv'
  BY <1>7, CloseStep, CloseStopsWorkerStep, CloseFlushesStep, CloseWritesStep, CloseWroteStep,
     RetryDurabilitySyncStep DEF CloserNext
<1>8. ASSUME NEW machine \in BOOLEAN, open(machine) PROVE IInv'
  BY <1>8, OpenStep
<1> QED
  BY <1>1, <1>2, <1>3, <1>4, <1>5, <1>6, <1>7, <1>8, TickStep, StutterStep DEF Next

(* The inductive invariant holds in every state the registry reaches.        *)
THEOREM InductiveInvariant == Spec => []IInv
<1>1. Init => IInv
  BY InitIInv
<1>2. IInv /\ [Next]_vars => IInv'
  BY NextIInv
<1> QED
  BY <1>1, <1>2, PTL DEF Spec

(* Every variable keeps its type, and max_devices holds in memory and in     *)
(* every file that a crash may leave, so validate_stored_client accepts the  *)
(* file whenever the daemon opens it - for any number of requests, workers   *)
(* and administrative changes, and whatever write, sync or process fails.    *)
THEOREM RegistryStaysSound == Spec => []RegistryIsSound
<1>1. IInv => RegistryIsSound
  BY DEF IInv, RegistryIsSound, DeviceLimitHolds, CandidateInv
<1> QED
  BY <1>1, InductiveInvariant, PTL

(* Access that was taken away is gone: no session outlives the drain that    *)
(* its authentication began before, and a live session is one that the       *)
(* registry would admit now, or one that a change on its way will cancel.    *)
THEOREM RevocationEndsSessions == Spec => []RevokedSessionsEnd
<1>1. IInv => RevokedSessionsEnd
  <2> SUFFICES ASSUME IInv PROVE RevokedSessionsEnd
    OBVIOUS
  <2>1. Live \subseteq Admitted
    BY DEF Live, Admitted
  <2>2. NoSessionOutlivesDrain
    BY <2>1 DEF IInv, DrainInv, NoSessionOutlivesDrain
  <2> QED
    BY <2>2 DEF IInv, RevokedSessionsEnd
<1> QED
  BY <1>1, InductiveInvariant, PTL

(* With the lock free and nothing dirty the file is what is in memory; dirty *)
(* metadata has somebody who will write it; close() returns Ok only when the *)
(* file is written and synced; and whoever holds the mutations lock is on    *)
(* its way to give it back.                                                  *)
THEOREM FileStaysKept == Spec => []FileIsKept
<1>1. IInv => FileIsKept
  <2> SUFFICES ASSUME IInv PROVE FileIsKept
    OBVIOUS
  <2>1. mutations = Nobody => ~Written
    BY HolderAssumption DEF IInv, LockInv, Written, AttemptHolds, AdminHolds
  <2>2. MetadataIsKept
    BY <2>1 DEF IInv, FileInv, MetadataIsKept, CleanMeansWritten
  <2>3. CloseIsDurable
    <3>1. closed => ~Written
      BY HolderAssumption DEF IInv, LockInv, Written, AttemptHolds, AdminHolds
    <3> QED
      BY <3>1 DEF IInv, FileInv, CloseIsDurable
  <2>4. LockIsReleased
    <3>1. mutations \in Attempts \cup Admins \cup Workers \cup {Closer, Nobody}
      BY DEF IInv, TypeOK
    <3> QED
      BY <3>1 DEF IInv, LockInv, DrainInv, LockIsReleased, AttemptHolds, AdminHolds, WorkerHolds,
                  CloserHolds
  <2> QED
    BY <2>2, <2>3, <2>4 DEF FileIsKept
<1> QED
  BY <1>1, InductiveInvariant, PTL
----------------------------------------------------------------------------
(* The automatic networking of the Linux client.                           *)
Kinds == {"alias", "link", "address", "route", "dns-route", "dns", "escape"}
LeaseAddresses == {l.address : l \in Leases}
LeaseServers == {l.dns : l \in Leases}
ActionValues == {"-", "up", "down", "low", "high"} \cup LeaseAddresses \cup LeaseServers \cup Endpoints
UndoActions == [kind : Kinds, value : ActionValues, index : Indexes, name : Names \cup {None}, mac : Hardware \cup {None}]
Journals == [table : Tables \cup {None}, interface : Indexes \cup {None}, endpoints : SUBSET Endpoints,
             undo : Seq(UndoActions)]

(* An action about the tunnel link. *)
OfTunnel(a) == a.kind # "escape"

(* The journal names no action twice, and the alias comes before whatever  *)
(* else is done to the link that has it.                                   *)
InOrder(u) ==
  /\ \A i, j \in DOMAIN u : u[i] = u[j] => i = j
  /\ \A i, j \in DOMAIN u : u[i].kind = "alias" /\ OfTunnel(u[j]) => i <= j /\ u[i].index = u[j].index
  /\ \A j \in DOMAIN u : OfTunnel(u[j]) => \E i \in DOMAIN u : u[i].kind = "alias"
  /\ \A i \in DOMAIN u : u[i].kind = "link" => u[i].value = "down"

JournalOK(s) ==
  /\ s \in Journals /\ InOrder(s.undo)
  /\ s = Empty \/ validate_state(s)

(* Every change of Porta's in the kernel is undone by some action of A.    *)
UndoneBy(o, table, A) ==
  /\ o.tun # NewTun(o.tun.index) =>
       /\ table # None /\ o.tun.alias = table
       /\ \E a \in A : a.kind = "alias" /\ a.index = o.tun.index
  /\ o.tun.link # "down" => \E a \in A : a.kind = "link"
  /\ \A x \in o.tun.addresses : \E a \in A : a.kind = "address" /\ a.value = x
  /\ \A r \in o.tun.routes : r[2] = table /\ \E a \in A : a.kind \in {"route", "dns-route"} /\ a.value = r[1]
  /\ o.tun.dns # None => \E a \in A : a.kind = "dns"
  /\ \A r \in o.escapes :
       /\ r[2] = table
       /\ \E a \in A : /\ a.kind = "escape" /\ a.value = r[1] /\ a.index = o.phys.index
                       /\ a.mac # None => a.mac = o.phys.mac

RouteValues == {"low", "high"} \cup LeaseServers
TunLinks == [index : Indexes \cup {None}, alias : Tables \cup {None}, link : {"up", "down"},
             addresses : SUBSET LeaseAddresses, routes : SUBSET (RouteValues \X Tables), dns : LeaseServers \cup {None}]
Systems == [tun : TunLinks, phys : Links, escapes : SUBSET (Endpoints \X Tables), foreign : SUBSET Endpoints,
            guards : SUBSET Guards, persistent : BOOLEAN]

SystemOK(o) ==
  /\ o \in Systems /\ o.tun.index # o.phys.index /\ (o.persistent => o.tun.index # None)
  /\ ~Clean(o) => o.guards # {}

(* What a journal is to the kernel. *)
Keeps(o, s) ==
  /\ JournalOK(s) /\ UndoneBy(o, s.table, Range(s.undo))
  /\ \A g \in o.guards : g.table = s.table
  /\ o.guards # {} => s.endpoints # {}
----------------------------------------------------------------------------
LEMMA NetworkConstants ==
  /\ None \notin Indexes /\ None \notin Tables /\ None \notin Hardware /\ AdminRoutes \subseteq Endpoints
  /\ Tables # {} /\ MaxActions \in Nat /\ MaxEndpoints \in Nat \ {0} /\ IsFiniteSet(Endpoints)
  /\ \A l \in Leases : /\ l = [address |-> l.address, dns |-> l.dns] /\ l.address # None
                       /\ l.dns \notin {None, "low", "high"}
  /\ None \notin LeaseAddresses /\ LeaseServers \cap {None, "low", "high"} = {}
<1>1. Cardinality({}) = 0  BY FS_EmptySet
<1>2. Tables # {}  BY <1>1, NetworkAssumption
<1> QED BY <1>2, NetworkAssumption DEF LeaseAddresses, LeaseServers

(* A journal with one action more, and one without some action.            *)
LEMMA AppendKeepsOrder ==
  ASSUME NEW u \in Seq(UndoActions), NEW a \in UndoActions, InOrder(u), a \notin Range(u),
         a.kind = "alias" => \A i \in DOMAIN u : ~OfTunnel(u[i]),
         OfTunnel(a) /\ a.kind # "alias" => \E i \in DOMAIN u : u[i].kind = "alias" /\ u[i].index = a.index,
         a.kind = "link" => a.value = "down"
  PROVE  InOrder(Append(u, a)) /\ Range(Append(u, a)) = Range(u) \cup {a}
<1> DEFINE v == Append(u, a)
           n == Len(u)
<1>1. /\ n \in Nat /\ DOMAIN u = 1..n /\ DOMAIN v = 1..(n + 1) /\ v[n + 1] = a
      /\ \A i \in 1..n : v[i] = u[i]
  OBVIOUS
<1>2. \A i \in 1..n : u[i] \in Range(u)  BY <1>1 DEF Range
<1> HIDE DEF v
<1>3. DOMAIN v = 1..n \cup {n + 1}  BY <1>1
<1>4. Range(v) = Range(u) \cup {a}  BY <1>1, <1>3 DEF Range
<1>5. \A i, j \in DOMAIN v : v[i] = v[j] => i = j
  <2> TAKE i, j \in DOMAIN v
  <2>1. CASE i \in 1..n /\ j \in 1..n  BY <1>1, <2>1 DEF InOrder
  <2>2. CASE i = n + 1 /\ j = n + 1  BY <2>2
  <2>3. CASE (i = n + 1 /\ j \in 1..n) \/ (j = n + 1 /\ i \in 1..n)  BY <1>1, <1>2, <2>3
  <2> QED BY <1>3, <2>1, <2>2, <2>3
<1>6. \A i, j \in DOMAIN v : v[i].kind = "alias" /\ OfTunnel(v[j]) => i <= j /\ v[i].index = v[j].index
  <2> SUFFICES ASSUME NEW i \in DOMAIN v, NEW j \in DOMAIN v, v[i].kind = "alias", OfTunnel(v[j])
               PROVE  i <= j /\ v[i].index = v[j].index
    OBVIOUS
  <2>1. CASE i \in 1..n /\ j \in 1..n  BY <1>1, <2>1 DEF InOrder
  <2>2. CASE i = n + 1 /\ j = n + 1  BY <1>1, <2>2
  <2>3. CASE i = n + 1 /\ j \in 1..n  BY <1>1, <2>3
  <2>4. CASE j = n + 1 /\ i \in 1..n
    <3>1. OfTunnel(a) /\ u[i].kind = "alias" /\ v[i] = u[i] /\ v[j] = a  BY <1>1, <2>4
    <3>2. OfTunnel(u[i])  BY <3>1 DEF OfTunnel
    <3>3. a.kind # "alias"  BY <1>1, <2>4, <3>2
    <3>4. PICK k \in DOMAIN u : u[k].kind = "alias" /\ u[k].index = a.index  BY <3>1, <3>3
    <3>5. u[k].index = u[i].index  BY <1>1, <2>4, <3>1, <3>2, <3>4 DEF InOrder
    <3>6. i <= j  BY <1>1, <2>4
    <3> QED BY <3>1, <3>4, <3>5, <3>6
  <2> QED BY <1>3, <2>1, <2>2, <2>3, <2>4
<1>7. \A j \in DOMAIN v : OfTunnel(v[j]) => \E i \in DOMAIN v : v[i].kind = "alias"
  <2> SUFFICES ASSUME NEW j \in DOMAIN v, OfTunnel(v[j]) PROVE \E i \in DOMAIN v : v[i].kind = "alias"  OBVIOUS
  <2>1. CASE j \in 1..n  BY <1>1, <1>3, <2>1 DEF InOrder
  <2>2. CASE j = n + 1  BY <1>1, <1>3, <2>2
  <2> QED BY <1>3, <2>1, <2>2
<1>8. \A i \in DOMAIN v : v[i].kind = "link" => v[i].value = "down"  BY <1>1, <1>3 DEF InOrder
<1> QED BY <1>4, <1>5, <1>6, <1>7, <1>8 DEF InOrder, v

LEMMA RemoveKeepsOrder ==
  ASSUME NEW u \in Seq(UndoActions), NEW k \in DOMAIN u, InOrder(u),
         u[k].kind = "alias" => \A i \in DOMAIN u : OfTunnel(u[i]) => i = k
  PROVE  /\ RemoveAt(u, k) \in Seq(UndoActions) /\ Len(RemoveAt(u, k)) = Len(u) - 1
         /\ InOrder(RemoveAt(u, k)) /\ Range(RemoveAt(u, k)) = Range(u) \ {u[k]}
<1> DEFINE v == RemoveAt(u, k)
           n == Len(u)
           one == SubSeq(u, 1, k - 1)
           two == SubSeq(u, k + 1, n)
           at(i) == IF i < k THEN i ELSE i + 1
<1>1. n \in Nat /\ DOMAIN u = 1..n /\ k \in 1..n  OBVIOUS
<1>2. one \in Seq(UndoActions) /\ Len(one) = k - 1 /\ \A i \in 1..(k - 1) : one[i] = u[i]  BY <1>1
<1>3. two \in Seq(UndoActions) /\ Len(two) = n - k /\ \A i \in 1..(n - k) : two[i] = u[k + i]  BY <1>1
<1>4. v = one \o two  BY DEF RemoveAt
<1> HIDE DEF one, two, v
<1>5. /\ v \in Seq(UndoActions) /\ Len(v) = n - 1 /\ DOMAIN v = 1..(n - 1)
      /\ \A i \in 1..(n - 1) : v[i] = IF i <= k - 1 THEN one[i] ELSE two[i - (k - 1)]
  <2>1. /\ v \in Seq(UndoActions) /\ Len(v) = Len(one) + Len(two)
        /\ \A i \in 1..Len(one) + Len(two) : v[i] = IF i <= Len(one) THEN one[i] ELSE two[i - Len(one)]
    BY <1>2, <1>3, <1>4, ConcatProperties
  <2>2. Len(one) + Len(two) = n - 1  BY <1>1, <1>2, <1>3
  <2> QED BY <1>2, <2>1, <2>2
<1>6. ASSUME NEW i \in DOMAIN v PROVE v[i] = u[at(i)] /\ at(i) \in DOMAIN u /\ at(i) # k
  <2>1. i \in 1..(n - 1)  BY <1>5
  <2>2. CASE i < k  BY <1>1, <1>2, <1>5, <2>1, <2>2
  <2>3. CASE ~(i < k)
    <3>1. v[i] = two[i - (k - 1)] /\ i - (k - 1) \in 1..(n - k)  BY <1>1, <1>5, <2>1, <2>3
    <3>2. k + (i - (k - 1)) = i + 1  BY <1>1, <2>1
    <3>3. two[i - (k - 1)] = u[i + 1]  BY <1>3, <3>1, <3>2
    <3> QED BY <1>1, <2>1, <2>3, <3>1, <3>3
  <2> QED BY <2>2, <2>3
<1>7. ASSUME NEW j \in DOMAIN u, j # k PROVE \E i \in DOMAIN v : at(i) = j
  <2>1. CASE j < k  BY <1>1, <1>5, <2>1
  <2>2. CASE ~(j < k)
    <3>1. j - 1 \in DOMAIN v /\ at(j - 1) = j  BY <1>1, <1>5, <1>7, <2>2
    <3> QED BY <3>1
  <2> QED BY <2>1, <2>2
<1>8. \A i, j \in DOMAIN v : (at(i) <= at(j) <=> i <= j) /\ (at(i) = at(j) <=> i = j)  BY <1>1, <1>5
<1> HIDE DEF at
<1>9. Range(v) = Range(u) \ {u[k]}
  <2>1. ASSUME NEW i \in DOMAIN v PROVE v[i] \in Range(u) \ {u[k]}  BY <1>6 DEF Range, InOrder
  <2>2. ASSUME NEW j \in DOMAIN u, u[j] # u[k] PROVE u[j] \in Range(v)
    <3>1. PICK i \in DOMAIN v : at(i) = j  BY <1>7, <2>2
    <3>2. v[i] = u[j]  BY <1>6, <3>1
    <3> QED BY <3>2 DEF Range
  <2> QED BY <2>1, <2>2 DEF Range
<1>10. InOrder(v)
  <2>1. \A i, j \in DOMAIN v : v[i] = v[j] => i = j
    <3> TAKE i, j \in DOMAIN v
    <3>1. v[i] = u[at(i)] /\ v[j] = u[at(j)] /\ at(i) \in DOMAIN u /\ at(j) \in DOMAIN u  BY <1>6
    <3> QED BY <1>8, <3>1 DEF InOrder
  <2>2. \A i, j \in DOMAIN v : v[i].kind = "alias" /\ OfTunnel(v[j]) => i <= j /\ v[i].index = v[j].index
    <3> TAKE i, j \in DOMAIN v
    <3>1. v[i] = u[at(i)] /\ v[j] = u[at(j)] /\ at(i) \in DOMAIN u /\ at(j) \in DOMAIN u  BY <1>6
    <3> QED BY <1>8, <3>1 DEF InOrder
  <2>3. \A j \in DOMAIN v : OfTunnel(v[j]) => \E i \in DOMAIN v : v[i].kind = "alias"
    <3> SUFFICES ASSUME NEW j \in DOMAIN v, OfTunnel(v[j]) PROVE \E i \in DOMAIN v : v[i].kind = "alias"  OBVIOUS
    <3>1. v[j] = u[at(j)] /\ at(j) \in DOMAIN u /\ at(j) # k  BY <1>6
    <3>2. PICK i \in DOMAIN u : u[i].kind = "alias"  BY <3>1 DEF InOrder
    <3>3. i # k  BY <3>1, <3>2
    <3>4. PICK m \in DOMAIN v : at(m) = i  BY <1>7, <3>3
    <3> QED BY <1>6, <3>2, <3>4
  <2>4. \A i \in DOMAIN v : v[i].kind = "link" => v[i].value = "down"
    <3> TAKE i \in DOMAIN v
    <3>1. v[i] = u[at(i)] /\ at(i) \in DOMAIN u  BY <1>6
    <3> QED BY <3>1 DEF InOrder
  <2> QED BY <2>1, <2>2, <2>3, <2>4 DEF InOrder
<1> QED BY <1>5, <1>9, <1>10 DEF v
----------------------------------------------------------------------------
(* A tunnel link without anything of Porta's.                              *)
LEMMA BareLink ==
  ASSUME NEW t \in TunLinks
  PROVE  t = NewTun(t.index) <=> /\ t.alias = None /\ t.link = "down" /\ t.addresses = {} /\ t.routes = {}
                                 /\ t.dns = None
BY DEF TunLinks, NewTun, NoTun

(* p is o without some of Porta's changes.                                 *)
Less(p, o) ==
  /\ p \in Systems /\ p.phys = o.phys /\ p.foreign = o.foreign /\ p.guards = o.guards /\ p.persistent = o.persistent
  /\ p.tun.index = o.tun.index /\ (p.tun.alias = o.tun.alias \/ p.tun = NewTun(p.tun.index))
  /\ p.tun.link \in {o.tun.link, "down"} /\ p.tun.addresses \subseteq o.tun.addresses
  /\ p.tun.routes \subseteq o.tun.routes /\ p.tun.dns \in {o.tun.dns, None} /\ p.escapes \subseteq o.escapes

LEMMA LessIsUndone ==
  ASSUME NEW o \in Systems, NEW p, Less(p, o), NEW table, NEW A, UndoneBy(o, table, A)
  PROVE  UndoneBy(p, table, A)
<1>1. o.tun \in TunLinks /\ p.tun \in TunLinks /\ p.phys = o.phys  BY DEF Less, Systems
<1>2. p.tun # NewTun(p.tun.index) => o.tun # NewTun(o.tun.index) /\ p.tun.alias = o.tun.alias /\ p.tun.index = o.tun.index
  BY <1>1, BareLink DEF Less
<1> QED BY <1>1, <1>2 DEF Less, UndoneBy

LEMMA LessIsOK ==
  ASSUME NEW o, SystemOK(o), NEW p, Less(p, o)
  PROVE  SystemOK(p)
<1>1. o \in Systems /\ p \in Systems /\ o.tun \in TunLinks /\ p.tun \in TunLinks  BY DEF SystemOK, Less, Systems
<1>2. ASSUME Clean(o) PROVE Clean(p)
  <2>1. o.tun = NewTun(o.tun.index) /\ o.escapes = {}  BY <1>2 DEF Clean
  <2>2. p.tun = NewTun(p.tun.index)  BY <1>1, <2>1, BareLink DEF Less
  <2> QED BY <2>1, <2>2 DEF Clean, Less
<1> QED BY <1>1, <1>2 DEF SystemOK, Less

LEMMA LessIsKept ==
  ASSUME NEW o, SystemOK(o), NEW p, Less(p, o), NEW s, Keeps(o, s)
  PROVE  Keeps(p, s)
<1>1. o \in Systems  BY DEF SystemOK
<1>2. UndoneBy(p, s.table, Range(s.undo))  BY <1>1, LessIsUndone DEF Keeps
<1>3. p.guards = o.guards  BY DEF Less
<1> QED BY <1>2, <1>3 DEF Keeps

(* The actions of one journal about the tunnel are about one link.         *)
OneLink(A) ==
  /\ A \subseteq UndoActions
  /\ \A x, y \in A : x.kind = "alias" /\ OfTunnel(y) => x.index = y.index
  /\ \A x \in A : x.kind = "link" => x.value = "down"

(* undo takes from the kernel what its action stands for.  The alias goes  *)
(* last, since the other actions know the link by it.                      *)
LEMMA UndoFrees ==
  ASSUME NEW o \in Systems, NEW table, NEW A, UndoneBy(o, table, A), OneLink(A), NEW a \in A, ~Unverifiable(a, o),
         a.kind = "alias" => \A x \in A : OfTunnel(x) => x = a
  PROVE  Less(Undone(a, o, table), o) /\ UndoneBy(Undone(a, o, table), table, A \ {a})
<1> DEFINE p == Undone(a, o, table)
           B == A \ {a}
<1>1. /\ o.tun \in TunLinks /\ a \in UndoActions /\ a.kind \in Kinds
      /\ o.tun.routes \subseteq RouteValues \X Tables /\ o.escapes \subseteq Endpoints \X Tables
  BY DEF Systems, TunLinks, OneLink, UndoActions
<1>2. CASE ~action_link(a, o, table)
  <2>1. p = o  BY <1>2 DEF Undone
  <2>2. Less(p, o)  BY <2>1 DEF Less
  <2>3. CASE a.kind # "escape"
    <3>1. ~TunIs(o, table, a.index)  BY <1>2, <2>3 DEF action_link
    <3>2. o.tun = NewTun(o.tun.index)
      <4>1. SUFFICES ASSUME o.tun # NewTun(o.tun.index) PROVE FALSE  OBVIOUS
      <4>2. PICK b \in A : b.kind = "alias" /\ b.index = o.tun.index  BY <4>1 DEF UndoneBy
      <4>3. b.index = a.index  BY <2>3, <4>2 DEF OneLink, OfTunnel
      <4>4. table # None /\ o.tun.alias = table  BY <4>1 DEF UndoneBy
      <4> QED BY <3>1, <4>2, <4>3, <4>4 DEF TunIs
    <3>3. o.tun.link = "down" /\ o.tun.addresses = {} /\ o.tun.routes = {} /\ o.tun.dns = None  BY <1>1, <3>2, BareLink
    <3>4. \A b \in A : b.kind = "escape" => b \in B  BY <2>3
    <3>5. UndoneBy(o, table, B)  BY <3>2, <3>3, <3>4 DEF UndoneBy
    <3> QED BY <2>1, <2>2, <3>5
  <2>4. CASE a.kind = "escape"
    <3>1. \A b \in A : b.kind # "escape" => b \in B  BY <2>4
    <3>2. ~(a.index = o.phys.index /\ (a.mac # None => a.mac = o.phys.mac))
      BY <1>2, <2>4 DEF action_link, same_link_identity, Unverifiable, link_by_index
    <3>3. \A r \in o.escapes :
            /\ r[2] = table
            /\ \E b \in B : /\ b.kind = "escape" /\ b.value = r[1] /\ b.index = o.phys.index
                            /\ b.mac # None => b.mac = o.phys.mac
      BY <3>2 DEF UndoneBy
    <3>4. /\ o.tun # NewTun(o.tun.index) =>
               /\ table # None /\ o.tun.alias = table
               /\ \E b \in B : b.kind = "alias" /\ b.index = o.tun.index
          /\ o.tun.link # "down" => \E b \in B : b.kind = "link"
          /\ \A x \in o.tun.addresses : \E b \in B : b.kind = "address" /\ b.value = x
          /\ o.tun.dns # None => \E b \in B : b.kind = "dns"
      BY <3>1 DEF UndoneBy
    <3>5. \A r \in o.tun.routes : r[2] = table /\ \E b \in B : b.kind \in {"route", "dns-route"} /\ b.value = r[1]
      BY <3>1 DEF UndoneBy
    <3>6. UndoneBy(o, table, B)  BY <3>3, <3>4, <3>5 DEF UndoneBy
    <3> QED BY <2>1, <2>2, <3>6
  <2> QED BY <2>3, <2>4
<1>3. CASE action_link(a, o, table)
  <2>1. CASE a.kind = "alias"
    <3>1. p = [o EXCEPT !.tun.alias = None]  BY <1>3, <2>1 DEF Undone
    <3>2. \A b \in A : b.kind \notin {"link", "address", "route", "dns-route", "dns"}  BY <2>1 DEF OfTunnel
    <3>3. o.tun.link = "down" /\ o.tun.addresses = {} /\ o.tun.routes = {} /\ o.tun.dns = None
      BY <1>1, <3>2 DEF UndoneBy
    <3>4. p \in Systems  BY <3>1 DEF Systems, TunLinks
    <3>5. /\ p.phys = o.phys /\ p.foreign = o.foreign /\ p.guards = o.guards /\ p.persistent = o.persistent
          /\ p.escapes = o.escapes /\ p.tun = [o.tun EXCEPT !.alias = None]
      BY <3>1 DEF Systems
    <3>6. /\ p.tun \in TunLinks /\ p.tun.alias = None /\ p.tun.link = "down" /\ p.tun.addresses = {} /\ p.tun.routes = {}
          /\ p.tun.dns = None /\ p.tun.index = o.tun.index
      BY <1>1, <3>3, <3>5 DEF TunLinks
    <3>7. p.tun = NewTun(p.tun.index)  BY <3>6, BareLink
    <3> HIDE DEF p
    <3>8. Less(p, o)  BY <3>4, <3>5, <3>6, <3>7 DEF Less
    <3>9. \A b \in A : b.kind = "escape" => b \in B  BY <2>1
    <3>10. UndoneBy(p, table, B)  BY <3>5, <3>6, <3>7, <3>9 DEF UndoneBy
    <3> QED BY <3>8, <3>10 DEF p
  <2>2. CASE a.kind = "link"
    <3>0. a.value = "down"  BY <2>2 DEF OneLink
    <3>1. p = [o EXCEPT !.tun.link = "down", !.tun.routes = {}]  BY <1>3, <2>2, <3>0 DEF Undone
    <3>2. p \in Systems
      <4> DEFINE t == [o.tun EXCEPT !.link = "down", !.routes = {}]
      <4>1. t \in TunLinks  BY <1>1 DEF TunLinks
      <4>2. p = [o EXCEPT !.tun = t]  BY <3>1 DEF Systems
      <4> QED BY <4>1, <4>2 DEF Systems
    <3>3. /\ p.phys = o.phys /\ p.foreign = o.foreign /\ p.guards = o.guards /\ p.persistent = o.persistent
          /\ p.escapes = o.escapes /\ p.tun = [o.tun EXCEPT !.link = "down", !.routes = {}]
      BY <3>1 DEF Systems
    <3>4. /\ p.tun.alias = o.tun.alias /\ p.tun.link = "down" /\ p.tun.addresses = o.tun.addresses /\ p.tun.routes = {}
          /\ p.tun.dns = o.tun.dns /\ p.tun.index = o.tun.index
      BY <1>1, <3>3 DEF TunLinks
    <3> HIDE DEF p
    <3>5. Less(p, o)  BY <3>2, <3>3, <3>4 DEF Less
    <3>6. UndoneBy(p, table, A)  BY <3>5, LessIsUndone
    <3>7. \A b \in A : b.kind # "link" => b \in B  BY <2>2
    <3>8. UndoneBy(p, table, B)  BY <3>4, <3>6, <3>7 DEF UndoneBy
    <3> QED BY <3>5, <3>8 DEF p
  <2>3. CASE a.kind = "address"
    <3>1. p = [o EXCEPT !.tun.addresses = @ \ {a.value}]  BY <1>3, <2>3 DEF Undone
    <3>2. p \in Systems  BY <3>1 DEF Systems, TunLinks
    <3>3. /\ p.phys = o.phys /\ p.foreign = o.foreign /\ p.guards = o.guards /\ p.persistent = o.persistent
          /\ p.escapes = o.escapes /\ p.tun = [o.tun EXCEPT !.addresses = @ \ {a.value}]
      BY <3>1 DEF Systems
    <3>4. /\ p.tun.alias = o.tun.alias /\ p.tun.link = o.tun.link /\ p.tun.addresses = o.tun.addresses \ {a.value}
          /\ p.tun.routes = o.tun.routes /\ p.tun.dns = o.tun.dns /\ p.tun.index = o.tun.index
      BY <1>1, <3>3 DEF TunLinks
    <3> HIDE DEF p
    <3>5. Less(p, o)  BY <3>2, <3>3, <3>4 DEF Less
    <3>6. UndoneBy(p, table, A)  BY <3>5, LessIsUndone
    <3>7. \A b \in A : b.kind # "address" \/ b.value # a.value => b \in B  BY <2>3
    <3>8. UndoneBy(p, table, B)  BY <3>4, <3>6, <3>7 DEF UndoneBy
    <3> QED BY <3>5, <3>8 DEF p
  <2>4. CASE a.kind \in {"route", "dns-route"}
    <3>1. p = [o EXCEPT !.tun.routes = @ \ {<<a.value, table>>}]  BY <1>3, <2>4 DEF Undone, owned_route
    <3>2. p \in Systems  BY <3>1 DEF Systems, TunLinks
    <3>3. /\ p.phys = o.phys /\ p.foreign = o.foreign /\ p.guards = o.guards /\ p.persistent = o.persistent
          /\ p.escapes = o.escapes /\ p.tun = [o.tun EXCEPT !.routes = @ \ {<<a.value, table>>}]
      BY <3>1 DEF Systems
    <3>4. /\ p.tun.alias = o.tun.alias /\ p.tun.link = o.tun.link /\ p.tun.addresses = o.tun.addresses
          /\ p.tun.routes = o.tun.routes \ {<<a.value, table>>} /\ p.tun.dns = o.tun.dns /\ p.tun.index = o.tun.index
      BY <1>1, <3>3 DEF TunLinks
    <3> HIDE DEF p
    <3>5. Less(p, o)  BY <3>2, <3>3, <3>4 DEF Less
    <3>6. UndoneBy(p, table, A)  BY <3>5, LessIsUndone
    <3>7. \A b \in A : b.kind \notin {"route", "dns-route"} \/ b.value # a.value => b \in B  BY <2>4
    <3>8. ASSUME NEW r \in p.tun.routes
          PROVE  r[2] = table /\ \E b \in B : b.kind \in {"route", "dns-route"} /\ b.value = r[1]
      <4>1. r[2] = table /\ r = <<r[1], r[2]>> /\ r # <<a.value, table>>  BY <1>1, <3>4, <3>6 DEF UndoneBy
      <4>2. PICK b \in A : b.kind \in {"route", "dns-route"} /\ b.value = r[1]  BY <3>6 DEF UndoneBy
      <4> QED BY <3>7, <4>1, <4>2
    <3>9. UndoneBy(p, table, B)  BY <3>6, <3>7, <3>8 DEF UndoneBy
    <3> QED BY <3>5, <3>9 DEF p
  <2>5. CASE a.kind = "dns"
    <3>1. p = [o EXCEPT !.tun.dns = None]  BY <1>3, <2>5 DEF Undone
    <3>2. p \in Systems  BY <3>1 DEF Systems, TunLinks
    <3>3. /\ p.phys = o.phys /\ p.foreign = o.foreign /\ p.guards = o.guards /\ p.persistent = o.persistent
          /\ p.escapes = o.escapes /\ p.tun = [o.tun EXCEPT !.dns = None]
      BY <3>1 DEF Systems
    <3>4. /\ p.tun.alias = o.tun.alias /\ p.tun.link = o.tun.link /\ p.tun.addresses = o.tun.addresses
          /\ p.tun.routes = o.tun.routes /\ p.tun.dns = None /\ p.tun.index = o.tun.index
      BY <1>1, <3>3 DEF TunLinks
    <3> HIDE DEF p
    <3>5. Less(p, o)  BY <3>2, <3>3, <3>4 DEF Less
    <3>6. UndoneBy(p, table, A)  BY <3>5, LessIsUndone
    <3>7. \A b \in A : b.kind # "dns" => b \in B  BY <2>5
    <3>8. UndoneBy(p, table, B)  BY <3>4, <3>6, <3>7 DEF UndoneBy
    <3> QED BY <3>5, <3>8 DEF p
  <2>6. CASE a.kind = "escape"
    <3>1. p = [o EXCEPT !.escapes = @ \ {<<a.value, table>>}]  BY <1>3, <2>6 DEF Undone, owned_route
    <3>2. p \in Systems  BY <3>1 DEF Systems
    <3>3. /\ p.phys = o.phys /\ p.foreign = o.foreign /\ p.guards = o.guards /\ p.persistent = o.persistent
          /\ p.escapes = o.escapes \ {<<a.value, table>>} /\ p.tun = o.tun
      BY <3>1 DEF Systems
    <3> HIDE DEF p
    <3>5. Less(p, o)  BY <3>2, <3>3 DEF Less
    <3>6. UndoneBy(p, table, A)  BY <3>5, LessIsUndone
    <3>7. \A b \in A : b.kind # "escape" \/ b.value # a.value => b \in B  BY <2>6
    <3>8. ASSUME NEW r \in p.escapes
          PROVE  /\ r[2] = table
                 /\ \E b \in B : /\ b.kind = "escape" /\ b.value = r[1] /\ b.index = p.phys.index
                                 /\ b.mac # None => b.mac = p.phys.mac
      <4>1. r[2] = table /\ r = <<r[1], r[2]>> /\ r # <<a.value, table>>  BY <1>1, <3>3, <3>6 DEF UndoneBy
      <4>2. PICK b \in A : /\ b.kind = "escape" /\ b.value = r[1] /\ b.index = p.phys.index
                           /\ b.mac # None => b.mac = p.phys.mac
        BY <3>6 DEF UndoneBy
      <4> QED BY <3>7, <4>1, <4>2
    <3>9. UndoneBy(p, table, B)  BY <3>6, <3>7, <3>8 DEF UndoneBy
    <3> QED BY <3>5, <3>9 DEF p
  <2> QED BY <1>1, <2>1, <2>2, <2>3, <2>4, <2>5, <2>6 DEF Kinds
<1> QED BY <1>2, <1>3
----------------------------------------------------------------------------
(* Undoing a whole journal: the fold is a recursive function on the sets   *)
(* of places, and as in FiniteSums that there is one has to be proved.     *)
Undoes(g, u, o, table, S) ==
  g = [s \in SUBSET S |-> IF s = {} THEN o ELSE Undone(u[Min(s)], g[s \ {Min(s)}], table)]

Undoer(u, o, table, S) == CHOOSE g : Undoes(g, u, o, table, S)

LEMMA RestoredIsUndoer == Restored = Undoer(saved.undo, os, saved.table, DOMAIN saved.undo)[DOMAIN saved.undo]
BY DEF Restored, FoldRight, MapThenFoldSet, Undoer, Undoes

LEMMA UndoerValue ==
  ASSUME NEW g, NEW u, NEW o, NEW table, NEW S, Undoes(g, u, o, table, S), NEW s, s \subseteq S
  PROVE  /\ s = {} => g[s] = o
         /\ s # {} => g[s] = Undone(u[Min(s)], g[s \ {Min(s)}], table)
<1>1. s \in SUBSET S  OBVIOUS
<1> QED BY <1>1 DEF Undoes

(* Two such functions, and the set on which they agree.                    *)
UndoAlike(g, h, u, o, table, S, U) ==
  /\ Undoes(g, u, o, table, S) /\ Undoes(h, u, o, table, U)
  /\ U \subseteq Nat /\ U \subseteq S /\ IsFiniteSet(U)

LEMMA UndoersAgree ==
  ASSUME NEW u, NEW o, NEW table, NEW S, NEW U, NEW g, NEW h, UndoAlike(g, h, u, o, table, S, U)
  PROVE  g[U] = h[U]
<1>0. /\ Undoes(g, u, o, table, S) /\ Undoes(h, u, o, table, U) /\ U \subseteq Nat /\ U \subseteq S
      /\ IsFiniteSet(U)
  BY DEF UndoAlike
<1> DEFINE Bad == {v \in SUBSET U : g[v] # h[v]}
<1>1. SUFFICES ASSUME g[U] # h[U] PROVE FALSE  OBVIOUS
<1>2. U \in Bad  BY <1>1
<1>3. PICK v \in Bad : \A w \in Bad : w \subseteq v => w = v
  <2>1. Bad \subseteq SUBSET U /\ Bad # {}  BY <1>2
  <2> HIDE DEF Bad
  <2>2. IsFiniteSet(U)  BY <1>0
  <2> QED BY ONLY <2>1, <2>2, SmallestSet
<1>4. v \subseteq S /\ v \subseteq U /\ g[v] # h[v] /\ v \in SUBSET Nat  BY <1>0, <1>3
<1> HIDE DEF Bad
<1>5. v # {}
  <2> SUFFICES ASSUME v = {} PROVE FALSE  OBVIOUS
  <2>1. g[v] = o
    <3>1. Undoes(g, u, o, table, S) /\ v \subseteq S /\ v = {}  BY <1>0, <1>4
    <3> QED BY ONLY <3>1, UndoerValue
  <2>2. h[v] = o
    <3>1. Undoes(h, u, o, table, U) /\ v \subseteq U /\ v = {}  BY <1>0, <1>4
    <3> QED BY ONLY <3>1, UndoerValue
  <2> QED BY <1>4, <2>1, <2>2
<1>6. Min(v) \in v  BY <1>4, <1>5, LeastNatural
<1>7. g[v \ {Min(v)}] = h[v \ {Min(v)}]
  <2>1. v \ {Min(v)} \subseteq v /\ v \ {Min(v)} # v  BY <1>6
  <2>2. v \ {Min(v)} \notin Bad  BY <2>1, <1>3
  <2> QED BY <2>2, <2>1, <1>4 DEF Bad
<1>8. g[v] = Undone(u[Min(v)], g[v \ {Min(v)}], table)
  <2>1. Undoes(g, u, o, table, S) /\ v \subseteq S /\ v # {}  BY <1>0, <1>4, <1>5
  <2> QED BY ONLY <2>1, UndoerValue
<1>9. h[v] = Undone(u[Min(v)], h[v \ {Min(v)}], table)
  <2>1. Undoes(h, u, o, table, U) /\ v \subseteq U /\ v # {}  BY <1>0, <1>4, <1>5
  <2> QED BY ONLY <2>1, UndoerValue
<1> QED BY <1>4, <1>7, <1>8, <1>9

LEMMA UndoerUndoes ==
  ASSUME NEW u, NEW o, NEW table, NEW S, S \subseteq Nat, IsFiniteSet(S)
  PROVE  Undoes(Undoer(u, o, table, S), u, o, table, S)
<1> DEFINE Is(g, T) == Undoes(g, u, o, table, T)
           F(T) == Undoer(u, o, table, T)
           Bad == {v \in SUBSET S : ~ Is(F(v), v)}
<1>0. ASSUME NEW T, NEW g, Is(g, T) PROVE Is(F(T), T)  BY <1>0 DEF Undoer
<1>1. SUFFICES ASSUME S \in Bad PROVE FALSE  OBVIOUS
<1>3. PICK w \in Bad : \A v \in Bad : v \subseteq w => v = w
  <2>1. Bad \subseteq SUBSET S /\ Bad # {}  BY <1>1
  <2> HIDE DEF Bad
  <2>2. IsFiniteSet(S)  OBVIOUS
  <2> QED BY ONLY <2>1, <2>2, SmallestSet
<1>4. w \subseteq S /\ ~ Is(F(w), w)  BY <1>3
<1> HIDE DEF Bad
<1>5. ASSUME NEW v, v \subseteq w, v # w PROVE Is(F(v), v) /\ IsFiniteSet(v) /\ v \in SUBSET Nat
  <2>1. v \in SUBSET S  BY <1>4, <1>5
  <2>2. IsFiniteSet(v)  BY <2>1, FS_Subset
  <2> QED BY <1>3, <1>5, <2>1, <2>2 DEF Bad
<1>55. ASSUME NEW v, NEW x, v \subseteq w, v # w, x \subseteq v PROVE F(v)[x] = F(x)[x]
  <2>1. x \subseteq w /\ x # w  BY <1>55
  <2>2. Is(F(v), v) /\ Is(F(x), x) /\ IsFiniteSet(x) /\ x \subseteq Nat  BY <1>5, <1>55, <2>1
  <2> HIDE DEF F
  <2>3. UndoAlike(F(v), F(x), u, o, table, v, x)  BY <1>55, <2>2 DEF UndoAlike
  <2> QED BY ONLY <2>3, UndoersAgree
<1> DEFINE all(v) == F(v)[v]
           g == [s \in SUBSET w |-> IF s = {} THEN o ELSE Undone(u[Min(s)], all(s \ {Min(s)}), table)]
<1>50. ASSUME NEW s \in SUBSET w, s # {} PROVE Min(s) \in s
  <2>1. s \in SUBSET Nat  BY <1>4
  <2> QED BY <2>1, <1>50, LeastNatural
<1>6. ASSUME NEW s \in SUBSET w, s # {}
      PROVE  g[s \ {Min(s)}] = all(s \ {Min(s)})
  <2> DEFINE v == s \ {Min(s)}
  <2>1. v \subseteq w /\ v # w  BY <1>6, <1>50
  <2>2. Is(F(v), v) /\ IsFiniteSet(v)  BY <2>1, <1>5
  <2> HIDE DEF v, Is, F
  <2>3. CASE v = {}
    <3>1. g[v] = o  BY <2>1, <2>3
    <3>2. all(v) = o  BY <2>2, <2>3, UndoerValue DEF Is
    <3> QED BY <3>1, <3>2 DEF v
  <2>4. CASE v # {}
    <3> DEFINE x == v \ {Min(v)}
    <3>1. g[v] = Undone(u[Min(v)], all(x), table)  BY <2>1, <2>4
    <3>2. all(v) = Undone(u[Min(v)], F(v)[x], table)
      BY <2>2, <2>4, UndoerValue DEF Is
    <3>3. x \subseteq v /\ x \subseteq w /\ x # w  BY <2>1, <2>4, <1>50
    <3>4. Is(F(x), x) /\ IsFiniteSet(x) /\ x \in SUBSET Nat  BY <3>3, <1>5
    <3>5. F(v)[x] = F(x)[x]
      <4> HIDE DEF x
      <4> QED BY <2>1, <3>3, <1>55
    <3> QED BY <3>1, <3>2, <3>5 DEF v
  <2> QED BY <2>3, <2>4
<1>7. Is(g, w)
  <2> DEFINE h == [s \in SUBSET w |-> IF s = {} THEN o ELSE Undone(u[Min(s)], g[s \ {Min(s)}], table)]
  <2>1. ASSUME NEW s \in SUBSET w PROVE g[s] = h[s]
    <3>1. CASE s = {}  BY <3>1
    <3>2. CASE s # {}
      <4>1. g[s] = Undone(u[Min(s)], all(s \ {Min(s)}), table)  BY <3>2
      <4>2. g[s \ {Min(s)}] = all(s \ {Min(s)})  BY <3>2, <1>6
      <4> HIDE DEF all, g
      <4>3. h[s] = Undone(u[Min(s)], g[s \ {Min(s)}], table)  BY <3>2
      <4> QED BY <4>1, <4>2, <4>3
    <3> QED BY <3>1, <3>2
  <2>2. g = h
    <3>2. g = [s \in SUBSET w |-> g[s]]  OBVIOUS
    <3>3. h = [s \in SUBSET w |-> h[s]]  OBVIOUS
    <3> HIDE DEF g, h
    <3> QED BY <3>2, <3>3, <2>1
  <2> HIDE DEF g
  <2> QED BY <2>2 DEF h, Undoes
<1> HIDE DEF g, Is, F
<1> QED BY <1>0, <1>4, <1>7

(* What is in order is about one link, whatever part of it is looked at.   *)
LEMMA OrderIsOfOneLink ==
  ASSUME NEW u \in Seq(UndoActions), InOrder(u), NEW A, A \subseteq Range(u)
  PROVE  OneLink(A)
<1>1. \A x \in A : \E i \in DOMAIN u : x = u[i]  BY DEF Range
<1>2. A \subseteq UndoActions  BY <1>1
<1>3. \A x, y \in A : x.kind = "alias" /\ OfTunnel(y) => x.index = y.index
  <2> TAKE x, y \in A
  <2>1. PICK i \in DOMAIN u, j \in DOMAIN u : x = u[i] /\ y = u[j]  BY <1>1
  <2> QED BY <2>1 DEF InOrder
<1>4. \A x \in A : x.kind = "link" => x.value = "down"  BY <1>1 DEF InOrder
<1> QED BY <1>2, <1>3, <1>4 DEF OneLink

(* The next process can give the kernel back: undone from its last action  *)
(* to its first, a journal leaves nothing.                                 *)
LEMMA JournalUndoes ==
  ASSUME NEW o \in Systems, NEW u \in Seq(UndoActions), NEW table, InOrder(u), UndoneBy(o, table, Range(u)),
         \A a \in Range(u) : ~Unverifiable(a, o)
  PROVE  Clean(Undoer(u, o, table, DOMAIN u)[DOMAIN u])
<1> DEFINE D == DOMAIN u
           g == Undoer(u, o, table, D)
           Left(s) == {u[i] : i \in D \ s}
           Upper(s) == s \in SUBSET D /\ \A i \in s, j \in D : i <= j => j \in s
           Good(s) == Less(g[s], o) /\ UndoneBy(g[s], table, Left(s))
           Bad == {s \in SUBSET D : Upper(s) /\ ~Good(s)}
<1>1. D \in SUBSET Nat /\ IsFiniteSet(D)
  <2>1. D = 1..Len(u) /\ Len(u) \in Nat  OBVIOUS
  <2> QED BY <2>1, FS_Interval
<1>2. Undoes(g, u, o, table, D)  BY <1>1, UndoerUndoes
<1>3. \A i \in D : u[i] \in Range(u)  BY DEF Range
<1> HIDE DEF g, D
<1>4. Upper(D)  OBVIOUS
<1>5. Good(D)
  <2> SUFFICES ASSUME ~Good(D) PROVE FALSE  OBVIOUS
  <2>1. Bad \subseteq SUBSET D /\ D \in Bad  BY <1>4
  <2>2. PICK s \in Bad : \A v \in Bad : v \subseteq s => v = s
    <3> HIDE DEF Bad
    <3>1. IsFiniteSet(D) /\ Bad # {}  BY <1>1, <2>1
    <3> QED BY ONLY <2>1, <3>1, SmallestSet
  <2>3. s \subseteq D /\ Upper(s) /\ ~Good(s)  BY <2>2
  <2>4. s # {}
    <3> SUFFICES ASSUME s = {} PROVE FALSE  OBVIOUS
    <3>1. g[s] = o  BY <1>2, <2>3, UndoerValue
    <3>2. Left(s) = Range(u)  BY DEF Range, D
    <3>3. Less(o, o)  BY DEF Less
    <3> QED BY <2>3, <3>1, <3>2, <3>3
  <2> DEFINE m == Min(s)
             v == s \ {m}
             p == g[v]
             A == Left(v)
             a == u[m]
  <2>5. m \in s /\ \A i \in s : m <= i
    <3>1. s \in SUBSET Nat  BY <1>1, <2>3
    <3> QED BY <2>4, <3>1, LeastNatural
  <2>6. g[s] = Undone(a, p, table)  BY <1>2, <2>3, <2>4, UndoerValue
  <2>7. Upper(v)
    <3>1. ASSUME NEW i \in v, NEW j \in D, i <= j PROVE j \in v
      <4>1. j \in s  BY <2>3, <3>1
      <4>2. m <= i /\ m # i  BY <2>5, <3>1
      <4>3. i \in Nat /\ j \in Nat /\ m \in Nat  BY <1>1, <2>3, <2>5, <3>1
      <4>4. j # m  BY <3>1, <4>2, <4>3
      <4> QED BY <4>1, <4>4
    <3> QED BY <2>3, <3>1
  <2> HIDE DEF m
  <2>8. Good(v)
    <3>1. v \subseteq s /\ v # s /\ v \in SUBSET D  BY <2>3, <2>5
    <3>2. v \notin Bad  BY <2>2, <3>1
    <3> QED BY <2>7, <3>1, <3>2
  <2>9. Less(p, o) /\ p \in Systems /\ UndoneBy(p, table, A)  BY <2>8 DEF Less
  <2>10. a \in A /\ A \subseteq Range(u) /\ m \in D  BY <1>3, <2>3, <2>5
  <2>11. OneLink(A)  BY <2>10, OrderIsOfOneLink
  <2>12. ~Unverifiable(a, p)
    <3>1. a \in Range(u)  BY <2>10
    <3>2. p.phys = o.phys /\ p.tun.index = o.tun.index  BY <2>9 DEF Less
    <3> QED BY <3>1, <3>2 DEF Unverifiable, link_by_index
  <2>13. a.kind = "alias" => \A x \in A : OfTunnel(x) => x = a
    <3> SUFFICES ASSUME a.kind = "alias", NEW i \in D \ v, OfTunnel(u[i]) PROVE u[i] = a  OBVIOUS
    <3>1. m <= i  BY <2>10 DEF InOrder, D
    <3>2. i \in s  BY <2>3, <2>5, <3>1
    <3> QED BY <3>2
  <2>14. Left(s) = A \ {a}
    <3>1. \A i \in D : u[i] = u[m] => i = m  BY <2>10 DEF InOrder, D
    <3> QED BY <2>5, <3>1
  <2> HIDE DEF p, A, a, v, Left
  <2>15. Less(g[s], p) /\ UndoneBy(g[s], table, Left(s))  BY <2>6, <2>9, <2>10, <2>11, <2>12, <2>13, <2>14, UndoFrees
  <2>16. Less(g[s], o)
    <3>1. p.tun \in TunLinks /\ g[s].tun \in TunLinks  BY <2>9, <2>15 DEF Less, Systems
    <3>2. g[s].tun.alias = o.tun.alias \/ g[s].tun = NewTun(g[s].tun.index)
      BY <2>9, <2>15, <3>1, BareLink DEF Less
    <3> QED BY <2>9, <2>15, <3>2 DEF Less
  <2> QED BY <2>3, <2>15, <2>16
<1>6. Left(D) = {}  OBVIOUS
<1>7. UndoneBy(g[D], table, {})  BY <1>5, <1>6
<1>8. Clean(g[D])  BY <1>7 DEF UndoneBy, Clean
<1> QED BY <1>8 DEF g, D
----------------------------------------------------------------------------
(* The places of a process: in the middle of up, and in it with the alias  *)
(* of the link set.                                                        *)
AfterAlias == {"link", "interface", "start", "address", "low", "high", "dns-route", "dns", "endpoints", "guard"}
Setting == {"up", "alias"} \cup AfterAlias
Preparing == {"prepare", "escape", "add"}
NetPlaces == {"off", "loop", "dial", "connected", "device", "cleanup", "table", "remove"} \cup Preparing \cup Setting
Procs == [pc : NetPlaces, then : {"off", "dial", "device", "up"}, half : BOOLEAN,
          mode : {"none", "stale", "final", "all"}, dial : Endpoints \cup {None}, escape : UndoActions \cup {None},
          next : Leases \cup {NoLease}, lease : Leases \cup {NoLease}, started : BOOLEAN, endpoints : SUBSET Endpoints]

(* The process is in up, or in a cleanup that is a part of it.             *)
Rising(p) == p.pc \in Setting \/ p.mode \in {"stale", "final"}

(* What the place of the process p says of the kernel and of the journal.  *)
PlaceOK(p, o, s) ==
  /\ p \in Procs
  /\ IF p.pc = "cleanup" THEN p.mode # "none" ELSE p.mode = IF p.pc \in {"table", "remove"} THEN "all" ELSE "none"
  /\ p.lease # NoLease => o.tun.index # None
  /\ p.pc \in Preparing \cup {"dial", "device"} \/ Rising(p) => p.dial \in Endpoints
  /\ p.pc \in Preparing => /\ p.then # "off"
                           /\ p.then # "dial" => p.next # NoLease
                           /\ p.then = "up" => o.tun.index # None
  /\ p.pc = "device" => p.next # NoLease
  /\ Rising(p) => p.next # NoLease /\ o.tun.index # None
  /\ p.pc \in {"escape", "add"} \/ Rising(p) => o.guards # {}
  /\ p.pc = "add" => /\ p.escape \in Range(s.undo) /\ p.escape.kind = "escape" /\ p.escape.value = p.dial
                     /\ p.escape.index = o.phys.index /\ p.escape.mac = o.phys.mac
  /\ p.pc = "alias" => \/ o.tun.alias = s.table
                       \/ ~p.half /\ \A a \in Range(s.undo) : ~OfTunnel(a)
                       \/ p.half /\ \E a \in Range(s.undo) : a.kind = "alias" /\ a.index = o.tun.index
  /\ p.pc \in AfterAlias => o.tun.alias = s.table
  /\ p.pc \in {"interface", "start"} => \E a \in Range(s.undo) : a.kind = "link"
  /\ p.pc = "table" => s.undo = <<>>
  /\ p.pc = "remove" => o.guards = {} /\ Clean(o)

(* Between undo and forget, the change has gone and its action is listed.  *)
HalfUndone ==
  c.pc = "cleanup" /\ c.half =>
    Pending # {} /\ UndoneBy(os, mem.table, Range(mem.undo) \ {mem.undo[LastWanted]})

NetworkInv ==
  /\ SystemOK(os) /\ Keeps(os, saved)
  /\ c.pc = "off" => c = Off /\ mem = Empty
  /\ c.pc # "off" => /\ Keeps(os, mem) /\ PlaceOK(c, os, mem) /\ HalfUndone
                     /\ c.mode # "all" => mem = saved

----------------------------------------------------------------------------
(* What is safe about a state that satisfies the invariant.                *)
LEMMA SafeFromInv == ASSUME NetworkInv PROVE NetworkIsSafe
<1>1. /\ os \in Systems /\ JournalOK(saved) /\ saved.undo \in Seq(UndoActions) /\ InOrder(saved.undo)
      /\ UndoneBy(os, saved.table, Range(saved.undo))
  BY DEF NetworkInv, SystemOK, Keeps, JournalOK, Journals
<1>2. NetworkTypes
  <2>1. mem = Empty \/ validate_state(mem)  BY DEF NetworkInv, Keeps, JournalOK
  <2>2. os.tun.index \in (Indexes \ {os.phys.index}) \cup {None}  BY <1>1, NetworkConstants DEF NetworkInv, SystemOK, Systems, TunLinks
  <2> QED BY <1>1, <2>1, <2>2 DEF NetworkTypes, Systems
<1>3. (\E a \in Range(saved.undo) : Unverifiable(a, os)) \/ Clean(Restored)
  BY <1>1, JournalUndoes, RestoredIsUndoer
<1>4. saved = Empty \/ validate_state(saved)  BY <1>1 DEF JournalOK
<1>5. \A i, j \in DOMAIN saved.undo : saved.undo[i] = saved.undo[j] => i = j  BY <1>1 DEF InOrder
<1>6. JournalRestores  BY <1>2, <1>3, <1>4, <1>5 DEF JournalRestores, NetworkInv, Keeps
<1>7. GuardCovers  BY DEF GuardCovers, NetworkInv, SystemOK, Keeps
<1> QED BY <1>6, <1>7 DEF NetworkIsSafe

(* The journal that is no file, and one that is.                           *)
LEMMA EmptyJournal ==
  /\ Empty \in Journals /\ Empty.table = None /\ Empty.interface = None /\ Empty.endpoints = {} /\ Empty.undo = <<>>
  /\ JournalOK(Empty) /\ Range(Empty.undo) = {}
BY DEF Empty, Journals, JournalOK, InOrder, Range

LEMMA JournalOrEmpty ==
  ASSUME NEW s, JournalOK(s)
  PROVE  s.table = None <=> s = Empty
BY NetworkConstants, EmptyJournal DEF JournalOK, validate_state

LEMMA OffFields ==
  /\ Off \in Procs /\ Off.pc = "off" /\ Off.then = "off" /\ Off.half = FALSE /\ Off.mode = "none" /\ Off.dial = None
  /\ Off.escape = None /\ Off.next = NoLease /\ Off.lease = NoLease /\ Off.started = FALSE /\ Off.endpoints = {}
BY DEF Off, Procs, NetPlaces

LEMMA DownFields ==
  /\ Down \in Procs /\ Down.pc = "cleanup" /\ Down.half = FALSE /\ Down.mode = "all" /\ Down.lease = NoLease
BY OffFields DEF Down, Procs, NetPlaces

LEMMA DownIsInPlace ==
  ASSUME NEW o, NEW s
  PROVE  PlaceOK(Down, o, s)
BY DownFields DEF PlaceOK, Rising, Preparing, Setting, AfterAlias

(* The kernel takes the link away when the process ends.                   *)
LEMMA ClosedIsKept ==
  ASSUME NEW o, SystemOK(o), NEW s, Keeps(o, s)
  PROVE  SystemOK(Closed(o)) /\ Keeps(Closed(o), s)
<1>1. CASE o.persistent  BY <1>1 DEF Closed
<1>2. CASE ~o.persistent
  <2> DEFINE p == Closed(o)
  <2>1. p = [o EXCEPT !.tun = NoTun] /\ o \in Systems  BY <1>2 DEF Closed, SystemOK
  <2>2. /\ NoTun \in TunLinks /\ NoTun.index = None /\ NoTun = NewTun(NoTun.index) /\ NoTun.link = "down"
        /\ NoTun.addresses = {} /\ NoTun.routes = {} /\ NoTun.dns = None
    BY DEF NoTun, NewTun, TunLinks
  <2>3. /\ p \in Systems /\ p.tun = NoTun /\ p.phys = o.phys /\ p.escapes = o.escapes /\ p.guards = o.guards
        /\ p.persistent = o.persistent
    BY <2>1, <2>2 DEF Systems
  <2> HIDE DEF p
  <2>4. p.phys.index \in Indexes  BY <2>3 DEF Systems, Links
  <2>5. Clean(o) => Clean(p)  BY <2>2, <2>3 DEF Clean
  <2>6. SystemOK(p)  BY <1>2, <2>2, <2>3, <2>4, <2>5, NetworkConstants DEF SystemOK
  <2>7. UndoneBy(p, s.table, Range(s.undo))  BY <2>2, <2>3 DEF Keeps, UndoneBy
  <2>8. Keeps(p, s)  BY <2>3, <2>7 DEF Keeps
  <2> QED BY <2>6, <2>8 DEF p
<1> QED BY <1>1, <1>2

(* Wherever the process ends, and whichever call fails.                    *)
LEMMA EndKeeps ==
  ASSUME NEW o, SystemOK(o), Keeps(o, saved'), End(o)
  PROVE  NetworkInv'
<1>1. c' = Off /\ mem' = Empty /\ os' = Closed(o)  BY DEF End
<1>2. SystemOK(os') /\ Keeps(os', saved')  BY <1>1, ClosedIsKept
<1> QED BY <1>1, <1>2, OffFields DEF NetworkInv

LEMMA FailsKeeps ==
  ASSUME NEW o, NEW s, SystemOK(o), Keeps(o, saved'), Keeps(o, s), Fails(s, o)
  PROVE  NetworkInv'
<1>1. CASE End(o)  BY <1>1, EndKeeps
<1>2. CASE c' = Down /\ mem' = s /\ os' = o
  <2>1. PlaceOK(c', os', mem')  BY <1>2, DownIsInPlace
  <2> QED BY <1>2, <2>1, DownFields DEF NetworkInv, HalfUndone
<1> QED BY <1>1, <1>2 DEF Fails

LEMMA PersistKeeps ==
  ASSUME NetworkInv, c.pc # "off", NEW new, NEW back, NEW next, persist(new, back, next), Keeps(os, new), Keeps(os, back),
         next.pc # "off", PlaceOK(next, os, new), ~(next.pc = "cleanup" /\ next.half)
  PROVE  NetworkInv'
<1>1. SystemOK(os) /\ Keeps(os, saved)  BY DEF NetworkInv
<1>2. CASE mem' = new /\ saved' = new /\ c' = next /\ UNCHANGED os
  BY <1>1, <1>2 DEF NetworkInv, HalfUndone
<1>3. CASE \E file \in {saved, new} : saved' = file /\ Fails(back, os)
  <2>1. Keeps(os, saved') /\ Fails(back, os)  BY <1>1, <1>3
  <2> QED BY <1>1, <2>1, FailsKeeps
<1> QED BY <1>2, <1>3 DEF persist

LEMMA InvokeKeeps ==
  ASSUME NetworkInv, c.pc # "off", NEW new, NEW next, invoke(new, next), SystemOK(new), Keeps(new, saved), Keeps(new, mem),
         next.pc # "off", PlaceOK(next, new, mem), next.mode # "all" => mem = saved,
         os' = new /\ c' = next /\ mem' = mem => HalfUndone'
  PROVE  NetworkInv'
<1>1. SystemOK(os) /\ Keeps(os, saved) /\ Keeps(os, mem)  BY DEF NetworkInv
<1>2. CASE os' = new /\ c' = next /\ UNCHANGED <<saved, mem>>
  <2>1. mem' = mem /\ saved' = saved  BY <1>2
  <2> QED BY <1>2, <2>1 DEF NetworkInv
<1>3. CASE \E o \in {os, new} : Fails(mem, o) /\ UNCHANGED saved
  <2>1. PICK o \in {os, new} : Fails(mem, o) /\ saved' = saved  BY <1>3
  <2>2. SystemOK(o) /\ Keeps(o, saved') /\ Keeps(o, mem)  BY <1>1, <2>1
  <2> QED BY <2>1, <2>2, FailsKeeps
<1> QED BY <1>2, <1>3 DEF invoke

(* A failure that changes nothing, and a step that only moves the process. *)
LEMMA FailureKeeps ==
  ASSUME NetworkInv, c.pc # "off", Fails(mem, os), UNCHANGED saved
  PROVE  NetworkInv'
<1>1. SystemOK(os) /\ Keeps(os, saved') /\ Keeps(os, mem)  BY DEF NetworkInv
<1> QED BY <1>1, FailsKeeps

LEMMA MoveKeeps ==
  ASSUME NetworkInv, c.pc # "off", NEW next, c' = next, UNCHANGED <<os, saved, mem>>, next.pc # "off", PlaceOK(next, os, mem),
         next.mode # "all" => mem = saved, ~(next.pc = "cleanup" /\ next.half)
  PROVE  NetworkInv'
<1>1. os' = os /\ saved' = saved /\ mem' = mem  OBVIOUS
<1> QED BY <1>1 DEF NetworkInv, HalfUndone
----------------------------------------------------------------------------
LEMMA GotoFields ==
  ASSUME c \in Procs, NEW x \in NetPlaces
  PROVE  /\ Goto(x) \in Procs /\ Goto(x).pc = x /\ Goto(x).then = c.then /\ Goto(x).half = FALSE
         /\ Goto(x).mode = c.mode /\ Goto(x).dial = c.dial /\ Goto(x).escape = c.escape /\ Goto(x).next = c.next
         /\ Goto(x).lease = c.lease /\ Goto(x).started = c.started /\ Goto(x).endpoints = c.endpoints
BY DEF Goto, Procs

LEMMA HalfFields ==
  ASSUME c \in Procs
  PROVE  /\ Half \in Procs /\ Half.pc = c.pc /\ Half.then = c.then /\ Half.half = TRUE
         /\ Half.mode = c.mode /\ Half.dial = c.dial /\ Half.escape = c.escape /\ Half.next = c.next
         /\ Half.lease = c.lease /\ Half.started = c.started /\ Half.endpoints = c.endpoints
BY DEF Half, Procs

LEMMA LoopFields ==
  ASSUME c \in Procs
  PROVE  /\ Loop \in Procs /\ Loop.pc = "loop" /\ Loop.mode = "none" /\ Loop.lease = c.lease /\ Loop.half = FALSE
         /\ Loop.started = c.started /\ Loop.endpoints = c.endpoints
BY OffFields DEF Loop, Procs, NetPlaces

LEMMA AfterIs ==
  /\ After("alias") = "link" /\ After("link") = "interface" /\ After("interface") = "start" /\ After("start") = "address"
  /\ After("address") = "low" /\ After("low") = "high" /\ After("high") = "dns-route" /\ After("dns-route") = "dns"
  /\ After("dns") = "endpoints" /\ After("endpoints") = "guard"
<1>1. /\ DOMAIN Order = 1..11 /\ Order[1] = "alias" /\ Order[2] = "link" /\ Order[3] = "interface" /\ Order[4] = "start"
      /\ Order[5] = "address" /\ Order[6] = "low" /\ Order[7] = "high" /\ Order[8] = "dns-route" /\ Order[9] = "dns"
      /\ Order[10] = "endpoints" /\ Order[11] = "guard"
  BY DEF Order
<1>2. \A i, j \in DOMAIN Order : Order[i] = Order[j] => i = j  BY <1>1
<1>3. ASSUME NEW i \in 1..10 PROVE After(Order[i]) = Order[1 + i]
  <2>1. i \in DOMAIN Order  BY <1>1
  <2>2. (CHOOSE j \in DOMAIN Order : Order[j] = Order[i]) = i  BY <1>2, <2>1
  <2> QED BY <2>2 DEF After
<1>4. /\ After(Order[1]) = Order[2] /\ After(Order[2]) = Order[3] /\ After(Order[3]) = Order[4]
      /\ After(Order[4]) = Order[5] /\ After(Order[5]) = Order[6] /\ After(Order[6]) = Order[7]
      /\ After(Order[7]) = Order[8] /\ After(Order[8]) = Order[9] /\ After(Order[9]) = Order[10]
      /\ After(Order[10]) = Order[11]
  BY <1>3
<1> QED BY <1>1, <1>4

(* Where the process is, in the words of the proofs.                       *)
LEMMA Alive ==
  ASSUME NetworkInv, c.pc # "off"
  PROVE  /\ SystemOK(os) /\ os \in Systems /\ os.tun \in TunLinks /\ os.phys \in Links /\ Keeps(os, saved) /\ Keeps(os, mem)
         /\ PlaceOK(c, os, mem) /\ c \in Procs /\ JournalOK(mem) /\ mem \in Journals /\ mem.undo \in Seq(UndoActions)
         /\ InOrder(mem.undo) /\ UndoneBy(os, mem.table, Range(mem.undo)) /\ Range(mem.undo) \subseteq UndoActions
         /\ (c.mode # "all" => mem = saved) /\ HalfUndone
<1>1. /\ SystemOK(os) /\ Keeps(os, saved) /\ Keeps(os, mem) /\ PlaceOK(c, os, mem) /\ (c.mode # "all" => mem = saved)
      /\ HalfUndone
  BY DEF NetworkInv
<1>2. os \in Systems /\ os.tun \in TunLinks /\ os.phys \in Links /\ c \in Procs  BY <1>1 DEF SystemOK, Systems, PlaceOK
<1>3. JournalOK(mem) /\ mem \in Journals /\ InOrder(mem.undo) /\ UndoneBy(os, mem.table, Range(mem.undo))
  BY <1>1 DEF Keeps, JournalOK
<1>4. mem.undo \in Seq(UndoActions)  BY <1>3 DEF Journals
<1>5. Range(mem.undo) \subseteq UndoActions  BY <1>4 DEF Range
<1> QED BY <1>1, <1>2, <1>3, <1>4, <1>5

(* In the middle of up the guard is there, and the journal says so.        *)
LEMMA Guarded ==
  ASSUME NetworkInv, c.pc # "off", os.guards # {}
  PROVE  mem.table \in Tables /\ mem.table # None /\ mem.endpoints # {} /\ validate_state(mem) /\ mem # Empty
<1>1. Keeps(os, mem) /\ os \in Systems /\ JournalOK(mem)  BY Alive
<1>2. PICK g \in os.guards : g \in Guards  BY <1>1 DEF Systems
<1>3. g.table \in Tables /\ g.table = mem.table /\ mem.endpoints # {}  BY <1>1, <1>2 DEF Guards, Keeps
<1>4. mem.table # None  BY <1>3, NetworkConstants
<1> QED BY <1>1, <1>3, <1>4, EmptyJournal DEF JournalOK

LEMMA MoreIsUndone ==
  ASSUME NEW o, NEW table, NEW A, NEW B, A \subseteq B, UndoneBy(o, table, A)
  PROVE  UndoneBy(o, table, B)
BY DEF UndoneBy

(* record, of an action that is not listed and whose link has its alias.   *)
Appended(a) == [mem EXCEPT !.undo = Append(@, a)]

LEMMA RecordKeeps ==
  ASSUME NetworkInv, c.pc # "off", os.guards # {}, NEW a \in UndoActions, validate_action(a), a \notin Range(mem.undo),
         a.kind = "alias" => \A x \in Range(mem.undo) : ~OfTunnel(x),
         OfTunnel(a) /\ a.kind # "alias" => os.tun.alias = mem.table /\ a.index = os.tun.index,
         a.kind = "link" => a.value = "down",
         NEW next, record(a, next), next.pc # "off", ~(next.pc = "cleanup" /\ next.half),
         Appended(a).table = mem.table /\ Range(Appended(a).undo) = Range(mem.undo) \cup {a} => PlaceOK(next, os, Appended(a))
  PROVE  NetworkInv'
<1> DEFINE u == mem.undo
           new == Appended(a)
<1>1. /\ Keeps(os, mem) /\ mem \in Journals /\ u \in Seq(UndoActions) /\ InOrder(u) /\ UndoneBy(os, mem.table, Range(u))
      /\ os.tun \in TunLinks
  BY Alive
<1>2. mem.table \in Tables /\ mem.table # None /\ mem.endpoints # {} /\ validate_state(mem)  BY Guarded
<1>3. CASE Len(u) >= MaxActions  BY <1>3, FailureKeeps DEF record
<1>4. CASE ~(Len(u) >= MaxActions)
  <2>1. persist(new, mem, next)  BY <1>4 DEF record, Appended
  <2>2. /\ new \in Journals /\ new.undo = Append(u, a) /\ new.table = mem.table /\ new.endpoints = mem.endpoints
        /\ new.interface = mem.interface
    <3>1. Append(u, a) \in Seq(UndoActions)  BY <1>1
    <3>2. new = [mem EXCEPT !.undo = Append(u, a)]  BY DEF Appended
    <3> HIDE DEF new, u
    <3> QED BY <1>1, <3>1, <3>2 DEF Journals
  <2>3. InOrder(Append(u, a)) /\ Range(Append(u, a)) = Range(u) \cup {a}
    <3>1. \A i \in DOMAIN u : u[i] \in Range(u)  BY DEF Range
    <3>2. a.kind = "alias" => \A i \in DOMAIN u : ~OfTunnel(u[i])  BY <3>1
    <3>3. OfTunnel(a) /\ a.kind # "alias" => \E i \in DOMAIN u : u[i].kind = "alias" /\ u[i].index = a.index
      <4> SUFFICES ASSUME OfTunnel(a), a.kind # "alias" PROVE \E i \in DOMAIN u : u[i].kind = "alias" /\ u[i].index = a.index
        OBVIOUS
      <4>1. os.tun # NewTun(os.tun.index)  BY <1>1, <1>2, BareLink
      <4>2. PICK b \in Range(u) : b.kind = "alias" /\ b.index = os.tun.index  BY <1>1, <4>1 DEF UndoneBy
      <4> QED BY <4>2 DEF Range
    <3>4. a \notin Range(u)  OBVIOUS
    <3> HIDE DEF u
    <3> QED BY <1>1, <3>2, <3>3, <3>4, AppendKeepsOrder
  <2>4. validate_state(new)
    <3>1. Len(u) \in Nat /\ Len(Append(u, a)) = Len(u) + 1 /\ DOMAIN Append(u, a) = 1..(Len(u) + 1) /\ DOMAIN u = 1..Len(u)
          /\ \A i \in 1..Len(u) : Append(u, a)[i] = u[i] /\ Append(u, a)[Len(u) + 1] = a
      BY <1>1
    <3>2. Len(Append(u, a)) <= MaxActions  BY <1>4, <3>1, NetworkConstants
    <3>3. \A i \in DOMAIN Append(u, a) : validate_action(Append(u, a)[i])
      <4> TAKE i \in DOMAIN Append(u, a)
      <4>1. CASE i \in 1..Len(u)  BY <1>2, <3>1, <4>1 DEF validate_state
      <4>2. CASE i = Len(u) + 1
        <5>1. Append(u, a)[i] = a  BY <1>1, <4>2
        <5> QED BY <5>1
      <4> QED BY <3>1, <4>1, <4>2
    <3> QED BY <1>2, <2>2, <3>2, <3>3 DEF validate_state
  <2>5. UndoneBy(os, new.table, Range(new.undo))  BY <1>1, <2>2, <2>3, MoreIsUndone
  <2>6. Keeps(os, new)  BY <1>1, <2>2, <2>3, <2>4, <2>5 DEF Keeps, JournalOK
  <2>7. PlaceOK(next, os, new)  BY <2>2, <2>3
  <2> HIDE DEF new
  <2> QED BY <1>1, <2>1, <2>6, <2>7, PersistKeeps
<1> QED BY <1>3, <1>4
----------------------------------------------------------------------------
(* prepare.                                                                *)
LEMMA PreflightKeeps == ASSUME NetworkInv, preflight PROVE NetworkInv'
<1>1. c.pc = "prepare" /\ c.pc # "off"  BY DEF preflight
<1>2. PlaceOK(c, os, mem) /\ c \in Procs /\ (c.mode # "all" => mem = saved)  BY <1>1, Alive
<1>3. CASE c' = Half /\ UNCHANGED <<os, saved, mem>>
  <2>1. PlaceOK(Half, os, mem)  BY <1>1, <1>2, HalfFields DEF PlaceOK, Rising, Preparing, Setting, AfterAlias
  <2> QED BY <1>1, <1>2, <1>3, <2>1, HalfFields, MoveKeeps
<1>4. CASE Fails(mem, os) /\ UNCHANGED saved  BY <1>1, <1>4, FailureKeeps
<1> QED BY <1>3, <1>4 DEF preflight

LEMMA InitializeKeeps == ASSUME NetworkInv, initialize_state PROVE NetworkInv'
<1>1. c.pc = "prepare" /\ c.pc # "off" /\ mem.table = None  BY DEF initialize_state
<1>2. /\ PlaceOK(c, os, mem) /\ c \in Procs /\ mem = saved /\ Keeps(os, mem) /\ JournalOK(mem) /\ os \in Systems
      /\ os.tun \in TunLinks
  BY <1>1, Alive DEF PlaceOK
<1>3. mem = Empty  BY <1>1, <1>2, JournalOrEmpty
<1>4. UndoneBy(os, None, {}) /\ Keeps(os, Empty)  BY <1>2, <1>3, EmptyJournal DEF Keeps
<1>5. os.tun = NewTun(os.tun.index) /\ os.escapes = {}  BY <1>4 DEF UndoneBy
<1>6. os.guards = {}
  <2>1. \A g \in os.guards : g.table = None /\ g.table \in Tables  BY <1>2, <1>3, EmptyJournal DEF Keeps, Systems, Guards
  <2> QED BY <2>1, NetworkConstants
<1>7. os.tun.alias = None /\ os.tun.routes = {}  BY <1>2, <1>5, BareLink
<1> DEFINE t == FreshTable
           new == [Empty EXCEPT !.table = t]
<1>8. t \in Tables
  <2>1. TablesInUse = {None}  BY <1>2, <1>3, <1>5, <1>6, <1>7, EmptyJournal DEF TablesInUse
  <2>2. \E x \in Tables : x \notin TablesInUse  BY <2>1, NetworkConstants
  <2> QED BY <2>2 DEF FreshTable
<1>9. persist(new, Empty, c)  BY DEF initialize_state
<1> HIDE DEF t
<1>10. /\ new \in Journals /\ new.table = t /\ new.interface = None /\ new.endpoints = {} /\ new.undo = <<>>
       /\ Range(new.undo) = {}
  BY <1>8, EmptyJournal DEF Journals, Empty, Range
<1>11. validate_state(new)
  <2>1. Cardinality({}) = 0  BY FS_EmptySet
  <2>2. Len(<<>>) = 0 /\ DOMAIN <<>> = {}  OBVIOUS
  <2>3. 0 <= MaxEndpoints /\ 0 <= MaxActions  BY NetworkConstants
  <2> HIDE DEF new
  <2> QED BY <1>8, <1>10, <2>1, <2>2, <2>3 DEF validate_state
<1>12. Keeps(os, new)
  <2>1. UndoneBy(os, t, {})  BY <1>4, <1>5, <1>7 DEF UndoneBy
  <2>2. InOrder(new.undo)  BY <1>10 DEF InOrder
  <2> QED BY <1>6, <1>10, <1>11, <2>1, <2>2 DEF Keeps, JournalOK
<1>13. PlaceOK(c, os, new)  BY <1>1, <1>2 DEF PlaceOK, Rising, Preparing, Setting, AfterAlias
<1> HIDE DEF new
<1> QED BY <1>1, <1>4, <1>9, <1>12, <1>13, PersistKeeps

(* A journal that names other endpoints or another link is the same one.   *)
LEMMA SameActions ==
  ASSUME NEW o, NEW s, Keeps(o, s), validate_state(s), NEW new \in Journals, new.table = s.table, new.undo = s.undo,
         Cardinality(new.endpoints) <= MaxEndpoints, s.endpoints # {} => new.endpoints # {}
  PROVE  Keeps(o, new)
<1>1. s \in Journals /\ InOrder(s.undo)  BY DEF Keeps, JournalOK
<1>2. validate_state(new)  BY DEF validate_state, Journals
<1> QED BY <1>1, <1>2 DEF Keeps, JournalOK

LEMMA AdmitKeeps == ASSUME NetworkInv, admit PROVE NetworkInv'
<1>1. c.pc = "prepare" /\ c.pc # "off" /\ mem.table # None /\ c.dial \notin mem.endpoints  BY DEF admit
<1>2. PlaceOK(c, os, mem) /\ c \in Procs /\ Keeps(os, mem) /\ JournalOK(mem) /\ mem \in Journals  BY <1>1, Alive
<1>3. CASE Cardinality(mem.endpoints) >= MaxEndpoints  BY <1>1, <1>3, FailureKeeps DEF admit
<1>4. CASE ~(Cardinality(mem.endpoints) >= MaxEndpoints)
  <2> DEFINE E == mem.endpoints \cup {c.dial}
             new == [mem EXCEPT !.endpoints = E]
  <2>1. validate_state(mem) /\ mem.interface \in Indexes \cup {None} /\ mem.endpoints \subseteq Endpoints
    BY <1>1, <1>2, EmptyJournal DEF JournalOK, validate_state
  <2>2. c.dial \in Endpoints  BY <1>1, <1>2 DEF PlaceOK, Preparing
  <2>3. IsFiniteSet(mem.endpoints)  BY <2>1, NetworkConstants, FS_Subset
  <2>4. Cardinality(E) = Cardinality(mem.endpoints) + 1 /\ Cardinality(mem.endpoints) \in Nat
    BY <1>1, <2>3, FS_AddElement, FS_CardinalityType
  <2>5. Cardinality(E) <= MaxEndpoints  BY <1>4, <2>4, NetworkConstants
  <2>6. persist(new, mem, c)  BY <1>4 DEF admit
  <2>7. E \subseteq Endpoints /\ E # {}  BY <2>1, <2>2
  <2> HIDE DEF E
  <2>8. new \in Journals /\ new.table = mem.table /\ new.undo = mem.undo /\ new.endpoints = E  BY <1>2, <2>7 DEF Journals
  <2> HIDE DEF new
  <2>9. Keeps(os, new)  BY <1>2, <2>1, <2>5, <2>7, <2>8, SameActions
  <2>10. PlaceOK(c, os, new)  BY <1>1, <1>2 DEF PlaceOK, Rising, Preparing, Setting, AfterAlias
  <2> QED BY <1>1, <1>2, <2>6, <2>9, <2>10, PersistKeeps
<1> QED BY <1>3, <1>4

(* protect: the guard of the journal is the one guard.                     *)
LEMMA ProtectedIsKept ==
  ASSUME NetworkInv, c.pc # "off", mem.table # None, mem.endpoints # {}
  PROVE  LET p == Protected(os)
         IN  /\ SystemOK(p) /\ Keeps(p, mem) /\ p.guards # {} /\ p.tun = os.tun /\ p.phys = os.phys
<1> DEFINE p == Protected(os)
<1>1. SystemOK(os) /\ os \in Systems /\ Keeps(os, mem) /\ JournalOK(mem) /\ mem \in Journals  BY Alive
<1>2. mem.table \in Tables /\ mem.interface \in Indexes \cup {None} /\ mem.endpoints \in SUBSET Endpoints
  BY <1>1 DEF Journals
<1>3. PICK link \in Indexes \cup {None} :
        p = [os EXCEPT !.guards = {g \in @ : g.table # mem.table}
                                    \cup {[table |-> mem.table, tun |-> link, endpoints |-> mem.endpoints]}]
  BY <1>2 DEF Protected
<1> DEFINE guard == [table |-> mem.table, tun |-> link, endpoints |-> mem.endpoints]
<1>4. guard \in Guards /\ guard.table = mem.table  BY <1>2 DEF Guards
<1>5. {g \in os.guards : g.table # mem.table} = {}  BY <1>1 DEF Keeps
<1>6. p = [os EXCEPT !.guards = {guard}]  BY <1>1, <1>3, <1>5 DEF Systems
<1> HIDE DEF guard, p
<1>7. /\ p \in Systems /\ p.tun = os.tun /\ p.phys = os.phys /\ p.escapes = os.escapes /\ p.guards = {guard}
      /\ p.persistent = os.persistent
  BY <1>1, <1>4, <1>6 DEF Systems
<1>8. SystemOK(p)  BY <1>1, <1>7 DEF SystemOK
<1>9. UndoneBy(p, mem.table, Range(mem.undo))  BY <1>1, <1>7 DEF Keeps, UndoneBy
<1>10. Keeps(p, mem)  BY <1>1, <1>4, <1>7, <1>9 DEF Keeps
<1> QED BY <1>7, <1>8, <1>10 DEF p

LEMMA ProtectKeeps == ASSUME NetworkInv, protect PROVE NetworkInv'
<1>1. /\ c.pc = "prepare" /\ c.pc # "off" /\ mem.table # None /\ mem.endpoints # {}
      /\ invoke(Protected(os), Goto("escape"))
  BY DEF protect
<1>2. PlaceOK(c, os, mem) /\ c \in Procs /\ mem = saved /\ c.mode = "none"  BY <1>1, Alive DEF PlaceOK
<1>3. /\ SystemOK(Protected(os)) /\ Keeps(Protected(os), mem) /\ Protected(os).guards # {}
      /\ Protected(os).tun = os.tun /\ Protected(os).phys = os.phys
  BY <1>1, ProtectedIsKept
<1> DEFINE next == Goto("escape")
<1>4. /\ next \in Procs /\ next.pc = "escape" /\ next.then = c.then /\ next.mode = c.mode /\ next.dial = c.dial
      /\ next.next = c.next /\ next.lease = c.lease
  BY <1>2, GotoFields DEF NetPlaces, Preparing
<1> HIDE DEF next
<1>5. PlaceOK(next, Protected(os), mem)
  BY <1>1, <1>2, <1>3, <1>4 DEF PlaceOK, Rising, Preparing, Setting, AfterAlias
<1>6. invoke(Protected(os), next)  BY <1>1 DEF next
<1>7. c' = next => HalfUndone'  BY <1>4 DEF HalfUndone
<1> QED BY <1>1, <1>2, <1>3, <1>4, <1>5, <1>6, <1>7, InvokeKeeps
----------------------------------------------------------------------------
LEMMA EnsureEscapeKeeps == ASSUME NetworkInv, ensure_escape PROVE NetworkInv'
<1>1. c.pc = "escape" /\ c.pc # "off"  BY DEF ensure_escape
<1>2. /\ PlaceOK(c, os, mem) /\ c \in Procs /\ mem = saved /\ c.mode = "none" /\ os.phys \in Links
      /\ os.guards # {} /\ c.dial \in Endpoints /\ c.then \in {"dial", "device", "up"}
  BY <1>1, Alive DEF PlaceOK, Preparing, Procs
<1>3. CASE Fails(mem, os) /\ UNCHANGED saved  BY <1>1, <1>3, FailureKeeps
<1>4. CASE c' = Goto(c.then) /\ UNCHANGED <<os, saved, mem>>
  <2>1. c.then \in NetPlaces  BY <1>2 DEF NetPlaces, Setting
  <2>2. PlaceOK(Goto(c.then), os, mem)
    BY <1>1, <1>2, <2>1, GotoFields DEF PlaceOK, Rising, Preparing, Setting, AfterAlias
  <2> QED BY <1>1, <1>2, <1>4, <2>1, <2>2, GotoFields, MoveKeeps
<1>5. CASE LET a == escape_action(c.dial)
               next == [Goto("add") EXCEPT !.escape = a]
           IN IF Recorded(a) THEN c' = next /\ UNCHANGED <<os, saved, mem>> ELSE record(a, next)
  <2> DEFINE a == escape_action(c.dial)
             next == [Goto("add") EXCEPT !.escape = a]
  <2>1. /\ a \in UndoActions /\ a.kind = "escape" /\ a.value = c.dial /\ a.index = os.phys.index /\ a.mac = os.phys.mac
        /\ a.index \in Indexes
    BY <1>2 DEF escape_action, UndoActions, Kinds, ActionValues, Links
  <2> HIDE DEF a
  <2>2. Goto("add") \in Procs /\ "add" \in NetPlaces  BY <1>2, GotoFields DEF NetPlaces, Preparing
  <2>3. /\ next \in Procs /\ next.pc = "add" /\ next.then = c.then /\ next.mode = c.mode /\ next.dial = c.dial
        /\ next.next = c.next /\ next.lease = c.lease /\ next.escape = a
    BY <1>2, <2>1, <2>2, GotoFields DEF Procs
  <2> HIDE DEF next
  <2>4. ASSUME NEW s, s.table = mem.table, a \in Range(s.undo) PROVE PlaceOK(next, os, s)
    BY <1>1, <1>2, <2>1, <2>3, <2>4 DEF PlaceOK, Rising, Preparing, Setting, AfterAlias
  <2>5. CASE Recorded(a) /\ c' = next /\ UNCHANGED <<os, saved, mem>>
    <3>1. PlaceOK(next, os, mem)  BY <2>4, <2>5 DEF Recorded
    <3> QED BY <1>1, <1>2, <2>3, <2>5, <3>1, MoveKeeps
  <2>6. CASE ~Recorded(a) /\ record(a, next)
    <3>1. a \notin Range(mem.undo)  BY <2>6 DEF Recorded
    <3>2. validate_action(a)  BY <1>2, <2>1, NetworkConstants DEF validate_action
    <3>3. Appended(a).table = mem.table /\ Range(Appended(a).undo) = Range(mem.undo) \cup {a} => PlaceOK(next, os, Appended(a))
      BY <2>4
    <3> QED BY <1>1, <1>2, <2>1, <2>3, <2>6, <3>1, <3>2, <3>3, RecordKeeps DEF OfTunnel
  <2> QED BY <1>5, <2>5, <2>6 DEF a, next
<1> QED BY <1>3, <1>4, <1>5 DEF ensure_escape

LEMMA AddEscapeKeeps == ASSUME NetworkInv, add_escape PROVE NetworkInv'
<1>1. c.pc = "add" /\ c.pc # "off"  BY DEF add_escape
<1>2. /\ PlaceOK(c, os, mem) /\ c \in Procs /\ mem = saved /\ c.mode = "none" /\ os \in Systems /\ SystemOK(os) /\ Keeps(os, mem)
      /\ os.guards # {} /\ c.dial \in Endpoints /\ c.then \in {"dial", "device", "up"}
      /\ c.escape \in Range(mem.undo) /\ c.escape.kind = "escape" /\ c.escape.value = c.dial
      /\ c.escape.index = os.phys.index /\ c.escape.mac = os.phys.mac
  BY <1>1, Alive DEF PlaceOK, Preparing, Procs
<1>3. CASE Fails(mem, os) /\ UNCHANGED saved  BY <1>1, <1>3, FailureKeeps
<1>4. CASE invoke([os EXCEPT !.escapes = @ \cup {owned_route(c.dial, mem.table)}], [Goto(c.then) EXCEPT !.escape = None])
  <2> DEFINE r == <<c.dial, mem.table>>
             new == [os EXCEPT !.escapes = @ \cup {r}]
             next == [Goto(c.then) EXCEPT !.escape = None]
  <2>1. mem.table \in Tables  BY <1>1, <1>2, Guarded
  <2>2. r \in Endpoints \X Tables /\ r[1] = c.dial /\ r[2] = mem.table  BY <1>2, <2>1
  <2> HIDE DEF r
  <2>3. /\ new \in Systems /\ new.tun = os.tun /\ new.phys = os.phys /\ new.guards = os.guards
        /\ new.escapes = os.escapes \cup {r} /\ new.persistent = os.persistent
    BY <1>2, <2>2 DEF Systems
  <2>4. Goto(c.then) \in Procs /\ c.then \in NetPlaces  BY <1>2, GotoFields DEF NetPlaces, Setting
  <2>5. /\ next \in Procs /\ next.pc = c.then /\ next.mode = c.mode /\ next.dial = c.dial
        /\ next.next = c.next /\ next.lease = c.lease /\ next.half = FALSE
    BY <1>2, <2>4, GotoFields DEF Procs
  <2>6. invoke(new, next)  BY <1>4 DEF r, owned_route
  <2> HIDE DEF new, next
  <2>7. SystemOK(new)  BY <1>2, <2>3 DEF SystemOK
  <2>8. UndoneBy(new, mem.table, Range(mem.undo))
    <3>1. UndoneBy(os, mem.table, Range(mem.undo))  BY <1>2 DEF Keeps
    <3>2. \A q \in new.escapes :
            /\ q[2] = mem.table
            /\ \E a \in Range(mem.undo) : /\ a.kind = "escape" /\ a.value = q[1] /\ a.index = new.phys.index
                                          /\ a.mac # None => a.mac = new.phys.mac
      BY <1>2, <2>2, <2>3, <3>1 DEF UndoneBy
    <3> QED BY <2>3, <3>1, <3>2 DEF UndoneBy
  <2>9. Keeps(new, mem)  BY <1>2, <2>3, <2>8 DEF Keeps
  <2>10. PlaceOK(next, new, mem)  BY <1>1, <1>2, <2>3, <2>5 DEF PlaceOK, Rising, Preparing, Setting, AfterAlias
  <2>11. c' = next => HalfUndone'  BY <2>5 DEF HalfUndone
  <2> QED BY <1>1, <1>2, <2>5, <2>6, <2>7, <2>9, <2>10, <2>11, InvokeKeeps
<1> QED BY <1>3, <1>4 DEF add_escape
----------------------------------------------------------------------------
(* up: the guard is there, and the link that the lease is for.             *)
LEMMA Configuring ==
  ASSUME NetworkInv, c.pc \in Setting
  PROVE  /\ c.pc # "off" /\ c.mode = "none" /\ mem = saved /\ PlaceOK(c, os, mem) /\ c \in Procs /\ c.dial \in Endpoints
         /\ c.next \in Leases /\ c.next.address \in LeaseAddresses /\ c.next.dns \in LeaseServers
         /\ os.tun.index \in Indexes /\ os.guards # {} /\ mem.table \in Tables /\ mem.table # None
         /\ mem.endpoints # {} /\ validate_state(mem) /\ mem.endpoints \subseteq Endpoints
<1>1. c.pc # "off" /\ c.pc \notin {"cleanup", "table", "remove"}  BY DEF Setting, AfterAlias
<1>2. /\ c.mode = "none" /\ mem = saved /\ PlaceOK(c, os, mem) /\ c \in Procs /\ os.guards # {} /\ os.tun.index # None
      /\ c.next # NoLease /\ os.tun \in TunLinks /\ c.dial \in Endpoints
  BY <1>1, Alive DEF PlaceOK, Rising
<1>3. c.next \in Leases /\ os.tun.index \in Indexes  BY <1>2 DEF Procs, TunLinks
<1>4. c.next.address \in LeaseAddresses /\ c.next.dns \in LeaseServers  BY <1>3 DEF LeaseAddresses, LeaseServers
<1>5. /\ mem.table \in Tables /\ mem.table # None /\ mem.endpoints # {} /\ validate_state(mem)  BY <1>1, <1>2, Guarded
<1>6. mem.endpoints \subseteq Endpoints  BY <1>5 DEF validate_state
<1> QED BY <1>1, <1>2, <1>3, <1>4, <1>5, <1>6

LEMMA DoneIsInPlace ==
  ASSUME NetworkInv, c.pc \in Setting \ {"up", "guard"}, NEW o, NEW s, o.tun.index = os.tun.index, o.guards # {},
         o.tun.alias = s.table, c.pc \in {"link", "interface"} => \E a \in Range(s.undo) : a.kind = "link"
  PROVE  PlaceOK(Done, o, s) /\ Done.pc # "off" /\ Done.pc # "cleanup" /\ Done.mode = "none"
<1>1. /\ c \in Procs /\ PlaceOK(c, os, mem) /\ c.mode = "none" /\ c.dial \in Endpoints /\ c.next \in Leases
      /\ os.tun.index # None /\ c.next # NoLease
  BY Configuring, NetworkConstants DEF NoLease
<1>2. /\ After(c.pc) \in AfterAlias
      /\ After(c.pc) \in {"interface", "start"} => c.pc \in {"link", "interface"}
  BY AfterIs DEF Setting, AfterAlias
<1>3. After(c.pc) \in NetPlaces  BY <1>2 DEF NetPlaces, Setting
<1>4. /\ Done \in Procs /\ Done.pc = After(c.pc) /\ Done.mode = "none" /\ Done.dial = c.dial /\ Done.next = c.next
      /\ Done.lease = c.lease
  BY <1>1, <1>3, GotoFields DEF Done
<1>5. Done.pc \notin {"off", "cleanup", "table", "remove", "device", "dial", "alias"} \cup Preparing /\ Done.pc \in Setting
  BY <1>2, <1>4 DEF AfterAlias, Preparing, Setting
<1>6. PlaceOK(Done, o, s)  BY <1>1, <1>2, <1>4, <1>5 DEF PlaceOK, Rising, Preparing
<1> QED BY <1>4, <1>5, <1>6

LEMMA MoreIsInPlace ==
  ASSUME PlaceOK(c, os, mem), c.pc \in AfterAlias, NEW s, s.table = mem.table, Range(mem.undo) \subseteq Range(s.undo)
  PROVE  PlaceOK(c, os, s)
BY DEF PlaceOK, AfterAlias

LEMMA DoneKeeps ==
  ASSUME NetworkInv, c.pc \in Setting \ {"up", "guard"}, os.tun.alias = mem.table, c' = Done, UNCHANGED <<os, saved, mem>>,
         c.pc \in {"link", "interface"} => \E a \in Range(mem.undo) : a.kind = "link"
  PROVE  NetworkInv'
<1>1. c.pc # "off" /\ mem = saved /\ os.guards # {}  BY Configuring
<1>2. PlaceOK(Done, os, mem) /\ Done.pc # "off" /\ Done.pc # "cleanup"  BY <1>1, DoneIsInPlace
<1> QED BY <1>1, <1>2, MoveKeeps

(* A change of the link that the journal can undo.                         *)
LEMMA ChangeKeeps ==
  ASSUME NetworkInv, c.pc \in Setting \ {"up", "guard"}, NEW new \in Systems, new.phys = os.phys, new.escapes = os.escapes,
         new.guards = os.guards, new.persistent = os.persistent, new.tun.index = os.tun.index, new.tun.alias = mem.table,
         UndoneBy(new, mem.table, Range(mem.undo)), c.pc \in {"link", "interface"} => FALSE, invoke(new, Done)
  PROVE  NetworkInv'
<1>1. c.pc # "off" /\ mem = saved /\ os.guards # {}  BY Configuring
<1>2. SystemOK(os) /\ Keeps(os, mem)  BY <1>1, Alive
<1>3. SystemOK(new)  BY <1>1, <1>2 DEF SystemOK
<1>4. Keeps(new, mem)  BY <1>2 DEF Keeps
<1>5. PlaceOK(Done, new, mem) /\ Done.pc # "off" /\ Done.pc # "cleanup"  BY <1>1, DoneIsInPlace
<1>6. c' = Done => HalfUndone'  BY <1>5 DEF HalfUndone
<1> QED BY <1>1, <1>3, <1>4, <1>5, <1>6, InvokeKeeps

LEMMA LinkActionFields ==
  ASSUME os.tun.index \in Indexes, NEW kind \in Kinds \ {"escape"}, NEW value \in ActionValues
  PROVE  /\ link_action(kind, value) \in UndoActions /\ link_action(kind, value).kind = kind
         /\ link_action(kind, value).value = value /\ link_action(kind, value).index = os.tun.index
         /\ OfTunnel(link_action(kind, value)) /\ link_action(kind, value).index # None
BY NetworkConstants DEF link_action, UndoActions, OfTunnel

(* While the link has the alias of the journal, the journal knows it.      *)
LEMMA AliasIsListed ==
  ASSUME NetworkInv, c.pc \in Setting, os.tun.alias = mem.table
  PROVE  /\ os.tun # NewTun(os.tun.index) /\ mem.table # None
         /\ \E a \in Range(mem.undo) : a.kind = "alias" /\ a.index = os.tun.index
<1>1. mem.table # None /\ c.pc # "off"  BY Configuring
<1>2. os.tun \in TunLinks /\ UndoneBy(os, mem.table, Range(mem.undo))  BY <1>1, Alive
<1>3. os.tun # NewTun(os.tun.index)  BY <1>1, <1>2, BareLink
<1> QED BY <1>1, <1>2, <1>3 DEF UndoneBy
----------------------------------------------------------------------------
LEMMA UpKeeps == ASSUME NetworkInv, up PROVE NetworkInv'
<1>1. c.pc = "up" /\ c.pc # "off" /\ UNCHANGED saved /\ c.pc \in Setting  BY DEF up, Setting
<1>2. /\ c.mode = "none" /\ mem = saved /\ PlaceOK(c, os, mem) /\ c \in Procs /\ c.dial \in Endpoints /\ c.next # NoLease
      /\ os.tun.index # None /\ os.guards # {} /\ mem.table # None
  BY <1>1, Configuring, NetworkConstants DEF NoLease
<1>3. mem.undo \in Seq(UndoActions) /\ InOrder(mem.undo)  BY <1>1, Alive
<1>4. CASE Fails(mem, os)  BY <1>1, <1>4, FailureKeeps
<1>5. CASE c' = [Goto("cleanup") EXCEPT !.mode = "stale"] /\ UNCHANGED <<os, mem>>
  <2> DEFINE next == [Goto("cleanup") EXCEPT !.mode = "stale"]
  <2>1. Goto("cleanup") \in Procs /\ "cleanup" \in NetPlaces  BY <1>2, GotoFields DEF NetPlaces
  <2>2. /\ next \in Procs /\ next.pc = "cleanup" /\ next.half = FALSE /\ next.mode = "stale" /\ next.dial = c.dial
        /\ next.next = c.next /\ next.lease = c.lease
    BY <1>2, <2>1, GotoFields DEF Procs
  <2> HIDE DEF next
  <2>3. PlaceOK(next, os, mem)  BY <1>1, <1>2, <2>2 DEF PlaceOK, Rising, Preparing, Setting, AfterAlias
  <2>4. c' = next  BY <1>5 DEF next
  <2> QED BY <1>1, <1>2, <1>5, <2>2, <2>3, <2>4, MoveKeeps
<1>6. CASE ~(PreviousIndex # None /\ ~TunIs(os, mem.table, PreviousIndex)) /\ c' = Goto("alias") /\ UNCHANGED <<os, mem>>
  <2>1. os.tun.alias = mem.table \/ \A a \in Range(mem.undo) : ~OfTunnel(a)
    <3>1. CASE TunIs(os, mem.table, PreviousIndex)  BY <3>1 DEF TunIs
    <3>2. CASE PreviousIndex = None
      <4> DEFINE marks == {i \in DOMAIN mem.undo : mem.undo[i].kind \in {"link", "alias"}}
                 first == CHOOSE i \in marks : \A j \in marks : i <= j
      <4>1. marks = {}
        <5> SUFFICES ASSUME marks # {} PROVE FALSE  OBVIOUS
        <5>1. mem.undo[first].index = None  BY <3>2 DEF PreviousIndex
        <5>2. marks \in SUBSET Nat  BY <1>3
        <5>3. first \in marks
          <6> HIDE DEF marks
          <6>1. \E i \in marks : \A j \in marks : i <= j  BY <5>2, LeastNatural
          <6> QED BY <6>1
        <5>4. mem.undo[first] \in UndoActions
          <6> HIDE DEF first
          <6>1. first \in DOMAIN mem.undo  BY <5>3
          <6> QED BY <1>3, <6>1
        <5> QED BY <5>1, <5>4, NetworkConstants DEF UndoActions
      <4>2. \A i \in DOMAIN mem.undo : mem.undo[i].kind # "alias"  BY <4>1
      <4>3. \A i \in DOMAIN mem.undo : ~OfTunnel(mem.undo[i])  BY <1>3, <4>2 DEF InOrder
      <4> QED BY <4>3 DEF Range
    <3> QED BY <1>6, <3>1, <3>2
  <2> DEFINE next == Goto("alias")
  <2>2. /\ next \in Procs /\ next.pc = "alias" /\ next.half = FALSE /\ next.mode = "none" /\ next.dial = c.dial
        /\ next.next = c.next /\ next.lease = c.lease
    BY <1>2, GotoFields DEF NetPlaces, Setting
  <2> HIDE DEF next
  <2>3. PlaceOK(next, os, mem)  BY <1>1, <1>2, <2>1, <2>2 DEF PlaceOK, Rising, Preparing, Setting, AfterAlias
  <2>4. c' = next  BY <1>6 DEF next
  <2> QED BY <1>1, <1>2, <1>6, <2>2, <2>3, <2>4, MoveKeeps
<1> QED BY <1>1, <1>4, <1>5, <1>6 DEF up

LEMMA SetAliasKeeps == ASSUME NetworkInv, set_alias PROVE NetworkInv'
<1>1. c.pc = "alias" /\ c.pc # "off" /\ c.pc \in Setting \ {"up", "guard"} /\ c.pc \in Setting  BY DEF set_alias, Setting, AfterAlias
<1>2. /\ c.mode = "none" /\ mem = saved /\ PlaceOK(c, os, mem) /\ c \in Procs /\ c.dial \in Endpoints /\ c.next # NoLease
      /\ os.tun.index \in Indexes /\ os.tun.index # None /\ os.guards # {} /\ mem.table \in Tables /\ mem.table # None
  BY <1>1, Configuring, NetworkConstants DEF NoLease
<1>3. os \in Systems /\ os.tun \in TunLinks /\ UndoneBy(os, mem.table, Range(mem.undo))  BY <1>1, Alive
<1>4. CASE os.tun.alias = mem.table /\ c' = Done /\ UNCHANGED <<os, saved, mem>>  BY <1>1, <1>4, DoneKeeps
<1>5. CASE Fails(mem, os) /\ UNCHANGED saved  BY <1>1, <1>5, FailureKeeps
<1>6. CASE os.tun.alias = None /\ c.half /\ invoke([os EXCEPT !.tun.alias = mem.table], Done)
  <2> DEFINE new == [os EXCEPT !.tun.alias = mem.table]
             t == [os.tun EXCEPT !.alias = mem.table]
  <2>1. os.tun = NewTun(os.tun.index)  BY <1>2, <1>3, <1>6 DEF UndoneBy
  <2>2. os.tun.link = "down" /\ os.tun.addresses = {} /\ os.tun.routes = {} /\ os.tun.dns = None  BY <1>3, <2>1, BareLink
  <2>3. /\ t \in TunLinks /\ t.alias = mem.table /\ t.link = "down" /\ t.addresses = {} /\ t.routes = {} /\ t.dns = None
        /\ t.index = os.tun.index
    BY <1>2, <1>3, <2>2 DEF TunLinks
  <2>4. new = [os EXCEPT !.tun = t]  BY <1>3 DEF Systems
  <2> HIDE DEF t
  <2>5. /\ new \in Systems /\ new.tun = t /\ new.phys = os.phys /\ new.escapes = os.escapes /\ new.guards = os.guards
        /\ new.persistent = os.persistent
    BY <1>3, <2>3, <2>4 DEF Systems
  <2>6. \E a \in Range(mem.undo) : a.kind = "alias" /\ a.index = os.tun.index  BY <1>1, <1>2, <1>6 DEF PlaceOK
  <2>7. invoke(new, Done)  BY <1>6
  <2> HIDE DEF new
  <2>8. UndoneBy(new, mem.table, Range(mem.undo))  BY <1>2, <1>3, <2>3, <2>5, <2>6 DEF UndoneBy
  <2> QED BY <1>1, <2>3, <2>5, <2>7, <2>8, ChangeKeeps
<1>7. CASE os.tun.alias = None /\ ~c.half /\ record(link_action("alias", "-"), Half)
  <2> DEFINE a == link_action("alias", "-")
  <2>1. /\ a \in UndoActions /\ a.kind = "alias" /\ a.value = "-" /\ a.index = os.tun.index /\ OfTunnel(a) /\ a.index # None
    BY <1>2, LinkActionFields DEF Kinds, ActionValues
  <2>2. record(a, Half)  BY <1>7
  <2> HIDE DEF a
  <2>3. \A x \in Range(mem.undo) : ~OfTunnel(x)  BY <1>1, <1>2, <1>7 DEF PlaceOK
  <2>4. a \notin Range(mem.undo)  BY <2>1, <2>3
  <2>5. validate_action(a)  BY <2>1 DEF validate_action
  <2>6. ASSUME NEW s, s.table = mem.table, a \in Range(s.undo) PROVE PlaceOK(Half, os, s)
    BY <1>1, <1>2, <2>1, <2>6, HalfFields DEF PlaceOK, Rising, Preparing, Setting, AfterAlias
  <2>7. Appended(a).table = mem.table /\ Range(Appended(a).undo) = Range(mem.undo) \cup {a} => PlaceOK(Half, os, Appended(a))
    BY <2>6
  <2> QED BY <1>1, <1>2, <2>1, <2>2, <2>3, <2>4, <2>5, <2>7, HalfFields, RecordKeeps
<1> QED BY <1>4, <1>5, <1>6, <1>7 DEF set_alias

LEMMA RecordLinkKeeps == ASSUME NetworkInv, record_link PROVE NetworkInv'
<1>1. c.pc = "link" /\ c.pc # "off" /\ c.pc \in Setting \ {"up", "guard"} /\ c.pc \in Setting  BY DEF record_link, Setting, AfterAlias
<1>2. /\ mem = saved /\ PlaceOK(c, os, mem) /\ os.tun.index \in Indexes /\ os.guards # {}  BY <1>1, Configuring
<1>3. os \in Systems /\ os.tun \in TunLinks /\ UndoneBy(os, mem.table, Range(mem.undo))  BY <1>1, Alive
<1>4. os.tun.alias = mem.table  BY <1>1, <1>2 DEF PlaceOK, AfterAlias
<1>5. has_action("link") <=> \E a \in Range(mem.undo) : a.kind = "link"  BY DEF has_action, Range
<1>6. CASE has_action("link") /\ c' = Done /\ UNCHANGED <<os, saved, mem>>  BY <1>1, <1>4, <1>5, <1>6, DoneKeeps
<1>7. CASE Fails(mem, os) /\ UNCHANGED saved  BY <1>1, <1>7, FailureKeeps
<1>8. CASE ~has_action("link") /\ record(link_action("link", os.tun.link), Done)
  <2> DEFINE a == link_action("link", os.tun.link)
  <2>1. os.tun.link = "down"  BY <1>3, <1>5, <1>8 DEF UndoneBy
  <2>2. /\ a \in UndoActions /\ a.kind = "link" /\ a.value = "down" /\ a.index = os.tun.index /\ OfTunnel(a) /\ a.index # None
    BY <1>2, <2>1, LinkActionFields DEF Kinds, ActionValues
  <2>3. record(a, Done)  BY <1>8
  <2> HIDE DEF a
  <2>4. a \notin Range(mem.undo)  BY <1>5, <1>8, <2>2
  <2>5. validate_action(a)  BY <2>2 DEF validate_action
  <2>6. ASSUME NEW s, s.table = mem.table, a \in Range(s.undo)
        PROVE  PlaceOK(Done, os, s) /\ Done.pc # "off" /\ Done.pc # "cleanup"
    BY <1>1, <1>2, <1>4, <2>2, <2>6, DoneIsInPlace
  <2>7. Appended(a).table = mem.table /\ Range(Appended(a).undo) = Range(mem.undo) \cup {a} => PlaceOK(Done, os, Appended(a))
    BY <2>6
  <2>8. Done.pc # "off" /\ Done.pc # "cleanup"
    <3>1. After("link") = "interface"  BY AfterIs
    <3>2. c \in Procs  BY <1>2 DEF PlaceOK
    <3> QED BY <1>1, <3>1, <3>2, GotoFields DEF Done, NetPlaces, Setting, AfterAlias
  <2> QED BY <1>1, <1>2, <1>4, <2>2, <2>3, <2>4, <2>5, <2>7, <2>8, RecordKeeps
<1> QED BY <1>6, <1>7, <1>8 DEF record_link

LEMMA RecordInterfaceKeeps == ASSUME NetworkInv, record_interface PROVE NetworkInv'
<1>1. c.pc = "interface" /\ c.pc # "off" /\ c.pc \in Setting \ {"up", "guard"} /\ c.pc \in Setting
  BY DEF record_interface, Setting, AfterAlias
<1>2. /\ mem = saved /\ PlaceOK(c, os, mem) /\ os.tun.index \in Indexes /\ os.guards # {} /\ validate_state(mem)
  BY <1>1, Configuring
<1>3. Keeps(os, mem) /\ mem \in Journals  BY <1>1, Alive
<1>4. os.tun.alias = mem.table /\ \E a \in Range(mem.undo) : a.kind = "link"  BY <1>1, <1>2 DEF PlaceOK, AfterAlias
<1>5. CASE c' = Done /\ UNCHANGED <<os, saved, mem>>  BY <1>1, <1>4, <1>5, DoneKeeps
<1>6. CASE LET new == [mem EXCEPT !.interface = os.tun.index] IN persist(new, new, Done)
  <2> DEFINE new == [mem EXCEPT !.interface = os.tun.index]
  <2>1. persist(new, new, Done)  BY <1>6
  <2>2. new \in Journals /\ new.table = mem.table /\ new.undo = mem.undo /\ new.endpoints = mem.endpoints
    BY <1>2, <1>3 DEF Journals
  <2> HIDE DEF new
  <2>3. Cardinality(new.endpoints) <= MaxEndpoints  BY <1>2, <2>2 DEF validate_state
  <2>4. Keeps(os, new)  BY <1>2, <1>3, <2>2, <2>3, SameActions
  <2>5. PlaceOK(Done, os, new) /\ Done.pc # "off" /\ Done.pc # "cleanup"  BY <1>1, <1>2, <1>4, <2>2, DoneIsInPlace
  <2> QED BY <1>1, <2>1, <2>4, <2>5, PersistKeeps
<1> QED BY <1>5, <1>6 DEF record_interface

LEMMA StartLinkKeeps == ASSUME NetworkInv, start_link PROVE NetworkInv'
<1>1. c.pc = "start" /\ c.pc # "off" /\ c.pc \in Setting \ {"up", "guard"} /\ c.pc \in Setting  BY DEF start_link, Setting, AfterAlias
<1>2. PlaceOK(c, os, mem)  BY <1>1, Configuring
<1>3. os \in Systems /\ os.tun \in TunLinks /\ UndoneBy(os, mem.table, Range(mem.undo))  BY <1>1, Alive
<1>4. os.tun.alias = mem.table /\ \E a \in Range(mem.undo) : a.kind = "link"  BY <1>1, <1>2 DEF PlaceOK, AfterAlias
<1>5. mem.table # None /\ \E a \in Range(mem.undo) : a.kind = "alias" /\ a.index = os.tun.index  BY <1>1, <1>4, AliasIsListed
<1> DEFINE new == [os EXCEPT !.tun.link = "up"]
           t == [os.tun EXCEPT !.link = "up"]
<1>6. /\ t \in TunLinks /\ t.alias = mem.table /\ t.addresses = os.tun.addresses /\ t.routes = os.tun.routes
      /\ t.dns = os.tun.dns /\ t.index = os.tun.index
  BY <1>3, <1>4 DEF TunLinks
<1>7. new = [os EXCEPT !.tun = t]  BY <1>3 DEF Systems
<1> HIDE DEF t
<1>8. /\ new \in Systems /\ new.tun = t /\ new.phys = os.phys /\ new.escapes = os.escapes /\ new.guards = os.guards
      /\ new.persistent = os.persistent
  BY <1>3, <1>6, <1>7 DEF Systems
<1>9. invoke(new, Done)  BY DEF start_link
<1> HIDE DEF new
<1>10. UndoneBy(new, mem.table, Range(mem.undo))  BY <1>3, <1>4, <1>5, <1>6, <1>8 DEF UndoneBy
<1> QED BY <1>1, <1>6, <1>8, <1>9, <1>10, ChangeKeeps

(* record, of an action about the link, in the middle of up.               *)
LEMMA RecordHere ==
  ASSUME NetworkInv, c.pc \in AfterAlias, NEW kind \in Kinds \ {"escape", "alias", "link"}, NEW value \in ActionValues,
         link_action(kind, value) \notin Range(mem.undo), validate_action(link_action(kind, value)),
         record(link_action(kind, value), c)
  PROVE  NetworkInv'
<1> DEFINE a == link_action(kind, value)
<1>1. c.pc \in Setting  BY DEF Setting
<1>2. PlaceOK(c, os, mem) /\ os.tun.index \in Indexes /\ os.guards # {} /\ c.pc # "off"  BY <1>1, Configuring
<1>3. os.tun.alias = mem.table  BY <1>2 DEF PlaceOK
<1>4. a \in UndoActions /\ a.kind = kind /\ a.index = os.tun.index /\ OfTunnel(a)  BY <1>2, LinkActionFields
<1>5. a \notin Range(mem.undo) /\ validate_action(a) /\ record(a, c)  OBVIOUS
<1> HIDE DEF a
<1>6. ASSUME NEW s, s.table = mem.table, Range(s.undo) = Range(mem.undo) \cup {a} PROVE PlaceOK(c, os, s)
  BY <1>2, <1>6, MoreIsInPlace
<1>7. Appended(a).table = mem.table /\ Range(Appended(a).undo) = Range(mem.undo) \cup {a} => PlaceOK(c, os, Appended(a))
  BY <1>6
<1>8. c.pc # "cleanup"  BY DEF AfterAlias
<1> QED BY <1>2, <1>3, <1>4, <1>5, <1>7, <1>8, RecordKeeps

LEMMA SetAddressKeeps == ASSUME NetworkInv, set_address PROVE NetworkInv'
<1>1. c.pc = "address" /\ c.pc # "off" /\ c.pc \in Setting \ {"up", "guard"} /\ c.pc \in Setting /\ c.pc \in AfterAlias
  BY DEF set_address, Setting, AfterAlias
<1> DEFINE x == c.next.address
           a == link_action("address", x)
<1>2. PlaceOK(c, os, mem) /\ x \in LeaseAddresses /\ os.tun.index \in Indexes  BY <1>1, Configuring
<1>3. os \in Systems /\ os.tun \in TunLinks /\ UndoneBy(os, mem.table, Range(mem.undo))  BY <1>1, Alive
<1>4. os.tun.alias = mem.table  BY <1>1, <1>2 DEF PlaceOK
<1>5. mem.table # None /\ \E b \in Range(mem.undo) : b.kind = "alias" /\ b.index = os.tun.index  BY <1>1, <1>4, AliasIsListed
<1>6. has_address(x) <=> \E b \in Range(mem.undo) : b.kind = "address" /\ b.value = x  BY DEF has_address, Range
<1>7. \/ ~has_address(x) /\ record(a, c)
      \/ c' = Done /\ UNCHANGED <<os, saved, mem>>
      \/ has_address(x) /\ invoke([os EXCEPT !.tun.addresses = @ \cup {x}], Done)
  BY DEF set_address
<1> HIDE DEF x
<1>8. CASE ~has_address(x) /\ record(a, c)
  <2>0. x \in ActionValues /\ "address" \in Kinds \ {"escape"}  BY <1>2 DEF Kinds, ActionValues
  <2>1. a.kind = "address" /\ a.value = x /\ a.index # None /\ x \in ActionValues  BY <1>2, <2>0, LinkActionFields
  <2>2. a \notin Range(mem.undo)  BY <1>6, <1>8, <2>1
  <2>3. validate_action(a)  BY <1>2, <2>1 DEF validate_action, LeaseAddresses
  <2> QED BY <1>1, <1>8, <2>1, <2>2, <2>3, RecordHere DEF Kinds
<1>9. CASE c' = Done /\ UNCHANGED <<os, saved, mem>>  BY <1>1, <1>4, <1>9, DoneKeeps
<1>10. CASE has_address(x) /\ invoke([os EXCEPT !.tun.addresses = @ \cup {x}], Done)
  <2> DEFINE new == [os EXCEPT !.tun.addresses = @ \cup {x}]
             t == [os.tun EXCEPT !.addresses = @ \cup {x}]
  <2>1. /\ t \in TunLinks /\ t.alias = mem.table /\ t.addresses = os.tun.addresses \cup {x} /\ t.routes = os.tun.routes
        /\ t.dns = os.tun.dns /\ t.index = os.tun.index /\ t.link = os.tun.link
    BY <1>2, <1>3, <1>4 DEF TunLinks
  <2>2. new = [os EXCEPT !.tun = t]  BY <1>3 DEF Systems
  <2> HIDE DEF t
  <2>3. /\ new \in Systems /\ new.tun = t /\ new.phys = os.phys /\ new.escapes = os.escapes /\ new.guards = os.guards
        /\ new.persistent = os.persistent
    BY <1>3, <2>1, <2>2 DEF Systems
  <2>4. invoke(new, Done)  BY <1>10
  <2> HIDE DEF new
  <2>5. UndoneBy(new, mem.table, Range(mem.undo))  BY <1>3, <1>4, <1>5, <1>6, <1>10, <2>1, <2>3 DEF UndoneBy
  <2> QED BY <1>1, <2>1, <2>3, <2>4, <2>5, ChangeKeeps
<1> QED BY <1>7, <1>8, <1>9, <1>10

LEMMA EnsureRouteKeeps == ASSUME NetworkInv, ensure_route PROVE NetworkInv'
<1>1. /\ c.pc \in {"low", "high", "dns-route"} /\ c.pc # "off" /\ c.pc \in Setting \ {"up", "guard"} /\ c.pc \in Setting
      /\ c.pc \in AfterAlias
  BY DEF ensure_route, Setting, AfterAlias
<1> DEFINE kind == IF c.pc = "dns-route" THEN "dns-route" ELSE "route"
           value == IF c.pc = "dns-route" THEN c.next.dns ELSE c.pc
           a == link_action(kind, value)
           r == <<value, mem.table>>
<1>2. PlaceOK(c, os, mem) /\ c.next.dns \in LeaseServers /\ os.tun.index \in Indexes /\ mem.table \in Tables  BY <1>1, Configuring
<1>3. os \in Systems /\ os.tun \in TunLinks /\ UndoneBy(os, mem.table, Range(mem.undo))  BY <1>1, Alive
<1>4. os.tun.alias = mem.table  BY <1>1, <1>2 DEF PlaceOK
<1>5. mem.table # None /\ \E b \in Range(mem.undo) : b.kind = "alias" /\ b.index = os.tun.index  BY <1>1, <1>4, AliasIsListed
<1>6. /\ kind \in {"route", "dns-route"} /\ kind \in Kinds \ {"escape"} /\ value \in RouteValues /\ value \in ActionValues
      /\ kind = "dns-route" => value \in LeaseServers
      /\ kind = "route" => value \in {"low", "high"}
  BY <1>1, <1>2 DEF RouteValues, ActionValues, Kinds
<1>7. a = IF c.pc = "dns-route" THEN link_action("dns-route", c.next.dns) ELSE link_action("route", c.pc)  OBVIOUS
<1>8. a.kind = kind /\ a.value = value /\ a.index # None  BY <1>2, <1>6, LinkActionFields
<1>9. \/ c' = Done /\ UNCHANGED <<os, saved, mem>>
      \/ Fails(mem, os) /\ UNCHANGED saved
      \/ ~Recorded(a) /\ record(a, c)
      \/ Recorded(a) /\ invoke([os EXCEPT !.tun.routes = @ \cup {r}], Done)
  <2> HIDE DEF a
  <2>1. owned_route(a.value, mem.table) = r  BY <1>8 DEF owned_route
  <2>2. LET there == {q \in os.tun.routes : q[1] = a.value}
        IN CASE there # {} -> IF Recorded(a) /\ there = {owned_route(a.value, mem.table)}
                                THEN c' = Done /\ UNCHANGED <<os, saved, mem>>
                                ELSE Fails(mem, os) /\ UNCHANGED saved
             [] there = {} /\ ~Recorded(a) -> record(a, c)
             [] OTHER -> invoke([os EXCEPT !.tun.routes = @ \cup {owned_route(a.value, mem.table)}], Done)
    BY <1>7 DEF ensure_route
  <2> QED BY <2>1, <2>2
<1> HIDE DEF kind, value
<1>10. CASE c' = Done /\ UNCHANGED <<os, saved, mem>>  BY <1>1, <1>4, <1>10, DoneKeeps
<1>11. CASE Fails(mem, os) /\ UNCHANGED saved  BY <1>1, <1>11, FailureKeeps
<1>12. CASE ~Recorded(a) /\ record(a, c)
  <2>1. a \notin Range(mem.undo)  BY <1>12 DEF Recorded
  <2>2. validate_action(a)  BY <1>6, <1>8 DEF validate_action, LeaseServers
  <2>3. kind \in Kinds \ {"escape", "alias", "link"}  BY <1>6
  <2> QED BY <1>1, <1>6, <1>12, <2>1, <2>2, <2>3, RecordHere
<1>13. CASE Recorded(a) /\ invoke([os EXCEPT !.tun.routes = @ \cup {r}], Done)
  <2> HIDE DEF a
  <2>1. r \in RouteValues \X Tables /\ r[1] = value /\ r[2] = mem.table  BY <1>2, <1>6
  <2> HIDE DEF r
  <2> DEFINE new == [os EXCEPT !.tun.routes = @ \cup {r}]
             t == [os.tun EXCEPT !.routes = @ \cup {r}]
  <2>2. /\ t \in TunLinks /\ t.alias = mem.table /\ t.routes = os.tun.routes \cup {r} /\ t.addresses = os.tun.addresses
        /\ t.dns = os.tun.dns /\ t.index = os.tun.index /\ t.link = os.tun.link
    BY <1>3, <1>4, <2>1 DEF TunLinks
  <2>3. new = [os EXCEPT !.tun = t]  BY <1>3 DEF Systems
  <2> HIDE DEF t
  <2>4. /\ new \in Systems /\ new.tun = t /\ new.phys = os.phys /\ new.escapes = os.escapes /\ new.guards = os.guards
        /\ new.persistent = os.persistent
    BY <1>3, <2>2, <2>3 DEF Systems
  <2>5. invoke(new, Done)  BY <1>13
  <2> HIDE DEF new
  <2>6. a \in Range(mem.undo)  BY <1>13 DEF Recorded
  <2>7. \A q \in new.tun.routes : q[2] = mem.table /\ \E b \in Range(mem.undo) : b.kind \in {"route", "dns-route"} /\ b.value = q[1]
    BY <1>3, <1>6, <1>8, <2>1, <2>2, <2>4, <2>6 DEF UndoneBy
  <2>8. UndoneBy(new, mem.table, Range(mem.undo))  BY <1>3, <1>4, <1>5, <2>2, <2>4, <2>7 DEF UndoneBy
  <2> QED BY <1>1, <2>2, <2>4, <2>5, <2>8, ChangeKeeps
<1> QED BY <1>9, <1>10, <1>11, <1>12, <1>13

LEMMA SetDnsKeeps == ASSUME NetworkInv, set_dns PROVE NetworkInv'
<1>1. c.pc = "dns" /\ c.pc # "off" /\ c.pc \in Setting \ {"up", "guard"} /\ c.pc \in Setting /\ c.pc \in AfterAlias
  BY DEF set_dns, Setting, AfterAlias
<1>2. PlaceOK(c, os, mem) /\ c.next.dns \in LeaseServers /\ os.tun.index \in Indexes  BY <1>1, Configuring
<1>3. os \in Systems /\ os.tun \in TunLinks /\ UndoneBy(os, mem.table, Range(mem.undo))  BY <1>1, Alive
<1>4. os.tun.alias = mem.table  BY <1>1, <1>2 DEF PlaceOK
<1>5. mem.table # None /\ \E b \in Range(mem.undo) : b.kind = "alias" /\ b.index = os.tun.index  BY <1>1, <1>4, AliasIsListed
<1>6. has_action("dns") <=> \E b \in Range(mem.undo) : b.kind = "dns"  BY DEF has_action, Range
<1>7. CASE Fails(mem, os) /\ UNCHANGED saved  BY <1>1, <1>7, FailureKeeps
<1>8. CASE ~has_action("dns") /\ record(link_action("dns", "-"), c)
  <2>1. /\ link_action("dns", "-").kind = "dns" /\ link_action("dns", "-").index # None /\ "-" \in ActionValues
        /\ "dns" \in Kinds \ {"escape", "alias", "link"}
    BY <1>2, LinkActionFields DEF Kinds, ActionValues
  <2>2. link_action("dns", "-") \notin Range(mem.undo)  BY <1>6, <1>8, <2>1
  <2>3. validate_action(link_action("dns", "-"))  BY <2>1 DEF validate_action
  <2> QED BY <1>1, <1>8, <2>1, <2>2, <2>3, RecordHere
<1>9. CASE has_action("dns") /\ invoke([os EXCEPT !.tun.dns = c.next.dns], Done)
  <2> DEFINE new == [os EXCEPT !.tun.dns = c.next.dns]
             t == [os.tun EXCEPT !.dns = c.next.dns]
  <2>1. /\ t \in TunLinks /\ t.alias = mem.table /\ t.routes = os.tun.routes /\ t.addresses = os.tun.addresses
        /\ t.index = os.tun.index /\ t.link = os.tun.link
    BY <1>2, <1>3, <1>4 DEF TunLinks
  <2>2. new = [os EXCEPT !.tun = t]  BY <1>3 DEF Systems
  <2> HIDE DEF t
  <2>3. /\ new \in Systems /\ new.tun = t /\ new.phys = os.phys /\ new.escapes = os.escapes /\ new.guards = os.guards
        /\ new.persistent = os.persistent
    BY <1>3, <2>1, <2>2 DEF Systems
  <2>4. invoke(new, Done)  BY <1>9
  <2> HIDE DEF new
  <2>5. UndoneBy(new, mem.table, Range(mem.undo))  BY <1>3, <1>4, <1>5, <1>6, <1>9, <2>1, <2>3 DEF UndoneBy
  <2> QED BY <1>1, <2>1, <2>3, <2>4, <2>5, ChangeKeeps
<1> QED BY <1>7, <1>8, <1>9 DEF set_dns

LEMMA KeepEndpointKeeps == ASSUME NetworkInv, keep_endpoint PROVE NetworkInv'
<1>1. c.pc = "endpoints" /\ c.pc # "off" /\ c.pc \in Setting \ {"up", "guard"} /\ c.pc \in Setting /\ c.pc \in AfterAlias
  BY DEF keep_endpoint, Setting, AfterAlias
<1>2. PlaceOK(c, os, mem) /\ c.dial \in Endpoints /\ os.guards # {} /\ validate_state(mem)  BY <1>1, Configuring
<1>3. Keeps(os, mem) /\ mem \in Journals /\ os.tun.alias = mem.table  BY <1>1, <1>2, Alive DEF PlaceOK
<1> DEFINE new == [mem EXCEPT !.endpoints = {c.dial}]
<1>4. persist(new, mem, Done)  BY DEF keep_endpoint
<1>5. new \in Journals /\ new.table = mem.table /\ new.undo = mem.undo /\ new.endpoints = {c.dial}  BY <1>2, <1>3 DEF Journals
<1> HIDE DEF new
<1>6. Cardinality(new.endpoints) <= MaxEndpoints
  <2>1. Cardinality({c.dial}) = 1  BY FS_Singleton
  <2> QED BY <1>5, <2>1, NetworkConstants
<1>7. Keeps(os, new)  BY <1>2, <1>3, <1>5, <1>6, SameActions
<1>8. PlaceOK(Done, os, new) /\ Done.pc # "off" /\ Done.pc # "cleanup"  BY <1>1, <1>2, <1>3, <1>5, DoneIsInPlace
<1> QED BY <1>1, <1>3, <1>4, <1>7, <1>8, PersistKeeps

LEMMA ProtectAgainKeeps == ASSUME NetworkInv, protect_again PROVE NetworkInv'
<1>1. c.pc = "guard" /\ c.pc # "off" /\ c.pc \in Setting  BY DEF protect_again, Setting, AfterAlias
<1>2. /\ c.mode = "none" /\ mem = saved /\ PlaceOK(c, os, mem) /\ c \in Procs /\ c.dial \in Endpoints /\ c.next # NoLease
      /\ os.tun.index # None /\ mem.table # None /\ mem.endpoints # {}
  BY <1>1, Configuring, NetworkConstants DEF NoLease
<1> DEFINE p == Protected(os)
           next == [Goto("cleanup") EXCEPT !.mode = "final"]
<1>3. SystemOK(p) /\ Keeps(p, mem) /\ p.guards # {} /\ p.tun = os.tun /\ p.phys = os.phys  BY <1>1, <1>2, ProtectedIsKept
<1>4. Goto("cleanup") \in Procs /\ "cleanup" \in NetPlaces  BY <1>2, GotoFields DEF NetPlaces
<1>5. /\ next \in Procs /\ next.pc = "cleanup" /\ next.half = FALSE /\ next.mode = "final" /\ next.dial = c.dial
      /\ next.next = c.next /\ next.lease = c.lease
  BY <1>2, <1>4, GotoFields DEF Procs
<1>6. invoke(p, next)  BY DEF protect_again
<1> HIDE DEF p, next
<1>7. PlaceOK(next, p, mem)  BY <1>1, <1>2, <1>3, <1>5 DEF PlaceOK, Rising, Preparing, Setting, AfterAlias
<1>8. c' = next => HalfUndone'  BY <1>5 DEF HalfUndone
<1> QED BY <1>1, <1>2, <1>3, <1>5, <1>6, <1>7, <1>8, InvokeKeeps
----------------------------------------------------------------------------
(* cleanup_matching: the last of the actions that are to go.               *)
LEMMA LastIsWanted ==
  ASSUME NetworkInv, c.pc = "cleanup", Pending # {}
  PROVE  /\ LastWanted \in Pending /\ LastWanted \in DOMAIN mem.undo /\ mem.undo[LastWanted] \in Range(mem.undo)
         /\ mem.undo[LastWanted].kind = "alias" => \A i \in DOMAIN mem.undo : OfTunnel(mem.undo[i]) => i = LastWanted
<1> DEFINE u == mem.undo
<1>1. u \in Seq(UndoActions) /\ InOrder(u) /\ c.mode # "none" /\ c \in Procs  BY Alive DEF PlaceOK
<1>2. DOMAIN u = 1..Len(u) /\ Len(u) \in Nat  BY <1>1
<1>3. Pending \subseteq 1..Len(u)  BY <1>2 DEF Pending
<1>4. LastWanted \in Pending /\ \A j \in Pending : j <= LastWanted
  <2>2. \E i \in Pending : \A j \in Pending : j <= i
    <3> DEFINE n == Len(u)
               Above == {n - i : i \in Pending}
    <3>1. Above \in SUBSET Nat /\ Above # {}
      <4> HIDE DEF u
      <4>1. \A i \in Pending : n - i \in Nat  BY <1>2, <1>3
      <4>2. PICK i \in Pending : TRUE  OBVIOUS
      <4>3. n - i \in Above  OBVIOUS
      <4> QED BY <4>1, <4>3
    <3>2. PICK m \in Above : \A k \in Above : m <= k
      <4> HIDE DEF Above
      <4> QED BY <3>1, LeastNatural
    <3>3. PICK i \in Pending : m = n - i  BY <3>2
    <3>4. ASSUME NEW j \in Pending PROVE j <= i
      <4>1. n - i <= n - j  BY <3>2, <3>3
      <4>2. i \in Nat /\ j \in Nat /\ n \in Nat  BY <1>2, <1>3
      <4> HIDE DEF n
      <4> QED BY <4>1, <4>2
    <3> QED BY <3>4
  <2> QED BY <2>2 DEF LastWanted
<1>5. LastWanted \in DOMAIN u /\ Wanted(u[LastWanted])  BY <1>4 DEF Pending
<1>6. ASSUME u[LastWanted].kind = "alias", NEW i \in DOMAIN u, OfTunnel(u[i]) PROVE i = LastWanted
  <2>1. c.mode # "final"  BY <1>5, <1>6 DEF Wanted
  <2>2. c.mode \in {"stale", "all"}  BY <1>1, <2>1 DEF Procs
  <2>3. Wanted(u[i])  BY <1>6, <2>2 DEF Wanted, OfTunnel
  <2>4. i <= LastWanted  BY <1>4, <1>6, <2>3 DEF Pending
  <2>5. LastWanted <= i  BY <1>1, <1>5, <1>6 DEF InOrder
  <2>6. i \in Nat /\ LastWanted \in Nat  BY <1>2, <1>5
  <2> QED BY <2>4, <2>5, <2>6
<1> QED BY <1>4, <1>5, <1>6 DEF Range

LEMMA UndoKeeps == ASSUME NetworkInv, undo PROVE NetworkInv'
<1>1. c.pc = "cleanup" /\ c.pc # "off" /\ ~c.half /\ Pending # {}  BY DEF undo
<1>2. /\ SystemOK(os) /\ os \in Systems /\ Keeps(os, saved) /\ Keeps(os, mem) /\ PlaceOK(c, os, mem) /\ c \in Procs
      /\ mem.undo \in Seq(UndoActions) /\ InOrder(mem.undo) /\ UndoneBy(os, mem.table, Range(mem.undo))
      /\ (c.mode # "all" => mem = saved)
  BY <1>1, Alive
<1> DEFINE k == LastWanted
           a == mem.undo[k]
           A == Range(mem.undo)
           new == Undone(a, os, mem.table)
<1>3. CASE Fails(mem, os) /\ UNCHANGED saved  BY <1>1, <1>3, FailureKeeps
<1>4. CASE ~Unverifiable(a, os) /\ invoke(new, Half)
  <2>1. /\ a \in A /\ k \in DOMAIN mem.undo
        /\ a.kind = "alias" => \A i \in DOMAIN mem.undo : OfTunnel(mem.undo[i]) => i = k
    BY <1>1, LastIsWanted
  <2>2. a.kind = "alias" => \A x \in A : OfTunnel(x) => x = a  BY <2>1 DEF Range
  <2>3. OneLink(A)  BY <1>2, OrderIsOfOneLink
  <2>4. Less(new, os) /\ UndoneBy(new, mem.table, A \ {a})
    <3>1. ~Unverifiable(a, os)  BY <1>4
    <3> HIDE DEF a, A, k
    <3> QED BY <1>2, <2>1, <2>2, <2>3, <3>1, UndoFrees DEF A
  <2>5. invoke(new, Half)  BY <1>4
  <2> HIDE DEF new
  <2>6. SystemOK(new)  BY <1>2, <2>4, LessIsOK
  <2>7. Keeps(new, saved) /\ Keeps(new, mem)  BY <1>2, <2>4, LessIsKept
  <2>8. PlaceOK(Half, new, mem)
    <3>1. new.tun.index = os.tun.index /\ new.guards = os.guards  BY <2>4 DEF Less
    <3> QED BY <1>1, <1>2, <3>1, HalfFields DEF PlaceOK, Rising, Preparing, Setting, AfterAlias
  <2>9. ASSUME os' = new, c' = Half, mem' = mem PROVE HalfUndone'
    <3>1. c'.mode = c.mode /\ c'.next = c.next /\ c'.dial = c.dial  BY <1>2, <2>9, HalfFields
    <3>2. Pending' = Pending  BY <2>9, <3>1 DEF Pending, Wanted
    <3>3. LastWanted' = LastWanted  BY <3>2 DEF LastWanted
    <3>4. UndoneBy(new, mem.table, Range(mem.undo) \ {mem.undo[LastWanted]})  BY <2>4
    <3> QED BY <1>1, <2>9, <3>2, <3>3, <3>4 DEF HalfUndone
  <2>10. os' = new /\ c' = Half /\ mem' = mem => HalfUndone'  BY <2>9
  <2> QED BY <1>1, <1>2, <2>5, <2>6, <2>7, <2>8, <2>10, HalfFields, InvokeKeeps
<1> QED BY <1>3, <1>4 DEF undo

LEMMA ForgetKeeps == ASSUME NetworkInv, forget PROVE NetworkInv'
<1>1. c.pc = "cleanup" /\ c.pc # "off" /\ c.half  BY DEF forget
<1>2. /\ Keeps(os, mem) /\ PlaceOK(c, os, mem) /\ c \in Procs /\ mem.undo \in Seq(UndoActions) /\ InOrder(mem.undo)
      /\ HalfUndone /\ mem \in Journals /\ JournalOK(mem)
  BY <1>1, Alive
<1> DEFINE k == LastWanted
           u == mem.undo
           v == RemoveAt(u, k)
           new == [mem EXCEPT !.undo = v]
           next == [c EXCEPT !.half = FALSE]
<1>3. Pending # {} /\ UndoneBy(os, mem.table, Range(u) \ {u[k]})  BY <1>1, <1>2 DEF HalfUndone
<1>4. k \in DOMAIN u /\ (u[k].kind = "alias" => \A i \in DOMAIN u : OfTunnel(u[i]) => i = k)  BY <1>1, <1>3, LastIsWanted
<1>5. v \in Seq(UndoActions) /\ Len(v) = Len(u) - 1 /\ InOrder(v) /\ Range(v) = Range(u) \ {u[k]}
  <2> HIDE DEF k, u
  <2>1. u \in Seq(UndoActions) /\ InOrder(u)  BY <1>2 DEF u
  <2> QED BY <1>4, <2>1, RemoveKeepsOrder
<1>6. persist(new, mem, next)  BY DEF forget
<1> HIDE DEF v, k
<1>7. new \in Journals /\ new.table = mem.table /\ new.undo = v /\ new.endpoints = mem.endpoints /\ new.interface = mem.interface
  BY <1>2, <1>5 DEF Journals
<1>8. mem # Empty  BY <1>4, EmptyJournal
<1>9. validate_state(new)
  <2>1. validate_state(mem)  BY <1>2, <1>8 DEF JournalOK
  <2>2. Len(v) <= MaxActions
    <3>1. Len(u) \in Nat /\ Len(u) <= MaxActions  BY <1>2, <2>1 DEF validate_state
    <3> QED BY <1>5, <3>1, NetworkConstants
  <2>3. ASSUME NEW i \in DOMAIN v PROVE validate_action(v[i])
    <3>1. v[i] \in Range(u)  BY <1>5 DEF Range
    <3>2. PICK j \in DOMAIN u : v[i] = u[j]  BY <3>1 DEF Range
    <3> QED BY <2>1, <3>2 DEF validate_state
  <2> HIDE DEF new
  <2> QED BY <1>7, <2>1, <2>2, <2>3 DEF validate_state
<1>10. next \in Procs /\ next.pc = "cleanup" /\ next.half = FALSE /\ next.mode = c.mode /\ next.dial = c.dial
       /\ next.next = c.next /\ next.lease = c.lease
  BY <1>1, <1>2 DEF Procs
<1> HIDE DEF new, next
<1>11. Keeps(os, new)  BY <1>2, <1>3, <1>5, <1>7, <1>9 DEF Keeps, JournalOK, k
<1>12. PlaceOK(next, os, new)  BY <1>1, <1>2, <1>10 DEF PlaceOK, Rising, Preparing, Setting, AfterAlias
<1> QED BY <1>1, <1>2, <1>6, <1>10, <1>11, <1>12, PersistKeeps

LEMMA CleanedKeeps == ASSUME NetworkInv, cleaned PROVE NetworkInv'
<1>1. c.pc = "cleanup" /\ c.pc # "off" /\ ~c.half /\ Pending = {}  BY DEF cleaned
<1>2. /\ Keeps(os, mem) /\ PlaceOK(c, os, mem) /\ c \in Procs /\ mem.undo \in Seq(UndoActions)
      /\ mem \in Journals /\ JournalOK(mem) /\ (c.mode # "all" => mem = saved)
  BY <1>1, Alive
<1>3. \A i \in DOMAIN mem.undo : ~Wanted(mem.undo[i])  BY <1>1 DEF Pending
<1>4. CASE c.mode = "stale" /\ persist([mem EXCEPT !.interface = None], [mem EXCEPT !.interface = None],
                                        [Goto("alias") EXCEPT !.mode = "none"])
  <2> DEFINE new == [mem EXCEPT !.interface = None]
             next == [Goto("alias") EXCEPT !.mode = "none"]
  <2>1. persist(new, new, next)  BY <1>4
  <2>2. new \in Journals /\ new.table = mem.table /\ new.undo = mem.undo /\ new.endpoints = mem.endpoints  BY <1>2 DEF Journals
  <2> HIDE DEF new
  <2>3. os.guards # {} /\ os.tun.index # None /\ c.next # NoLease /\ c.dial \in Endpoints  BY <1>2, <1>4 DEF PlaceOK, Rising
  <2>4. validate_state(mem)  BY <1>1, <2>3, Guarded
  <2>5. Cardinality(new.endpoints) <= MaxEndpoints  BY <2>2, <2>4 DEF validate_state
  <2>6. Keeps(os, new)  BY <1>2, <2>2, <2>4, <2>5, SameActions
  <2>7. \A a \in Range(new.undo) : ~OfTunnel(a)  BY <1>3, <1>4, <2>2 DEF Range, Wanted, OfTunnel
  <2>8. Goto("alias") \in Procs /\ "alias" \in NetPlaces  BY <1>2, GotoFields DEF NetPlaces, Setting
  <2>9. /\ next \in Procs /\ next.pc = "alias" /\ next.half = FALSE /\ next.mode = "none" /\ next.dial = c.dial
        /\ next.next = c.next /\ next.lease = c.lease
    BY <1>2, <2>8, GotoFields DEF Procs
  <2> HIDE DEF next
  <2>10. PlaceOK(next, os, new)  BY <1>1, <1>2, <2>3, <2>7, <2>9 DEF PlaceOK, Rising, Preparing, Setting, AfterAlias
  <2> QED BY <1>1, <2>1, <2>6, <2>9, <2>10, PersistKeeps
<1>5. CASE c.mode = "final" /\ c' = [Loop EXCEPT !.pc = "connected", !.lease = c.next] /\ UNCHANGED <<os, saved, mem>>
  <2> DEFINE next == [Loop EXCEPT !.pc = "connected", !.lease = c.next]
  <2>1. /\ next \in Procs /\ next.pc = "connected" /\ next.mode = "none" /\ next.lease = c.next
    BY <1>2, LoopFields DEF Procs, NetPlaces
  <2>2. c' = next  BY <1>5
  <2> HIDE DEF next
  <2>3. os.tun.index # None  BY <1>2, <1>5 DEF PlaceOK, Rising
  <2>4. PlaceOK(next, os, mem)  BY <2>1, <2>3 DEF PlaceOK, Rising, Preparing, Setting, AfterAlias
  <2> QED BY <1>1, <1>2, <1>5, <2>1, <2>2, <2>4, MoveKeeps
<1>6. CASE c.mode = "all" /\ c' = Goto("table") /\ UNCHANGED <<os, saved, mem>>
  <2>1. mem.undo = <<>>
    <3>1. \A i \in DOMAIN mem.undo : FALSE  BY <1>3, <1>6 DEF Wanted
    <3>2. Len(mem.undo) \in Nat /\ DOMAIN mem.undo = 1..Len(mem.undo)  BY <1>2
    <3>3. Len(mem.undo) = 0
      <4> SUFFICES ASSUME Len(mem.undo) # 0 PROVE FALSE  OBVIOUS
      <4>1. 1 \in DOMAIN mem.undo  BY <3>2
      <4> QED BY <3>1, <4>1
    <3> QED BY <1>2, <3>3, EmptySeq
  <2> DEFINE next == Goto("table")
  <2>2. /\ next \in Procs /\ next.pc = "table" /\ next.half = FALSE /\ next.mode = "all" /\ next.lease = c.lease
    BY <1>2, <1>6, GotoFields DEF NetPlaces
  <2>3. c' = next  BY <1>6
  <2> HIDE DEF next
  <2>4. PlaceOK(next, os, mem)  BY <1>1, <1>2, <2>1, <2>2 DEF PlaceOK, Rising, Preparing, Setting, AfterAlias
  <2> QED BY <1>1, <1>2, <1>6, <2>2, <2>3, <2>4, MoveKeeps
<1> QED BY <1>4, <1>5, <1>6 DEF cleaned

LEMMA DeleteTableKeeps == ASSUME NetworkInv, delete_table PROVE NetworkInv'
<1>1. c.pc = "table" /\ c.pc # "off"  BY DEF delete_table
<1>2. /\ SystemOK(os) /\ os \in Systems /\ Keeps(os, saved) /\ Keeps(os, mem) /\ PlaceOK(c, os, mem) /\ c \in Procs
      /\ c.mode = "all" /\ mem.undo = <<>>
  BY <1>1, Alive DEF PlaceOK
<1>3. Clean(os)
  <2>1. Range(mem.undo) = {}  BY <1>2 DEF Range
  <2> QED BY <1>2, <2>1 DEF Keeps, UndoneBy, Clean
<1> DEFINE next == Goto("remove")
<1>4. /\ next \in Procs /\ next.pc = "remove" /\ next.half = FALSE /\ next.mode = "all" /\ next.lease = c.lease
  BY <1>2, GotoFields DEF NetPlaces
<1>5. CASE invoke([os EXCEPT !.guards = {g \in @ : g.table # mem.table}], Goto("remove"))
  <2> DEFINE new == [os EXCEPT !.guards = {g \in @ : g.table # mem.table}]
  <2>1. {g \in os.guards : g.table # mem.table} = {}  BY <1>2 DEF Keeps
  <2>2. /\ new \in Systems /\ new.tun = os.tun /\ new.phys = os.phys /\ new.escapes = os.escapes /\ new.guards = {}
        /\ new.persistent = os.persistent
    BY <1>2, <2>1 DEF Systems
  <2>3. invoke(new, next)  BY <1>5
  <2> HIDE DEF new, next
  <2>4. Clean(new)  BY <1>3, <2>2 DEF Clean
  <2>5. SystemOK(new)  BY <1>2, <2>2, <2>4 DEF SystemOK
  <2>6. ASSUME NEW s, Keeps(os, s) PROVE Keeps(new, s)
    <3>1. UndoneBy(new, s.table, Range(s.undo))  BY <2>2, <2>6 DEF Keeps, UndoneBy
    <3> QED BY <2>2, <2>6, <3>1 DEF Keeps
  <2>7. Keeps(new, saved) /\ Keeps(new, mem)  BY <1>2, <2>6
  <2>8. PlaceOK(next, new, mem)  BY <1>1, <1>2, <1>4, <2>2, <2>4 DEF PlaceOK, Rising, Preparing, Setting, AfterAlias
  <2>9. c' = next => HalfUndone'  BY <1>4 DEF HalfUndone
  <2> QED BY <1>1, <1>4, <2>3, <2>5, <2>7, <2>8, <2>9, InvokeKeeps
<1>6. CASE ~(\E g \in os.guards : g.table = mem.table) /\ c' = Goto("remove") /\ UNCHANGED <<os, saved, mem>>
  <2>1. os.guards = {}  BY <1>2, <1>6 DEF Keeps
  <2>2. c' = next  BY <1>6
  <2> HIDE DEF next
  <2>3. PlaceOK(next, os, mem)  BY <1>1, <1>2, <1>3, <1>4, <2>1 DEF PlaceOK, Rising, Preparing, Setting, AfterAlias
  <2> QED BY <1>1, <1>4, <1>6, <2>2, <2>3, MoveKeeps
<1> QED BY <1>5, <1>6 DEF delete_table

LEMMA RemoveFileKeeps == ASSUME NetworkInv, remove_file PROVE NetworkInv'
<1>1. c.pc = "remove" /\ c.pc # "off" /\ saved' \in {saved, Empty} /\ End(os)  BY DEF remove_file
<1>2. SystemOK(os) /\ os \in Systems /\ os.tun \in TunLinks /\ Keeps(os, saved) /\ os.guards = {} /\ Clean(os)
  BY <1>1, Alive DEF PlaceOK
<1>3. Keeps(os, Empty)
  <2>1. /\ os.tun = NewTun(os.tun.index) /\ os.tun.link = "down" /\ os.tun.addresses = {} /\ os.tun.routes = {}
        /\ os.tun.dns = None /\ os.escapes = {}
    BY <1>2, BareLink DEF Clean
  <2>2. UndoneBy(os, Empty.table, Range(Empty.undo))  BY <2>1 DEF UndoneBy
  <2> QED BY <1>2, <2>2, EmptyJournal DEF Keeps
<1>4. Keeps(os, saved')  BY <1>1, <1>2, <1>3
<1> QED BY <1>1, <1>2, <1>4, EndKeeps
----------------------------------------------------------------------------
(* The life of the process.                                                *)
LEMMA OpenKeeps ==
  ASSUME NetworkInv, open_manager, UNCHANGED <<os, saved>>, c' \in Procs, c'.pc \in {"loop", "cleanup"}, c'.half = FALSE,
         c'.mode = IF c'.pc = "loop" THEN "none" ELSE "all", c'.lease = NoLease
  PROVE  NetworkInv'
<1>1. SystemOK(os) /\ Keeps(os, saved) /\ os' = os /\ saved' = saved  BY DEF NetworkInv
<1>2. mem' = saved  BY DEF open_manager, read_state
<1>3. PlaceOK(c', os', mem')  BY DEF PlaceOK, Rising, Preparing, Setting, AfterAlias
<1>4. c'.pc # "off"  OBVIOUS
<1> QED BY <1>1, <1>2, <1>3, <1>4 DEF NetworkInv, HalfUndone

LEMMA StartKeeps == ASSUME NetworkInv, Start PROVE NetworkInv'
<1>1. saved.endpoints \subseteq Endpoints
  <2>1. saved \in Journals  BY DEF NetworkInv, Keeps, JournalOK
  <2> QED BY <2>1 DEF Journals
<1>2. PICK known \in IF saved.endpoints = {} THEN {{}} ELSE restored_endpoints(saved.endpoints) :
        c' = [Off EXCEPT !.pc = "loop", !.started = saved.endpoints # {}, !.endpoints = known]
  BY DEF Start
<1>3. known \subseteq Endpoints  BY <1>1, <1>2 DEF restored_endpoints
<1>4. /\ c' \in Procs /\ c'.pc = "loop" /\ c'.half = FALSE /\ c'.mode = "none" /\ c'.lease = NoLease
  <2>1. (saved.endpoints # {}) \in BOOLEAN  OBVIOUS
  <2> QED BY <1>2, <1>3, <2>1, OffFields DEF Procs, NetPlaces
<1>5. open_manager /\ UNCHANGED <<os, saved>>  BY DEF Start
<1> QED BY <1>4, <1>5, OpenKeeps

LEMMA CleanupNetworkKeeps == ASSUME NetworkInv, cleanup_network PROVE NetworkInv'
BY DownFields, OpenKeeps DEF cleanup_network

LEMMA CancelKeeps == ASSUME NetworkInv, Cancel PROVE NetworkInv'
<1>1. c.pc # "off" /\ saved' = saved  BY DEF Cancel
<1>2. SystemOK(os) /\ Keeps(os, saved) /\ Keeps(os, mem)  BY <1>1, Alive
<1>3. CASE c' = Down /\ UNCHANGED <<os, mem>>
  <2>1. PlaceOK(Down, os, mem)  BY DownIsInPlace
  <2> QED BY <1>1, <1>3, <2>1, DownFields, MoveKeeps
<1>4. CASE End(os)  BY <1>1, <1>2, <1>4, EndKeeps
<1> QED BY <1>3, <1>4 DEF Cancel

LEMMA DieKeeps == ASSUME NetworkInv, Die PROVE NetworkInv'
<1>1. c.pc # "off" /\ saved' = saved /\ End(os)  BY DEF Die
<1>2. SystemOK(os) /\ Keeps(os, saved)  BY <1>1, Alive
<1> QED BY <1>1, <1>2, EndKeeps

LEMMA DialKeeps == ASSUME NetworkInv, NEW e \in Endpoints, Dial(e) PROVE NetworkInv'
<1>1. c.pc = "loop" /\ c.pc # "off" /\ UNCHANGED <<os, saved, mem>>  BY DEF Dial
<1>2. PlaceOK(c, os, mem) /\ c \in Procs /\ mem = saved /\ c.mode = "none"  BY <1>1, Alive DEF PlaceOK
<1> DEFINE to == IF c.started THEN "prepare" ELSE "dial"
           next == [Goto(to) EXCEPT !.then = "dial", !.dial = e, !.endpoints = resolve_endpoints]
<1>3. resolve_endpoints \subseteq Endpoints  BY <1>2 DEF resolve_endpoints, Procs
<1>4. to \in NetPlaces /\ to \in {"prepare", "dial"}  BY DEF NetPlaces, Preparing
<1>5. c' = next  BY DEF Dial
<1> HIDE DEF to
<1>6. Goto(to) \in Procs /\ Goto(to).pc = to /\ Goto(to).mode = "none" /\ Goto(to).lease = c.lease  BY <1>2, <1>4, GotoFields
<1>7. next \in Procs /\ next.pc = to /\ next.mode = "none" /\ next.then = "dial" /\ next.dial = e /\ next.lease = c.lease
  BY <1>3, <1>6 DEF Procs
<1> HIDE DEF next
<1>8. PlaceOK(next, os, mem)  BY <1>2, <1>4, <1>7 DEF PlaceOK, Rising, Preparing, Setting, AfterAlias
<1> QED BY <1>1, <1>2, <1>4, <1>5, <1>7, <1>8, MoveKeeps

LEMMA LoopKeeps ==
  ASSUME NetworkInv, c.pc \in {"dial", "connected"}, c' = Loop, UNCHANGED <<os, saved, mem>>
  PROVE  NetworkInv'
<1>1. c.pc # "off"  OBVIOUS
<1>2. PlaceOK(c, os, mem) /\ c \in Procs /\ mem = saved  BY <1>1, Alive DEF PlaceOK
<1>3. PlaceOK(Loop, os, mem)  BY <1>2, LoopFields DEF PlaceOK, Rising, Preparing, Setting, AfterAlias
<1> QED BY <1>1, <1>2, <1>3, LoopFields, MoveKeeps

LEMMA RetryKeeps == ASSUME NetworkInv, Retry PROVE NetworkInv'
BY LoopKeeps DEF Retry

LEMMA RunConnectionKeeps == ASSUME NetworkInv, run_connection PROVE NetworkInv'
<1>1. CASE c' = Loop /\ UNCHANGED <<os, mem>>  BY <1>1, LoopKeeps DEF run_connection
<1>2. CASE Fails(mem, os)  BY <1>2, FailureKeeps DEF run_connection
<1> QED BY <1>1, <1>2 DEF run_connection

LEMMA ConnectedKeeps == ASSUME NetworkInv, NEW lease \in Leases, Connected(lease) PROVE NetworkInv'
<1>1. c.pc = "dial" /\ c.pc # "off" /\ UNCHANGED <<os, saved, mem>>  BY DEF Connected
<1>2. PlaceOK(c, os, mem) /\ c \in Procs /\ mem = saved /\ c.mode = "none" /\ c.dial \in Endpoints  BY <1>1, Alive DEF PlaceOK
<1> DEFINE to == IF c.started THEN "device" ELSE "prepare"
           next == [Goto(to) EXCEPT !.then = "device", !.next = lease, !.started = TRUE]
<1>3. lease # NoLease  BY NetworkConstants DEF NoLease
<1>4. to \in NetPlaces /\ to \in {"prepare", "device"}  BY DEF NetPlaces, Preparing
<1>5. c' = next  BY DEF Connected
<1> HIDE DEF to
<1>6. Goto(to) \in Procs /\ Goto(to).pc = to /\ Goto(to).mode = "none" /\ Goto(to).lease = c.lease /\ Goto(to).dial = c.dial
  BY <1>2, <1>4, GotoFields
<1>7. /\ next \in Procs /\ next.pc = to /\ next.mode = "none" /\ next.then = "device" /\ next.dial = c.dial /\ next.lease = c.lease
      /\ next.next = lease
  BY <1>6 DEF Procs
<1> HIDE DEF next
<1>8. PlaceOK(next, os, mem)  BY <1>2, <1>3, <1>4, <1>7 DEF PlaceOK, Rising, Preparing, Setting, AfterAlias
<1> QED BY <1>1, <1>2, <1>4, <1>5, <1>7, <1>8, MoveKeeps

(* A new device is a link without anything of Porta's.                     *)
LEMMA DeviceKeeps == ASSUME NetworkInv, Device PROVE NetworkInv'
<1>1. c.pc = "device" /\ c.pc # "off" /\ mem' = mem /\ saved' = saved  BY DEF Device
<1>2. /\ PlaceOK(c, os, mem) /\ c \in Procs /\ mem = saved /\ c.mode = "none" /\ c.dial \in Endpoints /\ c.next # NoLease
      /\ SystemOK(os) /\ os \in Systems /\ os.tun \in TunLinks /\ Keeps(os, mem)
  BY <1>1, Alive DEF PlaceOK
<1>3. c.next \in Leases /\ c.next.address # None  BY <1>2, NetworkConstants DEF Procs
<1>4. SystemOK(os') /\ Keeps(os', mem) /\ os'.tun.index # None
  <2>1. CASE c.lease.address = c.next.address /\ os' = os
    <3>1. c.lease # NoLease  BY <1>3, <2>1 DEF NoLease
    <3> QED BY <1>2, <2>1, <3>1 DEF PlaceOK
  <2>2. CASE os.persistent /\ os' = os  BY <1>2, <2>2 DEF SystemOK
  <2>3. ASSUME NEW i \in Indexes \ {os.phys.index}, ~os.persistent, os' = [os EXCEPT !.tun = NewTun(i)]
        PROVE  SystemOK(os') /\ Keeps(os', mem) /\ os'.tun.index # None
    <3> DEFINE t == NewTun(i)
               new == os'
    <3>1. /\ t \in TunLinks /\ t.index = i /\ t = NewTun(t.index) /\ t.link = "down" /\ t.addresses = {} /\ t.routes = {}
          /\ t.dns = None
      BY DEF NewTun, NoTun, TunLinks
    <3> HIDE DEF t
    <3>2. /\ new \in Systems /\ new.tun = t /\ new.phys = os.phys /\ new.escapes = os.escapes /\ new.guards = os.guards
          /\ new.persistent = os.persistent
      BY <1>2, <2>3, <3>1 DEF Systems, t
    <3>3. Clean(os) => Clean(new)  BY <3>1, <3>2 DEF Clean
    <3>4. SystemOK(new)  BY <1>2, <2>3, <3>1, <3>2, <3>3 DEF SystemOK
    <3>5. UndoneBy(new, mem.table, Range(mem.undo))  BY <1>2, <3>1, <3>2 DEF Keeps, UndoneBy
    <3>6. Keeps(new, mem)  BY <1>2, <3>2, <3>5 DEF Keeps
    <3> QED BY <3>1, <3>2, <3>4, <3>6, NetworkConstants
  <2> QED BY <2>1, <2>2, <2>3 DEF Device, replace_device
<1> DEFINE next == [Goto("prepare") EXCEPT !.then = "up"]
<1>5. "prepare" \in NetPlaces  BY DEF NetPlaces, Preparing
<1>6. /\ next \in Procs /\ next.pc = "prepare" /\ next.mode = "none" /\ next.then = "up" /\ next.dial = c.dial
      /\ next.lease = c.lease /\ next.next = c.next
  BY <1>2, <1>5, GotoFields DEF Procs
<1>7. c' = next  BY DEF Device
<1> HIDE DEF next
<1>8. PlaceOK(next, os', mem)  BY <1>2, <1>4, <1>6 DEF PlaceOK, Rising, Preparing, Setting, AfterAlias
<1> QED BY <1>1, <1>2, <1>4, <1>6, <1>7, <1>8 DEF NetworkInv, HalfUndone
----------------------------------------------------------------------------
(* What happens to the machine meanwhile.                                  *)
LEMMA BootedIsKept ==
  ASSUME NEW o \in Kernels, Booted(o), NEW s, JournalOK(s)
  PROVE  SystemOK(o) /\ Keeps(o, s)
<1>1. /\ o.phys \in Links /\ o.escapes = {} /\ o.foreign = {} /\ o.guards = {} /\ o.persistent \in BOOLEAN
      /\ o = [tun |-> o.tun, phys |-> o.phys, escapes |-> o.escapes, foreign |-> o.foreign, guards |-> o.guards,
              persistent |-> o.persistent]
  BY DEF Booted, Kernels
<1>2. PICK i \in (Indexes \ {o.phys.index}) \cup {None} : o.tun = NewTun(i) /\ (o.persistent => i # None)
  <2>1. CASE o.persistent  BY <2>1, NetworkConstants DEF Booted
  <2>2. CASE ~o.persistent
    <3>1. NoTun = NewTun(None)  BY DEF NoTun, NewTun
    <3> QED BY <2>2, <3>1 DEF Booted
  <2> QED BY <2>1, <2>2
<1>3. /\ o.tun \in TunLinks /\ o.tun.index = i /\ o.tun = NewTun(o.tun.index) /\ o.tun.link = "down" /\ o.tun.addresses = {}
      /\ o.tun.routes = {} /\ o.tun.dns = None
  BY <1>2 DEF NewTun, NoTun, TunLinks
<1>4. o \in Systems  BY <1>1, <1>3 DEF Systems
<1>5. o.phys.index \in Indexes  BY <1>1 DEF Links
<1>6. Clean(o)  BY <1>1, <1>3 DEF Clean
<1>7. SystemOK(o)  BY <1>2, <1>3, <1>4, <1>5, <1>6, NetworkConstants DEF SystemOK
<1>8. UndoneBy(o, s.table, Range(s.undo))  BY <1>1, <1>3 DEF UndoneBy
<1> QED BY <1>1, <1>7, <1>8 DEF Keeps

LEMMA RebootKeeps == ASSUME NetworkInv, Reboot PROVE NetworkInv'
<1>1. os' \in Kernels /\ Booted(os') /\ c' = Off /\ mem' = Empty /\ saved' = saved  BY DEF Reboot
<1>2. JournalOK(saved)  BY DEF NetworkInv, Keeps
<1>3. SystemOK(os') /\ Keeps(os', saved')  BY <1>1, <1>2, BootedIsKept
<1> QED BY <1>1, <1>3, OffFields DEF NetworkInv

LEMMA EventKeeps ==
  ASSUME NetworkInv, UNCHANGED <<saved, mem, c>>, os' \in Systems, os'.tun = os.tun, os'.guards = os.guards,
         os'.persistent = os.persistent, os'.tun.index # os'.phys.index, os'.escapes \subseteq os.escapes,
         os'.escapes # {} => os'.phys.index = os.phys.index /\ os'.phys.mac = os.phys.mac,
         c.pc = "add" => os'.phys.index = os.phys.index /\ os'.phys.mac = os.phys.mac
  PROVE  NetworkInv'
<1>1. SystemOK(os) /\ Keeps(os, saved) /\ saved' = saved /\ mem' = mem /\ c' = c  BY DEF NetworkInv
<1>2. Clean(os) => Clean(os')  BY DEF Clean
<1>3. SystemOK(os')  BY <1>1, <1>2 DEF SystemOK
<1>4. ASSUME NEW table, NEW A, UndoneBy(os, table, A) PROVE UndoneBy(os', table, A)  BY <1>4 DEF UndoneBy
<1>5. ASSUME NEW s, Keeps(os, s) PROVE Keeps(os', s)  BY <1>4, <1>5 DEF Keeps
<1>6. CASE c.pc = "off"  BY <1>1, <1>3, <1>5, <1>6 DEF NetworkInv
<1>7. CASE c.pc # "off"
  <2>1. Keeps(os, mem) /\ PlaceOK(c, os, mem) /\ HalfUndone /\ (c.mode # "all" => mem = saved)  BY <1>7, Alive
  <2>2. PlaceOK(c, os', mem)  BY <1>2, <2>1 DEF PlaceOK
  <2>3. HalfUndone'
    <3>1. Pending' = Pending  BY <1>1 DEF Pending, Wanted
    <3>2. LastWanted' = LastWanted  BY <3>1 DEF LastWanted
    <3> QED BY <1>1, <1>4, <2>1, <3>1, <3>2 DEF HalfUndone
  <2> QED BY <1>1, <1>3, <1>5, <1>7, <2>1, <2>2, <2>3 DEF NetworkInv
<1> QED BY <1>6, <1>7

LEMMA RenameKeeps == ASSUME NetworkInv, Rename PROVE NetworkInv'
<1>1. os \in Systems /\ os.tun.index # os.phys.index /\ os.phys \in Links  BY DEF NetworkInv, SystemOK, Systems
<1>2. PICK name \in Names : os' = [os EXCEPT !.phys.name = name]  BY DEF Rename
<1> DEFINE p == [os.phys EXCEPT !.name = name]
<1>3. p \in Links /\ p.index = os.phys.index /\ p.mac = os.phys.mac  BY <1>1 DEF Links
<1>4. os' = [os EXCEPT !.phys = p]  BY <1>1, <1>2 DEF Systems
<1> HIDE DEF p
<1>5. /\ os' \in Systems /\ os'.tun = os.tun /\ os'.guards = os.guards /\ os'.persistent = os.persistent
      /\ os'.escapes = os.escapes /\ os'.phys = p
  BY <1>1, <1>3, <1>4 DEF Systems
<1> QED BY <1>1, <1>3, <1>5, EventKeeps DEF Rename

LEMMA ReplaceKeeps == ASSUME NetworkInv, Replace PROVE NetworkInv'
<1>1. os \in Systems  BY DEF NetworkInv, SystemOK
<1>2. PICK link \in Links : link.index # os.tun.index /\ os' = [os EXCEPT !.phys = link, !.escapes = {}, !.foreign = {}]
  BY DEF Replace
<1>3. /\ os' \in Systems /\ os'.tun = os.tun /\ os'.guards = os.guards /\ os'.persistent = os.persistent
      /\ os'.escapes = {} /\ os'.phys = link
  BY <1>1, <1>2 DEF Systems
<1> QED BY <1>2, <1>3, EventKeeps DEF Replace

LEMMA AdminRouteKeeps == ASSUME NetworkInv, NEW e \in AdminRoutes, AdminRoute(e) PROVE NetworkInv'
<1>1. os \in Systems /\ os.tun.index # os.phys.index /\ e \in Endpoints  BY NetworkConstants DEF NetworkInv, SystemOK
<1>2. PICK f \in SUBSET Endpoints : os' = [os EXCEPT !.foreign = f]
  <2>1. os.foreign \subseteq Endpoints  BY <1>1 DEF Systems
  <2>2. (IF e \in os.foreign THEN os.foreign \ {e} ELSE os.foreign \cup {e}) \in SUBSET Endpoints  BY <1>1, <2>1
  <2> QED BY <2>2 DEF AdminRoute
<1>3. /\ os' \in Systems /\ os'.tun = os.tun /\ os'.guards = os.guards /\ os'.persistent = os.persistent
      /\ os'.escapes = os.escapes /\ os'.phys = os.phys
  BY <1>1, <1>2 DEF Systems
<1> QED BY <1>1, <1>3, EventKeeps DEF AdminRoute
----------------------------------------------------------------------------
LEMMA NetworkInvInit == ASSUME NetworkInit PROVE NetworkInv
<1>1. os \in Kernels /\ Booted(os) /\ saved = Empty /\ mem = Empty /\ c = Off  BY DEF NetworkInit
<1>2. SystemOK(os) /\ Keeps(os, saved)  BY <1>1, BootedIsKept, EmptyJournal
<1> QED BY <1>1, <1>2, OffFields DEF NetworkInv

LEMMA NetworkInvStep == ASSUME NetworkInv, [NetworkNext]_network_vars PROVE NetworkInv'
<1>1. CASE Prepare
  BY <1>1, PreflightKeeps, InitializeKeeps, AdmitKeeps, ProtectKeeps, EnsureEscapeKeeps, AddEscapeKeeps DEF Prepare
<1>2. CASE Configure
  BY <1>2, UpKeeps, SetAliasKeeps, RecordLinkKeeps, RecordInterfaceKeeps, StartLinkKeeps, SetAddressKeeps, EnsureRouteKeeps,
     SetDnsKeeps, KeepEndpointKeeps, ProtectAgainKeeps DEF Configure
<1>3. CASE Cleanup  BY <1>3, UndoKeeps, ForgetKeeps, CleanedKeeps, DeleteTableKeeps, RemoveFileKeeps DEF Cleanup
<1>4. CASE Client  BY <1>4, CancelKeeps, DeviceKeeps, DieKeeps, DialKeeps, ConnectedKeeps DEF Client
<1>5. CASE Event
  BY <1>5, StartKeeps, CleanupNetworkKeeps, RetryKeeps, RunConnectionKeeps, RebootKeeps, RenameKeeps, ReplaceKeeps,
     AdminRouteKeeps DEF Event
<1>6. CASE UNCHANGED network_vars
  <2>1. os' = os /\ saved' = saved /\ mem' = mem /\ c' = c  BY <1>6 DEF network_vars
  <2>2. Pending' = Pending /\ LastWanted' = LastWanted
    <3>1. Pending' = Pending  BY <2>1 DEF Pending, Wanted
    <3> QED BY <3>1 DEF LastWanted
  <2>3. HalfUndone => HalfUndone'  BY <2>1, <2>2 DEF HalfUndone
  <2> QED BY <2>1, <2>3 DEF NetworkInv
<1> QED BY <1>1, <1>2, <1>3, <1>4, <1>5, <1>6 DEF NetworkNext

(* Wherever the Linux client stops and whichever of its writes and com-    *)
(* mands fails, the journal on file is one that the next process opens,    *)
(* undoing it from its last action to its first gives the kernel back, and *)
(* until then the guard stands over what is left: for any endpoints,       *)
(* leases, links and tables, and any number of runs and reboots.           *)
THEOREM NetworkIsAlwaysSafe == NetworkSpec => []NetworkIsSafe
<1>1. NetworkInit => NetworkInv  BY NetworkInvInit
<1>2. NetworkInv /\ [NetworkNext]_network_vars => NetworkInv'  BY NetworkInvStep
<1>3. NetworkInv => NetworkIsSafe  BY SafeFromInv
<1> QED BY <1>1, <1>2, <1>3, PTL DEF NetworkSpec
----------------------------------------------------------------------------
(* The places of up after each of its steps.                               *)
AfterEndpoints == {"guard"}
AfterDns == {"endpoints"} \cup AfterEndpoints
AfterDnsRoute == {"dns"} \cup AfterDns
AfterHigh == {"dns-route"} \cup AfterDnsRoute
AfterLow == {"high"} \cup AfterHigh
AfterAddress == {"low"} \cup AfterLow
AfterStart == {"address"} \cup AfterAddress
AfterInterface == {"start"} \cup AfterStart

Since(p, S) == p.pc \in S \/ p.mode = "final"

(* What up has done so far is there, and the guard admits what is dialled. *)
ReadyOK(p, o, s) ==
  /\ p.mode # "all" /\ ~p.started => p.pc \in {"loop", "dial"} /\ s.endpoints = {}
  /\ p.pc \in {"escape", "add"} => \E g \in o.guards : p.dial \in g.endpoints
  /\ Since(p, AfterInterface) => s.interface = o.tun.index
  /\ Since(p, AfterStart) => o.tun.link = "up"
  /\ Since(p, AfterAddress) => p.next.address \in o.tun.addresses
  /\ Since(p, AfterLow) => <<"low", s.table>> \in o.tun.routes
  /\ Since(p, AfterHigh) => <<"high", s.table>> \in o.tun.routes
  /\ Since(p, AfterDnsRoute) => <<p.next.dns, s.table>> \in o.tun.routes
  /\ Since(p, AfterDns) => o.tun.dns = p.next.dns
  /\ Since(p, AfterEndpoints) => s.endpoints = {p.dial}
  /\ p.mode = "final" => /\ o.tun.alias = s.table
                         /\ o.guards = {[table |-> s.table, tun |-> o.tun.index, endpoints |-> {p.dial}]}

ReadyInv == c.pc # "off" => ReadyOK(c, os, mem)

LEMMA GoneIsReady == ASSUME c' \in {Off, Down} PROVE ReadyInv'
<1>1. Down.pc = "cleanup" /\ Down.mode = "all"  BY DownFields
<1> QED BY <1>1, OffFields
        DEF ReadyInv, ReadyOK, Since, AfterEndpoints, AfterDns, AfterDnsRoute, AfterHigh, AfterLow, AfterAddress, AfterStart,
            AfterInterface

LEMMA FailsIsReady == ASSUME NEW s, NEW o, Fails(s, o) PROVE ReadyInv'
BY GoneIsReady DEF Fails, End

LEMMA PersistIsReady ==
  ASSUME NEW new, NEW back, NEW next, persist(new, back, next), ReadyOK(next, os, new)
  PROVE  ReadyInv'
BY FailsIsReady DEF persist, ReadyInv

LEMMA InvokeIsReady ==
  ASSUME NEW new, NEW next, invoke(new, next), ReadyOK(next, new, mem)
  PROVE  ReadyInv'
BY FailsIsReady DEF invoke, ReadyInv

LEMMA RecordIsReady ==
  ASSUME NetworkInv, c.pc # "off", NEW a, NEW next, record(a, next), ReadyOK(next, os, mem)
  PROVE  ReadyInv'
<1>1. mem \in Journals  BY Alive
<1>2. CASE Fails(mem, os)  BY <1>2, FailsIsReady
<1>3. CASE persist(Appended(a), mem, next)
  <2>1. /\ Appended(a).table = mem.table /\ Appended(a).interface = mem.interface
        /\ Appended(a).endpoints = mem.endpoints
    BY <1>1 DEF Appended, Journals
  <2>2. ReadyOK(next, os, Appended(a))  BY <2>1 DEF ReadyOK
  <2> QED BY <1>3, <2>2, PersistIsReady
<1> QED BY <1>2, <1>3 DEF record, Appended

LEMMA MoveIsReady ==
  ASSUME UNCHANGED <<os, mem>>, ReadyOK(c', os, mem)
  PROVE  ReadyInv'
BY DEF ReadyInv

LEMMA OutsideIsReady ==
  ASSUME NEW p, NEW o, NEW s, p.pc \notin AfterInterface, p.mode # "final",
         p.mode # "all" => p.started \/ (p.pc \in {"loop", "dial"} /\ s.endpoints = {}),
         p.pc \in {"escape", "add"} => \E g \in o.guards : p.dial \in g.endpoints
  PROVE  ReadyOK(p, o, s)
BY DEF ReadyOK, Since, AfterEndpoints, AfterDns, AfterDnsRoute, AfterHigh, AfterLow, AfterAddress, AfterStart, AfterInterface

LEMMA InterfaceIsLate == AfterInterface \subseteq AfterAlias \ {"link", "interface"}
BY DEF AfterEndpoints, AfterDns, AfterDnsRoute, AfterHigh, AfterLow, AfterAddress, AfterStart, AfterInterface, AfterAlias

LEMMA StartedHere ==
  ASSUME ReadyInv, c.pc \notin {"off", "loop", "dial"}, c.mode # "all"
  PROVE  c.started
BY DEF ReadyInv, ReadyOK

LEMMA DoneIsReady ==
  ASSUME NetworkInv, ReadyInv, c.pc \in Setting \ {"up", "guard"}, NEW o, NEW s, s.table = mem.table,
         o.tun.index = os.tun.index, os.tun.link = "up" => o.tun.link = "up", os.tun.addresses \subseteq o.tun.addresses,
         os.tun.routes \subseteq o.tun.routes,
         IF c.pc = "interface" THEN s.interface = o.tun.index ELSE s.interface = mem.interface,
         c.pc = "start" => o.tun.link = "up",
         c.pc = "address" => c.next.address \in o.tun.addresses,
         c.pc = "low" => <<"low", s.table>> \in o.tun.routes,
         c.pc = "high" => <<"high", s.table>> \in o.tun.routes,
         c.pc = "dns-route" => <<c.next.dns, s.table>> \in o.tun.routes,
         IF c.pc = "dns" THEN o.tun.dns = c.next.dns ELSE o.tun.dns = os.tun.dns,
         c.pc = "endpoints" => s.endpoints = {c.dial}
  PROVE  ReadyOK(Done, o, s)
<1>1. c \in Procs /\ c.mode = "none" /\ c.pc \notin {"off", "loop", "dial"}  BY Configuring DEF Setting, AfterAlias
<1>2. c.started  BY <1>1, StartedHere
<1>3. After(c.pc) \in NetPlaces  BY AfterIs DEF NetPlaces, Setting, AfterAlias
<1>4. /\ Done.pc = After(c.pc) /\ Done.mode = "none" /\ Done.dial = c.dial /\ Done.next = c.next /\ Done.started
  BY <1>1, <1>2, <1>3, GotoFields DEF Done
<1>5. ReadyOK(c, os, mem)  BY <1>1 DEF ReadyInv
<1>6. After(c.pc) \notin {"escape", "add"}  BY AfterIs DEF Setting, AfterAlias
<1>7. /\ After(c.pc) \in AfterInterface => c.pc \in {"interface"} \cup AfterInterface
      /\ After(c.pc) \in AfterStart => c.pc \in {"start"} \cup AfterStart
      /\ After(c.pc) \in AfterAddress => c.pc \in {"address"} \cup AfterAddress
      /\ After(c.pc) \in AfterLow => c.pc \in {"low"} \cup AfterLow
      /\ After(c.pc) \in AfterHigh => c.pc \in {"high"} \cup AfterHigh
      /\ After(c.pc) \in AfterDnsRoute => c.pc \in {"dns-route"} \cup AfterDnsRoute
      /\ After(c.pc) \in AfterDns => c.pc \in {"dns"} \cup AfterDns
      /\ After(c.pc) \in AfterEndpoints => c.pc = "endpoints"
  BY AfterIs DEF Setting, AfterAlias, AfterEndpoints, AfterDns, AfterDnsRoute, AfterHigh, AfterLow, AfterAddress, AfterStart,
                 AfterInterface
<1>8. "dns" \notin AfterDns /\ "interface" \notin AfterInterface
  BY DEF AfterEndpoints, AfterDns, AfterDnsRoute, AfterHigh, AfterLow, AfterAddress, AfterStart, AfterInterface
<1> QED BY <1>1, <1>4, <1>5, <1>6, <1>7, <1>8 DEF ReadyOK, Since

LEMMA DoneMoves ==
  ASSUME NetworkInv, ReadyInv, c.pc \in Setting \ {"up", "guard"}, c' = Done, UNCHANGED <<os, saved, mem>>,
         c.pc \notin {"start", "dns", "endpoints"}, c.pc = "interface" => mem.interface = os.tun.index,
         c.pc = "address" => c.next.address \in os.tun.addresses,
         c.pc = "low" => <<"low", mem.table>> \in os.tun.routes,
         c.pc = "high" => <<"high", mem.table>> \in os.tun.routes,
         c.pc = "dns-route" => <<c.next.dns, mem.table>> \in os.tun.routes
  PROVE  ReadyInv'
<1>1. ReadyOK(Done, os, mem)  BY DoneIsReady
<1> QED BY <1>1, MoveIsReady
----------------------------------------------------------------------------
LEMMA PrepareIsReady == ASSUME NetworkInv, ReadyInv, Prepare PROVE ReadyInv'
<1>1. /\ c.pc \in {"prepare", "escape", "add"} /\ c.pc # "off" /\ c \in Procs /\ c.mode = "none" /\ c.started
      /\ c.then \in {"dial", "device", "up"} /\ c.pc \in Preparing /\ PlaceOK(c, os, mem)
  <2>1. c.pc \in {"prepare", "escape", "add"} /\ c.pc # "off"
    BY DEF Prepare, preflight, initialize_state, admit, protect, ensure_escape, add_escape
  <2>2. c \in Procs /\ PlaceOK(c, os, mem)  BY <2>1, Alive
  <2>3. c.mode = "none" /\ c.then # "off"  BY <2>1, <2>2 DEF PlaceOK, Preparing
  <2>4. c.started  BY <2>1, <2>3, StartedHere
  <2> QED BY <2>1, <2>2, <2>3, <2>4 DEF Procs, Preparing
<1>2. ASSUME NEW s, NEW next, NEW o, next.pc \in {"prepare", "dial", "device", "up"}, next.mode = "none", next.started
      PROVE  ReadyOK(next, o, s)
  <2>1. next.pc \notin AfterInterface  BY <1>2, InterfaceIsLate DEF AfterAlias
  <2> QED BY <1>2, <2>1, OutsideIsReady
<1>3. CASE preflight
  <2>1. CASE c' = Half /\ UNCHANGED <<os, saved, mem>>
    <3>0. Half.pc = "prepare" /\ Half.mode = "none" /\ Half.started  BY <1>1, <1>3, HalfFields DEF preflight
    <3>1. ReadyOK(Half, os, mem)  BY <1>2, <3>0
    <3> QED BY <2>1, <3>1, MoveIsReady
  <2> QED BY <1>3, <2>1, FailsIsReady DEF preflight
<1>4. CASE initialize_state
  <2>1. ReadyOK(c, os, [Empty EXCEPT !.table = FreshTable])  BY <1>1, <1>2, <1>4 DEF initialize_state
  <2> QED BY <1>4, <2>1, PersistIsReady DEF initialize_state
<1>5. CASE admit
  <2>1. ReadyOK(c, os, [mem EXCEPT !.endpoints = @ \cup {c.dial}])  BY <1>1, <1>2, <1>5 DEF admit
  <2> QED BY <1>5, <2>1, FailsIsReady, PersistIsReady DEF admit
<1>6. CASE protect
  <2>1. c.pc = "prepare" /\ c.dial \in mem.endpoints /\ invoke(Protected(os), Goto("escape"))  BY <1>6 DEF protect
  <2>2. \E g \in Protected(os).guards : c.dial \in g.endpoints
    <3>1. os \in Systems  BY <1>1, Alive
    <3>2. PICK g : g \in Protected(os).guards /\ g.endpoints = mem.endpoints
      <4> DEFINE link == IF mem.interface # None /\ TunIs(os, mem.table, mem.interface) THEN mem.interface ELSE None
                 guard == [table |-> mem.table, tun |-> link, endpoints |-> mem.endpoints]
      <4>1. Protected(os) = [os EXCEPT !.guards = {g \in @ : g.table # mem.table} \cup {guard}]  BY DEF Protected
      <4> HIDE DEF link
      <4>2. guard.endpoints = mem.endpoints  OBVIOUS
      <4> HIDE DEF guard
      <4>3. guard \in Protected(os).guards  BY <3>1, <4>1 DEF Systems
      <4> QED BY <4>2, <4>3
    <3> QED BY <2>1, <3>2
  <2>3. "escape" \in NetPlaces /\ "escape" \notin AfterInterface  BY InterfaceIsLate DEF NetPlaces, Preparing, AfterAlias
  <2>4. /\ Goto("escape").pc = "escape" /\ Goto("escape").mode = "none" /\ Goto("escape").started
        /\ Goto("escape").dial = c.dial
    BY <1>1, <2>3, GotoFields
  <2>5. ReadyOK(Goto("escape"), Protected(os), mem)  BY <2>2, <2>3, <2>4, OutsideIsReady
  <2> QED BY <2>1, <2>5, InvokeIsReady
<1>7. CASE ensure_escape
  <2>1. c.pc = "escape" /\ \E g \in os.guards : c.dial \in g.endpoints  BY <1>7 DEF ensure_escape, ReadyInv, ReadyOK
  <2>2. CASE Fails(mem, os)  BY <2>2, FailsIsReady
  <2>3. CASE c' = Goto(c.then) /\ UNCHANGED <<os, saved, mem>>
    <3>1. c.then \in NetPlaces  BY <1>1 DEF NetPlaces, Setting
    <3>0. Goto(c.then).pc = c.then /\ Goto(c.then).mode = "none" /\ Goto(c.then).started  BY <1>1, <3>1, GotoFields
    <3>2. ReadyOK(Goto(c.then), os, mem)  BY <1>1, <1>2, <3>0
    <3> QED BY <2>3, <3>2, MoveIsReady
  <2>4. CASE LET a == escape_action(c.dial)
                 next == [Goto("add") EXCEPT !.escape = a]
             IN IF Recorded(a) THEN c' = next /\ UNCHANGED <<os, saved, mem>> ELSE record(a, next)
    <3> DEFINE a == escape_action(c.dial)
               next == [Goto("add") EXCEPT !.escape = a]
    <3>1. "add" \in NetPlaces /\ "add" \notin AfterInterface  BY InterfaceIsLate DEF NetPlaces, Preparing, AfterAlias
    <3>2. Goto("add") \in Procs  BY <1>1, <3>1, GotoFields
    <3>3. next.pc = "add" /\ next.mode = "none" /\ next.started /\ next.dial = c.dial  BY <1>1, <3>1, <3>2, GotoFields DEF Procs
    <3>4. IF Recorded(a) THEN c' = next /\ UNCHANGED <<os, saved, mem>> ELSE record(a, next)  BY <2>4
    <3> HIDE DEF next, a
    <3>5. ReadyOK(next, os, mem)  BY <2>1, <3>1, <3>3, OutsideIsReady
    <3> QED BY <1>1, <3>4, <3>5, MoveIsReady, RecordIsReady
  <2> QED BY <1>7, <2>2, <2>3, <2>4 DEF ensure_escape
<1>8. CASE add_escape
  <2> DEFINE new == [os EXCEPT !.escapes = @ \cup {owned_route(c.dial, mem.table)}]
             next == [Goto(c.then) EXCEPT !.escape = None]
  <2>1. c.then \in NetPlaces  BY <1>1 DEF NetPlaces, Setting
  <2>2. Goto(c.then) \in Procs  BY <1>1, <2>1, GotoFields
  <2>3. next.pc = c.then /\ next.mode = "none" /\ next.started  BY <1>1, <2>1, <2>2, GotoFields DEF Procs
  <2>4. Fails(mem, os) \/ invoke(new, next)  BY <1>8 DEF add_escape
  <2> HIDE DEF new, next
  <2>5. ReadyOK(next, new, mem)  BY <1>1, <1>2, <2>3
  <2> QED BY <2>4, <2>5, FailsIsReady, InvokeIsReady
<1> QED BY <1>3, <1>4, <1>5, <1>6, <1>7, <1>8 DEF Prepare

LEMMA UpIsReady == ASSUME NetworkInv, ReadyInv, up PROVE ReadyInv'
<1>1. c.pc = "up" /\ c.pc \in Setting /\ c.pc # "off"  BY DEF up, Setting
<1>2. c \in Procs /\ c.mode = "none"  BY <1>1, Configuring
<1>3. c.started  BY <1>1, <1>2, StartedHere
<1>4. CASE Fails(mem, os)  BY <1>4, FailsIsReady
<1>5. CASE c' = [Goto("cleanup") EXCEPT !.mode = "stale"] /\ UNCHANGED <<os, mem>>
  <2>1. "cleanup" \in NetPlaces /\ "cleanup" \notin AfterInterface  BY InterfaceIsLate DEF NetPlaces, AfterAlias
  <2>2. Goto("cleanup") \in Procs  BY <1>2, <2>1, GotoFields
  <2>3. c'.pc = "cleanup" /\ c'.mode = "stale" /\ c'.started  BY <1>2, <1>3, <1>5, <2>1, <2>2, GotoFields DEF Procs
  <2>4. ReadyOK(c', os, mem)  BY <2>1, <2>3, OutsideIsReady
  <2> QED BY <1>5, <2>4, MoveIsReady
<1>6. CASE c' = Goto("alias") /\ UNCHANGED <<os, mem>>
  <2>1. "alias" \in NetPlaces /\ "alias" \notin AfterInterface  BY InterfaceIsLate DEF NetPlaces, Setting, AfterAlias
  <2>2. c'.pc = "alias" /\ c'.mode = "none" /\ c'.started  BY <1>2, <1>3, <1>6, <2>1, GotoFields
  <2>3. ReadyOK(c', os, mem)  BY <2>1, <2>2, OutsideIsReady
  <2> QED BY <1>6, <2>3, MoveIsReady
<1> QED BY <1>4, <1>5, <1>6 DEF up

LEMMA SetAliasIsReady == ASSUME NetworkInv, ReadyInv, set_alias PROVE ReadyInv'
<1>1. c.pc = "alias" /\ c.pc \in Setting \ {"up", "guard"} /\ c.pc \in Setting /\ c.pc # "off"  BY DEF set_alias, Setting, AfterAlias
<1>2. c \in Procs /\ c.mode = "none" /\ os \in Systems /\ os.tun \in TunLinks /\ mem.table \in Tables  BY <1>1, Configuring, Alive
<1>3. CASE c' = Done /\ UNCHANGED <<os, saved, mem>>  BY <1>1, <1>3, DoneMoves
<1>4. CASE Fails(mem, os)  BY <1>4, FailsIsReady
<1>5. CASE invoke([os EXCEPT !.tun.alias = mem.table], Done)
  <2> DEFINE new == [os EXCEPT !.tun.alias = mem.table]
  <2>1. invoke(new, Done)  BY <1>5
  <2>2. /\ new.tun.index = os.tun.index /\ new.tun.link = os.tun.link /\ new.tun.addresses = os.tun.addresses
        /\ new.tun.routes = os.tun.routes /\ new.tun.dns = os.tun.dns
    BY <1>2 DEF Systems, TunLinks
  <2> HIDE DEF new
  <2>3. ReadyOK(Done, new, mem)  BY <1>1, <2>2, DoneIsReady
  <2> QED BY <2>1, <2>3, InvokeIsReady
<1>6. CASE record(link_action("alias", "-"), Half)
  <2>1. Half.pc = "alias" /\ Half.mode = "none" /\ Half.started  BY <1>1, <1>2, HalfFields, StartedHere
  <2>2. Half.pc \notin AfterInterface  BY <2>1, InterfaceIsLate DEF AfterAlias
  <2>3. ReadyOK(Half, os, mem)  BY <2>1, <2>2, OutsideIsReady
  <2> QED BY <1>1, <1>6, <2>3, RecordIsReady
<1> QED BY <1>3, <1>4, <1>5, <1>6 DEF set_alias

LEMMA RecordLinkIsReady == ASSUME NetworkInv, ReadyInv, record_link PROVE ReadyInv'
<1>1. c.pc = "link" /\ c.pc \in Setting \ {"up", "guard"} /\ c.pc # "off"  BY DEF record_link, Setting, AfterAlias
<1>2. CASE c' = Done /\ UNCHANGED <<os, saved, mem>>  BY <1>1, <1>2, DoneMoves
<1>3. CASE Fails(mem, os)  BY <1>3, FailsIsReady
<1>4. CASE record(link_action("link", os.tun.link), Done)
  <2>1. ReadyOK(Done, os, mem)  BY <1>1, DoneIsReady
  <2> QED BY <1>1, <1>4, <2>1, RecordIsReady
<1> QED BY <1>2, <1>3, <1>4 DEF record_link

LEMMA RecordInterfaceIsReady == ASSUME NetworkInv, ReadyInv, record_interface PROVE ReadyInv'
<1>1. c.pc = "interface" /\ c.pc \in Setting \ {"up", "guard"} /\ c.pc # "off"  BY DEF record_interface, Setting, AfterAlias
<1>2. CASE mem.interface = os.tun.index /\ c' = Done /\ UNCHANGED <<os, saved, mem>>  BY <1>1, <1>2, DoneMoves
<1>3. CASE LET new == [mem EXCEPT !.interface = os.tun.index] IN persist(new, new, Done)
  <2> DEFINE new == [mem EXCEPT !.interface = os.tun.index]
  <2>1. persist(new, new, Done)  BY <1>3
  <2>2. new.table = mem.table /\ new.interface = os.tun.index
    <3>1. mem \in Journals  BY <1>1, Alive
    <3> QED BY <3>1 DEF Journals
  <2> HIDE DEF new
  <2>3. ReadyOK(Done, os, new)  BY <1>1, <2>2, DoneIsReady
  <2> QED BY <2>1, <2>3, PersistIsReady
<1> QED BY <1>2, <1>3 DEF record_interface

LEMMA StartLinkIsReady == ASSUME NetworkInv, ReadyInv, start_link PROVE ReadyInv'
<1>1. c.pc = "start" /\ c.pc \in Setting \ {"up", "guard"} /\ c.pc # "off"  BY DEF start_link, Setting, AfterAlias
<1>2. os \in Systems /\ os.tun \in TunLinks  BY <1>1, Alive
<1> DEFINE new == [os EXCEPT !.tun.link = "up"]
<1>3. invoke(new, Done)  BY DEF start_link
<1>4. /\ new.tun.index = os.tun.index /\ new.tun.link = "up" /\ new.tun.addresses = os.tun.addresses
      /\ new.tun.routes = os.tun.routes /\ new.tun.dns = os.tun.dns
  BY <1>2 DEF Systems, TunLinks
<1> HIDE DEF new
<1>5. ReadyOK(Done, new, mem)  BY <1>1, <1>4, DoneIsReady
<1> QED BY <1>3, <1>5, InvokeIsReady

LEMMA SetAddressIsReady == ASSUME NetworkInv, ReadyInv, set_address PROVE ReadyInv'
<1>1. c.pc = "address" /\ c.pc \in Setting \ {"up", "guard"} /\ c.pc # "off"  BY DEF set_address, Setting, AfterAlias
<1>2. os \in Systems /\ os.tun \in TunLinks /\ ReadyOK(c, os, mem)  BY <1>1, Alive DEF ReadyInv
<1>3. \/ record(link_action("address", c.next.address), c)
      \/ c.next.address \in os.tun.addresses /\ c' = Done /\ UNCHANGED <<os, saved, mem>>
      \/ invoke([os EXCEPT !.tun.addresses = @ \cup {c.next.address}], Done)
  BY DEF set_address
<1>4. CASE record(link_action("address", c.next.address), c)  BY <1>1, <1>2, <1>4, RecordIsReady
<1>5. CASE c.next.address \in os.tun.addresses /\ c' = Done /\ UNCHANGED <<os, saved, mem>>  BY <1>1, <1>5, DoneMoves
<1>6. CASE invoke([os EXCEPT !.tun.addresses = @ \cup {c.next.address}], Done)
  <2> DEFINE new == [os EXCEPT !.tun.addresses = @ \cup {c.next.address}]
  <2>1. invoke(new, Done)  BY <1>6
  <2>2. /\ new.tun.index = os.tun.index /\ new.tun.link = os.tun.link
        /\ new.tun.addresses = os.tun.addresses \cup {c.next.address}
        /\ new.tun.routes = os.tun.routes /\ new.tun.dns = os.tun.dns
    BY <1>2 DEF Systems, TunLinks
  <2> HIDE DEF new
  <2>3. ReadyOK(Done, new, mem)  BY <1>1, <2>2, DoneIsReady
  <2> QED BY <2>1, <2>3, InvokeIsReady
<1> QED BY <1>3, <1>4, <1>5, <1>6

LEMMA EnsureRouteIsReady == ASSUME NetworkInv, ReadyInv, ensure_route PROVE ReadyInv'
<1>1. c.pc \in {"low", "high", "dns-route"} /\ c.pc \in Setting \ {"up", "guard"} /\ c.pc # "off"
  BY DEF ensure_route, Setting, AfterAlias
<1>2. os \in Systems /\ os.tun \in TunLinks /\ ReadyOK(c, os, mem)  BY <1>1, Alive DEF ReadyInv
<1> DEFINE value == IF c.pc = "dns-route" THEN c.next.dns ELSE c.pc
           a == IF c.pc = "dns-route" THEN link_action("dns-route", c.next.dns) ELSE link_action("route", c.pc)
           r == <<value, mem.table>>
<1>3. a.value = value  BY DEF link_action
<1>4. \/ r \in os.tun.routes /\ c' = Done /\ UNCHANGED <<os, saved, mem>>
      \/ Fails(mem, os)
      \/ record(a, c)
      \/ invoke([os EXCEPT !.tun.routes = @ \cup {r}], Done)
  <2>2. LET there == {q \in os.tun.routes : q[1] = a.value}
        IN CASE there # {} -> IF Recorded(a) /\ there = {owned_route(a.value, mem.table)}
                                THEN c' = Done /\ UNCHANGED <<os, saved, mem>>
                                ELSE Fails(mem, os) /\ UNCHANGED saved
             [] there = {} /\ ~Recorded(a) -> record(a, c)
             [] OTHER -> invoke([os EXCEPT !.tun.routes = @ \cup {owned_route(a.value, mem.table)}], Done)
    BY DEF ensure_route
  <2> HIDE DEF a, value
  <2>1. owned_route(a.value, mem.table) = r  BY <1>3 DEF owned_route
  <2>3. {q \in os.tun.routes : q[1] = a.value} = {r} => r \in os.tun.routes
    <3> HIDE DEF r
    <3>1. r \in {r}  OBVIOUS
    <3> QED BY <3>1
  <2> QED BY <2>1, <2>2, <2>3
<1>5. /\ c.pc = "low" => r = <<"low", mem.table>>
      /\ c.pc = "high" => r = <<"high", mem.table>>
      /\ c.pc = "dns-route" => r = <<c.next.dns, mem.table>>
  OBVIOUS
<1> HIDE DEF r, a, value
<1>6. CASE r \in os.tun.routes /\ c' = Done /\ UNCHANGED <<os, saved, mem>>  BY <1>1, <1>5, <1>6, DoneMoves
<1>7. CASE Fails(mem, os)  BY <1>7, FailsIsReady
<1>8. CASE record(a, c)  BY <1>1, <1>2, <1>8, RecordIsReady
<1>9. CASE invoke([os EXCEPT !.tun.routes = @ \cup {r}], Done)
  <2> DEFINE new == [os EXCEPT !.tun.routes = @ \cup {r}]
  <2>1. invoke(new, Done)  BY <1>9
  <2>2. /\ new.tun.index = os.tun.index /\ new.tun.link = os.tun.link /\ new.tun.addresses = os.tun.addresses
        /\ new.tun.routes = os.tun.routes \cup {r} /\ new.tun.dns = os.tun.dns
    BY <1>2 DEF Systems, TunLinks
  <2> HIDE DEF new
  <2>3. ReadyOK(Done, new, mem)  BY <1>1, <1>5, <2>2, DoneIsReady
  <2> QED BY <2>1, <2>3, InvokeIsReady
<1> QED BY <1>4, <1>6, <1>7, <1>8, <1>9

LEMMA SetDnsIsReady == ASSUME NetworkInv, ReadyInv, set_dns PROVE ReadyInv'
<1>1. c.pc = "dns" /\ c.pc \in Setting \ {"up", "guard"} /\ c.pc # "off"  BY DEF set_dns, Setting, AfterAlias
<1>2. os \in Systems /\ os.tun \in TunLinks /\ ReadyOK(c, os, mem)  BY <1>1, Alive DEF ReadyInv
<1>3. CASE Fails(mem, os)  BY <1>3, FailsIsReady
<1>4. CASE record(link_action("dns", "-"), c)  BY <1>1, <1>2, <1>4, RecordIsReady
<1>5. CASE invoke([os EXCEPT !.tun.dns = c.next.dns], Done)
  <2> DEFINE new == [os EXCEPT !.tun.dns = c.next.dns]
  <2>1. invoke(new, Done)  BY <1>5
  <2>2. /\ new.tun.index = os.tun.index /\ new.tun.link = os.tun.link /\ new.tun.addresses = os.tun.addresses
        /\ new.tun.routes = os.tun.routes /\ new.tun.dns = c.next.dns
    BY <1>2 DEF Systems, TunLinks
  <2> HIDE DEF new
  <2>3. ReadyOK(Done, new, mem)  BY <1>1, <2>2, DoneIsReady
  <2> QED BY <2>1, <2>3, InvokeIsReady
<1> QED BY <1>3, <1>4, <1>5 DEF set_dns

LEMMA KeepEndpointIsReady == ASSUME NetworkInv, ReadyInv, keep_endpoint PROVE ReadyInv'
<1>1. c.pc = "endpoints" /\ c.pc \in Setting \ {"up", "guard"} /\ c.pc # "off"  BY DEF keep_endpoint, Setting, AfterAlias
<1> DEFINE new == [mem EXCEPT !.endpoints = {c.dial}]
<1>2. persist(new, mem, Done)  BY DEF keep_endpoint
<1>3. new.table = mem.table /\ new.interface = mem.interface /\ new.endpoints = {c.dial}
  <2>1. mem \in Journals  BY <1>1, Alive
  <2> QED BY <2>1 DEF Journals
<1> HIDE DEF new
<1>4. ReadyOK(Done, os, new)  BY <1>1, <1>3, DoneIsReady
<1> QED BY <1>2, <1>4, PersistIsReady

(* The guard of a finished up admits the one link and the one endpoint.    *)
LEMMA ProtectAgainIsReady == ASSUME NetworkInv, ReadyInv, protect_again PROVE ReadyInv'
<1>1. c.pc = "guard" /\ c.pc \in Setting /\ c.pc # "off"  BY DEF protect_again, Setting, AfterAlias
<1>2. /\ c \in Procs /\ c.mode = "none" /\ os.tun.index # None /\ mem.table # None /\ PlaceOK(c, os, mem)
  BY <1>1, Configuring, NetworkConstants
<1>3. c.started  BY <1>1, <1>2, StartedHere
<1>4. os \in Systems /\ Keeps(os, mem) /\ os.tun.alias = mem.table  BY <1>1, <1>2, Alive DEF PlaceOK, AfterAlias
<1>5. ReadyOK(c, os, mem)  BY <1>1 DEF ReadyInv
<1>6. /\ mem.interface = os.tun.index /\ os.tun.link = "up" /\ c.next.address \in os.tun.addresses
      /\ <<"low", mem.table>> \in os.tun.routes /\ <<"high", mem.table>> \in os.tun.routes
      /\ <<c.next.dns, mem.table>> \in os.tun.routes /\ os.tun.dns = c.next.dns /\ mem.endpoints = {c.dial}
  BY <1>1, <1>5 DEF ReadyOK, Since, AfterEndpoints, AfterDns, AfterDnsRoute, AfterHigh, AfterLow, AfterAddress, AfterStart,
                    AfterInterface
<1> DEFINE guard == [table |-> mem.table, tun |-> os.tun.index, endpoints |-> {c.dial}]
           p == Protected(os)
           next == [Goto("cleanup") EXCEPT !.mode = "final"]
<1>7. TunIs(os, mem.table, mem.interface)  BY <1>2, <1>4, <1>6 DEF TunIs
<1>8. p = [os EXCEPT !.guards = {g \in @ : g.table # mem.table} \cup {guard}]  BY <1>2, <1>6, <1>7 DEF Protected
<1>9. {g \in os.guards : g.table # mem.table} = {}  BY <1>4 DEF Keeps
<1> HIDE DEF guard
<1>10. p.guards = {guard} /\ p.tun = os.tun  BY <1>4, <1>8, <1>9 DEF Systems
<1>11. "cleanup" \in NetPlaces  BY DEF NetPlaces
<1>12. Goto("cleanup") \in Procs  BY <1>2, <1>11, GotoFields
<1>13. next.pc = "cleanup" /\ next.mode = "final" /\ next.started /\ next.dial = c.dial /\ next.next = c.next
  BY <1>2, <1>3, <1>11, <1>12, GotoFields DEF Procs
<1>14. invoke(p, next)  BY DEF protect_again
<1> HIDE DEF p, next
<1>15. ReadyOK(next, p, mem)  BY <1>4, <1>6, <1>10, <1>13 DEF ReadyOK, guard
<1> QED BY <1>14, <1>15, InvokeIsReady

LEMMA ConfigureIsReady == ASSUME NetworkInv, ReadyInv, Configure PROVE ReadyInv'
BY UpIsReady, SetAliasIsReady, RecordLinkIsReady, RecordInterfaceIsReady, StartLinkIsReady, SetAddressIsReady,
   EnsureRouteIsReady, SetDnsIsReady, KeepEndpointIsReady, ProtectAgainIsReady DEF Configure
----------------------------------------------------------------------------
(* The last cleanup of up takes nothing of this lease.                     *)
LEMMA FinalUndo ==
  ASSUME NetworkInv, c.pc = "cleanup", c.mode = "final", NEW a \in UndoActions, Wanted(a), validate_action(a)
  PROVE  LET new == Undone(a, os, mem.table)
         IN  /\ new.guards = os.guards /\ new.tun.index = os.tun.index /\ new.tun.alias = os.tun.alias
             /\ new.tun.link = os.tun.link /\ new.tun.dns = os.tun.dns
             /\ c.next.address \in os.tun.addresses => c.next.address \in new.tun.addresses
             /\ \A x \in {"low", "high", c.next.dns} :
                  <<x, mem.table>> \in os.tun.routes => <<x, mem.table>> \in new.tun.routes
<1> DEFINE new == Undone(a, os, mem.table)
<1>1. os \in Systems /\ os.tun \in TunLinks  BY Alive
<1>2. \/ a.kind = "address" /\ a.value # c.next.address
      \/ a.kind = "dns-route" /\ a.value # c.next.dns
      \/ a.kind = "escape"
  BY DEF Wanted
<1>3. CASE new = os  BY <1>3
<1>4. CASE a.kind = "address" /\ a.value # c.next.address /\ new = [os EXCEPT !.tun.addresses = @ \ {a.value}]
  BY <1>1, <1>4 DEF Systems, TunLinks
<1>5. CASE a.kind = "dns-route" /\ a.value # c.next.dns /\ new = [os EXCEPT !.tun.routes = @ \ {<<a.value, mem.table>>}]
  <2>1. a.value \notin {"low", "high"}  BY <1>5, NetworkConstants DEF validate_action
  <2>2. /\ new.guards = os.guards /\ new.tun.index = os.tun.index /\ new.tun.alias = os.tun.alias
        /\ new.tun.link = os.tun.link /\ new.tun.dns = os.tun.dns /\ new.tun.addresses = os.tun.addresses
        /\ new.tun.routes = os.tun.routes \ {<<a.value, mem.table>>}
    BY <1>1, <1>5 DEF Systems, TunLinks
  <2> HIDE DEF new
  <2>3. ASSUME NEW x \in {"low", "high", c.next.dns}, <<x, mem.table>> \in os.tun.routes PROVE <<x, mem.table>> \in new.tun.routes
    <3>1. x # a.value  BY <1>5, <2>1
    <3>2. <<x, mem.table>> # <<a.value, mem.table>>  BY <3>1
    <3> QED BY <2>2, <2>3, <3>2
  <2> QED BY <2>2, <2>3 DEF new
<1>6. CASE a.kind = "escape" /\ new = [os EXCEPT !.escapes = @ \ {<<a.value, mem.table>>}]  BY <1>1, <1>6 DEF Systems
<1> QED BY <1>2, <1>3, <1>4, <1>5, <1>6 DEF Undone, owned_route

LEMMA UndoIsReady == ASSUME NetworkInv, ReadyInv, undo PROVE ReadyInv'
<1>1. c.pc = "cleanup" /\ c.pc # "off" /\ Pending # {}  BY DEF undo
<1>2. /\ c \in Procs /\ c.mode # "none" /\ ReadyOK(c, os, mem) /\ JournalOK(mem) /\ mem.undo \in Seq(UndoActions)
  BY <1>1, Alive DEF PlaceOK, ReadyInv
<1> DEFINE a == mem.undo[LastWanted]
           new == Undone(a, os, mem.table)
<1>3. CASE Fails(mem, os)  BY <1>3, FailsIsReady
<1>4. CASE invoke(new, Half)
  <2>0. invoke(new, Half)  BY <1>4
  <2>1. /\ Half.pc = "cleanup" /\ Half.mode = c.mode /\ Half.started = c.started /\ Half.next = c.next /\ Half.dial = c.dial
    BY <1>1, <1>2, HalfFields
  <2>2. CASE c.mode # "final"
    <3>1. Half.pc \notin AfterInterface  BY <2>1, InterfaceIsLate DEF AfterAlias
    <3>2. c.mode # "all" => c.started  BY <1>1, StartedHere
    <3> HIDE DEF new
    <3>3. ReadyOK(Half, new, mem)  BY <2>1, <2>2, <3>1, <3>2, OutsideIsReady
    <3> QED BY <2>0, <3>3, InvokeIsReady
  <2>3. CASE c.mode = "final"
    <3>1. LastWanted \in DOMAIN mem.undo  BY <1>1, LastIsWanted
    <3>2. LastWanted \in Pending  BY <1>1, LastIsWanted
    <3>3. a \in UndoActions /\ Wanted(a)  BY <1>2, <3>1, <3>2 DEF Pending
    <3>4. mem # Empty  BY <3>1, EmptyJournal
    <3>5. validate_action(a)  BY <1>2, <3>1, <3>4 DEF JournalOK, validate_state
    <3> HIDE DEF a
    <3>6. /\ new.guards = os.guards /\ new.tun.index = os.tun.index /\ new.tun.alias = os.tun.alias
          /\ new.tun.link = os.tun.link /\ new.tun.dns = os.tun.dns
          /\ c.next.address \in os.tun.addresses => c.next.address \in new.tun.addresses
          /\ \A x \in {"low", "high", c.next.dns} :
               <<x, mem.table>> \in os.tun.routes => <<x, mem.table>> \in new.tun.routes
      BY <1>1, <2>3, <3>3, <3>5, FinalUndo
    <3> HIDE DEF new
    <3>7. ReadyOK(Half, new, mem)  BY <1>1, <1>2, <2>1, <2>3, <3>6 DEF ReadyOK, Since
    <3> QED BY <2>0, <3>7, InvokeIsReady
  <2> QED BY <2>2, <2>3
<1> QED BY <1>3, <1>4 DEF undo

LEMMA ForgetIsReady == ASSUME NetworkInv, ReadyInv, forget PROVE ReadyInv'
<1>1. c.pc = "cleanup" /\ c.pc # "off"  BY DEF forget
<1>2. c \in Procs /\ ReadyOK(c, os, mem) /\ mem \in Journals  BY <1>1, Alive DEF ReadyInv
<1> DEFINE v == RemoveAt(mem.undo, LastWanted)
           new == [mem EXCEPT !.undo = v]
           next == [c EXCEPT !.half = FALSE]
<1>3. persist(new, mem, next)  BY DEF forget
<1> HIDE DEF v
<1>4. new.table = mem.table /\ new.interface = mem.interface /\ new.endpoints = mem.endpoints  BY <1>2 DEF Journals
<1>5. /\ next.pc = c.pc /\ next.mode = c.mode /\ next.started = c.started /\ next.next = c.next /\ next.dial = c.dial
  BY <1>2 DEF Procs
<1> HIDE DEF new, next
<1>6. ReadyOK(next, os, new)  BY <1>2, <1>4, <1>5 DEF ReadyOK, Since
<1> QED BY <1>3, <1>6, PersistIsReady

LEMMA CleanedIsReady == ASSUME NetworkInv, ReadyInv, cleaned PROVE ReadyInv'
<1>1. c.pc = "cleanup" /\ c.pc # "off"  BY DEF cleaned
<1>2. c \in Procs /\ (c.mode # "all" => c.started)  BY <1>1, Alive, StartedHere
<1>3. CASE c.mode = "stale" /\ persist([mem EXCEPT !.interface = None], [mem EXCEPT !.interface = None],
                                        [Goto("alias") EXCEPT !.mode = "none"])
  <2> DEFINE new == [mem EXCEPT !.interface = None]
             next == [Goto("alias") EXCEPT !.mode = "none"]
  <2>1. persist(new, new, next)  BY <1>3
  <2>2. "alias" \in NetPlaces /\ "alias" \notin AfterInterface  BY InterfaceIsLate DEF NetPlaces, Setting, AfterAlias
  <2>3. Goto("alias") \in Procs  BY <1>2, <2>2, GotoFields
  <2>4. next.pc = "alias" /\ next.mode = "none" /\ next.started  BY <1>2, <1>3, <2>2, <2>3, GotoFields DEF Procs
  <2> HIDE DEF new, next
  <2>5. ReadyOK(next, os, new)  BY <2>2, <2>4, OutsideIsReady
  <2> QED BY <2>1, <2>5, PersistIsReady
<1>4. CASE c.mode = "final" /\ c' = [Loop EXCEPT !.pc = "connected", !.lease = c.next] /\ UNCHANGED <<os, saved, mem>>
  <2>1. c'.pc = "connected" /\ c'.mode = "none" /\ c'.started  BY <1>2, <1>4, LoopFields DEF Procs
  <2>2. c'.pc \notin AfterInterface  BY <2>1, InterfaceIsLate DEF AfterAlias
  <2>3. ReadyOK(c', os, mem)  BY <2>1, <2>2, OutsideIsReady
  <2> QED BY <1>4, <2>3, MoveIsReady
<1>5. CASE c.mode = "all" /\ c' = Goto("table") /\ UNCHANGED <<os, saved, mem>>
  <2>1. "table" \in NetPlaces  BY DEF NetPlaces
  <2>2. c'.pc = "table" /\ c'.mode = "all"  BY <1>2, <1>5, <2>1, GotoFields
  <2>3. c'.pc \notin AfterInterface  BY <2>2, InterfaceIsLate DEF AfterAlias
  <2>4. ReadyOK(c', os, mem)  BY <2>2, <2>3, OutsideIsReady
  <2> QED BY <1>5, <2>4, MoveIsReady
<1> QED BY <1>3, <1>4, <1>5 DEF cleaned

LEMMA DownIsReady == ASSUME NetworkInv, ReadyInv, delete_table \/ remove_file PROVE ReadyInv'
<1>1. CASE remove_file  BY <1>1, GoneIsReady DEF remove_file, End
<1>2. CASE delete_table
  <2>1. c.pc = "table" /\ c.pc # "off"  BY <1>2 DEF delete_table
  <2>2. c \in Procs /\ c.mode = "all"  BY <2>1, Alive DEF PlaceOK
  <2>3. "remove" \in NetPlaces /\ "remove" \notin AfterInterface  BY InterfaceIsLate DEF NetPlaces, AfterAlias
  <2>4. Goto("remove").pc = "remove" /\ Goto("remove").mode = "all"  BY <2>2, <2>3, GotoFields
  <2>5. ASSUME NEW o PROVE ReadyOK(Goto("remove"), o, mem)  BY <2>3, <2>4, OutsideIsReady
  <2>6. CASE c' = Goto("remove") /\ UNCHANGED <<os, saved, mem>>  BY <2>5, <2>6, MoveIsReady
  <2>7. CASE invoke([os EXCEPT !.guards = {g \in @ : g.table # mem.table}], Goto("remove"))
    BY <2>5, <2>7, InvokeIsReady
  <2> QED BY <1>2, <2>6, <2>7 DEF delete_table
<1> QED BY <1>1, <1>2

LEMMA ClientIsReady == ASSUME NetworkInv, ReadyInv, Client PROVE ReadyInv'
<1>0. ASSUME NEW p, NEW o, NEW s, p.pc \in {"loop", "dial", "prepare", "device"}, p.mode = "none",
             p.started \/ (p.pc \in {"loop", "dial"} /\ s.endpoints = {})
      PROVE  ReadyOK(p, o, s)
  <2>1. p.pc \notin AfterInterface  BY <1>0, InterfaceIsLate DEF AfterAlias
  <2> QED BY <1>0, <2>1, OutsideIsReady
<1>1. CASE Cancel \/ Die  BY <1>1, GoneIsReady DEF Cancel, Die, End
<1>2. CASE Device
  <2>1. c.pc = "device" /\ c.pc # "off" /\ mem' = mem  BY <1>2 DEF Device
  <2>2. c \in Procs /\ c.mode = "none"  BY <2>1, Alive DEF PlaceOK
  <2>3. c.started  BY <2>1, <2>2, StartedHere
  <2>4. "prepare" \in NetPlaces  BY DEF NetPlaces, Preparing
  <2>5. Goto("prepare") \in Procs  BY <2>2, <2>4, GotoFields
  <2>6. c' = [Goto("prepare") EXCEPT !.then = "up"]  BY <1>2 DEF Device
  <2>7. c'.pc = "prepare" /\ c'.mode = "none" /\ c'.started  BY <2>2, <2>3, <2>4, <2>5, <2>6, GotoFields DEF Procs
  <2> QED BY <1>0, <2>1, <2>7 DEF ReadyInv
<1>3. ASSUME NEW e \in Endpoints, Dial(e) PROVE ReadyInv'
  <2>1. c.pc = "loop" /\ c.pc # "off" /\ UNCHANGED <<os, saved, mem>>  BY <1>3 DEF Dial
  <2>2. c \in Procs /\ c.mode = "none"  BY <2>1, Alive DEF PlaceOK
  <2>3. c.started \/ mem.endpoints = {}  BY <2>1, <2>2 DEF ReadyInv, ReadyOK
  <2> DEFINE to == IF c.started THEN "prepare" ELSE "dial"
  <2>4. to \in NetPlaces  BY DEF NetPlaces, Preparing
  <2>5. c' = [Goto(to) EXCEPT !.then = "dial", !.dial = e, !.endpoints = resolve_endpoints]  BY <1>3 DEF Dial
  <2> HIDE DEF to
  <2>6. Goto(to) \in Procs  BY <2>2, <2>4, GotoFields
  <2>7. c'.pc = to /\ c'.mode = "none" /\ c'.started = c.started  BY <2>2, <2>4, <2>5, <2>6, GotoFields DEF Procs
  <2>8. ReadyOK(c', os, mem)  BY <1>0, <2>3, <2>7 DEF to
  <2> QED BY <2>1, <2>8, MoveIsReady
<1>4. ASSUME NEW lease \in Leases, Connected(lease) PROVE ReadyInv'
  <2>1. c.pc = "dial" /\ c.pc # "off" /\ UNCHANGED <<os, saved, mem>>  BY <1>4 DEF Connected
  <2>2. c \in Procs /\ c.mode = "none"  BY <2>1, Alive DEF PlaceOK
  <2> DEFINE to == IF c.started THEN "device" ELSE "prepare"
  <2>4. to \in NetPlaces  BY DEF NetPlaces, Preparing
  <2>5. c' = [Goto(to) EXCEPT !.then = "device", !.next = lease, !.started = TRUE]  BY <1>4 DEF Connected
  <2> HIDE DEF to
  <2>6. Goto(to) \in Procs  BY <2>2, <2>4, GotoFields
  <2>7. c'.pc = to /\ c'.mode = "none" /\ c'.started  BY <2>2, <2>4, <2>5, <2>6, GotoFields DEF Procs
  <2>8. ReadyOK(c', os, mem)  BY <1>0, <2>7 DEF to
  <2> QED BY <2>1, <2>8, MoveIsReady
<1> QED BY <1>1, <1>2, <1>3, <1>4 DEF Client

LEMMA EventIsReady == ASSUME NetworkInv, ReadyInv, Event PROVE ReadyInv'
<1>0. ASSUME NEW p, NEW s, p.pc = "loop", p.mode = "none", p.started \/ s.endpoints = {}, NEW o PROVE ReadyOK(p, o, s)
  <2>1. p.pc \notin AfterInterface  BY <1>0, InterfaceIsLate DEF AfterAlias
  <2> QED BY <1>0, <2>1, OutsideIsReady
<1>1. CASE Start
  <2>1. mem' = saved /\ os' = os  BY <1>1 DEF Start, open_manager, read_state
  <2>2. c'.pc = "loop" /\ c'.mode = "none" /\ (c'.started <=> saved.endpoints # {})
    <3>1. PICK known : c' = [Off EXCEPT !.pc = "loop", !.started = saved.endpoints # {}, !.endpoints = known]
      BY <1>1 DEF Start
    <3> QED BY <3>1, OffFields DEF Procs
  <2>3. ReadyOK(c', os', mem')  BY <1>0, <2>1, <2>2
  <2> QED BY <2>3 DEF ReadyInv
<1>2. CASE cleanup_network \/ Reboot  BY <1>2, GoneIsReady DEF cleanup_network, Reboot
<1>3. CASE Retry \/ run_connection
  <2>1. CASE Fails(mem, os)  BY <2>1, FailsIsReady
  <2>2. CASE c' = Loop /\ UNCHANGED <<os, mem>>
    <3>1. c.pc \in {"dial", "connected"} /\ c.pc # "off"  BY <1>3 DEF Retry, run_connection
    <3>2. c \in Procs /\ c.mode = "none"  BY <3>1, Alive DEF PlaceOK
    <3>3. c.started \/ mem.endpoints = {}  BY <3>1, <3>2 DEF ReadyInv, ReadyOK
    <3>4. Loop.pc = "loop" /\ Loop.mode = "none" /\ Loop.started = c.started  BY <3>2, LoopFields
    <3>5. ReadyOK(c', os, mem)  BY <1>0, <2>2, <3>3, <3>4
    <3> QED BY <2>2, <3>5, MoveIsReady
  <2> QED BY <1>3, <2>1, <2>2 DEF Retry, run_connection
<1>4. ASSUME os'.tun = os.tun, os'.guards = os.guards, UNCHANGED <<saved, mem, c>> PROVE ReadyInv'
  BY <1>4 DEF ReadyInv, ReadyOK
<1>5. os \in Systems  BY DEF NetworkInv, SystemOK
<1>6. CASE Rename  BY <1>4, <1>5, <1>6 DEF Rename, Systems
<1>7. CASE Replace  BY <1>4, <1>5, <1>7 DEF Replace, Systems
<1>8. ASSUME NEW e \in AdminRoutes, AdminRoute(e) PROVE ReadyInv'  BY <1>4, <1>5, <1>8 DEF AdminRoute, Systems
<1> QED BY <1>1, <1>2, <1>3, <1>6, <1>7, <1>8 DEF Event

LEMMA ReadyInvStep == ASSUME NetworkInv, ReadyInv, [NetworkNext]_network_vars PROVE ReadyInv'
<1>1. CASE Prepare  BY <1>1, PrepareIsReady
<1>2. CASE Configure  BY <1>2, ConfigureIsReady
<1>3. CASE Cleanup  BY <1>3, UndoIsReady, ForgetIsReady, CleanedIsReady, DownIsReady DEF Cleanup
<1>4. CASE Client  BY <1>4, ClientIsReady
<1>5. CASE Event  BY <1>5, EventIsReady
<1>6. CASE UNCHANGED network_vars  BY <1>6 DEF network_vars, ReadyInv
<1> QED BY <1>1, <1>2, <1>3, <1>4, <1>5, <1>6 DEF NetworkNext
----------------------------------------------------------------------------
LEMMA ReadyInit == ASSUME NetworkInit PROVE ReadyInv
BY OffFields DEF NetworkInit, ReadyInv

(* The steps that do not reach a place at which something is promised.     *)
LEMMA ElsewhereStep == ASSUME c'.pc \notin {"dial", "connected"} PROVE ReadyStep
BY DEF ReadyStep

LEMMA FailsStep == ASSUME NEW s, NEW o, Fails(s, o) PROVE ReadyStep
<1>1. c' \in {Off, Down}  BY DEF Fails, End
<1>2. c'.pc \in {"off", "cleanup"}  BY <1>1, OffFields, DownFields
<1> QED BY <1>2, ElsewhereStep

LEMMA PersistStep ==
  ASSUME NEW new, NEW back, NEW next, persist(new, back, next), next.pc \notin {"dial", "connected"}
  PROVE  ReadyStep
BY FailsStep, ElsewhereStep DEF persist

LEMMA InvokeStep ==
  ASSUME NEW new, NEW next, invoke(new, next), next.pc \notin {"dial", "connected"}
  PROVE  ReadyStep
BY FailsStep, ElsewhereStep DEF invoke

LEMMA RecordStep ==
  ASSUME NEW a, NEW next, record(a, next), next.pc \notin {"dial", "connected"}
  PROVE  ReadyStep
BY FailsStep, PersistStep DEF record

(* To the dial, with the guard and with a route beside the tunnel.         *)
LEMMA DialStep ==
  ASSUME c'.pc = "dial", \E g \in os'.guards : c'.dial \in g.endpoints,
         \/ \E r \in os'.escapes : r[1] = c'.dial
         \/ c'.dial \in os'.foreign
  PROVE  ReadyStep
<1>1. HostRoutes(c.dial)' # {}  BY DEF HostRoutes
<1> QED BY <1>1 DEF ReadyStep

LEMMA PrepareStep == ASSUME NetworkInv, ReadyInv, Prepare PROVE ReadyStep
<1>1. /\ c.pc \in {"prepare", "escape", "add"} /\ c.pc # "off" /\ c \in Procs /\ os \in Systems
      /\ c.then \in {"dial", "device", "up"} /\ c.then \in NetPlaces
  <2>1. c.pc \in {"prepare", "escape", "add"} /\ c.pc # "off"
    BY DEF Prepare, preflight, initialize_state, admit, protect, ensure_escape, add_escape
  <2>2. c \in Procs /\ PlaceOK(c, os, mem) /\ os \in Systems  BY <2>1, Alive
  <2>3. c.then \in {"dial", "device", "up"}  BY <2>1, <2>2 DEF PlaceOK, Preparing, Procs
  <2> QED BY <2>1, <2>2, <2>3 DEF NetPlaces, Setting
<1>2. CASE preflight
  <2>1. Half.pc = "prepare"  BY <1>1, <1>2, HalfFields DEF preflight
  <2> QED BY <1>2, <2>1, FailsStep, ElsewhereStep DEF preflight
<1>3. CASE initialize_state  BY <1>3, PersistStep DEF initialize_state
<1>4. CASE admit  BY <1>4, FailsStep, PersistStep DEF admit
<1>5. CASE protect
  <2>1. "escape" \in NetPlaces  BY DEF NetPlaces, Preparing
  <2>2. Goto("escape").pc = "escape"  BY <1>1, <2>1, GotoFields
  <2> QED BY <1>5, <2>2, InvokeStep DEF protect
<1>6. CASE ensure_escape
  <2>1. c.pc = "escape" /\ \E g \in os.guards : c.dial \in g.endpoints  BY <1>6 DEF ensure_escape, ReadyInv, ReadyOK
  <2>2. CASE Fails(mem, os)  BY <2>2, FailsStep
  <2>3. CASE Cardinality(HostRoutes(c.dial)) = 1 /\ c' = Goto(c.then) /\ UNCHANGED <<os, saved, mem>>
    <3>1. c'.pc = c.then /\ c'.dial = c.dial  BY <1>1, <2>3, GotoFields
    <3>2. HostRoutes(c.dial) # {}  BY <2>3, FS_EmptySet
    <3>3. (\E r \in os.escapes : r[1] = c.dial) \/ c.dial \in os.foreign  BY <3>2 DEF HostRoutes
    <3>4. CASE c.then = "dial"  BY <2>1, <2>3, <3>1, <3>3, <3>4, DialStep
    <3>5. CASE c.then # "dial"  BY <1>1, <3>1, <3>5, ElsewhereStep
    <3> QED BY <3>4, <3>5
  <2>4. CASE LET a == escape_action(c.dial)
                 next == [Goto("add") EXCEPT !.escape = a]
             IN IF Recorded(a) THEN c' = next /\ UNCHANGED <<os, saved, mem>> ELSE record(a, next)
    <3> DEFINE a == escape_action(c.dial)
               next == [Goto("add") EXCEPT !.escape = a]
    <3>1. "add" \in NetPlaces  BY DEF NetPlaces, Preparing
    <3>2. Goto("add") \in Procs  BY <1>1, <3>1, GotoFields
    <3>3. next.pc = "add"  BY <1>1, <3>1, <3>2, GotoFields DEF Procs
    <3>4. IF Recorded(a) THEN c' = next /\ UNCHANGED <<os, saved, mem>> ELSE record(a, next)  BY <2>4
    <3> HIDE DEF next, a
    <3> QED BY <3>3, <3>4, ElsewhereStep, RecordStep
  <2> QED BY <1>6, <2>2, <2>3, <2>4 DEF ensure_escape
<1>7. CASE add_escape
  <2> DEFINE new == [os EXCEPT !.escapes = @ \cup {owned_route(c.dial, mem.table)}]
             next == [Goto(c.then) EXCEPT !.escape = None]
  <2>1. Goto(c.then) \in Procs  BY <1>1, GotoFields
  <2>2. next.pc = c.then /\ next.dial = c.dial  BY <1>1, <2>1, GotoFields DEF Procs
  <2>3. c.pc = "add" /\ \E g \in os.guards : c.dial \in g.endpoints  BY <1>7 DEF add_escape, ReadyInv, ReadyOK
  <2>4. new.guards = os.guards /\ <<c.dial, mem.table>> \in new.escapes  BY <1>1 DEF Systems, owned_route
  <2>5. Fails(mem, os) \/ invoke(new, next)  BY <1>7 DEF add_escape
  <2> HIDE DEF new, next
  <2>6. CASE c.then # "dial"  BY <1>1, <2>2, <2>5, <2>6, FailsStep, InvokeStep
  <2>7. CASE c.then = "dial"
    <3>1. CASE \E o \in {os, new} : Fails(mem, o)  BY <3>1, FailsStep
    <3>2. CASE os' = new /\ c' = next
      <4>1. <<c.dial, mem.table>>[1] = c.dial  OBVIOUS
      <4>2. \E r \in os'.escapes : r[1] = c'.dial  BY <2>2, <2>4, <3>2, <4>1
      <4> QED BY <2>2, <2>3, <2>4, <2>7, <3>2, <4>2, DialStep
    <3> QED BY <2>5, <3>1, <3>2 DEF invoke
  <2> QED BY <2>6, <2>7
<1> QED BY <1>2, <1>3, <1>4, <1>5, <1>6, <1>7 DEF Prepare

LEMMA ConfigureStep == ASSUME NetworkInv, Configure PROVE ReadyStep
<1>1. c.pc \in Setting /\ c.pc # "off" /\ c.pc \notin {"dial", "connected"}
  BY DEF Configure, up, set_alias, record_link, record_interface, start_link, set_address, ensure_route, set_dns,
         keep_endpoint, protect_again, Setting, AfterAlias
<1>2. c \in Procs  BY <1>1, Alive
<1>3. ASSUME c.pc \notin {"up", "guard"} PROVE Done.pc \notin {"dial", "connected"}
  <2>1. After(c.pc) \in AfterAlias  BY <1>1, <1>3, AfterIs DEF Setting, AfterAlias
  <2>2. Done.pc = After(c.pc)  BY <1>2, <2>1, GotoFields DEF Done, NetPlaces, Setting
  <2> QED BY <2>1, <2>2 DEF AfterAlias
<1>4. Half.pc \notin {"dial", "connected"}  BY <1>1, <1>2, HalfFields
<1>5. "cleanup" \in NetPlaces /\ "alias" \in NetPlaces  BY DEF NetPlaces, Setting
<1>6. ASSUME NEW m PROVE [Goto("cleanup") EXCEPT !.mode = m].pc = "cleanup"
  <2>1. Goto("cleanup") \in Procs /\ Goto("cleanup").pc = "cleanup"  BY <1>2, <1>5, GotoFields
  <2> QED BY <2>1 DEF Procs
<1>7. Goto("alias").pc = "alias"  BY <1>2, <1>5, GotoFields
<1>8. CASE up
  <2>1. CASE Fails(mem, os)  BY <2>1, FailsStep
  <2>2. CASE c' = IF PreviousIndex # None /\ ~TunIs(os, mem.table, PreviousIndex)
                    THEN [Goto("cleanup") EXCEPT !.mode = "stale"] ELSE Goto("alias")
    <3>1. c'.pc \in {"cleanup", "alias"}  BY <1>6, <1>7, <2>2
    <3> QED BY <3>1, ElsewhereStep
  <2> QED BY <1>8, <2>1, <2>2 DEF up
<1>9. CASE set_alias
  BY <1>3, <1>4, <1>9, FailsStep, InvokeStep, RecordStep, ElsewhereStep DEF set_alias
<1>10. CASE record_link  BY <1>3, <1>10, FailsStep, RecordStep, ElsewhereStep DEF record_link
<1>11. CASE record_interface  BY <1>3, <1>11, PersistStep, ElsewhereStep DEF record_interface
<1>12. CASE start_link  BY <1>3, <1>12, InvokeStep DEF start_link
<1>13. CASE set_address  BY <1>1, <1>3, <1>13, InvokeStep, RecordStep, ElsewhereStep DEF set_address
<1>14. CASE ensure_route
  BY <1>1, <1>3, <1>14, FailsStep, InvokeStep, RecordStep, ElsewhereStep DEF ensure_route
<1>15. CASE set_dns  BY <1>1, <1>3, <1>15, FailsStep, InvokeStep, RecordStep DEF set_dns
<1>16. CASE keep_endpoint  BY <1>3, <1>16, PersistStep DEF keep_endpoint
<1>17. CASE protect_again  BY <1>6, <1>17, InvokeStep DEF protect_again
<1> QED BY <1>8, <1>9, <1>10, <1>11, <1>12, <1>13, <1>14, <1>15, <1>16, <1>17 DEF Configure

(* With nothing left to clean up, what is there is what this lease needs.  *)
LEMMA OnlyThisLease ==
  ASSUME NetworkInv, ReadyInv, c.pc = "cleanup", c.mode = "final", Pending = {}
  PROVE  /\ os.guards = {[table |-> saved.table, tun |-> os.tun.index, endpoints |-> {c.dial}]}
         /\ os.tun = [index |-> os.tun.index, alias |-> saved.table, link |-> "up", addresses |-> {c.next.address},
                      routes |-> Routes(c.next.dns), dns |-> c.next.dns]
         /\ \A r \in os.escapes : r[1] = c.dial
<1>1. c.pc # "off"  OBVIOUS
<1>2. /\ ReadyOK(c, os, mem) /\ UndoneBy(os, mem.table, Range(mem.undo)) /\ os \in Systems /\ os.tun \in TunLinks
      /\ mem = saved /\ mem.undo \in Seq(UndoActions) /\ JournalOK(mem)
  BY <1>1, Alive DEF ReadyInv
<1>3. /\ saved.interface = os.tun.index /\ os.tun.link = "up" /\ c.next.address \in os.tun.addresses
      /\ <<"low", saved.table>> \in os.tun.routes /\ <<"high", saved.table>> \in os.tun.routes
      /\ <<c.next.dns, saved.table>> \in os.tun.routes /\ os.tun.dns = c.next.dns /\ os.tun.alias = saved.table
      /\ os.guards = {[table |-> saved.table, tun |-> os.tun.index, endpoints |-> {c.dial}]}
  BY <1>2 DEF ReadyOK, Since
<1>4. ASSUME NEW a \in Range(mem.undo) PROVE ~Wanted(a) /\ validate_action(a)
  <2>1. PICK i \in DOMAIN mem.undo : a = mem.undo[i]  BY DEF Range
  <2>2. mem # Empty  BY <2>1, EmptyJournal
  <2> QED BY <1>2, <2>1, <2>2 DEF Pending, JournalOK, validate_state
<1>5. ASSUME NEW a \in Range(mem.undo)
      PROVE  /\ a.kind = "address" => a.value = c.next.address
             /\ a.kind = "dns-route" => a.value = c.next.dns
             /\ a.kind = "escape" => a.value = c.dial
             /\ a.kind = "route" => a.value \in {"low", "high"}
  BY <1>4 DEF Wanted, validate_action
<1>6. os.tun.addresses = {c.next.address}  BY <1>2, <1>3, <1>5 DEF UndoneBy
<1>7. os.tun.routes = Routes(c.next.dns)
  <2>1. ASSUME NEW r \in os.tun.routes PROVE r \in Routes(c.next.dns)
    <3>1. r[2] = saved.table /\ \E a \in Range(mem.undo) : a.kind \in {"route", "dns-route"} /\ a.value = r[1]
      BY <1>2 DEF UndoneBy
    <3>2. r[1] \in {"low", "high", c.next.dns}  BY <1>5, <3>1
    <3>3. r = <<r[1], r[2]>>  BY <1>2 DEF TunLinks
    <3> QED BY <3>1, <3>2, <3>3 DEF Routes
  <2>2. ASSUME NEW r \in Routes(c.next.dns) PROVE r \in os.tun.routes  BY <1>3 DEF Routes
  <2> QED BY <2>1, <2>2
<1>8. \A r \in os.escapes : r[1] = c.dial  BY <1>2, <1>5 DEF UndoneBy
<1>9. os.tun = [index |-> os.tun.index, alias |-> os.tun.alias, link |-> os.tun.link, addresses |-> os.tun.addresses,
                routes |-> os.tun.routes, dns |-> os.tun.dns]
  BY <1>2 DEF TunLinks
<1> QED BY <1>3, <1>6, <1>7, <1>8, <1>9

LEMMA CleanupStep == ASSUME NetworkInv, ReadyInv, Cleanup PROVE ReadyStep
<1>1. CASE remove_file
  <2>1. c'.pc = "off"  BY <1>1, OffFields DEF remove_file, End
  <2> QED BY <2>1, ElsewhereStep
<1>2. CASE ~remove_file
  <2>1. c.pc \in {"cleanup", "table"} /\ c.pc # "off"  BY <1>2 DEF Cleanup, undo, forget, cleaned, delete_table
  <2>2. c \in Procs  BY <2>1, Alive
  <2>3. "alias" \in NetPlaces /\ "table" \in NetPlaces /\ "remove" \in NetPlaces  BY DEF NetPlaces, Setting
  <2>4. Goto("table").pc = "table" /\ Goto("remove").pc = "remove" /\ Half.pc = c.pc
    BY <2>2, <2>3, GotoFields, HalfFields
  <2>5. [Goto("alias") EXCEPT !.mode = "none"].pc = "alias"
    <3>1. Goto("alias") \in Procs /\ Goto("alias").pc = "alias"  BY <2>2, <2>3, GotoFields
    <3> QED BY <3>1 DEF Procs
  <2>6. [c EXCEPT !.half = FALSE].pc = c.pc  BY <2>2 DEF Procs
  <2>7. CASE undo  BY <2>1, <2>4, <2>7, FailsStep, InvokeStep DEF undo
  <2>8. CASE forget  BY <2>1, <2>6, <2>8, PersistStep DEF forget
  <2>9. CASE delete_table  BY <2>4, <2>9, InvokeStep, ElsewhereStep DEF delete_table
  <2>10. CASE cleaned
    <3>1. CASE c.mode = "stale"  BY <2>5, <2>10, <3>1, PersistStep DEF cleaned
    <3>2. CASE c.mode = "all"  BY <2>4, <2>10, <3>2, ElsewhereStep DEF cleaned
    <3>3. CASE c.mode = "final"
      <4>1. c.pc = "cleanup" /\ Pending = {} /\ os' = os /\ c' = [Loop EXCEPT !.pc = "connected", !.lease = c.next]
        BY <2>10, <3>3 DEF cleaned
      <4>2. c'.pc = "connected"  BY <2>2, <4>1, LoopFields DEF Procs
      <4> QED BY <3>3, <4>1, <4>2, OnlyThisLease DEF ReadyStep
    <3> QED BY <2>10, <3>1, <3>2, <3>3 DEF cleaned
  <2> QED BY <1>2, <2>7, <2>8, <2>9, <2>10 DEF Cleanup
<1> QED BY <1>1, <1>2

LEMMA ClientStep == ASSUME NetworkInv, ReadyInv, Client PROVE ReadyStep
<1>1. CASE Cancel \/ Die
  <2>1. c' \in {Off, Down}  BY <1>1 DEF Cancel, Die, End
  <2>2. c'.pc \in {"off", "cleanup"}  BY <2>1, OffFields, DownFields
  <2> QED BY <2>2, ElsewhereStep
<1>2. CASE Device
  <2>1. c.pc # "off" /\ c' = [Goto("prepare") EXCEPT !.then = "up"]  BY <1>2 DEF Device
  <2>2. c \in Procs /\ "prepare" \in NetPlaces  BY <2>1, Alive DEF NetPlaces, Preparing
  <2>3. Goto("prepare") \in Procs /\ Goto("prepare").pc = "prepare"  BY <2>2, GotoFields
  <2>4. c'.pc = "prepare"  BY <2>1, <2>3 DEF Procs
  <2> QED BY <2>4, ElsewhereStep
<1>3. ASSUME NEW e \in Endpoints, Dial(e) PROVE ReadyStep
  <2>1. c.pc = "loop" /\ c.pc # "off"  BY <1>3 DEF Dial
  <2>2. c \in Procs /\ c.mode = "none" /\ mem = saved  BY <2>1, Alive DEF PlaceOK
  <2> DEFINE to == IF c.started THEN "prepare" ELSE "dial"
  <2>3. to \in NetPlaces  BY DEF NetPlaces, Preparing
  <2>4. c' = [Goto(to) EXCEPT !.then = "dial", !.dial = e, !.endpoints = resolve_endpoints]  BY <1>3 DEF Dial
  <2> HIDE DEF to
  <2>5. Goto(to) \in Procs  BY <2>2, <2>3, GotoFields
  <2>6. c'.pc = to /\ c'.started = c.started  BY <2>2, <2>3, <2>4, <2>5, GotoFields DEF Procs
  <2>7. CASE c.started  BY <2>6, <2>7, ElsewhereStep DEF to
  <2>8. CASE ~c.started
    <3>1. saved.endpoints = {}  BY <2>1, <2>2, <2>8 DEF ReadyInv, ReadyOK
    <3> QED BY <2>6, <2>8, <3>1 DEF ReadyStep, to
  <2> QED BY <2>7, <2>8
<1>4. ASSUME NEW lease \in Leases, Connected(lease) PROVE ReadyStep
  <2>1. c.pc # "off"  BY <1>4 DEF Connected
  <2> DEFINE to == IF c.started THEN "device" ELSE "prepare"
  <2>2. c \in Procs /\ to \in NetPlaces  BY <2>1, Alive DEF NetPlaces, Preparing
  <2>3. c' = [Goto(to) EXCEPT !.then = "device", !.next = lease, !.started = TRUE]  BY <1>4 DEF Connected
  <2>4. to \notin {"dial", "connected"}  OBVIOUS
  <2> HIDE DEF to
  <2>5. Goto(to) \in Procs /\ Goto(to).pc = to  BY <2>2, GotoFields
  <2>6. c'.pc = to  BY <2>3, <2>5 DEF Procs
  <2> QED BY <2>4, <2>6, ElsewhereStep
<1> QED BY <1>1, <1>2, <1>3, <1>4 DEF Client

LEMMA EventStep == ASSUME NetworkInv, Event PROVE ReadyStep
<1>1. CASE Start
  <2>1. PICK known : c' = [Off EXCEPT !.pc = "loop", !.started = saved.endpoints # {}, !.endpoints = known]
    BY <1>1 DEF Start
  <2>2. c'.pc = "loop"  BY <2>1, OffFields DEF Procs
  <2> QED BY <2>2, ElsewhereStep
<1>2. CASE cleanup_network \/ Reboot
  <2>1. c'.pc \in {"off", "cleanup"}  BY <1>2, OffFields, DownFields DEF cleanup_network, Reboot
  <2> QED BY <2>1, ElsewhereStep
<1>3. CASE Retry \/ run_connection
  <2>1. CASE Fails(mem, os)  BY <2>1, FailsStep
  <2>2. CASE c' = Loop
    <3>1. c.pc # "off"  BY <1>3 DEF Retry, run_connection
    <3>2. c'.pc = "loop"  BY <2>2, <3>1, Alive, LoopFields
    <3> QED BY <3>2, ElsewhereStep
  <2> QED BY <1>3, <2>1, <2>2 DEF Retry, run_connection
<1>4. CASE c' = c  BY <1>4 DEF ReadyStep
<1> QED BY <1>1, <1>2, <1>3, <1>4 DEF Event, Rename, Replace, AdminRoute

(* Once the Linux client has started, or a journal was left by an earlier  *)
(* run, each dial is made under a guard that admits the endpoint and with  *)
(* a route to it beside the tunnel; and when the client reports that it is *)
(* connected, the link, its addresses, routes and DNS server, the guard    *)
(* and the routes beside the tunnel are those of this lease and endpoint   *)
(* and no others: whichever crash, failure, restart or change of link came *)
(* before.                                                                 *)
THEOREM AlwaysReadyWhenReached == NetworkSpec => ReadyWhenReached
<1>1. NetworkInit => NetworkInv /\ ReadyInv  BY NetworkInvInit, ReadyInit
<1>2. NetworkInv /\ ReadyInv /\ [NetworkNext]_network_vars => NetworkInv' /\ ReadyInv'  BY NetworkInvStep, ReadyInvStep
<1>3. NetworkInv /\ ReadyInv /\ [NetworkNext]_network_vars => [ReadyStep]_network_vars
  BY PrepareStep, ConfigureStep, CleanupStep, ClientStep, EventStep DEF NetworkNext
<1> QED BY <1>1, <1>2, <1>3, PTL DEF NetworkSpec, ReadyWhenReached
============================================================================
