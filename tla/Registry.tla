------------------------------ MODULE Registry ------------------------------
(***************************************************************************)
(* The client registry and its live sessions (porta-server/src/state/      *)
(* registry.rs and sessions.rs).                                           *)
(*                                                                         *)
(* RegistryState is guarded by a short synchronous lock: every section of  *)
(* the code under it is one step here.  The asynchronous `mutations` lock  *)
(* is held by an administrative change, an enrolment or a metadata flush   *)
(* across its await points: the write of the file and the drain of the     *)
(* sessions.  Authentication of an enrolled device never takes it, so it   *)
(* runs between any two of those steps.                                    *)
(*                                                                         *)
(* Inputs are proofs that verify; refusals that change nothing are not     *)
(* steps.  Time is counted in LAST_SEEN_INTERVALs, and MaxTime of them are *)
(* fewer than MAX_CLOCK_SKEW, so no remembered nonce expires.  A renamed   *)
(* device takes the path of one whose last_seen is old.                    *)
(***************************************************************************)
EXTENDS Integers, FiniteSets

CONSTANTS Accounts,       \* account IDs; each is drawn at most once
          Bootstrap,      \* the account a new registry starts with
          Devices,        \* device IDs
          Proxy,          \* FORWARD_PROXY_DEVICE_ID, which shows no proof
          Nonces,         \* nonces of device proofs
          MaxDeviceNonces, MaxDevices,
          Attempts,       \* authentication requests and their sessions
          Admins,         \* requests of the administrative interface
          Workers,        \* metadata workers
          Closer,         \* the task that runs close()
          Nobody,         \* holder of a free lock
          Events,         \* the failures and shutdowns that may happen
          MaxTime, MaxToken, MaxEpoch   \* bounds on the counters

All == "all_devices"

ASSUME RegistryAssumption ==
  /\ Bootstrap \in Accounts
  /\ Proxy \in Devices /\ All \notin Devices /\ IsFiniteSet(Devices)
  /\ IsFiniteSet(Admins)
  /\ Events \subseteq {"durability", "io", "daemon_crash", "machine_crash", "close"}
  /\ MaxDeviceNonces \in Nat /\ MaxDevices \in Nat \ {0}
  /\ MaxTime \in Nat \ {0} /\ MaxToken \in Nat \ {0} /\ MaxEpoch \in Nat

\* The tasks that may hold the mutations lock are told apart.
ASSUME HolderAssumption ==
  /\ Attempts \cap Admins = {} /\ Attempts \cap Workers = {} /\ Admins \cap Workers = {}
  /\ Closer \notin Attempts \cup Admins \cup Workers
  /\ Nobody \notin Attempts \cup Admins \cup Workers \cup {Closer}

VARIABLES
  clients,                \* account -> ClientRecord
  nonces,                 \* <<account, device>> -> nonces remembered
  retiring_accounts, retiring_devices,      \* drains under way
  account_disconnect, device_disconnect,    \* epoch of the last drain, or 0
  disconnect_epoch,
  metadata_dirty, metadata_version,
  mutations,              \* holder of the mutations lock
  candidate,              \* the clients its holder is about to write
  disk, durable,          \* the file, and what a machine crash may leave
  persisted,              \* persisted_sequence is not 0: this process wrote it
  durability_error,
  closed, closer,         \* `closed` and the state of close()
  metadata_worker,        \* the handle of the metadata worker
  worker, flush_version,  \* state of each worker, version being flushed
  attempt,                \* request -> its authentication or its session
  admin,                  \* request -> its change and the drain it waits on
  now, next_token, unused,                  \* the clock and random sources
  drained                 \* history: <<account, device>> -> last drain's end

file_vars   == <<disk, durable, persisted, durability_error>>
drain_vars  == <<retiring_accounts, retiring_devices, account_disconnect,
                 device_disconnect, disconnect_epoch, drained>>
meta_vars   == <<metadata_dirty, metadata_version, metadata_worker, worker,
                 flush_version>>
close_vars  == <<closed, closer>>
source_vars == <<now, next_token, unused>>
vars == <<clients, nonces, mutations, candidate, attempt, admin, file_vars,
          drain_vars, meta_vars, close_vars, source_vars>>
----------------------------------------------------------------------------
NotEnrolled == 0
NoNonce == 0
Keys == Accounts \X Devices

ClientRecord == [present : BOOLEAN, token : Nat, enabled : BOOLEAN,
                 max_devices : Nat, devices : [Devices -> Nat]]
NoClient == [present |-> FALSE, token |-> 0, enabled |-> FALSE, max_devices |-> 0,
             devices |-> [d \in Devices |-> NotEnrolled]]
NewClient(token, max) == [present |-> TRUE, token |-> token, enabled |-> TRUE,
                          max_devices |-> max,
                          devices |-> [d \in Devices |-> NotEnrolled]]
Enrolled(client) == {d \in Devices : client.devices[d] # NotEnrolled}

Idle == [pc |-> "idle", account |-> Bootstrap, device |-> Proxy, token |-> 0,
         nonce |-> NoNonce, epoch |-> 0, now |-> 0, cancelled |-> FALSE]
NoChange == [pc |-> "idle", op |-> "none", account |-> Bootstrap,
             device |-> Proxy, waiting |-> {}]

(* An attempt counts in authentication_epochs until its call returns, and   *)
(* a session is in LiveSessions from its registration to its guard's drop.  *)
InFlight == {t \in Attempts : attempt[t].pc \in {"begun", "waiting", "writing", "written"}}
Live     == {t \in Attempts : attempt[t].pc \in {"starting", "live"}}
KeyOf(t) == <<attempt[t].account, attempt[t].device>>
----------------------------------------------------------------------------
(* client_index_for_token: the account that the token opens, if any. *)
client_for_token(token) ==
  {a \in Accounts : clients[a].present /\ clients[a].token = token /\ clients[a].enabled}

(* A mutant: only drains under way refuse, not the ones that have ended. *)
BlockedWhileRetiring(a, d, epoch) ==
  retiring_accounts[a] > 0 \/ retiring_devices[<<a, d>>] > 0

authentication_blocked(a, d, epoch) ==
  \/ retiring_accounts[a] > 0
  \/ retiring_devices[<<a, d>>] > 0
  \/ account_disconnect[a] > epoch
  \/ device_disconnect[<<a, d>>] > epoch

nonce_seen(key, nonce) ==
  nonce \in nonces[key] \/ Cardinality(nonces[key]) >= MaxDeviceNonces

remember_nonce(t) ==
  nonces' = IF attempt[t].device = Proxy THEN nonces
            ELSE [nonces EXCEPT ![KeyOf(t)] = @ \cup {attempt[t].nonce}]

(* What both the fast and the slow path test under the state lock. *)
Admissible(t) ==
  /\ ~closed
  /\ attempt[t].account \in client_for_token(attempt[t].token)
  /\ ~authentication_blocked(attempt[t].account, attempt[t].device, attempt[t].epoch)
  /\ attempt[t].device # Proxy => ~nonce_seen(KeyOf(t), attempt[t].nonce)

LastSeen(t) == clients[attempt[t].account].devices[attempt[t].device]
elapsed_at_least(t) == LastSeen(t) < attempt[t].now

(* prune_disconnects: forget the drains that can refuse no attempt. *)
Pruned(disconnect, remaining, current) ==
  [k \in DOMAIN disconnect |->
     IF \E e \in {attempt[t].epoch : t \in remaining} \cup
                 (IF remaining = {} THEN {current} ELSE {}) : disconnect[k] > e
     THEN disconnect[k] ELSE 0]

(* The AuthenticationAttempt is dropped when the call returns. *)
Returns(t, pc) ==
  /\ attempt' = [attempt EXCEPT ![t] = IF pc = "idle" THEN Idle ELSE [@ EXCEPT !.pc = pc]]
  /\ account_disconnect' = Pruned(account_disconnect, InFlight \ {t}, disconnect_epoch)
  /\ device_disconnect' = Pruned(device_disconnect, InFlight \ {t}, disconnect_epoch)
  /\ UNCHANGED <<retiring_accounts, retiring_devices, disconnect_epoch, drained>>
----------------------------------------------------------------------------
(* atomic_write_registry: a failing directory sync is remembered and not    *)
(* reported; the write otherwise happened or did not.  The sequence numbers *)
(* of persist_clients never skip a write here: every caller runs in a task  *)
(* of its own that is not cancelled, and holds the lock meanwhile.          *)
Outcomes == {"ok"} \cup (Events \cap {"durability", "io"})

persist_clients(outcome) ==
  \/ /\ outcome = "ok"
     /\ disk' = candidate
     /\ durable' = {candidate}
     /\ persisted' = TRUE
     /\ durability_error' = FALSE
  \/ /\ outcome = "durability"
     /\ disk' = candidate
     /\ durable' = durable \cup {candidate}
     /\ persisted' = TRUE
     /\ durability_error' = TRUE
  \/ outcome = "io" /\ UNCHANGED file_vars

NoCandidate == [a \in Accounts |-> NoClient]
Lock(p)   == mutations = Nobody /\ mutations' = p
Unlock(p) == mutations = p /\ mutations' = Nobody /\ candidate' = NoCandidate
----------------------------------------------------------------------------
(* authenticate_device_session and authenticate_proxy_session.              *)

(* begin_authentication, after the first look at the token. *)
BeginAuthentication(t, d, token, nonce) ==
  /\ attempt[t].pc = "idle"
  /\ ~closed
  /\ \E a \in client_for_token(token) :
       attempt' = [attempt EXCEPT ![t] =
                     [pc |-> "begun", account |-> a, device |-> d, token |-> token,
                      nonce |-> nonce, epoch |-> disconnect_epoch, now |-> now,
                      cancelled |-> FALSE]]
  /\ UNCHANGED <<clients, nonces, mutations, candidate, admin, file_vars,
                 drain_vars, meta_vars, close_vars, source_vars>>

(* The fast path of an enrolled device that was seen recently. *)
FastRegister(t) ==
  /\ attempt[t].pc = "begun"
  /\ Admissible(t)
  /\ attempt[t].device # Proxy
  /\ LastSeen(t) # NotEnrolled /\ ~elapsed_at_least(t)
  /\ remember_nonce(t)
  /\ Returns(t, "live")
  /\ UNCHANGED <<clients, mutations, candidate, admin, file_vars, meta_vars,
                 close_vars, source_vars>>

(* The fast path of the forward proxy changes the record in memory only and *)
(* leaves the file to the metadata worker.                                  *)
FastRegisterProxy(t) ==
  /\ attempt[t].pc = "begun"
  /\ Admissible(t)
  /\ attempt[t].device = Proxy
  /\ LastSeen(t) # NotEnrolled
  /\ \/ /\ elapsed_at_least(t)
        /\ clients' = [clients EXCEPT ![attempt[t].account].devices[Proxy] = attempt[t].now]
        /\ metadata_dirty' = TRUE
        /\ metadata_version' = metadata_version + 1
        /\ Returns(t, "starting")
     \/ /\ ~elapsed_at_least(t)
        /\ Returns(t, "live")
        /\ UNCHANGED <<clients, metadata_dirty, metadata_version>>
  /\ UNCHANGED <<nonces, mutations, candidate, admin, file_vars, metadata_worker,
                 worker, flush_version, close_vars, source_vars>>

NoWorker == Nobody
Runs(handle) == handle # NoWorker /\ worker[handle] # "off"

\* Threads are alike: the one to start next is any that does not run.
Unused == {w \in Workers : worker[w] = "off"}

start_metadata_worker(t) ==
  /\ attempt[t].pc = "starting"
  /\ attempt' = [attempt EXCEPT ![t].pc = "live"]
  /\ \/ Runs(metadata_worker) /\ UNCHANGED <<metadata_worker, worker>>
     \/ /\ ~Runs(metadata_worker)
        /\ Unused # {}
        /\ metadata_worker' = CHOOSE w \in Unused : TRUE
        /\ worker' = [worker EXCEPT ![metadata_worker'] = "sleep"]
  /\ UNCHANGED <<clients, nonces, mutations, candidate, admin, file_vars, drain_vars,
                 metadata_dirty, metadata_version, flush_version, close_vars, source_vars>>

(* A device that is new, or was last seen long ago, needs the lock. *)
NeedsPersist(t) ==
  \/ LastSeen(t) = NotEnrolled
  \/ attempt[t].device # Proxy /\ elapsed_at_least(t)

AwaitMutations(t) ==
  /\ attempt[t].pc = "begun"
  /\ Admissible(t)
  /\ NeedsPersist(t)
  /\ attempt' = [attempt EXCEPT ![t].pc = "waiting"]
  /\ UNCHANGED <<clients, nonces, mutations, candidate, admin, file_vars,
                 drain_vars, meta_vars, close_vars, source_vars>>

(* A mutant: off by one at the limit. *)
DeviceLimitOffByOne(t) ==
  LET client == clients[attempt[t].account]
  IN LastSeen(t) = NotEnrolled /\ Cardinality(Enrolled(client)) > client.max_devices

DeviceLimit(t) ==
  LET client == clients[attempt[t].account]
  IN LastSeen(t) = NotEnrolled /\ Cardinality(Enrolled(client)) >= client.max_devices

Refuse(t) ==
  /\ \/ attempt[t].pc = "begun" /\ ~Admissible(t)
     \/ /\ attempt[t].pc = "waiting" /\ mutations = Nobody
        /\ ~Admissible(t) \/ DeviceLimit(t)
  /\ Returns(t, "idle")
  /\ UNCHANGED <<clients, nonces, mutations, candidate, admin, file_vars, meta_vars,
                 close_vars, source_vars>>

(* Another request enrolled or refreshed the device in the meantime. *)
SlowRegister(t) ==
  /\ attempt[t].pc = "waiting" /\ mutations = Nobody
  /\ Admissible(t)
  /\ ~NeedsPersist(t)
  /\ remember_nonce(t)
  /\ Returns(t, "live")
  /\ UNCHANGED <<clients, mutations, candidate, admin, file_vars, meta_vars,
                 close_vars, source_vars>>

Enrol(t) ==
  /\ attempt[t].pc = "waiting"
  /\ Lock(t)
  /\ Admissible(t)
  /\ NeedsPersist(t) /\ ~DeviceLimit(t)
  /\ candidate' = [clients EXCEPT ![attempt[t].account].devices[attempt[t].device] =
                                     attempt[t].now]
  /\ attempt' = [attempt EXCEPT ![t].pc = "writing"]
  /\ UNCHANGED <<clients, nonces, admin, file_vars, drain_vars, meta_vars,
                 close_vars, source_vars>>

WriteEnrolment(t, outcome) ==
  /\ attempt[t].pc = "writing"
  /\ persist_clients(outcome)
  /\ \/ outcome = "io" /\ Returns(t, "idle") /\ Unlock(t)
     \/ /\ outcome # "io"
        /\ attempt' = [attempt EXCEPT ![t].pc = "written"]
        /\ UNCHANGED <<mutations, candidate, drain_vars>>
  /\ UNCHANGED <<clients, nonces, admin, meta_vars, close_vars, source_vars>>

(* Only the device's own entry is copied from the candidate. *)
PublishEnrolment(t) ==
  /\ attempt[t].pc = "written"
  /\ clients' = [clients EXCEPT ![attempt[t].account].devices[attempt[t].device] =
                    candidate[attempt[t].account].devices[attempt[t].device]]
  /\ remember_nonce(t)
  /\ Unlock(t)
  /\ Returns(t, "live")
  /\ UNCHANGED <<admin, file_vars, meta_vars, close_vars, source_vars>>

(* A mutant: the guard leaves the map without waking who drains it. *)
FinishSessionSilently(t) ==
  /\ attempt[t].pc = "live"
  /\ attempt' = [attempt EXCEPT ![t] = Idle]
  /\ UNCHANGED <<clients, nonces, mutations, candidate, admin, file_vars, drain_vars,
                 meta_vars, close_vars, source_vars>>

(* SessionGuard::drop: the session leaves the map and wakes who drains it. *)
FinishSession(t) ==
  /\ attempt[t].pc = "live"
  /\ attempt' = [attempt EXCEPT ![t] = Idle]
  /\ admin' = [x \in Admins |-> [admin[x] EXCEPT !.waiting = @ \ {t}]]
  /\ UNCHANGED <<clients, nonces, mutations, candidate, file_vars, drain_vars,
                 meta_vars, close_vars, source_vars>>
----------------------------------------------------------------------------
(* Administrative changes.  Each one takes the lock and prepares a          *)
(* candidate, writes it, copies the fields it changed into memory, and      *)
(* drains the sessions that the change invalidates.                         *)

(* A bound: the epochs that changes under way may still need. *)
EpochsLeft ==
  disconnect_epoch + 2 * Cardinality({x \in Admins : admin[x].pc # "idle"}) + 2 <= MaxEpoch

Begin(x, op, a, d, next) ==
  /\ admin[x].pc = "idle"
  /\ ~closed
  /\ EpochsLeft
  /\ Lock(x)
  /\ admin' = [admin EXCEPT ![x] = [pc |-> next, op |-> op, account |-> a,
                                    device |-> d, waiting |-> {}]]
  /\ UNCHANGED <<clients, nonces, attempt, file_vars, drain_vars, meta_vars, close_vars, now>>

FreshToken == next_token < MaxToken /\ next_token' = next_token + 1

create(x, a, max) ==
  /\ a \in unused
  /\ FreshToken
  /\ Begin(x, "create", a, All, "writing")
  /\ candidate' = [clients EXCEPT ![a] = NewClient(next_token + 1, max)]
  /\ unused' = unused \ {a}

update(x, a, max, enabled) ==
  /\ clients[a].present
  /\ max >= Cardinality(Enrolled(clients[a]))
  /\ Begin(x, IF enabled THEN "enable" ELSE "disable", a, All, "writing")
  /\ candidate' = [clients EXCEPT ![a].max_devices = max, ![a].enabled = enabled]
  /\ UNCHANGED <<next_token, unused>>

rotate_token(x, a) ==
  /\ clients[a].present
  /\ FreshToken
  /\ Begin(x, "rotate", a, All, "writing")
  /\ candidate' = [clients EXCEPT ![a].token = next_token + 1]
  /\ UNCHANGED unused

delete(x, a) ==
  /\ clients[a].present
  /\ Begin(x, "delete", a, All, "writing")
  /\ candidate' = [clients EXCEPT ![a] = NoClient]
  /\ UNCHANGED <<next_token, unused>>

retire_device(x, a, d) ==
  /\ d \in Enrolled(clients[a])
  /\ Begin(x, "retire", a, d, "writing")
  /\ candidate' = [clients EXCEPT ![a].devices[d] = NotEnrolled]
  /\ UNCHANGED <<next_token, unused>>

disconnect(x, a, d) ==
  /\ clients[a].present
  /\ d = All \/ d \in Enrolled(clients[a])
  /\ Begin(x, "disconnect", a, d, "drain")
  /\ UNCHANGED <<candidate, next_token, unused>>

WriteChange(x, outcome) ==
  /\ admin[x].pc = "writing"
  /\ persist_clients(outcome)
  /\ \/ /\ outcome = "io"
        /\ admin' = [admin EXCEPT ![x] = NoChange]
        /\ Unlock(x)
     \/ /\ outcome # "io"
        /\ admin' = [admin EXCEPT ![x].pc = "written"]
        /\ UNCHANGED <<mutations, candidate>>
  /\ UNCHANGED <<clients, nonces, attempt, drain_vars, meta_vars,
                 close_vars, source_vars>>

Published(op, a, d) ==
  LET new == candidate[a]
  IN CASE op \in {"create", "delete"} -> [clients EXCEPT ![a] = new]
       [] op \in {"enable", "disable"} ->
            [clients EXCEPT ![a].max_devices = new.max_devices, ![a].enabled = new.enabled]
       [] op = "rotate" -> [clients EXCEPT ![a].token = new.token]
       [] op = "retire" -> [clients EXCEPT ![a].devices[d] = NotEnrolled]

PublishChange(x) ==
  /\ admin[x].pc = "written"
  /\ clients' = Published(admin[x].op, admin[x].account, admin[x].device)
  /\ \/ /\ admin[x].op \in {"create", "enable"}
        /\ admin' = [admin EXCEPT ![x] = NoChange]
        /\ Unlock(x)
     \/ /\ admin[x].op \notin {"create", "enable"}
        /\ admin' = [admin EXCEPT ![x].pc = "drain"]
        /\ UNCHANGED <<mutations, candidate>>
  /\ UNCHANGED <<nonces, attempt, file_vars, drain_vars, meta_vars,
                 close_vars, source_vars>>

Covers(x, key) ==
  /\ admin[x].account = key[1]
  /\ admin[x].device \in {All, key[2]}

(* begin_account_drain or begin_device_drain, after the change has          *)
(* forgotten the nonces of what it removed.                                 *)
BeginDrain(x) ==
  LET a == admin[x].account
      key == <<a, admin[x].device>>
      epoch == disconnect_epoch + 1
  IN /\ admin[x].pc = "drain"
     /\ nonces' = [k \in Keys |-> IF admin[x].op \in {"rotate", "delete", "retire"}
                                     /\ Covers(x, k)
                                  THEN {} ELSE nonces[k]]
     /\ disconnect_epoch' = epoch
     /\ \/ /\ admin[x].device = All
           /\ account_disconnect' = [account_disconnect EXCEPT ![a] = epoch]
           /\ retiring_accounts' = [retiring_accounts EXCEPT ![a] = @ + 1]
           /\ UNCHANGED <<device_disconnect, retiring_devices>>
        \/ /\ admin[x].device # All
           /\ device_disconnect' = [device_disconnect EXCEPT ![key] = epoch]
           /\ retiring_devices' = [retiring_devices EXCEPT ![key] = @ + 1]
           /\ UNCHANGED <<account_disconnect, retiring_accounts>>
     /\ admin' = [admin EXCEPT ![x].pc = "cancel"]
     /\ UNCHANGED <<clients, mutations, candidate, attempt, file_vars, drained, meta_vars,
                    close_vars, source_vars>>

(* A mutant: the sessions are cancelled but not awaited. *)
CancelWithoutDrain(x) ==
  LET active == {t \in Live : Covers(x, KeyOf(t))}
  IN /\ admin[x].pc = "cancel"
     /\ attempt' = [t \in Attempts |-> IF t \in active
                                       THEN [attempt[t] EXCEPT !.cancelled = TRUE]
                                       ELSE attempt[t]]
     /\ admin' = [admin EXCEPT ![x].pc = "waiting"]
     /\ UNCHANGED <<clients, nonces, mutations, candidate, file_vars, drain_vars,
                    meta_vars, close_vars, source_vars>>

(* cancel_and_drain: a snapshot of the sessions is cancelled and awaited. *)
CancelSessions(x) ==
  LET active == {t \in Live : Covers(x, KeyOf(t))}
  IN /\ admin[x].pc = "cancel"
     /\ attempt' = [t \in Attempts |-> IF t \in active
                                       THEN [attempt[t] EXCEPT !.cancelled = TRUE]
                                       ELSE attempt[t]]
     /\ admin' = [admin EXCEPT ![x].pc = "waiting", ![x].waiting = active]
     /\ UNCHANGED <<clients, nonces, mutations, candidate, file_vars, drain_vars,
                    meta_vars, close_vars, source_vars>>

(* retire_device returns its drain to the caller, which deletes the usage   *)
(* of the device before it drops it; the lock is free by then.              *)
ReturnRetirement(x) ==
  /\ admin[x].pc = "waiting" /\ admin[x].waiting = {}
  /\ admin[x].op = "retire"
  /\ Unlock(x)
  /\ admin' = [admin EXCEPT ![x].pc = "retired"]
  /\ UNCHANGED <<clients, nonces, attempt, file_vars, drain_vars, meta_vars,
                 close_vars, source_vars>>

decrement(counts, key) == [counts EXCEPT ![key] = @ - 1]

(* finish_drain: attempts begun before this point stay refused for good. *)
finish_drain(x) ==
  LET a == admin[x].account
      key == <<a, admin[x].device>>
      epoch == disconnect_epoch + 1
      accounts == IF admin[x].device = All
                  THEN [account_disconnect EXCEPT ![a] = epoch] ELSE account_disconnect
      devices  == IF admin[x].device = All
                  THEN device_disconnect ELSE [device_disconnect EXCEPT ![key] = epoch]
  IN /\ \/ /\ admin[x].pc = "waiting" /\ admin[x].waiting = {}
           /\ admin[x].op # "retire"
           /\ Unlock(x)
        \/ admin[x].pc = "retired" /\ UNCHANGED <<mutations, candidate>>
     /\ disconnect_epoch' = epoch
     /\ account_disconnect' = Pruned(accounts, InFlight, epoch)
     /\ device_disconnect' = Pruned(devices, InFlight, epoch)
     /\ \/ /\ admin[x].device = All
           /\ retiring_accounts' = decrement(retiring_accounts, a)
           /\ UNCHANGED retiring_devices
        \/ /\ admin[x].device # All
           /\ retiring_devices' = decrement(retiring_devices, key)
           /\ UNCHANGED retiring_accounts
     /\ drained' = [k \in Keys |-> IF Covers(x, k) THEN epoch ELSE drained[k]]
     /\ admin' = [admin EXCEPT ![x] = NoChange]
     /\ UNCHANGED <<clients, nonces, attempt, file_vars, meta_vars,
                    close_vars, source_vars>>
----------------------------------------------------------------------------
(* flush_metadata, by a worker or by close. *)
TakeSnapshot(p) ==
  /\ metadata_dirty
  /\ Lock(p)
  /\ candidate' = clients
  /\ flush_version' = [flush_version EXCEPT ![p] = metadata_version]

(* A mutant: what changed while the snapshot was written is forgotten. *)
CleanAnyVersion(p) ==
  /\ metadata_dirty' = FALSE
  /\ Unlock(p)

CleanSnapshot(p) ==
  /\ metadata_dirty' = (metadata_dirty /\ metadata_version # flush_version[p])
  /\ Unlock(p)

Stopped == closed /\ closer.pc # "stop"      \* metadata_stop is cancelled

(* The worker of start_metadata_worker.  Its last flush, after the stop,    *)
(* has states of its own because it returns whatever the flush does.        *)
WorkerStep(w, from, to) == worker[w] = from /\ worker' = [worker EXCEPT ![w] = to]

WorkerWakes(w) ==
  /\ WorkerStep(w, "sleep", "flush") \/ (Stopped /\ WorkerStep(w, "sleep", "last_flush"))
  /\ UNCHANGED <<clients, nonces, mutations, candidate, attempt, admin, file_vars, drain_vars,
                 metadata_dirty, metadata_version, metadata_worker, flush_version,
                 close_vars, source_vars>>

WorkerFlushes(w) ==
  /\ \/ /\ TakeSnapshot(w)
        /\ WorkerStep(w, "flush", "write") \/ WorkerStep(w, "last_flush", "last_write")
     \/ /\ ~metadata_dirty /\ mutations = Nobody
        /\ WorkerStep(w, "flush", "check") \/ WorkerStep(w, "last_flush", "off")
        /\ UNCHANGED <<mutations, candidate, flush_version>>
  /\ UNCHANGED <<clients, nonces, attempt, admin, file_vars, drain_vars, metadata_dirty,
                 metadata_version, metadata_worker, close_vars, source_vars>>

WorkerWrites(w, outcome) ==
  /\ worker[w] \in {"write", "last_write"}
  /\ persist_clients(outcome)
  /\ \/ /\ outcome = "io"
        /\ WorkerStep(w, "write", "sleep") \/ WorkerStep(w, "last_write", "off")
        /\ Unlock(w)
     \/ /\ outcome # "io"
        /\ WorkerStep(w, "write", "written") \/ WorkerStep(w, "last_write", "last_written")
        /\ UNCHANGED <<mutations, candidate>>
  /\ UNCHANGED <<clients, nonces, attempt, admin, drain_vars, metadata_dirty,
                 metadata_version, metadata_worker, flush_version, close_vars, source_vars>>

WorkerWrote(w) ==
  /\ WorkerStep(w, "written", "check") \/ WorkerStep(w, "last_written", "off")
  /\ CleanSnapshot(w)
  /\ UNCHANGED <<clients, nonces, attempt, admin, file_vars, drain_vars,
                 metadata_version, metadata_worker, flush_version, close_vars, source_vars>>

retire_metadata_worker_if_clean(w) ==
  /\ \/ metadata_dirty /\ WorkerStep(w, "check", "sleep") /\ UNCHANGED metadata_worker
     \/ ~metadata_dirty /\ WorkerStep(w, "check", "off") /\ metadata_worker' = NoWorker
  /\ UNCHANGED <<clients, nonces, mutations, candidate, attempt, admin, file_vars, drain_vars,
                 metadata_dirty, metadata_version, flush_version, close_vars, source_vars>>
----------------------------------------------------------------------------
(* close(): stop the worker, flush what is dirty, retry a failed sync.  A   *)
(* second call goes straight to the flush.                                  *)
close ==
  /\ "close" \in Events
  /\ closer.pc \in {"open", "ok", "failed"}
  /\ mutations = Nobody
  /\ closed' = TRUE
  /\ closer' = [closer EXCEPT !.pc = IF closed THEN "flush" ELSE "stop"]
  /\ UNCHANGED <<clients, nonces, mutations, candidate, attempt, admin, file_vars,
                 drain_vars, meta_vars, source_vars>>

CloseStopsWorker ==
  /\ closer.pc = "stop"
  /\ closer' = [pc |-> "join", joins |-> metadata_worker]
  /\ metadata_worker' = NoWorker
  /\ UNCHANGED <<clients, nonces, mutations, candidate, attempt, admin, file_vars, drain_vars,
                 metadata_dirty, metadata_version, worker, flush_version, closed, source_vars>>

CloseFlushes ==
  /\ \/ closer.pc = "join" /\ ~Runs(closer.joins)
     \/ closer.pc = "flush"
  /\ \/ /\ TakeSnapshot(Closer)
        /\ closer' = [closer EXCEPT !.pc = "write"]
     \/ /\ ~metadata_dirty /\ mutations = Nobody
        /\ closer' = [closer EXCEPT !.pc = "sync"]
        /\ UNCHANGED <<mutations, candidate, flush_version>>
  /\ UNCHANGED <<clients, nonces, attempt, admin, file_vars, drain_vars, metadata_dirty,
                 metadata_version, metadata_worker, worker, closed, source_vars>>

CloseWrites(outcome) ==
  /\ closer.pc = "write"
  /\ persist_clients(outcome)
  /\ \/ /\ outcome = "io"
        /\ closer' = [closer EXCEPT !.pc = "failed"]
        /\ Unlock(Closer)
     \/ /\ outcome # "io"
        /\ closer' = [closer EXCEPT !.pc = "written"]
        /\ UNCHANGED <<mutations, candidate>>
  /\ UNCHANGED <<clients, nonces, attempt, admin, drain_vars, meta_vars,
                 closed, source_vars>>

CloseWrote ==
  /\ closer.pc = "written"
  /\ closer' = [closer EXCEPT !.pc = "sync"]
  /\ CleanSnapshot(Closer)
  /\ UNCHANGED <<clients, nonces, attempt, admin, file_vars, drain_vars,
                 metadata_version, metadata_worker, worker, flush_version, closed, source_vars>>

(* A mutant: the error is forgotten and the directory is not synced. *)
RetryWithoutSync(outcome) ==
  /\ closer.pc = "sync"
  /\ outcome = "ok"
  /\ durability_error' = FALSE
  /\ closer' = [closer EXCEPT !.pc = "ok"]
  /\ UNCHANGED <<clients, nonces, mutations, candidate, attempt, admin, disk, durable,
                 persisted, drain_vars, meta_vars, closed, source_vars>>

retry_durability_sync(outcome) ==
  /\ closer.pc = "sync"
  /\ \/ /\ outcome = "ok"
        /\ durability_error' = FALSE
        /\ durable' = IF durability_error THEN {disk} ELSE durable
        /\ closer' = [closer EXCEPT !.pc = "ok"]
     \/ /\ outcome = "io" /\ durability_error
        /\ closer' = [closer EXCEPT !.pc = "failed"]
        /\ UNCHANGED <<durability_error, durable>>
  /\ UNCHANGED <<clients, nonces, mutations, candidate, attempt, admin, disk, persisted,
                 drain_vars, meta_vars, closed, source_vars>>
----------------------------------------------------------------------------
(* ClientRegistry::open without a file: the bootstrap account is written. *)
Init ==
  /\ disk = [a \in Accounts |-> IF a = Bootstrap THEN NewClient(1, MaxDevices) ELSE NoClient]
  /\ durable = {disk}
  /\ clients = disk /\ candidate = NoCandidate
  /\ nonces = [k \in Keys |-> {}]
  /\ retiring_accounts = [a \in Accounts |-> 0]
  /\ retiring_devices = [k \in Keys |-> 0]
  /\ account_disconnect = [a \in Accounts |-> 0]
  /\ device_disconnect = [k \in Keys |-> 0]
  /\ disconnect_epoch = 0
  /\ drained = [k \in Keys |-> 0]
  /\ metadata_dirty = FALSE
  /\ metadata_version = 0
  /\ mutations = Nobody
  /\ persisted = TRUE /\ durability_error = FALSE
  /\ closed = FALSE
  /\ closer = [pc |-> "open", joins |-> NoWorker]
  /\ metadata_worker = NoWorker
  /\ worker = [w \in Workers |-> "off"]
  /\ flush_version = [p \in Workers \cup {Closer} |-> 0]
  /\ attempt = [t \in Attempts |-> Idle]
  /\ admin = [x \in Admins |-> NoChange]
  /\ now = 1
  /\ next_token = 1
  /\ unused = Accounts \ {Bootstrap}

(* validate_stored_client *)
OpenAccepts(file) ==
  \A a \in Accounts : Cardinality(Enrolled(file[a])) <= file[a].max_devices

(* The daemon dies, alone or with its machine, and opens the file again. *)
open(machine) ==
  /\ \/ /\ machine /\ "machine_crash" \in Events
        /\ disk' \in durable /\ durable' = {disk'}
     \/ /\ ~machine /\ "daemon_crash" \in Events
        /\ UNCHANGED <<disk, durable>>
  /\ OpenAccepts(disk')
  /\ clients' = disk' /\ candidate' = NoCandidate
  /\ nonces' = [k \in Keys |-> {}]
  /\ retiring_accounts' = [a \in Accounts |-> 0]
  /\ retiring_devices' = [k \in Keys |-> 0]
  /\ account_disconnect' = [a \in Accounts |-> 0]
  /\ device_disconnect' = [k \in Keys |-> 0]
  /\ disconnect_epoch' = 0
  /\ drained' = [k \in Keys |-> 0]
  /\ metadata_dirty' = FALSE
  /\ metadata_version' = 0
  /\ mutations' = Nobody
  /\ persisted' = FALSE /\ durability_error' = FALSE
  /\ closed' = FALSE
  /\ closer' = [pc |-> "open", joins |-> NoWorker]
  /\ metadata_worker' = NoWorker
  /\ worker' = [w \in Workers |-> "off"]
  /\ flush_version' = [p \in Workers \cup {Closer} |-> 0]
  /\ attempt' = [t \in Attempts |-> Idle]
  /\ admin' = [x \in Admins |-> NoChange]
  /\ UNCHANGED source_vars

Tick == /\ now < MaxTime /\ now' = now + 1
        /\ UNCHANGED <<clients, nonces, mutations, candidate, attempt, admin, file_vars,
                       drain_vars, meta_vars, close_vars, next_token, unused>>

Change(x) ==
  \E a \in Accounts :
    \/ \E max \in 1..MaxDevices : create(x, a, max)
    \/ \E max \in 1..MaxDevices, enabled \in BOOLEAN : update(x, a, max, enabled)
    \/ rotate_token(x, a)
    \/ delete(x, a)
    \/ \E d \in Devices : retire_device(x, a, d)
    \/ \E d \in Devices \cup {All} : disconnect(x, a, d)

AttemptStep(t) ==
  \/ FastRegister(t) \/ FastRegisterProxy(t) \/ start_metadata_worker(t)
  \/ AwaitMutations(t) \/ Refuse(t) \/ SlowRegister(t) \/ Enrol(t)
  \/ \E outcome \in Outcomes : WriteEnrolment(t, outcome)
  \/ PublishEnrolment(t)

AdminStep(x) ==
  \/ \E outcome \in Outcomes : WriteChange(x, outcome)
  \/ PublishChange(x) \/ BeginDrain(x) \/ CancelSessions(x)
  \/ ReturnRetirement(x) \/ finish_drain(x)

WorkerNext(w) ==
  \/ WorkerWakes(w) \/ WorkerFlushes(w)
  \/ \E outcome \in Outcomes : WorkerWrites(w, outcome)
  \/ WorkerWrote(w) \/ retire_metadata_worker_if_clean(w)

CloserNext ==
  \/ CloseStopsWorker \/ CloseFlushes
  \/ \E outcome \in Outcomes : CloseWrites(outcome) \/ retry_durability_sync(outcome)
  \/ CloseWrote

Next ==
  \/ \E t \in Attempts :
       \/ \E d \in Devices, token \in 1..next_token :
            \E nonce \in IF d = Proxy THEN {NoNonce} ELSE Nonces :
              BeginAuthentication(t, d, token, nonce)
       \/ AttemptStep(t)
       \/ FinishSession(t)
  \/ \E x \in Admins : Change(x) \/ AdminStep(x)
  \/ \E w \in Workers : WorkerNext(w)
  \/ close \/ CloserNext
  \/ \E machine \in BOOLEAN : open(machine)
  \/ Tick

Spec == Init /\ [][Next]_vars
----------------------------------------------------------------------------
AttemptRecord ==
  [pc : {"idle", "begun", "waiting", "writing", "written", "starting", "live"},
   account : Accounts, device : Devices, token : Nat, nonce : Nonces \cup {NoNonce},
   epoch : Nat, now : Nat, cancelled : BOOLEAN]
AdminRecord ==
  [pc : {"idle", "writing", "written", "drain", "cancel", "waiting", "retired"},
   op : {"none", "create", "enable", "disable", "rotate", "delete", "retire", "disconnect"},
   account : Accounts, device : Devices \cup {All}, waiting : SUBSET Attempts]

TypeOK ==
  /\ clients \in [Accounts -> ClientRecord]
  /\ nonces \in [Keys -> SUBSET Nonces]
  /\ retiring_accounts \in [Accounts -> Nat]
  /\ retiring_devices \in [Keys -> Nat]
  /\ account_disconnect \in [Accounts -> Nat]
  /\ device_disconnect \in [Keys -> Nat]
  /\ disconnect_epoch \in Nat
  /\ drained \in [Keys -> Nat]
  /\ metadata_dirty \in BOOLEAN /\ metadata_version \in Nat
  /\ mutations \in Attempts \cup Admins \cup Workers \cup {Closer, Nobody}
  /\ candidate \in [Accounts -> ClientRecord]
  /\ disk \in [Accounts -> ClientRecord]
  /\ durable \in SUBSET [Accounts -> ClientRecord]
  /\ persisted \in BOOLEAN /\ durability_error \in BOOLEAN
  /\ closed \in BOOLEAN
  /\ closer \in [pc : {"open", "stop", "join", "flush", "write", "written", "sync",
                       "ok", "failed"},
                 joins : Workers \cup {NoWorker}]
  /\ metadata_worker \in Workers \cup {NoWorker}
  /\ worker \in [Workers -> {"off", "sleep", "flush", "write", "written", "check",
                            "last_flush", "last_write", "last_written"}]
  /\ flush_version \in [Workers \cup {Closer} -> Nat]
  /\ attempt \in [Attempts -> AttemptRecord]
  /\ admin \in [Admins -> AdminRecord]
  /\ now \in Nat /\ next_token \in Nat /\ unused \in SUBSET Accounts

(* No session outlives a drain that its authentication began before: once   *)
(* disconnect, disable, rotate, delete or forget has returned, every live   *)
(* session of the account or device was authenticated from scratch later -  *)
(* whatever request was waiting for the lock or between two lock sections,  *)
(* and whatever prune_disconnects has forgotten.                            *)
NoSessionOutlivesDrain ==
  \A t \in Live : attempt[t].epoch >= drained[KeyOf(t)]

(* A live session is one the registry would admit now - its token is the    *)
(* account's, the account is enabled, the device is enrolled - unless the   *)
(* change that took this away is still on its way to cancel the session.    *)
Authorized(t) ==
  /\ attempt[t].account \in client_for_token(attempt[t].token)
  /\ LastSeen(t) # NotEnrolled
SessionsAreAuthorized ==
  \A t \in Live :
    \/ Authorized(t)
    \/ \E x \in Admins : /\ Covers(x, KeyOf(t))
                         /\ \/ admin[x].pc \in {"drain", "cancel"}
                            \/ admin[x].pc = "waiting" /\ t \in admin[x].waiting

(* Access that was taken away is gone: no session outlives the change that  *)
(* revoked it, nor the moment that change returned.                         *)
RevokedSessionsEnd == NoSessionOutlivesDrain /\ SessionsAreAuthorized

(* max_devices holds in memory, in every file a crash may leave and in what *)
(* is about to be written, so the registry can always be opened again.      *)
DeviceLimitHolds ==
  \A file \in durable \cup {clients, disk} : OpenAccepts(file)

(* The state has its types and every registry file can be opened again.    *)
RegistryIsSound == TypeOK /\ DeviceLimitHolds

(* Nothing the fast path of the proxy changes while an older snapshot is    *)
(* being written is lost: with the lock free and nothing marked dirty, the  *)
(* file is what is in memory.                                               *)
CleanMeansWritten == (mutations = Nobody /\ ~metadata_dirty) => disk = clients

(* Dirty metadata always has somebody who will write it: the request that   *)
(* is about to start the worker, a worker that will look again, or close.   *)
DirtyHasWriter ==
  metadata_dirty =>
    \/ \E t \in Attempts : attempt[t].pc = "starting"
    \/ \E w \in Workers : worker[w] # "off"
    \/ closed

(* What the fast path of the proxy changes is neither lost nor stranded.    *)
MetadataIsKept == CleanMeansWritten /\ DirtyHasWriter

(* When close() has returned Ok, the file is what was in memory and no      *)
(* crash of the machine can take it back - unless the file is one that an   *)
(* earlier process could not sync and this one never had to write.          *)
CloseIsDurable ==
  closer.pc = "ok" => /\ disk = clients /\ ~metadata_dirty
                      /\ persisted => durable = {disk}

(* docs/endpoints.md: the server "rejects a nonce reused for the same       *)
(* account/device": no session is registered with a remembered nonce.       *)
NonceIsAcceptedOnce ==
  [][\A t \in Attempts :
       (t \in InFlight /\ t \in Live' /\ attempt[t].device # Proxy)
         => attempt[t].nonce \notin nonces[KeyOf(t)]]_vars

(* The lock is always given back: whoever holds it is about to write, to    *)
(* publish or to start a drain, or waits for sessions that were cancelled   *)
(* and are still there to end, which takes no lock.  Close does not hold it *)
(* while it joins the worker, and no drain waits for a session that ended.  *)
LockIsReleased ==
  mutations # Nobody =>
    \/ \E t \in Attempts : mutations = t /\ attempt[t].pc \in {"writing", "written"}
    \/ \E w \in Workers :
         mutations = w /\ worker[w] \in {"write", "written", "last_write", "last_written"}
    \/ mutations = Closer /\ closer.pc \in {"write", "written"}
    \/ \E x \in Admins :
         /\ mutations = x
         /\ \/ admin[x].pc \in {"writing", "written", "drain", "cancel"}
            \/ /\ admin[x].pc = "waiting"
               /\ \A t \in admin[x].waiting : t \in Live /\ attempt[t].cancelled

(* The file of the registry: what is changed reaches it, close() returns Ok *)
(* only when it is safe, and nobody keeps the lock that both need.          *)
FileIsKept == MetadataIsKept /\ CloseIsDurable /\ LockIsReleased
============================================================================
