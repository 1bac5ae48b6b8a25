----------------------------- MODULE UsageStore -----------------------------
(***************************************************************************)
(* The usage store (porta-server/src/state/usage.rs): sessions with one    *)
(* member per lane, the totals of the devices, and the state file.  A step *)
(* is a section under the data lock, a section under the persist lock, or  *)
(* what a task does between two of its awaits.                             *)
(*                                                                         *)
(* The counters of a member are one number here: UsageCounters shows that  *)
(* stop_and_snapshot is final and that a snapshot is a cut.  Transport,    *)
(* address, target and the times of a connection are left out.             *)
(***************************************************************************)
EXTENDS Integers, FiniteSets, FiniteSetsExt

CONSTANTS Devices,       \* devices of one account
          Labels,        \* session identifiers that clients send
          Members,       \* handles, each used once in the life of the process
          Admins,        \* concurrent deletions
          None,
          MaxAdds,       \* bounds: updates of the counters of one member,
          MaxOrders,     \*   deletions and shutdowns,
          MaxFailures,   \*   writes of the file that fail,
          MaxCrashes     \*   crashes and restarts

(* What the constants must be. *)
ASSUME StoreAssumption ==
  /\ IsFiniteSet(Members)
  /\ None \notin Admins \cup {"run"} /\ "run" \notin Admins
  /\ {MaxAdds, MaxOrders, MaxFailures, MaxCrashes} \subseteq Nat

Keys == Devices \X (Labels \cup Members)
Flushers == Admins \cup {"run"}

VARIABLES devices, sessions,                    \* StoreData
          handle,                               \* Session, with its counters
          next_id, change_version, persisted_version,
          permit,                               \* persist_requested
          persist,                              \* the persist lock: its holder
          flush,                                \* the progress of flush_inner
          run, deadline, cancelled,             \* the task that runs run()
          admin,                                \* the progress of each deletion
          file,                                 \* usage.json
          budget,                               \* what the bounds leave
          total, opened,                        \* history: usage and connections since
          epoch, acked,                         \*   the last deletion, deletions, those
          at_cancel                             \*   acknowledged, the state at shutdown

data == <<devices, sessions>>
versions == <<change_version, persisted_version, permit>>
task == <<run, deadline, cancelled>>
history == <<total, opened, epoch, acked, at_cancel>>
vars == <<data, handle, next_id, versions, persist, flush, task, admin, file, budget, history>>
----------------------------------------------------------------------------
Zero == [connections |-> 0, count |-> 0]
NoSession == [id |-> 0, members |-> {}, completed |-> 0]
Idle == [at |-> "idle", devices |-> {}, epoch |-> None]
NoFlush == [at |-> "none", force |-> FALSE, version |-> 0, image |-> None]
Gone == [at |-> "gone", key |-> None, id |-> 0, count |-> 0, stopped |-> TRUE]
NoHandle == [at |-> "none", key |-> None, id |-> 0, count |-> 0, stopped |-> FALSE]

Active == {k \in Keys : sessions[k].id # 0}

(* ActiveSession::counters *)
counters(k) ==
  sessions[k].completed + SumFunctionOnSet([m \in Members |-> handle[m].count], sessions[k].members)

(* What snapshot() reports and persist() writes: totals and live sessions. *)
Usage(d) ==
  LET live == {k \in Active : k[1] = d}
  IN [connections |-> devices[d].connections + Cardinality(live),
      count |-> devices[d].count + SumFunctionOnSet([k \in Keys |-> counters(k)], live)]

Init ==
  /\ devices = [d \in Devices |-> Zero]
  /\ sessions = [k \in Keys |-> NoSession]
  /\ handle = [m \in Members |-> NoHandle]
  /\ next_id = 0
  /\ change_version = 0 /\ persisted_version = 0
  /\ permit = FALSE
  /\ persist = None
  /\ flush = [p \in Flushers |-> NoFlush]
  /\ run = "select" /\ deadline = FALSE /\ cancelled = FALSE
  /\ admin = [a \in Admins |-> Idle]
  /\ file = [usage |-> [d \in Devices |-> Zero], epoch |-> [d \in Devices |-> 0]]
  /\ budget = [orders |-> MaxOrders, failures |-> MaxFailures, crashes |-> MaxCrashes]
  /\ total = [d \in Devices |-> 0] /\ opened = [d \in Devices |-> 0]
  /\ epoch = [d \in Devices |-> 0] /\ acked = [d \in Devices |-> 0]
  /\ at_cancel = [quiet |-> FALSE, total |-> [d \in Devices |-> 0], epoch |-> [d \in Devices |-> 0]]
----------------------------------------------------------------------------
(* Sessions *)

(* begin: under the key of the client's session, which other lanes share,    *)
(* or under a key of its own.  The keys of clients name their device.        *)
begin(m, k) ==
  LET id == IF sessions[k].id # 0 THEN sessions[k].id ELSE next_id + 1
  IN /\ handle[m].at = "none"
     /\ k[2] \in Labels \/ k[2] = m
     /\ sessions' = [sessions EXCEPT ![k].id = id, ![k].members = @ \cup {m}]
     /\ next_id' = next_id + (IF sessions[k].id # 0 THEN 0 ELSE 1)
     /\ handle' = [handle EXCEPT ![m] = [NoHandle EXCEPT !.at = "open", !.key = k, !.id = id]]
     /\ opened' = [opened EXCEPT ![k[1]] = @ + (IF sessions[k].id # 0 THEN 0 ELSE 1)]
     /\ UNCHANGED <<devices, versions, persist, flush, task, admin, file, budget, total, epoch, acked, at_cancel>>

(* add_uploaded, add_downloaded: refused once the counters are stopped. *)
add(m) ==
  /\ handle[m].at = "open"
  /\ handle[m].count < MaxAdds
  /\ ~handle[m].stopped
  /\ handle' = [handle EXCEPT ![m].count = @ + 1]
  /\ total' = [total EXCEPT ![handle[m].key[1]] = @ + 1]
  /\ UNCHANGED <<data, next_id, versions, persist, flush, task, admin, file, budget,
                 opened, epoch, acked, at_cancel>>

(* close, also by Drop: the counters stop and are read. *)
close(m) ==
  /\ handle[m].at = "open"
  /\ handle' = [handle EXCEPT ![m].at = "finish", ![m].stopped = TRUE]
  /\ UNCHANGED <<data, next_id, versions, persist, flush, task, admin, file, budget, history>>

(* A mutant: whoever closes is taken to be a member of the session. *)
FinishAnySession(m) ==
  LET k == handle[m].key
      state == sessions[k]
      completed == state.completed + handle[m].count
  IN /\ handle[m].at = "finish"
     /\ \/ /\ state.id = 0
           /\ handle' = [handle EXCEPT ![m] = Gone]
           /\ UNCHANGED data
        \/ /\ state.id # 0 /\ state.members \ {m} # {}
           /\ sessions' = [sessions EXCEPT ![k].members = @ \ {m}, ![k].completed = completed]
           /\ handle' = [handle EXCEPT ![m] = Gone]
           /\ UNCHANGED devices
        \/ /\ state.id # 0 /\ state.members \ {m} = {}
           /\ sessions' = [sessions EXCEPT ![k] = NoSession]
           /\ devices' = [devices EXCEPT ![k[1]] =
                [connections |-> @.connections + 1, count |-> @.count + completed]]
           /\ handle' = [handle EXCEPT ![m].at = "request"]
     /\ UNCHANGED <<next_id, versions, persist, flush, task, admin, file, budget, history>>

(* finish_session under the lock: a member of a session that was deleted     *)
(* meanwhile changes nothing, the last member folds the session into the     *)
(* device.                                                                   *)
finish_session(m) ==
  LET k == handle[m].key
      state == sessions[k]
      completed == state.completed + handle[m].count
  IN /\ handle[m].at = "finish"
     /\ \/ /\ state.id # handle[m].id \/ m \notin state.members
           /\ handle' = [handle EXCEPT ![m] = Gone]
           /\ UNCHANGED data
        \/ /\ state.id = handle[m].id /\ m \in state.members /\ state.members # {m}
           /\ sessions' = [sessions EXCEPT ![k].members = @ \ {m}, ![k].completed = completed]
           /\ handle' = [handle EXCEPT ![m] = Gone]
           /\ UNCHANGED devices
        \/ /\ state.id = handle[m].id /\ state.members = {m}
           /\ sessions' = [sessions EXCEPT ![k] = NoSession]
           /\ devices' = [devices EXCEPT ![k[1]] =
                [connections |-> @.connections + 1, count |-> @.count + completed]]
           /\ handle' = [handle EXCEPT ![m].at = "request"]
     /\ UNCHANGED <<next_id, versions, persist, flush, task, admin, file, budget, history>>

(* The change is published and the task is told, after the lock: only        *)
(* flush_inner reads the version and only run() is told, so this is a step.  *)
request_persistence ==
  /\ change_version' = change_version + 1
  /\ permit' = TRUE
  /\ UNCHANGED persisted_version

FinishRequests(m) ==
  /\ handle[m].at = "request"
  /\ handle' = [handle EXCEPT ![m] = Gone]
  /\ request_persistence
  /\ UNCHANGED <<data, next_id, persist, flush, task, admin, file, budget, history>>
----------------------------------------------------------------------------
(* Deletion *)

(* delete_device, delete_client: totals and sessions go, members are stopped. *)
delete(a, gone) ==
  /\ admin[a].at = "idle"
  /\ budget.orders > 0
  /\ devices' = [d \in Devices |-> IF d \in gone THEN Zero ELSE devices[d]]
  /\ handle' = [m \in Members |->
       IF \E k \in Active : k[1] \in gone /\ m \in sessions[k].members
       THEN [handle[m] EXCEPT !.stopped = TRUE] ELSE handle[m]]
  /\ sessions' = [k \in Keys |-> IF k[1] \in gone THEN NoSession ELSE sessions[k]]
  /\ budget' = [budget EXCEPT !.orders = @ - 1]
  /\ epoch' = [d \in Devices |-> IF d \in gone THEN epoch[d] + 1 ELSE epoch[d]]
  /\ total' = [d \in Devices |-> IF d \in gone THEN 0 ELSE total[d]]
  /\ opened' = [d \in Devices |-> IF d \in gone THEN 0 ELSE opened[d]]
  /\ admin' = [admin EXCEPT ![a] = [at |-> "request", devices |-> gone, epoch |-> epoch']]
  /\ UNCHANGED <<next_id, versions, persist, flush, task, file, acked, at_cancel>>

DeleteRequests(a) ==
  /\ admin[a].at = "request"
  /\ request_persistence
  /\ admin' = [admin EXCEPT ![a].at = "flush"]
  /\ flush' = [flush EXCEPT ![a] = [NoFlush EXCEPT !.at = "lock", !.force = TRUE]]
  /\ UNCHANGED <<data, handle, next_id, persist, task, file, budget, history>>

(* The result of the flush is the result of the deletion. *)
DeleteReturns(a) ==
  /\ admin[a].at = "flush"
  /\ flush[a].at \in {"ok", "failed"}
  /\ admin' = [admin EXCEPT ![a] = Idle]
  /\ flush' = [flush EXCEPT ![a] = NoFlush]
  /\ acked' = [d \in Devices |->
       IF flush[a].at = "ok" /\ d \in admin[a].devices THEN admin[a].epoch[d] ELSE acked[d]]
  /\ UNCHANGED <<data, handle, next_id, versions, persist, task, file, budget,
                 total, opened, epoch, at_cancel>>
----------------------------------------------------------------------------
(* flush_inner *)

Flushed(result) == [NoFlush EXCEPT !.at = result]

(* A mutant: nobody waits for the persist lock. *)
FlushWithoutLock(p) ==
  /\ flush[p].at = "lock"
  /\ IF flush[p].force \/ change_version > persisted_version
     THEN flush' = [flush EXCEPT ![p].at = "read", ![p].version = change_version]
     ELSE flush' = [flush EXCEPT ![p] = Flushed("ok")]
  /\ UNCHANGED <<data, handle, next_id, versions, persist, task, admin, file, budget, history>>

(* The lock, and the version that this pass stands for. *)
FlushLocks(p) ==
  /\ flush[p].at = "lock"
  /\ persist = None
  /\ IF flush[p].force \/ change_version > persisted_version
     THEN /\ flush' = [flush EXCEPT ![p].at = "read", ![p].version = change_version]
          /\ persist' = p
     ELSE /\ flush' = [flush EXCEPT ![p] = Flushed("ok")]
          /\ UNCHANGED persist
  /\ UNCHANGED <<data, handle, next_id, versions, task, admin, file, budget, history>>

(* persist: the checkpoint under the data lock ... *)
PersistReads(p) ==
  /\ flush[p].at = "read"
  /\ flush' = [flush EXCEPT ![p].at = "write",
                            ![p].image = [usage |-> [d \in Devices |-> Usage(d)], epoch |-> epoch]]
  /\ UNCHANGED <<data, handle, next_id, versions, persist, task, admin, file, budget, history>>

(* A mutant: the version is read when the file has been written. *)
WriteCoversLater(p) ==
  /\ flush[p].at = "write"
  /\ file' = flush[p].image
  /\ persisted_version' = Max({persisted_version, change_version})
  /\ flush' = [flush EXCEPT ![p] = Flushed("ok")]
  /\ persist' = None
  /\ UNCHANGED <<data, handle, next_id, change_version, permit, task, admin, budget, history>>

(* ... and the file after it: written beside the old one, synced, renamed. *)
write_state_atomically(p) ==
  /\ flush[p].at = "write"
  /\ file' = flush[p].image
  /\ persisted_version' = Max({persisted_version, flush[p].version})
  /\ flush' = [flush EXCEPT ![p] = Flushed("ok")]
  /\ persist' = None
  /\ UNCHANGED <<data, handle, next_id, change_version, permit, task, admin, budget, history>>

(* An error before the rename leaves the old file, one after it the new. *)
WriteFails(p) ==
  /\ flush[p].at = "write"
  /\ budget.failures > 0
  /\ file' \in {file, flush[p].image}
  /\ flush' = [flush EXCEPT ![p] = Flushed("failed")]
  /\ persist' = None
  /\ budget' = [budget EXCEPT !.failures = @ - 1]
  /\ UNCHANGED <<data, handle, next_id, versions, task, admin, history>>
----------------------------------------------------------------------------
(* run(): one branch of its select! at a time; select! is not biased. *)
Flushes(at, force) ==
  /\ run' = at
  /\ flush' = [flush EXCEPT !["run"] = [NoFlush EXCEPT !.at = "lock", !.force = force]]

RunNotified ==
  /\ run = "select"
  /\ permit
  /\ permit' = FALSE
  /\ deadline' = TRUE
  /\ UNCHANGED <<data, handle, next_id, change_version, persisted_version, persist, flush,
                 run, cancelled, admin, file, budget, history>>

RunDue ==
  /\ run = "select"
  /\ deadline
  /\ deadline' = FALSE
  /\ Flushes("due", FALSE)
  /\ UNCHANGED <<data, handle, next_id, versions, persist, cancelled, admin, file, budget, history>>

RunTick ==
  /\ run = "select"
  /\ Flushes("tick", TRUE)
  /\ UNCHANGED <<data, handle, next_id, versions, persist, deadline, cancelled, admin, file, budget, history>>

(* A mutant: run() returns without a last pass. *)
ReturnsAtOnce ==
  /\ run = "select"
  /\ cancelled
  /\ run' = "returned"
  /\ flush' = [flush EXCEPT !["run"].at = "ok"]
  /\ UNCHANGED <<data, handle, next_id, versions, persist, deadline, cancelled, admin, file, budget, history>>

RunCancelled ==
  /\ run = "select"
  /\ cancelled
  /\ Flushes("final", Active # {})
  /\ UNCHANGED <<data, handle, next_id, versions, persist, deadline, cancelled, admin, file, budget, history>>

(* A mutant: a pass that failed is not due again. *)
FailureIsFinal ==
  /\ flush["run"].at \in {"ok", "failed"}
  /\ run \in {"due", "tick", "final"}
  /\ run' = IF run = "final" THEN "returned" ELSE "select"
  /\ flush' = IF run = "final" THEN flush ELSE [flush EXCEPT !["run"] = NoFlush]
  /\ UNCHANGED <<data, handle, next_id, versions, persist, deadline, cancelled, admin, file, budget, history>>

(* A pass for a completed session that failed is due again, a checkpoint     *)
(* comes again by itself, and the last pass is the result of run().          *)
RunFlushed ==
  /\ flush["run"].at \in {"ok", "failed"}
  /\ run \in {"due", "tick", "final"}
  /\ run' = IF run = "final" THEN "returned" ELSE "select"
  /\ flush' = IF run = "final" THEN flush ELSE [flush EXCEPT !["run"] = NoFlush]
  /\ deadline' = (deadline \/ (run = "due" /\ flush["run"].at = "failed"))
  /\ UNCHANGED <<data, handle, next_id, versions, persist, cancelled, admin, file, budget, history>>

(* main: usage_shutdown.cancel(), after waits that may have timed out. *)
Cancel ==
  /\ ~cancelled
  /\ budget.orders > 0
  /\ budget' = [budget EXCEPT !.orders = @ - 1]
  /\ cancelled' = TRUE
  /\ at_cancel' = [quiet |-> /\ \A m \in Members : handle[m].at \in {"none", "gone"}
                             /\ \A a \in Admins : admin[a].at = "idle",
                   total |-> total, epoch |-> epoch]
  /\ UNCHANGED <<data, handle, next_id, versions, persist, flush, run, deadline, admin, file,
                 total, opened, epoch, acked>>

(* The process ends, in its own time or not, and starts again: open, load. *)
Restart ==
  /\ budget.crashes > 0
  /\ budget' = [budget EXCEPT !.crashes = @ - 1]
  /\ devices' = file.usage
  /\ sessions' = [k \in Keys |-> NoSession]
  /\ handle' = [m \in Members |-> NoHandle]
  /\ next_id' = 0
  /\ change_version' = 0 /\ persisted_version' = 0 /\ permit' = FALSE
  /\ persist' = None
  /\ flush' = [p \in Flushers |-> NoFlush]
  /\ run' = "select" /\ deadline' = FALSE /\ cancelled' = FALSE
  /\ admin' = [a \in Admins |-> Idle]
  /\ total' = [d \in Devices |-> file.usage[d].count]
  /\ opened' = [d \in Devices |-> file.usage[d].connections]
  /\ epoch' = file.epoch
  /\ at_cancel' = [quiet |-> FALSE, total |-> [d \in Devices |-> 0], epoch |-> epoch']
  /\ UNCHANGED <<file, acked>>
----------------------------------------------------------------------------
Flushing(p) ==
  FlushLocks(p) \/ PersistReads(p) \/ write_state_atomically(p) \/ WriteFails(p)

Running == RunNotified \/ RunDue \/ RunTick \/ RunCancelled \/ RunFlushed

Closing(m) == finish_session(m) \/ FinishRequests(m)

Deleting(a) == DeleteRequests(a) \/ DeleteReturns(a)

Next ==
  \/ \E m \in Members : (\E k \in Keys : begin(m, k)) \/ add(m) \/ close(m) \/ Closing(m)
  \/ \E a \in Admins : Deleting(a) \/ \E gone \in {{d} : d \in Devices} \cup {Devices} : delete(a, gone)
  \/ \E p \in Flushers : Flushing(p)
  \/ Running
  \/ Cancel
  \/ Restart

Spec == Init /\ [][Next]_vars
----------------------------------------------------------------------------
Totals == [connections : Nat, count : Nat]
Files == [usage : [Devices -> Totals], epoch : [Devices -> Nat]]
SessionStates == [id : Nat, members : SUBSET Members, completed : Nat]
Handles == [at : {"none", "open", "finish", "request", "gone"}, key : Keys \cup {None},
            id : Nat, count : Nat, stopped : BOOLEAN]
Passes == [at : {"none", "lock", "read", "write", "ok", "failed"}, force : BOOLEAN,
           version : Nat, image : Files \cup {None}]
Deletions == [at : {"idle", "request", "flush"}, devices : SUBSET Devices,
              epoch : [Devices -> Nat] \cup {None}]
Moments == [quiet : BOOLEAN, total : [Devices -> Nat], epoch : [Devices -> Nat]]

TypeOK ==
  /\ devices \in [Devices -> Totals]
  /\ sessions \in [Keys -> SessionStates]
  /\ handle \in [Members -> Handles]
  /\ next_id \in Nat /\ change_version \in Nat /\ persisted_version \in Nat
  /\ permit \in BOOLEAN /\ deadline \in BOOLEAN /\ cancelled \in BOOLEAN
  /\ persist \in Flushers \cup {None}
  /\ flush \in [Flushers -> Passes]
  /\ run \in {"select", "due", "tick", "final", "returned"}
  /\ admin \in [Admins -> Deletions]
  /\ file \in Files
  /\ total \in [Devices -> Nat] /\ opened \in [Devices -> Nat]
  /\ epoch \in [Devices -> Nat] /\ acked \in [Devices -> Nat]
  /\ at_cancel \in Moments

(* Every update is counted once and every session is one connection, at any  *)
(* moment: while lanes join, close and are folded, and when a session is     *)
(* deleted and its key used again while old lanes are still closing.         *)
CountedOnce ==
  \A d \in Devices : Usage(d) = [connections |-> opened[d], count |-> total[d]]

(* A deletion that was acknowledged is durable: neither the file nor a       *)
(* process that was started from it has usage from before it, whatever       *)
(* passes of other tasks had read before the deletion.                       *)
DeletedStaysDeleted ==
  \A d \in Devices : file.epoch[d] >= acked[d] /\ epoch[d] >= acked[d]

(* The file never loses what it has: a pass with an older picture does not   *)
(* overwrite a newer one.                                                    *)
NoRollback ==
  [][\A d \in Devices :
       file'.epoch[d] = file.epoch[d] =>
         /\ file'.usage[d].count >= file.usage[d].count
         /\ file'.usage[d].connections >= file.usage[d].connections]_vars

(* A session was folded into the device, or the device was deleted, and the  *)
(* step that publishes the change is still to come.                          *)
Unpublished(d) ==
  \/ \E m \in Members : handle[m].at = "request" /\ handle[m].key[1] = d
  \/ \E a \in Admins : admin[a].at = "request" /\ d \in admin[a].devices

(* flush_inner(false) may skip: when persisted_version has caught up with    *)
(* every change that was published, the file has every completed session and *)
(* every deletion.                                                           *)
SkipIsSafe ==
  persisted_version >= change_version =>
    \A d \in Devices :
      Unpublished(d) \/ (file.epoch[d] = epoch[d] /\ file.usage[d].count >= devices[d].count)

(* The state has its types and a pass is skipped only when it may be.        *)
StoreIsSound == TypeOK /\ SkipIsSafe

(* The last pass of run() loses nothing when the handlers were done before   *)
(* it was cancelled, as main() means them to be.                             *)
QuietShutdownSaves ==
  run = "returned" /\ flush["run"].at = "ok" /\ at_cancel.quiet =>
    \A d \in Devices :
      \/ epoch[d] # at_cancel.epoch[d]
      \/ file.epoch[d] = epoch[d] /\ file.usage[d].count >= at_cancel.total[d]

(* "shutdown performs a final crash-safe flush before returning"             *)
(* (docs/architecture.md): what was counted when run() was cancelled is in   *)
(* the file when it has returned without an error, sessions included that    *)
(* are open or just closing, as after the waits of main() timed out.         *)
ShutdownSaves ==
  run = "returned" /\ flush["run"].at = "ok" =>
    \A d \in Devices :
      file.epoch[d] = at_cancel.epoch[d] => file.usage[d].count >= at_cancel.total[d]

(* No published change is stranded: until the file has it, run() has a       *)
(* request to notice, a deadline to meet, or a pass under way that covers    *)
(* it or will be repeated - whichever branches of its select! ran between    *)
(* the request and the pass, and whatever other passes failed.               *)
ChangesArePending ==
  change_version > persisted_version =>
    \/ permit \/ deadline \/ cancelled
    \/ run = "due" /\ (\/ flush["run"].at \in {"lock", "failed"}
                      \/ flush["run"].version = change_version)

(* Usage is counted once, and gone once it is deleted. *)
UsageIsExact == StoreIsSound /\ CountedOnce /\ DeletedStaysDeleted

(* What was published reaches the file, at shutdown at the latest. *)
UsageIsSaved == QuietShutdownSaves /\ ChangesArePending
============================================================================
