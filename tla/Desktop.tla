------------------------------- MODULE Desktop -------------------------------
(***************************************************************************)
(* The desktop application of the Windows client (porta-windows/src/       *)
(* desktop.rs): the commands of the window and of the tray, the task that  *)
(* runs a connection and reports its events, the task that restores the    *)
(* network, and the ways in which the application ends.                    *)
(*                                                                         *)
(* Commands run one after the other on the thread of the window.  Tasks    *)
(* run beside it, and meet the commands at the lock of DesktopState only:  *)
(* a task decides in its last turn with the lock whether the application   *)
(* exits, and does so after it.  What a task does to the network is in     *)
(* WindowsNetwork; here it is whether the journal needs to be cleaned up.  *)
(***************************************************************************)
EXTENDS Integers, FiniteSets

CONSTANTS Profiles,   \* the ids a profile may get
          Tasks,      \* bound: the tasks at a time, each with its cancellation token
          MaxLines,   \* MAX_ACTIVITY_LINES
          MaxLog,     \* the lines of a log file of one MiB
          Nothing

VARIABLES life,       \* the application is on, was quit or was killed
          desktop,    \* DesktopState
          profiles,   \* the ids in the store, which is a file
          captured,   \* needs_cleanup() of the network's journal
          log,        \* the lines of the log, and whether there is a rotated one
          ui,         \* what the thread of the window still has to do
          task,       \* the tasks that were spawned
          overtaken   \* history: a connect came after a task had decided to exit

desktop_vars == <<life, desktop, profiles, captured, log, ui, task, overtaken>>

ASSUME DesktopAssumption == MaxLines \in Nat \ {0} /\ MaxLog \in Nat \ {0} /\ Nothing \notin Tasks \cup Profiles
----------------------------------------------------------------------------
NoTask == [at |-> "idle", restores |-> FALSE, cancelled |-> FALSE, exit |-> FALSE, ok |-> FALSE]
Free == [at |-> "free", token |-> Nothing]
AtMost(a, b) == IF a < b THEN a ELSE b

(* Controller::new, with what it finds of the log and of the journal; a     *)
(* startup error leaves the journal alone.                                  *)
NewState(blocked, first) ==
  LET recovery == ~blocked /\ captured IN
  [selected |-> first, active |-> Nothing, cancellation |-> Nothing, running |-> FALSE, connected |-> FALSE,
   disconnecting |-> FALSE, restoring |-> FALSE, quitting |-> FALSE, recovery |-> recovery, startup_blocked |-> blocked,
   status |-> IF blocked THEN "Action required" ELSE IF recovery THEN "Network recovery available"
              ELSE IF profiles = {} THEN "Disconnected" ELSE "Ready",
   info |-> FALSE,
   activity |-> AtMost(AtMost(log.lines, MaxLines) + (IF recovery \/ blocked THEN 1 ELSE 0), MaxLines)]

(* list() sorts by the name, which is free: any profile may be the first. *)
Firsts(ids) == IF ids = {} THEN {Nothing} ELSE ids

(* Store::save and Store::delete, when the file is written; if not, the     *)
(* store is as before, and the command is refused.                          *)
Saved(ids, id) == ids \cup {id}
Deleted(ids, id) == ids \ {id}

DesktopInit ==
  /\ life = "on" /\ captured \in BOOLEAN
  /\ profiles \in SUBSET Profiles
  /\ log = [lines |-> 0, rotated |-> FALSE]
  /\ ui = Free /\ task = [t \in Tasks |-> NoTask] /\ overtaken = FALSE
  /\ \E blocked \in BOOLEAN, first \in Firsts(profiles) : desktop = NewState(blocked, first)
----------------------------------------------------------------------------
(* add_activity, and write_activity with open_for_append: a file that is    *)
(* full is rotated.  The file may not open, or not be renamed.              *)
add_activity(d) == [d EXCEPT !.activity = AtMost(@ + 1, MaxLines)]
open_for_append(l) == IF l.lines < MaxLog THEN l ELSE [lines |-> 0, rotated |-> TRUE]
write_activity ==
  \/ log' = LET open == open_for_append(log) IN [open EXCEPT !.lines = @ + 1]
  \/ log' = log
  \/ log.lines >= MaxLog /\ log' = [log EXCEPT !.rotated = FALSE]
Tell(d) == desktop' = add_activity(d) /\ write_activity

record_error(action) == Tell([desktop EXCEPT !.status = action])
reset_connection(d) == [d EXCEPT !.info = FALSE]
Idlers == {t \in Tasks : task[t].at = "idle"}
Awake == life = "on" /\ ui = Free

(* The tasks that may have the NetworkManager open. *)
Owners == {t \in Tasks : task[t].at \notin {"idle", "tail"}}
----------------------------------------------------------------------------
(* The commands.  One that is refused changes nothing, unless it came from  *)
(* the tray.                                                                *)
select_profile(id) ==
  /\ Awake /\ ~desktop.startup_blocked
  /\ ~(desktop.running /\ id # desktop.active)
  /\ desktop' = [desktop EXCEPT !.selected = id,
                                !.status = IF desktop.running \/ desktop.restoring THEN @ ELSE "Ready"]
  /\ UNCHANGED <<life, profiles, captured, log, ui, task, overtaken>>

Busy == desktop.running \/ desktop.restoring

(* With a new id, or that of a profile. *)
save_profile(id) ==
  /\ Awake /\ ~desktop.startup_blocked /\ ~Busy
  /\ profiles' = Saved(profiles, id)
  /\ Tell([desktop EXCEPT !.selected = id, !.status = "Ready"])
  /\ UNCHANGED <<life, captured, ui, task, overtaken>>

delete_profile(id) ==
  /\ Awake /\ ~desktop.startup_blocked /\ ~Busy
  /\ profiles' = Deleted(profiles, id)
  /\ \E first \in Firsts(profiles') :
       Tell([desktop EXCEPT !.selected = first, !.status = IF first = Nothing THEN "Disconnected" ELSE "Ready"])
  /\ UNCHANGED <<life, captured, ui, task, overtaken>>

(* A mutant: the restoration is not looked at. *)
CanConnectWhileRestoring(id) == ~desktop.startup_blocked /\ id \in profiles /\ ~desktop.running

CanConnect(id) == ~desktop.startup_blocked /\ id \in profiles /\ ~Busy

(* connect, which spawns run_connection. *)
Connect(id) ==
  /\ CanConnect(id)
  /\ \E t \in Idlers :
       /\ task' = [task EXCEPT ![t] = [NoTask EXCEPT !.at = "start"]]
       /\ Tell(reset_connection([desktop EXCEPT !.selected = id, !.active = id, !.cancellation = t, !.running = TRUE,
                                 !.connected = FALSE, !.disconnecting = FALSE, !.status = "Connecting"]))
  /\ overtaken' = (overtaken \/ \E t \in Tasks : task[t].at = "tail" /\ task[t].exit)
  /\ ui' = Free
  /\ UNCHANGED <<life, profiles, captured>>

connect(id) == Awake /\ Connect(id)

(* disconnect takes the token and cancels it after the lock; without one    *)
(* there is nothing to do.                                                  *)
Disconnection ==
  /\ ~desktop.startup_blocked /\ ~desktop.restoring
  /\ IF desktop.cancellation = Nothing THEN ui' = Free /\ UNCHANGED desktop
     ELSE /\ desktop' = [desktop EXCEPT !.disconnecting = TRUE, !.status = "Disconnecting"]
          /\ ui' = [at |-> "cancel", token |-> desktop.cancellation]
  /\ UNCHANGED <<life, profiles, captured, log, task, overtaken>>

disconnect_active == Awake /\ Disconnection

CancelToken ==
  /\ life = "on" /\ ui.at = "cancel"
  /\ ui' = Free
  /\ task' = [task EXCEPT ![ui.token] = [@ EXCEPT !.cancelled = TRUE]]
  /\ UNCHANGED <<life, desktop, profiles, captured, log, overtaken>>

(* The tray's "connect": toggle looks at running and then gives up the lock. *)
(* The profile, its token or the state may not do then.                      *)
toggle ==
  /\ Awake
  /\ ui' = [Free EXCEPT !.at = IF desktop.running THEN "disconnect" ELSE "connect"]
  /\ UNCHANGED <<life, desktop, profiles, captured, log, task, overtaken>>

Toggled ==
  /\ life = "on"
  /\ \/ ui.at = "disconnect" /\ Disconnection
     \/ ui.at = "connect" /\ Connect(desktop.selected)
     \/ /\ ui.at = "connect" \/ (ui.at = "disconnect" /\ (desktop.startup_blocked \/ desktop.restoring))
        /\ ui' = Free
        /\ record_error("Connection action failed")
        /\ UNCHANGED <<life, profiles, captured, task, overtaken>>
----------------------------------------------------------------------------
(* The task of a connection: client::run and the events it reports to       *)
(* handle_connection_event on its way.                                      *)
In(t, at) == life = "on" /\ ~task[t].restores /\ task[t].at = at
Goes(t, at) == task' = [task EXCEPT ![t] = [@ EXCEPT !.at = at]]
Ends(t, ok) == task' = [task EXCEPT ![t] = [@ EXCEPT !.at = "done", !.ok = ok]] /\ UNCHANGED <<desktop, log>>

handle_connection_event(status) ==
  Tell(CASE status = "Connected" -> [desktop EXCEPT !.status = status, !.connected = TRUE, !.info = TRUE]
         [] status = "Reconnecting" -> [desktop EXCEPT !.status = status, !.connected = FALSE]
         [] OTHER -> [desktop EXCEPT !.status = status])

(* The identity, the journal and the endpoints: those of a journal, or the  *)
(* name is looked up, which the cancellation ends with an error.            *)
RunStart(t) ==
  /\ In(t, "start")
  /\ \/ captured /\ handle_connection_event("Recovering network") /\ Goes(t, "loop")
     \/ ~captured /\ UNCHANGED <<desktop, log>> /\ Goes(t, "loop")
     \/ Ends(t, FALSE)
  /\ UNCHANGED <<life, profiles, captured, ui, overtaken>>

(* Where cancellation is looked at, it begins the stop. *)
RunLoop(t) ==
  /\ In(t, "loop")
  /\ IF task[t].cancelled THEN handle_connection_event("Disconnecting") /\ Goes(t, "stop")
     ELSE handle_connection_event("Connecting") /\ Goes(t, "dial")
  /\ UNCHANGED <<life, profiles, captured, ui, overtaken>>

(* prepare() guards the network, before the dial or after it; then there is *)
(* a lease to configure.                                                    *)
RunDial(t) ==
  /\ In(t, "dial")
  /\ \/ captured' = TRUE /\ handle_connection_event("Configuring network") /\ Goes(t, "up")
     \/ captured' = captured /\ handle_connection_event("Reconnecting") /\ Goes(t, "wait")
     \/ captured' = captured /\ task[t].cancelled /\ handle_connection_event("Disconnecting") /\ Goes(t, "stop")
     \/ captured' \in {captured, TRUE} /\ Ends(t, FALSE)
  /\ UNCHANGED <<life, profiles, ui, overtaken>>

RunUp(t) ==
  /\ In(t, "up")
  /\ \/ handle_connection_event("Connected") /\ Goes(t, "session")
     \/ Ends(t, FALSE)
  /\ UNCHANGED <<life, profiles, captured, ui, overtaken>>

RunSession(t) ==
  /\ In(t, "session")
  /\ \/ handle_connection_event("Reconnecting") /\ Goes(t, "wait")
     \/ task[t].cancelled /\ handle_connection_event("Disconnecting") /\ Goes(t, "stop")
     \/ Ends(t, FALSE)
  /\ UNCHANGED <<life, profiles, captured, ui, overtaken>>

RunWait(t) ==
  /\ In(t, "wait")
  /\ \/ UNCHANGED <<desktop, log>> /\ Goes(t, "loop")
     \/ task[t].cancelled /\ handle_connection_event("Disconnecting") /\ Goes(t, "stop")
  /\ UNCHANGED <<life, profiles, captured, ui, overtaken>>

(* stop: down() gives the network back, or it does not; the device may not  *)
(* have stopped.                                                            *)
RunStop(t) ==
  /\ In(t, "stop")
  /\ \E ok \in BOOLEAN : Ends(t, ok) /\ captured' \in {FALSE} \cup {j \in {captured} : ~ok}
  /\ UNCHANGED <<life, profiles, ui, overtaken>>

(* A mutant: what was known of the journal before is kept. *)
network_recovery_kept == {desktop.recovery}

(* network_recovery: needs_cleanup(), or true when the journal is not read. *)
network_recovery == {captured, TRUE}

(* The last turn of run_connection with the lock. *)
RunDone(t) ==
  /\ In(t, "done")
  /\ \E recovery \in network_recovery :
       /\ Tell(reset_connection(
            [desktop EXCEPT !.running = FALSE, !.connected = FALSE, !.disconnecting = FALSE, !.cancellation = Nothing,
                            !.active = Nothing, !.recovery = recovery, !.quitting = @ /\ task[t].ok,
                            !.status = IF task[t].ok THEN "Disconnected" ELSE "Connection error"]))
       /\ task' = [task EXCEPT ![t] = [@ EXCEPT !.at = "tail", !.exit = desktop.quitting /\ task[t].ok /\ ~recovery]]
  /\ UNCHANGED <<life, profiles, captured, ui, overtaken>>

(* A task that does not exit shows the window; that of a connection takes   *)
(* back the quit that it finds then.                                        *)
Tail(t) ==
  /\ life = "on" /\ task[t].at = "tail"
  /\ life' = IF task[t].exit THEN "quit" ELSE life
  /\ desktop' = IF task[t].exit \/ task[t].restores THEN desktop ELSE [desktop EXCEPT !.quitting = FALSE]
  /\ task' = [task EXCEPT ![t] = NoTask]
  /\ UNCHANGED <<profiles, captured, log, ui, overtaken>>
----------------------------------------------------------------------------
(* restore_network and its task.  exit: the application exits after it.     *)
CanRestore == ~desktop.startup_blocked /\ ~Busy
restore_network(exit) ==
  /\ CanRestore
  /\ desktop' = [desktop EXCEPT !.restoring = TRUE, !.status = "Restoring network"]
  /\ \E t \in Idlers : task' = [task EXCEPT ![t] = [NoTask EXCEPT !.at = "start", !.restores = TRUE, !.exit = exit]]
  /\ ui' = Free
  /\ UNCHANGED <<life, profiles, captured, log, overtaken>>

(* From the window, or from the tray, where a refusal is shown. *)
Restore ==
  /\ Awake
  /\ \/ restore_network(FALSE)
     \/ ~CanRestore /\ record_error("Network recovery failed") /\ UNCHANGED <<life, profiles, captured, ui, task, overtaken>>

(* down() succeeds, fails or is given up after NETWORK_ACTION_TIMEOUT.      *)
RestoreDown(t) ==
  /\ life = "on" /\ task[t].restores /\ task[t].at = "start"
  /\ \E ok \in BOOLEAN :
       /\ captured' \in {FALSE} \cup {j \in {captured} : ~ok}
       /\ task' = [task EXCEPT ![t] = [@ EXCEPT !.at = "done", !.ok = ok]]
  /\ UNCHANGED <<life, desktop, profiles, log, ui, overtaken>>

RestoreDone(t) ==
  /\ life = "on" /\ task[t].restores /\ task[t].at = "done"
  /\ \E recovery \in network_recovery :
       LET done == task[t].ok /\ ~recovery IN
       /\ Tell([desktop EXCEPT !.restoring = FALSE, !.recovery = recovery, !.quitting = @ /\ done,
                               !.status = IF done THEN "Disconnected" ELSE "Network recovery failed"])
       /\ task' = [task EXCEPT ![t] = [@ EXCEPT !.at = "tail", !.exit = task[t].exit /\ desktop.quitting /\ done]]
  /\ UNCHANGED <<life, profiles, captured, ui, overtaken>>

(* A mutant: quit exits whatever is left of the network. *)
quit_at_once ==
  /\ Awake /\ ~desktop.quitting
  /\ desktop' = [desktop EXCEPT !.quitting = TRUE]
  /\ ui' = [Free EXCEPT !.at = "exit"]
  /\ UNCHANGED <<life, profiles, captured, log, task, overtaken>>

(* quit decides under the lock and acts after it. *)
quit ==
  /\ Awake /\ ~desktop.quitting
  /\ desktop' = [desktop EXCEPT !.quitting = TRUE, !.disconnecting = @ \/ desktop.running,
                                !.status = IF desktop.running THEN "Disconnecting" ELSE @]
  /\ ui' = IF desktop.running
           THEN IF desktop.cancellation = Nothing THEN Free ELSE [at |-> "cancel", token |-> desktop.cancellation]
           ELSE [Free EXCEPT !.at = IF desktop.recovery THEN "restore" ELSE "exit"]
  /\ UNCHANGED <<life, profiles, captured, log, task, overtaken>>

Quitting ==
  /\ life = "on"
  /\ \/ ui.at = "exit" /\ life' = "quit" /\ ui' = Free /\ UNCHANGED <<desktop, profiles, captured, log, task, overtaken>>
     \/ ui.at = "restore" /\ restore_network(TRUE)
     \/ /\ ui.at = "restore" /\ ~CanRestore
        /\ ui' = Free /\ desktop' = [desktop EXCEPT !.quitting = FALSE]
        /\ UNCHANGED <<life, profiles, captured, log, task, overtaken>>

(* The log and the rotated one are removed, in this order, or one is not.   *)
clear_activity ==
  /\ Awake
  /\ \/ log' = [lines |-> 0, rotated |-> FALSE] /\ desktop' = [desktop EXCEPT !.activity = 0]
     \/ log' = [log EXCEPT !.lines = 0] /\ UNCHANGED desktop
  /\ UNCHANGED <<life, profiles, captured, ui, task, overtaken>>
----------------------------------------------------------------------------
(* The process is killed; after that, or after it was quit, run() starts it *)
(* again on what the files say.                                             *)
Kill ==
  /\ life = "on" /\ life' = "killed"
  /\ UNCHANGED <<desktop, profiles, captured, log, ui, task, overtaken>>

run ==
  /\ life # "on" /\ life' = "on"
  /\ \E blocked \in BOOLEAN, first \in Firsts(profiles) : desktop' = NewState(blocked, first)
  /\ ui' = Free /\ task' = [t \in Tasks |-> NoTask] /\ overtaken' = FALSE
  /\ UNCHANGED <<profiles, captured, log>>

(* --cleanup-network, a process of its own: the journal's lock keeps it out *)
(* while a task has the network.                                            *)
cleanup_network ==
  /\ life = "on" => Owners = {}
  /\ captured' = FALSE
  /\ UNCHANGED <<life, desktop, profiles, log, ui, task, overtaken>>

DesktopNext ==
  \/ \E id \in profiles : select_profile(id) \/ delete_profile(id) \/ connect(id)
  \/ \E id \in Profiles : save_profile(id)
  \/ disconnect_active \/ CancelToken \/ toggle \/ Toggled \/ Restore \/ quit \/ Quitting \/ clear_activity
  \/ \E t \in Tasks : \/ RunStart(t) \/ RunLoop(t) \/ RunDial(t) \/ RunUp(t) \/ RunSession(t) \/ RunWait(t) \/ RunStop(t)
                      \/ RunDone(t) \/ Tail(t) \/ RestoreDown(t) \/ RestoreDone(t)
  \/ Kill \/ run \/ cleanup_network

DesktopSpec == DesktopInit /\ [][DesktopNext]_desktop_vars
----------------------------------------------------------------------------
(* One task at a time works on the network, though a task outlives its last *)
(* turn with the lock: NetworkManager::open never meets a manager of this   *)
(* application.  The state says which task it is, and how to cancel it.     *)
OneOwner ==
  /\ \A t, u \in Owners : t = u
  /\ desktop.running <=> \E t \in Owners : ~task[t].restores
  /\ desktop.restoring <=> \E t \in Owners : task[t].restores
  /\ \A t \in Owners : ~task[t].restores => desktop.cancellation = t
  /\ ~desktop.running => desktop.cancellation = Nothing /\ desktop.active = Nothing

(* What the window shows is of a connection that runs, whatever events      *)
(* cross the commands; its profile is in the store until it ends.           *)
ShowsTheTruth ==
  /\ desktop.connected \/ desktop.info \/ desktop.disconnecting => desktop.running
  /\ desktop.running => desktop.active \in profiles
  /\ desktop.status \in {"Connected", "Connecting", "Disconnecting", "Reconnecting", "Configuring network", "Recovering network"}
       => desktop.running
  /\ desktop.status = "Restoring network" => desktop.restoring

(* The application is quit only when the network is given back, unless it   *)
(* could not start or a connect slipped in after a task had decided to      *)
(* exit; and without a connection it knows of what is left to restore.      *)
QuitsClean ==
  /\ life = "quit" /\ captured => desktop.startup_blocked \/ overtaken
  /\ ~desktop.running /\ captured => desktop.recovery \/ desktop.startup_blocked

(* The list and the log stay within their limits. *)
LogsAreBounded == desktop.activity <= MaxLines /\ log.lines <= MaxLog

(* The desktop application keeps the network in one hand, says what it      *)
(* does, and quits without leaving the network captured.                    *)
DesktopIsSound == OneOwner /\ ShowsTheTruth /\ QuitsClean /\ LogsAreBounded
=============================================================================
