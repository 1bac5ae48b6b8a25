----------------------------- MODULE MCRecovery -----------------------------
(***************************************************************************)
(* The file of the registry, the journal and guard of the Windows client,  *)
(* and its desktop application on small instances: what is left of a       *)
(* process that died or was quit.  subject says which of the three a       *)
(* behaviour is of; the others rest in an initial state.                   *)
(***************************************************************************)
EXTENDS Registry, WindowsNetwork, Desktop

CONSTANTS g1, p1, i1      \* the adapter, the path and the index a behaviour begins with

VARIABLE subject

TwoLeases ==
  {[address |-> "a1", dns |-> "d1", mtu |-> "m1"], [address |-> "a2", dns |-> "d2", mtu |-> "m2"]}

everything == <<subject, vars, windows_vars, desktop_vars>>
----------------------------------------------------------------------------
\* Adapters, paths and indexes are alike: which of them come first makes no difference.
BeginAll ==
  /\ subject \in {"windows", "registry", "desktop"}
  /\ Init /\ WindowsInit /\ DesktopInit
  /\ os.phys = p1 /\ os.tun.id \in {None, g1} /\ os.tun.index \in {None, i1}
  /\ subject # "windows" => ~os.kept /\ os.tun.id = None
  /\ subject # "desktop" => profiles = {} /\ ~captured /\ ~desktop.startup_blocked

\* The registry and the desktop never stop; the client may, and then stutters.
Steps ==
  \/ subject = "registry" /\ Next /\ UNCHANGED <<subject, windows_vars, desktop_vars>>
  \/ subject = "windows" /\ WindowsNext /\ UNCHANGED <<subject, vars, desktop_vars>>
  \/ subject = "desktop" /\ DesktopNext /\ UNCHANGED <<subject, vars, windows_vars>>
  \/ subject = "windows" /\ UNCHANGED everything

SpecAll == BeginAll /\ [][Steps]_everything
=============================================================================
