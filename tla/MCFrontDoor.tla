---------------------------- MODULE MCFrontDoor ----------------------------
(***************************************************************************)
(* How connections come into the server, what is done on them, and how all *)
(* of it ends, on small instances: the shutdown, the admission of          *)
(* connections, the life of an HTTP connection, a CONNECT request to the   *)
(* proxy, and its relay.  The five models share nothing and are checked    *)
(* side by side: subject says which of them a behaviour is of, and the     *)
(* others rest in an initial state.                                        *)
(***************************************************************************)
EXTENDS Shutdown, FrontDoor, HttpConnection, ProxyConnect, ProxyRelay

VARIABLE subject

SomeKinds == {[c \in Conns |-> t] : t \in {"tcp", "quic"}}
SomeAnswers == {<<>>, <<"v4", "w4", "v6">>, <<"v6", "private">>, <<"v6">>}
----------------------------------------------------------------------------
All == <<subject, vars, door_vars, http_vars, proxy_vars, relay_vars>>

Begin ==
  /\ subject \in {"shutdown", "door", "http", "proxy", "relay"}
  /\ Init /\ DoorInit /\ HttpInit /\ ProxyInit /\ RelayInit
  /\ subject # "door" => \A c \in Conns : kind[c] = "tcp"

Steps ==
  \/ subject = "shutdown" /\ Next /\ UNCHANGED <<subject, door_vars, http_vars, proxy_vars, relay_vars>>
  \/ subject = "door" /\ DoorNext /\ UNCHANGED <<subject, vars, http_vars, proxy_vars, relay_vars>>
  \/ subject = "http" /\ HttpNext /\ UNCHANGED <<subject, vars, door_vars, proxy_vars, relay_vars>>
  \/ subject = "proxy" /\ ProxyNext /\ UNCHANGED <<subject, vars, door_vars, http_vars, relay_vars>>
  \/ subject = "relay" /\ RelayNext /\ UNCHANGED <<subject, vars, door_vars, http_vars, proxy_vars>>

FairAll ==
  /\ Begin /\ [][Steps]_All
  /\ WF_vars(subject = "shutdown" /\ Main)
  /\ WF_vars(subject = "shutdown" /\ RunEnds /\ listener = "returned")
  /\ SF_vars(subject = "shutdown" /\ ListenerReturns)
  /\ WF_door_vars(subject = "door" /\ ServeQuinnReturns)
  /\ \A c \in Conns, t \in Tasks : WF_door_vars(subject = "door" /\ Task(c, t))
  /\ \A t \in HttpTasks : WF_http_vars(subject = "http" /\ HttpTask(t))
  /\ WF_now(subject = "proxy" /\ ProxyTick)
  /\ \A r \in Connects, t \in ProxyTasks : WF_proxy_vars(subject = "proxy" /\ ProxyTask(r, t))
  /\ \A t \in RelayTasks : WF_relay_vars(subject = "relay" /\ RelayTask(t))

(* Nothing is waited for in vain: run() gets to the end of the shutdown      *)
(* however the handlers and the connections behave, and the QUIC listener's  *)
(* task, which it waits for, returns; wait_until_idle_for closes a           *)
(* connection once all its requests are over, in whatever order the last of  *)
(* them reported it; a CONNECT request whose session was revoked ends; and a *)
(* relay whose ends neither send, nor read, nor close is over in the end.    *)
NothingHangs ==
  /\ ShutdownReturns /\ QuicListenerReturns /\ RevokedRequestsEnd
  /\ []<>(subject = "http" => ClosedWhenDone)
  /\ []<>(subject = "relay" => Over)
=============================================================================
