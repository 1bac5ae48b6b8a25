------------------------------- MODULE Tunnel -------------------------------
(***************************************************************************)
(* The life of a tunnel over the components it is made of: Services::open  *)
(* and Session::close (porta-server/src/transport/session.rs), the         *)
(* adapters of integration.rs, the router's registration of sessions       *)
(* (data/router.rs) and the address pool (LeasePool).                      *)
(*                                                                         *)
(* A tunnel holds a session guard of the registry, a lease, and a route;   *)
(* it takes them in this order and gives them back in the order route,     *)
(* lease, guard.  An administrative drain cancels the sessions of a client *)
(* and waits for their guards.  The registry's part is abstracted to what  *)
(* NoSessionOutlivesDrain of Registry says: no authentication succeeds     *)
(* during a drain.  Lease identities are the clients of the pool.          *)
(*                                                                         *)
(* The future of open() is dropped when the connection goes away; the      *)
(* blocking task that acquires the lease then still runs to its end.  From *)
(* the moment it has the lease, open() runs without an await.              *)
(***************************************************************************)
EXTENDS LeasePool

CONSTANTS Lanes,          \* lane indexes, 0 among them
          LaneCounts,     \* lane counts that clients declare
          NoTunnel        \* a lane without a session

ASSUME TunnelAssumption ==
  /\ 0 \in Lanes /\ Lanes \subseteq Nat /\ LaneCounts \subseteq Nat \ {0}
  /\ NoTunnel \notin Handles

VARIABLES tunnel,         \* handle -> the request and the progress of a tunnel
          guards,         \* the tunnels whose SessionGuard is alive
          cancelled,      \* the tunnels whose registry token is cancelled
          shut,           \* the tunnels whose router session is closed
          routes,         \* address -> SessionGroup
          watched,        \* the tunnels whose watch_session task still runs
          draining        \* the clients that are being drained

route_vars  == <<shut, routes, watched>>
tunnel_vars == <<tunnel, guards, cancelled, draining, route_vars>>
----------------------------------------------------------------------------
NoTunnelYet(c) == [pc |-> "idle", client |-> c, group |-> NoGroup, lane |-> 0,
                   lane_count |-> 1, lease |-> NoLease]
NoRoute == [id |-> NoGroup, lane_count |-> 0, lanes |-> [l \in Lanes |-> NoTunnel]]

Routed(t) == \E a \in Leasable, l \in Lanes : routes[a].lanes[l] = t

(* The router session's token is a child of the registry's. *)
RouteCancelled(t) == t \in shut \cup cancelled

At(t, pc) == tunnel[t].pc = pc
Goes(t, pc) == tunnel' = [tunnel EXCEPT ![t].pc = pc]

(* A bound: generations that acquisitions under way may still need. *)
GenerationsLeft ==
  next_generation + Cardinality({t \in Handles : tunnel[t].pc \in {"authenticated", "abandoned"}})
    < MaxGeneration

TunnelInit ==
  /\ Init
  /\ tunnel \in {[t \in Handles |-> NoTunnelYet(c)] : c \in Clients}
  /\ guards = {} /\ cancelled = {} /\ shut = {} /\ watched = {}
  /\ routes = [a \in Leasable |-> NoRoute]
  /\ draining = {}

(* A name is used for a new tunnel once the old one's watcher has ended. *)
Authenticate(t, c, g, l, n) ==
  /\ At(t, "idle") /\ t \notin watched
  /\ c \notin draining
  /\ GenerationsLeft
  /\ tunnel' = [tunnel EXCEPT ![t] =
                  [pc |-> "authenticated", client |-> c, group |-> g, lane |-> l,
                   lane_count |-> n, lease |-> NoLease]]
  /\ guards' = guards \cup {t}
  /\ cancelled' = cancelled \ {t}
  /\ shut' = shut \ {t}
  /\ UNCHANGED <<routes, watched, draining, pool_vars>>

(* PoolAdapter::acquire, in the blocking task: whoever waits for it or not. *)
AcquireLease(t) ==
  /\ At(t, "authenticated") \/ At(t, "abandoned")
  /\ Acquire(t, tunnel[t].client, tunnel[t].group)
  /\ tunnel' = [tunnel EXCEPT
                  ![t].lease = held'[t],
                  ![t].pc = IF At(t, "abandoned")
                            THEN IF held'[t] = NoLease THEN "idle" ELSE "orphaned"
                            ELSE IF held'[t] = NoLease THEN "failed" ELSE "leased"]
  /\ UNCHANGED <<guards, cancelled, draining, route_vars>>

(* The connection goes away: the guard is dropped with the future. *)
Abandon(t) ==
  /\ \/ At(t, "authenticated") /\ Goes(t, "abandoned")
     \/ At(t, "leased") /\ Goes(t, "orphaned")
  /\ guards' = guards \ {t}
  /\ UNCHANGED <<cancelled, draining, route_vars, pool_vars>>

(* A mutant: the lease of an abandoned acquisition is forgotten. *)
OrphanLeaks(t) ==
  /\ At(t, "orphaned")
  /\ Goes(t, "idle")
  /\ UNCHANGED <<guards, cancelled, draining, route_vars, pool_vars>>

(* PendingLease::drop *)
PendingLeaseDrop(t) ==
  /\ At(t, "orphaned")
  /\ Release(t)
  /\ Goes(t, "idle")
  /\ UNCHANGED <<guards, cancelled, draining, route_vars>>

(* Router::register and register_group: the group that results, and the     *)
(* sessions that it closes.                                                 *)
Joins(t, old) ==
  tunnel[t].group # NoGroup /\ old.lane_count # 0 /\ old.id = tunnel[t].group

WithLane(t, old) ==
  [id |-> tunnel[t].group, lane_count |-> tunnel[t].lane_count,
   lanes |-> [(IF Joins(t, old) THEN old ELSE NoRoute).lanes EXCEPT ![tunnel[t].lane] = t]]

Replaced(t, old) ==
  {old.lanes[l] : l \in IF Joins(t, old) THEN {tunnel[t].lane} ELSE Lanes} \ {NoTunnel}

LaneCountMismatch(t, old) == Joins(t, old) /\ old.lane_count # tunnel[t].lane_count

(* A mutant: the lease is not checked. *)
RegisterUnchecked(t) ==
  LET a == tunnel[t].lease.address
  IN /\ At(t, "leased")
     /\ ~LaneCountMismatch(t, routes[a])
     /\ routes' = [routes EXCEPT ![a] = WithLane(t, routes[a])]
     /\ shut' = shut \cup Replaced(t, routes[a])
     /\ watched' = watched \cup {t}
     /\ Goes(t, "open")
     /\ UNCHANGED <<guards, cancelled, draining, pool_vars>>

(* RouterAdapter::register, under the pool's mutex, which orders it with     *)
(* every acquisition.  The sessions that lose their lane are closed in the   *)
(* same step; in the code just after the map's lock is dropped.              *)
Register(t) ==
  LET a == tunnel[t].lease.address
  IN /\ At(t, "leased")
     /\ LeaseIsCurrent(tunnel[t].lease)
     /\ ~LaneCountMismatch(t, routes[a])
     /\ routes' = [routes EXCEPT ![a] = WithLane(t, routes[a])]
     /\ shut' = shut \cup Replaced(t, routes[a])
     /\ watched' = watched \cup {t}
     /\ Goes(t, "open")
     /\ UNCHANGED <<guards, cancelled, draining, pool_vars>>

(* The lease was superseded, or the lane does not fit the group. *)
Conflict(t) ==
  /\ At(t, "leased")
  /\ LeaseIsCurrent(tunnel[t].lease) => LaneCountMismatch(t, routes[tunnel[t].lease.address])
  /\ Release(t)
  /\ Goes(t, "failed")
  /\ UNCHANGED <<guards, cancelled, draining, route_vars>>

(* A mutant: the guard is dropped first, before route and lease. *)
CloseGuardFirst(t) ==
  /\ At(t, "open")
  /\ guards' = guards \ {t}
  /\ shut' = shut \cup {t}
  /\ Goes(t, "closing")
  /\ UNCHANGED <<routes, watched, cancelled, draining, pool_vars>>

(* close_with_reason, run once: the peer left, a token was cancelled, or    *)
(* the transport failed.  Route, lease and guard go one after the other.    *)
CloseRoute(t) ==
  /\ At(t, "open")
  /\ cancelled' = cancelled \cup {t}
  /\ shut' = shut \cup {t}
  /\ Goes(t, "closing")
  /\ UNCHANGED <<guards, routes, watched, draining, pool_vars>>

CloseLease(t) ==
  /\ At(t, "closing")
  /\ Release(t)
  /\ Goes(t, "released")
  /\ UNCHANGED <<guards, cancelled, draining, route_vars>>

CloseGuard(t) ==
  /\ At(t, "released") \/ At(t, "failed")
  /\ cancelled' = cancelled \cup {t}
  /\ guards' = guards \ {t}
  /\ Goes(t, "idle")
  /\ UNCHANGED <<draining, route_vars, pool_vars>>

(* A group without a lane is removed. *)
WithoutLane(group, l) ==
  LET lanes == [group.lanes EXCEPT ![l] = NoTunnel]
  IN IF \A k \in Lanes : lanes[k] = NoTunnel THEN NoRoute ELSE [group EXCEPT !.lanes = lanes]

(* A mutant: the lane is removed whoever has it now. *)
RemoveAnySession(t) ==
  LET a == tunnel[t].lease.address
  IN /\ t \in watched /\ RouteCancelled(t)
     /\ shut' = shut \cup {t}
     /\ watched' = watched \ {t}
     /\ routes' = IF routes[a].id = tunnel[t].group
                  THEN [routes EXCEPT ![a] = WithoutLane(@, tunnel[t].lane)] ELSE routes
     /\ UNCHANGED <<tunnel, guards, cancelled, draining, pool_vars>>

(* The task of watch_session, and remove_session. *)
remove_session(t) ==
  LET a == tunnel[t].lease.address
  IN /\ t \in watched /\ RouteCancelled(t)
     /\ shut' = shut \cup {t}
     /\ watched' = watched \ {t}
     /\ routes' = IF routes[a].id = tunnel[t].group /\ routes[a].lanes[tunnel[t].lane] = t
                  THEN [routes EXCEPT ![a] = WithoutLane(@, tunnel[t].lane)] ELSE routes
     /\ UNCHANGED <<tunnel, guards, cancelled, draining, pool_vars>>

(* A mutant: a drain only refuses new sessions. *)
BeginDrainKeepsSessions(c) ==
  /\ c \notin draining
  /\ draining' = draining \cup {c}
  /\ UNCHANGED <<tunnel, guards, cancelled, route_vars, pool_vars>>

(* A drain of Registry: every live session of the client is cancelled, and  *)
(* the drain returns when all their guards are gone.                        *)
SessionsOf(c) == {t \in guards : tunnel[t].client = c}

BeginDrain(c) ==
  /\ c \notin draining
  /\ draining' = draining \cup {c}
  /\ cancelled' = cancelled \cup SessionsOf(c)
  /\ UNCHANGED <<tunnel, guards, route_vars, pool_vars>>

EndDrain(c) ==
  /\ c \in draining /\ SessionsOf(c) = {}
  /\ draining' = draining \ {c}
  /\ UNCHANGED <<tunnel, guards, cancelled, route_vars, pool_vars>>
----------------------------------------------------------------------------
Open(t) ==
  \/ \E c \in Clients :
       \/ Authenticate(t, c, NoGroup, 0, 1)
       \/ \E g \in GroupIds, n \in LaneCounts :
            \E l \in {l \in Lanes : l < n} : Authenticate(t, c, g, l, n)
  \/ AcquireLease(t) \/ Abandon(t) \/ PendingLeaseDrop(t)
  \/ Register(t) \/ Conflict(t)

Close(t) == CloseRoute(t) \/ CloseLease(t) \/ CloseGuard(t)

TunnelNext ==
  \/ \E t \in Handles : Open(t) \/ Close(t) \/ remove_session(t)
  \/ \E c \in Clients : BeginDrain(c) \/ EndDrain(c)

TunnelSpec == TunnelInit /\ [][TunnelNext]_<<tunnel_vars, pool_vars>>

(* Every task that can run is run, and the transport of a cancelled tunnel  *)
(* ends: its loops select on the token.                                     *)
TunnelFairness ==
  LET v == <<tunnel_vars, pool_vars>>
  IN /\ \A t \in Handles :
          /\ WF_v(AcquireLease(t))
          /\ WF_v(PendingLeaseDrop(t) \/ Register(t) \/ Conflict(t))
          /\ WF_v(RouteCancelled(t) /\ CloseRoute(t))
          /\ WF_v(CloseLease(t) \/ CloseGuard(t))
          /\ WF_v(remove_session(t))
     /\ \A c \in Clients : WF_v(EndDrain(c))

----------------------------------------------------------------------------
TunnelRecord ==
  [pc : {"idle", "authenticated", "abandoned", "leased", "orphaned", "open", "closing",
         "released", "failed"},
   client : Clients, group : GroupIds \cup {NoGroup}, lane : Lanes, lane_count : Nat,
   lease : Lease \cup {NoLease}]

TunnelTypeOK ==
  /\ TypeOK
  /\ tunnel \in [Handles -> TunnelRecord]
  /\ guards \subseteq Handles /\ cancelled \subseteq Handles
  /\ shut \subseteq Handles /\ watched \subseteq Handles
  /\ routes \in [Leasable -> [id : GroupIds \cup {NoGroup}, lane_count : Nat,
                              lanes : [Lanes -> Handles \cup {NoTunnel}]]]
  /\ draining \subseteq Clients

(* A tunnel that believes it is connected is reachable: the router delivers *)
(* the packets for its address to it.  A late watcher of a session that was *)
(* replaced never removes the session that replaced it, and whoever is      *)
(* replaced is told.                                                        *)
OpenMeansRouted ==
  \A t \in Handles :
    (At(t, "open") /\ ~RouteCancelled(t))
      => routes[tunnel[t].lease.address].lanes[tunnel[t].lane] = t

(* The state of pool, router and tunnels has its types and routes agree.    *)
RoutesAreSound == TunnelTypeOK /\ OpenMeansRouted

(* The router delivers to an address only what belongs to its owner, and    *)
(* only while the tunnel's guard keeps drains waiting: when a drain of the  *)
(* client can return, no route of the client works, and what lease is left  *)
(* belongs to an acquisition nobody waits for, which has no route.          *)
DrainedMeansOffline ==
  \A c \in draining :
    SessionsOf(c) = {} =>
      \A t \in Handles :
        tunnel[t].client = c =>
          /\ Routed(t) => RouteCancelled(t)
          /\ held[t] # NoLease => At(t, "orphaned")

(* Routes and drains agree with what the tunnels believe. *)
TunnelsAreSound == RoutesAreSound /\ DrainedMeansOffline

(* A reconnect is never undone by the connection it replaced: the route of  *)
(* an address passes to a lease of the same or of a later generation only.  *)
RoutesMoveForward ==
  [][\A a \in Leasable, t, u \in Handles, k, l \in Lanes :
       (routes[a].lanes[k] = t /\ routes'[a].lanes[l] = u /\ u \notin watched /\ u \in watched')
         => tunnel[u].lease.generation >= tunnel[t].lease.generation]_<<tunnel_vars, pool_vars>>

(* Every lease that open() or its abandoned blocking task obtained is given *)
(* back once nobody has a guard for it, and a drain returns, whatever its   *)
(* tunnels were doing: neither stays so for ever.                           *)
LeasesReturn == \A t \in Handles : []<>(held[t] = NoLease \/ t \in guards)
DrainsReturn == \A c \in Clients : []<>(c \notin draining)
TunnelsReturn == LeasesReturn /\ DrainsReturn
============================================================================
