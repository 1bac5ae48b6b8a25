---------------------------- MODULE ProxyConnect ----------------------------
(***************************************************************************)
(* CONNECT requests of the forward proxy, from the request line to the     *)
(* tunnel: who is let in (porta-server/src/proxy/service.rs, prepare and   *)
(* establish; the authorizer of integration.rs), the cache of addresses    *)
(* and the race of the dials (proxy/dial.rs), and the hand-over to the     *)
(* relay (http_handler.rs, start_proxy).  The relay itself is ProxyRelay;  *)
(* the limiter of attempts is AbuseGuard, and its verdict is left open.    *)
(*                                                                         *)
(* Time is counted in ticks; a timer that is due fires before the next     *)
(* tick.  A name is cached under its normal form, so hosts here are normal *)
(* forms.  Addresses are public or not; which ones are is not modelled.    *)
(***************************************************************************)
EXTENDS Integers, FiniteSets, Sequences, Functions

CONSTANTS Connects,         \* requests that come in
          Hosts,            \* names of destinations
          Answers,          \* sequences of addresses the resolver may give
          PublicV4, PublicV6,
          MaxConnections, CacheEntries, Ttl, DialTimeout, Stagger,
          Camouflage,       \* BOOLEAN: an origin answers who is not let in
          Absent,
          MaxTime           \* bound on the clock

VARIABLES now,    \* the clock
          cache,  \* AddressCache: host -> addresses and when they expire
          free,   \* permits left in the semaphore
          open,   \* proxy sessions the registry counts as open
          connect \* the requests in progress

proxy_vars == <<now, cache, free, open, connect>>
----------------------------------------------------------------------------
Public == PublicV4 \cup PublicV6

(* What the resolver answered: the addresses, and when they expire.  The     *)
(* host it was about and the time are history.                              *)
Answered == [host : Hosts, addresses : Seq(Public), expires : Nat, asOf : Nat]

ASSUME ProxyAssumption ==
  /\ IsFiniteSet(Connects) /\ IsFiniteSet(Hosts)
  /\ \A s \in Answers : s \in Seq(Range(s))
  /\ {MaxConnections, CacheEntries, Ttl, DialTimeout, Stagger, MaxTime} \subseteq Nat
  /\ Absent \notin Hosts /\ Absent \notin Public /\ Absent \notin Answered

(* of, asOf: the host the addresses are an answer for and when they were   *)
(* resolved, which is history.  connection: the upstream connection kept.  *)
(* due: the end of the dial.                                               *)
NewRequest == [pc |-> "new", host |-> Absent, permit |-> FALSE, session |-> "none", addresses |-> <<>>,
               of |-> Absent, asOf |-> 0, next |-> 1, attempts |-> {}, timer |-> 0, due |-> 0, connection |-> Absent, reply |-> "none"]

ProxyInit ==
  /\ now = 0 /\ cache = [h \in Hosts |-> Absent] /\ free = MaxConnections /\ open = {}
  /\ connect = [r \in Connects |-> NewRequest]

Busy(r) == connect[r].pc \notin {"new", "done"}

(* What a request ends with: whatever it holds is dropped. *)
End(r, reply) ==
  /\ connect' = [connect EXCEPT ![r] = [NewRequest EXCEPT !.pc = "done", !.reply = reply]]
  /\ free' = free + (IF connect[r].permit THEN 1 ELSE 0)
  /\ open' = open \ {r}

Refused == IF Camouflage THEN "origin" ELSE "407"

(* prepare, to the authorization.  A request that is for the gateway itself *)
(* falls through to its web pages; one in another protocol, or over the     *)
(* limit, or without token, is turned away.                                 *)
Prepare(r) ==
  /\ connect[r].pc = "new"
  /\ \/ \E reply \in {"origin", "403", "429", "407", Refused} : End(r, reply)
     \/ connect' = [connect EXCEPT ![r].pc = "authorizing"] /\ UNCHANGED <<free, open>>
  /\ UNCHANGED <<now, cache>>

(* authorize: the registry's answer, and what prepare makes of it.  Only a  *)
(* CONNECT to port 443 of a host takes a permit, and none is waited for.    *)
Unauthorized(r) ==
  /\ connect[r].pc = "authorizing"
  /\ End(r, Refused)
  /\ UNCHANGED <<now, cache>>

(* parse_destination: not an authority, no port, or another port than 443. *)
Unparsed == {"400", "403"}

Turned(r) ==
  /\ connect[r].pc = "authorizing"
  /\ \E reply \in {"403"} \cup Unparsed \cup (IF free = 0 THEN {"503"} ELSE {}) : End(r, reply)
  /\ UNCHANGED <<now, cache>>

(* A mutant: an entry is used however old it is. *)
LookupStale(h) == IF CacheEntries = 0 \/ Ttl = 0 THEN Absent ELSE cache[h]

(* The plan is carried out at once: the time of the dial begins, and the    *)
(* cache is asked.                                                          *)
Lookup(h) ==
  IF CacheEntries = 0 \/ Ttl = 0 \/ cache[h] = Absent THEN Absent
  ELSE IF now >= cache[h].expires THEN Absent ELSE cache[h]

(* get_at removes an entry it finds expired. *)
get_at(h) == IF cache[h] # Absent /\ Lookup(h) = Absent THEN [cache EXCEPT ![h] = Absent] ELSE cache

(* What stands at some places, in their order. *)
Pushed(s, places) ==
  [n \in 1..Cardinality(places) |-> s[CHOOSE i \in places : Cardinality({j \in places : j <= i}) = n]]

(* interleave_address_families: in turn, from the family of the first. *)
interleave(s) ==
  IF Len(s) < 2 THEN s
  ELSE LET alike == {i \in DOMAIN s : s[i] \in PublicV6 <=> s[1] \in PublicV6}
           first == Pushed(s, alike)
           second == Pushed(s, DOMAIN s \ alike)
           pairs == IF Len(first) < Len(second) THEN Len(first) ELSE Len(second)
       IN [i \in 1..2 * pairs |-> IF i % 2 = 1 THEN first[(i + 1) \div 2] ELSE second[i \div 2]]
          \o SubSeq(first, pairs + 1, Len(first)) \o SubSeq(second, pairs + 1, Len(second))

(* happy_eyeballs: the first attempt, or all of them when none is delayed. *)
Dialing(q, answer) ==
  LET order == interleave(answer.addresses)
      started == IF Stagger = 0 THEN Len(order) ELSE 1
  IN [q EXCEPT !.pc = "dialing", !.addresses = order, !.of = answer.host, !.asOf = answer.asOf,
               !.next = started + 1, !.attempts = {order[i] : i \in 1..started}, !.timer = now + Stagger]

Establish(r, h) ==
  /\ connect[r].pc = "authorizing" /\ free > 0
  /\ free' = free - 1 /\ open' = open \cup {r}
  /\ cache' = get_at(h)
  /\ LET q == [connect[r] EXCEPT !.host = h, !.permit = TRUE, !.session = "open", !.due = now + DialTimeout] IN
     connect' = [connect EXCEPT ![r] = IF Lookup(h) # Absent THEN Dialing(q, Lookup(h))
                                       ELSE [q EXCEPT !.pc = "resolving"]]
  /\ UNCHANGED now

Fetched(h, s) == [host |-> h, addresses |-> s, expires |-> now + Ttl, asOf |-> now]

(* put_at: expired entries go, then the oldest when there is no room. *)
Oldest(c) ==
  LET held == {h \in Hosts : c[h] # Absent} IN
  {h \in held : \A k \in held : c[h].expires <= c[k].expires}

put_at(h, s) ==
  LET fresh == [k \in Hosts |-> IF cache[k] # Absent /\ now < cache[k].expires THEN cache[k] ELSE Absent]
      full == fresh[h] = Absent /\ Cardinality({k \in Hosts : fresh[k] # Absent}) >= CacheEntries
  IN IF CacheEntries = 0 \/ Ttl = 0 THEN {cache}
     ELSE IF full THEN {[fresh EXCEPT ![old] = Absent, ![h] = Fetched(h, s)] : old \in Oldest(fresh)}
     ELSE {[fresh EXCEPT ![h] = Fetched(h, s)]}

Allowed(s) == \A i \in DOMAIN s : s[i] \in Public

Resolve(r) ==
  /\ connect[r].pc = "resolving"
  /\ \/ End(r, "502") /\ UNCHANGED cache
     \/ \E s \in Answers :
          IF s = <<>> THEN End(r, "502") /\ UNCHANGED cache
          ELSE IF ~Allowed(s) THEN End(r, "403") /\ UNCHANGED cache
          ELSE /\ cache' \in put_at(connect[r].host, s)
               /\ connect' = [connect EXCEPT ![r] = Dialing(connect[r], Fetched(connect[r].host, s))]
               /\ UNCHANGED <<free, open>>
  /\ UNCHANGED now

(* An attempt fails: the next one starts at once, or the dial has failed. *)
Started(q) == [q EXCEPT !.attempts = @ \cup {q.addresses[q.next]}, !.next = @ + 1, !.timer = now + Stagger]

AttemptFails(r) ==
  /\ connect[r].pc = "dialing"
  /\ \E a \in connect[r].attempts :
       LET q == [connect[r] EXCEPT !.attempts = @ \ {a}] IN
       IF q.next <= Len(q.addresses) THEN connect' = [connect EXCEPT ![r] = Started(q)] /\ UNCHANGED <<free, open>>
       ELSE IF q.attempts = {} THEN End(r, "502")
       ELSE connect' = [connect EXCEPT ![r] = q] /\ UNCHANGED <<free, open>>
  /\ UNCHANGED <<now, cache>>

Staggered(r) ==
  /\ connect[r].pc = "dialing" /\ Stagger > 0 /\ connect[r].next <= Len(connect[r].addresses) /\ now >= connect[r].timer
  /\ connect' = [connect EXCEPT ![r] = Started(connect[r])]
  /\ UNCHANGED <<now, cache, free, open>>

(* The first connection is kept and the other attempts are aborted; the     *)
(* client is told, and the tunnel waits for its connection to be handed     *)
(* over.                                                                    *)
AttemptSucceeds(r) ==
  /\ connect[r].pc = "dialing"
  /\ \E a \in connect[r].attempts :
       connect' = [connect EXCEPT ![r].pc = "upgrading", ![r].connection = a, ![r].attempts = {}, ![r].reply = "200"]
  /\ UNCHANGED <<now, cache, free, open>>

DialTimesOut(r) ==
  /\ connect[r].pc \in {"resolving", "dialing"} /\ now >= connect[r].due
  /\ End(r, "504")
  /\ UNCHANGED <<now, cache>>

Upgraded(r) ==
  /\ connect[r].pc = "upgrading"
  /\ \/ connect' = [connect EXCEPT ![r].pc = "relaying"] /\ UNCHANGED <<free, open>>
     \/ End(r, "200")
  /\ UNCHANGED <<now, cache>>

(* The registry revokes the session, or the server shuts down: the token    *)
(* the dial and the relay watch is cancelled.                               *)
Revoke(r) ==
  /\ connect[r].session = "open"
  /\ connect' = [connect EXCEPT ![r].session = "cancelled"]
  /\ UNCHANGED <<now, cache, free, open>>

(* A mutant: the relay does not watch the session. *)
OnlyDialWatches(r) ==
  /\ connect[r].session = "cancelled" /\ connect[r].pc \in {"resolving", "dialing"}
  /\ End(r, "502")
  /\ UNCHANGED <<now, cache>>

Cancelled(r) ==
  /\ connect[r].session = "cancelled" /\ connect[r].pc \in {"resolving", "dialing", "relaying"}
  /\ End(r, IF connect[r].pc = "relaying" THEN "200" ELSE "502")
  /\ UNCHANGED <<now, cache>>

(* The relay ends by itself, see ProxyRelay. *)
RelayEnds(r) ==
  /\ connect[r].pc = "relaying"
  /\ End(r, "200")
  /\ UNCHANGED <<now, cache>>

DialDue(r) ==
  \/ connect[r].pc \in {"resolving", "dialing"} /\ now >= connect[r].due
  \/ connect[r].pc = "dialing" /\ Stagger > 0 /\ connect[r].next <= Len(connect[r].addresses) /\ now >= connect[r].timer

ProxyTick ==
  /\ now < MaxTime /\ \A r \in Connects : ~DialDue(r)
  /\ now' = now + 1
  /\ UNCHANGED <<cache, free, open, connect>>

Step(r) == \/ Prepare(r) \/ Unauthorized(r) \/ Turned(r) \/ \E h \in Hosts : Establish(r, h)
           \/ Resolve(r) \/ AttemptFails(r) \/ Staggered(r) \/ AttemptSucceeds(r) \/ DialTimesOut(r)
           \/ Upgraded(r) \/ Revoke(r) \/ Cancelled(r) \/ RelayEnds(r)

ProxyNext == ProxyTick \/ \E r \in Connects : Step(r)

ProxySpec == ProxyInit /\ [][ProxyNext]_proxy_vars

(* What the server does by itself: answers of the registry and of hyper,    *)
(* its timers and its reaction to a cancellation.  Neither the resolver nor *)
(* a destination need answer, and a relay need not end.                     *)
ProxyTask(r, t) ==
  \/ t = "authorize" /\ (Unauthorized(r) \/ Turned(r))
  \/ t = "upgrade" /\ Upgraded(r)
  \/ t = "stagger" /\ Staggered(r)
  \/ t = "timeout" /\ DialTimesOut(r)
  \/ t = "cancel" /\ Cancelled(r)

ProxyTasks == {"authorize", "upgrade", "stagger", "timeout", "cancel"}
----------------------------------------------------------------------------
(* Whatever the resolver answered before or after, the proxy dials only     *)
(* public addresses, from an answer for that very host that is no older     *)
(* than the time to live of the cache and the time of the dial; the cache   *)
(* keeps within its bound; and a permit, a registry session and the         *)
(* attempts on their way are held by the requests in progress and by no     *)
(* other, on every path out.                                                *)
ProxyIsConfined ==
  /\ \A r \in Connects :
       /\ connect[r].attempts \cup ({connect[r].connection} \ {Absent}) \subseteq Public
       /\ connect[r].pc = "dialing" => now - connect[r].asOf <= Ttl + DialTimeout
       /\ connect[r].pc = "dialing" => connect[r].attempts # {} /\ connect[r].asOf <= now /\ connect[r].of = connect[r].host
       /\ ~Busy(r) => ~connect[r].permit /\ r \notin open /\ connect[r].attempts = {} /\ connect[r].connection = Absent
       /\ connect[r].pc = "relaying" => connect[r].permit /\ r \in open /\ connect[r].connection \in Range(connect[r].addresses)
  /\ free = MaxConnections - Cardinality({r \in Connects : connect[r].permit})
  /\ Cardinality({h \in Hosts : cache[h] # Absent}) <= CacheEntries
  /\ \A h \in Hosts : cache[h] # Absent => Allowed(cache[h].addresses) /\ cache[h].expires <= now + Ttl

(* A session that is revoked ends, whether its request is being resolved,   *)
(* dialed, handed over or relayed and however long the other side takes.    *)
RevokedRequestsEnd == []<>(\A r \in Connects : connect[r].session = "cancelled" => connect[r].pc = "done")
============================================================================
