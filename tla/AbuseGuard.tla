----------------------------- MODULE AbuseGuard -----------------------------
(***************************************************************************)
(* The limit on failed authentications (porta-server/src/ops/abuse.rs:     *)
(* AbuseGuard, Reservation).  Every attempt takes a token of its address's *)
(* bucket before it is examined, and gives it back when it succeeds.       *)
(* Buckets are kept in shards, each under its own lock; one counter, which *)
(* no lock guards, bounds how many there are.  A bucket nobody has used    *)
(* for a while is dropped; an address that finds no room shares the        *)
(* overflow bucket of its shard.                                           *)
(*                                                                         *)
(* A key is a surface and an address; the model has one surface.  Tokens   *)
(* are counted in ticks: an attempt costs Interval of them, and a bucket   *)
(* gains one a tick.  Instants are kept as ages, up to the age after which *)
(* they make no difference.                                                *)
(***************************************************************************)
EXTENDS Integers, FiniteSetsExt, Functions

CONSTANTS Addresses, Shards,
          Callers,             \* the tasks that examine an attempt
          MaxEntries,          \* max_entries
          Burst, Interval,     \* the surface's Policy
          IdleExpiry,          \* idle_expiry: 15 min; the slowest bucket refills in 160 s
          PruneInterval,       \* least of idle_expiry and 60 s
          HandlerTime,         \* bound: how long a caller keeps a reservation
          None

(* A bucket that has not been used for the expiry is full: the policies and *)
(* the expiry of default_with_metrics see to it (160 s against 15 min).     *)
ASSUME GuardAssumption ==
  /\ IsFiniteSet(Addresses) /\ IsFiniteSet(Shards) /\ IsFiniteSet(Callers) /\ None \notin Callers
  /\ MaxEntries \in Nat /\ Burst \in Nat \ {0} /\ Interval \in Nat \ {0}
  /\ IdleExpiry \in Nat /\ IdleExpiry >= Burst * Interval
  /\ PruneInterval \in Nat /\ HandlerTime \in Nat

VARIABLES shards,    \* per shard: entries, overflow, next_prune, and who has its lock
          entries,   \* the counter of all entries
          callers,   \* what each caller is doing
          spared     \* history: the tokens each key would have if no bucket were ever dropped

guard_vars == <<shards, entries, callers, spared>>
----------------------------------------------------------------------------
Least(a, b) == IF a < b THEN a ELSE b
Full == Burst * Interval
Fresh == [tokens |-> Full, updated |-> 0, last_seen |-> 0]
IdleCaller == [pc |-> "idle"]

(* address_shard, as GuardInit chooses it. *)
GuardInit ==
  /\ \E of \in [Addresses -> Shards] :
       shards = [s \in Shards |-> [keys |-> {k \in Addresses : of[k] = s}, entries |-> << >>, overflow |-> None,
                                   next_prune |-> 0, lock |-> None]]
  /\ entries = 0
  /\ callers = [c \in Callers |-> IdleCaller]
  /\ spared = [k \in Addresses |-> Full]

ShardOf(k) == CHOOSE s \in Shards : k \in shards[s].keys
Without(f, ks) == [k \in DOMAIN f \ ks |-> f[k]]
With(f, k, b) == [j \in DOMAIN f \cup {k} |-> IF j = k THEN b ELSE f[j]]

refill(b) == [b EXCEPT !.tokens = Least(@ + b.updated, Full), !.updated = 0]
Seen(b) == [refill(b) EXCEPT !.last_seen = 0]
----------------------------------------------------------------------------
(* reserve, once the bucket is chosen: it is refilled, and a whole token is *)
(* taken if there is one.  The lock is released.                            *)
Charge(c, k, s, overflow) ==
  LET bucket == Seen(IF overflow THEN (IF shards[s].overflow = None THEN Fresh ELSE shards[s].overflow)
                     ELSE IF k \in DOMAIN shards[s].entries THEN shards[s].entries[k] ELSE Fresh)
      granted == bucket.tokens >= Interval
      b == IF granted THEN [bucket EXCEPT !.tokens = @ - Interval] ELSE bucket
  IN /\ shards' = [shards EXCEPT ![s].overflow = IF overflow THEN b ELSE @,
                                 ![s].entries = IF overflow THEN @ ELSE With(@, k, b),
                                 ![s].lock = None]
     /\ callers' = [callers EXCEPT ![c] =
                      IF granted THEN [pc |-> "holds", key |-> k, overflow |-> overflow, held |-> 0] ELSE IdleCaller]
     /\ spared' = IF granted /\ ~overflow THEN [spared EXCEPT ![k] = @ - Interval] ELSE spared

ReserveKnown(c, k) ==
  LET s == ShardOf(k) IN
  /\ callers[c].pc = "idle" /\ shards[s].lock = None /\ k \in DOMAIN shards[s].entries
  /\ Charge(c, k, s, FALSE)
  /\ UNCHANGED entries

(* A mutant: dropped buckets that were in use a moment ago. *)
ExpiredEarly(s) == {k \in DOMAIN shards[s].entries : shards[s].entries[k].last_seen >= PruneInterval}

(* The buckets the retain of reserve does not keep. *)
Expired(s) == {k \in DOMAIN shards[s].entries : shards[s].entries[k].last_seen >= IdleExpiry}

(* An address that has no bucket: expired ones are dropped first, if it is  *)
(* time, and then taken off the counter.                                    *)
ReserveNew(c, k) ==
  LET s == ShardOf(k)
      due == shards[s].next_prune = 0
      dropped == IF due THEN Expired(s) ELSE {}
  IN /\ callers[c].pc = "idle" /\ shards[s].lock = None /\ k \notin DOMAIN shards[s].entries
     /\ shards' = [shards EXCEPT ![s].lock = c,
                                 ![s].entries = Without(@, dropped),
                                 ![s].next_prune = IF due THEN PruneInterval ELSE @]
     /\ callers' = [callers EXCEPT ![c] = [pc |-> IF due THEN "pruned" ELSE "claims", key |-> k,
                                           dropped |-> Cardinality(dropped)]]
     /\ UNCHANGED <<entries, spared>>

PruneEnds(c) ==
  /\ callers[c].pc = "pruned"
  /\ entries' = entries - callers[c].dropped
  /\ callers' = [callers EXCEPT ![c] = [pc |-> "claims", key |-> callers[c].key, dropped |-> 0]]
  /\ UNCHANGED <<shards, spared>>

(* fetch_update on the counter: a place for a new bucket, or none. *)
Claim(c) ==
  LET k == callers[c].key IN
  /\ callers[c].pc = "claims"
  /\ entries' = IF entries < MaxEntries THEN entries + 1 ELSE entries
  /\ Charge(c, k, ShardOf(k), entries >= MaxEntries)

(* A failed authentication keeps what it took. *)
Fails(c) ==
  /\ callers[c].pc = "holds"
  /\ callers' = [callers EXCEPT ![c] = IdleCaller]
  /\ UNCHANGED <<shards, entries, spared>>

(* refund_inner: to the bucket it came from, if that is still there. *)
Refunded(b) == [Seen(b) EXCEPT !.tokens = Least(@, Full - Interval) + Interval]

refund(c) ==
  LET k == callers[c].key
      s == ShardOf(k)
      overflow == callers[c].overflow
  IN /\ callers[c].pc = "holds" /\ shards[s].lock = None
     /\ shards' = [shards EXCEPT ![s].overflow = IF overflow THEN Refunded(@) ELSE @,
                                 ![s].entries = [j \in DOMAIN @ |-> IF j = k /\ ~overflow THEN Refunded(@[j])
                                                                    ELSE @[j]]]
     /\ callers' = [callers EXCEPT ![c] = IdleCaller]
     /\ spared' = IF overflow THEN spared ELSE [spared EXCEPT ![k] = Least(@, Full - Interval) + Interval]
     /\ UNCHANGED entries

(* Time passes while no shard is locked: a lock is held for a few           *)
(* instructions, and an authentication takes less than an expiry.           *)
Older(b) == [b EXCEPT !.updated = Least(@ + 1, Full), !.last_seen = Least(@ + 1, IdleExpiry)]

GuardTick ==
  /\ \A s \in Shards : shards[s].lock = None
  /\ \A c \in Callers : callers[c].pc = "holds" => callers[c].held < HandlerTime
  /\ shards' = [s \in Shards |->
       [shards[s] EXCEPT !.entries = [k \in DOMAIN @ |-> Older(@[k])],
                         !.overflow = IF @ = None THEN None ELSE Older(@),
                         !.next_prune = IF @ = 0 THEN 0 ELSE @ - 1]]
  /\ callers' = [c \in Callers |-> IF callers[c].pc = "holds" THEN [callers[c] EXCEPT !.held = @ + 1] ELSE callers[c]]
  /\ spared' = [k \in Addresses |-> Least(spared[k] + 1, Full)]
  /\ UNCHANGED entries

GuardNext ==
  \/ \E c \in Callers, k \in Addresses : ReserveKnown(c, k) \/ ReserveNew(c, k)
  \/ \E c \in Callers : PruneEnds(c) \/ Claim(c) \/ Fails(c) \/ refund(c)
  \/ GuardTick

GuardSpec == GuardInit /\ [][GuardNext]_guard_vars
----------------------------------------------------------------------------
(* How many buckets each shard has, and how many each caller has dropped    *)
(* that the counter still counts.                                           *)
Kept == [s \in Shards |-> Cardinality(DOMAIN shards[s].entries)]
Dropped == [c \in Callers |-> IF callers[c].pc = "pruned" THEN callers[c].dropped ELSE 0]

(* The counter that no lock guards agrees with the buckets of all shards,   *)
(* whatever the order of the callers' steps, and there are never more than  *)
(* allowed; no bucket and no refund exceeds the burst; and an address gains *)
(* nothing when its bucket is dropped and made anew: what it may still      *)
(* spend is never more than if every bucket were kept for ever.             *)
ForgettingGivesNothing ==
  /\ entries = SumFunctionOnSet(Kept, Shards) + SumFunctionOnSet(Dropped, Callers)
  /\ entries <= MaxEntries
  /\ \A s \in Shards : \A k \in DOMAIN shards[s].entries :
       LET b == refill(shards[s].entries[k]) IN 0 <= b.tokens /\ b.tokens <= spared[k]
  /\ \A s \in Shards : shards[s].overflow # None => refill(shards[s].overflow).tokens \in 0..Full
  /\ \A k \in Addresses : 0 <= spared[k] /\ spared[k] <= Full
=============================================================================
