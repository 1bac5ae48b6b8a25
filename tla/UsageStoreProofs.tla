-------------------------- MODULE UsageStoreProofs --------------------------
(***************************************************************************)
(* Proofs about the usage store, for any devices, labels, members and      *)
(* tasks that flush: the inductive invariant, how a step changes the sum   *)
(* that is the usage of a device, one lemma per action, and the theorems.  *)
(***************************************************************************)
EXTENDS UsageStore, FiniteSums

(* A session has an id exactly while it has members; its members carry its  *)
(* key and its id, and a handle that may still count is a member of the     *)
(* session under its key. After a deletion the key may belong to a later    *)
(* session, whose members these are not.                                    *)
MemberInv ==
  /\ \A k \in Keys : /\ sessions[k].members = {} <=> sessions[k].id = 0
                     /\ sessions[k].id = 0 => sessions[k] = NoSession
  /\ \A k \in Keys : \A m \in sessions[k].members :
       handle[m].key = k /\ handle[m].id = sessions[k].id /\ handle[m].at \in {"open", "finish"}
  /\ \A m \in Members :
       /\ handle[m].at \in {"open", "finish", "request"} => handle[m].key \in Keys
       /\ handle[m].at = "open" /\ ~handle[m].stopped => m \in sessions[handle[m].key].members

(* Whoever reads the state for a pass or writes its image has the persist   *)
(* lock.                                                                    *)
LockInv ==
  \A p \in Flushers :
    /\ flush[p].at \in {"read", "write"} => persist = p
    /\ flush[p].at = "write" => flush[p].image \in Files
    /\ flush[p].at \notin {"read", "write"} => flush[p].version = 0

(* p has read its image and is about to replace the file. *)
Writing(p) == flush[p].at = "write"

(* Neither the file nor an image about to replace it is behind what was     *)
(* acknowledged as deleted, nor ahead of the store.                         *)
EpochInv ==
  \A d \in Devices :
    /\ acked[d] <= file.epoch[d] /\ file.epoch[d] <= epoch[d]
    /\ \A p \in Flushers : Writing(p) =>
         file.epoch[d] <= flush[p].image.epoch[d] /\ flush[p].image.epoch[d] <= epoch[d]

(* A deletion flushes with force, and the image it reads was read after its *)
(* epoch began.                                                             *)
DeletionInv ==
  \A a \in Admins :
    /\ admin[a].at # "idle" =>
         /\ admin[a].epoch \in [Devices -> Nat]
         /\ \A d \in admin[a].devices : admin[a].epoch[d] <= epoch[d]
    /\ admin[a].at # "flush" => flush[a].at = "none"
    /\ admin[a].at = "flush" =>
         /\ flush[a].at # "none"
         /\ flush[a].at = "lock" => flush[a].force
         /\ \A d \in admin[a].devices :
              /\ Writing(a) => flush[a].image.epoch[d] >= admin[a].epoch[d]
              /\ flush[a].at = "ok" => file.epoch[d] >= admin[a].epoch[d]

(* f is of the device's current epoch and has at least n of it. *)
Has(f, d, n) == f.epoch[d] = epoch[d] /\ f.usage[d].count >= n

(* persisted_version never runs ahead, passes follow one another in the     *)
(* order of their versions, and an image of the current version has every   *)
(* completed session.                                                       *)
VersionInv ==
  /\ persisted_version <= change_version
  /\ \A p \in Flushers :
       /\ flush[p].version <= change_version
       /\ flush[p].at \in {"read", "write"} => persisted_version <= flush[p].version
       /\ Writing(p) /\ flush[p].version = change_version =>
            \A d \in Devices : Unpublished(d) \/ Has(flush[p].image, d, devices[d].count)

(* File and images are pictures of the past: within an epoch no more than   *)
(* the totals, and an image no less than the file it is going to replace.   *)
GrowthInv ==
  \A d \in Devices :
    /\ file.epoch[d] = epoch[d] =>
         file.usage[d].count <= total[d] /\ file.usage[d].connections <= opened[d]
    /\ \A p \in Flushers : Writing(p) =>
         /\ flush[p].image.epoch[d] = epoch[d] =>
              /\ flush[p].image.usage[d].count <= total[d]
              /\ flush[p].image.usage[d].connections <= opened[d]
         /\ flush[p].image.epoch[d] = file.epoch[d] =>
              /\ file.usage[d].count <= flush[p].image.usage[d].count
              /\ file.usage[d].connections <= flush[p].image.usage[d].connections

(* The moment of the cancellation is recorded when it happens, and lies in  *)
(* the past.                                                                *)
CancelOK ==
  /\ at_cancel.quiet \/ run \in {"final", "returned"} => cancelled
  /\ \A d \in Devices : at_cancel.epoch[d] <= epoch[d]

(* What was counted at a cancellation without open sessions: it is          *)
(* completed, in every image of the current version, in the image of the    *)
(* last pass, and in the file once a pass has covered the version or the    *)
(* last pass has ended.                                                     *)
QuietInv ==
  at_cancel.quiet => \A d \in Devices : epoch[d] = at_cancel.epoch[d] =>
    LET n == at_cancel.total[d]
    IN /\ devices[d].count >= n
       /\ persisted_version = change_version => Has(file, d, n)
       /\ \A p \in Flushers : Writing(p) /\ flush[p].version = change_version =>
            Has(flush[p].image, d, n)
       /\ run \in {"final", "returned"} /\ Writing("run") => Has(flush["run"].image, d, n)
       /\ run \in {"final", "returned"} /\ flush["run"].at = "ok" => Has(file, d, n)

(* The inductive invariant. CountedOnce and NoRollback need MemberInv,      *)
(* LockInv and GrowthInv; DeletedStaysDeleted needs EpochInv and            *)
(* DeletionInv; SkipIsSafe needs VersionInv; QuietShutdownSaves needs the   *)
(* last two parts.                                                          *)
StoreInv ==
  /\ TypeOK /\ MemberInv /\ LockInv /\ EpochInv /\ DeletionInv /\ VersionInv
  /\ CountedOnce /\ SkipIsSafe /\ ChangesArePending /\ GrowthInv /\ CancelOK /\ QuietInv
----------------------------------------------------------------------------
(* Usage as a function of the maps it is computed from. *)
CountersOf(ss, h, k) ==
  ss[k].completed + SumFunctionOnSet([m \in Members |-> h[m].count], ss[k].members)

(* The sessions of a device. *)
LiveOf(ss, d) == {k \in {j \in Keys : ss[j].id # 0} : k[1] = d}

(* The counters of every key, as a function. *)
LoadsOf(ss, h) == [k \in Keys |-> CountersOf(ss, h, k)]

(* The result of usage() for one device. *)
UsageOf(dv, ss, h, d) ==
  [connections |-> dv[d].connections + Cardinality(LiveOf(ss, d)),
   count |-> dv[d].count + SumFunctionOnSet(LoadsOf(ss, h), LiveOf(ss, d))]

(* What the lemmas about sums need of the maps. *)
Shape(ss, h) ==
  /\ ss \in [Keys -> SessionStates] /\ h \in [Members -> Handles]
  /\ \A k \in Keys : ss[k].id # 0 => ss[k].members # {}
  /\ \A k \in Keys : \A m \in ss[k].members : h[m].key = k

(* Usage is that function of the variables, before and after a step. *)
LEMMA UsageIsUsageOf ==
  ASSUME NEW d
  PROVE  /\ Usage(d) = UsageOf(devices, sessions, handle, d)
         /\ Usage(d)' = UsageOf(devices', sessions', handle', d)
BY DEF Usage, Active, counters, UsageOf, LiveOf, LoadsOf, CountersOf

(* A device has finitely many sessions, for every session has a member of   *)
(* its own.                                                                 *)
LEMMA LiveIsFinite ==
  ASSUME NEW ss, NEW h, Shape(ss, h), NEW d
  PROVE  IsFiniteSet(LiveOf(ss, d))
<1> DEFINE L == LiveOf(ss, d)
           S == {m \in Members : h[m].key \in L}
           f == [m \in S |-> h[m].key]
<1>1. IsFiniteSet(S)  BY StoreAssumption, FS_Subset
<1>2. ASSUME NEW k \in L PROVE \E m \in S : f[m] = k
  <2>1. k \in Keys /\ ss[k].id # 0  BY DEF LiveOf
  <2>2. ss[k] \in SessionStates  BY <2>1 DEF Shape
  <2>3. PICK m \in ss[k].members : h[m].key = k  BY <2>1 DEF Shape
  <2>4. m \in Members  BY <2>2, <2>3 DEF SessionStates
  <2> QED BY <2>3, <2>4
<1>3. f \in [S -> L]  OBVIOUS
<1>4. f \in Surjection(S, L)  BY <1>2, <1>3 DEF Surjection
<1> HIDE DEF S, L, f
<1>5. IsFiniteSet(L)  BY <1>1, <1>4, FS_Surjection
<1> QED BY <1>5 DEF L

(* The counts of a session's members can be added up. *)
LEMMA MembersAreCounted ==
  ASSUME NEW ss, NEW h, Shape(ss, h), NEW k \in Keys
  PROVE  /\ ss[k].completed \in Nat /\ ss[k].members \subseteq Members
         /\ IsFiniteSet(ss[k].members)
         /\ \A m \in Members : h[m].count \in Nat
         /\ \A m \in ss[k].members : [j \in Members |-> h[j].count][m] = h[m].count
<1>1. ss[k] \in SessionStates  BY DEF Shape
<1>2. ss[k].completed \in Nat /\ ss[k].members \subseteq Members  BY <1>1 DEF SessionStates
<1>3. IsFiniteSet(ss[k].members)  BY <1>2, StoreAssumption, FS_Subset
<1>4. ASSUME NEW m \in Members PROVE h[m].count \in Nat
  <2>1. h[m] \in Handles  BY DEF Shape
  <2> QED BY <2>1 DEF Handles
<1> QED BY <1>2, <1>3, <1>4

(* The counters of a session are naturals. *)
LEMMA CountersAreNatural ==
  ASSUME NEW ss, NEW h, Shape(ss, h), NEW k \in Keys
  PROVE  CountersOf(ss, h, k) \in Nat
<1> DEFINE f == [m \in Members |-> h[m].count]
<1>1. \A m \in ss[k].members : f[m] \in Nat  BY MembersAreCounted
<1> HIDE DEF f
<1>2. SumFunctionOnSet(f, ss[k].members) \in Nat  BY <1>1, MembersAreCounted, SumIsNatural
<1> QED BY <1>2, MembersAreCounted DEF CountersOf, f

(* Counters of a session that did not change. *)
LEMMA CountersStay ==
  ASSUME NEW ss, NEW h, Shape(ss, h), NEW tt, NEW g, Shape(tt, g), NEW k \in Keys,
         tt[k] = ss[k], \A m \in ss[k].members : g[m].count = h[m].count
  PROVE  CountersOf(tt, g, k) = CountersOf(ss, h, k)
<1> DEFINE e == [m \in Members |-> h[m].count]
           f == [m \in Members |-> g[m].count]
<1>1. \A m \in ss[k].members : e[m] = f[m]  BY MembersAreCounted
<1> HIDE DEF e, f
<1>2. SumFunctionOnSet(e, ss[k].members) = SumFunctionOnSet(f, ss[k].members)
  BY <1>1, MembersAreCounted, SumOfSame
<1> QED BY <1>2 DEF CountersOf, e, f

(* A device whose sessions and their counters are as they were. *)
LEMMA UsageStays ==
  ASSUME NEW ss, NEW h, Shape(ss, h), NEW tt, NEW g, Shape(tt, g), NEW d, NEW dv, NEW ew,
         ew[d] = dv[d],
         \A k \in Keys : k[1] = d =>
           tt[k] = ss[k] /\ \A m \in ss[k].members : g[m].count = h[m].count
  PROVE  UsageOf(ew, tt, g, d) = UsageOf(dv, ss, h, d)
<1>1. LiveOf(tt, d) = LiveOf(ss, d)  BY DEF LiveOf
<1>2. \A k \in LiveOf(ss, d) : LoadsOf(ss, h)[k] = LoadsOf(tt, g)[k]
  BY CountersStay DEF LiveOf, LoadsOf
<1>3. SumFunctionOnSet(LoadsOf(ss, h), LiveOf(ss, d)) = SumFunctionOnSet(LoadsOf(tt, g), LiveOf(ss, d))
  BY <1>2, LiveIsFinite, SumOfSame
<1> QED BY <1>1, <1>3 DEF UsageOf

(* Whether a session is live, as a number, and what it has counted then. *)
Ones(ss, k) == IF ss[k].id # 0 THEN 1 ELSE 0
Load(ss, h, k) == IF ss[k].id # 0 THEN CountersOf(ss, h, k) ELSE 0

(* What one session contributes to the usage of its device. *)
LEMMA UsageSplits ==
  ASSUME NEW ss, NEW h, Shape(ss, h), NEW k \in Keys, NEW dv \in [Devices -> Totals], NEW d \in Devices,
         k[1] = d
  PROVE  LET rest == LiveOf(ss, d) \ {k}
         IN  /\ IsFiniteSet(rest)
             /\ Cardinality(rest) \in Nat /\ SumFunctionOnSet(LoadsOf(ss, h), rest) \in Nat
             /\ UsageOf(dv, ss, h, d) =
                  [connections |-> dv[d].connections + Cardinality(rest) + Ones(ss, k),
                   count |-> dv[d].count + SumFunctionOnSet(LoadsOf(ss, h), rest) + Load(ss, h, k)]
<1> DEFINE L == LiveOf(ss, d)
           rest == L \ {k}
           f == LoadsOf(ss, h)
           n == dv[d].count
           c == dv[d].connections
<1>1. IsFiniteSet(L) /\ IsFiniteSet(rest)  BY LiveIsFinite, FS_RemoveElement
<1>2. \A j \in L : f[j] \in Nat  BY CountersAreNatural DEF LiveOf, LoadsOf
<1>3. n \in Nat /\ c \in Nat
  <2>1. dv[d] \in Totals  OBVIOUS
  <2> QED BY <2>1 DEF Totals
<1>4. f[k] = CountersOf(ss, h, k) /\ f[k] \in Nat  BY CountersAreNatural DEF LoadsOf
<1>5. k \in L <=> ss[k].id # 0  BY DEF LiveOf
<1>6. UsageOf(dv, ss, h, d) = [connections |-> c + Cardinality(L), count |-> n + SumFunctionOnSet(f, L)]
  BY DEF UsageOf
<1> HIDE DEF L, f, n, c
<1>7. \A j \in rest : f[j] \in Nat  BY <1>2
<1>8. Cardinality(rest) \in Nat /\ SumFunctionOnSet(f, rest) \in Nat
  <2> HIDE DEF rest
  <2> QED BY <1>1, <1>7, FS_CardinalityType, SumIsNatural
<1>9. CASE ss[k].id # 0
  <2>1. SumFunctionOnSet(f, L) = f[k] + SumFunctionOnSet(f, rest)  BY <1>1, <1>2, <1>5, <1>9, SumTakesOut
  <2>2. Cardinality(L) \in Nat /\ Cardinality(rest) = Cardinality(L) - 1
    BY <1>1, <1>5, <1>9, FS_RemoveElement, FS_CardinalityType
  <2>3. Ones(ss, k) = 1 /\ Load(ss, h, k) = f[k]  BY <1>4, <1>9 DEF Ones, Load
  <2>4. c + Cardinality(L) = c + Cardinality(rest) + Ones(ss, k)  BY <2>2, <2>3, <1>3
  <2>5. n + SumFunctionOnSet(f, L) = n + SumFunctionOnSet(f, rest) + Load(ss, h, k)
    BY <2>1, <2>3, <1>3, <1>4, <1>8
  <2> QED BY <1>1, <1>6, <1>8, <2>4, <2>5 DEF n, c, f, L
<1>10. CASE ss[k].id = 0
  <2>1. rest = L  BY <1>5, <1>10
  <2> HIDE DEF rest
  <2>3. Ones(ss, k) = 0 /\ Load(ss, h, k) = 0  BY <1>10 DEF Ones, Load
  <2>4. c + Cardinality(L) = c + Cardinality(rest) + Ones(ss, k)  BY <2>1, <2>3, <1>3, <1>8
  <2>5. n + SumFunctionOnSet(f, L) = n + SumFunctionOnSet(f, rest) + Load(ss, h, k)
    BY <2>1, <2>3, <1>3, <1>8
  <2> QED BY <1>1, <1>6, <1>8, <2>4, <2>5 DEF n, c, f, L, rest
<1> QED BY <1>9, <1>10

(* A device of which one session changed, and its own totals. *)
LEMMA UsageChanges ==
  ASSUME NEW ss, NEW h, Shape(ss, h), NEW tt, NEW g, Shape(tt, g),
         NEW k \in Keys, NEW d \in Devices, k[1] = d,
         NEW dv \in [Devices -> Totals], NEW ew \in [Devices -> Totals],
         \A j \in Keys : j # k /\ j[1] = d =>
           tt[j] = ss[j] /\ \A m \in ss[j].members : g[m].count = h[m].count,
         NEW x \in Nat, NEW y \in Nat, NEW u \in Nat, NEW v \in Nat,
         UsageOf(dv, ss, h, d) = [connections |-> x, count |-> y],
         ew[d].connections + Ones(tt, k) + x = dv[d].connections + Ones(ss, k) + u,
         ew[d].count + Load(tt, g, k) + y = dv[d].count + Load(ss, h, k) + v
  PROVE  UsageOf(ew, tt, g, d) = [connections |-> u, count |-> v]
<1> DEFINE rest == LiveOf(ss, d) \ {k}
           n == Cardinality(rest)
           s == SumFunctionOnSet(LoadsOf(ss, h), rest)
<1>1. LiveOf(tt, d) \ {k} = rest  BY DEF LiveOf
<1>2. \A j \in rest : LoadsOf(ss, h)[j] = LoadsOf(tt, g)[j]
  BY CountersStay DEF LiveOf, LoadsOf
<1>3. IsFiniteSet(rest) /\ n \in Nat /\ s \in Nat
      /\ UsageOf(dv, ss, h, d) = [connections |-> dv[d].connections + n + Ones(ss, k),
                                  count |-> dv[d].count + s + Load(ss, h, k)]
  BY UsageSplits
<1>4. UsageOf(ew, tt, g, d) = [connections |-> ew[d].connections + n + Ones(tt, k),
                               count |-> ew[d].count + SumFunctionOnSet(LoadsOf(tt, g), rest) + Load(tt, g, k)]
  BY <1>1, UsageSplits
<1>5. SumFunctionOnSet(LoadsOf(tt, g), rest) = s
  <2> HIDE DEF rest
  <2> QED BY <1>2, <1>3, SumOfSame
<1>6. Ones(ss, k) \in Nat /\ Ones(tt, k) \in Nat /\ Load(ss, h, k) \in Nat /\ Load(tt, g, k) \in Nat
  BY CountersAreNatural DEF Ones, Load
<1>7. dv[d] \in Totals /\ ew[d] \in Totals  OBVIOUS
<1>8. dv[d].count \in Nat /\ dv[d].connections \in Nat /\ ew[d].count \in Nat /\ ew[d].connections \in Nat
  BY <1>7 DEF Totals
<1> HIDE DEF rest, n, s
<1>9. x = dv[d].connections + n + Ones(ss, k) /\ y = dv[d].count + s + Load(ss, h, k)  BY <1>3
<1>10. ew[d].connections + n + Ones(tt, k) = u  BY <1>3, <1>6, <1>8, <1>9
<1>11. ew[d].count + s + Load(tt, g, k) = v  BY <1>3, <1>6, <1>8, <1>9
<1> QED BY <1>4, <1>5, <1>10, <1>11

(* A device without sessions. *)
LEMMA UsageAtRest ==
  ASSUME NEW ss, NEW h, NEW d \in Devices, NEW dv \in [Devices -> Totals],
         \A k \in Keys : k[1] = d => ss[k].id = 0
  PROVE  UsageOf(dv, ss, h, d) = dv[d]
<1>1. LiveOf(ss, d) = {}  BY DEF LiveOf
<1>2. dv[d] \in Totals  OBVIOUS
<1>3. dv[d].connections + 0 = dv[d].connections /\ dv[d].count + 0 = dv[d].count  BY <1>2 DEF Totals
<1>4. UsageOf(dv, ss, h, d) = [connections |-> dv[d].connections, count |-> dv[d].count]
  BY <1>1, <1>3, FS_EmptySet, SumOfNone DEF UsageOf
<1> QED BY <1>2, <1>4 DEF Totals
----------------------------------------------------------------------------
(* The values that the steps assign have their types. *)
LEMMA NewValues ==
  /\ Zero \in Totals /\ NoSession \in SessionStates
  /\ NoHandle \in Handles /\ Gone \in Handles
  /\ NoFlush \in Passes /\ Idle \in Deletions
  /\ Flushed("ok") \in Passes /\ Flushed("failed") \in Passes
  /\ \A f \in BOOLEAN : [NoFlush EXCEPT !.at = "lock", !.force = f] \in Passes
BY DEF Zero, Totals, NoSession, SessionStates, NoHandle, Gone, Handles, NoFlush, Passes,
       Idle, Deletions, Flushed

(* The tasks that flush are run() and the administrators' requests. *)
LEMMA TheFlushers ==
  "run" \in Flushers /\ Admins \subseteq Flushers /\ None \notin Flushers /\ "run" \notin Admins
BY StoreAssumption DEF Flushers

(* The maps of the store are of that shape, before and after a step. *)
LEMMA ShapeHolds ==
  /\ TypeOK /\ MemberInv => Shape(sessions, handle)
  /\ TypeOK' /\ MemberInv' => Shape(sessions', handle')
BY DEF TypeOK, MemberInv, Shape, SessionStates

(* A step that leaves the counting maps alone counts nothing. *)
LEMMA CountStays ==
  ASSUME CountedOnce, UNCHANGED <<devices, sessions, handle, total, opened>>
  PROVE  CountedOnce'
<1>1. SUFFICES ASSUME NEW d \in Devices
               PROVE  Usage(d)' = [connections |-> opened'[d], count |-> total'[d]]
  BY DEF CountedOnce
<1>2. Usage(d) = [connections |-> opened[d], count |-> total[d]]  BY DEF CountedOnce
<1>3. Usage(d)' = Usage(d)  BY UsageIsUsageOf
<1> QED BY <1>2, <1>3

(* What the count of a member does to the counters of its session. *)
LEMMA CountersAdd ==
  ASSUME NEW ss, NEW h, Shape(ss, h), NEW k \in Keys, NEW m \in ss[k].members
  PROVE  LET f == [j \in Members |-> h[j].count]
         IN  /\ SumFunctionOnSet(f, ss[k].members \ {m}) \in Nat
             /\ CountersOf(ss, h, k) =
                  ss[k].completed + h[m].count + SumFunctionOnSet(f, ss[k].members \ {m})
<1> DEFINE f == [j \in Members |-> h[j].count]
           S == ss[k].members
<1>1. IsFiniteSet(S) /\ m \in S /\ m \in Members /\ ss[k].completed \in Nat /\ h[m].count \in Nat
  BY MembersAreCounted
<1>2. \A j \in S : f[j] \in Nat  BY MembersAreCounted
<1>3. f[m] = h[m].count  BY <1>1
<1>4. CountersOf(ss, h, k) = ss[k].completed + SumFunctionOnSet(f, S)  BY DEF CountersOf
<1> HIDE DEF f, S
<1>5. SumFunctionOnSet(f, S) = f[m] + SumFunctionOnSet(f, S \ {m})  BY <1>1, <1>2, SumTakesOut
<1>6. SumFunctionOnSet(f, S \ {m}) \in Nat
  <2>1. IsFiniteSet(S \ {m}) /\ \A j \in S \ {m} : f[j] \in Nat  BY <1>1, <1>2, FS_RemoveElement
  <2> QED BY <2>1, SumIsNatural
<1> QED BY <1>1, <1>3, <1>4, <1>5, <1>6 DEF f, S

(* The rest of the members when one has changed. *)
LEMMA OthersAdd ==
  ASSUME NEW h, NEW g, NEW S, S \subseteq Members, \A m \in S : g[m].count = h[m].count
  PROVE  SumFunctionOnSet([j \in Members |-> g[j].count], S) =
           SumFunctionOnSet([j \in Members |-> h[j].count], S)
<1> DEFINE e == [m \in Members |-> h[m].count]
           f == [m \in Members |-> g[m].count]
<1>1. IsFiniteSet(S)  BY StoreAssumption, FS_Subset
<1>2. \A m \in S : f[m] = e[m]  OBVIOUS
<1> HIDE DEF e, f
<1>3. SumFunctionOnSet(f, S) = SumFunctionOnSet(e, S)  BY <1>1, <1>2, SumOfSame
<1> QED BY <1>3 DEF e, f
----------------------------------------------------------------------------
(* begin() opens a session under a fresh id or joins the one of its key. *)
LEMMA BeginKeeps ==
  ASSUME StoreInv, NEW m \in Members, NEW k \in Keys, begin(m, k)
  PROVE  StoreInv'
<1> DEFINE id == IF sessions[k].id # 0 THEN sessions[k].id ELSE next_id + 1
           one == IF sessions[k].id # 0 THEN 0 ELSE 1
           new == [NoHandle EXCEPT !.at = "open", !.key = k, !.id = id]
<1> USE DEF StoreInv
<1>1. sessions[k] \in SessionStates /\ handle[m] \in Handles /\ k[1] \in Devices  BY DEF TypeOK, Keys
<1>2. id \in Nat /\ id # 0 /\ one \in Nat /\ (sessions[k].id # 0 => id = sessions[k].id)
  BY <1>1 DEF TypeOK, SessionStates
<1>3. /\ handle[m].at = "none"
      /\ sessions' = [sessions EXCEPT ![k].id = id, ![k].members = @ \cup {m}]
      /\ next_id' = next_id + one
      /\ handle' = [handle EXCEPT ![m] = new]
      /\ opened' = [opened EXCEPT ![k[1]] = @ + one]
      /\ UNCHANGED <<devices, versions, persist, flush, task, admin, file, budget, total, epoch, acked, at_cancel>>
  BY Zenon DEF begin
<1>4. one = 1 - Ones(sessions, k)  BY DEF Ones
<1> HIDE DEF id, one
<1>5. sessions'[k] = [id |-> id, members |-> sessions[k].members \cup {m}, completed |-> sessions[k].completed]
  BY <1>1, <1>3 DEF TypeOK, SessionStates
<1>6. sessions'[k] \in SessionStates  BY <1>1, <1>2, <1>5 DEF SessionStates
<1>7. sessions' \in [Keys -> SessionStates] /\ \A j \in Keys \ {k} : sessions'[j] = sessions[j]
  BY <1>3, <1>6 DEF TypeOK
<1>8. new \in Handles /\ new.at = "open" /\ new.key = k /\ new.id = id /\ new.count = 0
  BY <1>2 DEF Handles, NoHandle
<1> HIDE DEF new
<1>9. handle' \in [Members -> Handles]
      /\ handle'[m].at = "open" /\ handle'[m].key = k /\ handle'[m].id = id /\ handle'[m].count = 0
      /\ \A j \in Members \ {m} : handle'[j] = handle[j]
  BY <1>3, <1>8 DEF TypeOK
<1>10. opened' \in [Devices -> Nat] /\ opened'[k[1]] = opened[k[1]] + one
       /\ \A d \in Devices \ {k[1]} : opened'[d] = opened[d]
  BY <1>1, <1>2, <1>3 DEF TypeOK
<1>11. \A j \in Keys : m \notin sessions[j].members  BY <1>3 DEF MemberInv
<1>12. TypeOK'  BY <1>2, <1>3, <1>7, <1>9, <1>10 DEF TypeOK, versions, task
<1>13. MemberInv'
  <2>1. \A j \in Keys : sessions[j] \in SessionStates  BY DEF TypeOK
  <2>2. \A j \in Keys \ {k} : \A i \in sessions'[j].members : i \in Members \ {m}
    BY <2>1, <1>7, <1>11 DEF SessionStates
  <2>3. \A i \in sessions'[k].members : i = m \/ (i \in Members \ {m} /\ i \in sessions[k].members)
    BY <1>1, <1>5, <1>11 DEF SessionStates
  <2>4. \A i \in sessions[k].members : sessions[k].id # 0  BY DEF MemberInv
  <2> QED BY <2>2, <2>3, <2>4, <1>2, <1>5, <1>7, <1>9 DEF MemberInv
<1>14. \A j \in Members : handle'[j].at = "request" <=> handle[j].at = "request"
  BY <1>3, <1>9
<1>15. \A j \in Members : handle[j].at = "request" => handle'[j] = handle[j]
  BY <1>3, <1>9
<1>16. LockInv' /\ EpochInv' /\ DeletionInv' /\ ChangesArePending' /\ CancelOK'
  BY <1>3 DEF versions, task, LockInv, EpochInv, DeletionInv, ChangesArePending, CancelOK, Writing
<1>17. QuietInv'  BY <1>3 DEF versions, task, QuietInv, Writing, Has
<1>u. \A d \in Devices : Unpublished(d)' <=> Unpublished(d)  BY <1>3, <1>14, <1>15 DEF Unpublished
<1>18. VersionInv'  BY <1>3, <1>u DEF versions, task, VersionInv, Writing, Has
<1>19. SkipIsSafe'  BY <1>3, <1>u DEF versions, task, SkipIsSafe
<1>20. GrowthInv'
  <2>1. \A d \in Devices : opened[d] \in Nat /\ opened'[d] \in Nat /\ opened[d] <= opened'[d]
    BY <1>1, <1>2, <1>10 DEF TypeOK
  <2>2. \A d \in Devices, c \in Nat : c <= opened[d] => c <= opened'[d]  BY <2>1
  <2>3. \A d \in Devices : file.usage[d].connections \in Nat  BY DEF TypeOK, Files, Totals
  <2>4. \A d \in Devices, p \in Flushers : Writing(p) => flush[p].image.usage[d].connections \in Nat
    BY DEF LockInv, Writing, Files, Totals
  <2> QED BY <1>3, <2>2, <2>3, <2>4 DEF GrowthInv, Writing
<1>21. CountedOnce'
  <2>1. Shape(sessions, handle) /\ Shape(sessions', handle')  BY <1>12, <1>13, ShapeHolds
  <2>2. SUFFICES ASSUME NEW d \in Devices
                 PROVE  UsageOf(devices', sessions', handle', d) = [connections |-> opened'[d], count |-> total'[d]]
    BY UsageIsUsageOf DEF CountedOnce
  <2>3. UsageOf(devices, sessions, handle, d) = [connections |-> opened[d], count |-> total[d]]
    BY UsageIsUsageOf DEF CountedOnce
  <2>4. devices' = devices /\ total' = total  BY <1>3
  <2>5. \A j \in Keys \ {k} : sessions'[j] = sessions[j] /\
          \A i \in sessions[j].members : handle'[i].count = handle[i].count
    <3>1. \A j \in Keys : sessions[j] \in SessionStates  BY DEF TypeOK
    <3>2. \A j \in Keys : \A i \in sessions[j].members : i \in Members \ {m}
      BY <3>1, <1>11 DEF SessionStates
    <3> QED BY <3>2, <1>7, <1>9
  <2>6. CASE d # k[1]
    <3>1. \A j \in Keys : j[1] = d => j \in Keys \ {k}  BY <2>6
    <3>2. UsageOf(devices', sessions', handle', d) = UsageOf(devices, sessions, handle, d)
      BY <3>1, <2>1, <2>4, <2>5, UsageStays
    <3> QED BY <3>2, <2>3, <2>4, <2>6, <1>10
  <2>7. CASE d = k[1]
    <3>1. total[d] \in Nat /\ opened[d] \in Nat /\ opened'[d] = opened[d] + one /\ devices \in [Devices -> Totals]
      BY <2>7, <1>10 DEF TypeOK
    <3>2. devices[d].count \in Nat /\ devices[d].connections \in Nat  BY <3>1 DEF Totals
    <3>3. Ones(sessions', k) = 1 /\ Ones(sessions, k) \in Nat  BY <1>2, <1>5 DEF Ones
    <3>4. Load(sessions', handle', k) = Load(sessions, handle, k)
      <4> DEFINE f == [j \in Members |-> handle'[j].count]
                 e == [j \in Members |-> handle[j].count]
      <4>1. m \in sessions'[k].members /\ sessions'[k].members \ {m} = sessions[k].members
            /\ sessions'[k].completed = sessions[k].completed /\ handle'[m].count = 0
        BY <1>5, <1>9, <1>11
      <4>2. CountersOf(sessions', handle', k) =
              sessions[k].completed + 0 + SumFunctionOnSet(f, sessions[k].members)
        <5>1. CountersOf(sessions', handle', k) =
                sessions'[k].completed + handle'[m].count + SumFunctionOnSet(f, sessions'[k].members \ {m})
          BY <4>1, <2>1, CountersAdd
        <5> HIDE DEF f
        <5> QED BY <4>1, <5>1, Zenon
      <4>3. sessions[k].members \subseteq Members /\ sessions[k].completed \in Nat  BY <1>1 DEF SessionStates
      <4>4. \A i \in sessions[k].members : handle'[i].count = handle[i].count  BY <4>3, <1>9, <1>11
      <4>5. SumFunctionOnSet(f, sessions[k].members) = SumFunctionOnSet(e, sessions[k].members)
        BY <4>3, <4>4, OthersAdd
      <4>6. CountersOf(sessions, handle, k) = sessions[k].completed + SumFunctionOnSet(e, sessions[k].members)
        BY DEF CountersOf
      <4> HIDE DEF e, f
      <4>7. CountersOf(sessions', handle', k) = CountersOf(sessions, handle, k)  BY <4>2, <4>3, <4>5, <4>6
      <4>8. CASE sessions[k].id # 0
        BY <4>7, <4>8, <1>2, <1>5 DEF Load
      <4>9. CASE sessions[k].id = 0
        <5>1. sessions[k].members = {} /\ sessions[k].completed = 0  BY <4>9 DEF MemberInv, NoSession
        <5>2. SumFunctionOnSet(e, sessions[k].members) = 0  BY <5>1, SumOfNone
        <5>3. CountersOf(sessions, handle, k) = 0  BY <4>6, <5>1, <5>2
        <5> QED BY <4>7, <5>3, <4>9, <1>2, <1>5 DEF Load
      <4> QED BY <4>8, <4>9
    <3>5. devices[d].connections + Ones(sessions', k) + opened[d] =
            devices[d].connections + Ones(sessions, k) + opened'[d]
      BY <3>1, <3>2, <3>3, <1>4
    <3>6. opened'[d] \in Nat  BY <3>1, <1>2
    <3>7. \A j \in Keys : j # k /\ j[1] = d =>
            sessions'[j] = sessions[j] /\ \A i \in sessions[j].members : handle'[i].count = handle[i].count
      BY <2>5
    <3>8. devices[d].count + Load(sessions', handle', k) + total[d] =
            devices[d].count + Load(sessions, handle, k) + total[d]
      BY <3>4
    <3>9. UsageOf(devices, sessions', handle', d) = [connections |-> opened'[d], count |-> total[d]]
      BY <2>1, <2>3, <2>7, <3>1, <3>5, <3>6, <3>7, <3>8, UsageChanges
    <3> QED BY <3>9, <2>4
  <2> QED BY <2>6, <2>7
<1> QED BY <1>12, <1>13, <1>16, <1>17, <1>18, <1>19, <1>20, <1>21

(* add() counts an update in the counter of its member and in the total. *)
LEMMA AddKeeps ==
  ASSUME StoreInv, NEW m \in Members, add(m)
  PROVE  StoreInv'
<1> DEFINE k == handle[m].key
<1> USE DEF StoreInv
<1>1. /\ handle[m].at = "open" /\ ~handle[m].stopped
      /\ handle' = [handle EXCEPT ![m].count = @ + 1]
      /\ total' = [total EXCEPT ![k[1]] = @ + 1]
      /\ UNCHANGED <<data, next_id, versions, persist, flush, task, admin, file, budget,
                     opened, epoch, acked, at_cancel>>
  BY DEF add
<1>2. k \in Keys /\ m \in sessions[k].members  BY <1>1 DEF MemberInv
<1>3. handle[m] \in Handles /\ k[1] \in Devices  BY <1>2 DEF TypeOK, Keys
<1> HIDE DEF k
<1>4. handle'[m] = [handle[m] EXCEPT !.count = @ + 1]  BY <1>1 DEF TypeOK
<1>5. handle'[m] \in Handles /\ handle'[m].count = handle[m].count + 1 /\ handle'[m].at = "open"
      /\ handle'[m].key = handle[m].key /\ handle'[m].id = handle[m].id
      /\ handle'[m].stopped = handle[m].stopped
  BY <1>1, <1>3, <1>4 DEF Handles
<1>6. handle' \in [Members -> Handles] /\ \A j \in Members \ {m} : handle'[j] = handle[j]
  BY <1>1, <1>5 DEF TypeOK
<1>7. total' \in [Devices -> Nat] /\ total'[k[1]] = total[k[1]] + 1
      /\ \A d \in Devices \ {k[1]} : total'[d] = total[d]
  BY <1>1, <1>3 DEF TypeOK
<1>8. TypeOK'  BY <1>1, <1>6, <1>7 DEF TypeOK, data, versions, task
<1>9. MemberInv'
  <2>1. \A j \in Keys : sessions[j].members \subseteq Members  BY DEF TypeOK, SessionStates
  <2>2. \A j \in Members : /\ handle'[j].at = handle[j].at /\ handle'[j].key = handle[j].key
                           /\ handle'[j].id = handle[j].id /\ handle'[j].stopped = handle[j].stopped
    BY <1>1, <1>5, <1>6
  <2>3. sessions' = sessions  BY <1>1 DEF data
  <2> QED BY <2>1, <2>2, <2>3 DEF MemberInv
<1>10. \A j \in Members : handle'[j].at = handle[j].at /\ handle'[j].key = handle[j].key
  BY <1>1, <1>5, <1>6
<1>11. LockInv' /\ EpochInv' /\ DeletionInv' /\ ChangesArePending' /\ CancelOK'
  BY <1>1 DEF versions, task, LockInv, EpochInv, DeletionInv, ChangesArePending, CancelOK, Writing
<1>12. QuietInv'  BY <1>1 DEF data, versions, task, QuietInv, Writing, Has
<1>u. \A d \in Devices : Unpublished(d)' <=> Unpublished(d)  BY <1>1, <1>10 DEF Unpublished
<1>13. VersionInv'  BY <1>1, <1>u DEF data, versions, task, VersionInv, Writing, Has
<1>14. SkipIsSafe'  BY <1>1, <1>u DEF data, versions, task, SkipIsSafe
<1>15. GrowthInv'
  <2>1. \A d \in Devices : total[d] \in Nat /\ total'[d] \in Nat /\ total[d] <= total'[d]
    BY <1>3, <1>7 DEF TypeOK
  <2>2. \A d \in Devices, c \in Nat : c <= total[d] => c <= total'[d]  BY <2>1
  <2>3. \A d \in Devices : file.usage[d].count \in Nat  BY DEF TypeOK, Files, Totals
  <2>4. \A d \in Devices, p \in Flushers : Writing(p) => flush[p].image.usage[d].count \in Nat
    BY DEF LockInv, Writing, Files, Totals
  <2> QED BY <1>1, <2>2, <2>3, <2>4 DEF GrowthInv, Writing
<1>16. CountedOnce'
  <2>1. Shape(sessions, handle) /\ Shape(sessions', handle')  BY <1>8, <1>9, ShapeHolds
  <2>2. SUFFICES ASSUME NEW d \in Devices
                 PROVE  UsageOf(devices', sessions', handle', d) = [connections |-> opened'[d], count |-> total'[d]]
    BY UsageIsUsageOf DEF CountedOnce
  <2>3. UsageOf(devices, sessions, handle, d) = [connections |-> opened[d], count |-> total[d]]
    BY UsageIsUsageOf DEF CountedOnce
  <2>4. devices' = devices /\ opened' = opened /\ sessions' = sessions  BY <1>1 DEF data
  <2>5. \A j \in Keys \ {k} : \A i \in sessions[j].members : handle'[i].count = handle[i].count
    <3>1. \A j \in Keys : sessions[j].members \subseteq Members  BY DEF TypeOK, SessionStates
    <3>2. \A j \in Keys \ {k} : m \notin sessions[j].members  BY DEF MemberInv, k
    <3> QED BY <3>1, <3>2, <1>6
  <2>6. CASE d # k[1]
    <3>1. \A j \in Keys : j[1] = d => j \in Keys \ {k}  BY <2>6
    <3>2. UsageOf(devices', sessions', handle', d) = UsageOf(devices, sessions, handle, d)
      BY <3>1, <2>1, <2>4, <2>5, UsageStays
    <3> QED BY <3>2, <2>3, <2>4, <2>6, <1>7
  <2>7. CASE d = k[1]
    <3> DEFINE f == [j \in Members |-> handle'[j].count]
               e == [j \in Members |-> handle[j].count]
               S == sessions[k].members \ {m}
    <3>1. total[d] \in Nat /\ opened[d] \in Nat /\ total'[d] = total[d] + 1 /\ devices \in [Devices -> Totals]
      BY <2>7, <1>7 DEF TypeOK
    <3>2. devices[d].count \in Nat /\ devices[d].connections \in Nat  BY <3>1 DEF Totals
    <3>3. CountersOf(sessions, handle, k) = sessions[k].completed + handle[m].count + SumFunctionOnSet(e, S)
          /\ SumFunctionOnSet(e, S) \in Nat
      BY <2>1, <1>2, CountersAdd
    <3>4. CountersOf(sessions, handle', k) = sessions[k].completed + handle'[m].count + SumFunctionOnSet(f, S)
      BY <2>1, <2>4, <1>2, CountersAdd
    <3>5. S \subseteq Members /\ \A i \in S : handle'[i].count = handle[i].count
      BY <1>2, <1>6 DEF TypeOK, SessionStates
    <3>6. SumFunctionOnSet(f, S) = SumFunctionOnSet(e, S)
      <4> HIDE DEF S
      <4> QED BY <3>5, OthersAdd
    <3>7. handle[m].count \in Nat /\ sessions[k].completed \in Nat
      BY <1>2, <1>3 DEF TypeOK, Handles, SessionStates
    <3> HIDE DEF e, f, S
    <3>8. CountersOf(sessions, handle', k) = CountersOf(sessions, handle, k) + 1
          /\ CountersOf(sessions, handle, k) \in Nat
      BY <3>3, <3>4, <3>6, <3>7, <1>5
    <3>9. sessions[k].id # 0  BY <1>2 DEF MemberInv
    <3>10. Load(sessions, handle', k) = Load(sessions, handle, k) + 1 /\ Load(sessions, handle, k) \in Nat
      BY <3>8, <3>9 DEF Load
    <3>11. devices[d].count + Load(sessions, handle', k) + total[d] =
             devices[d].count + Load(sessions, handle, k) + total'[d]
      BY <3>1, <3>2, <3>10
    <3>12. total'[d] \in Nat  BY <3>1
    <3>13. \A j \in Keys : j # k /\ j[1] = d =>
             sessions[j] = sessions[j] /\ \A i \in sessions[j].members : handle'[i].count = handle[i].count
      BY <2>5
    <3>14. devices[d].connections + Ones(sessions, k) + opened[d] =
            devices[d].connections + Ones(sessions, k) + opened[d]
      OBVIOUS
    <3>15. UsageOf(devices, sessions, handle', d) = [connections |-> opened[d], count |-> total'[d]]
      BY <1>2, <2>1, <2>3, <2>4, <2>7, <3>1, <3>11, <3>12, <3>13, <3>14, UsageChanges
    <3> QED BY <3>15, <2>4
  <2> QED BY <2>6, <2>7
<1> QED BY <1>8, <1>9, <1>11, <1>12, <1>13, <1>14, <1>15, <1>16

(* close() stops the counters of its member and leaves them where they are. *)
LEMMA CloseKeeps ==
  ASSUME StoreInv, NEW m \in Members, close(m)
  PROVE  StoreInv'
<1> USE DEF StoreInv
<1>1. /\ handle[m].at = "open"
      /\ handle' = [handle EXCEPT ![m].at = "finish", ![m].stopped = TRUE]
      /\ UNCHANGED <<data, next_id, versions, persist, flush, task, admin, file, budget, history>>
  BY DEF close
<1>2. handle[m] \in Handles  BY DEF TypeOK
<1>3. handle'[m] = [handle[m] EXCEPT !.at = "finish", !.stopped = TRUE]  BY <1>1 DEF TypeOK
<1>4. handle'[m] \in Handles /\ handle'[m].count = handle[m].count /\ handle'[m].at = "finish"
      /\ handle'[m].key = handle[m].key /\ handle'[m].id = handle[m].id
  BY <1>2, <1>3 DEF Handles
<1>5. handle' \in [Members -> Handles] /\ \A j \in Members \ {m} : handle'[j] = handle[j]
  BY <1>1, <1>4 DEF TypeOK
<1>6. TypeOK'  BY <1>1, <1>5 DEF TypeOK, data, versions, task, history
<1>7. MemberInv'
  <2>1. \A j \in Keys : sessions[j].members \subseteq Members  BY DEF TypeOK, SessionStates
  <2>2. \A j \in Members : /\ handle'[j].key = handle[j].key /\ handle'[j].id = handle[j].id
                           /\ \/ handle'[j].at = handle[j].at /\ handle'[j].stopped = handle[j].stopped
                              \/ handle[j].at = "open" /\ handle'[j].at = "finish"
    BY <1>1, <1>4, <1>5
  <2>3. sessions' = sessions  BY <1>1 DEF data
  <2> QED BY <2>1, <2>2, <2>3 DEF MemberInv
<1>8. \A j \in Members : /\ handle'[j].at = "request" <=> handle[j].at = "request"
                         /\ handle'[j].key = handle[j].key
  BY <1>1, <1>4, <1>5
<1>9. LockInv' /\ EpochInv' /\ DeletionInv' /\ ChangesArePending' /\ CancelOK' /\ GrowthInv'
  BY <1>1 DEF versions, task, history, LockInv, EpochInv, DeletionInv, ChangesArePending, CancelOK,
              GrowthInv, Writing
<1>10. QuietInv'  BY <1>1 DEF data, versions, task, history, QuietInv, Writing, Has
<1>u. \A d \in Devices : Unpublished(d)' <=> Unpublished(d)  BY <1>1, <1>8 DEF Unpublished
<1>11. VersionInv'  BY <1>1, <1>u DEF data, versions, task, history, VersionInv, Writing, Has
<1>12. SkipIsSafe'  BY <1>1, <1>u DEF data, versions, task, history, SkipIsSafe
<1>13. CountedOnce'
  <2>1. Shape(sessions, handle) /\ Shape(sessions', handle')  BY <1>6, <1>7, ShapeHolds
  <2>2. SUFFICES ASSUME NEW d \in Devices
                 PROVE  UsageOf(devices', sessions', handle', d) = [connections |-> opened'[d], count |-> total'[d]]
    BY UsageIsUsageOf DEF CountedOnce
  <2>3. UsageOf(devices, sessions, handle, d) = [connections |-> opened[d], count |-> total[d]]
    BY UsageIsUsageOf DEF CountedOnce
  <2>4. devices' = devices /\ opened' = opened /\ total' = total /\ sessions' = sessions
    BY <1>1 DEF data, history
  <2>5. \A j \in Keys : \A i \in sessions[j].members : handle'[i].count = handle[i].count
    BY <1>4, <1>5 DEF TypeOK, SessionStates
  <2>6. UsageOf(devices', sessions', handle', d) = UsageOf(devices, sessions, handle, d)
    BY <2>1, <2>4, <2>5, UsageStays
  <2> QED BY <2>3, <2>4, <2>6
<1> QED BY <1>6, <1>7, <1>9, <1>10, <1>11, <1>12, <1>13

(* The increment of change_version after a session was folded. *)
LEMMA FinishRequestsKeeps ==
  ASSUME StoreInv, NEW m \in Members, FinishRequests(m)
  PROVE  StoreInv'
<1> USE DEF StoreInv
<1>1. /\ handle[m].at = "request"
      /\ handle' = [handle EXCEPT ![m] = Gone]
      /\ change_version' = change_version + 1 /\ permit' = TRUE /\ persisted_version' = persisted_version
      /\ UNCHANGED <<data, next_id, persist, flush, task, admin, file, budget, history>>
  BY DEF FinishRequests, request_persistence
<1>2. change_version \in Nat /\ persisted_version \in Nat /\ persisted_version <= change_version
      /\ \A p \in Flushers : flush[p].version <= change_version /\ flush[p].version \in Nat
  BY DEF TypeOK, VersionInv, Passes
<1>3. handle' \in [Members -> Handles] /\ handle'[m] = Gone /\ \A j \in Members \ {m} : handle'[j] = handle[j]
  BY <1>1, NewValues DEF TypeOK
<1>4. \A j \in Keys : m \notin sessions[j].members  BY <1>1 DEF MemberInv
<1>5. TypeOK'  BY <1>1, <1>2, <1>3 DEF TypeOK, data, task, history
<1>6. \A j \in Keys : \A i \in sessions[j].members : i \in Members \ {m}
  BY <1>4 DEF TypeOK, SessionStates
<1>7. MemberInv'
  <2>1. sessions' = sessions  BY <1>1 DEF data
  <2>2. handle'[m].at = "gone"  BY <1>3 DEF Gone
  <2> QED BY <1>3, <1>6, <2>1, <2>2 DEF MemberInv
<1>8. LockInv' /\ EpochInv' /\ DeletionInv' /\ CancelOK' /\ GrowthInv'
  BY <1>1 DEF task, history, LockInv, EpochInv, DeletionInv, CancelOK, GrowthInv, Writing
<1>9. ChangesArePending'  BY <1>1 DEF ChangesArePending
<1>10. persisted_version' < change_version' /\ \A p \in Flushers : flush'[p].version < change_version'
  BY <1>1, <1>2
<1>11. VersionInv'  BY <1>1, <1>2 DEF VersionInv, Writing
<1>12. SkipIsSafe'  BY <1>5, <1>10 DEF SkipIsSafe, TypeOK
<1>13. QuietInv'
  BY <1>1, <1>2, <1>10 DEF data, task, history, QuietInv, Writing, Has
<1>14. CountedOnce'
  <2>1. Shape(sessions, handle) /\ Shape(sessions', handle')  BY <1>5, <1>7, ShapeHolds
  <2>2. SUFFICES ASSUME NEW d \in Devices
                 PROVE  UsageOf(devices', sessions', handle', d) = [connections |-> opened'[d], count |-> total'[d]]
    BY UsageIsUsageOf DEF CountedOnce
  <2>3. UsageOf(devices, sessions, handle, d) = [connections |-> opened[d], count |-> total[d]]
    BY UsageIsUsageOf DEF CountedOnce
  <2>4. devices' = devices /\ opened' = opened /\ total' = total /\ sessions' = sessions
    BY <1>1 DEF data, history
  <2>5. \A j \in Keys : \A i \in sessions[j].members : handle'[i].count = handle[i].count
    BY <1>3, <1>6
  <2>6. UsageOf(devices', sessions', handle', d) = UsageOf(devices, sessions, handle, d)
    BY <2>1, <2>4, <2>5, UsageStays
  <2> QED BY <2>3, <2>4, <2>6
<1> QED BY <1>5, <1>7, <1>8, <1>9, <1>11, <1>12, <1>13, <1>14

(* The three cases of finish_session. *)
LeavesNothing(m) ==
  /\ handle[m].at = "finish"
  /\ sessions[handle[m].key].id # handle[m].id \/ m \notin sessions[handle[m].key].members
  /\ handle' = [handle EXCEPT ![m] = Gone]
  /\ UNCHANGED data
  /\ UNCHANGED <<next_id, versions, persist, flush, task, admin, file, budget, history>>

LeavesOthers(m, k) ==
  /\ k = handle[m].key /\ handle[m].at = "finish"
  /\ m \in sessions[k].members /\ sessions[k].members # {m}
  /\ sessions' = [sessions EXCEPT ![k].members = @ \ {m},
                                  ![k].completed = sessions[k].completed + handle[m].count]
  /\ handle' = [handle EXCEPT ![m] = Gone]
  /\ UNCHANGED devices
  /\ UNCHANGED <<next_id, versions, persist, flush, task, admin, file, budget, history>>

LeavesLast(m, k) ==
  /\ k = handle[m].key /\ handle[m].at = "finish"
  /\ sessions[k].members = {m}
  /\ sessions' = [sessions EXCEPT ![k] = NoSession]
  /\ devices' = [devices EXCEPT ![k[1]] =
       [connections |-> @.connections + 1, count |-> @.count + (sessions[k].completed + handle[m].count)]]
  /\ handle' = [handle EXCEPT ![m].at = "request"]
  /\ UNCHANGED <<next_id, versions, persist, flush, task, admin, file, budget, history>>

(* finish_session of a member whose session was deleted. *)
LEMMA FinishNothingKeeps ==
  ASSUME StoreInv, NEW m \in Members, LeavesNothing(m)
  PROVE  StoreInv'
<1> USE DEF StoreInv
<1>0. /\ handle[m].at = "finish"
      /\ sessions[handle[m].key].id # handle[m].id \/ m \notin sessions[handle[m].key].members
      /\ handle' = [handle EXCEPT ![m] = Gone]
      /\ UNCHANGED data
      /\ UNCHANGED <<next_id, versions, persist, flush, task, admin, file, budget, history>>
  BY DEF LeavesNothing
<1>1. handle' \in [Members -> Handles] /\ handle'[m].at = "gone" /\ \A j \in Members \ {m} : handle'[j] = handle[j]
  <2>1. Gone.at = "gone"  BY DEF Gone
  <2> QED BY <1>0, <2>1, NewValues DEF TypeOK
<1>2. \A j \in Keys : m \notin sessions[j].members  BY <1>0 DEF MemberInv
<1>3. TypeOK'  BY <1>0, <1>1 DEF TypeOK, data, versions, task, history
<1>4. \A j \in Keys : \A i \in sessions[j].members : i \in Members \ {m}
  BY <1>0, <1>2 DEF TypeOK, SessionStates
<1>5. MemberInv'
  <2>1. sessions' = sessions  BY <1>0 DEF data
  <2> QED BY <1>0, <1>1, <1>4, <2>1 DEF MemberInv
<1>6. LockInv' /\ EpochInv' /\ DeletionInv' /\ ChangesArePending' /\ CancelOK' /\ GrowthInv'
  BY <1>0 DEF versions, task, history, LockInv, EpochInv, DeletionInv, ChangesArePending, CancelOK,
         GrowthInv, Writing
<1>7. QuietInv'  BY <1>0 DEF data, versions, task, history, QuietInv, Writing, Has
<1>8. \A d \in Devices : Unpublished(d)' <=> Unpublished(d)
  BY <1>0, <1>1 DEF Unpublished
<1>9. VersionInv'  BY <1>0, <1>8 DEF data, versions, task, history, VersionInv, Writing, Has
<1>10. SkipIsSafe'  BY <1>0, <1>8 DEF data, versions, task, history, SkipIsSafe
<1>11. CountedOnce'
  <2>1. Shape(sessions, handle) /\ Shape(sessions', handle')  BY <1>3, <1>5, ShapeHolds
  <2>2. SUFFICES ASSUME NEW d \in Devices
                 PROVE  UsageOf(devices', sessions', handle', d) = [connections |-> opened'[d], count |-> total'[d]]
    BY UsageIsUsageOf DEF CountedOnce
  <2>3. UsageOf(devices, sessions, handle, d) = [connections |-> opened[d], count |-> total[d]]
    BY UsageIsUsageOf DEF CountedOnce
  <2>4. devices' = devices /\ opened' = opened /\ total' = total /\ sessions' = sessions
    BY <1>0 DEF data, history
  <2>5. \A j \in Keys : \A i \in sessions[j].members : handle'[i].count = handle[i].count
    BY <1>0, <1>1, <1>4
  <2>6. UsageOf(devices', sessions', handle', d) = UsageOf(devices, sessions, handle, d)
    BY <2>1, <2>4, <2>5, UsageStays
  <2> QED BY <1>0, <2>3, <2>4, <2>6
<1> QED BY <1>3, <1>5, <1>6, <1>7, <1>9, <1>10, <1>11

(* finish_session of a member that leaves others behind. *)
LEMMA FinishMemberKeeps ==
  ASSUME StoreInv, NEW m \in Members, NEW k \in Keys, LeavesOthers(m, k)
  PROVE  StoreInv'
<1> DEFINE S == sessions[k].members \ {m}
           completed == sessions[k].completed + handle[m].count
<1> USE DEF StoreInv
<1>0. /\ k = handle[m].key /\ handle[m].at = "finish"
      /\ m \in sessions[k].members /\ sessions[k].members # {m}
      /\ sessions' = [sessions EXCEPT ![k].members = @ \ {m},
                                      ![k].completed = sessions[k].completed + handle[m].count]
      /\ handle' = [handle EXCEPT ![m] = Gone]
      /\ UNCHANGED devices
      /\ UNCHANGED <<next_id, versions, persist, flush, task, admin, file, budget, history>>
  BY DEF LeavesOthers
<1>1. handle' \in [Members -> Handles] /\ handle'[m].at = "gone" /\ \A j \in Members \ {m} : handle'[j] = handle[j]
  <2>1. Gone.at = "gone"  BY DEF Gone
  <2> QED BY <1>0, <2>1, NewValues DEF TypeOK
<1>2. sessions[k] \in SessionStates /\ handle[m] \in Handles /\ k[1] \in Devices  BY <1>0 DEF TypeOK, Keys
<1>3. sessions[k].completed \in Nat /\ handle[m].count \in Nat /\ completed \in Nat /\ S # {} /\ S \subseteq Members
  BY <1>0, <1>2 DEF SessionStates, Handles
<1>4. sessions'[k] = [sessions[k] EXCEPT !.members = S, !.completed = completed]  BY <1>0 DEF TypeOK
<1> HIDE DEF S, completed
<1>5. sessions'[k] \in SessionStates /\ sessions'[k].id = sessions[k].id
      /\ sessions'[k].members = S /\ sessions'[k].completed = completed
  BY <1>2, <1>3, <1>4 DEF SessionStates
<1>6. sessions' \in [Keys -> SessionStates] /\ \A j \in Keys \ {k} : sessions'[j] = sessions[j]
  BY <1>0, <1>5 DEF TypeOK
<1>7. \A j \in Keys \ {k} : \A i \in sessions[j].members : i \in Members \ {m}
  BY <1>0 DEF TypeOK, SessionStates, MemberInv
<1>8. \A i \in S : i \in Members \ {m} /\ i \in sessions[k].members  BY <1>0, <1>3 DEF S
<1>9. \A i \in Members \ {m} : i \in sessions[k].members => i \in S  BY <1>0 DEF S
<1>10. sessions[k].id # 0  BY <1>0 DEF MemberInv
<1>11. TypeOK'  BY <1>0, <1>1, <1>6 DEF TypeOK, versions, task, history
<1>12. MemberInv'
  <2>1. \A j \in Keys : /\ sessions'[j].members = {} <=> sessions'[j].id = 0
                        /\ sessions'[j].id = 0 => sessions'[j] = NoSession
    BY <1>0, <1>3, <1>5, <1>6, <1>10 DEF MemberInv
  <2>2. \A j \in Keys : \A i \in sessions'[j].members :
          handle'[i].key = j /\ handle'[i].id = sessions'[j].id /\ handle'[i].at \in {"open", "finish"}
    BY <1>0, <1>1, <1>5, <1>6, <1>7, <1>8 DEF MemberInv
  <2>3. \A i \in Members : handle'[i].at \in {"open", "finish", "request"} => handle'[i].key \in Keys
    BY <1>0, <1>1 DEF MemberInv
  <2>4. \A i \in Members : handle'[i].at = "open" /\ ~handle'[i].stopped => i \in sessions'[handle'[i].key].members
    BY <1>0, <1>1, <1>5, <1>6, <1>9 DEF MemberInv
  <2> QED BY <1>0, <2>1, <2>2, <2>3, <2>4 DEF MemberInv
<1>13. LockInv' /\ EpochInv' /\ DeletionInv' /\ ChangesArePending' /\ CancelOK' /\ GrowthInv'
  BY <1>0 DEF versions, task, history, LockInv, EpochInv, DeletionInv, ChangesArePending, CancelOK,
         GrowthInv, Writing
<1>14. QuietInv'  BY <1>0 DEF versions, task, history, QuietInv, Writing, Has
<1>15. \A d \in Devices : Unpublished(d)' <=> Unpublished(d)  BY <1>0, <1>1 DEF Unpublished
<1>16. VersionInv'  BY <1>0, <1>15 DEF versions, task, history, VersionInv, Writing, Has
<1>17. SkipIsSafe'  BY <1>0, <1>15 DEF versions, task, history, SkipIsSafe
<1>18. CountedOnce'
  <2>1. Shape(sessions, handle) /\ Shape(sessions', handle')  BY <1>11, <1>12, ShapeHolds
  <2>2. SUFFICES ASSUME NEW d \in Devices
                 PROVE  UsageOf(devices', sessions', handle', d) = [connections |-> opened'[d], count |-> total'[d]]
    BY UsageIsUsageOf DEF CountedOnce
  <2>3. UsageOf(devices, sessions, handle, d) = [connections |-> opened[d], count |-> total[d]]
    BY UsageIsUsageOf DEF CountedOnce
  <2>4. devices' = devices /\ opened' = opened /\ total' = total  BY <1>0 DEF history
  <2>5. \A j \in Keys \ {k} : sessions'[j] = sessions[j] /\
          \A i \in sessions[j].members : handle'[i].count = handle[i].count
    BY <1>0, <1>1, <1>6, <1>7
  <2>6. CASE d # k[1]
    <3>1. \A j \in Keys : j[1] = d => j \in Keys \ {k}  BY <1>0, <2>6
    <3>2. UsageOf(devices', sessions', handle', d) = UsageOf(devices, sessions, handle, d)
      BY <3>1, <2>1, <2>4, <2>5, UsageStays
    <3> QED BY <1>0, <3>2, <2>3, <2>4, <2>6
  <2>7. CASE d = k[1]
    <3> DEFINE f == [j \in Members |-> handle'[j].count]
               e == [j \in Members |-> handle[j].count]
    <3>1. total[d] \in Nat /\ opened[d] \in Nat /\ devices \in [Devices -> Totals]  BY <1>0 DEF TypeOK
    <3>2. CountersOf(sessions, handle, k) = sessions[k].completed + handle[m].count + SumFunctionOnSet(e, S)
      <4>1. m \in sessions[k].members  BY <1>0
      <4> QED BY <4>1, <2>1, CountersAdd DEF S
    <3>3. CountersOf(sessions', handle', k) = completed + SumFunctionOnSet(f, S)
      BY <1>0, <1>5 DEF CountersOf
    <3>4. SumFunctionOnSet(f, S) = SumFunctionOnSet(e, S)
      <4>1. \A i \in S : handle'[i].count = handle[i].count  BY <1>0, <1>1, <1>8
      <4> QED BY <4>1, <1>3, OthersAdd
    <3> HIDE DEF e, f
    <3>5. CountersOf(sessions', handle', k) = CountersOf(sessions, handle, k)
      BY <1>0, <3>2, <3>3, <3>4 DEF completed
    <3>6. Load(sessions', handle', k) = Load(sessions, handle, k) /\ Ones(sessions', k) = Ones(sessions, k)
      BY <1>0, <3>5, <1>5 DEF Load, Ones
    <3>7. \A j \in Keys : j # k /\ j[1] = d =>
            sessions'[j] = sessions[j] /\ \A i \in sessions[j].members : handle'[i].count = handle[i].count
      BY <1>0, <2>5
    <3>8. devices[d].count + Load(sessions', handle', k) + total[d] =
            devices[d].count + Load(sessions, handle, k) + total[d]
          /\ devices[d].connections + Ones(sessions', k) + opened[d] =
               devices[d].connections + Ones(sessions, k) + opened[d]
      BY <1>0, <3>6
    <3>9. UsageOf(devices, sessions', handle', d) = [connections |-> opened[d], count |-> total[d]]
      BY <2>1, <2>3, <2>7, <3>1, <3>7, <3>8, UsageChanges
    <3> QED BY <1>0, <3>9, <2>4
  <2> QED BY <2>6, <2>7
<1> QED BY <1>11, <1>12, <1>13, <1>14, <1>16, <1>17, <1>18

(* finish_session of the last member, which folds the session. *)
LEMMA FinishLastKeeps ==
  ASSUME StoreInv, NEW m \in Members, NEW k \in Keys, LeavesLast(m, k)
  PROVE  StoreInv'
<1> DEFINE n == sessions[k].completed + handle[m].count
<1> USE DEF StoreInv
<1>0. /\ k = handle[m].key /\ handle[m].at = "finish"
      /\ sessions[k].members = {m}
      /\ sessions' = [sessions EXCEPT ![k] = NoSession]
      /\ devices' = [devices EXCEPT ![k[1]] =
           [connections |-> @.connections + 1, count |-> @.count + (sessions[k].completed + handle[m].count)]]
      /\ handle' = [handle EXCEPT ![m].at = "request"]
      /\ UNCHANGED <<next_id, versions, persist, flush, task, admin, file, budget, history>>
  BY DEF LeavesLast
<1>1. sessions[k] \in SessionStates /\ handle[m] \in Handles /\ k[1] \in Devices /\ devices[k[1]] \in Totals
  BY <1>0 DEF TypeOK, Keys
<1>2. handle'[m] = [handle[m] EXCEPT !.at = "request"]  BY <1>0 DEF TypeOK
<1>3. handle'[m] \in Handles /\ handle'[m].at = "request" /\ handle'[m].key = k
      /\ handle'[m].count = handle[m].count
  BY <1>0, <1>1, <1>2 DEF Handles
<1>4. handle' \in [Members -> Handles] /\ \A j \in Members \ {m} : handle'[j] = handle[j]
  BY <1>0, <1>3 DEF TypeOK
<1>5. sessions' \in [Keys -> SessionStates] /\ sessions'[k] = NoSession
      /\ \A j \in Keys \ {k} : sessions'[j] = sessions[j]
  BY <1>0, NewValues DEF TypeOK
<1>6. sessions[k].completed \in Nat /\ handle[m].count \in Nat /\ n \in Nat
      /\ devices[k[1]].connections \in Nat /\ devices[k[1]].count \in Nat
  BY <1>0, <1>1 DEF SessionStates, Handles, Totals
<1> HIDE DEF n
<1>7. devices'[k[1]] = [connections |-> devices[k[1]].connections + 1, count |-> devices[k[1]].count + n]
  BY <1>0, <1>1 DEF TypeOK, n
<1>8. devices'[k[1]] \in Totals  BY <1>0, <1>6, <1>7 DEF Totals
<1>9. devices' \in [Devices -> Totals] /\ \A d \in Devices \ {k[1]} : devices'[d] = devices[d]
  BY <1>0, <1>1, <1>8 DEF TypeOK
<1>10. TypeOK'  BY <1>0, <1>4, <1>5, <1>9 DEF TypeOK, versions, task, history
<1>11. \A j \in Keys \ {k} : \A i \in sessions[j].members : i \in Members \ {m}
  BY <1>0 DEF TypeOK, SessionStates, MemberInv
<1>12. NoSession.id = 0 /\ NoSession.members = {}  BY DEF NoSession
<1>13. MemberInv'
  <2>1. \A j \in Keys : /\ sessions'[j].members = {} <=> sessions'[j].id = 0
                        /\ sessions'[j].id = 0 => sessions'[j] = NoSession
    BY <1>0, <1>5, <1>12 DEF MemberInv
  <2>2. \A j \in Keys : \A i \in sessions'[j].members :
          handle'[i].key = j /\ handle'[i].id = sessions'[j].id /\ handle'[i].at \in {"open", "finish"}
    BY <1>0, <1>4, <1>5, <1>11, <1>12 DEF MemberInv
  <2>3. \A i \in Members : handle'[i].at \in {"open", "finish", "request"} => handle'[i].key \in Keys
    BY <1>0, <1>3, <1>4 DEF MemberInv
  <2>4. \A i \in Members : handle'[i].at = "open" /\ ~handle'[i].stopped => i \in sessions'[handle'[i].key].members
    BY <1>0, <1>3, <1>4, <1>5 DEF MemberInv
  <2> QED BY <1>0, <2>1, <2>2, <2>3, <2>4 DEF MemberInv
<1>14. LockInv' /\ EpochInv' /\ DeletionInv' /\ ChangesArePending' /\ CancelOK' /\ GrowthInv'
  BY <1>0 DEF versions, task, history, LockInv, EpochInv, DeletionInv, ChangesArePending, CancelOK,
         GrowthInv, Writing
<1>15. \A d \in Devices : devices[d].count \in Nat /\ devices'[d].count \in Nat /\ devices[d].count <= devices'[d].count
  <2>1. \A d \in Devices : devices[d].count \in Nat  BY <1>0 DEF TypeOK, Totals
  <2>2. devices'[k[1]].count = devices[k[1]].count + n  BY <1>0, <1>7
  <2> QED BY <1>0, <2>1, <2>2, <1>6, <1>9
<1>16. QuietInv'
  <2>1. \A d \in Devices : at_cancel.total[d] \in Nat  BY <1>0 DEF TypeOK, Moments
  <2>2. \A d \in Devices : devices[d].count >= at_cancel.total[d] => devices'[d].count >= at_cancel.total[d]
    BY <1>0, <2>1, <1>15
  <2> QED BY <1>0, <2>2 DEF versions, task, history, QuietInv, Writing, Has
<1>17. \A d \in Devices : Unpublished(d)' \/ (~Unpublished(d) /\ devices'[d] = devices[d])
  <2>1. Unpublished(k[1])'  BY <1>0, <1>3 DEF Unpublished
  <2>2. \A d \in Devices : Unpublished(d) => Unpublished(d)'  BY <1>0, <1>4 DEF Unpublished
  <2> QED BY <1>0, <2>1, <2>2, <1>9
<1>18. VersionInv'  BY <1>0, <1>17 DEF versions, task, history, VersionInv, Writing, Has
<1>19. SkipIsSafe'  BY <1>0, <1>17 DEF versions, task, history, SkipIsSafe
<1>20. CountedOnce'
  <2>1. Shape(sessions, handle) /\ Shape(sessions', handle')  BY <1>10, <1>13, ShapeHolds
  <2>2. SUFFICES ASSUME NEW d \in Devices
                 PROVE  UsageOf(devices', sessions', handle', d) = [connections |-> opened'[d], count |-> total'[d]]
    BY UsageIsUsageOf DEF CountedOnce
  <2>3. UsageOf(devices, sessions, handle, d) = [connections |-> opened[d], count |-> total[d]]
    BY UsageIsUsageOf DEF CountedOnce
  <2>4. opened' = opened /\ total' = total  BY <1>0 DEF history
  <2>5. \A j \in Keys \ {k} : sessions'[j] = sessions[j] /\
          \A i \in sessions[j].members : handle'[i].count = handle[i].count
    BY <1>0, <1>4, <1>5, <1>11
  <2>6. CASE d # k[1]
    <3>1. \A j \in Keys : j[1] = d => j \in Keys \ {k}  BY <1>0, <2>6
    <3>2. devices'[d] = devices[d]  BY <1>0, <2>6, <1>9
    <3>3. UsageOf(devices', sessions', handle', d) = UsageOf(devices, sessions, handle, d)
      BY <3>1, <3>2, <2>1, <2>5, UsageStays
    <3> QED BY <1>0, <3>3, <2>3, <2>4
  <2>7. CASE d = k[1]
    <3> DEFINE e == [j \in Members |-> handle[j].count]
    <3>1. total[d] \in Nat /\ opened[d] \in Nat /\ devices \in [Devices -> Totals]  BY <1>0 DEF TypeOK
    <3>2. CountersOf(sessions, handle, k) =
            sessions[k].completed + handle[m].count + SumFunctionOnSet(e, sessions[k].members \ {m})
      <4>1. m \in sessions[k].members  BY <1>0
      <4> QED BY <4>1, <2>1, CountersAdd
    <3>3. SumFunctionOnSet(e, sessions[k].members \ {m}) = 0
      <4>1. sessions[k].members \ {m} = {}  BY <1>0
      <4> QED BY <4>1, SumOfNone
    <3> HIDE DEF e
    <3>4. sessions[k].id # 0  BY <1>0 DEF MemberInv
    <3>5. Load(sessions, handle, k) = n /\ Ones(sessions, k) = 1
      BY <1>0, <3>2, <3>3, <3>4, <1>6 DEF Load, Ones, n
    <3>6. Load(sessions', handle', k) = 0 /\ Ones(sessions', k) = 0
      BY <1>0, <1>5, <1>12 DEF Load, Ones
    <3>7. \A j \in Keys : j # k /\ j[1] = d =>
            sessions'[j] = sessions[j] /\ \A i \in sessions[j].members : handle'[i].count = handle[i].count
      BY <1>0, <2>5
    <3>8. devices'[d].count = devices[d].count + n /\ devices'[d].connections = devices[d].connections + 1
          /\ devices[d].count \in Nat /\ devices[d].connections \in Nat
      BY <2>7, <1>6, <1>7
    <3>9. devices'[d].count + Load(sessions', handle', k) + total[d] =
            devices[d].count + Load(sessions, handle, k) + total[d]
      BY <1>0, <3>1, <3>5, <3>6, <3>8, <1>6
    <3>10. devices'[d].connections + Ones(sessions', k) + opened[d] =
             devices[d].connections + Ones(sessions, k) + opened[d]
      BY <1>0, <3>1, <3>5, <3>6, <3>8
    <3>11. UsageOf(devices', sessions', handle', d) = [connections |-> opened[d], count |-> total[d]]
      BY <2>1, <2>3, <2>7, <3>1, <3>7, <3>9, <3>10, <1>9, UsageChanges
    <3> QED BY <1>0, <3>11, <2>4
  <2> QED BY <2>6, <2>7
<1> QED BY <1>10, <1>13, <1>14, <1>16, <1>18, <1>19, <1>20

(* finish_session is one of the three. *)
LEMMA FinishSessionKeeps ==
  ASSUME StoreInv, NEW m \in Members, finish_session(m)
  PROVE  StoreInv'
<1> DEFINE k == handle[m].key
<1>1. handle[m].at = "finish" /\ UNCHANGED <<next_id, versions, persist, flush, task, admin, file, budget, history>>
  BY DEF finish_session
<1>2. k \in Keys  BY <1>1 DEF StoreInv, MemberInv
<1>3. CASE /\ sessions[k].id # handle[m].id \/ m \notin sessions[k].members
           /\ handle' = [handle EXCEPT ![m] = Gone]
           /\ UNCHANGED data
  BY <1>1, <1>3, FinishNothingKeeps DEF LeavesNothing
<1>4. CASE /\ m \in sessions[k].members /\ sessions[k].members # {m}
           /\ sessions' = [sessions EXCEPT ![k].members = @ \ {m},
                                           ![k].completed = sessions[k].completed + handle[m].count]
           /\ handle' = [handle EXCEPT ![m] = Gone]
           /\ UNCHANGED devices
  <2> HIDE DEF k
  <2>1. k = handle[m].key  BY DEF k
  <2> QED BY <1>1, <1>2, <1>4, <2>1, FinishMemberKeeps DEF LeavesOthers
<1>5. CASE /\ sessions[k].members = {m}
           /\ sessions' = [sessions EXCEPT ![k] = NoSession]
           /\ devices' = [devices EXCEPT ![k[1]] =
                [connections |-> @.connections + 1, count |-> @.count + (sessions[k].completed + handle[m].count)]]
           /\ handle' = [handle EXCEPT ![m].at = "request"]
  <2> HIDE DEF k
  <2>1. k = handle[m].key  BY DEF k
  <2> QED BY <1>1, <1>2, <1>5, <2>1, FinishLastKeeps DEF LeavesLast
<1> QED BY <1>3, <1>4, <1>5, Zenon DEF finish_session
----------------------------------------------------------------------------
(* delete() drops sessions and totals of the devices and begins their next  *)
(* epoch.                                                                   *)
LEMMA DeleteKeeps ==
  ASSUME StoreInv, NEW a \in Admins, NEW gone \in SUBSET Devices, delete(a, gone)
  PROVE  StoreInv'
<1> USE DEF StoreInv
<1>0. /\ admin[a].at = "idle"
      /\ devices' = [d \in Devices |-> IF d \in gone THEN Zero ELSE devices[d]]
      /\ handle' = [m \in Members |->
           IF \E k \in Active : k[1] \in gone /\ m \in sessions[k].members
           THEN [handle[m] EXCEPT !.stopped = TRUE] ELSE handle[m]]
      /\ sessions' = [k \in Keys |-> IF k[1] \in gone THEN NoSession ELSE sessions[k]]
      /\ epoch' = [d \in Devices |-> IF d \in gone THEN epoch[d] + 1 ELSE epoch[d]]
      /\ total' = [d \in Devices |-> IF d \in gone THEN 0 ELSE total[d]]
      /\ opened' = [d \in Devices |-> IF d \in gone THEN 0 ELSE opened[d]]
      /\ admin' = [admin EXCEPT ![a] = [at |-> "request", devices |-> gone, epoch |-> epoch']]
      /\ UNCHANGED <<next_id, versions, persist, flush, task, file, acked, at_cancel>>
  BY DEF delete
<1>1. devices' \in [Devices -> Totals] /\ \A d \in Devices : devices'[d] = IF d \in gone THEN Zero ELSE devices[d]
  BY <1>0, NewValues DEF TypeOK
<1>2. sessions' \in [Keys -> SessionStates]
      /\ \A k \in Keys : sessions'[k] = IF k[1] \in gone THEN NoSession ELSE sessions[k]
  BY <1>0, NewValues DEF TypeOK
<1>3. /\ epoch' \in [Devices -> Nat] /\ total' \in [Devices -> Nat] /\ opened' \in [Devices -> Nat]
      /\ \A d \in Devices \ gone : epoch'[d] = epoch[d] /\ total'[d] = total[d] /\ opened'[d] = opened[d]
      /\ \A d \in gone : epoch'[d] = epoch[d] + 1 /\ total'[d] = 0 /\ opened'[d] = 0
  BY <1>0 DEF TypeOK
<1>4. \A m \in Members : [handle[m] EXCEPT !.stopped = TRUE] \in Handles
        /\ [handle[m] EXCEPT !.stopped = TRUE].at = handle[m].at
        /\ [handle[m] EXCEPT !.stopped = TRUE].key = handle[m].key
        /\ [handle[m] EXCEPT !.stopped = TRUE].id = handle[m].id
        /\ [handle[m] EXCEPT !.stopped = TRUE].count = handle[m].count
        /\ [handle[m] EXCEPT !.stopped = TRUE].stopped = TRUE
  <2>1. \A h \in Handles : [h EXCEPT !.stopped = TRUE] \in Handles
          /\ [h EXCEPT !.stopped = TRUE].at = h.at /\ [h EXCEPT !.stopped = TRUE].key = h.key
          /\ [h EXCEPT !.stopped = TRUE].id = h.id /\ [h EXCEPT !.stopped = TRUE].count = h.count
          /\ [h EXCEPT !.stopped = TRUE].stopped = TRUE
    BY DEF Handles
  <2>2. \A m \in Members : handle[m] \in Handles  BY DEF TypeOK
  <2> QED BY <2>1, <2>2, Zenon
<1>5. \A m \in Members : handle'[m] = IF \E k \in Active : k[1] \in gone /\ m \in sessions[k].members
                                      THEN [handle[m] EXCEPT !.stopped = TRUE] ELSE handle[m]
  BY <1>0
<1>6. handle' \in [Members -> Handles]
  <2>1. \A m \in Members : handle[m] \in Handles  BY DEF TypeOK
  <2>2. \A m \in Members : handle'[m] \in Handles  BY <2>1, <1>4, <1>5
  <2>3. handle' = [m \in Members |-> handle'[m]]  BY <1>0
  <2> QED BY <2>2, <2>3
<1>7. \A m \in Members : /\ handle'[m].at = handle[m].at /\ handle'[m].key = handle[m].key
                         /\ handle'[m].id = handle[m].id /\ handle'[m].count = handle[m].count
                         /\ ~handle'[m].stopped => ~handle[m].stopped /\
                              ~\E k \in Active : k[1] \in gone /\ m \in sessions[k].members
  BY <1>4, <1>5
<1>8. /\ admin' \in [Admins -> Deletions]
      /\ admin'[a].at = "request" /\ admin'[a].devices = gone /\ admin'[a].epoch = epoch'
      /\ \A b \in Admins \ {a} : admin'[b] = admin[b]
  <2> DEFINE order == [at |-> "request", devices |-> gone, epoch |-> epoch']
  <2>1. order \in Deletions /\ order.at = "request" /\ order.devices = gone /\ order.epoch = epoch'
    BY <1>3 DEF Deletions
  <2>2. admin' = [admin EXCEPT ![a] = order]  BY <1>0
  <2> HIDE DEF order
  <2> QED BY <2>1, <2>2 DEF TypeOK
<1>9. /\ UNCHANGED <<next_id, change_version, persisted_version, permit, persist, flush>>
      /\ UNCHANGED <<run, deadline, cancelled, file, acked, at_cancel>>
  BY <1>0 DEF versions, task
<1>10. TypeOK'  BY <1>1, <1>2, <1>3, <1>6, <1>8, <1>9 DEF TypeOK
<1>11. NoSession.id = 0 /\ NoSession.members = {}  BY DEF NoSession
<1>12. MemberInv'
  <2>1. \A k \in Keys : sessions[k].members \subseteq Members  BY DEF TypeOK, SessionStates
  <2>2. \A k \in Keys : sessions'[k] = NoSession \/ sessions'[k] = sessions[k]  BY <1>2
  <2>3. \A k \in Keys : /\ sessions'[k].members = {} <=> sessions'[k].id = 0
                        /\ sessions'[k].id = 0 => sessions'[k] = NoSession
    BY <2>2, <1>11 DEF MemberInv
  <2>4. \A k \in Keys : \A m \in sessions'[k].members :
          handle'[m].key = k /\ handle'[m].id = sessions'[k].id /\ handle'[m].at \in {"open", "finish"}
    BY <2>1, <2>2, <1>7, <1>11 DEF MemberInv
  <2>5. \A m \in Members : handle'[m].at \in {"open", "finish", "request"} => handle'[m].key \in Keys
    BY <1>7 DEF MemberInv
  <2>6. ASSUME NEW m \in Members, handle'[m].at = "open", ~handle'[m].stopped
        PROVE  m \in sessions'[handle'[m].key].members
    <3> DEFINE k == handle[m].key
    <3>1. handle'[m].key = k /\ k \in Keys /\ m \in sessions[k].members  BY <2>6, <1>7 DEF MemberInv
    <3>2. k \in Active  BY <3>1 DEF Active, MemberInv
    <3>3. k[1] \notin gone  BY <3>1, <3>2, <2>6, <1>7
    <3> HIDE DEF k
    <3> QED BY <3>1, <3>3, <1>2
  <2> QED BY <2>3, <2>4, <2>5, <2>6 DEF MemberInv
<1>13. LockInv' /\ ChangesArePending'  BY <1>9 DEF LockInv, ChangesArePending
<1>14. \A d \in Devices : epoch[d] \in Nat /\ epoch'[d] \in Nat /\ epoch[d] <= epoch'[d]
  BY <1>3 DEF TypeOK
<1>15. \A d \in Devices, e \in Nat : e <= epoch[d] => e <= epoch'[d] /\ (d \in gone => e # epoch'[d])
  BY <1>3, <1>14
<1>16. /\ \A d \in Devices : file.epoch[d] \in Nat /\ at_cancel.epoch[d] \in Nat
       /\ \A d \in Devices, p \in Flushers : Writing(p) => flush[p].image.epoch[d] \in Nat
  BY DEF TypeOK, Files, Moments, LockInv, Writing
<1>17. EpochInv'  BY <1>9, <1>15, <1>16 DEF EpochInv, Writing
<1>18. DeletionInv'
  <2>1. \A b \in Admins : admin'[b].at # "idle" => admin'[b].epoch \in [Devices -> Nat]
    BY <1>3, <1>8 DEF DeletionInv
  <2>2. ASSUME NEW b \in Admins, admin'[b].at # "idle", NEW d \in admin'[b].devices
        PROVE  admin'[b].epoch[d] <= epoch'[d]
    <3>1. CASE b = a
      <4>1. d \in Devices /\ admin'[b].epoch[d] = epoch'[d]  BY <1>8, <2>2, <3>1
      <4> QED BY <4>1, <1>14
    <3>2. CASE b # a
      <4>1. admin[b] \in Deletions /\ admin'[b] = admin[b] /\ admin[b].epoch \in [Devices -> Nat]
        BY <1>8, <2>2, <3>2 DEF TypeOK, DeletionInv
      <4>2. d \in Devices /\ admin[b].epoch[d] \in Nat /\ admin[b].epoch[d] <= epoch[d]
        BY <4>1, <2>2 DEF Deletions, DeletionInv
      <4> QED BY <4>1, <4>2, <1>15
    <3> QED BY <3>1, <3>2
  <2>3. \A b \in Admins : admin'[b].at = "flush" => b # a /\ admin'[b] = admin[b] /\ admin[b].at = "flush"
    BY <1>8
  <2>4. \A b \in Admins : admin'[b].at # "flush" => admin[b].at # "flush"  BY <1>0, <1>8
  <2> QED BY <1>9, <2>1, <2>2, <2>3, <2>4 DEF DeletionInv, Writing
<1>19. \A d \in Devices : Unpublished(d)' \/ (~Unpublished(d) /\ d \notin gone)
  <2>1. \A d \in gone : Unpublished(d)'  BY <1>8 DEF Unpublished
  <2>2. \A d \in Devices : Unpublished(d) => Unpublished(d)'  BY <1>0, <1>7, <1>8 DEF Unpublished
  <2> QED BY <2>1, <2>2
<1>20. \A d \in Devices \ gone : devices'[d] = devices[d]  BY <1>1
<1>21. VersionInv'  BY <1>3, <1>9, <1>19, <1>20 DEF VersionInv, Writing, Has
<1>22. SkipIsSafe'  BY <1>3, <1>9, <1>19, <1>20 DEF SkipIsSafe
<1>23. GrowthInv'
  <2>1. \A d \in Devices : file.epoch[d] <= epoch[d] /\
          \A p \in Flushers : Writing(p) => flush[p].image.epoch[d] <= epoch[d]
    BY DEF EpochInv
  <2>2. \A d \in gone : file.epoch[d] # epoch'[d] /\
          \A p \in Flushers : Writing(p) => flush[p].image.epoch[d] # epoch'[d]
    BY <2>1, <1>15, <1>16
  <2> QED BY <1>3, <1>9, <2>2 DEF GrowthInv, Writing
<1>24. CancelOK'  BY <1>9, <1>15, <1>16 DEF CancelOK
<1>25. QuietInv'
  <2>1. \A d \in gone : epoch'[d] # at_cancel.epoch[d]  BY <1>15, <1>16 DEF CancelOK
  <2> QED BY <1>3, <1>9, <1>20, <2>1 DEF QuietInv, Writing, Has
<1>26. CountedOnce'
  <2>1. Shape(sessions, handle) /\ Shape(sessions', handle')  BY <1>10, <1>12, ShapeHolds
  <2>2. SUFFICES ASSUME NEW d \in Devices
                 PROVE  UsageOf(devices', sessions', handle', d) = [connections |-> opened'[d], count |-> total'[d]]
    BY UsageIsUsageOf DEF CountedOnce
  <2>3. UsageOf(devices, sessions, handle, d) = [connections |-> opened[d], count |-> total[d]]
    BY UsageIsUsageOf DEF CountedOnce
  <2>4. CASE d \in gone
    <3>1. \A k \in Keys : k[1] = d => sessions'[k].id = 0  BY <2>4, <1>2, <1>11
    <3>2. UsageOf(devices', sessions', handle', d) = devices'[d]  BY <3>1, <1>1, UsageAtRest
    <3>3. devices'[d] = [connections |-> 0, count |-> 0]  BY <2>4, <1>1 DEF Zero
    <3> QED BY <2>4, <3>2, <3>3, <1>3
  <2>5. CASE d \notin gone
    <3>1. \A k \in Keys : k[1] = d =>
            sessions'[k] = sessions[k] /\ \A m \in sessions[k].members : handle'[m].count = handle[m].count
      <4>1. \A k \in Keys : sessions[k].members \subseteq Members  BY DEF TypeOK, SessionStates
      <4> QED BY <4>1, <2>5, <1>2, <1>7
    <3>2. devices'[d] = devices[d]  BY <2>5, <1>20
    <3>3. UsageOf(devices', sessions', handle', d) = UsageOf(devices, sessions, handle, d)
      BY <3>1, <3>2, <2>1, UsageStays
    <3> QED BY <3>3, <2>3, <2>5, <1>3
  <2> QED BY <2>4, <2>5
<1> QED BY <1>10, <1>12, <1>13, <1>17, <1>18, <1>21, <1>22, <1>23, <1>24, <1>25, <1>26

(* Steps that begin and end passes, and make no new image. *)
LEMMA NoNewImage ==
  ASSUME StoreInv, UNCHANGED <<devices, sessions, handle, file, total, opened, epoch>>,
         \A q \in Flushers : Writing(q)' => Writing(q) /\ flush'[q] = flush[q]
  PROVE  /\ MemberInv' /\ CountedOnce' /\ GrowthInv'
         /\ (acked' = acked => EpochInv')
<1>1. MemberInv'  BY DEF StoreInv, MemberInv
<1>2. CountedOnce'  BY CountStays DEF StoreInv
<1>3. GrowthInv'  BY DEF StoreInv, GrowthInv
<1>4. acked' = acked => EpochInv'  BY DEF StoreInv, EpochInv
<1> QED BY <1>1, <1>2, <1>3, <1>4

(* The increment of change_version after a deletion, and the beginning of   *)
(* its forced pass.                                                         *)
LEMMA DeleteRequestsKeeps ==
  ASSUME StoreInv, NEW a \in Admins, DeleteRequests(a)
  PROVE  StoreInv'
<1> DEFINE first == [NoFlush EXCEPT !.at = "lock", !.force = TRUE]
<1> USE DEF StoreInv
<1>0. /\ admin[a].at = "request"
      /\ change_version' = change_version + 1 /\ permit' = TRUE /\ persisted_version' = persisted_version
      /\ admin' = [admin EXCEPT ![a].at = "flush"]
      /\ flush' = [flush EXCEPT ![a] = first]
      /\ UNCHANGED <<data, handle, next_id, persist, task, file, budget, history>>
  BY DEF DeleteRequests, request_persistence
<1>1. first \in Passes /\ first.at = "lock" /\ first.force = TRUE /\ first.version = 0
  BY NewValues DEF NoFlush
<1> HIDE DEF first
<1>2. a \in Flushers /\ a # "run" /\ "run" \in Flushers  BY TheFlushers
<1>3. flush' \in [Flushers -> Passes] /\ flush'[a] = first /\ \A q \in Flushers \ {a} : flush'[q] = flush[q]
  BY <1>0, <1>1, <1>2 DEF TypeOK
<1>4. admin[a] \in Deletions /\ admin'[a] = [admin[a] EXCEPT !.at = "flush"]  BY <1>0 DEF TypeOK
<1>5. admin'[a] \in Deletions /\ admin'[a].at = "flush" /\ admin'[a].devices = admin[a].devices
      /\ admin'[a].epoch = admin[a].epoch
  BY <1>4 DEF Deletions
<1>6. admin' \in [Admins -> Deletions] /\ \A b \in Admins \ {a} : admin'[b] = admin[b]
  BY <1>0, <1>5 DEF TypeOK
<1>7. /\ UNCHANGED <<devices, sessions, handle, next_id, persist, run, deadline, cancelled>>
      /\ UNCHANGED <<file, total, opened, epoch, acked, at_cancel>>
  BY <1>0 DEF data, task, history
<1>8. change_version \in Nat /\ persisted_version \in Nat /\ persisted_version <= change_version
      /\ \A p \in Flushers : flush[p].version <= change_version /\ flush[p].version \in Nat
  BY DEF TypeOK, VersionInv, Passes
<1>9. TypeOK'  BY <1>0, <1>3, <1>6, <1>7, <1>8 DEF TypeOK
<1>10. MemberInv' /\ CountedOnce' /\ GrowthInv' /\ EpochInv'
  <2>1. \A q \in Flushers : Writing(q)' => Writing(q) /\ flush'[q] = flush[q]  BY <1>1, <1>3 DEF Writing
  <2> QED BY <2>1, <1>7, NoNewImage
<1>11. LockInv'  BY <1>1, <1>3, <1>7 DEF LockInv
<1>12. DeletionInv'
  <2>1. \A b \in Admins : b \in Flushers  BY TheFlushers
  <2> QED BY <2>1, <1>0, <1>1, <1>3, <1>5, <1>6, <1>7 DEF DeletionInv, Writing
<1>13. ChangesArePending'  BY <1>0 DEF ChangesArePending
<1>14. CancelOK'  BY <1>7 DEF CancelOK
<1>15. persisted_version' < change_version' /\ persisted_version' <= change_version'
       /\ \A p \in Flushers : flush'[p].version < change_version' /\ flush'[p].version <= change_version'
  BY <1>0, <1>1, <1>3, <1>8
<1>16. VersionInv'
  <2>1. \A p \in Flushers : flush'[p].version # change_version'  BY <1>9, <1>15 DEF TypeOK, Passes
  <2> QED BY <2>1, <1>0, <1>1, <1>3, <1>15 DEF VersionInv, Writing
<1>17. SkipIsSafe'  BY <1>9, <1>15 DEF SkipIsSafe, TypeOK
<1>18. QuietInv'
  <2>1. persisted_version' # change_version' /\ \A p \in Flushers : flush'[p].version # change_version'
    BY <1>9, <1>15 DEF TypeOK, Passes
  <2> QED BY <2>1, <1>2, <1>3, <1>7 DEF QuietInv, Writing, Has
<1> QED BY <1>9, <1>10, <1>11, <1>12, <1>13, <1>14, <1>16, <1>17, <1>18

(* A deletion is acknowledged when its pass succeeded. *)
LEMMA DeleteReturnsKeeps ==
  ASSUME StoreInv, NEW a \in Admins, DeleteReturns(a)
  PROVE  StoreInv'
<1> USE DEF StoreInv
<1>0. /\ admin[a].at = "flush" /\ flush[a].at \in {"ok", "failed"}
      /\ admin' = [admin EXCEPT ![a] = Idle]
      /\ flush' = [flush EXCEPT ![a] = NoFlush]
      /\ acked' = [d \in Devices |->
           IF flush[a].at = "ok" /\ d \in admin[a].devices THEN admin[a].epoch[d] ELSE acked[d]]
      /\ UNCHANGED <<devices, sessions, handle, next_id, change_version, persisted_version, permit>>
      /\ UNCHANGED <<persist, run, deadline, cancelled, file, total, opened, epoch, at_cancel>>
  BY DEF DeleteReturns, data, versions, task
<1>1. NoFlush.at = "none" /\ NoFlush.version = 0 /\ Idle.at = "idle"  BY DEF NoFlush, Idle
<1>2. a \in Flushers /\ a # "run" /\ "run" \in Flushers  BY TheFlushers
<1>3. flush' \in [Flushers -> Passes] /\ flush'[a] = NoFlush /\ \A q \in Flushers \ {a} : flush'[q] = flush[q]
  BY <1>0, <1>2, NewValues DEF TypeOK
<1>4. admin' \in [Admins -> Deletions] /\ admin'[a] = Idle /\ \A b \in Admins \ {a} : admin'[b] = admin[b]
  BY <1>0, NewValues DEF TypeOK
<1>5. admin[a].epoch \in [Devices -> Nat] /\
      (flush[a].at = "ok" => \A d \in admin[a].devices : file.epoch[d] >= admin[a].epoch[d])
  BY <1>0 DEF DeletionInv
<1>6. acked' \in [Devices -> Nat] /\ \A d \in Devices : acked'[d] <= file.epoch[d]
  <2>1. \A d \in Devices : acked[d] \in Nat /\ acked[d] <= file.epoch[d] /\ file.epoch[d] \in Nat
    BY DEF TypeOK, EpochInv, Files
  <2>2. \A d \in Devices : acked'[d] =
          IF flush[a].at = "ok" /\ d \in admin[a].devices THEN admin[a].epoch[d] ELSE acked[d]
    BY <1>0
  <2>3. \A d \in Devices : acked'[d] \in Nat /\ acked'[d] <= file.epoch[d]  BY <2>1, <2>2, <1>5
  <2>4. acked' = [d \in Devices |-> acked'[d]]  BY <1>0
  <2> QED BY <2>3, <2>4
<1>7. TypeOK'  BY <1>0, <1>3, <1>4, <1>6 DEF TypeOK
<1>8. \A q \in Flushers : Writing(q)' => Writing(q) /\ flush'[q] = flush[q]  BY <1>1, <1>3 DEF Writing
<1>9. MemberInv' /\ CountedOnce' /\ GrowthInv'  BY <1>0, <1>8, NoNewImage
<1>10. EpochInv'  BY <1>0, <1>6, <1>8 DEF EpochInv
<1>11. LockInv'  BY <1>0, <1>1, <1>3 DEF LockInv
<1>12. DeletionInv'
  <2>1. \A b \in Admins : b \in Flushers  BY TheFlushers
  <2> QED BY <2>1, <1>0, <1>1, <1>3, <1>4 DEF DeletionInv, Writing
<1>13. ChangesArePending'  BY <1>0, <1>2, <1>3 DEF ChangesArePending
<1>14. CancelOK'  BY <1>0 DEF CancelOK
<1>15. \A d \in Devices : Unpublished(d)' <=> Unpublished(d)  BY <1>0, <1>1, <1>4 DEF Unpublished
<1>16. VersionInv'
  <2>1. 0 <= change_version  BY DEF TypeOK
  <2> QED BY <2>1, <1>0, <1>1, <1>3, <1>8, <1>15 DEF VersionInv, Has, Writing
<1>17. SkipIsSafe'  BY <1>0, <1>15 DEF SkipIsSafe
<1>18. QuietInv'  BY <1>0, <1>1, <1>2, <1>3 DEF QuietInv, Writing, Has
<1> QED BY <1>7, <1>9, <1>10, <1>11, <1>12, <1>13, <1>14, <1>16, <1>17, <1>18
----------------------------------------------------------------------------
(* flush_inner takes the persist lock and notes the version, or returns     *)
(* because nothing is new.                                                  *)
LEMMA FlushLocksKeeps ==
  ASSUME StoreInv, NEW p \in Flushers, FlushLocks(p)
  PROVE  StoreInv'
<1> USE DEF StoreInv
<1>0. /\ flush[p].at = "lock" /\ persist = None
      /\ UNCHANGED <<devices, sessions, handle, next_id, change_version, persisted_version, permit>>
      /\ UNCHANGED <<run, deadline, cancelled, admin, file, total, opened, epoch, acked, at_cancel>>
  BY DEF FlushLocks, data, versions, task, history
<1>1. /\ flush[p] \in Passes /\ change_version \in Nat /\ persisted_version \in Nat
      /\ persisted_version <= change_version
  BY DEF TypeOK, VersionInv
<1>2. \A q \in Flushers : flush[q].at \notin {"read", "write"}
  BY <1>0, TheFlushers DEF LockInv
<1>3. CASE /\ flush[p].force \/ change_version > persisted_version
           /\ flush' = [flush EXCEPT ![p].at = "read", ![p].version = change_version]
           /\ persist' = p
  <2>1. flush'[p] = [flush[p] EXCEPT !.at = "read", !.version = change_version]  BY <1>3 DEF TypeOK
  <2>2. flush'[p] \in Passes /\ flush'[p].at = "read" /\ flush'[p].version = change_version
    BY <2>1, <1>1 DEF Passes
  <2>3. flush' \in [Flushers -> Passes] /\ \A q \in Flushers \ {p} : flush'[q] = flush[q]
    BY <2>2, <1>3 DEF TypeOK
  <2>4. \A q \in Flushers : ~Writing(q)'  BY <2>2, <2>3, <1>2 DEF Writing
  <2>5. TypeOK'  BY <2>3, <1>0, <1>3 DEF TypeOK
  <2>6. MemberInv' /\ CountedOnce' /\ GrowthInv' /\ EpochInv'  BY <2>4, <1>0, NoNewImage
  <2>7. LockInv'  BY <2>2, <2>3, <1>2, <1>3 DEF LockInv
  <2>8. DeletionInv'
    <3>1. \A b \in Admins : b \in Flushers  BY TheFlushers
    <3> QED BY <3>1, <2>2, <2>3, <2>4, <1>0 DEF DeletionInv, Writing
  <2>9. ChangesArePending'  BY <2>2, <2>3, <1>0, TheFlushers DEF ChangesArePending
  <2>10. CancelOK'  BY <1>0 DEF CancelOK
  <2>11. VersionInv'
    <3>1. \A q \in Flushers \ {p} : flush'[q].at \notin {"read", "write"} /\ flush'[q].version <= change_version
      BY <2>3, <1>2 DEF VersionInv
    <3>2. change_version <= change_version  BY <1>1
    <3> QED BY <3>1, <3>2, <2>2, <2>4, <1>0, <1>1 DEF VersionInv
  <2>12. \A d \in Devices : Unpublished(d)' <=> Unpublished(d)  BY <1>0 DEF Unpublished
  <2>13. SkipIsSafe'  BY <2>12, <1>0 DEF SkipIsSafe
  <2>14. flush'["run"].at # "ok" \/ flush'["run"] = flush["run"]  BY <2>2, <2>3, TheFlushers
  <2>15. QuietInv'  BY <2>4, <2>14, <1>0, TheFlushers DEF QuietInv, Has
  <2> QED BY <2>5, <2>6, <2>7, <2>8, <2>9, <2>10, <2>11, <2>13, <2>15
<1>4. CASE /\ ~(flush[p].force \/ change_version > persisted_version)
           /\ flush' = [flush EXCEPT ![p] = Flushed("ok")]
           /\ persist' = persist
  <2>1. Flushed("ok").at = "ok" /\ Flushed("ok").version = 0  BY DEF Flushed, NoFlush
  <2>2. flush' \in [Flushers -> Passes] /\ flush'[p] = Flushed("ok")
        /\ \A q \in Flushers \ {p} : flush'[q] = flush[q]
    BY <1>4, NewValues DEF TypeOK
  <2>3. persisted_version = change_version  BY <1>1, <1>4
  <2>4. \A q \in Flushers : flush'[q].at \notin {"read", "write"}  BY <2>1, <2>2, <1>2
  <2>5. \A q \in Flushers : ~Writing(q)'  BY <2>4 DEF Writing
  <2>6. TypeOK'  BY <2>2, <1>0, <1>4 DEF TypeOK
  <2>7. MemberInv' /\ CountedOnce' /\ GrowthInv' /\ EpochInv'  BY <2>5, <1>0, NoNewImage
  <2>8. LockInv'  BY <2>1, <2>2, <2>4 DEF LockInv
  <2>9. DeletionInv'
    <3>1. \A b \in Admins : b \in Flushers  BY TheFlushers
    <3>2. \A b \in Admins : admin[b].at = "flush" => b # p  BY <1>0, <1>4 DEF DeletionInv
    <3>3. \A b \in Admins : admin[b].at # "flush" => b # p  BY <1>0 DEF DeletionInv
    <3> QED BY <3>1, <3>2, <3>3, <2>2, <2>5, <1>0 DEF DeletionInv
  <2>10. ChangesArePending'  BY <2>3, <1>0, <1>1 DEF ChangesArePending
  <2>11. CancelOK'  BY <1>0 DEF CancelOK
  <2>12. VersionInv'
    <3>1. 0 <= change_version  BY <1>1
    <3> QED BY <3>1, <2>1, <2>2, <2>4, <2>5, <1>0, <1>1 DEF VersionInv
  <2>13. \A d \in Devices : Unpublished(d)' <=> Unpublished(d)  BY <1>0 DEF Unpublished
  <2>14. SkipIsSafe'  BY <2>13, <1>0 DEF SkipIsSafe
  <2>15. QuietInv'
    <3>1. \A d \in Devices : at_cancel.quiet /\ epoch[d] = at_cancel.epoch[d] => Has(file, d, at_cancel.total[d])
      BY <2>3 DEF QuietInv
    <3> QED BY <3>1, <2>5, <1>0, TheFlushers DEF QuietInv, Has
  <2> QED BY <2>6, <2>7, <2>8, <2>9, <2>10, <2>11, <2>12, <2>14, <2>15
<1> QED BY <1>3, <1>4 DEF FlushLocks

(* The usage of a device has its type and is the total. *)
LEMMA UsageIsTyped ==
  ASSUME TypeOK, CountedOnce, NEW d \in Devices
  PROVE  Usage(d) \in Totals /\ Usage(d).count = total[d] /\ Usage(d).connections = opened[d]
<1>1. Usage(d) = [connections |-> opened[d], count |-> total[d]]  BY DEF CountedOnce
<1>2. opened[d] \in Nat /\ total[d] \in Nat  BY DEF TypeOK
<1> QED BY <1>1, <1>2 DEF Totals

(* Every update of a completed session is part of the usage. *)
LEMMA UsageCovers ==
  ASSUME TypeOK, MemberInv, CountedOnce, NEW d \in Devices
  PROVE  devices[d].count <= total[d]
<1> DEFINE L == LiveOf(sessions, d)
           f == LoadsOf(sessions, handle)
           s == SumFunctionOnSet(f, L)
<1>1. Shape(sessions, handle)  BY ShapeHolds
<1>2. IsFiniteSet(L)  BY <1>1, LiveIsFinite
<1>3. \A k \in L : f[k] \in Nat  BY <1>1, CountersAreNatural DEF LiveOf, LoadsOf
<1> HIDE DEF L, f
<1>4. s \in Nat  BY <1>2, <1>3, SumIsNatural
<1> HIDE DEF s
<1>5. Usage(d).count = devices[d].count + s
  BY UsageIsUsageOf DEF UsageOf, s, f, L
<1>6. devices[d] \in Totals  BY DEF TypeOK
<1>7. devices[d].count \in Nat  BY <1>6 DEF Totals
<1> QED BY <1>4, <1>5, <1>7, UsageIsTyped

(* A pass reads the usage of every device: the image it takes is the        *)
(* present.                                                                 *)
LEMMA PersistReadsKeeps ==
  ASSUME StoreInv, NEW p \in Flushers, PersistReads(p)
  PROVE  StoreInv'
<1> USE DEF StoreInv
<1>0. /\ flush[p].at = "read"
      /\ flush' = [flush EXCEPT ![p].at = "write",
                               ![p].image = [usage |-> [d \in Devices |-> Usage(d)], epoch |-> epoch]]
      /\ UNCHANGED <<devices, sessions, handle, next_id, change_version, persisted_version, permit, persist>>
      /\ UNCHANGED <<run, deadline, cancelled, admin, file, total, opened, epoch, acked, at_cancel>>
  BY DEF PersistReads, data, versions, task, history
<1>1. PICK image \in Files :
        /\ flush' = [flush EXCEPT ![p].at = "write", ![p].image = image]
        /\ image.epoch = epoch
        /\ \A d \in Devices : image.usage[d].count = total[d] /\ image.usage[d].connections = opened[d]
  <2>1. \A d \in Devices : Usage(d) \in Totals /\ Usage(d).count = total[d] /\ Usage(d).connections = opened[d]
    BY UsageIsTyped
  <2> DEFINE u == [d \in Devices |-> Usage(d)]
  <2>2. u \in [Devices -> Totals] /\ \A d \in Devices : u[d].count = total[d] /\ u[d].connections = opened[d]
    BY <2>1
  <2>3. flush' = [flush EXCEPT ![p].at = "write", ![p].image = [usage |-> u, epoch |-> epoch]]  BY <1>0
  <2> HIDE DEF u
  <2> DEFINE r == [usage |-> u, epoch |-> epoch]
  <2>4. r \in Files /\ r.usage = u /\ r.epoch = epoch  BY <2>2 DEF TypeOK, Files
  <2> HIDE DEF r
  <2>5. flush' = [flush EXCEPT ![p].at = "write", ![p].image = r]  BY <2>3 DEF r
  <2> QED BY <2>2, <2>4, <2>5
<1>2. flush[p] \in Passes /\ flush'[p] = [flush[p] EXCEPT !.at = "write", !.image = image]  BY <1>1 DEF TypeOK
<1>3. flush'[p] \in Passes /\ flush'[p].at = "write" /\ flush'[p].image = image
      /\ flush'[p].version = flush[p].version
  BY <1>2 DEF Passes
<1>4. flush' \in [Flushers -> Passes] /\ \A q \in Flushers \ {p} : flush'[q] = flush[q]
  BY <1>1, <1>3 DEF TypeOK
<1>5. persist = p /\ \A q \in Flushers \ {p} : flush'[q].at \notin {"read", "write"}
  BY <1>0, <1>4 DEF LockInv
<1>6. \A q \in Flushers : Writing(q)' => q = p  BY <1>5 DEF Writing
<1>7. TypeOK'  BY <1>0, <1>4 DEF TypeOK
<1>8. MemberInv'  BY <1>0 DEF MemberInv
<1>9. CountedOnce'  BY <1>0, CountStays
<1>10. LockInv'  BY <1>0, <1>1, <1>3, <1>4, <1>5 DEF LockInv
<1>11. EpochInv'
  <2>1. \A d \in Devices : epoch[d] <= epoch[d]  BY DEF TypeOK
  <2> QED BY <2>1, <1>0, <1>1, <1>3, <1>6 DEF EpochInv
<1>12. DeletionInv'
  <2>1. \A b \in Admins : b \in Flushers  BY TheFlushers
  <2>2. \A b \in Admins : admin[b].at = "flush" => \A d \in admin[b].devices :
          d \in Devices /\ admin[b].epoch[d] \in Nat /\ epoch[d] \in Nat /\ admin[b].epoch[d] <= epoch[d]
    BY DEF DeletionInv, TypeOK, Deletions
  <2>3. \A b \in Admins : admin[b].at = "flush" => \A d \in admin[b].devices : epoch[d] >= admin[b].epoch[d]
    BY <2>2
  <2>4. \A b \in Admins : admin[b].at # "flush" => b # p  BY <1>0 DEF DeletionInv
  <2> QED BY <2>1, <2>3, <2>4, <1>0, <1>1, <1>3, <1>4, <1>6 DEF DeletionInv
<1>13. ChangesArePending'  BY <1>0, <1>3, <1>4, TheFlushers DEF ChangesArePending
<1>14. CancelOK'  BY <1>0 DEF CancelOK
<1>15. \A d \in Devices : image.usage[d].count >= devices[d].count
  <2>1. \A d \in Devices : devices[d].count \in Nat /\ total[d] \in Nat  BY DEF TypeOK, Totals
  <2> QED BY <2>1, <1>1, UsageCovers
<1>16. VersionInv'
  <2>1. \A d \in Devices : Has(image, d, devices[d].count)'
    BY <1>0, <1>1, <1>15 DEF Has
  <2> QED BY <2>1, <1>0, <1>3, <1>4, <1>5, <1>6 DEF VersionInv
<1>17. \A d \in Devices : Unpublished(d)' <=> Unpublished(d)  BY <1>0 DEF Unpublished
<1>18. SkipIsSafe'  BY <1>0, <1>17 DEF SkipIsSafe
<1>19. GrowthInv'
  <2>1. \A d \in Devices : total[d] <= total[d] /\ opened[d] <= opened[d]  BY DEF TypeOK
  <2> QED BY <2>1, <1>0, <1>1, <1>3, <1>6 DEF GrowthInv
<1>20. QuietInv'
  <2>1. ASSUME at_cancel.quiet, NEW d \in Devices, epoch[d] = at_cancel.epoch[d]
        PROVE  image.usage[d].count >= at_cancel.total[d]
    <3>1. devices[d].count >= at_cancel.total[d]  BY <2>1 DEF QuietInv
    <3>2. image.usage[d].count >= devices[d].count  BY <1>15
    <3>3. image.usage[d].count \in Nat /\ devices[d].count \in Nat /\ at_cancel.total[d] \in Nat
      BY <1>1 DEF Files, Totals, TypeOK, Moments
    <3> QED BY <3>1, <3>2, <3>3
  <2>2. flush'["run"].at = "ok" => flush["run"].at = "ok"  BY <1>3, <1>4, TheFlushers
  <2> QED BY <2>1, <2>2, <1>0, <1>1, <1>3, <1>6, TheFlushers DEF QuietInv, Has
<1> QED BY <1>7, <1>8, <1>9, <1>10, <1>11, <1>12, <1>13, <1>14, <1>16, <1>18, <1>19, <1>20

(* The end of a pass: what it wrote or failed to write is in the file. *)
LEMMA PassEnds ==
  ASSUME StoreInv, NEW p \in Flushers, NEW result \in {"ok", "failed"}, Writing(p),
         flush' = [flush EXCEPT ![p] = Flushed(result)], persist' = None
  PROVE  /\ flush' \in [Flushers -> Passes]
         /\ flush'[p].at = result /\ flush'[p].version = 0
         /\ \A q \in Flushers \ {p} : flush'[q] = flush[q]
         /\ \A q \in Flushers : flush'[q].at \notin {"read", "write"} /\ ~Writing(q)'
         /\ LockInv'
         /\ flush[p].image \in Files /\ persisted_version <= flush[p].version
         /\ flush[p].version <= change_version /\ flush[p].version \in Nat
<1> USE DEF StoreInv
<1>1. Flushed(result) \in Passes /\ Flushed(result).at = result /\ Flushed(result).version = 0
  BY NewValues DEF Flushed, NoFlush
<1>2. flush' \in [Flushers -> Passes] /\ flush'[p] = Flushed(result)
      /\ \A q \in Flushers \ {p} : flush'[q] = flush[q]
  BY <1>1 DEF TypeOK
<1>3. \A q \in Flushers \ {p} : flush[q].at \notin {"read", "write"}  BY DEF LockInv, Writing
<1>4. \A q \in Flushers : flush'[q].at \notin {"read", "write"} /\ ~Writing(q)'
  BY <1>1, <1>2, <1>3 DEF Writing
<1>5. LockInv'  BY <1>1, <1>2, <1>4 DEF LockInv
<1>6. flush[p].image \in Files /\ persisted_version <= flush[p].version
      /\ flush[p].version <= change_version /\ flush[p].version \in Nat
  BY DEF LockInv, VersionInv, Writing, TypeOK, Passes
<1> QED BY <1>1, <1>2, <1>4, <1>5, <1>6

(* What the file has when it is replaced by the image of a pass. *)
LEMMA ImageReplacesFile ==
  ASSUME StoreInv, NEW p \in Flushers, Writing(p), file' = flush[p].image,
         UNCHANGED <<devices, sessions, handle, total, opened, epoch, acked, admin, change_version>>,
         \A q \in Flushers : ~Writing(q)'
  PROVE  /\ file' \in Files /\ MemberInv' /\ CountedOnce' /\ EpochInv' /\ GrowthInv'
         /\ \A d \in Devices : file.epoch[d] <= file'.epoch[d]
         /\ \A d \in Devices, n \in Nat : Has(file, d, n) => Has(file, d, n)'
         /\ flush[p].version = change_version =>
              \A d \in Devices : Unpublished(d)' \/ Has(file, d, devices[d].count)'
<1> USE DEF StoreInv
<1>1. file \in Files /\ file' \in Files /\ epoch \in [Devices -> Nat] /\ acked \in [Devices -> Nat]
  BY DEF TypeOK, LockInv, Writing
<1>2. \A d \in Devices : /\ file.epoch[d] \in Nat /\ file'.epoch[d] \in Nat /\ epoch[d] \in Nat /\ acked[d] \in Nat
                         /\ file.usage[d].count \in Nat /\ file'.usage[d].count \in Nat
  BY <1>1 DEF Files, Totals
<1>3. \A d \in Devices : /\ acked[d] <= file.epoch[d] /\ file.epoch[d] <= file'.epoch[d]
                         /\ file'.epoch[d] <= epoch[d]
  BY DEF EpochInv
<1>4. MemberInv'  BY DEF MemberInv
<1>5. CountedOnce'  BY CountStays
<1>6. \A d \in Devices : acked[d] <= file'.epoch[d]  BY <1>2, <1>3
<1>7. EpochInv'  BY <1>3, <1>6 DEF EpochInv
<1>8. GrowthInv'  BY DEF GrowthInv
<1>9. ASSUME NEW d \in Devices, NEW n \in Nat, Has(file, d, n) PROVE Has(file, d, n)'
  <2>1. file.epoch[d] = epoch[d] /\ file.usage[d].count >= n  BY <1>9 DEF Has
  <2>2. file'.epoch[d] = epoch[d]  BY <2>1, <1>2, <1>3
  <2>3. file.usage[d].count <= file'.usage[d].count  BY <2>1, <2>2 DEF GrowthInv
  <2>4. file'.usage[d].count >= n  BY <2>1, <2>3, <1>2
  <2> QED BY <2>2, <2>4 DEF Has
<1>10. flush[p].version = change_version =>
         \A d \in Devices : Unpublished(d)' \/ Has(file, d, devices[d].count)'
  <2>1. \A d \in Devices : Unpublished(d)' <=> Unpublished(d)  BY DEF Unpublished
  <2> QED BY <2>1 DEF VersionInv, Has
<1> QED BY <1>1, <1>3, <1>4, <1>5, <1>7, <1>8, <1>9, <1>10

(* A pass replaces the file and publishes the version it noted. *)
LEMMA WriteKeeps ==
  ASSUME StoreInv, NEW p \in Flushers, write_state_atomically(p)
  PROVE  StoreInv'
<1> USE DEF StoreInv
<1>0. /\ Writing(p) /\ file' = flush[p].image
      /\ persisted_version' = Max({persisted_version, flush[p].version})
      /\ flush' = [flush EXCEPT ![p] = Flushed("ok")] /\ persist' = None
      /\ UNCHANGED <<devices, sessions, handle, next_id, change_version, permit>>
      /\ UNCHANGED <<run, deadline, cancelled, admin, total, opened, epoch, acked, at_cancel>>
  BY DEF write_state_atomically, Writing, data, task, history
<1>1. /\ flush' \in [Flushers -> Passes]
      /\ flush'[p].at = "ok" /\ flush'[p].version = 0
      /\ \A q \in Flushers \ {p} : flush'[q] = flush[q]
      /\ \A q \in Flushers : flush'[q].at \notin {"read", "write"} /\ ~Writing(q)'
      /\ LockInv'
      /\ flush[p].image \in Files /\ persisted_version <= flush[p].version
      /\ flush[p].version <= change_version /\ flush[p].version \in Nat
  BY <1>0, PassEnds
<1>2. /\ file' \in Files /\ MemberInv' /\ CountedOnce' /\ EpochInv' /\ GrowthInv'
      /\ \A d \in Devices : file.epoch[d] <= file'.epoch[d]
      /\ \A d \in Devices, n \in Nat : Has(file, d, n) => Has(file, d, n)'
      /\ flush[p].version = change_version =>
           \A d \in Devices : Unpublished(d)' \/ Has(file, d, devices[d].count)'
  BY <1>0, <1>1, ImageReplacesFile
<1>3. persisted_version \in Nat /\ change_version \in Nat  BY DEF TypeOK
<1>4. persisted_version' = flush[p].version
  <2>1. \A x, y \in Nat : x <= y => Max({x, y}) = y
    <3>1. SUFFICES ASSUME NEW x \in Nat, NEW y \in Nat, x <= y PROVE Max({x, y}) = y  OBVIOUS
    <3>2. \A z \in {x, y} : y >= z  BY <3>1
    <3>3. \A u \in {x, y} : (\A z \in {x, y} : u >= z) => u = y  BY <3>1
    <3> QED BY <3>2, <3>3 DEF Max
  <2> QED BY <2>1, <1>0, <1>1, <1>3
<1>5. TypeOK'  BY <1>0, <1>1, <1>2, <1>4 DEF TypeOK
<1>6. DeletionInv'
  <2>1. \A b \in Admins : b \in Flushers  BY TheFlushers
  <2>2. \A b \in Admins : admin[b].at = "flush" => \A d \in admin[b].devices :
          d \in Devices /\ admin[b].epoch[d] \in Nat
    BY DEF DeletionInv, TypeOK, Deletions
  <2>3. \A d \in Devices : file.epoch[d] \in Nat /\ file'.epoch[d] \in Nat /\ file.epoch[d] <= file'.epoch[d]
    BY <1>2 DEF TypeOK, Files
  <2>4. \A b \in Admins : admin[b].at = "flush" /\ flush'[b].at = "ok" =>
          \A d \in admin[b].devices : file'.epoch[d] >= admin[b].epoch[d]
    <3>1. SUFFICES ASSUME NEW b \in Admins, admin[b].at = "flush", flush'[b].at = "ok", NEW d \in admin[b].devices
                   PROVE  file'.epoch[d] >= admin[b].epoch[d]
      OBVIOUS
    <3>2. CASE b = p  BY <3>1, <3>2, <1>0 DEF DeletionInv
    <3>3. CASE b # p
      <4>1. file.epoch[d] >= admin[b].epoch[d]  BY <3>1, <3>3, <2>1, <1>1 DEF DeletionInv
      <4> QED BY <4>1, <3>1, <2>2, <2>3
    <3> QED BY <3>2, <3>3
  <2>5. \A b \in Admins : admin[b].at # "flush" => b # p  BY <1>0 DEF DeletionInv, Writing
  <2> QED BY <2>1, <2>4, <2>5, <1>0, <1>1 DEF DeletionInv
<1>7. ChangesArePending'
  <2>1. change_version > persisted_version' => change_version > persisted_version  BY <1>1, <1>3, <1>4
  <2>2. p = "run" => ~(flush[p].version = change_version /\ change_version > persisted_version')
    BY <1>1, <1>3, <1>4
  <2>3. p = "run" => flush[p].at \notin {"lock", "failed"}  BY <1>0 DEF Writing
  <2>4. p # "run" => flush'["run"] = flush["run"]  BY <1>1, TheFlushers
  <2> QED BY <2>1, <2>2, <2>3, <2>4, <1>0 DEF ChangesArePending
<1>8. CancelOK'  BY <1>0 DEF CancelOK
<1>9. VersionInv'
  <2>1. \A q \in Flushers : flush'[q].version <= change_version
    <3>1. 0 <= change_version  BY <1>3
    <3> QED BY <3>1, <1>1 DEF VersionInv
  <2> QED BY <2>1, <1>0, <1>1, <1>4 DEF VersionInv
<1>10. persisted_version' >= change_version => flush[p].version = change_version  BY <1>1, <1>3, <1>4
<1>11. SkipIsSafe'  BY <1>0, <1>2, <1>10 DEF SkipIsSafe, Has
<1>12. QuietInv'
  <2>1. SUFFICES ASSUME at_cancel.quiet, NEW d \in Devices, epoch[d] = at_cancel.epoch[d]
                 PROVE  LET n == at_cancel.total[d]
                        IN  /\ devices[d].count >= n
                            /\ persisted_version' = change_version => Has(file, d, n)'
                            /\ run \in {"final", "returned"} /\ flush'["run"].at = "ok" => Has(file, d, n)'
    BY <1>0, <1>1, TheFlushers DEF QuietInv
  <2> DEFINE n == at_cancel.total[d]
  <2>2. n \in Nat /\ devices[d].count >= n  BY <2>1 DEF QuietInv, TypeOK, Moments
  <2>3. persisted_version' = change_version => Has(file, d, n)'
    <3>1. flush[p].version = change_version => Has(flush[p].image, d, n)  BY <2>1, <1>0 DEF QuietInv
    <3> QED BY <3>1, <1>0, <1>4 DEF Has
  <2>4. run \in {"final", "returned"} /\ flush'["run"].at = "ok" => Has(file, d, n)'
    <3>1. CASE p = "run"
      <4>1. run \in {"final", "returned"} => Has(flush[p].image, d, n)  BY <2>1, <3>1, <1>0 DEF QuietInv
      <4> QED BY <4>1, <1>0 DEF Has
    <3>2. CASE p # "run"
      <4>1. flush'["run"] = flush["run"]  BY <3>2, <1>1, TheFlushers
      <4>2. run \in {"final", "returned"} /\ flush["run"].at = "ok" => Has(file, d, n)  BY <2>1 DEF QuietInv
      <4>3. Has(file, d, n) => file'.epoch[d] = epoch'[d] /\ file'.usage[d].count >= n
        BY <2>2, <1>2 DEF Has
      <4>4. Has(file, d, n)' <=> file'.epoch[d] = epoch'[d] /\ file'.usage[d].count >= n
        BY <1>0 DEF Has
      <4> QED BY <4>1, <4>2, <4>3, <4>4
    <3> QED BY <3>1, <3>2
  <2> QED BY <2>2, <2>3, <2>4
<1> QED BY <1>1, <1>2, <1>5, <1>6, <1>7, <1>8, <1>9, <1>11, <1>12

(* A pass fails, before or after it has replaced the file. *)
LEMMA WriteFailsKeeps ==
  ASSUME StoreInv, NEW p \in Flushers, WriteFails(p)
  PROVE  StoreInv'
<1> USE DEF StoreInv
<1>0. /\ Writing(p) /\ file' \in {file, flush[p].image}
      /\ flush' = [flush EXCEPT ![p] = Flushed("failed")] /\ persist' = None
      /\ UNCHANGED <<devices, sessions, handle, next_id, change_version, persisted_version, permit>>
      /\ UNCHANGED <<run, deadline, cancelled, admin, total, opened, epoch, acked, at_cancel>>
  BY DEF WriteFails, Writing, data, versions, task, history
<1>1. /\ flush' \in [Flushers -> Passes]
      /\ flush'[p].at = "failed" /\ flush'[p].version = 0
      /\ \A q \in Flushers \ {p} : flush'[q] = flush[q]
      /\ \A q \in Flushers : flush'[q].at \notin {"read", "write"} /\ ~Writing(q)'
      /\ LockInv'
      /\ flush[p].image \in Files /\ persisted_version <= flush[p].version
      /\ flush[p].version <= change_version /\ flush[p].version \in Nat
  BY <1>0, PassEnds
<1>2. \A d \in Devices : Unpublished(d)' <=> Unpublished(d)  BY <1>0 DEF Unpublished
<1>3. persisted_version \in Nat /\ change_version \in Nat  BY DEF TypeOK
<1>4. /\ file' \in Files /\ MemberInv' /\ CountedOnce' /\ EpochInv' /\ GrowthInv'
      /\ \A d \in Devices : file.epoch[d] <= file'.epoch[d]
      /\ \A d \in Devices, n \in Nat : Has(file, d, n) => Has(file, d, n)'
      /\ SkipIsSafe'
  <2>1. CASE file' = file
    <3>1. file \in Files  BY DEF TypeOK
    <3>2. \A d \in Devices : file.epoch[d] <= file.epoch[d]  BY <3>1 DEF Files
    <3>3. \A d \in Devices, n \in Nat : Has(file, d, n) => Has(file, d, n)'  BY <2>1, <1>0 DEF Has
    <3>4. SkipIsSafe'  BY <2>1, <1>0, <1>2 DEF SkipIsSafe
    <3> QED BY <2>1, <3>1, <3>2, <3>3, <3>4, <1>0, <1>1, NoNewImage
  <2>2. CASE file' = flush[p].image
    <3>1. /\ file' \in Files /\ MemberInv' /\ CountedOnce' /\ EpochInv' /\ GrowthInv'
          /\ \A d \in Devices : file.epoch[d] <= file'.epoch[d]
          /\ \A d \in Devices, n \in Nat : Has(file, d, n) => Has(file, d, n)'
          /\ flush[p].version = change_version =>
               \A d \in Devices : Unpublished(d)' \/ Has(file, d, devices[d].count)'
      BY <2>2, <1>0, <1>1, ImageReplacesFile
    <3>2. persisted_version >= change_version => flush[p].version = change_version  BY <1>1, <1>3
    <3>3. SkipIsSafe'  BY <3>1, <3>2, <1>0 DEF SkipIsSafe, Has
    <3> QED BY <3>1, <3>3
  <2> QED BY <2>1, <2>2, <1>0
<1>5. TypeOK'  BY <1>0, <1>1, <1>4 DEF TypeOK
<1>6. DeletionInv'
  <2>1. \A b \in Admins : b \in Flushers  BY TheFlushers
  <2>2. \A b \in Admins : admin[b].at = "flush" => \A d \in admin[b].devices :
          d \in Devices /\ admin[b].epoch[d] \in Nat
    BY DEF DeletionInv, TypeOK, Deletions
  <2>3. \A d \in Devices : file.epoch[d] \in Nat /\ file'.epoch[d] \in Nat /\ file.epoch[d] <= file'.epoch[d]
    BY <1>4 DEF TypeOK, Files
  <2>4. \A b \in Admins : admin[b].at = "flush" /\ flush'[b].at = "ok" =>
          \A d \in admin[b].devices : file'.epoch[d] >= admin[b].epoch[d]
    <3>1. SUFFICES ASSUME NEW b \in Admins, admin[b].at = "flush", flush'[b].at = "ok", NEW d \in admin[b].devices
                   PROVE  file'.epoch[d] >= admin[b].epoch[d]
      OBVIOUS
    <3>2. b # p  BY <3>1, <1>1
    <3>3. file.epoch[d] >= admin[b].epoch[d]  BY <3>1, <3>2, <2>1, <1>1 DEF DeletionInv
    <3> QED BY <3>1, <3>3, <2>2, <2>3
  <2>5. \A b \in Admins : admin[b].at # "flush" => b # p  BY <1>0 DEF DeletionInv, Writing
  <2> QED BY <2>1, <2>4, <2>5, <1>0, <1>1 DEF DeletionInv
<1>7. ChangesArePending'
  <2>1. p # "run" => flush'["run"] = flush["run"]  BY <1>1, TheFlushers
  <2> QED BY <2>1, <1>0, <1>1 DEF ChangesArePending
<1>8. CancelOK'  BY <1>0 DEF CancelOK
<1>9. VersionInv'
  <2>1. \A q \in Flushers : flush'[q].version <= change_version
    <3>1. 0 <= change_version  BY <1>3
    <3> QED BY <3>1, <1>1 DEF VersionInv
  <2> QED BY <2>1, <1>0, <1>1 DEF VersionInv
<1>10. QuietInv'
  <2>1. SUFFICES ASSUME at_cancel.quiet, NEW d \in Devices, epoch[d] = at_cancel.epoch[d],
                        NEW n \in Nat, n = at_cancel.total[d]
                 PROVE  /\ devices[d].count >= n
                        /\ persisted_version = change_version => Has(file, d, n)'
                        /\ run \in {"final", "returned"} /\ flush'["run"].at = "ok" => Has(file, d, n)'
    <3>1. \A d \in Devices : at_cancel.total[d] \in Nat  BY DEF TypeOK, Moments
    <3> QED BY <3>1, <1>0, <1>1, TheFlushers DEF QuietInv, Has
  <2>2. flush'["run"].at = "ok" => flush["run"].at = "ok"  BY <1>1, TheFlushers
  <2>3. /\ devices[d].count >= n
        /\ persisted_version = change_version => Has(file, d, n)
        /\ run \in {"final", "returned"} /\ flush["run"].at = "ok" => Has(file, d, n)
    BY <2>1 DEF QuietInv
  <2> QED BY <2>2, <2>3, <1>4
<1> QED BY <1>1, <1>4, <1>5, <1>6, <1>7, <1>8, <1>9, <1>10
----------------------------------------------------------------------------
(* run() takes the permit and sets its deadline. *)
LEMMA RunNotifiedKeeps ==
  ASSUME StoreInv, RunNotified
  PROVE  StoreInv'
<1> USE DEF StoreInv
<1>0. /\ deadline' = TRUE /\ permit' = FALSE
      /\ UNCHANGED <<devices, sessions, handle, next_id, change_version, persisted_version, persist, flush>>
      /\ UNCHANGED <<run, cancelled, admin, file, total, opened, epoch, acked, at_cancel>>
  BY DEF RunNotified, data, history
<1>1. TypeOK'  BY <1>0 DEF TypeOK
<1>2. MemberInv' /\ CountedOnce' /\ GrowthInv' /\ EpochInv'
  BY <1>0, NoNewImage DEF Writing
<1>3. LockInv' /\ DeletionInv' /\ ChangesArePending' /\ CancelOK'
  BY <1>0 DEF LockInv, DeletionInv, ChangesArePending, CancelOK, Writing
<1>4. \A d \in Devices : Unpublished(d)' <=> Unpublished(d)  BY <1>0 DEF Unpublished
<1>5. VersionInv'  BY <1>0, <1>4 DEF VersionInv, Writing, Has
<1>6. SkipIsSafe'  BY <1>0, <1>4 DEF SkipIsSafe
<1>7. QuietInv'  BY <1>0 DEF QuietInv, Writing, Has
<1> QED BY <1>1, <1>2, <1>3, <1>5, <1>6, <1>7

(* run() begins a pass. *)
LEMMA PassBegins ==
  ASSUME StoreInv, NEW at \in {"due", "tick", "final"}, NEW force \in BOOLEAN, Flushes(at, force),
         run = "select", at = "final" => cancelled, deadline' \in BOOLEAN,
         deadline' = deadline \/ at = "due",
         UNCHANGED <<devices, sessions, handle, next_id, change_version, persisted_version, permit, persist>>,
         UNCHANGED <<cancelled, admin, file, total, opened, epoch, acked, at_cancel>>
  PROVE  StoreInv'
<1> DEFINE first == [NoFlush EXCEPT !.at = "lock", !.force = force]
<1> USE DEF StoreInv
<1>0. run' = at /\ flush' = [flush EXCEPT !["run"] = first]  BY DEF Flushes
<1>1. first \in Passes /\ first.at = "lock" /\ first.version = 0  BY NewValues DEF NoFlush
<1> HIDE DEF first
<1>2. flush' \in [Flushers -> Passes] /\ flush'["run"] = first
      /\ \A q \in Flushers \ {"run"} : flush'[q] = flush[q]
  BY <1>0, <1>1, TheFlushers DEF TypeOK
<1>3. TypeOK'  BY <1>0, <1>2 DEF TypeOK
<1>4. \A q \in Flushers : Writing(q)' => Writing(q) /\ flush'[q] = flush[q]  BY <1>1, <1>2 DEF Writing
<1>5. MemberInv' /\ CountedOnce' /\ GrowthInv' /\ EpochInv'  BY <1>4, NoNewImage
<1>6. LockInv'  BY <1>1, <1>2 DEF LockInv
<1>7. DeletionInv'
  <2>1. \A b \in Admins : b \in Flushers \ {"run"}  BY TheFlushers
  <2> QED BY <2>1, <1>2 DEF DeletionInv, Writing
<1>8. ChangesArePending'  BY <1>0, <1>1, <1>2 DEF ChangesArePending
<1>9. CancelOK'  BY <1>0 DEF CancelOK
<1>10. \A d \in Devices : Unpublished(d)' <=> Unpublished(d)  BY DEF Unpublished
<1>11. VersionInv'
  <2>1. 0 <= change_version  BY DEF TypeOK
  <2> QED BY <2>1, <1>1, <1>2, <1>4, <1>10 DEF VersionInv, Has, Writing
<1>12. SkipIsSafe'  BY <1>10 DEF SkipIsSafe
<1>13. QuietInv'
  <2>1. ~Writing("run")' /\ flush'["run"].at # "ok"  BY <1>1, <1>2 DEF Writing
  <2>2. \A q \in Flushers : Writing(q)' /\ flush'[q].version = change_version =>
          Writing(q) /\ flush[q].version = change_version /\ flush'[q].image = flush[q].image
    BY <1>4
  <2> QED BY <2>1, <2>2 DEF QuietInv, Has
<1> QED BY <1>3, <1>5, <1>6, <1>7, <1>8, <1>9, <1>11, <1>12, <1>13

(* The three branches of run() that begin a pass. *)
LEMMA RunPassesKeep ==
  ASSUME StoreInv, RunDue \/ RunTick \/ RunCancelled
  PROVE  StoreInv'
<1>0. deadline \in BOOLEAN  BY DEF StoreInv, TypeOK
<1>1. CASE RunDue
  BY <1>0, <1>1, PassBegins DEF RunDue, data, versions, history
<1>2. CASE RunTick
  BY <1>0, <1>2, PassBegins DEF RunTick, data, versions, history
<1>3. CASE RunCancelled
  BY <1>0, <1>3, PassBegins DEF RunCancelled, data, versions, history
<1> QED BY <1>1, <1>2, <1>3

(* run() goes on after a pass: a failed one leaves the deadline. *)
LEMMA RunFlushedKeeps ==
  ASSUME StoreInv, RunFlushed
  PROVE  StoreInv'
<1> USE DEF StoreInv
<1>0. /\ flush["run"].at \in {"ok", "failed"} /\ run \in {"due", "tick", "final"}
      /\ run' = IF run = "final" THEN "returned" ELSE "select"
      /\ flush' = IF run = "final" THEN flush ELSE [flush EXCEPT !["run"] = NoFlush]
      /\ deadline' = (deadline \/ (run = "due" /\ flush["run"].at = "failed"))
      /\ UNCHANGED <<devices, sessions, handle, next_id, change_version, persisted_version, permit, persist>>
      /\ UNCHANGED <<cancelled, admin, file, total, opened, epoch, acked, at_cancel>>
  BY DEF RunFlushed, data, versions, history
<1>1. NoFlush.at = "none" /\ NoFlush.version = 0  BY DEF NoFlush
<1>2. /\ flush' \in [Flushers -> Passes]
      /\ \A q \in Flushers \ {"run"} : flush'[q] = flush[q]
      /\ flush'["run"] = IF run = "final" THEN flush["run"] ELSE NoFlush
  BY <1>0, NewValues, TheFlushers DEF TypeOK
<1>3. deadline' \in BOOLEAN /\ (deadline => deadline')
  <2>1. deadline \in BOOLEAN  BY DEF TypeOK
  <2> QED BY <2>1, <1>0, Zenon
<1>4. TypeOK'  BY <1>0, <1>2, <1>3 DEF TypeOK
<1>5. \A q \in Flushers : Writing(q)' => Writing(q) /\ flush'[q] = flush[q]
  BY <1>0, <1>1, <1>2 DEF Writing
<1>6. MemberInv' /\ CountedOnce' /\ GrowthInv' /\ EpochInv'  BY <1>0, <1>5, NoNewImage
<1>7. LockInv'  BY <1>0, <1>1, <1>2 DEF LockInv
<1>8. DeletionInv'
  <2>1. \A b \in Admins : b \in Flushers \ {"run"}  BY TheFlushers
  <2> QED BY <2>1, <1>0, <1>2 DEF DeletionInv, Writing
<1>9. ChangesArePending'
  <2>1. flush["run"].version = 0  BY <1>0, TheFlushers DEF LockInv
  <2>2. change_version > persisted_version => change_version # 0  BY DEF TypeOK
  <2>3. run = "due" /\ flush["run"].at = "failed" => deadline'  BY <1>0
  <2> QED BY <2>1, <2>2, <2>3, <1>0, <1>3 DEF ChangesArePending
<1>10. CancelOK'  BY <1>0 DEF CancelOK
<1>11. \A d \in Devices : Unpublished(d)' <=> Unpublished(d)  BY <1>0 DEF Unpublished
<1>12. VersionInv'
  <2>1. 0 <= change_version  BY DEF TypeOK
  <2>2. \A q \in Flushers : flush'[q] = flush[q] \/ flush'[q] = NoFlush  BY <1>2
  <2> QED BY <2>1, <2>2, <1>0, <1>1, <1>5, <1>11 DEF VersionInv, Has
<1>13. SkipIsSafe'  BY <1>0, <1>11 DEF SkipIsSafe
<1>14. QuietInv'
  <2>1. run' \in {"final", "returned"} => run = "final" /\ flush'["run"] = flush["run"]  BY <1>0, <1>2
  <2> QED BY <2>1, <1>0, <1>5, TheFlushers DEF QuietInv, Has
<1> QED BY <1>4, <1>6, <1>7, <1>8, <1>9, <1>10, <1>12, <1>13, <1>14
----------------------------------------------------------------------------
(* The cancellation records the totals; with no handler at work they are    *)
(* completed and published.                                                 *)
LEMMA CancelKeeps ==
  ASSUME StoreInv, Cancel
  PROVE  StoreInv'
<1> DEFINE quiet == /\ \A m \in Members : handle[m].at \in {"none", "gone"}
                    /\ \A a \in Admins : admin[a].at = "idle"
<1> USE DEF StoreInv
<1>0. /\ ~cancelled /\ cancelled' = TRUE
      /\ at_cancel' = [quiet |-> quiet, total |-> total, epoch |-> epoch]
      /\ UNCHANGED <<devices, sessions, handle, next_id, change_version, persisted_version, permit>>
      /\ UNCHANGED <<persist, flush, run, deadline, admin, file, total, opened, epoch, acked>>
  BY DEF Cancel, data, versions
<1>1. PICK still \in BOOLEAN : still = quiet  OBVIOUS
<1> HIDE DEF quiet
<1>2. at_cancel' = [quiet |-> still, total |-> total, epoch |-> epoch]  BY <1>0, <1>1
<1>3. at_cancel' \in Moments /\ at_cancel'.quiet = still /\ at_cancel'.total = total /\ at_cancel'.epoch = epoch
  BY <1>2 DEF Moments, TypeOK
<1>4. TypeOK'  BY <1>0, <1>3 DEF TypeOK
<1>5. MemberInv' /\ CountedOnce' /\ GrowthInv' /\ EpochInv'  BY <1>0, NoNewImage DEF Writing
<1>6. LockInv' /\ DeletionInv'  BY <1>0 DEF LockInv, DeletionInv, Writing
<1>7. ChangesArePending'  BY <1>0 DEF ChangesArePending
<1>8. CancelOK'
  <2>1. \A d \in Devices : epoch[d] <= epoch[d]  BY DEF TypeOK
  <2> QED BY <2>1, <1>0, <1>3 DEF CancelOK
<1>9. \A d \in Devices : Unpublished(d)' <=> Unpublished(d)  BY <1>0 DEF Unpublished
<1>10. VersionInv'  BY <1>0, <1>9 DEF VersionInv, Writing, Has
<1>11. SkipIsSafe'  BY <1>0, <1>9 DEF SkipIsSafe
<1>12. QuietInv'
  <2>1. SUFFICES ASSUME still, NEW d \in Devices
                 PROVE  /\ devices[d].count >= total[d]
                        /\ persisted_version = change_version => Has(file, d, total[d])
                        /\ \A p \in Flushers : Writing(p) /\ flush[p].version = change_version =>
                             Has(flush[p].image, d, total[d])
                        /\ run \notin {"final", "returned"}
    BY <1>0, <1>3 DEF QuietInv, Writing, Has
  <2>2. \A m \in Members : handle[m].at \in {"none", "gone"}  BY <2>1, <1>1 DEF quiet
  <2>3. \A a \in Admins : admin[a].at = "idle"  BY <2>1, <1>1 DEF quiet
  <2>4. ~Unpublished(d)  BY <2>2, <2>3 DEF Unpublished
  <2>5. \A k \in Keys : sessions[k].id = 0
    <3>1. \A k \in Keys : sessions[k].members = {}
      <4>1. \A k \in Keys : sessions[k].members \subseteq Members  BY DEF TypeOK, SessionStates
      <4> QED BY <4>1, <2>2 DEF MemberInv
    <3> QED BY <3>1 DEF MemberInv
  <2>6. devices \in [Devices -> Totals]  BY DEF TypeOK
  <2>7. Usage(d) = devices[d]  BY <2>5, <2>6, UsageAtRest, UsageIsUsageOf
  <2>8. devices[d].count = total[d]  BY <2>7, UsageIsTyped
  <2>9. total[d] \in Nat /\ persisted_version \in Nat /\ change_version \in Nat  BY DEF TypeOK
  <2>10. persisted_version = change_version => Has(file, d, total[d])
    BY <2>4, <2>8, <2>9 DEF SkipIsSafe, Has
  <2>11. \A p \in Flushers : Writing(p) /\ flush[p].version = change_version => Has(flush[p].image, d, total[d])
    BY <2>4, <2>8 DEF VersionInv
  <2>12. run \notin {"final", "returned"}  BY <1>0 DEF CancelOK
  <2> QED BY <2>8, <2>9, <2>10, <2>11, <2>12
<1> QED BY <1>4, <1>5, <1>6, <1>7, <1>8, <1>10, <1>11, <1>12

(* A store that was just opened has what the file has. *)
Opened ==
  /\ devices = file.usage
  /\ sessions = [k \in Keys |-> NoSession]
  /\ handle = [m \in Members |-> NoHandle]
  /\ next_id = 0 /\ change_version = 0 /\ persisted_version = 0 /\ permit = FALSE
  /\ persist = None
  /\ flush = [p \in Flushers |-> NoFlush]
  /\ run = "select" /\ deadline = FALSE /\ cancelled = FALSE
  /\ admin = [a \in Admins |-> Idle]
  /\ file \in Files
  /\ total = [d \in Devices |-> file.usage[d].count]
  /\ opened = [d \in Devices |-> file.usage[d].connections]
  /\ epoch = file.epoch
  /\ acked \in [Devices -> Nat] /\ \A d \in Devices : acked[d] <= file.epoch[d]
  /\ at_cancel = [quiet |-> FALSE, total |-> [d \in Devices |-> 0], epoch |-> epoch]

(* A store just opened satisfies the invariant. *)
LEMMA OpenedIsSound ==
  ASSUME Opened
  PROVE  StoreInv
<1> USE DEF Opened
<1>1. /\ file.usage \in [Devices -> Totals] /\ file.epoch \in [Devices -> Nat]
      /\ \A d \in Devices : file.usage[d].count \in Nat /\ file.usage[d].connections \in Nat
                            /\ file.epoch[d] \in Nat
  BY DEF Files, Totals
<1>2. at_cancel \in Moments /\ at_cancel.quiet = FALSE /\ at_cancel.epoch = file.epoch
  BY <1>1 DEF Moments
<1>3. TypeOK
  <2>1. total \in [Devices -> Nat] /\ opened \in [Devices -> Nat]  BY <1>1
  <2>2. run \in {"select", "due", "tick", "final", "returned"} /\ persist \in Flushers \cup {None}  OBVIOUS
  <2>3. sessions \in [Keys -> SessionStates] /\ handle \in [Members -> Handles]  BY NewValues
  <2>4. flush \in [Flushers -> Passes] /\ admin \in [Admins -> Deletions]  BY NewValues
  <2> QED BY <1>1, <1>2, <2>1, <2>2, <2>3, <2>4 DEF TypeOK
<1>4. \A p \in Flushers : flush[p].at = "none" /\ flush[p].version = 0  BY DEF NoFlush
<1>5. \A p \in Flushers : ~Writing(p)  BY <1>4 DEF Writing
<1>6. \A k \in Keys : sessions[k] = NoSession /\ sessions[k].id = 0 /\ sessions[k].members = {}  BY DEF NoSession
<1>7. \A m \in Members : handle[m].at = "none"  BY DEF NoHandle
<1>8. \A a \in Admins : admin[a].at = "idle"  BY DEF Idle
<1>9. MemberInv  BY <1>6, <1>7 DEF MemberInv
<1>10. LockInv  BY <1>4 DEF LockInv
<1>11. EpochInv /\ GrowthInv
  <2>1. \A d \in Devices : file.epoch[d] <= file.epoch[d] /\ file.usage[d].count <= total[d]
                           /\ file.usage[d].connections <= opened[d]
    BY <1>1
  <2> QED BY <2>1, <1>5 DEF EpochInv, GrowthInv
<1>12. DeletionInv
  <2>1. \A a \in Admins : a \in Flushers  BY TheFlushers
  <2> QED BY <2>1, <1>4, <1>8 DEF DeletionInv
<1>13. VersionInv  BY <1>4, <1>5 DEF VersionInv
<1>14. CountedOnce
  <2>1. SUFFICES ASSUME NEW d \in Devices PROVE Usage(d) = [connections |-> opened[d], count |-> total[d]]
    BY DEF CountedOnce
  <2>2. Usage(d) = devices[d]  BY <1>1, <1>6, UsageAtRest, UsageIsUsageOf
  <2>3. devices[d] \in Totals /\ opened[d] = devices[d].connections /\ total[d] = devices[d].count  BY <1>1
  <2> QED BY <2>2, <2>3 DEF Totals
<1>15. SkipIsSafe
  <2>1. \A d \in Devices : file.usage[d].count >= devices[d].count  BY <1>1
  <2> QED BY <2>1 DEF SkipIsSafe
<1>16. ChangesArePending  BY DEF ChangesArePending
<1>17. CancelOK
  <2>1. \A d \in Devices : file.epoch[d] <= file.epoch[d]  BY <1>1
  <2> QED BY <2>1, <1>2 DEF CancelOK
<1>18. QuietInv  BY <1>2 DEF QuietInv
<1> QED BY <1>3, <1>9, <1>10, <1>11, <1>12, <1>13, <1>14, <1>15, <1>16, <1>17, <1>18 DEF StoreInv

(* The first start opens a file. *)
LEMMA InitIsOpened ==
  ASSUME Init
  PROVE  Opened
<1>1. Zero \in Totals /\ Zero.count = 0 /\ Zero.connections = 0  BY DEF Zero, Totals
<1> DEFINE u == [d \in Devices |-> Zero]
           e == [d \in Devices |-> 0]
<1>2. u \in [Devices -> Totals] /\ e \in [Devices -> Nat]  BY <1>1
<1>3. file = [usage |-> u, epoch |-> e]  BY DEF Init
<1>4. u = [d \in Devices |-> Zero] /\ e = [d \in Devices |-> 0]  OBVIOUS
<1> HIDE DEF u, e
<1>5. file \in Files /\ file.usage = u /\ file.epoch = e  BY <1>2, <1>3 DEF Files
<1>6. \A d \in Devices : file.usage[d].count = 0 /\ file.usage[d].connections = 0 /\ file.epoch[d] = 0
  BY <1>1, <1>4, <1>5
<1>7. total = [d \in Devices |-> file.usage[d].count] /\ opened = [d \in Devices |-> file.usage[d].connections]
  BY <1>6 DEF Init
<1>8. epoch = e /\ devices = u /\ acked = e  BY <1>4 DEF Init
<1>9. acked \in [Devices -> Nat] /\ \A d \in Devices : acked[d] <= file.epoch[d]
  BY <1>2, <1>4, <1>5, <1>8
<1>10. at_cancel = [quiet |-> FALSE, total |-> [d \in Devices |-> 0], epoch |-> epoch]
  BY <1>4, <1>8 DEF Init
<1> QED BY <1>5, <1>7, <1>8, <1>9, <1>10 DEF Init, Opened

(* A crash loses the memory, and the next process opens the file that is    *)
(* there.                                                                   *)
LEMMA RestartKeeps ==
  ASSUME StoreInv, Restart
  PROVE  StoreInv'
<1>1. Opened'
  <2>1. file \in Files /\ acked \in [Devices -> Nat] /\ \A d \in Devices : acked[d] <= file.epoch[d]
    BY DEF StoreInv, TypeOK, EpochInv
  <2> QED BY <2>1 DEF Restart, Opened
<1>2. Opened => StoreInv  BY OpenedIsSound
<1>3. (Opened => StoreInv)'  BY OpenedIsSound, PTL
<1> QED BY <1>1, <1>3
----------------------------------------------------------------------------
(* A step that changes nothing preserves the invariant. *)
LEMMA StutterKeeps ==
  ASSUME StoreInv, UNCHANGED vars
  PROVE  StoreInv'
<1> USE DEF StoreInv
<1>0. /\ UNCHANGED <<devices, sessions, handle, next_id, change_version, persisted_version, permit, persist, flush>>
      /\ UNCHANGED <<run, deadline, cancelled, admin, file, total, opened, epoch, acked, at_cancel>>
  BY DEF vars, data, versions, task, history
<1>1. TypeOK'  BY <1>0 DEF TypeOK
<1>2. MemberInv' /\ CountedOnce' /\ GrowthInv' /\ EpochInv'  BY <1>0, NoNewImage DEF Writing
<1>3. LockInv' /\ DeletionInv' /\ ChangesArePending' /\ CancelOK'
  BY <1>0 DEF LockInv, DeletionInv, ChangesArePending, CancelOK, Writing
<1>4. \A d \in Devices : Unpublished(d)' <=> Unpublished(d)  BY <1>0 DEF Unpublished
<1>5. VersionInv'  BY <1>0, <1>4 DEF VersionInv, Writing, Has
<1>6. SkipIsSafe'  BY <1>0, <1>4 DEF SkipIsSafe
<1>7. QuietInv'  BY <1>0 DEF QuietInv, Writing, Has
<1> QED BY <1>1, <1>2, <1>3, <1>5, <1>6, <1>7

(* Every step preserves the invariant. *)
LEMMA NextKeeps ==
  ASSUME StoreInv, [Next]_vars
  PROVE  StoreInv'
<1>1. ASSUME NEW m \in Members, (\E k \in Keys : begin(m, k)) \/ add(m) \/ close(m) \/ Closing(m)
      PROVE  StoreInv'
  BY <1>1, BeginKeeps, AddKeeps, CloseKeeps, FinishSessionKeeps, FinishRequestsKeeps DEF Closing
<1>2. ASSUME NEW a \in Admins, Deleting(a) PROVE StoreInv'
  BY <1>2, DeleteRequestsKeeps, DeleteReturnsKeeps DEF Deleting
<1>3. ASSUME NEW a \in Admins, NEW gone \in {{d} : d \in Devices} \cup {Devices}, delete(a, gone)
      PROVE  StoreInv'
  <2>1. gone \in SUBSET Devices  OBVIOUS
  <2> QED BY <1>3, <2>1, DeleteKeeps
<1>4. ASSUME NEW p \in Flushers, Flushing(p) PROVE StoreInv'
  BY <1>4, FlushLocksKeeps, PersistReadsKeeps, WriteKeeps, WriteFailsKeeps DEF Flushing
<1>5. ASSUME Running PROVE StoreInv'
  BY <1>5, RunNotifiedKeeps, RunPassesKeep, RunFlushedKeeps DEF Running
<1> QED BY <1>1, <1>2, <1>3, <1>4, <1>5, CancelKeeps, RestartKeeps, StutterKeeps DEF Next

(* The inductive invariant of the usage store. *)
THEOREM StoreInvariant == Spec => []StoreInv
<1>1. Init => StoreInv  BY InitIsOpened, OpenedIsSound
<1>2. StoreInv /\ [Next]_vars => StoreInv'  BY NextKeeps
<1> QED BY <1>1, <1>2, PTL DEF Spec

(* Usage is counted exactly once and stays deleted, for any number of       *)
(* devices, lanes, tasks that flush, failures and crashes.                  *)
THEOREM UsageStaysExact == Spec => []UsageIsExact
<1>1. StoreInv => UsageIsExact
  <2>1. SUFFICES ASSUME StoreInv PROVE UsageIsExact  OBVIOUS
  <2>2. DeletedStaysDeleted
    <3>1. \A d \in Devices : acked[d] \in Nat /\ file.epoch[d] \in Nat /\ epoch[d] \in Nat
      BY <2>1 DEF StoreInv, TypeOK, Files
    <3>2. \A d \in Devices : acked[d] <= file.epoch[d] /\ file.epoch[d] <= epoch[d]
      BY <2>1 DEF StoreInv, EpochInv
    <3> QED BY <3>1, <3>2 DEF DeletedStaysDeleted
  <2> QED BY <2>1, <2>2 DEF StoreInv, UsageIsExact, StoreIsSound
<1> QED BY <1>1, StoreInvariant, PTL

(* What was published reaches the file: nothing is stranded while run() is  *)
(* alive, and its last pass has all that was counted when the handlers were *)
(* done.                                                                    *)
THEOREM UsageStaysSaved == Spec => []UsageIsSaved
<1>1. StoreInv => UsageIsSaved
  BY DEF StoreInv, UsageIsSaved, QuietShutdownSaves, QuietInv, Has
<1> QED BY <1>1, StoreInvariant, PTL

(* The file is only replaced by a picture that has at least what it had.    *)
THEOREM FileNeverRollsBack == Spec => NoRollback
<1> DEFINE Grows == \A d \in Devices : file'.epoch[d] = file.epoch[d] =>
                      /\ file'.usage[d].count >= file.usage[d].count
                      /\ file'.usage[d].connections >= file.usage[d].connections
<1>1. StoreInv /\ StoreInv' /\ [Next]_vars => Grows
  <2>1. SUFFICES ASSUME StoreInv, StoreInv', [Next]_vars PROVE Grows  OBVIOUS
  <2>2. \A d \in Devices : /\ file.usage[d].count \in Nat /\ file'.usage[d].count \in Nat
                           /\ file.usage[d].connections \in Nat /\ file'.usage[d].connections \in Nat
    BY <2>1 DEF StoreInv, TypeOK, Files, Totals
  <2>3. CASE file' = file  BY <2>2, <2>3
  <2>4. CASE \E p \in Flushers : Writing(p) /\ file' = flush[p].image
    <3>1. PICK p \in Flushers : Writing(p) /\ file' = flush[p].image  BY <2>4
    <3>2. \A d \in Devices : file'.epoch[d] = file.epoch[d] =>
            /\ file.usage[d].count <= file'.usage[d].count
            /\ file.usage[d].connections <= file'.usage[d].connections
      BY <2>1, <3>1 DEF StoreInv, GrowthInv
    <3> QED BY <2>2, <3>2
  <2>5. file' = file \/ \E p \in Flushers : Writing(p) /\ file' = flush[p].image
    <3>1. ASSUME NEW m \in Members, (\E k \in Keys : begin(m, k)) \/ add(m) \/ close(m) \/ Closing(m)
          PROVE  file' = file
      BY <3>1, Zenon DEF begin, add, close, Closing, finish_session, FinishRequests
    <3>2. ASSUME NEW a \in Admins, Deleting(a) \/ \E gone \in {{d} : d \in Devices} \cup {Devices} : delete(a, gone)
          PROVE  file' = file
      BY <3>2, Zenon DEF Deleting, delete, DeleteRequests, DeleteReturns
    <3>3. ASSUME NEW p \in Flushers, Flushing(p)
          PROVE  file' = file \/ (Writing(p) /\ file' = flush[p].image)
      BY <3>3, Zenon DEF Flushing, FlushLocks, PersistReads, write_state_atomically, WriteFails, Writing
    <3>4. ASSUME Running \/ Cancel \/ Restart PROVE file' = file
      BY <3>4, Zenon DEF Running, RunNotified, RunDue, RunTick, RunCancelled, RunFlushed, Cancel, Restart
    <3>5. ASSUME UNCHANGED vars PROVE file' = file  BY <3>5 DEF vars
    <3> QED BY <2>1, <3>1, <3>2, <3>3, <3>4, <3>5 DEF Next
  <2> QED BY <2>3, <2>4, <2>5
<1>2. StoreInv /\ StoreInv' /\ [Next]_vars => [Grows]_vars  BY <1>1
<1> HIDE DEF Grows
<1>3. Spec => [][Grows]_vars  BY <1>2, StoreInvariant, PTL DEF Spec
<1> QED BY <1>3 DEF NoRollback, Grows
=============================================================================
