----------------------------- MODULE FiniteSums -----------------------------
(*****************************************************************************)
(* What the sum over a finite set is.  The library defines it by a recursive *)
(* function on the subsets of the set, which takes some element first.  The  *)
(* facts are proved by a smallest counterexample: if a claim fails for some  *)
(* subset it fails for one that contains no other, it holds for what is left *)
(* of that one when an element is taken out, and hence for it too.  And what *)
(* the k-th place of a finite set of numbers is.                             *)
(*****************************************************************************)
EXTENDS Integers, FiniteSets, FiniteSetsExt, Functions, FiniteSetTheorems, WellFoundedInduction, TLAPS

(* The element that a fold takes first. *)
Pick(s) == CHOOSE x \in s : TRUE

(* g adds up f on every subset of S, in the order in which Pick names. *)
AddsUp(g, f, S) ==
  g = [s \in SUBSET S |-> IF s = {} THEN 0 ELSE f[Pick(s)] + g[s \ {Pick(s)}]]

(* The function that the fold is defined by: that there is one has to be    *)
(* proved.                                                                  *)
Adder(f, S) == CHOOSE g : AddsUp(g, f, S)

(* The library's sum is the value of that function. *)
LEMMA SumIsAdder ==
  ASSUME NEW f, NEW S
  PROVE  SumFunctionOnSet(f, S) = Adder(f, S)[S]
BY DEF SumFunctionOnSet, FoldFunctionOnSet, MapThenFoldSet, Adder, AddsUp, Pick

(* Pick names an element. *)
LEMMA PickIsMember ==
  ASSUME NEW s, s # {}
  PROVE  Pick(s) \in s
BY DEF Pick

(* Some set of a family of subsets of a finite set contains no other. *)
LEMMA SmallestSet ==
  ASSUME NEW S, IsFiniteSet(S), NEW T, T \subseteq SUBSET S, T # {}
  PROVE  \E u \in T : \A v \in T : v \subseteq u => v = u
<1>1. IsWellFoundedOn(StrictSubsetOrdering(S), SUBSET S)
  BY FS_StrictSubsetOrderingWellFounded, FS_FiniteSubsetsOfFinite
<1>2. PICK u \in T : \A v \in T : <<v, u>> \notin StrictSubsetOrdering(S)
  <2> HIDE DEF StrictSubsetOrdering, IsWellFoundedOn
  <2> QED BY <1>1, WFMin
<1>3. ASSUME NEW v \in T, v \subseteq u PROVE v = u
  <2>1. <<v, u>> \in (SUBSET S) \X (SUBSET S)  OBVIOUS
  <2> QED BY <1>2, <1>3, <2>1 DEF StrictSubsetOrdering
<1> QED BY <1>3

(* The two cases of an adder's definition. *)
LEMMA AdderValue ==
  ASSUME NEW g, NEW f, NEW S, AddsUp(g, f, S), NEW s, s \subseteq S
  PROVE  /\ s = {} => g[s] = 0
         /\ s # {} => g[s] = f[Pick(s)] + g[s \ {Pick(s)}]
<1>1. s \in SUBSET S  OBVIOUS
<1> QED BY <1>1 DEF AddsUp

(* Two adders of the same function agree wherever both are defined: they    *)
(* cannot differ first on a smallest set.                                   *)
LEMMA AddersAgree ==
  ASSUME NEW f, NEW S, NEW T, NEW g, NEW h, AddsUp(g, f, S), AddsUp(h, f, T),
         NEW U, U \subseteq S, U \subseteq T, IsFiniteSet(U)
  PROVE  g[U] = h[U]
<1> DEFINE Bad == {u \in SUBSET U : g[u] # h[u]}
<1>1. SUFFICES ASSUME g[U] # h[U] PROVE FALSE  OBVIOUS
<1>2. U \in Bad  BY <1>1
<1>3. PICK u \in Bad : \A v \in Bad : v \subseteq u => v = u
  <2>1. Bad \subseteq SUBSET U /\ Bad # {}  BY <1>2
  <2> HIDE DEF Bad
  <2> QED BY <2>1, SmallestSet
<1>4. u \subseteq S /\ u \subseteq T /\ u \subseteq U /\ g[u] # h[u]  BY <1>3
<1>5. u # {}  BY <1>4, AdderValue
<1>6. Pick(u) \in u  BY <1>5, PickIsMember
<1>7. g[u \ {Pick(u)}] = h[u \ {Pick(u)}]
  <2>1. u \ {Pick(u)} \subseteq u /\ u \ {Pick(u)} # u  BY <1>6
  <2>2. u \ {Pick(u)} \notin Bad  BY <2>1, <1>3
  <2> QED BY <2>2, <2>1, <1>4
<1>8. g[u] = f[Pick(u)] + g[u \ {Pick(u)}]  BY <1>4, <1>5, AdderValue
<1>9. h[u] = f[Pick(u)] + h[u \ {Pick(u)}]  BY <1>4, <1>5, AdderValue
<1> QED BY <1>4, <1>7, <1>8, <1>9

(* There is an adder for every finite set: on a smallest set without one,   *)
(* the adders of its subsets give one.                                      *)
LEMMA AdderAdds ==
  ASSUME NEW f, NEW S, IsFiniteSet(S)
  PROVE  AddsUp(Adder(f, S), f, S)
<1> DEFINE Bad == {u \in SUBSET S : ~ AddsUp(Adder(f, u), f, u)}
<1>0. ASSUME NEW U, NEW g, AddsUp(g, f, U) PROVE AddsUp(Adder(f, U), f, U)
  BY <1>0 DEF Adder
<1>1. SUFFICES ASSUME S \in Bad PROVE FALSE  OBVIOUS
<1>3. PICK u \in Bad : \A v \in Bad : v \subseteq u => v = u
  <2>1. Bad \subseteq SUBSET S /\ Bad # {}  BY <1>1
  <2> HIDE DEF Bad
  <2> QED BY <2>1, SmallestSet
<1>4. u \subseteq S /\ ~ AddsUp(Adder(f, u), f, u)  BY <1>3
<1> HIDE DEF Bad
<1> DEFINE sum(v) == Adder(f, v)[v]
           g == [s \in SUBSET u |-> IF s = {} THEN 0 ELSE f[Pick(s)] + sum(s \ {Pick(s)})]
<1>5. ASSUME NEW v, v \subseteq u, v # u PROVE AddsUp(Adder(f, v), f, v) /\ IsFiniteSet(v)
  <2>1. v \in SUBSET S  BY <1>4, <1>5
  <2>2. IsFiniteSet(v)  BY <2>1, FS_Subset
  <2> QED BY <1>3, <1>5, <2>1, <2>2 DEF Bad
<1>6. ASSUME NEW s \in SUBSET u, s # {}
      PROVE  g[s \ {Pick(s)}] = sum(s \ {Pick(s)})
  <2> DEFINE v == s \ {Pick(s)}
  <2>1. v \subseteq u /\ v # u  BY <1>6, PickIsMember
  <2>2. AddsUp(Adder(f, v), f, v) /\ IsFiniteSet(v)  BY <2>1, <1>5
  <2> HIDE DEF v
  <2>3. CASE v = {}
    <3>1. g[v] = 0  BY <2>1, <2>3
    <3>2. sum(v) = 0  BY <2>2, <2>3, AdderValue
    <3> QED BY <3>1, <3>2 DEF v
  <2>4. CASE v # {}
    <3> DEFINE w == v \ {Pick(v)}
    <3>1. g[v] = f[Pick(v)] + sum(w)  BY <2>1, <2>4
    <3>2. sum(v) = f[Pick(v)] + Adder(f, v)[w]
      BY <2>2, <2>4, AdderValue
    <3>3. w \subseteq v /\ w \subseteq u /\ w # u  BY <2>1, <2>4, PickIsMember
    <3>4. AddsUp(Adder(f, w), f, w) /\ IsFiniteSet(w)  BY <3>3, <1>5
    <3>5. Adder(f, v)[w] = Adder(f, w)[w]
      <4> HIDE DEF w
      <4> QED BY <2>2, <3>3, <3>4, AddersAgree
    <3> QED BY <3>1, <3>2, <3>5 DEF v
  <2> QED BY <2>3, <2>4
<1>7. AddsUp(g, f, u)
  <2> DEFINE h == [s \in SUBSET u |-> IF s = {} THEN 0 ELSE f[Pick(s)] + g[s \ {Pick(s)}]]
  <2>1. ASSUME NEW s \in SUBSET u PROVE g[s] = h[s]
    <3>1. CASE s = {}  BY <3>1
    <3>2. CASE s # {}
      <4>1. g[s] = f[Pick(s)] + sum(s \ {Pick(s)})  BY <3>2
      <4>2. g[s \ {Pick(s)}] = sum(s \ {Pick(s)})  BY <3>2, <1>6
      <4> HIDE DEF sum, g
      <4>3. h[s] = f[Pick(s)] + g[s \ {Pick(s)}]  BY <3>2
      <4> QED BY <4>1, <4>2, <4>3
    <3> QED BY <3>1, <3>2
  <2>2. g = h
    <3>1. DOMAIN g = SUBSET u /\ DOMAIN h = SUBSET u  OBVIOUS
    <3>2. g = [s \in SUBSET u |-> g[s]]  OBVIOUS
    <3>3. h = [s \in SUBSET u |-> h[s]]  OBVIOUS
    <3> HIDE DEF g, h
    <3> QED BY <3>2, <3>3, <2>1
  <2> HIDE DEF g
  <2> QED BY <2>2 DEF AddsUp
<1> QED BY <1>7, <1>0, <1>4

(* The sum over no element is 0. *)
LEMMA SumOfNone ==
  ASSUME NEW f
  PROVE  SumFunctionOnSet(f, {}) = 0
BY SumIsAdder, AdderAdds, AdderValue, FS_EmptySet

(* The sum takes the picked element out. *)
LEMMA SumPicks ==
  ASSUME NEW f, NEW S, IsFiniteSet(S), S # {}
  PROVE  SumFunctionOnSet(f, S) = f[Pick(S)] + SumFunctionOnSet(f, S \ {Pick(S)})
<1> DEFINE T == S \ {Pick(S)}
<1>1. IsFiniteSet(T) /\ T \subseteq S  BY FS_Subset
<1>2. AddsUp(Adder(f, S), f, S) /\ AddsUp(Adder(f, T), f, T)  BY <1>1, AdderAdds
<1> HIDE DEF T
<1>3. Adder(f, S)[T] = Adder(f, T)[T]  BY <1>1, <1>2, AddersAgree
<1>4. Adder(f, S)[S] = f[Pick(S)] + Adder(f, S)[T]  BY <1>2, AdderValue DEF T
<1> QED BY <1>3, <1>4, SumIsAdder DEF T

(* A sum of naturals is one. *)
LEMMA SumIsNatural ==
  ASSUME NEW f, NEW S, IsFiniteSet(S), \A x \in S : f[x] \in Nat
  PROVE  SumFunctionOnSet(f, S) \in Nat
<1> DEFINE sum(u) == SumFunctionOnSet(f, u)
           Bad == {u \in SUBSET S : sum(u) \notin Nat}
<1>0. \A u : IsFiniteSet(u) /\ u # {} => sum(u) = f[Pick(u)] + sum(u \ {Pick(u)})  BY SumPicks
<1>a. sum({}) \in Nat  BY SumOfNone
<1> HIDE DEF sum
<1>1. SUFFICES ASSUME S \in Bad PROVE FALSE  BY DEF sum
<1>2. PICK u \in Bad : \A v \in Bad : v \subseteq u => v = u
  <2>1. Bad \subseteq SUBSET S /\ Bad # {}  BY <1>1
  <2> HIDE DEF Bad
  <2> QED BY <2>1, SmallestSet
<1>3. u \subseteq S /\ IsFiniteSet(u) /\ u # {}
  <2>1. u \in SUBSET S  BY <1>2
  <2>2. u # {}  BY <1>2, <1>a
  <2> HIDE DEF Bad
  <2> QED BY <2>1, <2>2, FS_Subset
<1>4. Pick(u) \in u  BY <1>3, PickIsMember
<1>5. sum(u \ {Pick(u)}) \in Nat  BY <1>2, <1>3, <1>4
<1>6. f[Pick(u)] \in Nat  BY <1>3, <1>4
<1>7. sum(u) = f[Pick(u)] + sum(u \ {Pick(u)})  BY <1>0, <1>3
<1>8. sum(u) \in Nat  BY <1>5, <1>6, <1>7
<1> QED BY <1>8, <1>2

(* Any element may be added last. *)
LEMMA SumTakesOut ==
  ASSUME NEW f, NEW S, IsFiniteSet(S), \A x \in S : f[x] \in Nat, NEW x \in S
  PROVE  SumFunctionOnSet(f, S) = f[x] + SumFunctionOnSet(f, S \ {x})
<1> DEFINE sum(u) == SumFunctionOnSet(f, u)
           Bad == {u \in SUBSET S : \E y \in u : sum(u) # f[y] + sum(u \ {y})}
<1>0. \A u : IsFiniteSet(u) /\ u # {} => sum(u) = f[Pick(u)] + sum(u \ {Pick(u)})  BY SumPicks
<1>a. \A u : u \subseteq S => sum(u) \in Nat
  <2>1. SUFFICES ASSUME NEW u, u \subseteq S PROVE sum(u) \in Nat  OBVIOUS
  <2>2. IsFiniteSet(u)  BY <2>1, FS_Subset
  <2> QED BY <2>1, <2>2, SumIsNatural
<1> HIDE DEF sum
<1>1. SUFFICES ASSUME S \in Bad PROVE FALSE  BY DEF sum
<1>2. PICK u \in Bad : \A v \in Bad : v \subseteq u => v = u
  <2>1. Bad \subseteq SUBSET S /\ Bad # {}  BY <1>1
  <2> HIDE DEF Bad
  <2> QED BY <2>1, SmallestSet
<1>3. PICK y \in u : sum(u) # f[y] + sum(u \ {y})  BY <1>2
<1>4. u \subseteq S /\ IsFiniteSet(u) /\ u # {}  BY <1>2, <1>3, FS_Subset
<1>5. \A v \in SUBSET u : v # u => \A z \in v : sum(v) = f[z] + sum(v \ {z})  BY <1>2, <1>4
<1> DEFINE p == Pick(u)
<1>6. p \in u /\ sum(u) = f[p] + sum(u \ {p})  BY <1>4, <1>0, PickIsMember
<1> HIDE DEF p, Bad
<1>7. p # y  BY <1>3, <1>6
<1>8. sum(u \ {p}) = f[y] + sum((u \ {p}) \ {y})
  <2>1. u \ {p} \in SUBSET u /\ u \ {p} # u /\ y \in u \ {p}  BY <1>6, <1>7
  <2> QED BY <2>1, <1>5
<1>9. sum(u \ {y}) = f[p] + sum((u \ {y}) \ {p})
  <2>1. u \ {y} \in SUBSET u /\ u \ {y} # u /\ p \in u \ {y}  BY <1>6, <1>7
  <2> QED BY <2>1, <1>5
<1>10. (u \ {y}) \ {p} = (u \ {p}) \ {y}  OBVIOUS
<1>11. f[p] \in Nat /\ f[y] \in Nat /\ sum((u \ {p}) \ {y}) \in Nat  BY <1>4, <1>6, <1>a
<1> QED BY <1>3, <1>6, <1>8, <1>9, <1>10, <1>11

(* The sum depends on the values in the set only. *)
LEMMA SumOfSame ==
  ASSUME NEW f, NEW g, NEW S, IsFiniteSet(S), \A x \in S : f[x] = g[x]
  PROVE  SumFunctionOnSet(f, S) = SumFunctionOnSet(g, S)
<1> DEFINE sum(u) == SumFunctionOnSet(f, u)
           other(u) == SumFunctionOnSet(g, u)
           Bad == {u \in SUBSET S : sum(u) # other(u)}
<1>0. \A u : IsFiniteSet(u) /\ u # {} => /\ sum(u) = f[Pick(u)] + sum(u \ {Pick(u)})
                                         /\ other(u) = g[Pick(u)] + other(u \ {Pick(u)})
  BY SumPicks
<1>a. sum({}) = other({})  BY SumOfNone
<1> HIDE DEF sum, other
<1>1. SUFFICES ASSUME S \in Bad PROVE FALSE  BY DEF sum, other
<1>2. PICK u \in Bad : \A v \in Bad : v \subseteq u => v = u
  <2>1. Bad \subseteq SUBSET S /\ Bad # {}  BY <1>1
  <2> HIDE DEF Bad
  <2> QED BY <2>1, SmallestSet
<1>3. u \subseteq S /\ IsFiniteSet(u) /\ u # {}
  <2>1. u \in SUBSET S /\ u # {}  BY <1>2, <1>a
  <2> HIDE DEF Bad
  <2> QED BY <2>1, FS_Subset
<1>4. Pick(u) \in u  BY <1>3, PickIsMember
<1>5. sum(u \ {Pick(u)}) = other(u \ {Pick(u)})  BY <1>2, <1>3, <1>4
<1>6. f[Pick(u)] = g[Pick(u)]  BY <1>3, <1>4
<1>7. sum(u) = other(u)  BY <1>0, <1>3, <1>5, <1>6
<1> QED BY <1>7, <1>2

(* What the change of one value does to the sum. *)
LEMMA SumChanges ==
  ASSUME NEW f, NEW g, NEW S, IsFiniteSet(S), NEW x \in S,
         \A y \in S : f[y] \in Nat /\ g[y] \in Nat, \A y \in S \ {x} : f[y] = g[y]
  PROVE  SumFunctionOnSet(g, S) + f[x] = SumFunctionOnSet(f, S) + g[x]
<1>1. IsFiniteSet(S \ {x})  BY FS_RemoveElement
<1>2. SumFunctionOnSet(f, S \ {x}) = SumFunctionOnSet(g, S \ {x})  BY <1>1, SumOfSame
<1>3. SumFunctionOnSet(f, S \ {x}) \in Nat  BY <1>1, SumIsNatural
<1>4. SumFunctionOnSet(f, S) = f[x] + SumFunctionOnSet(f, S \ {x})  BY SumTakesOut
<1>5. SumFunctionOnSet(g, S) = g[x] + SumFunctionOnSet(g, S \ {x})  BY SumTakesOut
<1> QED BY <1>2, <1>3, <1>4, <1>5
----------------------------------------------------------------------------

(* A sum of zeros is zero. *)
LEMMA SumOfZeros ==
  ASSUME NEW f, NEW S, IsFiniteSet(S), \A x \in S : f[x] = 0
  PROVE  SumFunctionOnSet(f, S) = 0
<1> DEFINE sum(u) == SumFunctionOnSet(f, u)
           Bad == {u \in SUBSET S : sum(u) # 0}
<1>0. \A u : IsFiniteSet(u) /\ u # {} => sum(u) = f[Pick(u)] + sum(u \ {Pick(u)})  BY SumPicks
<1>a. sum({}) = 0  BY SumOfNone
<1> HIDE DEF sum
<1>1. SUFFICES ASSUME S \in Bad PROVE FALSE  BY DEF sum
<1>2. PICK u \in Bad : \A v \in Bad : v \subseteq u => v = u
  <2>1. Bad \subseteq SUBSET S /\ Bad # {}  BY <1>1
  <2> HIDE DEF Bad
  <2> QED BY <2>1, SmallestSet
<1>3. u \subseteq S /\ sum(u) # 0 /\ u # {}  BY <1>2, <1>a
<1>4. IsFiniteSet(u) /\ Pick(u) \in u  BY <1>3, FS_Subset, PickIsMember
<1>5. u \ {Pick(u)} \notin Bad  BY <1>2, <1>4
<1>6. sum(u \ {Pick(u)}) = 0  BY <1>3, <1>5
<1> QED BY <1>0, <1>3, <1>4, <1>6

(* A sum of naturals over a part of a set is no more than the sum over it.  *)
LEMMA SumGrows ==
  ASSUME NEW f, NEW S, IsFiniteSet(S), \A x \in S : f[x] \in Nat, NEW T \in SUBSET S
  PROVE  SumFunctionOnSet(f, T) <= SumFunctionOnSet(f, S)
<1> DEFINE Bad == {u \in SUBSET S : T \subseteq u /\ ~(SumFunctionOnSet(f, T) <= SumFunctionOnSet(f, u))}
<1>1. SUFFICES ASSUME ~(SumFunctionOnSet(f, T) <= SumFunctionOnSet(f, S)) PROVE FALSE  OBVIOUS
<1>2. PICK u \in Bad : \A v \in Bad : v \subseteq u => v = u
  <2>1. Bad \subseteq SUBSET S /\ S \in Bad  BY <1>1
  <2> HIDE DEF Bad
  <2> QED BY <2>1, SmallestSet
<1>3. u \subseteq S /\ T \subseteq u /\ ~(SumFunctionOnSet(f, T) <= SumFunctionOnSet(f, u))  BY <1>2
<1>4. IsFiniteSet(u) /\ IsFiniteSet(T)  BY <1>3, FS_Subset
<1>5. SumFunctionOnSet(f, T) \in Nat  BY <1>4, SumIsNatural
<1>6. PICK x \in u : x \notin T  BY <1>3, <1>5
<1>7. u \ {x} \notin Bad  BY <1>2, <1>6
<1>8. SumFunctionOnSet(f, T) <= SumFunctionOnSet(f, u \ {x})  BY <1>3, <1>6, <1>7
<1>9. SumFunctionOnSet(f, u) = f[x] + SumFunctionOnSet(f, u \ {x})  BY <1>3, <1>4, <1>6, SumTakesOut
<1>10. f[x] \in Nat /\ SumFunctionOnSet(f, u \ {x}) \in Nat
  <2>1. IsFiniteSet(u \ {x})  BY <1>4, FS_Subset
  <2> QED BY <1>3, <2>1, SumIsNatural
<1> QED BY <1>3, <1>5, <1>8, <1>9, <1>10

(* Different places of a set, taken under other names, add up to no more    *)
(* than the whole set.                                                      *)
LEMMA SumOfPlaces ==
  ASSUME NEW S, IsFiniteSet(S), NEW T, IsFiniteSet(T), NEW f, \A y \in T : f[y] \in Nat,
         NEW place \in [S -> T], \A x, y \in S : place[x] = place[y] => x = y,
         NEW g, \A x \in S : g[x] = f[place[x]]
  PROVE  SumFunctionOnSet(g, S) <= SumFunctionOnSet(f, T)
<1> DEFINE Places(u) == {place[x] : x \in u}
           Bad == {u \in SUBSET S : SumFunctionOnSet(g, u) # SumFunctionOnSet(f, Places(u))}
<1>1. ASSUME SumFunctionOnSet(g, S) # SumFunctionOnSet(f, Places(S)) PROVE FALSE
  <2>1. PICK u \in Bad : \A v \in Bad : v \subseteq u => v = u
    <3>1. Bad \subseteq SUBSET S /\ S \in Bad  BY <1>1
    <3> HIDE DEF Bad
    <3> QED BY <3>1, SmallestSet
  <2>2. u \subseteq S /\ SumFunctionOnSet(g, u) # SumFunctionOnSet(f, Places(u))  BY <2>1
  <2>3. u # {}
    <3>1. Places({}) = {}  OBVIOUS
    <3> HIDE DEF Places
    <3> QED BY <2>2, <3>1, SumOfNone
  <2>4. PICK x \in u : TRUE  BY <2>3
  <2>5. Places(u \ {x}) = Places(u) \ {place[x]}  BY <2>2
  <2>6. IsFiniteSet(u) /\ IsFiniteSet(Places(u)) /\ Places(u) \subseteq T /\ place[x] \in Places(u)
    <3>1. Places(u) \subseteq T /\ place[x] \in Places(u)  BY <2>2
    <3> HIDE DEF Places
    <3> QED BY <3>1, <2>2, FS_Subset
  <2>7. SumFunctionOnSet(g, u) = g[x] + SumFunctionOnSet(g, u \ {x})
    <3>1. \A y \in u : g[y] \in Nat  BY <2>2
    <3> QED BY <3>1, <2>6, SumTakesOut
  <2>8. SumFunctionOnSet(f, Places(u)) = f[place[x]] + SumFunctionOnSet(f, Places(u) \ {place[x]})
    <3> HIDE DEF Places
    <3>1. \A y \in Places(u) : f[y] \in Nat  BY <2>6
    <3> QED BY <3>1, <2>6, SumTakesOut
  <2>9. SumFunctionOnSet(g, u \ {x}) = SumFunctionOnSet(f, Places(u \ {x}))
    <3>1. u \ {x} \notin Bad  BY <2>1
    <3>2. u \ {x} \in SUBSET S  BY <2>2
    <3> HIDE DEF Places
    <3> QED BY <3>1, <3>2
  <2> HIDE DEF Places, Bad
  <2> QED BY <2>2, <2>5, <2>7, <2>8, <2>9
<1>2. Places(S) \in SUBSET T  OBVIOUS
<1> HIDE DEF Places
<1> QED BY <1>1, <1>2, SumGrows

(* A set of naturals has a least element, which Min finds.                  *)
LEMMA LeastNatural ==
  ASSUME NEW S \in SUBSET Nat, S # {}
  PROVE  Min(S) \in S /\ \A n \in S : Min(S) <= n
<1>1. PICK most \in S : TRUE  OBVIOUS
<1> DEFINE Below == {1 .. n : n \in {k \in S : k <= most}}
<1>2. PICK u \in Below : \A v \in Below : v \subseteq u => v = u
  <2> DEFINE All == 1 .. most
  <2>1. Below \subseteq SUBSET All  BY <1>1
  <2>2. Below # {}  BY <1>1
  <2>3. IsFiniteSet(All)  BY <1>1, FS_Interval
  <2> HIDE DEF Below, All
  <2> QED BY <2>1, <2>2, <2>3, SmallestSet
<1>3. PICK n \in S : n <= most /\ u = 1 .. n  BY <1>2
<1>4. ASSUME NEW m \in S, m < n PROVE FALSE
  <2>1. m \in Nat /\ n \in Nat /\ most \in Nat  BY <1>1, <1>3, <1>4
  <2>2. 1 .. m \in Below  BY <2>1, <1>3, <1>4
  <2>3. 1 .. m \subseteq u  BY <2>1, <1>3, <1>4
  <2>4. 1 .. m = 1 .. n  BY <1>2, <1>3, <2>2, <2>3
  <2>5. n \in 1 .. n /\ n \notin 1 .. m  BY <2>1, <1>4
  <2> QED BY <2>4, <2>5
<1>5. \E x \in S : \A y \in S : x <= y  BY <1>3, <1>4
<1> QED BY <1>5 DEF Min

(* The places below and at a place of a finite set of them.                 *)
UpTo(S, i) == {j \in S : j <= i}

(* The k-th place of the set.                                               *)
Place(S, k) == CHOOSE i \in S : Cardinality(UpTo(S, i)) = k

(* The k-th place of a finite set of naturals is the only one with k places *)
(* up to it, and later ones have more.                                      *)
LEMMA PlacesAreNumbered ==
  ASSUME NEW S \in SUBSET Nat, IsFiniteSet(S)
  PROVE  /\ Cardinality(S) \in Nat
         /\ \A i \in S : Cardinality(UpTo(S, i)) \in 1 .. Cardinality(S)
         /\ \A i, j \in S : i < j => Cardinality(UpTo(S, i)) < Cardinality(UpTo(S, j))
         /\ \A k \in 1 .. Cardinality(S) : \E i \in S : Cardinality(UpTo(S, i)) = k
<1>1. Cardinality(S) \in Nat  BY FS_CardinalityType
<1>2. ASSUME NEW i \in S
      PROVE  /\ UpTo(S, i) \in SUBSET S /\ i \in UpTo(S, i) /\ IsFiniteSet(UpTo(S, i))
             /\ Cardinality(UpTo(S, i)) \in 1 .. Cardinality(S)
  <2>1. UpTo(S, i) \in SUBSET S /\ i \in UpTo(S, i)  BY DEF UpTo
  <2>2. IsFiniteSet(UpTo(S, i)) /\ Cardinality(UpTo(S, i)) <= Cardinality(S)
    BY <2>1, FS_Subset
  <2>3. Cardinality(UpTo(S, i)) \in Nat  BY <2>2, FS_CardinalityType
  <2>4. Cardinality(UpTo(S, i)) # 0  BY <2>1, <2>2, FS_EmptySet
  <2> QED BY <1>1, <2>1, <2>2, <2>3, <2>4
<1>3. ASSUME NEW i \in S, NEW j \in S, i < j
      PROVE  Cardinality(UpTo(S, i)) < Cardinality(UpTo(S, j))
  <2>0. \A x \in S : x \in Nat  OBVIOUS
  <2>1. UpTo(S, i) \in SUBSET UpTo(S, j) /\ j \notin UpTo(S, i)
    <3>1. ASSUME NEW x \in S, x <= i PROVE x <= j
      <4>1. x \in Nat /\ i \in Nat /\ j \in Nat  BY <2>0
      <4> QED BY <4>1, <3>1, <1>3
    <3>2. ~(j <= i)
      <4>1. i \in Nat /\ j \in Nat  BY <2>0
      <4> QED BY <4>1, <1>3
    <3> QED BY <3>1, <3>2 DEF UpTo
  <2>2. IsFiniteSet(UpTo(S, j)) /\ j \in UpTo(S, j)  BY <1>2
  <2>3. Cardinality(UpTo(S, i)) <= Cardinality(UpTo(S, j))  BY <2>1, <2>2, FS_Subset
  <2>4. Cardinality(UpTo(S, j)) # Cardinality(UpTo(S, i))  BY <2>1, <2>2, FS_Subset
  <2> QED BY <1>1, <1>2, <2>3, <2>4
<1>4. ASSUME NEW k \in 1 .. Cardinality(S) PROVE \E i \in S : Cardinality(UpTo(S, i)) = k
  <2> DEFINE rank == [i \in S |-> Cardinality(UpTo(S, i))]
             All == 1 .. Cardinality(S)
  <2>1. rank \in [S -> All]  BY <1>2
  <2>2. \A i, j \in S : rank[i] = rank[j] => i = j
    <3>1. ASSUME NEW i \in S, NEW j \in S, rank[i] = rank[j] PROVE i = j
      <4>1. i \in Nat /\ j \in Nat  OBVIOUS
      <4>2. rank[i] \in Nat /\ rank[j] \in Nat  BY <1>2
      <4>3. i < j => rank[i] < rank[j]  BY <1>3
      <4>4. j < i => rank[j] < rank[i]  BY <1>3
      <4> HIDE DEF rank
      <4> QED BY <3>1, <4>1, <4>2, <4>3, <4>4
    <3> QED BY <3>1
  <2>3. IsFiniteSet(All) /\ Cardinality(All) = Cardinality(S)  BY <1>1, FS_Interval
  <2> HIDE DEF rank, All
  <2>4. rank \in Injection(S, All)  BY <2>1, <2>2 DEF Injection, IsInjective
  <2>5. rank \in Surjection(S, All)  BY <2>3, <2>4, FS_Injection
  <2>6. \E i \in S : rank[i] = k  BY <2>5, <1>4 DEF Surjection, All
  <2> QED BY <2>6 DEF rank
<1> QED BY <1>1, <1>2, <1>3, <1>4
=============================================================================
