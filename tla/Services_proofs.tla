----------------------------- MODULE Services_proofs -----------------------------
(* The services whose argument is about finite sets: what a scan has still  *)
(* ahead of it, which visits are held, which images precede which, and what *)
(* a set of objects costs in all.                                           *)
EXTENDS VisitRetention, TokenLookup, GuestPages, OwnerStorage, ArchiveExtraction,
        Functions, FiniteSetTheorems, SequenceTheorems, WellFoundedInduction, TLAPS

-----------------------------------------------------------------------------
(* Finite sets                                                              *)

(* Induction over finite sets: among sets that fail a property there is one *)
(* of which no proper subset fails it.                                      *)
LEMMA SmallestFailing ==
  ASSUME NEW S, IsFiniteSet(S), NEW Bad, Bad \subseteq SUBSET S, Bad # {}
  PROVE  \E s \in Bad : IsFiniteSet(s) /\ \A r \in SUBSET s : r # s => r \notin Bad
<1>1. Bad \subseteq FiniteSubsetsOf(S)
  BY FS_Subset DEF FiniteSubsetsOf
<1>2. PICK s \in Bad : \A r \in Bad : ~ (<<r, s>> \in StrictSubsetOrdering(S))
  BY <1>1, FS_StrictSubsetOrderingWellFounded, WFMin
<1>3. s \subseteq S /\ IsFiniteSet(s)
  BY <1>1 DEF FiniteSubsetsOf
<1>4. ASSUME NEW r \in SUBSET s, r # s PROVE r \notin Bad
  <2>1. <<r, s>> \in StrictSubsetOrdering(S)
    BY <1>3, <1>4 DEF StrictSubsetOrdering
  <2> QED BY <1>2, <2>1
<1> QED BY <1>3, <1>4

(* In particular, it does not fail any more without any one of its members. *)
LEMMA SmallestWithout ==
  ASSUME NEW S, IsFiniteSet(S), NEW Bad, Bad \subseteq SUBSET S, Bad # {}
  PROVE  \E s \in Bad : IsFiniteSet(s) /\ \A x \in s : s \ {x} \notin Bad
<1>1. PICK s \in Bad : IsFiniteSet(s) /\ \A r \in SUBSET s : r # s => r \notin Bad
  BY SmallestFailing
<1>2. ASSUME NEW x \in s PROVE s \ {x} \in SUBSET s /\ s \ {x} # s
  OBVIOUS
<1> QED BY <1>1, <1>2

(* A finite set of integers has a largest member.                           *)
LEMMA LargestExists ==
  ASSUME NEW S, S \subseteq Int, IsFiniteSet(S), S # {}
  PROVE  \E n \in S : \A m \in S : m <= n
<1> DEFINE Bad == {s \in SUBSET S : s # {} /\ ~ \E n \in s : \A m \in s : m <= n}
<1> SUFFICES ASSUME Bad # {} PROVE FALSE
  OBVIOUS
<1>1. PICK s \in Bad : \A x \in s : s \ {x} \notin Bad
  <2>1. Bad \subseteq SUBSET S
    OBVIOUS
  <2> HIDE DEF Bad
  <2> QED BY <2>1, SmallestWithout
<1>2. PICK x \in s : TRUE
  BY <1>1
<1>3. s \subseteq Int /\ x \in Int
  BY <1>1, <1>2
<1>4. CASE s \ {x} = {}
  <2>1. \A m \in s : m <= x
    BY <1>2, <1>3, <1>4
  <2> QED BY <1>1, <1>2, <2>1
<1>5. CASE s \ {x} # {}
  <2>1. PICK n \in s \ {x} : \A m \in s \ {x} : m <= n
    BY <1>1, <1>5
  <2>2. n \in Int /\ \A m \in s : m \in Int /\ (m = x \/ m <= n)
    BY <1>3, <2>1
  <2>3. \E k \in s : \A m \in s : m <= k
    <3>1. CASE x <= n
      BY <2>1, <2>2, <3>1
    <3>2. CASE n <= x
      <4>1. \A m \in s : m <= x
        BY <1>3, <2>2, <3>2
      <4> QED BY <1>2, <4>1
    <3> QED BY <1>3, <2>2, <3>1, <3>2
  <2> QED BY <1>1, <2>3
<1> QED BY <1>4, <1>5

(* A finite set of integers has a smallest member.                          *)
LEMMA SmallestExists ==
  ASSUME NEW S, S \subseteq Int, IsFiniteSet(S), S # {}
  PROVE  \E n \in S : \A m \in S : n <= m
<1> DEFINE Bad == {s \in SUBSET S : s # {} /\ ~ \E n \in s : \A m \in s : n <= m}
<1> SUFFICES ASSUME Bad # {} PROVE FALSE
  OBVIOUS
<1>1. PICK s \in Bad : \A x \in s : s \ {x} \notin Bad
  <2>1. Bad \subseteq SUBSET S
    OBVIOUS
  <2> HIDE DEF Bad
  <2> QED BY <2>1, SmallestWithout
<1>2. PICK x \in s : TRUE
  BY <1>1
<1>3. s \subseteq Int /\ x \in Int
  BY <1>1, <1>2
<1>4. CASE s \ {x} = {}
  <2>1. \A m \in s : x <= m
    BY <1>2, <1>3, <1>4
  <2> QED BY <1>1, <1>2, <2>1
<1>5. CASE s \ {x} # {}
  <2>1. PICK n \in s \ {x} : \A m \in s \ {x} : n <= m
    BY <1>1, <1>5
  <2>2. n \in Int /\ \A m \in s : m \in Int /\ (m = x \/ n <= m)
    BY <1>3, <2>1
  <2>3. \E k \in s : \A m \in s : k <= m
    <3>1. CASE n <= x
      BY <2>1, <2>2, <3>1
    <3>2. CASE x <= n
      <4>1. \A m \in s : x <= m
        BY <1>3, <2>2, <3>2
      <4> QED BY <1>2, <4>1
    <3> QED BY <1>3, <2>2, <3>1, <3>2
  <2> QED BY <1>1, <2>3
<1> QED BY <1>4, <1>5

-----------------------------------------------------------------------------
(* Sums                                                                     *)

(* The sum of a function over a finite set is a recursive function on its   *)
(* subsets; that one exists, and only one, is what the library leaves open. *)
Pick(s) == CHOOSE x \in s : TRUE
IsSum(f, fun, T) ==
  f = [s \in SUBSET T |-> IF s = {} THEN 0 ELSE fun[Pick(s)] + f[s \ {Pick(s)}]]

LEMMA SumIs == ASSUME NEW fun, NEW S PROVE SumFunctionOnSet(fun, S) = (CHOOSE f : IsSum(f, fun, S))[S]
BY DEF SumFunctionOnSet, FoldFunctionOnSet, MapThenFoldSet, IsSum, Pick

LEMMA SumAt ==
  ASSUME NEW f, NEW fun, NEW T, IsSum(f, fun, T), NEW s \in SUBSET T
  PROVE  /\ s = {} => f[s] = 0
         /\ s # {} => Pick(s) \in s /\ s \ {Pick(s)} \in SUBSET T /\ f[s] = fun[Pick(s)] + f[s \ {Pick(s)}]
<1>1. f[s] = IF s = {} THEN 0 ELSE fun[Pick(s)] + f[s \ {Pick(s)}]
  BY Zenon DEF IsSum
<1>2. s # {} => Pick(s) \in s
  BY DEF Pick
<1> QED BY <1>1, <1>2

LEMMA SumsAgree ==
  ASSUME NEW fun, NEW T, NEW U, IsFiniteSet(T), NEW f, IsSum(f, fun, T), NEW g, IsSum(g, fun, U), NEW s \in SUBSET (T \cap U)
  PROVE  f[s] = g[s]
<1> DEFINE Bad == {r \in SUBSET (T \cap U) : f[r] # g[r]}
<1> SUFFICES ASSUME Bad # {} PROVE FALSE
  OBVIOUS
<1>1. PICK r \in Bad : \A q \in SUBSET r : q # r => q \notin Bad
  <2>1. Bad \subseteq SUBSET T
    OBVIOUS
  <2> HIDE DEF Bad
  <2> QED BY <2>1, SmallestFailing
<1>2. r \in SUBSET T /\ r \in SUBSET U /\ f[r] # g[r]
  BY <1>1
<1>3. r # {}
  BY <1>2, SumAt
<1>4. /\ Pick(r) \in r /\ f[r] = fun[Pick(r)] + f[r \ {Pick(r)}] /\ g[r] = fun[Pick(r)] + g[r \ {Pick(r)}]
  BY <1>2, <1>3, SumAt
<1>5. f[r \ {Pick(r)}] = g[r \ {Pick(r)}]
  BY <1>1, <1>4
<1> QED BY <1>2, <1>4, <1>5

LEMMA SumRestricts ==
  ASSUME NEW fun, NEW T, NEW f, IsSum(f, fun, T), NEW U \in SUBSET T
  PROVE  IsSum([s \in SUBSET U |-> f[s]], fun, U)
<1> DEFINE g == [s \in SUBSET U |-> f[s]]
<1>1. ASSUME NEW s \in SUBSET U
      PROVE  g[s] = IF s = {} THEN 0 ELSE fun[Pick(s)] + g[s \ {Pick(s)}]
  <2>1. s \in SUBSET T /\ s \ {Pick(s)} \in SUBSET U
    OBVIOUS
  <2>2. g[s] = f[s] /\ g[s \ {Pick(s)}] = f[s \ {Pick(s)}]
    BY <2>1
  <2> HIDE DEF g
  <2>3. CASE s = {}
    <3>1. f[s] = 0
      BY <2>1, <2>3, SumAt
    <3> QED BY <2>2, <2>3, <3>1
  <2>4. CASE s # {}
    <3>1. f[s] = fun[Pick(s)] + f[s \ {Pick(s)}]
      BY <2>1, <2>4, SumAt
    <3> QED BY <2>2, <2>4, <3>1
  <2> QED BY <2>3, <2>4
<1>2. g = [s \in SUBSET U |-> g[s]]
  OBVIOUS
<1> HIDE DEF g
<1>3. g = [s \in SUBSET U |-> IF s = {} THEN 0 ELSE fun[Pick(s)] + g[s \ {Pick(s)}]]
  BY <1>1, <1>2
<1>4. IsSum(g, fun, U)
  BY <1>3 DEF IsSum
<1> QED BY <1>4 DEF g

LEMMA SumExists == ASSUME NEW fun, NEW T, IsFiniteSet(T) PROVE \E f : IsSum(f, fun, T)
<1> DEFINE Bad == {U \in SUBSET T : ~ \E f : IsSum(f, fun, U)}
<1> SUFFICES ASSUME Bad # {} PROVE FALSE
  OBVIOUS
<1>1. PICK U \in Bad : IsFiniteSet(U) /\ \A V \in SUBSET U : V # U => V \notin Bad
  <2>1. Bad \subseteq SUBSET T
    OBVIOUS
  <2> HIDE DEF Bad
  <2> QED BY <2>1, SmallestFailing
<1> DEFINE h(V) == CHOOSE f : IsSum(f, fun, V)
           rest(s) == s \ {Pick(s)}
           g == [s \in SUBSET U |-> IF s = {} THEN 0 ELSE fun[Pick(s)] + h(rest(s))[rest(s)]]
<1>2. \A V \in SUBSET U : V # U => IsSum(h(V), fun, V)
  BY <1>1
<1>3. ASSUME NEW s \in SUBSET U, s # {} PROVE g[rest(s)] = h(rest(s))[rest(s)]
  <2> DEFINE r == rest(s)
  <2>1. Pick(s) \in s
    BY <1>3 DEF Pick
  <2>2. r \in SUBSET U /\ r # U /\ r \in SUBSET r
    BY <2>1
  <2> HIDE DEF r, h
  <2>3. IsSum(h(r), fun, r)
    BY <1>2, <2>2
  <2>4. ASSUME r = {} PROVE g[r] = h(r)[r]
    <3>1. h(r)[r] = 0
      BY <2>2, <2>3, <2>4, SumAt
    <3>2. g[r] = 0
      BY <2>2, <2>4
    <3> QED BY <3>1, <3>2
  <2>5. ASSUME r # {} PROVE g[r] = h(r)[r]
    <3>1. Pick(r) \in r /\ rest(r) \in SUBSET r /\ h(r)[r] = fun[Pick(r)] + h(r)[rest(r)]
      BY <2>2, <2>3, <2>5, SumAt
    <3>2. rest(r) \in SUBSET U /\ rest(r) # U
      BY <2>2, <3>1
    <3>3. IsSum(h(rest(r)), fun, rest(r))
      BY <1>2, <3>2
    <3>4. IsFiniteSet(r) /\ rest(r) \in SUBSET (r \cap rest(r))
      BY <1>1, <2>2, FS_Subset
    <3> HIDE DEF rest
    <3>5. h(r)[rest(r)] = h(rest(r))[rest(r)]
      BY <2>3, <3>3, <3>4, SumsAgree
    <3>6. g[r] = fun[Pick(r)] + h(rest(r))[rest(r)]
      BY <2>2, <2>5
    <3> QED BY <3>1, <3>5, <3>6
  <2>6. g[r] = h(r)[r]
    BY <2>4, <2>5
  <2> QED BY <2>6 DEF r
<1>4. g = [s \in SUBSET U |-> IF s = {} THEN 0 ELSE fun[Pick(s)] + g[rest(s)]]
  <2>1. \A s \in SUBSET U : g[s] = IF s = {} THEN 0 ELSE fun[Pick(s)] + g[rest(s)]
    <3> HIDE DEF h, rest
    <3>1. \A s \in SUBSET U : g[s] = IF s = {} THEN 0 ELSE fun[Pick(s)] + h(rest(s))[rest(s)]
      OBVIOUS
    <3> HIDE DEF g
    <3> QED BY <1>3, <3>1
  <2>2. g = [s \in SUBSET U |-> g[s]]
    OBVIOUS
  <2> HIDE DEF g, h, rest
  <2> QED BY <2>1, <2>2
<1>5. IsSum(g, fun, U)
  <2> HIDE DEF g, h
  <2> QED BY <1>4 DEF IsSum
<1> QED BY <1>1, <1>5

(* The sum of nothing is 0, and any one member can be taken out first.      *)
LEMMA SumOfNothing == ASSUME NEW fun PROVE SumFunctionOnSet(fun, {}) = 0
<1> DEFINE f == CHOOSE f : IsSum(f, fun, {})
<1>1. IsSum(f, fun, {})
  BY FS_EmptySet, SumExists
<1>2. SumFunctionOnSet(fun, {}) = f[{}]
  BY SumIs
<1> HIDE DEF f
<1> QED BY <1>1, <1>2, SumAt

LEMMA SumPicks ==
  ASSUME NEW fun, NEW S, IsFiniteSet(S), S # {}
  PROVE  Pick(S) \in S /\ SumFunctionOnSet(fun, S) = fun[Pick(S)] + SumFunctionOnSet(fun, S \ {Pick(S)})
<1> DEFINE f == CHOOSE f : IsSum(f, fun, S)
           rest == S \ {Pick(S)}
           g == CHOOSE g : IsSum(g, fun, rest)
<1>1. IsFiniteSet(rest) /\ rest \in SUBSET S /\ rest \in SUBSET (S \cap rest)
  BY FS_Subset
<1>2. IsSum(f, fun, S) /\ SumFunctionOnSet(fun, S) = f[S]
  BY SumExists, SumIs
<1> HIDE DEF f
<1>3. IsSum(g, fun, rest) /\ SumFunctionOnSet(fun, rest) = g[rest]
  <2> HIDE DEF rest
  <2> QED BY <1>1, SumExists, SumIs
<1> HIDE DEF g
<1>4. Pick(S) \in S /\ f[S] = fun[Pick(S)] + f[rest]
  BY <1>2, SumAt
<1>5. f[rest] = g[rest]
  <2> HIDE DEF rest
  <2> QED BY <1>1, <1>2, <1>3, SumsAgree
<1> QED BY <1>2, <1>3, <1>4, <1>5

LEMMA SumIsNat ==
  ASSUME NEW fun, NEW S, IsFiniteSet(S), \A x \in S : fun[x] \in Nat
  PROVE  SumFunctionOnSet(fun, S) \in Nat
<1> DEFINE Bad == {s \in SUBSET S : SumFunctionOnSet(fun, s) \notin Nat}
<1> SUFFICES ASSUME Bad # {} PROVE FALSE
  OBVIOUS
<1>1. PICK s \in Bad : IsFiniteSet(s) /\ \A r \in SUBSET s : r # s => r \notin Bad
  <2>1. Bad \subseteq SUBSET S
    OBVIOUS
  <2> HIDE DEF Bad
  <2> QED BY <2>1, SmallestFailing
<1>2. s # {}
  <2>1. SumFunctionOnSet(fun, {}) \in Nat
    BY SumOfNothing
  <2>2. SumFunctionOnSet(fun, s) \notin Nat
    BY <1>1
  <2> QED BY <2>1, <2>2
<1>3. Pick(s) \in s /\ SumFunctionOnSet(fun, s) = fun[Pick(s)] + SumFunctionOnSet(fun, s \ {Pick(s)})
  BY <1>1, <1>2, SumPicks
<1>4. SumFunctionOnSet(fun, s \ {Pick(s)}) \in Nat /\ fun[Pick(s)] \in Nat
  BY <1>1, <1>3
<1> QED BY <1>1, <1>3, <1>4

LEMMA SumTakesOut ==
  ASSUME NEW fun, NEW S, IsFiniteSet(S), \A y \in S : fun[y] \in Nat, NEW x \in S
  PROVE  SumFunctionOnSet(fun, S) = fun[x] + SumFunctionOnSet(fun, S \ {x})
<1> DEFINE Sum(s) == SumFunctionOnSet(fun, s)
           Bad == {s \in SUBSET S : \E y \in s : Sum(s) # fun[y] + Sum(s \ {y})}
<1> SUFFICES ASSUME Bad # {} PROVE FALSE
  <2>1. S \notin Bad
    OBVIOUS
  <2> QED BY <2>1
<1>1. PICK s \in Bad : IsFiniteSet(s) /\ \A r \in SUBSET s : r # s => r \notin Bad
  <2>1. Bad \subseteq SUBSET S
    OBVIOUS
  <2> HIDE DEF Bad
  <2> QED BY <2>1, SmallestFailing
<1>2. PICK y \in s : Sum(s) # fun[y] + Sum(s \ {y})
  BY <1>1
<1> DEFINE p == Pick(s)
<1>3. p \in s /\ Sum(s) = fun[p] + Sum(s \ {p})
  BY <1>1, <1>2, SumPicks
<1>4. \A r \in SUBSET s : \A z \in r : r # s => Sum(r) = fun[z] + Sum(r \ {z})
  BY <1>1
<1>5. p # y
  BY <1>2, <1>3
<1> HIDE DEF p, Bad
<1>6. Sum(s \ {p}) = fun[y] + Sum((s \ {p}) \ {y}) /\ Sum(s \ {y}) = fun[p] + Sum((s \ {y}) \ {p})
  BY <1>2, <1>3, <1>4, <1>5
<1>7. (s \ {p}) \ {y} = (s \ {y}) \ {p}
  OBVIOUS
<1>8. fun[p] \in Nat /\ fun[y] \in Nat /\ Sum((s \ {p}) \ {y}) \in Nat
  <2>1. s \in SUBSET S
    BY <1>1 DEF Bad
  <2>2. IsFiniteSet((s \ {p}) \ {y})
    BY <1>1, FS_Subset
  <2> QED BY <1>2, <1>3, <2>1, <2>2, SumIsNat
<1> HIDE DEF Sum
<1>9. Sum(s) = fun[y] + Sum(s \ {y})
  BY <1>3, <1>6, <1>7, <1>8
<1> QED BY <1>2, <1>9

(* Only the values at the members matter.                                   *)
LEMMA SumDependsOnMembers ==
  ASSUME NEW fun, NEW gun, NEW S, IsFiniteSet(S), \A x \in S : fun[x] = gun[x]
  PROVE  SumFunctionOnSet(fun, S) = SumFunctionOnSet(gun, S)
<1> DEFINE Bad == {s \in SUBSET S : SumFunctionOnSet(fun, s) # SumFunctionOnSet(gun, s)}
<1> SUFFICES ASSUME Bad # {} PROVE FALSE
  OBVIOUS
<1>1. PICK s \in Bad : IsFiniteSet(s) /\ \A r \in SUBSET s : r # s => r \notin Bad
  <2>1. Bad \subseteq SUBSET S
    OBVIOUS
  <2> HIDE DEF Bad
  <2> QED BY <2>1, SmallestFailing
<1>2. s # {}
  BY <1>1, SumOfNothing
<1>3. /\ Pick(s) \in s /\ SumFunctionOnSet(fun, s) = fun[Pick(s)] + SumFunctionOnSet(fun, s \ {Pick(s)})
      /\ SumFunctionOnSet(gun, s) = gun[Pick(s)] + SumFunctionOnSet(gun, s \ {Pick(s)})
  BY <1>1, <1>2, SumPicks
<1>4. SumFunctionOnSet(fun, s \ {Pick(s)}) = SumFunctionOnSet(gun, s \ {Pick(s)}) /\ fun[Pick(s)] = gun[Pick(s)]
  BY <1>1, <1>3
<1> QED BY <1>1, <1>3, <1>4

(* A sum over two disjoint sets is the sum of their sums.                   *)
LEMMA SumSplits ==
  ASSUME NEW fun, NEW S, IsFiniteSet(S), \A x \in S : fun[x] \in Nat, NEW R \in SUBSET S
  PROVE  SumFunctionOnSet(fun, S) = SumFunctionOnSet(fun, R) + SumFunctionOnSet(fun, S \ R)
<1> DEFINE Sum(s) == SumFunctionOnSet(fun, s)
           Bad == {r \in SUBSET R : Sum(S) # Sum(r) + Sum(S \ r)}
<1> SUFFICES ASSUME Bad # {} PROVE FALSE
  OBVIOUS
<1>0. IsFiniteSet(R)
  BY FS_Subset
<1>1. PICK r \in Bad : IsFiniteSet(r) /\ \A q \in SUBSET r : q # r => q \notin Bad
  <2>1. Bad \subseteq SUBSET R
    OBVIOUS
  <2> HIDE DEF Bad
  <2> QED BY <1>0, <2>1, SmallestFailing
<1>2. r \in SUBSET S /\ Sum(S) # Sum(r) + Sum(S \ r)
  BY <1>1
<1>3. \A s \in SUBSET S : IsFiniteSet(s) /\ Sum(s) \in Nat
  BY FS_Subset, SumIsNat
<1>4. r # {}
  <2>1. S \ {} = S /\ Sum({}) = 0 /\ Sum(S) \in Nat
    BY <1>3, SumOfNothing
  <2> HIDE DEF Sum
  <2>2. Sum(S) = Sum({}) + Sum(S \ {})
    BY <2>1
  <2> QED BY <1>2, <2>2
<1>5. PICK x \in r : TRUE
  BY <1>4
<1> DEFINE q == r \ {x}
<1>6. q \in SUBSET r /\ q # r /\ Sum(S) = Sum(q) + Sum(S \ q)
  BY <1>1, <1>5
<1>7. Sum(r) = fun[x] + Sum(q)
  BY <1>2, <1>3, <1>5, SumTakesOut
<1>8. Sum(S \ q) = fun[x] + Sum(S \ r)
  <2>1. (S \ q) \ {x} = S \ r /\ x \in S \ q
    BY <1>2, <1>5
  <2>2. S \ q \in SUBSET S /\ IsFiniteSet(S \ q)
    BY <1>3
  <2>3. Sum(S \ q) = fun[x] + Sum((S \ q) \ {x})
    <3> HIDE DEF q
    <3> QED BY <2>1, <2>2, SumTakesOut
  <2> QED BY <2>1, <2>3
<1>9. Sum(q) \in Nat /\ Sum(S \ r) \in Nat /\ fun[x] \in Nat
  BY <1>2, <1>3, <1>5
<1> HIDE DEF Sum, q
<1> QED BY <1>2, <1>6, <1>7, <1>8, <1>9

LEMMA SumOfZeros ==
  ASSUME NEW fun, NEW S, IsFiniteSet(S), \A x \in S : fun[x] = 0
  PROVE  SumFunctionOnSet(fun, S) = 0
<1> DEFINE Bad == {s \in SUBSET S : SumFunctionOnSet(fun, s) # 0}
<1> SUFFICES ASSUME Bad # {} PROVE FALSE
  OBVIOUS
<1>1. PICK s \in Bad : IsFiniteSet(s) /\ \A r \in SUBSET s : r # s => r \notin Bad
  <2>1. Bad \subseteq SUBSET S
    OBVIOUS
  <2> HIDE DEF Bad
  <2> QED BY <2>1, SmallestFailing
<1>2. s # {}
  <2>1. SumFunctionOnSet(fun, {}) = 0
    BY SumOfNothing
  <2>2. SumFunctionOnSet(fun, s) # 0
    BY <1>1
  <2> QED BY <2>1, <2>2
<1>3. Pick(s) \in s /\ SumFunctionOnSet(fun, s) = fun[Pick(s)] + SumFunctionOnSet(fun, s \ {Pick(s)})
  BY <1>1, <1>2, SumPicks
<1>4. SumFunctionOnSet(fun, s \ {Pick(s)}) = 0 /\ fun[Pick(s)] = 0
  BY <1>1, <1>3
<1> QED BY <1>1, <1>3, <1>4

-----------------------------------------------------------------------------
(* The sessions of one gallery (VisitRetention)                             *)

\* What an admission may delete is held by no writer.
RetentionInv ==
  /\ RetentionTypeOK
  /\ HistoryKept
  /\ admission.locked \cap held = {}
  /\ admission.at # "locked" => admission.locked = {}

Admissions == [at : {"none", "windowed", "locked"}, window : SUBSET Visits, locked : SUBSET Visits,
               cursor : 0..LastVisit, now : 0..LastVisit]

LEMMA NoAdmissionTyped == NoAdmission \in Admissions /\ NoAdmission.at = "none" /\ NoAdmission.locked = {}
BY RetentionAssumption DEF NoAdmission, Admissions

(* The cursor an admission leaves is one of its window, or the old one.     *)
LEMMA CursorTyped ==
  ASSUME RetentionTypeOK
  PROVE  Window \subseteq Visits /\ LastIn(Window) \in 0..LastVisit
<1>1. Window \subseteq Visits
  BY DEF RetentionTypeOK, Window, FirstVisits, Beyond, Lapsed
<1>2. CASE Window = {}
  BY <1>1, <1>2 DEF LastIn, RetentionTypeOK
<1>3. CASE Window # {}
  <2>1. IsFiniteSet(Window) /\ Window \subseteq Int
    <3>1. LastVisit \in Int /\ 1 \in Int
      BY RetentionAssumption
    <3>2. IsFiniteSet(Visits) /\ Visits \subseteq Int
      BY <3>1, FS_Interval DEF Visits
    <3> QED BY <1>1, <3>2, FS_Subset
  <2>2. \E v \in Window : \A w \in Window : w <= v
    BY <1>3, <2>1, LargestExists
  <2>3. LastIn(Window) \in Window
    BY <1>3, <2>2 DEF LastIn
  <2>4. Visits \subseteq 0..LastVisit
    BY RetentionAssumption DEF Visits
  <2> QED BY <1>1, <2>3, <2>4
<1> QED BY <1>1, <1>2, <1>3

LEMMA RetentionInitInv == RetentionInit => RetentionInv
<1> SUFFICES ASSUME RetentionInit PROVE RetentionInv
  OBVIOUS
<1>1. RetentionTypeOK
  BY NoAdmissionTyped, RetentionAssumption DEF RetentionInit, RetentionTypeOK, Admissions
<1> QED BY <1>1, NoAdmissionTyped DEF RetentionInit, RetentionInv, HistoryKept

LEMMA RetentionStepInv ==
  ASSUME RetentionInv, [RetentionNext]_retentionVars
  PROVE  RetentionInv'
<1>i. /\ RetentionTypeOK /\ history \cup held \cup finished \subseteq visits
      /\ admission.locked \cap held = {} /\ (admission.at # "locked" => admission.locked = {})
  BY DEF RetentionInv, HistoryKept
<1>t. /\ hour \in 0..LastVisit /\ visits \subseteq Visits /\ finished \subseteq Visits /\ held \subseteq Visits
      /\ history \subseteq Visits /\ checkpoint \in 0..LastVisit /\ admission \in Admissions
  BY <1>i DEF RetentionTypeOK, Admissions
<1>1. CASE HourPasses
  <2>1. hour + 1 \in 0..LastVisit
    BY <1>1, <1>t, RetentionAssumption DEF HourPasses
  <2> QED BY <1>1, <1>i, <2>1 DEF HourPasses, RetentionInv, RetentionTypeOK, HistoryKept
<1>2. ASSUME NEW v \in Visits, EntryBegins(v) PROVE RetentionInv'
  BY <1>2, <1>i DEF EntryBegins, Valid, RetentionInv, RetentionTypeOK, HistoryKept
<1>3. ASSUME NEW v \in Visits, NEW entered \in BOOLEAN, EntryEnds(v, entered) PROVE RetentionInv'
  BY <1>3, <1>i DEF EntryEnds, RetentionInv, RetentionTypeOK, HistoryKept
<1>4. ASSUME NEW v \in Visits, ReviewCompleted(v) PROVE RetentionInv'
  BY <1>4, <1>i DEF ReviewCompleted, Valid, RetentionInv, RetentionTypeOK, HistoryKept
<1>a. ASSUME NEW record \in Admissions, admission' = record, record.locked \cap held = {},
             record.at # "locked" => record.locked = {},
             UNCHANGED <<hour, visits, finished, history, held, checkpoint>>
      PROVE  RetentionInv'
  BY <1>a, <1>i, <1>t DEF RetentionInv, RetentionTypeOK, HistoryKept, Admissions
<1>5. CASE AdmissionReads
  <2> DEFINE record == [at |-> "windowed", window |-> Window, locked |-> {}, cursor |-> LastIn(Window), now |-> hour]
  <2>1. record \in Admissions
    BY <1>i, <1>t, CursorTyped DEF Admissions
  <2>2. admission' = record /\ record.at = "windowed" /\ record.locked = {}
        /\ UNCHANGED <<hour, visits, finished, history, held, checkpoint>>
    BY <1>5 DEF AdmissionReads
  <2> HIDE DEF record
  <2> QED BY <1>a, <2>1, <2>2
<1>6. CASE AdmissionLocks
  <2> DEFINE record == [admission EXCEPT !.at = "locked", !.locked = admission.window \ held]
  <2>1. record \in Admissions /\ record.at = "locked" /\ record.locked = admission.window \ held
    BY <1>t DEF Admissions
  <2>2. admission' = record /\ UNCHANGED <<hour, visits, finished, history, held, checkpoint>>
    BY <1>6 DEF AdmissionLocks
  <2> HIDE DEF record
  <2> QED BY <1>a, <2>1, <2>2
<1>7. CASE AdmissionCommits
  <2>1. admission' = NoAdmission /\ checkpoint' = admission.cursor /\ UNCHANGED <<hour, history, finished, held>>
    BY <1>7 DEF AdmissionCommits
  <2>2. visits' \subseteq Visits /\ Kept \subseteq visits'
    BY <1>7, <1>t DEF AdmissionCommits, Kept, Fresh
  <2>3. history \cup held \cup finished \subseteq Kept
    BY <1>i DEF Kept, Deleted, Lapsed
  <2>4. checkpoint' \in 0..LastVisit
    BY <1>t, <2>1 DEF Admissions
  <2>5. RetentionTypeOK'
    BY <1>t, <2>1, <2>2, <2>4, NoAdmissionTyped DEF RetentionTypeOK, Admissions
  <2> QED BY <2>1, <2>2, <2>3, <2>5, NoAdmissionTyped DEF RetentionInv, HistoryKept
<1>8. CASE AdmissionFails
  BY <1>8, <1>a, NoAdmissionTyped DEF AdmissionFails
<1>9. CASE UNCHANGED retentionVars
  BY <1>9, <1>i DEF retentionVars, RetentionInv, RetentionTypeOK, HistoryKept
<1> QED BY <1>1, <1>2, <1>3, <1>4, <1>5, <1>6, <1>7, <1>8, <1>9 DEF RetentionNext

(* A session that an entry refers to, or that a writer holds, is never      *)
(* deleted, although the window was read before the entry was committed     *)
(* (cleanup_expired_share_sessions).                                        *)
THEOREM HistoryAlwaysKept == RetentionSpec => []HistoryKept
<1>1. RetentionInv /\ [RetentionNext]_retentionVars => RetentionInv'
  BY RetentionStepInv
<1>2. RetentionInv => HistoryKept
  BY DEF RetentionInv
<1> QED BY RetentionInitInv, <1>1, <1>2, PTL DEF RetentionSpec

-----------------------------------------------------------------------------
(* Finding the row of a link (TokenLookup)                                  *)

\* What the traversals are about: the row that the link belongs to.
Row == [kind |-> kind, class |-> rows[target], key |-> target, live |-> linked]

\* A row that has not been listed yet lies behind the window.
Ahead(r, row) == row.key \in r.ids \/ (r.more /\ \A k \in r.ids : k < row.key)

\* As long as a traversal is steady, its cursor has not passed the row: an
\* indexed row in the first phase, a legacy one in the second.
CookieSound(c, row) == c.steady =>
  /\ row.live
  /\ c.phase = "i" => row.kind = "gallery" /\ (row.class = "indexed" => c.key < row.key)
  /\ c.phase = "l" => row.class = "legacy" /\ c.key < row.key

TabSound(r, row) == r.steady =>
  /\ row.live
  /\ r.at = "seeking" => (row.kind = "verification" \/ row.class = "indexed" => r.key < row.key)
  /\ r.at = "indexed" => row.kind = "gallery" /\ (row.class = "indexed" => Ahead(r, row))
  /\ r.at \in {"waiting", "scanning"} => row.class = "legacy" /\ r.key < row.key
  /\ r.at = "legacy" => row.class = "legacy" /\ Ahead(r, row)
  /\ r.at # "missing"

Cookies == [phase : {"none", "h", "i", "l"}, key : Keys \cup {0}, steady : BOOLEAN]
TabRecords == [at : Answers \cup Scanning \cup {"seeking", "indexed", "waiting"},
               key : Keys \cup {0}, steady : BOOLEAN, room : 1..LookupWindow,
               ids : SUBSET Keys, more : BOOLEAN]

Shaped(r) == r \in TabRecords /\ (r.more => r.ids # {})

OneLocator == kind = "verification" =>
  \A j, k \in Keys : rows[j] = "indexed" /\ rows[k] = "indexed" => j = k

RowsKnown ==
  /\ kind \in {"gallery", "verification"} /\ linked \in BOOLEAN /\ target \in Keys
  /\ rows \in [Keys -> {"none", "indexed", "legacy"}] /\ rows[target] # "none"

LookupInv ==
  /\ RowsKnown /\ OneLocator
  /\ cookie \in Cookies /\ CookieSound(cookie, Row)
  /\ tab = [v \in Tabs |-> tab[v]]
  /\ \A v \in Tabs : Shaped(tab[v]) /\ TabSound(tab[v], Row)

LEMMA KeysAreNat ==
  Keys \subseteq Nat \ {0} /\ Keys \subseteq Int /\ IsFiniteSet(Keys) /\ LookupWindow \in Nat /\ LookupWindow >= 2
BY LookupAssumption

-----------------------------------------------------------------------------
(* A window of keys: the first ones of a set.                               *)

Below(S, k) == {j \in S : j <= k}

LEMMA WindowIsFirst ==
  ASSUME NEW S \in SUBSET Keys, NEW n \in Nat, NEW k \in FirstOf(S, n), NEW t \in S, t \notin FirstOf(S, n)
  PROVE  k < t
<1>1. k \in S /\ Cardinality(Below(S, k)) <= n /\ ~ (Cardinality(Below(S, t)) <= n)
  BY DEF FirstOf, Below
<1>2. k \in Nat /\ t \in Nat
  BY <1>1, KeysAreNat
<1>3. IsFiniteSet(Below(S, k)) /\ IsFiniteSet(Below(S, t))
  BY KeysAreNat, FS_Subset DEF Below
<1>4. Cardinality(Below(S, k)) \in Nat /\ Cardinality(Below(S, t)) \in Nat
  BY <1>3, FS_CardinalityType
<1>5. SUFFICES ASSUME t <= k PROVE FALSE
  BY <1>2
<1>6. Below(S, t) \subseteq Below(S, k)
  <2>1. ASSUME NEW j \in S, j <= t PROVE j <= k
    <3>1. j \in Nat
      BY KeysAreNat
    <3> QED BY <1>2, <1>5, <2>1, <3>1
  <2> QED BY <2>1 DEF Below
<1>7. Cardinality(Below(S, t)) <= Cardinality(Below(S, k))
  BY <1>3, <1>6, FS_Subset
<1> QED BY <1>1, <1>4, <1>7

LEMMA WindowNotEmpty ==
  ASSUME NEW S \in SUBSET Keys, NEW n \in Nat, n >= 1, S # {}
  PROVE  FirstOf(S, n) # {}
<1>1. IsFiniteSet(S) /\ S \subseteq Int
  BY KeysAreNat, FS_Subset
<1>2. PICK k \in S : \A j \in S : k <= j
  BY <1>1, SmallestExists
<1>3. Below(S, k) = {k}
  <2>1. ASSUME NEW j \in S, j <= k PROVE j = k
    <3>1. j \in Int /\ k \in Int /\ k <= j
      BY <1>1, <1>2
    <3> QED BY <2>1, <3>1
  <2>2. k <= k
    BY <1>1, <1>2
  <2> QED BY <2>1, <2>2 DEF Below
<1>4. Cardinality(Below(S, k)) = 1
  BY <1>3, FS_Singleton
<1> QED BY <1>4 DEF FirstOf, Below

LEMMA LastOfWindow ==
  ASSUME NEW ids \in SUBSET Keys, ids # {}
  PROVE  LastOf(ids) \in ids
<1>1. IsFiniteSet(ids)
  BY KeysAreNat, FS_Subset
<1>0. ids \subseteq Int
  BY KeysAreNat
<1>2. \E k \in ids : \A j \in ids : j <= k
  BY <1>0, <1>1, LargestExists
<1> QED BY <1>2 DEF LastOf

(* A window listed for a steady traversal has its row in it or behind it.   *)
LEMMA ListedSound ==
  ASSUME LookupInv, NEW v \in Tabs, NEW at \in {"indexed", "legacy"}, NEW class \in {"indexed", "legacy"}
  PROVE  LET record == Listed(v, at, class)
         IN  /\ Shaped(record) /\ record.at = at /\ record.steady = tab[v].steady
             /\ rows[target] = class /\ tab[v].key < target => Ahead(record, Row)
<1> DEFINE candidates == Candidates(class, tab[v].key)
           ids        == FirstOf(candidates, tab[v].room)
           record     == [tab[v] EXCEPT !.at = at, !.ids = ids, !.more = (candidates # ids)]
<1>1. record = Listed(v, at, class)
  BY DEF Listed
<1>2. tab[v] \in TabRecords /\ tab[v].room \in Nat /\ tab[v].room >= 1
  BY KeysAreNat DEF LookupInv, Shaped, TabRecords
<1>3. candidates \subseteq Keys /\ ids \subseteq candidates
  BY DEF Candidates, FirstOf
<1>4. PICK more \in BOOLEAN : more = (candidates # ids)
  OBVIOUS
<1>5. more => ids # {}
  <2> HIDE DEF candidates
  <2>1. candidates = {} => ids = {}
    BY DEF FirstOf
  <2>2. candidates # {} => ids # {}
    BY <1>2, <1>3, WindowNotEmpty
  <2> QED BY <1>4, <2>1, <2>2
<1>6. /\ record \in TabRecords /\ record.at = at /\ record.ids = ids /\ record.more = more
      /\ record.steady = tab[v].steady
  <2> HIDE DEF ids, candidates
  <2> QED BY <1>2, <1>3, <1>4 DEF TabRecords, Scanning, Answers
<1>7. ASSUME rows[target] = class, tab[v].key < target
      PROVE  target \in ids \/ (more /\ \A k \in ids : k < target)
  <2>1. target \in candidates
    BY <1>7 DEF Candidates, LookupInv, RowsKnown
  <2> HIDE DEF candidates
  <2> QED BY <1>2, <1>3, <1>4, <2>1, WindowIsFirst
<1>8. Row.key = target
  BY DEF Row
<1> HIDE DEF record, ids, candidates
<1> QED BY <1>1, <1>5, <1>6, <1>7, <1>8 DEF Shaped, Ahead

-----------------------------------------------------------------------------
(* The steps *)

LEMMA TabKeeps ==
  ASSUME LookupInv, NEW v \in Tabs, NEW record, tab' = [tab EXCEPT ![v] = record],
         UNCHANGED <<kind, rows, target, linked>>,
         Shaped(record), TabSound(record, Row), cookie' \in Cookies, CookieSound(cookie', Row)
  PROVE  LookupInv'
<1>1. \A w \in Tabs : tab'[w] = IF w = v THEN record ELSE tab[w]
  BY DEF LookupInv
<1>2. Row' = Row
  BY DEF Row
<1>3. tab' = [w \in Tabs |-> tab'[w]]
  BY DEF LookupInv
<1>4. RowsKnown' /\ OneLocator'
  BY DEF LookupInv, RowsKnown, OneLocator
<1>5. \A w \in Tabs : Shaped(tab'[w]) /\ TabSound(tab'[w], Row')
  BY <1>1, <1>2 DEF LookupInv
<1>6. CookieSound(cookie', Row')
  BY <1>2
<1> QED BY <1>3, <1>4, <1>5, <1>6 DEF LookupInv

LEMMA AskingIs ==
  ASSUME NEW at \in Answers \cup Scanning \cup {"seeking", "indexed", "waiting"},
         NEW cursor, cursor.key \in Keys \cup {0}, cursor.steady \in BOOLEAN
  PROVE  /\ Shaped(Asking(at, cursor)) /\ Asking(at, cursor).at = at
         /\ Asking(at, cursor).key = cursor.key /\ Asking(at, cursor).steady = cursor.steady
<1>1. LookupWindow \in 1..LookupWindow
  BY KeysAreNat
<1> QED BY <1>1 DEF Asking, Shaped, TabRecords

(* A request that is answered carries no cursor any more.                   *)
LEMMA AnsweredIs ==
  ASSUME LookupInv, NEW v \in Tabs, NEW answer \in Answers, answer = "missing" => ~ tab[v].steady
  PROVE  Shaped(Answered(v, answer)) /\ TabSound(Answered(v, answer), Row)
<1>1. tab[v].steady \in BOOLEAN /\ TabSound(tab[v], Row)
  BY DEF LookupInv, Shaped, TabRecords
<1> DEFINE cursor == [key |-> 0, steady |-> tab[v].steady]
<1>2. cursor.key \in Keys \cup {0} /\ cursor.steady \in BOOLEAN /\ cursor.steady = tab[v].steady
  BY <1>1
<1>3. Answered(v, answer) = Asking(answer, cursor)
  BY DEF Answered
<1> HIDE DEF cursor
<1>4. /\ Shaped(Asking(answer, cursor)) /\ Asking(answer, cursor).at = answer
      /\ Asking(answer, cursor).steady = tab[v].steady
  BY <1>1, <1>2, AskingIs
<1>5. answer \notin {"seeking", "indexed", "waiting", "scanning", "legacy"}
  BY DEF Answers
<1> QED BY <1>1, <1>3, <1>4, <1>5 DEF TabSound

LEMMA CookiesAre ==
  /\ NoCookie \in Cookies /\ \A row : CookieSound(NoCookie, row)
  /\ \A v \in Tabs, phase \in {"h", "i", "l"}, key \in Keys : LookupInv =>
       /\ Saved(v, phase, key) \in Cookies
       /\ Saved(v, phase, key).steady = tab[v].steady /\ Saved(v, phase, key).phase = phase
       /\ Saved(v, phase, key).key = key
<1>1. NoCookie \in Cookies /\ \A row : CookieSound(NoCookie, row)
  BY DEF NoCookie, Cookies, CookieSound
<1>2. ASSUME NEW v \in Tabs, NEW phase \in {"h", "i", "l"}, NEW key \in Keys, LookupInv
      PROVE  /\ Saved(v, phase, key) \in Cookies
             /\ Saved(v, phase, key).steady = tab[v].steady /\ Saved(v, phase, key).phase = phase
             /\ Saved(v, phase, key).key = key
  <2>1. tab[v].steady \in BOOLEAN
    BY <1>2 DEF LookupInv, Shaped, TabRecords
  <2> QED BY <2>1 DEF Saved, Cookies
<1> QED BY <1>1, <1>2

LEMMA LookupInitInv == LookupInit => LookupInv
<1> SUFFICES ASSUME LookupInit PROVE LookupInv
  OBVIOUS
<1>1. RowsKnown /\ OneLocator
  BY DEF LookupInit, RowsKnown, OneLocator
<1>2. cookie \in Cookies /\ CookieSound(cookie, Row)
  BY CookiesAre DEF LookupInit
<1>3. ASSUME NEW v \in Tabs PROVE Shaped(tab[v]) /\ TabSound(tab[v], Row)
  <2>1. /\ tab[v] = Asking("idle", NoCookie) /\ ~ NoCookie.steady
        /\ NoCookie.key \in Keys \cup {0} /\ NoCookie.steady \in BOOLEAN
    BY DEF LookupInit, NoCookie
  <2>2. "idle" \in Answers /\ "idle" \notin {"seeking", "indexed", "waiting", "scanning", "legacy", "missing"}
    BY DEF Answers
  <2>3. Shaped(Asking("idle", NoCookie)) /\ Asking("idle", NoCookie).at = "idle"
        /\ Asking("idle", NoCookie).steady = NoCookie.steady
    BY <2>1, <2>2, AskingIs
  <2> QED BY <2>1, <2>3 DEF TabSound
<1>4. tab = [v \in Tabs |-> tab[v]]
  BY DEF LookupInit
<1> QED BY <1>1, <1>2, <1>3, <1>4 DEF LookupInv

(* Rows come and go, but not the link's own.                                *)
LEMMA RowStepsInv ==
  ASSUME LookupInv,
         (\E k \in Keys, class \in {"none", "indexed", "legacy"} : Churn(k, class)) \/ LinkRevived \/ CookieExpires
  PROVE  LookupInv'
<1>1. ASSUME NEW k \in Keys, NEW class \in {"none", "indexed", "legacy"}, Churn(k, class) PROVE LookupInv'
  <2>1. UNCHANGED <<kind, target, linked, cookie, tab>> /\ rows' = [rows EXCEPT ![k] = class] /\ k # target
        /\ (kind = "verification" /\ class = "indexed" => \A j \in Keys \ {k} : rows[j] # "indexed")
    BY <1>1 DEF Churn
  <2>2. RowsKnown' /\ Row' = Row
    BY <2>1 DEF LookupInv, RowsKnown, Row
  <2>3. OneLocator'
    <3>1. \A j \in Keys : rows'[j] = IF j = k THEN class ELSE rows[j]
      BY <2>1 DEF LookupInv, RowsKnown
    <3> QED BY <2>1, <3>1 DEF LookupInv, OneLocator
  <2> QED BY <2>1, <2>2, <2>3 DEF LookupInv
<1>2. CASE LinkRevived
  <2>1. /\ UNCHANGED <<kind, rows, target, cookie, tab>> /\ linked' = TRUE /\ ~ linked
    BY <1>2 DEF LinkRevived
  <2>2. ~ cookie.steady /\ \A v \in Tabs : ~ tab[v].steady
    BY <2>1 DEF LookupInv, CookieSound, TabSound, Row
  <2>3. RowsKnown' /\ OneLocator'
    BY <2>1 DEF LookupInv, RowsKnown, OneLocator
  <2>4. CookieSound(cookie', Row') /\ \A v \in Tabs : TabSound(tab'[v], Row')
    BY <2>1, <2>2 DEF CookieSound, TabSound
  <2> QED BY <2>1, <2>3, <2>4 DEF LookupInv
<1>3. CASE CookieExpires
  <2>1. UNCHANGED <<kind, rows, target, linked, tab>> /\ cookie' = NoCookie
    BY <1>3 DEF CookieExpires
  <2>2. RowsKnown' /\ OneLocator' /\ Row' = Row
    BY <2>1 DEF LookupInv, RowsKnown, OneLocator, Row
  <2> QED BY <2>1, <2>2, CookiesAre DEF LookupInv
<1> QED BY <1>1, <1>2, <1>3

(* The link's end ends every steady traversal.                              *)
LEMMA LinkDiesInv == ASSUME LookupInv, LinkDies PROVE LookupInv'
<1>1. /\ UNCHANGED <<kind, target>> /\ linked' = FALSE
      /\ rows' = (IF kind = "verification" THEN [rows EXCEPT ![target] = "legacy"] ELSE rows)
      /\ cookie' = [cookie EXCEPT !.steady = FALSE]
      /\ tab' = [v \in Tabs |-> [tab[v] EXCEPT !.steady = FALSE]]
  BY DEF LinkDies
<1>2. RowsKnown' /\ OneLocator'
  <2>1. \A k \in Keys : rows'[k] = rows[k] \/ rows'[k] = "legacy"
    BY <1>1 DEF LookupInv, RowsKnown
  <2>2. rows' \in [Keys -> {"none", "indexed", "legacy"}] /\ rows'[target] # "none"
    BY <1>1, <2>1 DEF LookupInv, RowsKnown
  <2> QED BY <1>1, <2>1, <2>2 DEF LookupInv, RowsKnown, OneLocator
<1>3. cookie' \in Cookies /\ ~ cookie'.steady
  BY <1>1 DEF LookupInv, Cookies
<1>4. ASSUME NEW v \in Tabs PROVE Shaped(tab'[v]) /\ ~ tab'[v].steady
  <2>1. tab'[v] = [tab[v] EXCEPT !.steady = FALSE] /\ Shaped(tab[v])
    BY <1>1 DEF LookupInv
  <2> QED BY <2>1 DEF Shaped, TabRecords
<1>5. CookieSound(cookie', Row') /\ \A v \in Tabs : TabSound(tab'[v], Row')
  BY <1>3, <1>4 DEF CookieSound, TabSound
<1>6. tab' = [v \in Tabs |-> tab'[v]]
  BY <1>1
<1> QED BY <1>2, <1>3, <1>4, <1>5, <1>6 DEF LookupInv

LEMMA TabFacts ==
  ASSUME LookupInv, NEW v \in Tabs
  PROVE  /\ tab[v] \in TabRecords /\ (tab[v].more => tab[v].ids # {}) /\ TabSound(tab[v], Row)
         /\ tab[v].key \in Keys \cup {0} /\ tab[v].steady \in BOOLEAN /\ tab[v].ids \in SUBSET Keys
         /\ CookieSound(cookie, Row) /\ cookie \in Cookies
         /\ Row.live = linked /\ Row.key = target /\ Row.kind = kind /\ Row.class = rows[target]
         /\ target \in Keys /\ rows[target] \in {"indexed", "legacy"} /\ linked \in BOOLEAN /\ 0 < target
BY KeysAreNat DEF LookupInv, Shaped, TabRecords, RowsKnown, Row

(* A request begins where the cookie says, or at the beginning.             *)
LEMMA TabAsksInv == ASSUME LookupInv, NEW v \in Tabs, TabAsks(v) PROVE LookupInv'
<1> DEFINE fresh == [phase |-> "none", key |-> 0, steady |-> linked]
<1>1. UNCHANGED <<cookie, running>>
  BY DEF TabAsks
<1>2. PICK record :
        /\ TabStep(v, record)
        /\ \/ record = Asking("found", fresh)
           \/ cookie.phase = "l" /\ record = Asking("waiting", cookie)
           \/ cookie.phase = "i" /\ record = Asking("seeking", cookie)
           \/ record = Asking("seeking", fresh)
  BY DEF TabAsks
<1>3. fresh.key = 0 /\ fresh.steady = linked /\ fresh.key \in Keys \cup {0} /\ fresh.steady \in BOOLEAN
  BY TabFacts
<1> HIDE DEF fresh
<1>4. cookie.key \in Keys \cup {0} /\ cookie.steady \in BOOLEAN
  BY DEF LookupInv, Cookies
<1>5. Shaped(record) /\ TabSound(record, Row)
  <2>0. "found" \in Answers
    BY DEF Answers
  <2>1. CASE record = Asking("found", fresh)
    <3>1. Shaped(record) /\ record.at = "found" /\ record.steady = linked
      BY <1>3, <2>0, <2>1, TabFacts, AskingIs
    <3> QED BY <3>1, TabFacts DEF TabSound
  <2>2. CASE cookie.phase = "l" /\ record = Asking("waiting", cookie)
    <3>0. "waiting" \in Answers \cup Scanning \cup {"seeking", "indexed", "waiting"}
      OBVIOUS
    <3>1. Shaped(record) /\ record.at = "waiting" /\ record.steady = cookie.steady /\ record.key = cookie.key
      BY <1>4, <2>2, <3>0, AskingIs, Zenon
    <3>2. cookie.steady => linked /\ rows[target] = "legacy" /\ cookie.key < target
      BY <2>2, TabFacts DEF CookieSound
    <3> QED BY <3>1, <3>2, TabFacts DEF TabSound
  <2>3. CASE cookie.phase = "i" /\ record = Asking("seeking", cookie)
    <3>1. Shaped(record) /\ record.at = "seeking" /\ record.steady = cookie.steady /\ record.key = cookie.key
      BY <1>4, <2>3, AskingIs
    <3> QED BY <2>3, <3>1, TabFacts DEF TabSound, CookieSound
  <2>4. CASE record = Asking("seeking", fresh)
    <3>1. Shaped(record) /\ record.at = "seeking" /\ record.steady = linked /\ record.key = 0
      BY <1>3, <2>4, TabFacts, AskingIs
    <3> QED BY <3>1, TabFacts DEF TabSound
  <2> QED BY <1>2, <2>1, <2>2, <2>3, <2>4
<1>6. cookie' \in Cookies /\ CookieSound(cookie', Row)
  BY <1>1, TabFacts
<1> QED BY <1>2, <1>5, <1>6, TabKeeps DEF TabStep

LEMMA ListsInv == ASSUME LookupInv, NEW v \in Tabs, ListIndexed(v) \/ ListLegacy(v) PROVE LookupInv'
<1>1. cookie' = cookie
  BY DEF ListIndexed, ListLegacy
<1>2. cookie' \in Cookies /\ CookieSound(cookie', Row)
  BY <1>1, TabFacts
<1>3. CASE ListIndexed(v)
  <2> DEFINE record == Listed(v, "indexed", "indexed")
  <2>1. kind = "gallery" /\ tab[v].at = "seeking" /\ TabStep(v, record)
    BY <1>3 DEF ListIndexed
  <2>2. /\ Shaped(record) /\ record.at = "indexed" /\ record.steady = tab[v].steady
        /\ rows[target] = "indexed" /\ tab[v].key < target => Ahead(record, Row)
    BY ListedSound
  <2> HIDE DEF record
  <2>3. TabSound(record, Row)
    BY <2>1, <2>2, TabFacts DEF TabSound
  <2> QED BY <1>2, <2>1, <2>2, <2>3, TabKeeps DEF TabStep
<1>4. CASE ListLegacy(v)
  <2> DEFINE record == Listed(v, "legacy", "legacy")
  <2>1. tab[v].at = "scanning" /\ TabStep(v, record)
    BY <1>4 DEF ListLegacy
  <2>2. /\ Shaped(record) /\ record.at = "legacy" /\ record.steady = tab[v].steady
        /\ rows[target] = "legacy" /\ tab[v].key < target => Ahead(record, Row)
    BY ListedSound
  <2> HIDE DEF record
  <2>3. TabSound(record, Row)
    BY <2>1, <2>2, TabFacts DEF TabSound
  <2> QED BY <1>2, <2>1, <2>2, <2>3, TabKeeps DEF TabStep
<1> QED BY <1>3, <1>4

(* The cursor of a finished window stops before a row that lies behind it.  *)
LEMMA CursorStops ==
  ASSUME LookupInv, NEW v \in Tabs, tab[v].more
  PROVE  /\ LastOf(tab[v].ids) \in Keys
         /\ Ahead(tab[v], Row) /\ target \notin tab[v].ids => LastOf(tab[v].ids) < target
<1>1. tab[v].ids \in SUBSET Keys /\ tab[v].ids # {} /\ Row.key = target
  BY TabFacts
<1>2. LastOf(tab[v].ids) \in tab[v].ids
  BY <1>1, LastOfWindow
<1> QED BY <1>1, <1>2 DEF Ahead

LEMMA CheckIndexedInv == ASSUME LookupInv, NEW v \in Tabs, CheckIndexed(v) PROVE LookupInv'
<1>0. tab[v].at = "indexed" /\ {"found", "again", "missing"} \subseteq Answers
  BY DEF CheckIndexed, Answers
<1>1. CASE Matches(tab[v].ids) /\ TabStep(v, Answered(v, "found")) /\ cookie' = Saved(v, "h", target)
  <2>1. Shaped(Answered(v, "found")) /\ TabSound(Answered(v, "found"), Row)
    BY <1>0, AnsweredIs
  <2>2. cookie' \in Cookies /\ CookieSound(cookie', Row)
    <3>1. /\ cookie' \in Cookies /\ cookie'.phase = "h" /\ cookie'.steady = tab[v].steady
      BY <1>1, TabFacts, CookiesAre
    <3> QED BY <3>1, TabFacts DEF CookieSound, TabSound
  <2> QED BY <1>1, <2>1, <2>2, TabKeeps DEF TabStep
<1>2. CASE /\ ~ Matches(tab[v].ids) /\ tab[v].more
           /\ TabStep(v, Answered(v, "again")) /\ cookie' = Saved(v, "i", LastOf(tab[v].ids))
  <2>1. Shaped(Answered(v, "again")) /\ TabSound(Answered(v, "again"), Row)
    BY <1>0, AnsweredIs
  <2>2. LastOf(tab[v].ids) \in Keys
        /\ (Ahead(tab[v], Row) /\ target \notin tab[v].ids => LastOf(tab[v].ids) < target)
    BY <1>2, CursorStops
  <2>3. /\ cookie' \in Cookies /\ cookie'.phase = "i" /\ cookie'.steady = tab[v].steady
        /\ cookie'.key = LastOf(tab[v].ids)
    BY <1>2, <2>2, CookiesAre
  <2>4. tab[v].steady => linked /\ target \notin tab[v].ids
    BY <1>2, TabFacts DEF TabSound, Matches
  <2>5. CookieSound(cookie', Row)
    BY <1>0, <2>2, <2>3, <2>4, TabFacts DEF CookieSound, TabSound
  <2> QED BY <1>2, <2>1, <2>3, <2>5, TabKeeps DEF TabStep
<1>3. CASE /\ ~ Matches(tab[v].ids) /\ ~ tab[v].more
           /\ TabStep(v, Asking("waiting", [key |-> 0, steady |-> tab[v].steady])) /\ UNCHANGED cookie
  <2> DEFINE cursor == [key |-> 0, steady |-> tab[v].steady]
             record == Asking("waiting", cursor)
  <2>1. /\ cursor.key = 0 /\ cursor.steady = tab[v].steady
        /\ cursor.key \in Keys \cup {0} /\ cursor.steady \in BOOLEAN
    BY TabFacts
  <2>2. TabStep(v, record) /\ cookie' = cookie
    BY <1>3
  <2> HIDE DEF cursor
  <2>3. Shaped(record) /\ record.at = "waiting" /\ record.key = 0 /\ record.steady = tab[v].steady
    BY <2>1, TabFacts, AskingIs
  <2>4. tab[v].steady => linked /\ target \notin tab[v].ids
    BY <1>3, TabFacts DEF TabSound, Matches
  <2>5. tab[v].steady => rows[target] = "legacy"
    BY <1>0, <1>3, <2>4, TabFacts DEF TabSound, Ahead
  <2> HIDE DEF record
  <2>6. TabSound(record, Row)
    BY <2>3, <2>4, <2>5, TabFacts DEF TabSound
  <2> QED BY <2>2, <2>3, <2>6, TabFacts, TabKeeps DEF TabStep
<1> QED BY <1>1, <1>2, <1>3 DEF CheckIndexed

(* The locator's row takes at most one of the window's comparisons.         *)
LEMMA RoomIsLeft ==
  ASSUME LookupInv, kind = "verification"
  PROVE  LookupWindow - Cardinality({k \in Keys : rows[k] = "indexed"}) \in 1..LookupWindow
<1> DEFINE located == {k \in Keys : rows[k] = "indexed"}
<1>1. located = {} \/ \E k \in Keys : located = {k}
  BY DEF LookupInv, OneLocator
<1> HIDE DEF located
<1>2. Cardinality(located) \in {0, 1}
  BY <1>1, FS_EmptySet, FS_Singleton
<1>3. LookupWindow - Cardinality(located) \in 1..LookupWindow
  BY <1>2, KeysAreNat
<1> QED BY <1>3 DEF located

LEMMA CheckLocatorInv == ASSUME LookupInv, NEW v \in Tabs, CheckLocator(v) PROVE LookupInv'
<1> DEFINE located == {k \in Keys : rows[k] = "indexed"}
<1>0. kind = "verification" /\ tab[v].at = "seeking" /\ "found" \in Answers
  BY DEF CheckLocator, Answers
<1>1. CASE Matches(located) /\ TabStep(v, Answered(v, "found")) /\ cookie' = NoCookie
  <2>1. Shaped(Answered(v, "found")) /\ TabSound(Answered(v, "found"), Row)
    BY <1>0, AnsweredIs
  <2>2. cookie' \in Cookies /\ CookieSound(cookie', Row)
    BY <1>1, CookiesAre
  <2> QED BY <1>1, <2>1, <2>2, TabKeeps DEF TabStep
<1>2. CASE /\ ~ Matches(located) /\ UNCHANGED cookie
           /\ \E room \in {LookupWindow} \cup {LookupWindow - Cardinality(located)} :
                TabStep(v, [tab[v] EXCEPT !.at = "waiting", !.room = room])
  <2>1. PICK room \in {LookupWindow} \cup {LookupWindow - Cardinality(located)} :
          TabStep(v, [tab[v] EXCEPT !.at = "waiting", !.room = room])
    BY <1>2
  <2>2. LookupWindow \in 1..LookupWindow
    BY KeysAreNat
  <2>3. room \in 1..LookupWindow
    BY <1>0, <2>1, <2>2, RoomIsLeft
  <2>4. tab[v].steady => linked /\ rows[target] = "legacy"
    BY <1>2, TabFacts DEF TabSound, Matches
  <2> DEFINE record == [tab[v] EXCEPT !.at = "waiting", !.room = room]
  <2>5. Shaped(record) /\ record.at = "waiting" /\ record.key = tab[v].key /\ record.steady = tab[v].steady
    BY <2>3, TabFacts DEF Shaped, TabRecords
  <2>6. TabStep(v, record)
    BY <2>1
  <2> HIDE DEF record
  <2>7. TabSound(record, Row)
    BY <1>0, <2>4, <2>5, TabFacts DEF TabSound
  <2> QED BY <1>2, <2>5, <2>6, <2>7, TabFacts, TabKeeps DEF TabStep
<1> QED BY <1>1, <1>2 DEF CheckLocator

LEMMA ScansBeginInv == ASSUME LookupInv, NEW v \in Tabs, ScanAdmitted(v) \/ ScanRefused(v) PROVE LookupInv'
<1>1. cookie' = cookie /\ tab[v].at = "waiting" /\ "again" \in Answers
  BY DEF ScanAdmitted, ScanRefused, Answers
<1>2. CASE ScanAdmitted(v)
  <2> DEFINE record == [tab[v] EXCEPT !.at = "scanning"]
  <2>1. Shaped(record) /\ record.at = "scanning" /\ record.key = tab[v].key /\ record.steady = tab[v].steady
    BY TabFacts DEF Shaped, TabRecords, Scanning
  <2>2. TabStep(v, record)
    BY <1>2 DEF ScanAdmitted
  <2> HIDE DEF record
  <2>3. TabSound(record, Row)
    BY <1>1, <2>1, TabFacts DEF TabSound
  <2> QED BY <1>1, <2>1, <2>2, <2>3, TabFacts, TabKeeps DEF TabStep
<1>3. CASE ScanRefused(v)
  <2>1. TabStep(v, Answered(v, "again"))
    BY <1>3 DEF ScanRefused
  <2>2. Shaped(Answered(v, "again")) /\ TabSound(Answered(v, "again"), Row)
    BY <1>1, AnsweredIs
  <2> QED BY <1>1, <2>1, <2>2, TabFacts, TabKeeps DEF TabStep
<1> QED BY <1>2, <1>3

LEMMA CheckLegacyInv == ASSUME LookupInv, NEW v \in Tabs, CheckLegacy(v) PROVE LookupInv'
<1>0. tab[v].at = "legacy" /\ {"found", "again", "missing"} \subseteq Answers
  BY DEF CheckLegacy, Answers
<1>1. CASE /\ Matches(tab[v].ids) /\ TabStep(v, Answered(v, "found"))
           /\ cookie' = IF kind = "gallery" THEN Saved(v, "h", target) ELSE NoCookie
  <2>1. Shaped(Answered(v, "found")) /\ TabSound(Answered(v, "found"), Row)
    BY <1>0, AnsweredIs
  <2>2. cookie' \in Cookies /\ CookieSound(cookie', Row)
    <3>1. CASE cookie' = NoCookie
      BY <3>1, CookiesAre
    <3>2. CASE cookie' = Saved(v, "h", target)
      <4>1. cookie' \in Cookies /\ cookie'.phase = "h" /\ cookie'.steady = tab[v].steady
        BY <3>2, TabFacts, CookiesAre
      <4> QED BY <4>1, TabFacts DEF CookieSound, TabSound
    <3> QED BY <1>1, <3>1, <3>2
  <2> QED BY <1>1, <2>1, <2>2, TabKeeps DEF TabStep
<1>2. CASE /\ ~ Matches(tab[v].ids) /\ tab[v].more
           /\ TabStep(v, Answered(v, "again")) /\ cookie' = Saved(v, "l", LastOf(tab[v].ids))
  <2>1. Shaped(Answered(v, "again")) /\ TabSound(Answered(v, "again"), Row)
    BY <1>0, AnsweredIs
  <2>2. LastOf(tab[v].ids) \in Keys
        /\ (Ahead(tab[v], Row) /\ target \notin tab[v].ids => LastOf(tab[v].ids) < target)
    BY <1>2, CursorStops
  <2>3. /\ cookie' \in Cookies /\ cookie'.phase = "l" /\ cookie'.steady = tab[v].steady
        /\ cookie'.key = LastOf(tab[v].ids)
    BY <1>2, <2>2, CookiesAre
  <2>4. tab[v].steady => linked /\ target \notin tab[v].ids
    BY <1>2, TabFacts DEF TabSound, Matches
  <2>5. CookieSound(cookie', Row)
    BY <1>0, <2>2, <2>3, <2>4, TabFacts DEF CookieSound, TabSound
  <2> QED BY <1>2, <2>1, <2>3, <2>5, TabKeeps DEF TabStep
<1>3. CASE /\ ~ Matches(tab[v].ids) /\ ~ tab[v].more
           /\ TabStep(v, Answered(v, "missing")) /\ cookie' = NoCookie
  <2>1. ~ tab[v].steady
    BY <1>0, <1>3, TabFacts DEF TabSound, Matches, Ahead
  <2>2. Shaped(Answered(v, "missing")) /\ TabSound(Answered(v, "missing"), Row)
    BY <1>0, <2>1, AnsweredIs
  <2>3. cookie' \in Cookies /\ CookieSound(cookie', Row)
    BY <1>3, CookiesAre
  <2> QED BY <1>3, <2>2, <2>3, TabKeeps DEF TabStep
<1> QED BY <1>1, <1>2, <1>3 DEF CheckLegacy

LEMMA ScanAbandonedInv == ASSUME LookupInv, NEW v \in Tabs, ScanAbandoned(v) PROVE LookupInv'
<1>1. tab' = [tab EXCEPT ![v] = Answered(v, "idle")] /\ UNCHANGED <<kind, rows, target, linked, cookie>>
      /\ "idle" \in Answers
  BY DEF ScanAbandoned, Answers
<1>2. Shaped(Answered(v, "idle")) /\ TabSound(Answered(v, "idle"), Row)
  BY <1>1, AnsweredIs
<1> QED BY <1>1, <1>2, TabFacts, TabKeeps

LEMMA LookupStepInv == LookupInv /\ [LookupNext]_lookupVars => LookupInv'
<1> SUFFICES ASSUME LookupInv, [LookupNext]_lookupVars PROVE LookupInv'
  OBVIOUS
<1>1. CASE UNCHANGED lookupVars
  BY <1>1 DEF lookupVars, LookupInv, RowsKnown, OneLocator, Row
<1>2. CASE LookupNext
  <2>1. CASE (\E k \in Keys, class \in {"none", "indexed", "legacy"} : Churn(k, class)) \/ LinkRevived \/ CookieExpires
    BY <2>1, RowStepsInv
  <2>2. CASE LinkDies
    BY <2>2, LinkDiesInv
  <2>3. ASSUME NEW v \in Tabs, TabContinues(v) \/ ScanAbandoned(v) PROVE LookupInv'
    BY <2>3, TabAsksInv, ListsInv, CheckIndexedInv, CheckLocatorInv, ScansBeginInv, CheckLegacyInv, ScanAbandonedInv
       DEF TabContinues
  <2> QED BY <1>2, <2>1, <2>2, <2>3 DEF LookupNext
<1> QED BY <1>1, <1>2

(* No number of tabs, windows and rows makes the two resolvers answer "not  *)
(* found" to a link that was live since its traversal began.                *)
THEOREM NeverFalseMissing == LookupSpec => []NoFalseMissing
<1>1. LookupInit => LookupInv
  BY LookupInitInv
<1>2. LookupInv /\ [LookupNext]_lookupVars => LookupInv'
  BY LookupStepInv
<1>3. LookupInv => NoFalseMissing
  BY DEF LookupInv, TabSound, NoFalseMissing
<1> QED BY <1>1, <1>2, <1>3, PTL DEF LookupSpec

(* The scanning slots: however a scan ends, the tab and its slot go together. *)

\* The tabs that hold a slot.
Scans == {v \in Tabs : tab[v].at \in Scanning}

\* The counter of legacy scans counts the requests that scan.
ScansCounted ==
  /\ running = Cardinality(Scans) /\ running <= MaxScans
  /\ mishaps \in 0..MaxMishaps

LEMMA ScansFinite == IsFiniteSet(Scans) /\ Cardinality(Scans) \in Nat /\ (Scans # {} => Cardinality(Scans) >= 1)
<1>1. IsFiniteSet(Scans)
  BY LookupAssumption, FS_Subset DEF Scans
<1>2. Cardinality(Scans) \in Nat /\ (Cardinality(Scans) = 0 <=> Scans = {})
  BY <1>1, FS_CardinalityType, FS_EmptySet
<1> QED BY <1>1, <1>2

\* Tab v goes to another place, the other tabs stay.
TabMoves(v, at) == \A w \in Tabs : tab'[w].at = IF w = v THEN at ELSE tab[w].at

(* How one tab's step changes the number of scans.                          *)
LEMMA ScansMove ==
  ASSUME LookupInv, NEW v \in Tabs, NEW at, TabMoves(v, at)
  PROVE  /\ (at \in Scanning <=> tab[v].at \in Scanning) => Cardinality(Scans') = Cardinality(Scans)
         /\ at \in Scanning /\ tab[v].at \notin Scanning => Cardinality(Scans') = Cardinality(Scans) + 1
         /\ at \notin Scanning /\ tab[v].at \in Scanning =>
              Cardinality(Scans') = Cardinality(Scans) - 1 /\ Cardinality(Scans) >= 1
<1>2. (at \in Scanning <=> tab[v].at \in Scanning) => Scans' = Scans
  BY DEF Scans, TabMoves
<1>3. at \in Scanning /\ tab[v].at \notin Scanning => Scans' = Scans \cup {v} /\ v \notin Scans
  BY DEF Scans, TabMoves
<1>4. at \notin Scanning /\ tab[v].at \in Scanning => Scans' = Scans \ {v} /\ v \in Scans
  BY DEF Scans, TabMoves
<1>5. v \notin Scans => Cardinality(Scans \cup {v}) = Cardinality(Scans) + 1
  BY ScansFinite, FS_AddElement
<1>6. v \in Scans => Cardinality(Scans \ {v}) = Cardinality(Scans) - 1
  BY ScansFinite, FS_RemoveElement
<1>7. v \in Scans => Cardinality(Scans) >= 1
  BY ScansFinite
<1> QED BY <1>2, <1>3, <1>4, <1>5, <1>6, <1>7

(* The records a step gives a tab move it to the place they name.           *)
LEMMA TabsMove ==
  ASSUME LookupInv, NEW v \in Tabs, NEW at
  PROVE  /\ \A cursor : tab' = [tab EXCEPT ![v] = Asking(at, cursor)] => TabMoves(v, at)
         /\ tab' = [tab EXCEPT ![v] = Answered(v, at)] => TabMoves(v, at)
         /\ \A class : tab' = [tab EXCEPT ![v] = Listed(v, at, class)] => TabMoves(v, at)
         /\ tab' = [tab EXCEPT ![v] = [tab[v] EXCEPT !.at = at]] => TabMoves(v, at)
         /\ \A room : tab' = [tab EXCEPT ![v] = [tab[v] EXCEPT !.at = at, !.room = room]] => TabMoves(v, at)
<1>1. tab \in [Tabs -> TabRecords]
  BY DEF LookupInv, Shaped
<1>2. ASSUME NEW record, record.at = at, tab' = [tab EXCEPT ![v] = record] PROVE TabMoves(v, at)
  BY <1>1, <1>2 DEF TabMoves
<1>3. ASSUME NEW cursor PROVE Asking(at, cursor).at = at
  BY DEF Asking
<1>4. Answered(v, at).at = at
  BY DEF Answered, Asking
<1>5. ASSUME NEW class PROVE Listed(v, at, class).at = at
  BY <1>1 DEF Listed, TabRecords
<1>6. [tab[v] EXCEPT !.at = at].at = at /\ \A room : [tab[v] EXCEPT !.at = at, !.room = room].at = at
  BY <1>1 DEF TabRecords
<1> QED BY <1>2, <1>3, <1>4, <1>5, <1>6

(* The steps of a tab that enters or leaves no scan.                        *)
LEMMA QuietTab ==
  ASSUME LookupInv, NEW v \in Tabs,
         TabAsks(v) \/ ListIndexed(v) \/ CheckIndexed(v) \/ CheckLocator(v) \/ ScanRefused(v) \/ ListLegacy(v)
  PROVE  UNCHANGED <<running, mishaps>> /\ Cardinality(Scans') = Cardinality(Scans)
<1>1. UNCHANGED <<running, mishaps>>
  BY DEF TabAsks, ListIndexed, CheckIndexed, CheckLocator, ScanRefused, ListLegacy, TabStep
<1>2. \E at : TabMoves(v, at) /\ (at \in Scanning <=> tab[v].at \in Scanning)
  <2>1. CASE TabAsks(v)
    <3>1. TabMoves(v, "found") \/ TabMoves(v, "waiting") \/ TabMoves(v, "seeking")
      BY <2>1, TabsMove DEF TabAsks, TabStep
    <3> QED BY <2>1, <3>1 DEF TabAsks, Answers, Scanning
  <2>2. CASE ListIndexed(v)
    <3>1. TabMoves(v, "indexed")
      BY <2>2, TabsMove DEF ListIndexed, TabStep
    <3> QED BY <2>2, <3>1 DEF ListIndexed, Scanning
  <2>3. CASE CheckIndexed(v)
    <3>1. TabMoves(v, "found") \/ TabMoves(v, "again") \/ TabMoves(v, "waiting")
      BY <2>3, TabsMove DEF CheckIndexed, TabStep
    <3> QED BY <2>3, <3>1 DEF CheckIndexed, Scanning
  <2>4. CASE CheckLocator(v)
    <3>1. TabMoves(v, "found") \/ TabMoves(v, "waiting")
      BY <2>4, TabsMove DEF CheckLocator, TabStep
    <3> QED BY <2>4, <3>1 DEF CheckLocator, Scanning
  <2>5. CASE ScanRefused(v)
    <3>1. TabMoves(v, "again")
      BY <2>5, TabsMove DEF ScanRefused, TabStep
    <3> QED BY <2>5, <3>1 DEF ScanRefused, Scanning
  <2>6. CASE ListLegacy(v)
    <3>1. TabMoves(v, "legacy")
      BY <2>6, TabsMove DEF ListLegacy, TabStep
    <3> QED BY <2>6, <3>1 DEF ListLegacy, Scanning
  <2> QED BY <2>1, <2>2, <2>3, <2>4, <2>5, <2>6
<1> QED BY <1>1, <1>2, ScansMove

LEMMA ScansStep == ASSUME LookupInv, ScansCounted, [LookupNext]_lookupVars PROVE ScansCounted'
<1>0. MaxScans \in Nat /\ MaxMishaps \in Nat /\ Cardinality(Scans) \in Nat
  BY LookupAssumption, ScansFinite
<1>1. CASE UNCHANGED lookupVars
  BY <1>1 DEF lookupVars, ScansCounted, Scans
<1>2. ASSUME NEW k \in Keys, NEW class \in {"none", "indexed", "legacy"}, Churn(k, class) PROVE ScansCounted'
  BY <1>2 DEF Churn, ScansCounted, Scans
<1>3. CASE LinkRevived \/ CookieExpires
  <2>1. UNCHANGED <<tab, running>> /\ mishaps' \in 0..MaxMishaps
    BY <1>0, <1>3 DEF LinkRevived, CookieExpires, ScansCounted
  <2> QED BY <2>1 DEF ScansCounted, Scans
<1>4. CASE LinkDies
  <2>1. \A w \in Tabs : tab[w] \in TabRecords
    BY DEF LookupInv, Shaped
  <2>2. tab' = [w \in Tabs |-> [tab[w] EXCEPT !.steady = FALSE]] /\ UNCHANGED <<running, mishaps>>
    BY <1>4 DEF LinkDies
  <2>3. \A w \in Tabs : tab'[w].at = tab[w].at
    BY <2>1, <2>2 DEF TabRecords
  <2>4. Scans' = Scans
    BY <2>3 DEF Scans
  <2> QED BY <2>2, <2>4 DEF ScansCounted
<1>5. ASSUME NEW v \in Tabs, ScanAdmitted(v) PROVE ScansCounted'
  <2>1. tab[v].at = "waiting" /\ running < MaxScans /\ running' = running + 1 /\ UNCHANGED mishaps
    BY <1>5 DEF ScanAdmitted, TabStep
  <2>2. TabMoves(v, "scanning")
    BY <1>5, TabsMove DEF ScanAdmitted, TabStep
  <2>3. Cardinality(Scans') = Cardinality(Scans) + 1
    BY <2>1, <2>2, ScansMove DEF Scanning
  <2> QED BY <1>0, <2>1, <2>3 DEF ScansCounted
<1>6. ASSUME NEW v \in Tabs, CheckLegacy(v) \/ ScanAbandoned(v) PROVE ScansCounted'
  <2>1. tab[v].at \in Scanning /\ running' = running - 1 /\ mishaps' \in 0..MaxMishaps
    BY <1>0, <1>6 DEF CheckLegacy, ScanAbandoned, TabStep, Scanning, ScansCounted
  <2>2. \E at \in Answers : TabMoves(v, at)
    BY <1>6, TabsMove DEF CheckLegacy, ScanAbandoned, TabStep, Answers
  <2>3. Cardinality(Scans') = Cardinality(Scans) - 1 /\ Cardinality(Scans) >= 1
    BY <2>1, <2>2, ScansMove DEF Scanning, Answers
  <2> QED BY <1>0, <2>1, <2>3 DEF ScansCounted
<1>7. ASSUME NEW v \in Tabs,
             TabAsks(v) \/ ListIndexed(v) \/ CheckIndexed(v) \/ CheckLocator(v) \/ ScanRefused(v) \/ ListLegacy(v)
      PROVE  ScansCounted'
  BY <1>7, QuietTab DEF ScansCounted
<1> QED BY <1>1, <1>2, <1>3, <1>4, <1>5, <1>6, <1>7 DEF LookupNext, TabContinues

(* The counter of legacy scans counts the requests that are scanning, however a   *)
(* scan ends or is abandoned; and every variable keeps its type                   *)
(* (legacy_token_scan).                                                            *)
THEOREM ScansAlwaysCounted == LookupSpec => [](LookupTypeOK /\ ScansCounted)
<1>1. LookupInit => LookupInv /\ ScansCounted
  <2> SUFFICES ASSUME LookupInit PROVE ScansCounted
    BY LookupInitInv
  <2>1. \A v \in Tabs : tab[v].at = "idle"
    BY DEF LookupInit, Asking
  <2>2. Scans = {}
    BY <2>1 DEF Scans, Scanning
  <2> QED BY <2>2, FS_EmptySet, LookupAssumption DEF LookupInit, ScansCounted
<1>2. LookupInv /\ ScansCounted /\ [LookupNext]_lookupVars => LookupInv' /\ ScansCounted'
  BY LookupStepInv, ScansStep
<1>3. LookupInv /\ ScansCounted => LookupTypeOK
  <2> SUFFICES ASSUME LookupInv, ScansCounted PROVE LookupTypeOK
    OBVIOUS
  <2>1. running \in 0..MaxScans /\ mishaps \in 0..MaxMishaps
    BY ScansFinite, LookupAssumption DEF ScansCounted
  <2>2. cookie \in Cookies /\ tab \in [Tabs -> TabRecords]
    BY DEF LookupInv, Shaped
  <2> QED BY <2>1, <2>2 DEF LookupTypeOK, LookupInv, RowsKnown, Cookies, TabRecords
<1> QED BY <1>1, <1>2, <1>3, PTL DEF LookupSpec

-----------------------------------------------------------------------------
(* Page by page through a gallery (GuestPages)                              *)

\* One image precedes another in the listing.
Pre(i, j, direction) == Precedes(picture[i].key, i, picture[j].key, j, direction)

\* A cursor has passed an image.
Passed(c, i) == ~ Precedes(c.key, c.id, picture[i].key, i, c.direction)

PicturesKnown ==
  /\ picture \in [Pictures -> [at : {"new", "present", "gone"}, key : SortKeys, matches : BOOLEAN]]
  /\ shown \in [Pictures -> 0..2]
  /\ steady \subseteq Passing

ReadingSound ==
  /\ reading.at = "none" => steady = {}
  /\ reading.at = "open" =>
       reading.cursor \in Cursors /\ \A i \in steady : shown[i] = IF Passed(reading.cursor, i) THEN 1 ELSE 0
  /\ reading.at = "done" => \A i \in steady : shown[i] = 1
  /\ reading.at = "refused" => \A i \in steady : shown[i] <= 1
  /\ reading.at \in {"none", "open", "done", "refused"}

PagesInv == PicturesKnown /\ ReadingSound

LEMMA PicturesAre ==
  Pictures \subseteq Nat /\ IsFiniteSet(Pictures) /\ PageLimit \in Nat /\ PageLimit >= 1 /\ SortKeys \subseteq Nat
<1>1. IsFiniteSet(1..LastImage)
  BY PagesAssumption, FS_Interval
<1> QED BY <1>1, PagesAssumption DEF Pictures

(* The order of a listing is a strict total order.                          *)
LEMMA OrderIsTotal ==
  ASSUME NEW k \in Nat, NEW i \in Nat, NEW l \in Nat, NEW j \in Nat, NEW d \in Directions
  PROVE  /\ ~ Precedes(k, i, k, i, d)
         /\ Precedes(k, i, l, j, d) => ~ Precedes(l, j, k, i, d)
         /\ Precedes(k, i, l, j, d) \/ Precedes(l, j, k, i, d) \/ (k = l /\ i = j)
<1>1. CASE d = "asc"
  BY <1>1 DEF Precedes
<1>2. CASE d = "desc"
  BY <1>2 DEF Precedes
<1> QED BY <1>1, <1>2 DEF Directions

LEMMA OrderIsTransitive ==
  ASSUME NEW k \in Nat, NEW i \in Nat, NEW l \in Nat, NEW j \in Nat, NEW m \in Nat, NEW n \in Nat, NEW d \in Directions,
         Precedes(k, i, l, j, d), Precedes(l, j, m, n, d)
  PROVE  Precedes(k, i, m, n, d)
<1>1. CASE d = "asc"
  BY <1>1 DEF Precedes
<1>2. CASE d = "desc"
  BY <1>2 DEF Precedes
<1> QED BY <1>1, <1>2 DEF Directions

LEMMA PicturesInOrder ==
  ASSUME PicturesKnown, NEW d \in Directions
  PROVE  /\ \A i \in Pictures : ~ Pre(i, i, d) /\ picture[i].key \in SortKeys /\ picture[i].key \in Nat /\ i \in Nat
         /\ \A i, j \in Pictures : Pre(i, j, d) => ~ Pre(j, i, d)
         /\ \A i, j \in Pictures : Pre(i, j, d) \/ Pre(j, i, d) \/ i = j
         /\ \A i, j, k \in Pictures : Pre(i, j, d) /\ Pre(j, k, d) => Pre(i, k, d)
<1>1. ASSUME NEW i \in Pictures PROVE picture[i].key \in SortKeys /\ picture[i].key \in Nat /\ i \in Nat
  BY PicturesAre DEF PicturesKnown
<1>2. ASSUME NEW i \in Pictures, NEW j \in Pictures, NEW k \in Pictures
      PROVE  /\ ~ Pre(i, i, d) /\ (Pre(i, j, d) => ~ Pre(j, i, d)) /\ (Pre(i, j, d) \/ Pre(j, i, d) \/ i = j)
             /\ (Pre(i, j, d) /\ Pre(j, k, d) => Pre(i, k, d))
  <2> DEFINE a == picture[i].key  b == picture[j].key  c == picture[k].key
  <2>1. a \in Nat /\ b \in Nat /\ c \in Nat /\ i \in Nat /\ j \in Nat /\ k \in Nat
    BY <1>1
  <2> HIDE DEF a, b, c
  <2>2. /\ ~ Precedes(a, i, a, i, d) /\ (Precedes(a, i, b, j, d) => ~ Precedes(b, j, a, i, d))
        /\ (Precedes(a, i, b, j, d) \/ Precedes(b, j, a, i, d) \/ i = j)
    BY <2>1, OrderIsTotal
  <2>3. Precedes(a, i, b, j, d) /\ Precedes(b, j, c, k, d) => Precedes(a, i, c, k, d)
    BY <2>1, OrderIsTransitive
  <2> QED BY <2>2, <2>3 DEF Pre, a, b, c
<1> QED BY <1>1, <1>2

(* Every nonempty listing has a last image.                                 *)
LEMMA LastExists ==
  ASSUME PicturesKnown, NEW d \in Directions, NEW listing \in SUBSET Pictures, listing # {}
  PROVE  \E m \in listing : \A j \in listing \ {m} : Pre(j, m, d)
<1> DEFINE Bad == {s \in SUBSET listing : s # {} /\ ~ \E m \in s : \A j \in s \ {m} : Pre(j, m, d)}
<1> SUFFICES ASSUME Bad # {} PROVE FALSE
  OBVIOUS
<1>0. IsFiniteSet(listing)
  BY PicturesAre, FS_Subset
<1>1. PICK s \in Bad : \A x \in s : s \ {x} \notin Bad
  <2>1. Bad \subseteq SUBSET listing
    OBVIOUS
  <2> HIDE DEF Bad
  <2> QED BY <1>0, <2>1, SmallestWithout
<1>2. PICK x \in s : TRUE
  BY <1>1
<1>3. s \subseteq Pictures
  BY <1>1
<1>4. CASE s \ {x} = {}
  BY <1>1, <1>2, <1>4
<1>5. CASE s \ {x} # {}
  <2>1. PICK m \in s \ {x} : \A j \in (s \ {x}) \ {m} : Pre(j, m, d)
    BY <1>1, <1>5
  <2>2. CASE Pre(x, m, d)
    <3>1. \A j \in s \ {m} : Pre(j, m, d)
      BY <2>1, <2>2
    <3> QED BY <1>1, <2>1, <3>1
  <2>3. CASE Pre(m, x, d)
    <3>1. ASSUME NEW j \in s \ {x} PROVE Pre(j, x, d)
      BY <1>2, <1>3, <2>1, <2>3, PicturesInOrder
    <3> QED BY <1>1, <1>2, <3>1
  <2> QED BY <1>2, <1>3, <2>1, <2>2, <2>3, PicturesInOrder
<1> QED BY <1>4, <1>5

(* ... and a first one: the last in the other direction.                    *)
LEMMA FirstExists ==
  ASSUME PicturesKnown, NEW d \in Directions, NEW listing \in SUBSET Pictures, listing # {}
  PROVE  \E m \in listing : \A j \in listing \ {m} : Pre(m, j, d)
<1>1. PICK e \in Directions : e # d
  BY DEF Directions
<1>2. PICK m \in listing : \A j \in listing \ {m} : Pre(j, m, e)
  BY <1>1, LastExists
<1>3. ASSUME NEW j \in listing \ {m} PROVE Pre(m, j, d)
  <2>1. Pre(j, m, e) /\ j \in Pictures /\ m \in Pictures
    BY <1>2
  <2>2. picture[j].key \in Nat /\ picture[m].key \in Nat /\ j \in Nat /\ m \in Nat
    BY <1>1, <2>1, PicturesInOrder
  <2>3. CASE d = "asc"
    BY <1>1, <2>1, <2>2, <2>3 DEF Pre, Precedes, Directions
  <2>4. CASE d = "desc"
    BY <1>1, <2>1, <2>2, <2>4 DEF Pre, Precedes, Directions
  <2> QED BY <2>3, <2>4 DEF Directions
<1> QED BY <1>2, <1>3

-----------------------------------------------------------------------------
(* What stands before an image in a listing, and the page it makes.         *)

Before(i, listing, direction) == {j \in listing : Pre(j, i, direction)}

LEMMA PlaceIs ==
  ASSUME PicturesKnown, NEW d \in Directions, NEW listing \in SUBSET Pictures, NEW i \in Pictures
  PROVE  /\ Place(i, listing, d) = Cardinality(Before(i, listing, d)) /\ Place(i, listing, d) \in Nat
         /\ IsFiniteSet(Before(i, listing, d)) /\ Before(i, listing, d) \subseteq listing
<1>1. Before(i, listing, d) \subseteq listing /\ Place(i, listing, d) = Cardinality(Before(i, listing, d))
  BY DEF Before, Place, Pre
<1>2. IsFiniteSet(Before(i, listing, d))
  BY <1>1, PicturesAre, FS_Subset
<1> QED BY <1>1, <1>2, FS_CardinalityType

LEMMA PlacesGrow ==
  ASSUME PicturesKnown, NEW d \in Directions, NEW listing \in SUBSET Pictures, NEW i \in listing, NEW j \in listing, Pre(i, j, d)
  PROVE  Place(i, listing, d) < Place(j, listing, d)
<1>1. Before(i, listing, d) \subseteq Before(j, listing, d)
  BY PicturesInOrder DEF Before
<1>2. i \in Before(j, listing, d) /\ i \notin Before(i, listing, d)
  BY PicturesInOrder DEF Before
<1>3. Before(i, listing, d) # Before(j, listing, d) /\ IsFiniteSet(Before(j, listing, d))
  BY <1>2, PlaceIs
<1>4. /\ Cardinality(Before(i, listing, d)) <= Cardinality(Before(j, listing, d))
      /\ Cardinality(Before(i, listing, d)) # Cardinality(Before(j, listing, d))
  BY <1>1, <1>3, FS_Subset
<1>5. i \in Pictures /\ j \in Pictures
  OBVIOUS
<1>6. /\ Place(i, listing, d) = Cardinality(Before(i, listing, d)) /\ Place(i, listing, d) \in Nat
      /\ Place(j, listing, d) = Cardinality(Before(j, listing, d)) /\ Place(j, listing, d) \in Nat
  BY <1>5, PlaceIs
<1> QED BY <1>4, <1>6

(* A listing longer than a page has a last row on its page ...              *)
LEMMA LastOnPage ==
  ASSUME PicturesKnown, NEW d \in Directions, NEW listing \in SUBSET Pictures, listing # PageOf(listing, d)
  PROVE  \E i \in listing : Place(i, listing, d) = PageLimit - 1
<1>1. PICK k \in listing \ PageOf(listing, d) : \A j \in (listing \ PageOf(listing, d)) \ {k} : Pre(k, j, d)
  <2>1. listing \ PageOf(listing, d) # {} /\ listing \ PageOf(listing, d) \in SUBSET Pictures
    BY DEF PageOf
  <2> QED BY <2>1, FirstExists
<1>2. Place(k, listing, d) \in Nat /\ Place(k, listing, d) >= PageLimit
  <2>1. k \in listing /\ Place(k, listing, d) \in Nat
    BY <1>1, PlaceIs
  <2>2. ~ (Place(k, listing, d) < PageLimit)
    BY <1>1 DEF PageOf
  <2>3. PageLimit \in Nat
    BY PicturesAre
  <2> QED BY <2>1, <2>2, <2>3
<1>3. Before(k, listing, d) # {} /\ Before(k, listing, d) \in SUBSET Pictures /\ IsFiniteSet(Before(k, listing, d))
  <2>1. /\ Place(k, listing, d) = Cardinality(Before(k, listing, d)) /\ Before(k, listing, d) \subseteq listing
        /\ IsFiniteSet(Before(k, listing, d))
    BY <1>1, PlaceIs
  <2>2. Place(k, listing, d) # 0
    BY <1>2, PicturesAre
  <2>3. Before(k, listing, d) # {}
    BY <2>1, <2>2, FS_EmptySet
  <2> QED BY <2>1, <2>3
<1>4. PICK m \in Before(k, listing, d) : \A j \in Before(k, listing, d) \ {m} : Pre(j, m, d)
  BY <1>3, LastExists
<1>5. m \in listing /\ m \in Pictures /\ Pre(m, k, d) /\ k \in Pictures
  BY <1>1, <1>4 DEF Before
<1>6. Before(m, listing, d) = Before(k, listing, d) \ {m}
  <2>1. ASSUME NEW j \in Before(m, listing, d) PROVE j \in Before(k, listing, d) \ {m}
    BY <1>5, PicturesInOrder DEF Before
  <2>2. ASSUME NEW j \in Before(k, listing, d) \ {m} PROVE j \in Before(m, listing, d)
    BY <1>4 DEF Before
  <2> QED BY <2>1, <2>2
<1>7. Cardinality(Before(m, listing, d)) = Cardinality(Before(k, listing, d)) - 1
  <2> DEFINE all == Before(k, listing, d)
  <2>1. IsFiniteSet(all) /\ m \in all
    BY <1>3, <1>4
  <2> HIDE DEF all
  <2>2. Cardinality(all \ {m}) = Cardinality(all) - 1
    BY <2>1, FS_RemoveElement
  <2> QED BY <1>6, <2>2 DEF all
<1>8. Place(m, listing, d) = Place(k, listing, d) - 1
  BY <1>5, <1>7, PlaceIs
<1>9. m \in PageOf(listing, d)
  BY <1>1, <1>5, PicturesInOrder
<1>10. Place(m, listing, d) < PageLimit /\ Place(m, listing, d) \in Nat
  BY <1>5, <1>9, PlaceIs DEF PageOf
<1>11. Place(m, listing, d) = PageLimit - 1
  BY <1>2, <1>8, <1>10, PicturesAre
<1> QED BY <1>5, <1>11

(* ... and the page is what that row does not precede.                      *)
LEMMA PageEnds ==
  ASSUME PicturesKnown, NEW d \in Directions, NEW listing \in SUBSET Pictures, listing # PageOf(listing, d)
  PROVE  \E last \in listing :
           /\ NextCursor(listing, d) = [direction |-> d, key |-> picture[last].key, id |-> last]
           /\ \A i \in listing : i \in PageOf(listing, d) <=> ~ Pre(last, i, d)
<1> DEFINE last == CHOOSE i \in listing : Place(i, listing, d) = PageLimit - 1
<1>1. last \in listing /\ Place(last, listing, d) = PageLimit - 1
  BY LastOnPage
<1>2. NextCursor(listing, d) = [direction |-> d, key |-> picture[last].key, id |-> last]
  BY DEF NextCursor
<1> HIDE DEF last
<1>3. ASSUME NEW i \in listing PROVE i \in PageOf(listing, d) <=> ~ Pre(last, i, d)
  <2>1. Place(i, listing, d) \in Nat
    BY PlaceIs
  <2>2. CASE Pre(last, i, d)
    BY <1>1, <2>1, <2>2, PlacesGrow, PicturesAre DEF PageOf
  <2>3. CASE Pre(i, last, d)
    <3>1. Place(i, listing, d) < PageLimit /\ ~ Pre(last, i, d)
      BY <1>1, <2>1, <2>3, PlacesGrow, PicturesAre, PicturesInOrder
    <3> QED BY <3>1 DEF PageOf
  <2>4. CASE i = last
    <3>1. Place(i, listing, d) < PageLimit /\ ~ Pre(last, i, d)
      BY <1>1, <2>4, PicturesAre, PicturesInOrder
    <3> QED BY <3>1 DEF PageOf
  <2> QED BY <1>1, <2>2, <2>3, <2>4, PicturesInOrder
<1> QED BY <1>1, <1>2, <1>3

(* A page that is shown counts its steady images once more, and leaves a    *)
(* cursor that has passed them and nothing behind them.                     *)
LEMMA PageShown ==
  ASSUME PicturesKnown, NEW d \in Directions, NEW listing \in SUBSET Passing, NEW counts \in [Pictures -> 0..2],
         ShowPage(listing, d, counts), NEW kept, kept \subseteq Passing, steady' = kept,
         \A i \in kept : counts[i] = IF i \in listing THEN 0 ELSE 1,
         \A i \in kept \ listing : \A j \in listing : ~ Pre(j, i, d)
  PROVE  PagesInv'
<1>1. /\ picture' = picture /\ Passing \subseteq Pictures /\ Passing' = Passing
      /\ shown' = [i \in Pictures |-> IF i \in PageOf(listing, d) /\ counts[i] < 2 THEN counts[i] + 1 ELSE counts[i]]
      /\ reading' = [at |-> IF NextCursor(listing, d) = NoCursor THEN "done" ELSE "open", cursor |-> NextCursor(listing, d)]
  BY DEF ShowPage, Passing
<1>2. shown' \in [Pictures -> 0..2]
  <2>1. ASSUME NEW i \in Pictures
        PROVE  (IF i \in PageOf(listing, d) /\ counts[i] < 2 THEN counts[i] + 1 ELSE counts[i]) \in 0..2
    <3>1. counts[i] \in 0..2
      OBVIOUS
    <3> QED BY <3>1
  <2> QED BY <1>1, <2>1
<1>3. PageOf(listing, d) \subseteq listing
  BY DEF PageOf
<1>4. \A i \in kept : shown'[i] = IF i \in listing /\ i \notin PageOf(listing, d) THEN 0 ELSE 1
  <2>1. ASSUME NEW i \in kept PROVE shown'[i] = IF i \in listing /\ i \notin PageOf(listing, d) THEN 0 ELSE 1
    <3>1. i \in Pictures /\ counts[i] = IF i \in listing THEN 0 ELSE 1
      BY <1>1
    <3> QED BY <1>1, <1>3, <3>1
  <2> QED BY <2>1
<1>5. PicturesKnown'
  BY <1>1, <1>2 DEF PicturesKnown
<1>6. CASE listing = PageOf(listing, d)
  <2>1. reading'.at = "done"
    BY <1>1, <1>6 DEF NextCursor
  <2>2. \A i \in kept : shown'[i] = 1
    BY <1>4, <1>6
  <2> QED BY <1>5, <2>1, <2>2 DEF PagesInv, ReadingSound
<1>7. CASE listing # PageOf(listing, d)
  <2>1. PICK last \in listing :
          /\ NextCursor(listing, d) = [direction |-> d, key |-> picture[last].key, id |-> last]
          /\ \A i \in listing : i \in PageOf(listing, d) <=> ~ Pre(last, i, d)
    BY <1>1, <1>7, PageEnds
  <2>2. last \in Pictures /\ picture[last].key \in SortKeys
    BY <1>1, <2>1, PicturesInOrder
  <2>3. NextCursor(listing, d) \in Cursors
    BY <2>1, <2>2 DEF Cursors
  <2>4. NextCursor(listing, d) # NoCursor
    BY <2>3, CursorAssumption
  <2>5. reading'.at = "open" /\ reading'.cursor = NextCursor(listing, d)
    BY <1>1, <2>4
  <2>6. ASSUME NEW i \in kept PROVE shown'[i] = IF Passed(reading.cursor, i)' THEN 1 ELSE 0
    <3>1. Passed(reading.cursor, i)' <=> ~ Pre(last, i, d)
      BY <1>1, <2>1, <2>5 DEF Passed, Pre
    <3>2. (i \in listing /\ i \notin PageOf(listing, d)) <=> Pre(last, i, d)
      BY <2>1
    <3> QED BY <1>4, <3>1, <3>2
  <2>7. \A i \in steady' : shown'[i] = IF Passed(reading.cursor, i)' THEN 1 ELSE 0
    BY <2>6
  <2> QED BY <1>5, <2>3, <2>5, <2>7 DEF PagesInv, ReadingSound
<1> QED BY <1>6, <1>7

-----------------------------------------------------------------------------
(* The steps *)

LEMMA PictureStepInv ==
  ASSUME PagesInv, NEW i \in Pictures, NEW record, PictureStep(i, record),
         record \in [at : {"new", "present", "gone"}, key : SortKeys, matches : BOOLEAN]
  PROVE  PagesInv'
<1>1. /\ picture' = [picture EXCEPT ![i] = record] /\ steady' = steady \ {i} /\ UNCHANGED <<reading, shown>>
  BY DEF PictureStep
<1>2. picture' \in [Pictures -> [at : {"new", "present", "gone"}, key : SortKeys, matches : BOOLEAN]]
      /\ \A j \in Pictures \ {i} : picture'[j] = picture[j]
  BY <1>1 DEF PagesInv, PicturesKnown
<1>3. steady' \subseteq Passing' /\ steady' \subseteq steady /\ steady' \subseteq Pictures \ {i}
  BY <1>1, <1>2 DEF PagesInv, PicturesKnown, Passing
<1>4. \A j \in steady' : Passed(reading.cursor, j)' <=> Passed(reading.cursor, j)
  BY <1>1, <1>2, <1>3 DEF Passed
<1>5. PicturesKnown'
  BY <1>1, <1>2, <1>3 DEF PagesInv, PicturesKnown
<1>6. ReadingSound'
  BY <1>1, <1>3, <1>4 DEF PagesInv, ReadingSound
<1> QED BY <1>5, <1>6 DEF PagesInv

LEMMA GalleryChangesInv ==
  ASSUME PagesInv, NEW i \in Pictures,
         PictureUploaded(i) \/ PictureDeleted(i) \/ PictureRated(i) \/ \E key \in SortKeys : PictureDated(i, key)
  PROVE  PagesInv'
<1> DEFINE Records == [at : {"new", "present", "gone"}, key : SortKeys, matches : BOOLEAN]
<1>0. picture[i] \in Records
  BY DEF PagesInv, PicturesKnown
<1>1. CASE PictureUploaded(i)
  <2>1. [picture[i] EXCEPT !.at = "present"] \in Records
    BY <1>0
  <2> QED BY <1>1, <2>1, PictureStepInv DEF PictureUploaded
<1>2. CASE PictureDeleted(i)
  <2>1. [picture[i] EXCEPT !.at = "gone"] \in Records
    BY <1>0
  <2> QED BY <1>2, <2>1, PictureStepInv DEF PictureDeleted
<1>3. CASE PictureRated(i)
  <2>1. [picture[i] EXCEPT !.matches = ~ @] \in Records
    <3>1. PICK rated \in BOOLEAN : rated = ~ picture[i].matches
      OBVIOUS
    <3>2. [picture[i] EXCEPT !.matches = rated] \in Records
      BY <1>0
    <3> QED BY <3>1, <3>2
  <2> QED BY <1>3, <2>1, PictureStepInv DEF PictureRated
<1>4. ASSUME NEW key \in SortKeys, PictureDated(i, key) PROVE PagesInv'
  <2>1. [picture[i] EXCEPT !.key = key] \in Records
    BY <1>0
  <2> QED BY <1>4, <2>1, PictureStepInv DEF PictureDated
<1> QED BY <1>1, <1>2, <1>3, <1>4

LEMMA FirstPageInv == ASSUME PagesInv, NEW d \in Directions, FirstPage(d) PROVE PagesInv'
<1> DEFINE counts == [i \in Pictures |-> 0]
<1>1. Behind(NoCursor, d) = Passing /\ ShowPage(Behind(NoCursor, d), d, counts) /\ steady' = Passing
  BY DEF Behind, FirstPage
<1>2. counts \in [Pictures -> 0..2] /\ Passing \subseteq Pictures /\ \A i \in Pictures : counts[i] = 0
  BY DEF Passing
<1> HIDE DEF counts
<1>3. ShowPage(Passing, d, counts) /\ PicturesKnown
  BY <1>1 DEF PagesInv
<1> QED BY <1>1, <1>2, <1>3, PageShown

LEMMA NextPageInv == ASSUME PagesInv, NEW d \in Directions, NextPage(d) PROVE PagesInv'
<1> DEFINE listing == {i \in Passing : ~ Passed(reading.cursor, i)}
<1>1. /\ reading.at = "open" /\ reading.cursor.direction = d /\ steady' = steady
      /\ ShowPage(Behind(reading.cursor, d), d, shown)
  BY DEF NextPage
<1>2. /\ reading.cursor \in Cursors /\ PicturesKnown /\ steady \subseteq Passing /\ Passing \subseteq Pictures
      /\ shown \in [Pictures -> 0..2]
      /\ \A i \in steady : shown[i] = IF Passed(reading.cursor, i) THEN 1 ELSE 0
  BY <1>1 DEF PagesInv, ReadingSound, PicturesKnown, Passing
<1>3. Behind(reading.cursor, d) = listing
  BY <1>1, <1>2, CursorAssumption DEF Behind, Passed
<1>4. ASSUME NEW i \in steady \ listing, NEW j \in listing PROVE ~ Pre(j, i, d)
  <2>1. reading.cursor.key \in Nat /\ reading.cursor.id \in Nat
    BY <1>2, PicturesAre DEF Cursors
  <2>2. i \in Pictures /\ j \in Pictures
    BY <1>2
  <2>3. picture[i].key \in Nat /\ i \in Nat /\ picture[j].key \in Nat /\ j \in Nat
    BY <1>2, <2>2, PicturesInOrder
  <2>4. /\ Precedes(reading.cursor.key, reading.cursor.id, picture[j].key, j, d)
        /\ ~ Precedes(reading.cursor.key, reading.cursor.id, picture[i].key, i, d)
    BY <1>1, <1>2 DEF Passed
  <2>5. Pre(j, i, d) => Precedes(reading.cursor.key, reading.cursor.id, picture[i].key, i, d)
    <3> DEFINE a == picture[i].key  b == picture[j].key  c == reading.cursor.key  n == reading.cursor.id
    <3>1. a \in Nat /\ b \in Nat /\ c \in Nat /\ n \in Nat /\ i \in Nat /\ j \in Nat
      BY <2>1, <2>3
    <3> HIDE DEF a, b, c, n
    <3>2. Precedes(c, n, b, j, d) /\ Precedes(b, j, a, i, d) => Precedes(c, n, a, i, d)
      BY <3>1, OrderIsTransitive
    <3> QED BY <2>4, <3>2 DEF Pre, a, b, c, n
  <2> QED BY <2>4, <2>5
<1>5. \A i \in steady : shown[i] = IF i \in listing THEN 0 ELSE 1
  BY <1>2
<1>6. listing \subseteq Passing
  OBVIOUS
<1> HIDE DEF listing
<1> QED BY <1>1, <1>2, <1>3, <1>4, <1>5, <1>6, PageShown

LEMMA PageRefusedInv == ASSUME PagesInv, NEW d \in Directions, PageRefused(d) PROVE PagesInv'
<1>1. reading'.at = "refused" /\ UNCHANGED <<picture, shown, steady>> /\ reading.at = "open"
  BY DEF PageRefused
<1>2. PicturesKnown'
  BY <1>1 DEF PagesInv, PicturesKnown, Passing
<1>3. \A i \in steady' : shown'[i] <= 1
  BY <1>1 DEF PagesInv, ReadingSound
<1> QED BY <1>1, <1>2, <1>3 DEF PagesInv, ReadingSound

LEMMA PagesInitInv == PagesInit => PagesInv
<1> SUFFICES ASSUME PagesInit PROVE PagesInv
  OBVIOUS
<1>1. picture \in [Pictures -> [at : {"new", "present", "gone"}, key : SortKeys, matches : BOOLEAN]]
  BY DEF PagesInit
<1>2. shown \in [Pictures -> 0..2] /\ steady = {} /\ reading.at = "none"
  BY DEF PagesInit
<1> QED BY <1>1, <1>2 DEF PagesInv, PicturesKnown, ReadingSound

LEMMA PagesStepInv == PagesInv /\ [PagesNext]_pagesVars => PagesInv'
<1> SUFFICES ASSUME PagesInv, [PagesNext]_pagesVars PROVE PagesInv'
  OBVIOUS
<1>1. CASE UNCHANGED pagesVars
  BY <1>1 DEF pagesVars, PagesInv, PicturesKnown, ReadingSound, Passing, Passed
<1>2. ASSUME NEW i \in Pictures,
             PictureUploaded(i) \/ PictureDeleted(i) \/ PictureRated(i) \/ \E key \in SortKeys : PictureDated(i, key)
      PROVE  PagesInv'
  BY <1>2, GalleryChangesInv
<1>3. ASSUME NEW d \in Directions, FirstPage(d) \/ NextPage(d) \/ PageRefused(d) PROVE PagesInv'
  BY <1>3, FirstPageInv, NextPageInv, PageRefusedInv
<1> QED BY <1>1, <1>2, <1>3 DEF PagesNext

(* For any number of images, keys and listing on a page: a guest who reads to  *)
(* the last page has seen every image that stayed, and no image twice       *)
(* (load_guest_image_page).                                                 *)
THEOREM EveryImageOnce == PagesSpec => []SteadyShownOnce
<1>1. PagesInit => PagesInv
  BY PagesInitInv
<1>2. PagesInv /\ [PagesNext]_pagesVars => PagesInv'
  BY PagesStepInv
<1>3. PagesInv => SteadyShownOnce
  BY DEF PagesInv, ReadingSound, SteadyShownOnce
<1> QED BY <1>1, <1>2, <1>3, PTL DEF PagesSpec

\* What the guest holds.
ReadingTyped == reading \in [at : {"none", "open", "done", "refused"}, cursor : Cursors \cup {NoCursor}]

(* A page leaves a cursor or none.                                          *)
LEMMA PageTyped ==
  ASSUME PagesInv, NEW d \in Directions, NEW cursor, NEW counts, ShowPage(Behind(cursor, d), d, counts)
  PROVE  ReadingTyped'
<1> DEFINE listing == Behind(cursor, d)
<1>1. listing \in SUBSET Pictures /\ PicturesKnown
  BY DEF Behind, Passing, PagesInv
<1>2. reading' = [at |-> IF NextCursor(listing, d) = NoCursor THEN "done" ELSE "open", cursor |-> NextCursor(listing, d)]
  BY DEF ShowPage
<1> HIDE DEF listing
<1>3. NextCursor(listing, d) \in Cursors \cup {NoCursor}
  <2>1. CASE listing = PageOf(listing, d)
    BY <2>1 DEF NextCursor
  <2>2. CASE listing # PageOf(listing, d)
    <3>1. PICK last \in listing : NextCursor(listing, d) = [direction |-> d, key |-> picture[last].key, id |-> last]
      BY <1>1, <2>2, PageEnds
    <3>2. last \in Pictures /\ picture[last].key \in SortKeys
      BY <1>1, <3>1, PicturesInOrder
    <3> QED BY <3>1, <3>2 DEF Cursors
  <2> QED BY <2>1, <2>2
<1> QED BY <1>2, <1>3 DEF ReadingTyped

(* Every variable of the paging keeps its type: what a guest holds is a     *)
(* cursor that names an image and its sort key, or none                     *)
(* (load_guest_image_page).                                                 *)
THEOREM PagesAlwaysTyped == PagesSpec => []PagesTypeOK
<1>1. PagesInit => PagesInv /\ ReadingTyped
  <2> SUFFICES ASSUME PagesInit PROVE ReadingTyped
    BY PagesInitInv
  <2> QED BY DEF PagesInit, ReadingTyped
<1>2. PagesInv /\ ReadingTyped /\ [PagesNext]_pagesVars => PagesInv' /\ ReadingTyped'
  <2> SUFFICES ASSUME PagesInv, ReadingTyped, [PagesNext]_pagesVars PROVE ReadingTyped'
    BY PagesStepInv
  <2>1. CASE UNCHANGED reading
    BY <2>1 DEF ReadingTyped
  <2>2. ASSUME NEW d \in Directions, FirstPage(d) \/ NextPage(d) PROVE ReadingTyped'
    BY <2>2, PageTyped DEF FirstPage, NextPage
  <2>3. ASSUME NEW d \in Directions, PageRefused(d) PROVE ReadingTyped'
    BY <2>3 DEF PageRefused, ReadingTyped
  <2> QED BY <2>1, <2>2, <2>3 DEF PagesNext, pagesVars, PictureUploaded, PictureDeleted, PictureRated, PictureDated, PictureStep
<1>3. PagesInv /\ ReadingTyped => PagesTypeOK
  BY DEF PagesInv, PicturesKnown, ReadingTyped, PagesTypeOK, Passing
<1> QED BY <1>1, <1>2, <1>3, PTL DEF PagesSpec

-----------------------------------------------------------------------------
(* The account of one owner and its deletion (OwnerStorage)                 *)

WriterRecords == [at : {"idle", "entered", "locked", "reserved"}, key : StorageKeys \cup {Away.key},
                  size : Sizes, previous : Sizes \cup {None, Unknown}]
PurgerRecords == [at : {"idle", "fencing", "purging", "erased", "refunding", "deleting"},
                  held : SUBSET GalleryIds, todo : SUBSET GalleryIds,
                  keys : SUBSET StorageKeys, found : SUBSET StorageKeys]

OwnerTyped ==
  /\ allocation \in [StorageKeys -> Sizes \cup {None, Unknown}]
  /\ writer \in [Writers -> WriterRecords]
  /\ purger \in [Purgers -> PurgerRecords]

\* A writer that came past the fences, and what it has reserved.
WriterSound(r, allocated) ==
  /\ r.at # "idle" => r.key \in StorageKeys
  /\ r.at = "reserved" => r.key \in allocated

\* A purger only touches keys whose galleries it holds, and refunds only what
\* it has erased.
PurgerSound(r, kept) ==
  /\ \A k \in r.keys : k[1] \in r.held
  /\ r.found \subseteq r.keys /\ (r.at # "refunding" => r.found = {})
  /\ r.at \in {"erased", "refunding"} => r.keys \cap kept = {}
  /\ r.at \in {"purging", "erased", "refunding"} => r.todo \subseteq r.held

Apart(r, s) == s.at # "idle" => s.key[1] \notin r.held

OwnerInv ==
  /\ OwnerTyped
  /\ stored \subseteq Allocated(StorageKeys)
  /\ \A w \in Writers : WriterSound(writer[w], Allocated(StorageKeys))
  /\ \A p \in Purgers : PurgerSound(purger[p], stored)
  /\ \A p \in Purgers, w \in Writers : Apart(purger[p], writer[w])
  /\ DeletedLeavesNothing

LEMMA PurgersAre == Admin \in Purgers /\ \A c \in Cleaners : c \in Purgers /\ c # Admin
BY OwnerAssumption DEF Purgers

LEMMA AwayAbsent ==
  /\ Away \in WriterRecords /\ Away.at = "idle"
  /\ Absent \in PurgerRecords /\ Absent.at = "idle" /\ Absent.held = {} /\ Absent.todo = {}
  /\ Absent.keys = {} /\ Absent.found = {}
BY OwnerAssumption DEF Away, Absent, WriterRecords, PurgerRecords, Sizes

LEMMA OwnerInitInv == OwnerInit => OwnerInv
<1> SUFFICES ASSUME OwnerInit PROVE OwnerInv
  OBVIOUS
<1>1. PICK legacy \in SUBSET StorageKeys :
        allocation = [k \in StorageKeys |-> IF k \in legacy THEN Unknown ELSE None] /\ stored = legacy
  BY DEF OwnerInit
<1>2. /\ user = "present" /\ writer = [w \in Writers |-> Away] /\ purger = [p \in Purgers |-> Absent]
  BY DEF OwnerInit
<1>3. Allocated(StorageKeys) = legacy
  BY <1>1 DEF Allocated, None, Unknown
<1>4. OwnerTyped
  BY <1>1, <1>2, AwayAbsent DEF OwnerTyped
<1>5. \A w \in Writers : WriterSound(writer[w], Allocated(StorageKeys))
  BY <1>2, AwayAbsent DEF WriterSound
<1>6. \A p \in Purgers : PurgerSound(purger[p], stored)
  BY <1>2, AwayAbsent DEF PurgerSound
<1>7. \A p \in Purgers, w \in Writers : Apart(purger[p], writer[w])
  BY <1>2, AwayAbsent DEF Apart
<1> QED BY <1>1, <1>2, <1>3, <1>4, <1>5, <1>6, <1>7 DEF OwnerInv, DeletedLeavesNothing

-----------------------------------------------------------------------------
(* A step of a writer, seen by the purgers.                                 *)
LEMMA WriterKeeps ==
  ASSUME OwnerInv, NEW w \in Writers, NEW record \in WriterRecords,
         writer' = [writer EXCEPT ![w] = record],
         UNCHANGED <<user, galleryRow, purger>>,
         allocation' \in [StorageKeys -> Sizes \cup {None, Unknown}],
         Allocated(StorageKeys) \subseteq Allocated(StorageKeys)',
         WriterSound(record, Allocated(StorageKeys)'),
         record.at # "idle" => \A p \in Purgers : record.key[1] \notin purger[p].held,
         stored' \subseteq Allocated(StorageKeys)',
         \A p \in Purgers : purger[p].at \in {"erased", "refunding"} => purger[p].keys \cap stored' = {},
         user = "gone" => Allocated(StorageKeys)' = {}
  PROVE  OwnerInv'
<1>1. \A v \in Writers : writer'[v] = IF v = w THEN record ELSE writer[v]
  BY DEF OwnerInv, OwnerTyped
<1>2. OwnerTyped'
  BY DEF OwnerInv, OwnerTyped
<1>3. \A v \in Writers : WriterSound(writer'[v], Allocated(StorageKeys)')
  BY <1>1 DEF OwnerInv, WriterSound
<1>4. \A p \in Purgers : PurgerSound(purger'[p], stored')
  BY DEF OwnerInv, PurgerSound
<1>5. \A p \in Purgers, v \in Writers : Apart(purger'[p], writer'[v])
  BY <1>1 DEF OwnerInv, Apart
<1>6. DeletedLeavesNothing'
  BY DEF OwnerInv, DeletedLeavesNothing
<1> QED BY <1>2, <1>3, <1>4, <1>5, <1>6 DEF OwnerInv

LEMMA WriterFacts ==
  ASSUME OwnerInv, NEW w \in Writers
  PROVE  /\ writer[w] \in WriterRecords /\ WriterSound(writer[w], Allocated(StorageKeys))
         /\ \A p \in Purgers : Apart(purger[p], writer[w]) /\ PurgerSound(purger[p], stored)
         /\ allocation \in [StorageKeys -> Sizes \cup {None, Unknown}]
         /\ stored \subseteq Allocated(StorageKeys)
         /\ user = "gone" => Allocated(StorageKeys) = {}
BY DEF OwnerInv, OwnerTyped, DeletedLeavesNothing

LEMMA WriterEntersInv ==
  ASSUME OwnerInv, NEW w \in Writers, NEW k \in StorageKeys, NEW n \in Sizes, WriterEnters(w, k, n)
  PROVE  OwnerInv'
<1> DEFINE record == [Away EXCEPT !.at = "entered", !.key = k, !.size = n]
<1>1. /\ writer' = [writer EXCEPT ![w] = record]
      /\ UNCHANGED <<user, galleryRow, purger, allocation, stored>> /\ ~ Fenced(k[1])
  BY DEF WriterEnters, WriterStep
<1>2. record \in WriterRecords /\ record.at = "entered" /\ record.key = k
  BY AwayAbsent DEF Away, WriterRecords
<1> HIDE DEF record
<1>3. Allocated(StorageKeys)' = Allocated(StorageKeys)
  BY <1>1 DEF Allocated
<1>4. WriterSound(record, Allocated(StorageKeys)')
  BY <1>2 DEF WriterSound
<1>5. \A p \in Purgers : record.key[1] \notin purger[p].held
  BY <1>1, <1>2 DEF Fenced
<1>6. \A p \in Purgers : purger[p].at \in {"erased", "refunding"} => purger[p].keys \cap stored' = {}
  BY <1>1, WriterFacts DEF PurgerSound
<1> QED BY <1>1, <1>2, <1>3, <1>4, <1>5, <1>6, WriterFacts, WriterKeeps

\* What a reservation leaves to pay for is an allocation.
LEMMA GrownIsSize ==
  ASSUME NEW previous \in Sizes \cup {None, Unknown}, NEW size \in Sizes, previous # Unknown
  PROVE  Grown(previous, size) \in Sizes /\ Grown(previous, size) # None
<1>1. MaxSize \in Nat
  BY OwnerAssumption
<1> QED BY <1>1 DEF Grown, Sizes, None, Unknown

LEMMA ReserveInv ==
  ASSUME OwnerInv, NEW w \in Writers, ReserveLocks(w) \/ ReserveCommits(w) \/ ReserveRefused(w)
  PROVE  OwnerInv'
<1>1. UNCHANGED <<user, galleryRow, purger, stored>> /\ writer[w].at \in {"entered", "locked"}
  BY DEF ReserveLocks, ReserveCommits, ReserveRefused, WriterStep
<1>2. writer[w].key \in StorageKeys /\ \A p \in Purgers : writer[w].key[1] \notin purger[p].held
  BY <1>1, WriterFacts DEF WriterSound, Apart
<1>3. \A p \in Purgers : purger[p].at \in {"erased", "refunding"} => purger[p].keys \cap stored' = {}
  BY <1>1, WriterFacts DEF PurgerSound
<1>4. CASE ReserveLocks(w)
  <2> DEFINE record == [writer[w] EXCEPT !.at = "locked", !.previous = allocation[writer[w].key]]
  <2>1. writer' = [writer EXCEPT ![w] = record] /\ allocation' = allocation
    BY <1>4 DEF ReserveLocks, WriterStep
  <2>2. record \in WriterRecords /\ record.at = "locked" /\ record.key = writer[w].key
    BY <1>2, WriterFacts DEF WriterRecords
  <2> HIDE DEF record
  <2>3. Allocated(StorageKeys)' = Allocated(StorageKeys)
    BY <2>1 DEF Allocated
  <2>4. WriterSound(record, Allocated(StorageKeys)')
    BY <1>2, <2>2 DEF WriterSound
  <2> QED BY <1>1, <1>2, <1>3, <2>1, <2>2, <2>3, <2>4, WriterFacts, WriterKeeps
<1>5. CASE ReserveCommits(w)
  <2> DEFINE record == [writer[w] EXCEPT !.at = "reserved", !.previous = None]
             charge == Grown(writer[w].previous, writer[w].size)
  <2>1. /\ writer' = [writer EXCEPT ![w] = record] /\ user = "present" /\ writer[w].previous # Unknown
        /\ allocation' = [allocation EXCEPT ![writer[w].key] = charge]
    BY <1>5 DEF ReserveCommits, WriterStep, Accepted
  <2>2. record \in WriterRecords /\ record.at = "reserved" /\ record.key = writer[w].key
    BY WriterFacts DEF WriterRecords
  <2>3. charge \in Sizes /\ charge # None
    BY <2>1, WriterFacts, GrownIsSize DEF WriterRecords
  <2> HIDE DEF record, charge
  <2>4. allocation' \in [StorageKeys -> Sizes \cup {None, Unknown}]
    BY <2>1, <2>3, WriterFacts
  <2>5. Allocated(StorageKeys)' = Allocated(StorageKeys) \cup {writer[w].key}
    BY <1>2, <2>1, <2>3, WriterFacts DEF Allocated
  <2>6. WriterSound(record, Allocated(StorageKeys)')
    BY <1>2, <2>2, <2>5 DEF WriterSound
  <2>7. stored' \subseteq Allocated(StorageKeys)'
    BY <1>1, <2>5, WriterFacts
  <2> QED BY <1>1, <1>2, <1>3, <2>1, <2>2, <2>4, <2>5, <2>6, <2>7, WriterKeeps
<1>6. CASE ReserveRefused(w)
  <2>1. writer' = [writer EXCEPT ![w] = Away] /\ allocation' = allocation
    BY <1>6 DEF ReserveRefused, WriterStep
  <2>2. Allocated(StorageKeys)' = Allocated(StorageKeys)
    BY <2>1 DEF Allocated
  <2>3. WriterSound(Away, Allocated(StorageKeys)')
    BY AwayAbsent DEF WriterSound
  <2> QED BY <1>1, <1>3, <2>1, <2>2, <2>3, AwayAbsent, WriterFacts, WriterKeeps
<1> QED BY <1>4, <1>5, <1>6

LEMMA WriteInv ==
  ASSUME OwnerInv, NEW w \in Writers, ObjectWritten(w) \/ WriteFails(w)
  PROVE  OwnerInv'
<1>1. /\ UNCHANGED <<user, galleryRow, purger, allocation>> /\ writer[w].at = "reserved"
      /\ writer' = [writer EXCEPT ![w] = Away] /\ stored' \subseteq stored \cup {writer[w].key}
  BY DEF ObjectWritten, WriteFails, WriterStep
<1>2. /\ writer[w].key \in Allocated(StorageKeys)
      /\ \A p \in Purgers : writer[w].key[1] \notin purger[p].held
  BY <1>1, WriterFacts DEF WriterSound, Apart
<1>3. \A p \in Purgers : purger[p].at \in {"erased", "refunding"} => purger[p].keys \cap stored' = {}
  BY <1>1, <1>2, WriterFacts DEF PurgerSound
<1>4. Allocated(StorageKeys)' = Allocated(StorageKeys)
  BY <1>1 DEF Allocated
<1>5. WriterSound(Away, Allocated(StorageKeys)')
  BY AwayAbsent DEF WriterSound
<1>6. stored' \subseteq Allocated(StorageKeys)'
  BY <1>1, <1>2, <1>4, WriterFacts
<1> QED BY <1>1, <1>3, <1>4, <1>5, <1>6, AwayAbsent, WriterFacts, WriterKeeps

-----------------------------------------------------------------------------
(* A step of a purger, seen by the writers.                                 *)
LEMMA PurgerKeeps ==
  ASSUME OwnerInv, NEW p \in Purgers, NEW record \in PurgerRecords,
         purger' = [purger EXCEPT ![p] = record],
         UNCHANGED <<user, galleryRow, writer>>,
         allocation' \in [StorageKeys -> Sizes \cup {None, Unknown}],
         Allocated(StorageKeys)' \subseteq Allocated(StorageKeys),
         \A k \in Allocated(StorageKeys) \ Allocated(StorageKeys)' : k[1] \in purger[p].held /\ k \notin stored,
         stored' \subseteq stored,
         PurgerSound(record, stored'),
         \A g \in record.held \ purger[p].held : ~ Shared(g)
  PROVE  OwnerInv'
<1>1. \A q \in Purgers : purger'[q] = IF q = p THEN record ELSE purger[q]
  BY DEF OwnerInv, OwnerTyped
<1>2. OwnerTyped'
  BY DEF OwnerInv, OwnerTyped
<1>3. \A w \in Writers : WriterSound(writer'[w], Allocated(StorageKeys)')
  BY DEF OwnerInv, WriterSound, Apart
<1>4. \A q \in Purgers : PurgerSound(purger'[q], stored')
  <2>1. ASSUME NEW q \in Purgers, q # p PROVE PurgerSound(purger[q], stored')
    BY DEF OwnerInv, PurgerSound
  <2> QED BY <1>1, <2>1
<1>5. \A q \in Purgers, w \in Writers : Apart(purger'[q], writer'[w])
  BY <1>1 DEF OwnerInv, Apart, Shared
<1>6. DeletedLeavesNothing' /\ stored' \subseteq Allocated(StorageKeys)'
  BY DEF OwnerInv, DeletedLeavesNothing
<1> QED BY <1>2, <1>3, <1>4, <1>5, <1>6 DEF OwnerInv

LEMMA PurgerFacts ==
  ASSUME OwnerInv, NEW p \in Purgers
  PROVE  /\ purger[p] \in PurgerRecords /\ PurgerSound(purger[p], stored)
         /\ allocation \in [StorageKeys -> Sizes \cup {None, Unknown}]
BY DEF OwnerInv, OwnerTyped

(* The steps that leave the allocations alone.                              *)
LEMMA PurgerErases ==
  ASSUME OwnerInv, NEW p \in Purgers, NEW record \in PurgerRecords,
         purger' = [purger EXCEPT ![p] = record],
         UNCHANGED <<user, galleryRow, writer, allocation>>, stored' \subseteq stored,
         PurgerSound(record, stored'), \A g \in record.held \ purger[p].held : ~ Shared(g)
  PROVE  OwnerInv'
<1>1. Allocated(StorageKeys)' = Allocated(StorageKeys)
  BY DEF Allocated
<1> QED BY <1>1, PurgerFacts, PurgerKeeps

LEMMA CleanerInv == ASSUME OwnerInv, NEW c \in Cleaners, CleanerRuns(c) PROVE OwnerInv'
<1>0. c \in Purgers
  BY PurgersAre
<1>1. ASSUME NEW g \in GalleryIds, NEW keys \in SUBSET {k \in StorageKeys : k[1] = g}, CleanerEnters(c, g, keys)
      PROVE  OwnerInv'
  <2> DEFINE record == [Absent EXCEPT !.at = "purging", !.held = {g}, !.keys = keys]
  <2>1. /\ purger' = [purger EXCEPT ![c] = record] /\ ~ Shared(g)
        /\ UNCHANGED <<user, galleryRow, writer, allocation, stored>>
    BY <1>1 DEF CleanerEnters, PurgerStep
  <2>2. /\ record \in PurgerRecords /\ record.at = "purging" /\ record.held = {g} /\ record.keys = keys
        /\ record.todo = {} /\ record.found = {}
    BY DEF Absent, PurgerRecords
  <2> HIDE DEF record
  <2>3. PurgerSound(record, stored')
    BY <2>2 DEF PurgerSound
  <2> QED BY <1>0, <2>1, <2>2, <2>3, PurgerErases
<1>2. CASE CleanerErases(c)
  <2> DEFINE record == [purger[c] EXCEPT !.at = "erased"]
  <2>1. /\ purger' = [purger EXCEPT ![c] = record] /\ stored' = stored \ purger[c].keys
        /\ UNCHANGED <<user, galleryRow, writer, allocation>> /\ purger[c].at = "purging"
    BY <1>2 DEF CleanerErases, PurgerStep
  <2>2. /\ record \in PurgerRecords /\ record.held = purger[c].held /\ record.keys = purger[c].keys
        /\ record.todo = purger[c].todo /\ record.found = purger[c].found /\ record.at = "erased"
    BY <1>0, PurgerFacts DEF PurgerRecords
  <2> HIDE DEF record
  <2>3. PurgerSound(record, stored')
    BY <1>0, <2>1, <2>2, PurgerFacts DEF PurgerSound
  <2> QED BY <1>0, <2>1, <2>2, <2>3, PurgerErases
<1>3. CASE EraseFails(c, "purging", purger[c].keys)
  <2>1. /\ purger' = [purger EXCEPT ![c] = Absent] /\ stored' \subseteq stored
        /\ UNCHANGED <<user, galleryRow, writer, allocation>>
    BY <1>3 DEF EraseFails, PurgerStep
  <2>2. PurgerSound(Absent, stored')
    BY AwayAbsent DEF PurgerSound
  <2> QED BY <1>0, <2>1, <2>2, AwayAbsent, PurgerErases
<1> QED BY <1>1, <1>2, <1>3 DEF CleanerRuns

LEMMA PurgedIs ==
  ASSUME OwnerInv, NEW p \in Purgers, purger[p].at \in {"erased", "refunding"}
  PROVE  /\ Purged(p) \in PurgerRecords /\ PurgerSound(Purged(p), stored)
         /\ Purged(p).held \subseteq purger[p].held
<1>1. CASE p = Admin
  <2> DEFINE record == [purger[p] EXCEPT !.at = "purging", !.keys = {}, !.found = {}]
  <2>1. /\ record \in PurgerRecords /\ record.held = purger[p].held /\ record.keys = {}
        /\ record.todo = purger[p].todo /\ record.found = {} /\ record.at = "purging"
    BY PurgerFacts DEF PurgerRecords
  <2>2. Purged(p) = record
    BY <1>1 DEF Purged
  <2> HIDE DEF record
  <2> QED BY <2>1, <2>2, PurgerFacts DEF PurgerSound
<1>2. CASE p # Admin
  BY <1>2, AwayAbsent DEF Purged, PurgerSound
<1> QED BY <1>1, <1>2

LEMMA RefundInv ==
  ASSUME OwnerInv, NEW p \in Purgers, RefundLocks(p) \/ NothingToRefund(p) \/ RefundCommits(p)
  PROVE  OwnerInv'
<1>1. CASE RefundLocks(p)
  <2> DEFINE record == [purger[p] EXCEPT !.at = "refunding", !.found = Allocated(purger[p].keys)]
  <2>1. /\ purger' = [purger EXCEPT ![p] = record] /\ purger[p].at = "erased"
        /\ UNCHANGED <<user, galleryRow, writer, allocation, stored>>
    BY <1>1 DEF RefundLocks, PurgerStep
  <2>2. purger[p] \in PurgerRecords /\ purger[p].keys \subseteq StorageKeys
    BY PurgerFacts DEF PurgerRecords
  <2>3. Allocated(purger[p].keys) \subseteq purger[p].keys
    BY DEF Allocated
  <2>4. /\ record \in PurgerRecords /\ record.held = purger[p].held /\ record.keys = purger[p].keys
        /\ record.todo = purger[p].todo /\ record.found \subseteq purger[p].keys /\ record.at = "refunding"
    BY <2>2, <2>3 DEF PurgerRecords
  <2> HIDE DEF record
  <2>5. PurgerSound(record, stored')
    BY <2>1, <2>4, PurgerFacts DEF PurgerSound
  <2> QED BY <2>1, <2>4, <2>5, PurgerErases
<1>2. CASE NothingToRefund(p)
  <2>1. /\ purger' = [purger EXCEPT ![p] = Purged(p)] /\ purger[p].at = "erased"
        /\ UNCHANGED <<user, galleryRow, writer, allocation, stored>>
    BY <1>2 DEF NothingToRefund, PurgerStep
  <2>2. /\ Purged(p) \in PurgerRecords /\ PurgerSound(Purged(p), stored') /\ Purged(p).held \subseteq purger[p].held
    BY <2>1, PurgedIs
  <2> QED BY <2>1, <2>2, PurgerErases
<1>3. CASE RefundCommits(p)
  <2>1. /\ purger' = [purger EXCEPT ![p] = Purged(p)] /\ purger[p].at = "refunding"
        /\ UNCHANGED <<user, galleryRow, writer, stored>>
        /\ allocation' = [k \in StorageKeys |-> IF k \in purger[p].found THEN None ELSE allocation[k]]
    BY <1>3 DEF RefundCommits, PurgerStep
  <2>2. /\ Purged(p) \in PurgerRecords /\ PurgerSound(Purged(p), stored') /\ Purged(p).held \subseteq purger[p].held
    BY <2>1, PurgedIs
  <2>3. allocation' \in [StorageKeys -> Sizes \cup {None, Unknown}]
    BY <2>1, PurgerFacts
  <2>4. Allocated(StorageKeys)' = Allocated(StorageKeys) \ purger[p].found
    BY <2>1 DEF Allocated
  <2>5. \A k \in Allocated(StorageKeys) \ Allocated(StorageKeys)' : k[1] \in purger[p].held /\ k \notin stored
    BY <2>1, <2>4, PurgerFacts DEF PurgerSound
  <2> QED BY <2>1, <2>2, <2>3, <2>4, <2>5, PurgerKeeps
<1> QED BY <1>1, <1>2, <1>3

(* delete_user until its galleries are purged.                              *)
LEMMA AdminPurgesInv ==
  ASSUME OwnerInv,
         \/ AdminLists \/ AdminFenced \/ (\E g \in GalleryIds : AdminFences(g) \/ AdminErases(g))
         \/ EraseFails(Admin, "purging", {k \in Allocated(StorageKeys) : k[1] \in purger[Admin].todo})
  PROVE  OwnerInv'
<1>0. Admin \in Purgers /\ purger[Admin] \in PurgerRecords /\ PurgerSound(purger[Admin], stored)
  BY PurgersAre, PurgerFacts
<1>1. CASE AdminLists
  <2>1. PICK listed : /\ listed = {g \in GalleryIds : galleryRow[g] = "present"} \cup {k[1] : k \in Allocated(StorageKeys)}
                      /\ purger' = [purger EXCEPT ![Admin] = [Absent EXCEPT !.at = "fencing", !.todo = listed]]
                      /\ UNCHANGED <<user, galleryRow, writer, allocation, stored>>
    BY <1>1 DEF AdminLists, PurgerStep
  <2>2. listed \subseteq GalleryIds
    BY <2>1, OwnerAssumption DEF Allocated
  <2> DEFINE record == [Absent EXCEPT !.at = "fencing", !.todo = listed]
  <2>3. /\ record \in PurgerRecords /\ record.at = "fencing" /\ record.held = {} /\ record.keys = {} /\ record.found = {}
    BY <2>2 DEF Absent, PurgerRecords
  <2>4. purger' = [purger EXCEPT ![Admin] = record]
    BY <2>1
  <2> HIDE DEF record
  <2>5. PurgerSound(record, stored')
    BY <2>3 DEF PurgerSound
  <2> QED BY <1>0, <2>1, <2>3, <2>4, <2>5, PurgerErases
<1>2. CASE AdminFenced
  <2> DEFINE record == [purger[Admin] EXCEPT !.at = "purging"]
  <2>1. /\ purger' = [purger EXCEPT ![Admin] = record] /\ purger[Admin].held = purger[Admin].todo
        /\ purger[Admin].at = "fencing" /\ UNCHANGED <<user, galleryRow, writer, allocation, stored>>
    BY <1>2 DEF AdminFenced, PurgerStep
  <2>2. /\ record \in PurgerRecords /\ record.at = "purging" /\ record.held = purger[Admin].held
        /\ record.todo = purger[Admin].todo /\ record.keys = purger[Admin].keys /\ record.found = purger[Admin].found
    BY <1>0 DEF PurgerRecords
  <2> HIDE DEF record
  <2>3. PurgerSound(record, stored')
    BY <1>0, <2>1, <2>2 DEF PurgerSound
  <2> QED BY <1>0, <2>1, <2>2, <2>3, PurgerErases
<1>3. ASSUME NEW g \in GalleryIds, AdminFences(g) PROVE OwnerInv'
  <2> DEFINE record == [purger[Admin] EXCEPT !.held = @ \cup {g}]
  <2>1. /\ purger' = [purger EXCEPT ![Admin] = record] /\ ~ Shared(g) /\ purger[Admin].at = "fencing"
        /\ UNCHANGED <<user, galleryRow, writer, allocation, stored>>
    BY <1>3 DEF AdminFences, PurgerStep
  <2>2. /\ record \in PurgerRecords /\ record.at = purger[Admin].at /\ record.held = purger[Admin].held \cup {g}
        /\ record.todo = purger[Admin].todo /\ record.keys = purger[Admin].keys /\ record.found = purger[Admin].found
    BY <1>0 DEF PurgerRecords
  <2> HIDE DEF record
  <2>3. PurgerSound(record, stored')
    BY <1>0, <2>1, <2>2 DEF PurgerSound
  <2> QED BY <1>0, <2>1, <2>2, <2>3, PurgerErases
<1>4. ASSUME NEW g \in GalleryIds, AdminErases(g) PROVE OwnerInv'
  <2> DEFINE keys   == {k \in Allocated(StorageKeys) : k[1] = g}
             record == [purger[Admin] EXCEPT !.at = "erased", !.todo = @ \ {g}, !.keys = keys]
  <2>1. /\ purger' = [purger EXCEPT ![Admin] = record] /\ stored' = stored \ keys
        /\ purger[Admin].at = "purging" /\ g \in purger[Admin].todo
        /\ UNCHANGED <<user, galleryRow, writer, allocation>>
    BY <1>4 DEF AdminErases, PurgerStep
  <2>2. keys \subseteq StorageKeys /\ \A k \in keys : k[1] = g
    BY DEF Allocated
  <2> HIDE DEF keys
  <2>3. /\ record \in PurgerRecords /\ record.at = "erased" /\ record.held = purger[Admin].held
        /\ record.todo = purger[Admin].todo \ {g} /\ record.keys = keys /\ record.found = purger[Admin].found
    BY <1>0, <2>2 DEF PurgerRecords
  <2> HIDE DEF record
  <2>4. PurgerSound(record, stored')
    BY <1>0, <2>1, <2>2, <2>3 DEF PurgerSound
  <2> QED BY <1>0, <2>1, <2>3, <2>4, PurgerErases
<1>5. CASE EraseFails(Admin, "purging", {k \in Allocated(StorageKeys) : k[1] \in purger[Admin].todo})
  <2>1. /\ purger' = [purger EXCEPT ![Admin] = Absent] /\ stored' \subseteq stored
        /\ UNCHANGED <<user, galleryRow, writer, allocation>>
    BY <1>5 DEF EraseFails, PurgerStep
  <2>2. PurgerSound(Absent, stored')
    BY AwayAbsent DEF PurgerSound
  <2> QED BY <1>0, <2>1, <2>2, AwayAbsent, PurgerErases
<1> QED BY <1>1, <1>2, <1>3, <1>4, <1>5

(* The deletion itself: nothing is allocated any more, hence nothing stored. *)
LEMMA AdminDeletesInv ==
  ASSUME OwnerInv, AdminDeletes \/ AdminCommits \/ AdminRollsBack
  PROVE  OwnerInv'
<1>0. Admin \in Purgers /\ purger[Admin] \in PurgerRecords /\ PurgerSound(purger[Admin], stored)
  BY PurgersAre, PurgerFacts
<1>1. CASE AdminDeletes
  <2> DEFINE record == [purger[Admin] EXCEPT !.at = "deleting"]
  <2>1. /\ purger' = [purger EXCEPT ![Admin] = record] /\ purger[Admin].at = "purging"
        /\ UNCHANGED <<user, galleryRow, writer, allocation, stored>>
    BY <1>1 DEF AdminDeletes
  <2>2. /\ record \in PurgerRecords /\ record.at = "deleting" /\ record.held = purger[Admin].held
        /\ record.keys = purger[Admin].keys /\ record.found = purger[Admin].found
    BY <1>0 DEF PurgerRecords
  <2> HIDE DEF record
  <2>3. PurgerSound(record, stored')
    BY <1>0, <2>1, <2>2 DEF PurgerSound
  <2> QED BY <1>0, <2>1, <2>2, <2>3, PurgerErases
<1>2. CASE AdminRollsBack
  <2>1. /\ purger' = [purger EXCEPT ![Admin] = Absent]
        /\ UNCHANGED <<user, galleryRow, writer, allocation, stored>>
    BY <1>2 DEF AdminRollsBack
  <2>2. PurgerSound(Absent, stored')
    BY AwayAbsent DEF PurgerSound
  <2> QED BY <1>0, <2>1, <2>2, AwayAbsent, PurgerErases
<1>3. CASE AdminCommits
  <2>1. /\ purger' = [purger EXCEPT ![Admin] = Absent] /\ UNCHANGED <<writer, allocation, stored>>
        /\ galleryRow' = [g \in GalleryIds |-> "gone"] /\ Allocated(StorageKeys) = {}
    BY <1>3 DEF AdminCommits
  <2>2. Allocated(StorageKeys)' = Allocated(StorageKeys)
    BY <2>1 DEF Allocated
  <2>3. \A q \in Purgers : purger'[q] = IF q = Admin THEN Absent ELSE purger[q]
    BY <2>1 DEF OwnerInv, OwnerTyped
  <2>4. OwnerTyped'
    BY <2>1, AwayAbsent DEF OwnerInv, OwnerTyped
  <2>5. \A w \in Writers : WriterSound(writer'[w], Allocated(StorageKeys)')
    BY <2>1, <2>2 DEF OwnerInv
  <2>6. \A q \in Purgers : PurgerSound(purger'[q], stored')
    BY <2>1, <2>3, AwayAbsent DEF OwnerInv, PurgerSound
  <2>7. \A q \in Purgers, w \in Writers : Apart(purger'[q], writer'[w])
    BY <2>1, <2>3, AwayAbsent DEF OwnerInv, Apart
  <2>8. DeletedLeavesNothing' /\ stored' \subseteq Allocated(StorageKeys)'
    BY <2>1, <2>2 DEF OwnerInv, DeletedLeavesNothing
  <2> QED BY <2>4, <2>5, <2>6, <2>7, <2>8 DEF OwnerInv
<1> QED BY <1>1, <1>2, <1>3

LEMMA GalleryCommitsInv == ASSUME OwnerInv, NEW g \in GalleryIds, GalleryCommits(g) PROVE OwnerInv'
<1>1. user' = "present" /\ UNCHANGED <<allocation, stored, writer, purger>>
  BY DEF GalleryCommits
<1>2. Allocated(StorageKeys)' = Allocated(StorageKeys)
  BY <1>1 DEF Allocated
<1>3. OwnerTyped' /\ DeletedLeavesNothing'
  BY <1>1 DEF OwnerInv, OwnerTyped, DeletedLeavesNothing
<1> QED BY <1>1, <1>2, <1>3 DEF OwnerInv

LEMMA OwnerStepInv == OwnerInv /\ [OwnerNext]_ownerVars => OwnerInv'
<1> SUFFICES ASSUME OwnerInv, [OwnerNext]_ownerVars PROVE OwnerInv'
  OBVIOUS
<1>1. CASE UNCHANGED ownerVars
  BY <1>1 DEF ownerVars, OwnerInv, OwnerTyped, DeletedLeavesNothing, Allocated
<1>2. ASSUME NEW g \in GalleryIds, GalleryCommits(g) PROVE OwnerInv'
  BY <1>2, GalleryCommitsInv
<1>3. ASSUME NEW w \in Writers, WriterRuns(w) PROVE OwnerInv'
  BY <1>3, WriterEntersInv, ReserveInv, WriteInv DEF WriterRuns
<1>4. ASSUME NEW c \in Cleaners, CleanerRuns(c) PROVE OwnerInv'
  BY <1>4, CleanerInv
<1>5. CASE AdminRuns
  BY <1>5, AdminPurgesInv, AdminDeletesInv DEF AdminRuns
<1>6. ASSUME NEW p \in Purgers, RefundLocks(p) \/ NothingToRefund(p) \/ RefundCommits(p) PROVE OwnerInv'
  BY <1>6, RefundInv
<1> QED BY <1>1, <1>2, <1>3, <1>4, <1>5, <1>6 DEF OwnerNext

(* Whatever uploads, copies and cleanups were under way when the owner's    *)
(* account was deleted, no allocation and no object of theirs outlives it   *)
(* (delete_user under the gallery fences, reserve, delete_storage_keys).    *)
THEOREM NothingOutlivesItsOwner == OwnerSpec => []DeletedLeavesNothing
<1>1. OwnerInit => OwnerInv
  BY OwnerInitInv
<1>2. OwnerInv /\ [OwnerNext]_ownerVars => OwnerInv'
  BY OwnerStepInv
<1>3. OwnerInv => DeletedLeavesNothing
  BY DEF OwnerInv
<1> QED BY <1>1, <1>2, <1>3, PTL DEF OwnerSpec

-----------------------------------------------------------------------------
(* The owner's totals: a reservation knows what its key was charged, since  *)
(* no other task charges or refunds that key.                               *)

KeysApart ==
  \A v, w \in Writers : v # w /\ writer[v].at # "idle" /\ writer[w].at # "idle" => writer[v].key # writer[w].key

PreviousKnown == \A w \in Writers : writer[w].at = "locked" => writer[w].previous = allocation[writer[w].key]

TotalsInv == OwnerInv /\ KeysApart /\ PreviousKnown /\ UsageIsSum

LEMMA ChargesAre ==
  ASSUME OwnerInv
  PROVE  /\ IsFiniteSet(StorageKeys) /\ \A keys \in SUBSET StorageKeys : IsFiniteSet(keys)
         /\ \A k \in StorageKeys : Charge[k] \in Nat /\ Charge[k] = IF allocation[k] \in Sizes THEN allocation[k] ELSE 0
         /\ \A keys \in SUBSET StorageKeys : Allocated(keys) \subseteq keys
<1>1. IsFiniteSet(StorageKeys) /\ Sizes \subseteq Nat
  BY OwnerAssumption DEF Sizes
<1>2. \A keys \in SUBSET StorageKeys : IsFiniteSet(keys)
  BY <1>1, FS_Subset
<1> QED BY <1>1, <1>2 DEF Charge, Allocated

LEMMA TotalIsNat ==
  ASSUME OwnerInv, NEW keys \in SUBSET StorageKeys
  PROVE  Total(keys).bytes \in Nat /\ Total(keys).objects \in Nat /\ Total(keys).unknown \in Nat
<1>1. Allocated(keys) \subseteq StorageKeys /\ IsFiniteSet(Allocated(keys))
  BY ChargesAre
<1>2. SumFunctionOnSet(Charge, Allocated(keys)) \in Nat
  BY <1>1, ChargesAre, SumIsNat
<1>3. {k \in keys : allocation[k] = Unknown} \subseteq StorageKeys
  OBVIOUS
<1>4. Cardinality(Allocated(keys)) \in Nat /\ Cardinality({k \in keys : allocation[k] = Unknown}) \in Nat
  BY <1>1, <1>3, ChargesAre, FS_CardinalityType
<1> QED BY <1>2, <1>4 DEF Total

LEMMA TotalUnchanged ==
  ASSUME UNCHANGED allocation
  PROVE  Total(StorageKeys)' = Total(StorageKeys)
BY DEF Total, Charge, Allocated

LEMMA TotalsInitInv == OwnerInit => TotalsInv
<1> SUFFICES ASSUME OwnerInit PROVE TotalsInv
  OBVIOUS
<1>0. OwnerInv
  BY OwnerInitInv
<1>1. PICK legacy \in SUBSET StorageKeys :
        /\ allocation = [k \in StorageKeys |-> IF k \in legacy THEN Unknown ELSE None]
        /\ usage = [bytes |-> 0, objects |-> Cardinality(legacy), unknown |-> Cardinality(legacy)]
  BY DEF OwnerInit
<1>2. Allocated(StorageKeys) = legacy /\ {k \in StorageKeys : allocation[k] = Unknown} = legacy
  BY <1>1 DEF Allocated, None, Unknown
<1>3. \A k \in StorageKeys : Charge[k] = 0
  BY <1>1, OwnerAssumption DEF Charge, Sizes, None, Unknown
<1>4. SumFunctionOnSet(Charge, legacy) = 0
  BY <1>0, <1>3, ChargesAre, SumOfZeros
<1>5. UsageIsSum
  BY <1>1, <1>2, <1>4 DEF UsageIsSum, Total
<1>6. KeysApart /\ PreviousKnown
  BY AwayAbsent DEF OwnerInit, KeysApart, PreviousKnown
<1> QED BY <1>0, <1>5, <1>6 DEF TotalsInv

(* A reservation charges its key what the object grows.                     *)
LEMMA ReservationAdds ==
  ASSUME TotalsInv, NEW w \in Writers, ReserveCommits(w)
  PROVE  UsageIsSum'
<1> DEFINE key      == writer[w].key
           previous == writer[w].previous
           size     == writer[w].size
           old      == Allocated(StorageKeys)
           new      == Allocated(StorageKeys)'
<1>0. OwnerInv /\ OwnerInv'
  <2>1. OwnerInv
    BY DEF TotalsInv
  <2> QED BY <2>1, ReserveInv
<1>1. /\ writer[w].at = "locked" /\ Accepted(previous, size) /\ previous = allocation[key]
      /\ allocation' = [allocation EXCEPT ![key] = Grown(previous, size)]
      /\ usage' = [usage EXCEPT !.bytes = @ + ExtraBytes(previous, size), !.objects = @ + ExtraObjects(previous)]
  BY DEF ReserveCommits, WriterStep, TotalsInv, PreviousKnown
<1>2. /\ key \in StorageKeys /\ previous \in Sizes \cup {None} /\ size \in Sizes
      /\ allocation \in [StorageKeys -> Sizes \cup {None, Unknown}]
  BY <1>0, <1>1, WriterFacts DEF WriterRecords, WriterSound, Accepted
<1>3. Grown(previous, size) \in Sizes /\ Grown(previous, size) # None /\ Grown(previous, size) # Unknown
  BY <1>2, OwnerAssumption DEF Grown, Sizes, None, Unknown
<1>4. \A k \in StorageKeys : allocation'[k] = IF k = key THEN Grown(previous, size) ELSE allocation[k]
  BY <1>1, <1>2
<1>5. new = old \cup {key} /\ (key \in old <=> previous # None)
  BY <1>1, <1>2, <1>3, <1>4 DEF Allocated
<1>6. {k \in StorageKeys : allocation'[k] = Unknown} = {k \in StorageKeys : allocation[k] = Unknown}
  BY <1>1, <1>2, <1>3, <1>4 DEF Sizes, Unknown, None, Accepted
<1>7. /\ IsFiniteSet(old) /\ old \subseteq StorageKeys /\ old \ {key} \subseteq StorageKeys
      /\ IsFiniteSet(old \ {key}) /\ IsFiniteSet(new)
      /\ \A k \in StorageKeys : Charge[k] \in Nat /\ Charge'[k] \in Nat
      /\ \A k \in StorageKeys \ {key} : Charge'[k] = Charge[k]
      /\ Charge'[key] = Grown(previous, size) /\ Charge[key] = IF previous \in Sizes THEN previous ELSE 0
  <2>1. /\ old \subseteq StorageKeys /\ old \ {key} \subseteq StorageKeys /\ new \subseteq StorageKeys
    BY <1>2, <1>5 DEF Allocated
  <2>2. IsFiniteSet(old) /\ IsFiniteSet(old \ {key}) /\ IsFiniteSet(new)
    <3> HIDE DEF old, new, key
    <3> QED BY <1>0, <2>1, ChargesAre
  <2>3. \A k \in StorageKeys : Charge[k] \in Nat /\ Charge'[k] \in Nat
    BY <1>0, <1>3, <1>4, ChargesAre, OwnerAssumption DEF Charge, Sizes
  <2>4. \A k \in StorageKeys \ {key} : Charge'[k] = Charge[k]
    BY <1>4 DEF Charge
  <2>5. Charge'[key] = Grown(previous, size) /\ Charge[key] = IF previous \in Sizes THEN previous ELSE 0
    BY <1>1, <1>2, <1>3, <1>4 DEF Charge
  <2> QED BY <2>1, <2>2, <2>3, <2>4, <2>5
<1> DEFINE rest == SumFunctionOnSet(Charge, old \ {key})
<1>8. rest \in Nat /\ SumFunctionOnSet(Charge', old \ {key}) = rest
  <2> HIDE DEF old, key, new
  <2>1. rest \in Nat
    BY <1>7, SumIsNat
  <2>2. \A k \in old \ {key} : Charge[k] = Charge'[k]
    BY <1>7
  <2>3. SumFunctionOnSet(Charge, old \ {key}) = SumFunctionOnSet(Charge', old \ {key})
    BY <1>7, <2>2, SumDependsOnMembers
  <2> QED BY <2>1, <2>3
<1>9. SumFunctionOnSet(Charge', new) = Grown(previous, size) + rest
  <2> HIDE DEF old, key, new, rest, previous, size
  <2>1. new \ {key} = old \ {key} /\ key \in new /\ \A k \in new : Charge'[k] \in Nat
    BY <1>2, <1>5, <1>7
  <2>2. SumFunctionOnSet(Charge', new) = Charge'[key] + SumFunctionOnSet(Charge', new \ {key})
    BY <1>7, <2>1, SumTakesOut
  <2> QED BY <1>7, <1>8, <2>1, <2>2
<1>10. SumFunctionOnSet(Charge, old) = (IF previous = None THEN 0 ELSE previous) + rest
  <2>1. CASE previous = None
    <3>1. old \ {key} = old
      BY <1>5, <2>1
    <3> HIDE DEF old, key, previous
    <3> QED BY <1>8, <2>1, <3>1
  <2>2. CASE previous # None
    <3>1. key \in old /\ previous \in Sizes
      BY <1>2, <1>5, <2>2
    <3> HIDE DEF old, key, previous
    <3>2. SumFunctionOnSet(Charge, old) = Charge[key] + SumFunctionOnSet(Charge, old \ {key})
      BY <1>7, <3>1, SumTakesOut
    <3> QED BY <1>7, <2>2, <3>1, <3>2
  <2> QED BY <2>1, <2>2
<1>11. Cardinality(new) = Cardinality(old) + ExtraObjects(previous)
  <2>1. Cardinality(old) \in Nat
    <3> HIDE DEF old
    <3> QED BY <1>7, FS_CardinalityType
  <2>2. Cardinality(old \cup {key}) = IF key \in old THEN Cardinality(old) ELSE Cardinality(old) + 1
    <3> HIDE DEF old, key
    <3> QED BY <1>7, FS_AddElement
  <2> HIDE DEF old, new, key, previous
  <2> QED BY <1>5, <2>1, <2>2 DEF ExtraObjects
<1>12. usage = [bytes |-> SumFunctionOnSet(Charge, old), objects |-> Cardinality(old),
                unknown |-> Cardinality({k \in StorageKeys : allocation[k] = Unknown})]
  BY DEF TotalsInv, UsageIsSum, Total
<1>13. Total(StorageKeys)' = [bytes |-> SumFunctionOnSet(Charge', new), objects |-> Cardinality(new),
                              unknown |-> Cardinality({k \in StorageKeys : allocation'[k] = Unknown})]
  BY DEF Total
<1>14. SumFunctionOnSet(Charge', new) = SumFunctionOnSet(Charge, old) + ExtraBytes(previous, size)
  <2> HIDE DEF old, new, rest, previous, size
  <2>1. CASE previous = None
    BY <1>2, <1>8, <1>9, <1>10, <2>1, OwnerAssumption DEF ExtraBytes, Grown, None, Sizes
  <2>2. CASE previous # None
    BY <1>2, <1>3, <1>8, <1>9, <1>10, <2>2, OwnerAssumption DEF ExtraBytes, Sizes
  <2> QED BY <2>1, <2>2
<1> DEFINE missing == Cardinality({k \in StorageKeys : allocation[k] = Unknown})
<1>15. missing = Cardinality({k \in StorageKeys : allocation'[k] = Unknown})
  BY <1>6
<1> HIDE DEF old, new, key, previous, size, missing
<1>16. usage' = [bytes |-> SumFunctionOnSet(Charge, old) + ExtraBytes(previous, size),
                 objects |-> Cardinality(old) + ExtraObjects(previous), unknown |-> missing]
  BY <1>1, <1>12 DEF missing
<1>17. usage' = [bytes |-> SumFunctionOnSet(Charge', new), objects |-> Cardinality(new), unknown |-> missing]
  BY <1>11, <1>14, <1>16
<1>18. usage' = Total(StorageKeys)'
  BY <1>13, <1>15, <1>17
<1> QED BY <1>18 DEF UsageIsSum

(* A refund takes away exactly what the keys it found were charged.         *)
LEMMA RefundSubtracts ==
  ASSUME TotalsInv, NEW p \in Purgers, RefundCommits(p)
  PROVE  UsageIsSum' /\ Total(purger[p].found).bytes \in Nat /\ Total(purger[p].found).objects \in Nat
<1> DEFINE found == purger[p].found
           old   == Allocated(StorageKeys)
           new   == Allocated(StorageKeys)'
           back  == Allocated(found)
           Missing(keys) == {k \in keys : allocation[k] = Unknown}
<1>0. OwnerInv
  BY DEF TotalsInv
<1>1. /\ allocation' = [k \in StorageKeys |-> IF k \in found THEN None ELSE allocation[k]]
      /\ usage' = [bytes |-> usage.bytes - Total(found).bytes, objects |-> usage.objects - Total(found).objects,
                   unknown |-> usage.unknown - Total(found).unknown]
  BY DEF RefundCommits
<1>2. found \in SUBSET StorageKeys
  BY <1>0, PurgerFacts DEF PurgerRecords
<1>3. /\ back \in SUBSET old /\ new = old \ back /\ old \cap back = back
      /\ {k \in StorageKeys : allocation'[k] = Unknown} = Missing(StorageKeys) \ Missing(found)
      /\ Missing(StorageKeys) \cap Missing(found) = Missing(found)
  BY <1>1, <1>2 DEF Allocated, None, Unknown
<1>4. /\ IsFiniteSet(old) /\ IsFiniteSet(new) /\ IsFiniteSet(back) /\ IsFiniteSet(Missing(StorageKeys))
      /\ old \subseteq StorageKeys /\ \A k \in old : Charge[k] \in Nat
  <2>1. old \subseteq StorageKeys /\ Missing(StorageKeys) \subseteq StorageKeys
    BY DEF Allocated
  <2> HIDE DEF old, new, back, Missing
  <2>2. new \subseteq StorageKeys /\ back \subseteq StorageKeys
    BY <1>3, <2>1
  <2> QED BY <1>0, <2>1, <2>2, ChargesAre
<1>5. \A k \in new : Charge[k] = Charge'[k]
  BY <1>1, <1>4 DEF Charge, Allocated
<1>6. SumFunctionOnSet(Charge', new) = SumFunctionOnSet(Charge, new)
  <2> HIDE DEF new
  <2> QED BY <1>4, <1>5, SumDependsOnMembers
<1>7. SumFunctionOnSet(Charge, old) = SumFunctionOnSet(Charge, back) + SumFunctionOnSet(Charge, new)
  <2> HIDE DEF old, new, back
  <2> QED BY <1>3, <1>4, SumSplits
<1>8. Cardinality(new) = Cardinality(old) - Cardinality(back)
  <2> HIDE DEF old, new, back
  <2>1. new = old \ back /\ old \cap back = back /\ IsFiniteSet(old)
    BY <1>3, <1>4
  <2>2. Cardinality(old \ back) = Cardinality(old) - Cardinality(old \cap back)
    BY <2>1, FS_Difference
  <2> QED BY <2>1, <2>2
<1>9. Cardinality({k \in StorageKeys : allocation'[k] = Unknown}) = Cardinality(Missing(StorageKeys)) - Cardinality(Missing(found))
  <2> DEFINE all == Missing(StorageKeys)  some == Missing(found)
  <2>1. IsFiniteSet(all) /\ all \cap some = some
    BY <1>3, <1>4
  <2> HIDE DEF all, some
  <2>2. Cardinality(all \ some) = Cardinality(all) - Cardinality(some)
    BY <2>1, FS_Difference
  <2> QED BY <1>3, <2>2 DEF all, some
<1>10. usage = [bytes |-> SumFunctionOnSet(Charge, old), objects |-> Cardinality(old), unknown |-> Cardinality(Missing(StorageKeys))]
  BY DEF TotalsInv, UsageIsSum, Total
<1>11. Total(found) = [bytes |-> SumFunctionOnSet(Charge, back), objects |-> Cardinality(back), unknown |-> Cardinality(Missing(found))]
  BY DEF Total
<1>12. Total(StorageKeys)' = [bytes |-> SumFunctionOnSet(Charge', new), objects |-> Cardinality(new),
                              unknown |-> Cardinality({k \in StorageKeys : allocation'[k] = Unknown})]
  BY DEF Total
<1>13. SumFunctionOnSet(Charge, new) \in Nat /\ SumFunctionOnSet(Charge, back) \in Nat
  <2> HIDE DEF old, new, back
  <2>1. new \subseteq old /\ back \subseteq old
    BY <1>3
  <2> QED BY <1>4, <2>1, SumIsNat
<1>14. Total(found).bytes \in Nat /\ Total(found).objects \in Nat
  BY <1>0, <1>2, TotalIsNat
<1> HIDE DEF old, new, back, found, Missing
<1>15. SumFunctionOnSet(Charge', new) = usage.bytes - Total(found).bytes
  BY <1>6, <1>7, <1>10, <1>11, <1>13
<1>16. UsageIsSum'
  BY <1>1, <1>8, <1>9, <1>10, <1>11, <1>12, <1>15 DEF UsageIsSum
<1> QED BY <1>14, <1>16 DEF found

(* Which steps touch the totals and the allocations ...                     *)
LEMMA TotalsStep ==
  ASSUME [OwnerNext]_ownerVars
  PROVE  \/ UNCHANGED <<allocation, usage>>
         \/ \E w \in Writers : ReserveCommits(w)
         \/ \E p \in Purgers : RefundCommits(p)
         \/ AdminCommits
<1>1. CASE UNCHANGED ownerVars
  BY <1>1 DEF ownerVars
<1>2. ASSUME NEW g \in GalleryIds, GalleryCommits(g) PROVE UNCHANGED <<allocation, usage>>
  BY <1>2 DEF GalleryCommits
<1>3. ASSUME NEW w \in Writers, WriterRuns(w) PROVE UNCHANGED <<allocation, usage>> \/ ReserveCommits(w)
  BY <1>3 DEF WriterRuns, WriterEnters, ReserveLocks, ReserveRefused, ObjectWritten, WriteFails
<1>4. ASSUME NEW c \in Cleaners, CleanerRuns(c) PROVE UNCHANGED <<allocation, usage>>
  BY <1>4 DEF CleanerRuns, CleanerEnters, CleanerErases, EraseFails
<1>5. CASE AdminRuns
  BY <1>5 DEF AdminRuns, AdminLists, AdminFenced, AdminDeletes, AdminRollsBack, AdminFences, AdminErases, EraseFails
<1>6. ASSUME NEW p \in Purgers, RefundLocks(p) \/ NothingToRefund(p) PROVE UNCHANGED <<allocation, usage>>
  BY <1>6 DEF RefundLocks, NothingToRefund
<1> QED BY <1>1, <1>2, <1>3, <1>4, <1>5, <1>6 DEF OwnerNext

(* ... and which ones move a writer.                                        *)
LEMMA WritersStep ==
  ASSUME [OwnerNext]_ownerVars
  PROVE  UNCHANGED writer \/ \E w \in Writers : WriterRuns(w)
<1>1. CASE UNCHANGED ownerVars
  BY <1>1 DEF ownerVars
<1>2. ASSUME NEW g \in GalleryIds, GalleryCommits(g) PROVE UNCHANGED writer
  BY <1>2 DEF GalleryCommits
<1>3. ASSUME NEW c \in Cleaners, CleanerRuns(c) PROVE UNCHANGED writer
  BY <1>3 DEF CleanerRuns, CleanerEnters, CleanerErases, EraseFails, PurgerStep
<1>4. CASE AdminRuns
  BY <1>4 DEF AdminRuns, AdminLists, AdminFenced, AdminDeletes, AdminCommits, AdminRollsBack, AdminFences, AdminErases,
              EraseFails, PurgerStep
<1>5. ASSUME NEW p \in Purgers, RefundLocks(p) \/ NothingToRefund(p) \/ RefundCommits(p) PROVE UNCHANGED writer
  BY <1>5 DEF RefundLocks, NothingToRefund, RefundCommits, PurgerStep
<1> QED BY <1>1, <1>2, <1>3, <1>4, <1>5 DEF OwnerNext

LEMMA WriterMoves ==
  ASSUME OwnerInv, KeysApart, NEW w \in Writers, WriterRuns(w)
  PROVE  /\ \A v \in Writers \ {w} : writer'[v] = writer[v]
         /\ writer'[w].at # "idle" => \A v \in Writers \ {w} : writer[v].at # "idle" => writer[v].key # writer'[w].key
         /\ writer'[w].at = "locked" => /\ writer'[w].previous = allocation[writer'[w].key]
                                        /\ UNCHANGED allocation
<1>0. writer \in [Writers -> WriterRecords] /\ writer[w] \in WriterRecords
  BY DEF OwnerInv, OwnerTyped
<1>1. ASSUME NEW k \in StorageKeys, NEW n \in Sizes, WriterEnters(w, k, n)
      PROVE  /\ writer' = [writer EXCEPT ![w] = writer'[w]] /\ writer'[w].at = "entered" /\ writer'[w].key = k
             /\ \A v \in Writers : writer[v].at # "idle" => writer[v].key # k
  BY <1>0, <1>1 DEF WriterEnters, WriterStep, Away
<1>2. CASE ReserveLocks(w)
  <2>1. /\ writer' = [writer EXCEPT ![w] = writer'[w]] /\ writer[w].at = "entered"
        /\ writer'[w].key = writer[w].key /\ writer'[w].previous = allocation[writer[w].key] /\ UNCHANGED allocation
    BY <1>0, <1>2 DEF ReserveLocks, WriterStep, WriterRecords
  <2> QED BY <1>0, <2>1 DEF KeysApart
<1>3. CASE ReserveCommits(w)
  <2>1. /\ writer' = [writer EXCEPT ![w] = writer'[w]] /\ writer[w].at = "locked"
        /\ writer'[w].key = writer[w].key /\ writer'[w].at = "reserved"
    BY <1>0, <1>3 DEF ReserveCommits, WriterStep, WriterRecords
  <2> QED BY <1>0, <2>1 DEF KeysApart
<1>4. CASE ReserveRefused(w) \/ ObjectWritten(w) \/ WriteFails(w)
  <2>1. writer' = [writer EXCEPT ![w] = Away] /\ Away.at = "idle"
    BY <1>4, AwayAbsent DEF ReserveRefused, ObjectWritten, WriteFails, WriterStep
  <2> QED BY <1>0, <2>1
<1>5. ASSUME NEW k \in StorageKeys, NEW n \in Sizes, WriterEnters(w, k, n)
      PROVE  /\ \A v \in Writers \ {w} : writer'[v] = writer[v]
             /\ \A v \in Writers \ {w} : writer[v].at # "idle" => writer[v].key # writer'[w].key
             /\ writer'[w].at # "locked"
  BY <1>0, <1>1, <1>5
<1> QED BY <1>2, <1>3, <1>4, <1>5 DEF WriterRuns

(* While a writer holds its key, no other task charges or refunds it.       *)
LEMMA ChargeStands ==
  ASSUME TotalsInv, [OwnerNext]_ownerVars, NEW v \in Writers, writer[v].at # "idle", writer'[v] = writer[v]
  PROVE  allocation'[writer[v].key] = allocation[writer[v].key]
<1>0. OwnerInv /\ writer[v].key \in StorageKeys
  BY WriterFacts DEF TotalsInv, WriterSound
<1>1. ASSUME NEW w \in Writers, ReserveCommits(w) PROVE allocation'[writer[v].key] = allocation[writer[v].key]
  <2>1. writer'[w].at = "reserved" /\ writer[w].at = "locked"
    BY <1>0, <1>1 DEF ReserveCommits, WriterStep, OwnerInv, OwnerTyped, WriterRecords
  <2>2. w # v /\ writer[w].key # writer[v].key
    BY <2>1 DEF TotalsInv, KeysApart
  <2>3. \E charge : allocation' = [allocation EXCEPT ![writer[w].key] = charge]
    BY <1>1 DEF ReserveCommits
  <2> QED BY <1>0, <2>2, <2>3 DEF OwnerInv, OwnerTyped
<1>2. ASSUME NEW p \in Purgers, RefundCommits(p) PROVE allocation'[writer[v].key] = allocation[writer[v].key]
  <2>1. writer[v].key \notin purger[p].found
    BY <1>0, WriterFacts DEF Apart, PurgerSound
  <2> QED BY <1>0, <1>2, <2>1 DEF RefundCommits
<1>3. CASE AdminCommits
  BY <1>3 DEF AdminCommits
<1> QED BY <1>1, <1>2, <1>3, TotalsStep

LEMMA DeletionZeroes == ASSUME TotalsInv, AdminCommits PROVE UsageIsSum'
<1>1. Allocated(StorageKeys) = {} /\ UNCHANGED allocation /\ usage' = [bytes |-> 0, objects |-> 0, unknown |-> 0]
  BY DEF AdminCommits
<1>2. {k \in StorageKeys : allocation[k] = Unknown} = {}
  BY <1>1 DEF Allocated, None, Unknown
<1>3. SumFunctionOnSet(Charge, {}) = 0 /\ Cardinality({}) = 0
  BY SumOfNothing, FS_EmptySet
<1>4. Total(StorageKeys) = [bytes |-> 0, objects |-> 0, unknown |-> 0]
  BY <1>1, <1>2, <1>3 DEF Total
<1> QED BY <1>1, <1>4, TotalUnchanged DEF UsageIsSum

LEMMA TotalsStepInv == TotalsInv /\ [OwnerNext]_ownerVars => TotalsInv'
<1> SUFFICES ASSUME TotalsInv, [OwnerNext]_ownerVars PROVE TotalsInv'
  OBVIOUS
<1>0. OwnerInv /\ KeysApart /\ PreviousKnown
  BY DEF TotalsInv
<1>1. OwnerInv'
  BY <1>0, OwnerStepInv
<1>2. KeysApart'
  <2>1. CASE UNCHANGED writer
    BY <1>0, <2>1 DEF KeysApart
  <2>2. ASSUME NEW w \in Writers, WriterRuns(w) PROVE KeysApart'
    BY <1>0, <2>2, WriterMoves DEF KeysApart
  <2> QED BY <2>1, <2>2, WritersStep
<1>3. PreviousKnown'
  <2>1. CASE UNCHANGED writer
    BY <1>0, <2>1, ChargeStands DEF PreviousKnown
  <2>2. ASSUME NEW w \in Writers, WriterRuns(w), NEW v \in Writers, writer'[v].at = "locked"
        PROVE  writer'[v].previous = allocation'[writer'[v].key]
    <3>1. CASE v = w
      BY <1>0, <2>2, <3>1, WriterMoves
    <3>2. CASE v # w
      <4>1. writer'[v] = writer[v]
        BY <1>0, <2>2, <3>2, WriterMoves
      <4> QED BY <1>0, <2>2, <4>1, ChargeStands DEF PreviousKnown
    <3> QED BY <3>1, <3>2
  <2> QED BY <2>1, <2>2, WritersStep DEF PreviousKnown
<1>4. UsageIsSum'
  <2>1. CASE UNCHANGED <<allocation, usage>>
    BY <2>1, TotalUnchanged DEF TotalsInv, UsageIsSum
  <2> QED BY <2>1, ReservationAdds, RefundSubtracts, DeletionZeroes, TotalsStep
<1> QED BY <1>1, <1>2, <1>3, <1>4 DEF TotalsInv

(* The owner's totals are the sum of the allocations for any number of      *)
(* uploads, copies and cleanups at a time and any sizes                     *)
(* (reserve, release, delete_user).                                         *)
THEOREM TotalsAlwaysSum == OwnerSpec => []UsageIsSum
<1>1. TotalsInv => UsageIsSum
  BY DEF TotalsInv
<1> QED BY <1>1, TotalsInitInv, TotalsStepInv, PTL DEF OwnerSpec

(* A total that grows stays within its limit, and never grows while the     *)
(* size of an object is unknown: refunds and the deletion only lower the    *)
(* totals, because these are what the allocations sum up to                 *)
(* (reserve's checks, release).                                             *)
THEOREM GrowthAlwaysWithinQuota == OwnerSpec => GrowthWithinQuota
<1> DEFINE Grows == /\ usage'.bytes > usage.bytes => usage'.bytes <= MaxBytes
                    /\ usage'.objects > usage.objects => usage'.objects <= MaxObjects /\ usage.unknown = 0
<1>1. ASSUME TotalsInv, [OwnerNext]_ownerVars PROVE Grows
  <2>0. OwnerInv /\ usage = Total(StorageKeys)
    BY <1>1 DEF TotalsInv, UsageIsSum
  <2>1. usage.bytes \in Nat /\ usage.objects \in Nat
    BY <2>0, TotalIsNat
  <2>2. CASE UNCHANGED <<allocation, usage>>
    BY <2>1, <2>2
  <2>3. ASSUME NEW w \in Writers, ReserveCommits(w) PROVE Grows
    <3> DEFINE bytes   == usage.bytes + ExtraBytes(writer[w].previous, writer[w].size)
               count   == usage.objects + ExtraObjects(writer[w].previous)
    <3>1. bytes <= MaxBytes /\ count <= MaxObjects /\ usage.unknown = 0
      BY <2>3 DEF ReserveCommits, Accepted
    <3>2. usage'.bytes = bytes /\ usage'.objects = count
      BY <2>0, <2>3 DEF ReserveCommits, Total
    <3> HIDE DEF bytes, count
    <3> QED BY <3>1, <3>2
  <2>4. ASSUME NEW p \in Purgers, RefundCommits(p) PROVE Grows
    <3>1. Total(purger[p].found).bytes \in Nat /\ Total(purger[p].found).objects \in Nat
      BY <1>1, <2>4, RefundSubtracts
    <3>2. usage'.bytes = usage.bytes - Total(purger[p].found).bytes
          /\ usage'.objects = usage.objects - Total(purger[p].found).objects
      BY <2>4 DEF RefundCommits
    <3> QED BY <2>1, <3>1, <3>2
  <2>5. CASE AdminCommits
    BY <2>1, <2>5 DEF AdminCommits
  <2> QED BY <1>1, <2>2, <2>3, <2>4, <2>5, TotalsStep
<1> QED BY <1>1, TotalsInitInv, TotalsStepInv, PTL DEF OwnerSpec, GrowthWithinQuota

\* The rows that are not totals.
AccountTyped ==
  /\ user \in {"present", "gone"} /\ userLocked \in BOOLEAN
  /\ galleryRow \in [GalleryIds -> {"new", "present", "gone"}]
  /\ usageLock \in Writers \cup Purgers \cup {Nobody}

LEMMA AccountInit == OwnerInit => AccountTyped
BY DEF OwnerInit, AccountTyped

LEMMA AccountStep == ASSUME OwnerInv, AccountTyped, [OwnerNext]_ownerVars PROVE AccountTyped'
<1>1. CASE UNCHANGED ownerVars
  BY <1>1 DEF ownerVars, AccountTyped
<1>2. ASSUME NEW g \in GalleryIds, GalleryCommits(g) PROVE AccountTyped'
  BY <1>2 DEF GalleryCommits, AccountTyped
<1>3. ASSUME NEW w \in Writers, WriterRuns(w) PROVE AccountTyped'
  BY <1>3 DEF WriterRuns, WriterEnters, ReserveLocks, ReserveCommits, ReserveRefused, ObjectWritten, WriteFails,
              WriterStep, AccountTyped
<1>4. ASSUME NEW c \in Cleaners, CleanerRuns(c) PROVE AccountTyped'
  BY <1>4 DEF CleanerRuns, CleanerEnters, CleanerErases, EraseFails, PurgerStep, AccountTyped
<1>5. CASE AdminRuns
  <2>1. CASE AdminLists \/ AdminFenced \/ AdminDeletes \/ AdminRollsBack
    BY <2>1 DEF AdminLists, AdminFenced, AdminDeletes, AdminRollsBack, PurgerStep, AccountTyped
  <2>2. CASE AdminCommits
    BY <2>2 DEF AdminCommits, AccountTyped
  <2>3. ASSUME NEW g \in GalleryIds, AdminFences(g) \/ AdminErases(g) PROVE AccountTyped'
    BY <2>3 DEF AdminFences, AdminErases, PurgerStep, AccountTyped
  <2>4. CASE EraseFails(Admin, "purging", {k \in Allocated(StorageKeys) : k[1] \in purger[Admin].todo})
    BY <2>4 DEF EraseFails, PurgerStep, AccountTyped
  <2> QED BY <1>5, <2>1, <2>2, <2>3, <2>4 DEF AdminRuns
<1>6. ASSUME NEW p \in Purgers, RefundLocks(p) \/ NothingToRefund(p) \/ RefundCommits(p) PROVE AccountTyped'
  BY <1>6 DEF RefundLocks, NothingToRefund, RefundCommits, PurgerStep, AccountTyped
<1> QED BY <1>1, <1>2, <1>3, <1>4, <1>5, <1>6 DEF OwnerNext

(* Every variable of the account keeps its type.  The totals are natural    *)
(* numbers because they are sums: no refund takes one below zero            *)
(* (release, storage_usage).                                                *)
THEOREM AccountAlwaysTyped == OwnerSpec => []OwnerTypeOK
<1>1. OwnerInit => TotalsInv /\ AccountTyped
  BY TotalsInitInv, AccountInit
<1>2. TotalsInv /\ AccountTyped /\ [OwnerNext]_ownerVars => TotalsInv' /\ AccountTyped'
  <2>1. TotalsInv => OwnerInv
    BY DEF TotalsInv
  <2> QED BY <2>1, TotalsStepInv, AccountStep
<1>3. TotalsInv /\ AccountTyped => OwnerTypeOK
  <2> SUFFICES ASSUME TotalsInv, AccountTyped PROVE OwnerTypeOK
    OBVIOUS
  <2>1. OwnerInv /\ usage = Total(StorageKeys)
    BY DEF TotalsInv, UsageIsSum
  <2>2. usage \in [bytes : Nat, objects : Nat, unknown : Nat]
    BY <2>1, TotalIsNat DEF Total
  <2>3. Away.key \in StorageKeys
    BY OwnerAssumption DEF Away
  <2>4. writer \in [Writers -> [at : {"idle", "entered", "locked", "reserved"}, key : StorageKeys,
                                size : Sizes, previous : Sizes \cup {None, Unknown}]]
    <3>1. StorageKeys \cup {Away.key} = StorageKeys
      BY <2>3
    <3> QED BY <2>1, <3>1 DEF OwnerInv, OwnerTyped, WriterRecords
  <2>5. stored \subseteq StorageKeys
    BY <2>1 DEF OwnerInv, Allocated
  <2> QED BY <2>1, <2>2, <2>4, <2>5 DEF OwnerTypeOK, AccountTyped, OwnerInv, OwnerTyped, PurgerRecords
<1> QED BY <1>1, <1>2, <1>3, PTL DEF OwnerSpec

-----------------------------------------------------------------------------
(* What an archive leaves on the disk (ArchiveExtraction)                   *)

Budgets == [expanded : Nat, headers : Nat, extensions : Nat, chain : Nat]
Places == Targets \cup {<<>>}
Members == [at : {"header", "copying", "padding", "done", "refused"}, path : Places, size : Int, copied : Int]

\* The claims of RestoreBudget are what is on the disk, and which of it are
\* directories; every byte on the disk was paid for.
ExtractionInv ==
  /\ DOMAIN objects = OnDisk
  /\ \A q \in OnDisk : objects[q] = TRUE <=> q \in directories
  /\ directories \cap DOMAIN files = {}
  /\ OnDisk \subseteq Targets
  /\ \A p \in OnDisk : Ancestors(p) \subseteq directories
  /\ Cardinality(OnDisk) <= ObjectLimit
  /\ DOMAIN files \subseteq seen /\ seen \subseteq Paths
  /\ files = [q \in DOMAIN files |-> files[q]] /\ IsFiniteSet(DOMAIN files)
  /\ \A q \in DOMAIN files : files[q] \in Nat
  /\ extraction \in Members
  /\ extraction.at = "copying" => extraction.path \in DOMAIN files
  /\ budget \in Budgets
  /\ SumFunction(files) <= budget.expanded /\ budget.expanded <= ExpandedLimit

LEMMA PathsAre ==
  ASSUME NEW p \in Targets
  PROVE  /\ p \in Seq(STRING) /\ Len(p) \in Nat /\ Len(p) >= 1
         /\ Ancestors(p) \subseteq Targets /\ p \notin Ancestors(p)
         /\ \A q \in Ancestors(p) : Ancestors(q) \subseteq Ancestors(p)
<1>1. ASSUME NEW r \in Seq(STRING), NEW i \in 1..(Len(r) - 1)
      PROVE  /\ SubSeq(r, 1, i) \in Seq(STRING) /\ Len(SubSeq(r, 1, i)) = i /\ i \in Nat /\ i >= 1 /\ i < Len(r)
             /\ \A j \in 1..(i - 1) : SubSeq(SubSeq(r, 1, i), 1, j) = SubSeq(r, 1, j)
  <2>1. Len(r) \in Nat /\ i \in Nat /\ i >= 1 /\ i < Len(r)
    OBVIOUS
  <2>2. SubSeq(r, 1, i) \in Seq(STRING) /\ Len(SubSeq(r, 1, i)) = i
    BY <2>1
  <2>3. ASSUME NEW j \in 1..(i - 1) PROVE SubSeq(SubSeq(r, 1, i), 1, j) = SubSeq(r, 1, j)
    BY <2>1, <2>2
  <2> QED BY <2>1, <2>2, <2>3
<1>2. PICK r \in Paths : p = r \/ p \in Ancestors(r)
  BY DEF Targets
<1>3. r \in Seq(STRING) /\ Len(r) \in Nat /\ Len(r) >= 1
  BY ExtractionAssumption
<1>4. p \in Seq(STRING) /\ Len(p) \in Nat /\ Len(p) >= 1
  BY <1>1, <1>2, <1>3 DEF Ancestors
<1>5. p \notin Ancestors(p)
  BY <1>1, <1>4 DEF Ancestors
<1>6. \A s \in Seq(STRING) : \A q \in Ancestors(s) : Ancestors(q) \subseteq Ancestors(s)
  <2>1. ASSUME NEW s \in Seq(STRING), NEW i \in 1..(Len(s) - 1), NEW j \in 1..(Len(SubSeq(s, 1, i)) - 1)
        PROVE  SubSeq(SubSeq(s, 1, i), 1, j) \in Ancestors(s)
    <3>1. j \in 1..(i - 1) /\ i \in Nat /\ Len(s) \in Nat /\ i < Len(s)
      BY <1>1
    <3>2. j \in 1..(Len(s) - 1) /\ SubSeq(SubSeq(s, 1, i), 1, j) = SubSeq(s, 1, j)
      BY <1>1, <3>1
    <3> QED BY <3>2 DEF Ancestors
  <2> QED BY <2>1 DEF Ancestors
<1>7. Ancestors(p) \subseteq Ancestors(r) \/ p = r
  BY <1>2, <1>3, <1>6
<1>8. Ancestors(p) \subseteq Targets
  BY <1>7 DEF Targets
<1> QED BY <1>4, <1>5, <1>6, <1>8

\* The directories and the files after an accepted member.
MemberChange(p, dirs, kept) ==
  \/ TargetAccepted(p, TRUE) /\ dirs = directories \cup Ancestors(p) \cup {p} /\ kept = DOMAIN files
  \/ TargetAccepted(p, FALSE) /\ dirs = directories \cup Ancestors(p) /\ kept = DOMAIN files \cup {p}

\* They fit into the tree, and the claims are about them.
Fits(dirs, kept) ==
  /\ DOMAIN objects' = dirs \cup kept
  /\ \A q \in dirs \cup kept : objects'[q] = TRUE <=> q \in dirs
  /\ dirs \cap kept = {} /\ dirs \cup kept \subseteq Targets
  /\ \A q \in dirs \cup kept : Ancestors(q) \subseteq dirs
  /\ Cardinality(dirs \cup kept) <= ObjectLimit
  /\ kept \subseteq seen' /\ seen' \subseteq Paths

(* A member that is accepted fits into the tree.                            *)
LEMMA MemberFits ==
  ASSUME ExtractionInv, NEW p \in Paths, NEW dirs, NEW kept, MemberChange(p, dirs, kept)
  PROVE  Fits(dirs, kept)
<1>d. PICK directory \in BOOLEAN :
        /\ TargetAccepted(p, directory)
        /\ dirs = directories \cup Ancestors(p) \cup (IF directory THEN {p} ELSE {})
        /\ kept = DOMAIN files \cup (IF directory THEN {} ELSE {p})
  <2>1. CASE TargetAccepted(p, TRUE) /\ dirs = directories \cup Ancestors(p) \cup {p} /\ kept = DOMAIN files
    <3>1. /\ dirs = directories \cup Ancestors(p) \cup (IF TRUE THEN {p} ELSE {})
          /\ kept = DOMAIN files \cup (IF TRUE THEN {} ELSE {p})
      BY <2>1
    <3> QED BY <2>1, <3>1, Zenon
  <2>2. CASE TargetAccepted(p, FALSE) /\ dirs = directories \cup Ancestors(p) /\ kept = DOMAIN files \cup {p}
    <3>1. /\ dirs = directories \cup Ancestors(p) \cup (IF FALSE THEN {p} ELSE {})
          /\ kept = DOMAIN files \cup (IF FALSE THEN {} ELSE {p})
      BY <2>2
    <3> QED BY <2>2, <3>1, Zenon
  <2> QED BY <2>1, <2>2 DEF MemberChange
<1> DEFINE claims == Claims(p, directory)
<1>1. /\ p \notin seen /\ Consistent(claims) /\ Cardinality(DOMAIN Claimed(claims)) <= ObjectLimit
      /\ seen' = seen \cup {p} /\ objects' = Claimed(claims)
  BY <1>d DEF TargetAccepted
<1>2. p \in Targets
  BY DEF Targets
<1>3. /\ DOMAIN claims = Ancestors(p) \cup {p} /\ claims[p] = directory
      /\ \A q \in Ancestors(p) : claims[q] = TRUE
  BY <1>2, PathsAre DEF Claims
<1> HIDE DEF claims
<1>4. DOMAIN objects = directories \cup DOMAIN files /\ \A q \in DOMAIN objects : objects[q] = TRUE <=> q \in directories
  BY DEF ExtractionInv, OnDisk
<1>5. /\ \A q \in Ancestors(p) : q \notin DOMAIN files
      /\ p \in directories => directory = TRUE
      /\ p \in DOMAIN files => directory = FALSE
  BY <1>1, <1>3, <1>4 DEF Consistent, ExtractionInv
<1>6. p \notin DOMAIN files
  BY <1>1 DEF ExtractionInv
<1>7. DOMAIN Claimed(claims) = dirs \cup kept
  BY <1>d, <1>3, <1>4 DEF Claimed
<1>8. \A q \in dirs \cup kept : objects'[q] = IF q \in DOMAIN claims THEN claims[q] ELSE objects[q]
  BY <1>d, <1>1, <1>3, <1>4 DEF Claimed
<1>9. p \notin Ancestors(p) /\ Ancestors(p) \subseteq Targets /\ \A q \in Ancestors(p) : Ancestors(q) \subseteq Ancestors(p)
  BY <1>2, PathsAre
<1>10. dirs \cap kept = {}
  BY <1>d, <1>5, <1>6, <1>9 DEF ExtractionInv
<1>11. \A q \in dirs \cup kept : objects'[q] = TRUE <=> q \in dirs
  BY <1>d, <1>3, <1>4, <1>5, <1>6, <1>8, <1>9, <1>10
<1>12. dirs \cup kept \subseteq Targets
  BY <1>d, <1>2, <1>9 DEF ExtractionInv, OnDisk
<1>13. \A q \in dirs \cup kept : Ancestors(q) \subseteq dirs
  BY <1>d, <1>9 DEF ExtractionInv, OnDisk
<1>14. kept \subseteq seen' /\ seen' \subseteq Paths
  BY <1>d, <1>1 DEF ExtractionInv
<1> QED BY <1>1, <1>6, <1>7, <1>10, <1>11, <1>12, <1>13, <1>14 DEF Fits

LEMMA BudgetIs ==
  ASSUME ExtractionInv
  PROVE  /\ budget.expanded \in Nat /\ ExpandedLimit \in Nat /\ SumFunction(files) \in Nat
         /\ SumFunction(files) <= budget.expanded /\ budget.expanded <= ExpandedLimit
<1>1. SumFunction(files) = SumFunctionOnSet(files, DOMAIN files)
  BY DEF SumFunction
<1>2. SumFunctionOnSet(files, DOMAIN files) \in Nat
  BY SumIsNat DEF ExtractionInv
<1>3. ExpandedLimit \in Nat
  BY ExtractionAssumption
<1>4. budget.expanded \in Nat
  BY DEF ExtractionInv, Budgets
<1> QED BY <1>1, <1>2, <1>3, <1>4 DEF ExtractionInv

LEMMA HeaderPaid ==
  ASSUME ExtractionInv, HeaderCounted, MemberHeader
  PROVE  /\ budget'.expanded = budget.expanded + 1 /\ budget'.expanded <= ExpandedLimit
         /\ budget' \in Budgets
<1>1. budget \in Budgets
  BY DEF ExtractionInv
<1>2. budget' = [budget EXCEPT !.expanded = @ + 1, !.headers = @ + 1, !.chain = 0]
  BY DEF MemberHeader
<1>4. budget.expanded \in Nat /\ budget.headers \in Nat /\ budget.extensions \in Nat /\ budget.chain \in Nat
  BY <1>1 DEF Budgets
<1>5. budget' = [expanded |-> budget.expanded + 1, headers |-> budget.headers + 1,
                 extensions |-> budget.extensions, chain |-> 0]
  BY <1>1, <1>2 DEF Budgets
<1>3. budget'.expanded = budget.expanded + 1 /\ budget' \in Budgets
  BY <1>4, <1>5 DEF Budgets
<1> QED BY <1>1, <1>3, BudgetIs DEF Budgets, HeaderCounted, Affords

LEMMA BetweenIs ==
  /\ Between \in Members /\ Between.at = "header"
  /\ [Between EXCEPT !.at = "padding"] \in Members /\ [Between EXCEPT !.at = "padding"].at = "padding"
  /\ [Between EXCEPT !.at = "done"] \in Members /\ [Between EXCEPT !.at = "done"].at = "done"
<1> DEFINE e == <<>>
<1>1. e \in Places
  BY DEF Places
<1>2. Between = [at |-> "header", path |-> e, size |-> 0, copied |-> 0]
  BY DEF Between
<1> HIDE DEF e
<1>3. /\ [Between EXCEPT !.at = "padding"] = [at |-> "padding", path |-> e, size |-> 0, copied |-> 0]
      /\ [Between EXCEPT !.at = "done"] = [at |-> "done", path |-> e, size |-> 0, copied |-> 0]
  BY <1>2
<1>4. \A s \in {"header", "padding", "done"} : LET m == [at |-> s, path |-> e, size |-> 0, copied |-> 0] IN m \in Members /\ m.at = s
  BY <1>1 DEF Members
<1> QED BY <1>2, <1>3, <1>4

(* A step that only reads and counts.                                       *)
LEMMA CountsOnly ==
  ASSUME ExtractionInv, UNCHANGED <<objects, seen, directories, files>>,
         extraction' = extraction \/ (extraction'.at # "copying" /\ extraction' \in Members),
         budget' \in Budgets,
         budget.expanded <= budget'.expanded, budget'.expanded <= ExpandedLimit
  PROVE  ExtractionInv'
<1>1. SumFunction(files) <= budget'.expanded
  BY BudgetIs DEF Budgets
<1>2. extraction' \in Members /\ (extraction'.at = "copying" => extraction'.path \in DOMAIN files)
  BY DEF ExtractionInv
<1> QED BY <1>1, <1>2 DEF ExtractionInv, OnDisk

LEMMA ReadsInv ==
  ASSUME ExtractionInv,
         \/ \E size \in 0..MaxMember : ExtensionRead(size)
         \/ \E bytes \in 1..CopyChunk : PaddingRead(bytes)
         \/ FileCopied \/ EndMarker \/ StreamEnds \/ ExtractionRefused
  PROVE  ExtractionInv'
<1>0. MaxMember \in Nat /\ CopyChunk \in Nat
  BY ExtractionAssumption
<1>b. budget \in Budgets
  BY DEF ExtractionInv
<1>x. extraction \in Members
  BY DEF ExtractionInv
<1>1. ASSUME NEW size \in 0..MaxMember, ExtensionRead(size) PROVE ExtractionInv'
  <2>1. /\ UNCHANGED <<extraction, objects, seen, directories, files>> /\ Affords(1 + size)
        /\ budget' = [expanded |-> budget.expanded + 1 + size, headers |-> budget.headers + 1,
                      extensions |-> budget.extensions + size, chain |-> budget.chain + 1]
    BY <1>1 DEF ExtensionRead
  <2>2. /\ budget' \in Budgets
        /\ budget'.expanded = budget.expanded + 1 + size
    BY <1>0, <1>b, <2>1 DEF Budgets
  <2> QED BY <1>0, <2>1, <2>2, BudgetIs, CountsOnly DEF Affords
<1>2. ASSUME NEW bytes \in 1..CopyChunk, PaddingRead(bytes) PROVE ExtractionInv'
  <2>1. /\ UNCHANGED <<extraction, objects, seen, directories, files>> /\ Affords(bytes)
        /\ budget' = [budget EXCEPT !.expanded = @ + bytes]
    BY <1>2 DEF PaddingRead
  <2>2. /\ budget' \in Budgets
        /\ budget'.expanded = budget.expanded + bytes
    BY <1>0, <1>b, <2>1 DEF Budgets
  <2> QED BY <1>0, <2>1, <2>2, BudgetIs, CountsOnly DEF Affords
<1>3. CASE EndMarker
  <2>1. /\ UNCHANGED <<objects, seen, directories, files>> /\ Affords(1)
        /\ extraction' = [Between EXCEPT !.at = "padding"]
        /\ budget' = [budget EXCEPT !.expanded = @ + 1]
    BY <1>3 DEF EndMarker
  <2>2. /\ budget' \in Budgets
        /\ budget'.expanded = budget.expanded + 1
    BY <1>0, <1>b, <2>1 DEF Budgets
  <2>4. extraction'.at # "copying" /\ extraction' \in Members
    BY <2>1, BetweenIs
  <2> QED BY <1>b, <2>1, <2>2, <2>4, BudgetIs, CountsOnly DEF Affords
<1>4. CASE FileCopied \/ StreamEnds \/ ExtractionRefused
  <2>1. UNCHANGED <<budget, objects, seen, directories, files>>
    BY <1>4 DEF FileCopied, StreamEnds, ExtractionRefused
  <2>2. extraction'.at # "copying" /\ extraction' \in Members
    <3>1. CASE ExtractionRefused
      BY <1>x, <3>1 DEF ExtractionRefused, Members
    <3>2. CASE FileCopied \/ StreamEnds
      <4>1. extraction' = Between \/ extraction' = [Between EXCEPT !.at = "done"]
        BY <3>2 DEF FileCopied, StreamEnds
      <4> QED BY <4>1, BetweenIs
    <3> QED BY <1>4, <3>1, <3>2
  <2> QED BY <1>b, <2>1, <2>2, BudgetIs, CountsOnly
<1> QED BY <1>1, <1>2, <1>3, <1>4

(* A new file starts empty, so that the bytes on the disk stay what they    *)
(* were; a copied chunk adds itself.                                        *)
LEMMA SumWithNew ==
  ASSUME NEW f, IsFiniteSet(DOMAIN f), \A q \in DOMAIN f : f[q] \in Nat, NEW p, p \notin DOMAIN f
  PROVE  SumFunction([q \in DOMAIN f \cup {p} |-> IF q = p THEN 0 ELSE f[q]]) = SumFunction(f)
<1> DEFINE D == DOMAIN f
           g == [q \in D \cup {p} |-> IF q = p THEN 0 ELSE f[q]]
<1>1. DOMAIN g = D \cup {p} /\ g[p] = 0 /\ \A q \in D : g[q] = f[q]
  OBVIOUS
<1>2. IsFiniteSet(D \cup {p}) /\ (D \cup {p}) \ {p} = D
  BY FS_AddElement
<1> HIDE DEF D, g
<1>3. /\ IsFiniteSet(D) /\ \A q \in D \cup {p} : g[q] \in Nat
  <2>1. \A q \in D : f[q] \in Nat
    BY DEF D
  <2> QED BY <1>1, <2>1, FS_AddElement DEF D
<1>4. SumFunctionOnSet(g, D \cup {p}) = g[p] + SumFunctionOnSet(g, D)
  BY <1>2, <1>3, SumTakesOut
<1>5. SumFunctionOnSet(g, D) = SumFunctionOnSet(f, D)
  BY <1>1, <1>3, SumDependsOnMembers
<1>6. SumFunctionOnSet(f, D) \in Nat
  BY <1>1, <1>3, SumIsNat
<1>7. SumFunctionOnSet(g, D \cup {p}) = SumFunctionOnSet(f, D)
  BY <1>1, <1>4, <1>5, <1>6
<1> QED BY <1>1, <1>7 DEF SumFunction, D, g

LEMMA SumWithMore ==
  ASSUME NEW f, IsFiniteSet(DOMAIN f), \A q \in DOMAIN f : f[q] \in Nat, NEW p \in DOMAIN f, NEW n \in Nat
  PROVE  SumFunction([f EXCEPT ![p] = @ + n]) = SumFunction(f) + n
<1> DEFINE D == DOMAIN f
           g == [f EXCEPT ![p] = @ + n]
<1>1. DOMAIN g = D /\ g[p] = f[p] + n /\ \A q \in D \ {p} : g[q] = f[q]
  OBVIOUS
<1> HIDE DEF g
<1>2. \A q \in D : f[q] \in Nat /\ g[q] \in Nat
  <2>1. ASSUME NEW q \in D, q = p PROVE g[q] \in Nat
    BY <1>1, <2>1
  <2>2. ASSUME NEW q \in D, q # p PROVE g[q] \in Nat
    BY <1>1, <2>2
  <2> QED BY <2>1, <2>2
<1>3. IsFiniteSet(D) /\ IsFiniteSet(D \ {p}) /\ p \in D
  BY FS_Subset
<1>4. DOMAIN f = D
  OBVIOUS
<1> HIDE DEF D
<1>5. /\ SumFunctionOnSet(g, D) = g[p] + SumFunctionOnSet(g, D \ {p})
      /\ SumFunctionOnSet(f, D) = f[p] + SumFunctionOnSet(f, D \ {p})
  BY <1>2, <1>3, SumTakesOut
<1>6. SumFunctionOnSet(g, D \ {p}) = SumFunctionOnSet(f, D \ {p}) /\ SumFunctionOnSet(f, D \ {p}) \in Nat
  <2>1. \A q \in D \ {p} : f[q] \in Nat
    BY <1>2
  <2> QED BY <1>1, <1>3, <2>1, SumDependsOnMembers, SumIsNat
<1>7. SumFunctionOnSet(g, D) = SumFunctionOnSet(f, D) + n
  <2>1. f[p] \in Nat
    BY <1>2, <1>3
  <2> QED BY <1>1, <1>5, <1>6, <2>1
<1> QED BY <1>1, <1>4, <1>7 DEF SumFunction, g

LEMMA MembersInv ==
  ASSUME ExtractionInv,
         \/ \E p \in Paths : DirectoryMember(p)
         \/ \E size \in 0..MaxMember, p \in Paths : FileMember(p, size)
  PROVE  ExtractionInv'
<1>1. ASSUME NEW p \in Paths, DirectoryMember(p) PROVE ExtractionInv'
  <2> DEFINE dirs == directories \cup Ancestors(p) \cup {p}
             kept == DOMAIN files
  <2>1. /\ TargetAccepted(p, TRUE) /\ MemberHeader /\ HeaderCounted
        /\ directories' = dirs /\ UNCHANGED <<extraction, files>>
    BY <1>1 DEF DirectoryMember, AtHeader
  <2>2. MemberChange(p, dirs, kept)
    BY <2>1, Zenon DEF MemberChange
  <2>3. OnDisk' = dirs \cup kept /\ DOMAIN files' = kept
    BY <2>1 DEF OnDisk
  <2> HIDE DEF dirs, kept
  <2>4. Fits(dirs, kept)
    BY <2>2, MemberFits
  <2>5. budget' \in Budgets /\ SumFunction(files') <= budget'.expanded /\ budget'.expanded <= ExpandedLimit
    BY <2>1, HeaderPaid, BudgetIs
  <2> QED BY <2>1, <2>3, <2>4, <2>5 DEF ExtractionInv, Fits
<1>2. ASSUME NEW p \in Paths, NEW size \in 0..MaxMember, FileMember(p, size) PROVE ExtractionInv'
  <2> DEFINE dirs == directories \cup Ancestors(p)
             kept == DOMAIN files \cup {p}
             more == [q \in DOMAIN files \cup {p} |-> IF q = p THEN 0 ELSE files[q]]
  <2>1. /\ TargetAccepted(p, FALSE) /\ MemberHeader /\ HeaderCounted
        /\ directories' = dirs /\ files' = more
        /\ extraction' = [at |-> "copying", path |-> p, size |-> size, copied |-> 0]
    BY <1>2 DEF FileMember, AtHeader
  <2>2. MemberChange(p, dirs, kept)
    BY <2>1, Zenon DEF MemberChange
  <2>3. /\ IsFiniteSet(DOMAIN files) /\ files = [q \in DOMAIN files |-> files[q]]
        /\ \A q \in DOMAIN files : files[q] \in Nat
    BY DEF ExtractionInv
  <2>4. /\ DOMAIN more = kept /\ IsFiniteSet(kept) /\ \A q \in kept : more[q] \in Nat
        /\ more = [q \in DOMAIN more |-> more[q]] /\ p \in kept
    BY <2>3, FS_AddElement
  <2>5. p \notin DOMAIN files
    BY <2>1 DEF TargetAccepted, ExtractionInv
  <2>6. SumFunction(more) = SumFunction(files)
    BY <2>3, <2>5, SumWithNew
  <2> HIDE DEF dirs, kept, more
  <2>7. Fits(dirs, kept)
    BY <2>2, MemberFits
  <2>8. budget' \in Budgets /\ SumFunction(more) <= budget'.expanded /\ budget'.expanded <= ExpandedLimit
    <3>1. budget'.expanded \in Nat
      BY <2>1, HeaderPaid, BudgetIs
    <3> QED BY <2>1, <2>6, <3>1, HeaderPaid, BudgetIs
  <2>9. extraction' \in Members /\ extraction'.path = p
    <3>1. size \in Int /\ p \in Places
      BY ExtractionAssumption DEF Places, Targets
    <3> QED BY <2>1, <3>1 DEF Members
  <2>10. OnDisk' = dirs \cup kept /\ DOMAIN files' = kept
    BY <2>1, <2>4 DEF OnDisk
  <2> QED BY <2>1, <2>4, <2>7, <2>8, <2>9, <2>10 DEF ExtractionInv, Fits
<1> QED BY <1>1, <1>2

LEMMA CopyInv ==
  ASSUME ExtractionInv, NEW bytes \in 1..CopyChunk, BytesCopied(bytes)
  PROVE  ExtractionInv'
<1> DEFINE more == [files EXCEPT ![extraction.path] = @ + bytes]
<1>1. /\ extraction.at = "copying" /\ Affords(bytes) /\ UNCHANGED <<objects, seen, directories>>
      /\ extraction' = [extraction EXCEPT !.copied = @ + bytes] /\ files' = more
      /\ budget' = [budget EXCEPT !.expanded = @ + bytes]
  BY DEF BytesCopied
<1>2. bytes \in Nat /\ bytes \in Int
  BY ExtractionAssumption
<1>3. budget \in Budgets /\ extraction \in Members
  BY DEF ExtractionInv
<1>4. budget' \in Budgets /\ budget'.expanded = budget.expanded + bytes
  BY <1>1, <1>2, <1>3 DEF Budgets
<1>5. extraction' \in Members /\ extraction'.path = extraction.path
  BY <1>1, <1>2, <1>3 DEF Members
<1>6. /\ IsFiniteSet(DOMAIN files) /\ extraction.path \in DOMAIN files
      /\ \A q \in DOMAIN files : files[q] \in Nat
  BY <1>1 DEF ExtractionInv
<1>7. /\ DOMAIN more = DOMAIN files /\ more = [q \in DOMAIN more |-> more[q]]
      /\ \A q \in DOMAIN more : more[q] \in Nat
  BY <1>2, <1>6
<1>8. SumFunction(more) = SumFunction(files) + bytes
  BY <1>2, <1>6, SumWithMore
<1> HIDE DEF more
<1>9. SumFunction(more) <= budget'.expanded /\ budget'.expanded <= ExpandedLimit
  BY <1>1, <1>2, <1>4, <1>8, BudgetIs DEF Affords
<1>10. OnDisk' = OnDisk /\ DOMAIN files' = DOMAIN files
  BY <1>1, <1>7 DEF OnDisk
<1> QED BY <1>1, <1>4, <1>5, <1>6, <1>7, <1>9, <1>10 DEF ExtractionInv

LEMMA ExtractionStarts ==
  ASSUME ExtractionInit PROVE ExtractionInv
<1>1. /\ directories = {} /\ seen = {} /\ DOMAIN files = {} /\ DOMAIN objects = {} /\ extraction = Between
      /\ budget = [expanded |-> 0, headers |-> 0, extensions |-> 0, chain |-> 0]
      /\ files = [q \in DOMAIN files |-> files[q]] /\ OnDisk = {}
  BY DEF ExtractionInit, OnDisk
<1>2. budget \in Budgets /\ budget.expanded = 0
  BY <1>1 DEF Budgets
<1>3. extraction \in Members /\ extraction.at # "copying"
  BY <1>1, BetweenIs
<1>4. SumFunction(files) = 0
  BY <1>1, SumOfNothing DEF SumFunction
<1>5. IsFiniteSet(DOMAIN files) /\ Cardinality(OnDisk) = 0
  BY <1>1, FS_EmptySet
<1>6. ObjectLimit \in Nat /\ ExpandedLimit \in Nat
  BY ExtractionAssumption
<1> QED BY <1>1, <1>2, <1>3, <1>4, <1>5, <1>6 DEF ExtractionInv

LEMMA ExtractionSteps ==
  ASSUME ExtractionInv, [ExtractionNext]_extractionVars PROVE ExtractionInv'
<1>1. CASE UNCHANGED extractionVars
  BY <1>1 DEF extractionVars, ExtractionInv, OnDisk
<1>2. CASE ExtractionNext
  BY <1>2, ReadsInv, MembersInv, CopyInv DEF ExtractionNext
<1> QED BY <1>1, <1>2

\* Whatever the archive holds, and however far the extraction gets before it is
\* refused, the files on the disk form a tree that is within the budgets.
THEOREM DiskAlwaysBoundedTree == ExtractionSpec => []DiskIsBoundedTree
<1>1. ExtractionInit => ExtractionInv
  BY ExtractionStarts
<1>2. ExtractionInv /\ [ExtractionNext]_extractionVars => ExtractionInv'
  BY ExtractionSteps
<1>3. ExtractionInv => DiskIsBoundedTree
  <2> SUFFICES ASSUME ExtractionInv PROVE DiskIsBoundedTree
    OBVIOUS
  <2>1. SumFunction(files) <= ExpandedLimit
    BY BudgetIs
  <2> QED BY <2>1 DEF ExtractionInv, DiskIsBoundedTree
<1> QED BY <1>1, <1>2, <1>3, PTL DEF ExtractionSpec

\* Each budget is what is left of its limit.
BudgetTyped ==
  budget \in [expanded : 0..ExpandedLimit, headers : 0..HeaderLimit,
              extensions : 0..ExtensionLimit, chain : 0..ExtensionChain]

\* A copy is as far as the file in hand is long, and within the stated size.
CopyTyped ==
  /\ extraction.size \in 0..MaxMember /\ extraction.size <= FileLimit
  /\ extraction.copied \in Nat /\ extraction.copied <= extraction.size
  /\ extraction.at = "copying" => files[extraction.path] = extraction.copied
  /\ \A p \in DOMAIN files : files[p] <= MaxMember /\ files[p] <= FileLimit
  /\ \A p \in DOMAIN objects : objects[p] \in BOOLEAN
  /\ extraction.at # "copying" \/ extraction.path \in Targets

LimitsInv == ExtractionInv /\ BudgetTyped /\ CopyTyped

LEMMA LimitsAre ==
  /\ MaxMember \in Nat /\ CopyChunk \in Nat /\ FileLimit \in Nat /\ ExpandedLimit \in Nat
  /\ HeaderLimit \in Nat /\ ExtensionLimit \in Nat /\ ExtensionChain \in Nat
BY ExtractionAssumption

LEMMA BudgetStep == ASSUME LimitsInv, [ExtractionNext]_extractionVars PROVE BudgetTyped'
<1>1. /\ budget.expanded \in 0..ExpandedLimit /\ budget.headers \in 0..HeaderLimit
      /\ budget.extensions \in 0..ExtensionLimit /\ budget.chain \in 0..ExtensionChain
  BY DEF LimitsInv, BudgetTyped
<1>2. ASSUME NEW size \in 0..MaxMember, ExtensionRead(size) PROVE BudgetTyped'
  BY <1>1, <1>2, LimitsAre DEF ExtensionRead, AtHeader, HeaderCounted, Affords, BudgetTyped
<1>3. ASSUME HeaderCounted, MemberHeader PROVE BudgetTyped'
  <2>1. budget' = [expanded |-> budget.expanded + 1, headers |-> budget.headers + 1,
                   extensions |-> budget.extensions, chain |-> 0]
    BY <1>3 DEF MemberHeader, LimitsInv, BudgetTyped
  <2> QED BY <1>1, <1>3, <2>1, LimitsAre DEF HeaderCounted, Affords, BudgetTyped
<1>4. ASSUME NEW bytes \in Nat, Affords(bytes), budget' = [budget EXCEPT !.expanded = @ + bytes] PROVE BudgetTyped'
  <2>1. budget' = [expanded |-> budget.expanded + bytes, headers |-> budget.headers,
                   extensions |-> budget.extensions, chain |-> budget.chain]
    BY <1>4 DEF LimitsInv, BudgetTyped
  <2>2. budget.expanded + bytes \in 0..ExpandedLimit
    BY <1>1, <1>4, LimitsAre DEF Affords
  <2> QED BY <1>1, <2>1, <2>2 DEF BudgetTyped
<1>5. ASSUME UNCHANGED budget PROVE BudgetTyped'
  BY <1>5 DEF LimitsInv, BudgetTyped
<1>6. ASSUME NEW bytes \in 1..CopyChunk, BytesCopied(bytes) \/ PaddingRead(bytes) PROVE BudgetTyped'
  BY <1>4, <1>6, LimitsAre DEF BytesCopied, PaddingRead
<1>7. CASE EndMarker
  BY <1>4, <1>7 DEF EndMarker
<1>8. ASSUME NEW p \in Paths, DirectoryMember(p) \/ \E size \in 0..MaxMember : FileMember(p, size) PROVE BudgetTyped'
  BY <1>3, <1>8 DEF DirectoryMember, FileMember, AtHeader
<1> QED BY <1>2, <1>5, <1>6, <1>7, <1>8 DEF ExtractionNext, extractionVars, FileCopied, StreamEnds, ExtractionRefused

LEMMA CopyStep == ASSUME LimitsInv, [ExtractionNext]_extractionVars PROVE CopyTyped'
<1>0. extraction \in Members /\ ExtractionInv /\ CopyTyped /\ ExtractionInv'
  BY ExtractionSteps DEF LimitsInv, ExtractionInv
<1>1. CASE UNCHANGED <<extraction, objects, files>>
  BY <1>0, <1>1 DEF CopyTyped
<1>2. ASSUME NEW p \in Paths, NEW directory \in BOOLEAN, TargetAccepted(p, directory)
      PROVE  \A q \in DOMAIN objects' : objects'[q] \in BOOLEAN
  BY <1>0, <1>2 DEF CopyTyped, TargetAccepted, Claimed, Claims
<1>3. ASSUME NEW p \in Paths, DirectoryMember(p) PROVE CopyTyped'
  BY <1>0, <1>2, <1>3 DEF CopyTyped, DirectoryMember
<1>4. ASSUME NEW p \in Paths, NEW size \in 0..MaxMember, FileMember(p, size) PROVE CopyTyped'
  <2>1. /\ TargetAccepted(p, FALSE) /\ size <= FileLimit
        /\ files' = [q \in DOMAIN files \cup {p} |-> IF q = p THEN 0 ELSE files[q]]
        /\ extraction' = [at |-> "copying", path |-> p, size |-> size, copied |-> 0]
    BY <1>4 DEF FileMember
  <2>2. \A q \in DOMAIN files' : files'[q] <= MaxMember /\ files'[q] <= FileLimit
    BY <1>0, <2>1, LimitsAre DEF CopyTyped
  <2>3. files'[p] = 0 /\ p \in Targets
    BY <2>1 DEF Targets
  <2>4. extraction'.path = p /\ extraction'.size = size /\ extraction'.copied = 0
    BY <2>1
  <2>5. size \in Nat /\ size <= MaxMember
    BY LimitsAre
  <2>6. \A q \in DOMAIN objects' : objects'[q] \in BOOLEAN
    BY <1>2, <2>1
  <2> QED BY <2>1, <2>2, <2>3, <2>4, <2>5, <2>6 DEF CopyTyped
<1>5. ASSUME NEW bytes \in 1..CopyChunk, BytesCopied(bytes) PROVE CopyTyped'
  <2>1. /\ extraction.at = "copying" /\ bytes <= Remaining /\ objects' = objects
        /\ extraction' = [extraction EXCEPT !.copied = @ + bytes]
        /\ files' = [files EXCEPT ![extraction.path] = @ + bytes]
    BY <1>5 DEF BytesCopied
  <2>2. extraction.path \in DOMAIN files /\ files[extraction.path] = extraction.copied
    BY <1>0, <2>1 DEF ExtractionInv, CopyTyped
  <2>3. /\ extraction'.at = "copying" /\ extraction'.path = extraction.path /\ extraction'.size = extraction.size
        /\ extraction'.copied = extraction.copied + bytes
    BY <1>0, <2>1 DEF Members
  <2>4. extraction.size \in Nat /\ extraction.copied \in Nat /\ bytes \in Nat /\ extraction'.copied <= extraction.size
    BY <1>0, <2>1, <2>3, LimitsAre DEF CopyTyped, Remaining
  <2>5. \A q \in DOMAIN files' : files'[q] = IF q = extraction.path THEN extraction'.copied ELSE files[q]
    BY <2>1, <2>2, <2>3
  <2>6. DOMAIN files' = DOMAIN files
    BY <2>1
  <2>7. \A q \in DOMAIN files' : files'[q] <= MaxMember /\ files'[q] <= FileLimit
    BY <1>0, <2>3, <2>4, <2>5, <2>6, LimitsAre DEF CopyTyped
  <2> QED BY <1>0, <2>1, <2>2, <2>3, <2>4, <2>5, <2>6, <2>7, LimitsAre DEF CopyTyped
<1>6. CASE FileCopied \/ EndMarker \/ StreamEnds
  <2>1. /\ UNCHANGED <<objects, files>>
        /\ \/ extraction' = Between \/ extraction' = [Between EXCEPT !.at = "padding"]
           \/ extraction' = [Between EXCEPT !.at = "done"]
    BY <1>6 DEF FileCopied, EndMarker, StreamEnds
  <2>2. extraction'.at # "copying" /\ extraction'.size = 0 /\ extraction'.copied = 0
    BY <2>1 DEF Between
  <2> QED BY <1>0, <2>1, <2>2, LimitsAre DEF CopyTyped
<1>7. CASE ExtractionRefused
  <2>1. /\ UNCHANGED <<objects, files>> /\ extraction'.at = "refused"
        /\ extraction'.size = extraction.size /\ extraction'.copied = extraction.copied
    BY <1>0, <1>7 DEF ExtractionRefused, Members
  <2> QED BY <1>0, <2>1 DEF CopyTyped
<1> QED BY <1>1, <1>3, <1>4, <1>5, <1>6, <1>7
        DEF ExtractionNext, extractionVars, ExtensionRead, PaddingRead

(* Every counter of the extraction stays within its budget, no file on the  *)
(* disk is longer than the limit or than its header stated, and every       *)
(* variable keeps its type (RestoreBudget, copy_bounded).                   *)
THEOREM ExtractionAlwaysTyped == ExtractionSpec => [](ExtractionTypeOK /\ \A p \in DOMAIN files : files[p] <= FileLimit)
<1>1. ExtractionInit => LimitsInv
  <2> SUFFICES ASSUME ExtractionInit PROVE BudgetTyped /\ CopyTyped
    BY ExtractionStarts DEF LimitsInv
  <2>1. BudgetTyped
    BY LimitsAre DEF ExtractionInit, BudgetTyped
  <2>2. /\ extraction.at = "header" /\ extraction.size = 0 /\ extraction.copied = 0
        /\ DOMAIN files = {} /\ DOMAIN objects = {}
    BY DEF ExtractionInit, Between
  <2> QED BY <2>1, <2>2, LimitsAre DEF CopyTyped
<1>2. LimitsInv /\ [ExtractionNext]_extractionVars => LimitsInv'
  <2> SUFFICES ASSUME LimitsInv, [ExtractionNext]_extractionVars PROVE LimitsInv'
    OBVIOUS
  <2>1. ExtractionInv'
    BY ExtractionSteps DEF LimitsInv
  <2> QED BY <2>1, BudgetStep, CopyStep DEF LimitsInv
<1>3. LimitsInv => ExtractionTypeOK /\ \A p \in DOMAIN files : files[p] <= FileLimit
  <2> SUFFICES ASSUME LimitsInv PROVE ExtractionTypeOK /\ \A p \in DOMAIN files : files[p] <= FileLimit
    OBVIOUS
  <2>1. extraction \in Members /\ ExtractionInv /\ CopyTyped /\ BudgetTyped
    BY DEF LimitsInv, ExtractionInv
  <2>2. extraction.size \in 0..MaxMember /\ extraction.copied \in 0..MaxMember
    BY <2>1, LimitsAre DEF CopyTyped
  <2>3. extraction \in [at : {"header", "copying", "padding", "done", "refused"}, path : Targets \cup {<<>>},
                        size : 0..MaxMember, copied : 0..MaxMember]
    BY <2>1, <2>2 DEF Members, Places
  <2>4. \A p \in DOMAIN files : files[p] \in 0..MaxMember /\ files[p] <= FileLimit
    BY <2>1, LimitsAre DEF CopyTyped, ExtractionInv
  <2>5. DOMAIN objects \subseteq Targets /\ directories \subseteq Targets /\ seen \subseteq Paths /\ DOMAIN files \subseteq Paths
    BY <2>1 DEF ExtractionInv, OnDisk
  <2> QED BY <2>1, <2>3, <2>4, <2>5 DEF ExtractionTypeOK, BudgetTyped, CopyTyped
<1> QED BY <1>1, <1>2, <1>3, PTL DEF ExtractionSpec
==================================================================================
