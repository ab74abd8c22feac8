----------------------------- MODULE CountLemmas ------------------------------
(***************************************************************************)
(* What the proofs of the other modules need to know of sums and counts:   *)
(* SumFunction of the community modules, a fold over the domain of a       *)
(* function, for a finite domain and integer values; and how often a       *)
(* sequence holds elements of a set, as it grows and shrinks.              *)
(*                                                                         *)
(* The first are inductions over data.  They are done by a least           *)
(* counterexample: a set of natural numbers that is not empty has a least  *)
(* element (WFMin), which is then refuted.                                 *)
(***************************************************************************)
EXTENDS Integers, Sequences, FiniteSets, Functions, SequencesExt,
        FunctionTheorems, FiniteSetTheorems, WellFoundedInduction, TLAPS

(* Least counterexamples. *)

\* A set of natural numbers that is not empty has a least element.
LEMMA LeastNatural ==
    ASSUME NEW T \in SUBSET Nat, T # {}
    PROVE  \E n \in T : \A m \in T : n <= m
<1> DEFINE Less == {p \in Nat \X Nat : p[1] < p[2]}
<1>1. IsWellFoundedOn(Less, Nat)
  <2>1. Less = OpToRel(<, Nat) BY DEF OpToRel
  <2> QED BY <2>1, NatLessThanWellFounded
<1>2. \A x, y \in T : <<y, x>> \in Less <=> y < x
  OBVIOUS
<1> HIDE DEF Less
<1>3. PICK x \in T : \A y \in T : <<y, x>> \notin Less
  BY <1>1, WFMin
<1>4. \A y \in T : ~(y < x) BY <1>2, <1>3, Zenon
<1>5. x \in Nat /\ \A y \in T : y \in Nat OBVIOUS
<1> QED BY <1>4, <1>5

-----------------------------------------------------------------------------
(* The fold. *)

\* The element that the fold takes next, and the table that it fills.
Pick(s) == CHOOSE x \in s : TRUE
Entry(f, table, s) ==
    IF s = {} THEN 0 ELSE f[Pick(s)] + table[s \ {Pick(s)}]
IsTable(f, table) ==
    /\ table \in [SUBSET DOMAIN f -> Int]
    /\ \A s \in SUBSET DOMAIN f : table[s] = Entry(f, table, s)

Summable(f) == IsFiniteSet(DOMAIN f) /\ \A x \in DOMAIN f : f[x] \in Int

\* The next element belongs to the set, which has one element less without it.
LEMMA PickSmaller ==
    ASSUME NEW D, IsFiniteSet(D), NEW s \in SUBSET D, s # {}
    PROVE  /\ Pick(s) \in s /\ Pick(s) \in D /\ s \ {Pick(s)} \in SUBSET D
           /\ Cardinality(s) \in Nat /\ Cardinality(s) # 0
           /\ Cardinality(s \ {Pick(s)}) = Cardinality(s) - 1
<1>1. Pick(s) \in s BY DEF Pick
<1>2. IsFiniteSet(s) BY FS_Subset
<1>3. Cardinality(s) \in Nat /\ (Cardinality(s) = 0 <=> s = {})
  BY <1>2, FS_CardinalityType, FS_EmptySet
<1>4. Cardinality(s \ {Pick(s)}) = Cardinality(s) - 1
  BY <1>1, <1>2, FS_RemoveElement
<1> QED BY <1>1, <1>3, <1>4

\* Induction along the fold's own order, over a finite set: Right holds of the
\* subsets for which a table is as it should be.
LEMMA SetInduction ==
    ASSUME NEW D, IsFiniteSet(D), NEW Right, {} \in Right,
           \A s \in SUBSET D : s # {} /\ s \ {Pick(s)} \in Right => s \in Right
    PROVE  SUBSET D \subseteq Right
<1> DEFINE Wrong == {s \in SUBSET D : s \notin Right}
           Sizes == {Cardinality(s) : s \in Wrong}
<1>1. SUFFICES ASSUME Wrong # {} PROVE FALSE
  OBVIOUS
<1>2. Sizes \in SUBSET Nat /\ Sizes # {}
  BY <1>1, FS_Subset, FS_CardinalityType
<1>3. PICK n \in Sizes : \A m \in Sizes : n <= m
  <2> HIDE DEF Sizes
  <2> QED BY <1>2, LeastNatural
<1>4. PICK s \in Wrong : n = Cardinality(s) OBVIOUS
<1>5. s \in SUBSET D /\ s \notin Right /\ s # {} BY <1>4
<1>6. /\ s \ {Pick(s)} \in SUBSET D /\ Cardinality(s) \in Nat
      /\ Cardinality(s \ {Pick(s)}) = Cardinality(s) - 1
  BY <1>5, PickSmaller
<1>7. s \ {Pick(s)} \notin Wrong
  <2>1. ~(n <= Cardinality(s \ {Pick(s)})) BY <1>4, <1>6
  <2> QED BY <1>3, <2>1
<1> QED BY <1>5, <1>6, <1>7

\* The table can be filled, up to sets of any size.
LEMMA TableExists ==
    ASSUME NEW f, Summable(f)
    PROVE  \E table : IsTable(f, table)
<1> DEFINE D == DOMAIN f
           Filled(table, n) ==
             \A s \in SUBSET D :
               Cardinality(s) <= n => table[s] = Entry(f, table, s)
           Unfilled ==
             {n \in Nat : ~ \E table \in [SUBSET D -> Int] : Filled(table, n)}
<1>0. IsFiniteSet(D) /\ \A x \in D : f[x] \in Int BY DEF Summable
<1>a. \A s \in SUBSET D : Cardinality(s) \in Nat
  BY <1>0, FS_Subset, FS_CardinalityType
<1>1. Unfilled = {}
  <2>1. SUFFICES ASSUME Unfilled # {} PROVE FALSE
    OBVIOUS
  <2>2. PICK n \in Unfilled : \A m \in Unfilled : n <= m
    BY <2>1, LeastNatural
  <2>3. n \in Nat OBVIOUS
  <2>4. n # 0
    <3> DEFINE zero == [s \in SUBSET D |-> 0]
    <3>1. ASSUME NEW s \in SUBSET D, Cardinality(s) <= 0 PROVE s = {}
      <4>1. IsFiniteSet(s) /\ Cardinality(s) = 0
        BY <1>0, <1>a, <3>1, FS_Subset
      <4> QED BY <4>1, FS_EmptySet
    <3>2. zero \in [SUBSET D -> Int] /\ Filled(zero, 0)
      BY <3>1 DEF Entry
    <3> QED BY <3>2
  <2>5. n - 1 \in Nat /\ n - 1 \notin Unfilled
    <3>1. n - 1 \in Nat /\ n - 1 < n BY <2>3, <2>4
    <3>2. n - 1 \notin Unfilled
      <4> HIDE DEF Unfilled
      <4> QED BY <2>2, <2>3, <3>1
    <3> QED BY <3>1, <3>2
  <2>6. PICK t \in [SUBSET D -> Int] : Filled(t, n - 1)
    BY <2>5
  <2> DEFINE next ==
               [s \in SUBSET D |->
                  IF Cardinality(s) <= n - 1 THEN t[s] ELSE Entry(f, t, s)]
  <2>7. next \in [SUBSET D -> Int]
    <3>1. ASSUME NEW s \in SUBSET D PROVE Entry(f, t, s) \in Int
      <4>1. CASE s = {} BY <4>1 DEF Entry
      <4>2. CASE s # {}
        <5>1. Pick(s) \in D /\ s \ {Pick(s)} \in SUBSET D
          BY <1>0, <4>2, PickSmaller
        <5>2. f[Pick(s)] \in Int /\ t[s \ {Pick(s)}] \in Int BY <1>0, <5>1
        <5> QED BY <4>2, <5>2 DEF Entry
      <4> QED BY <4>1, <4>2
    <3> QED BY <3>1
  <2>8. ASSUME NEW s \in SUBSET D, Cardinality(s) <= n
        PROVE  next[s] = Entry(f, next, s)
    <3>1. CASE s = {}
      <4>1. Cardinality(s) <= n - 1 BY <3>1, <2>5, FS_EmptySet
      <4>2. next[s] = t[s] /\ t[s] = Entry(f, t, s) BY <4>1, <2>6
      <4> QED BY <3>1, <4>2 DEF Entry
    <3>2. CASE s # {}
      <4> DEFINE r == s \ {Pick(s)}
      <4>1. /\ r \in SUBSET D /\ Cardinality(s) \in Nat
            /\ Cardinality(r) = Cardinality(s) - 1
        BY <1>0, <3>2, PickSmaller
      <4>2. Cardinality(r) <= n - 1 BY <2>8, <4>1, <2>3
      <4>3. next[r] = t[r] BY <4>1, <4>2
      <4>4. Entry(f, next, s) = Entry(f, t, s) BY <4>3 DEF Entry
      <4>5. next[s] = Entry(f, t, s) BY <2>6
      <4> QED BY <4>4, <4>5
    <3> QED BY <3>1, <3>2
  <2>9. Filled(next, n) BY <2>8
  <2> HIDE DEF next
  <2> QED BY <2>2, <2>7, <2>9
<1>2. Cardinality(D) \in Nat BY <1>0, FS_CardinalityType
<1>3. PICK t \in [SUBSET D -> Int] : Filled(t, Cardinality(D))
  BY <1>1, <1>2
<1>4. \A s \in SUBSET D : Cardinality(s) <= Cardinality(D)
  BY <1>0, FS_Subset
<1> QED BY <1>3, <1>4 DEF IsTable

\* The sum is the last entry of such a table.
LEMMA SumFromTable ==
    ASSUME NEW f, Summable(f)
    PROVE  \E table : IsTable(f, table) /\ SumFunction(f) = table[DOMAIN f]
<1> DEFINE D == DOMAIN f
           Recursion(table) ==
             table = [s \in SUBSET D |->
                        IF s = {} THEN 0
                        ELSE f[CHOOSE x \in s : TRUE]
                               + table[s \ {CHOOSE x \in s : TRUE}]]
           fold == CHOOSE table : Recursion(table)
<1>1. SumFunction(f) = fold[D]
  BY DEF SumFunction, SumFunctionOnSet, FoldFunctionOnSet, MapThenFoldSet
<1>2. \A table : IsTable(f, table) => Recursion(table)
  BY DEF IsTable, Entry, Pick
<1>3. Recursion(fold)
  <2>1. PICK t : IsTable(f, t) BY TableExists
  <2>2. Recursion(t) BY <1>2, <2>1
  <2> HIDE DEF Recursion
  <2> QED BY <2>2
<1>4. \A s \in SUBSET D : fold[s] = Entry(f, fold, s)
  BY <1>3 DEF Entry, Pick
<1> HIDE DEF fold
<1>5. fold \in [SUBSET D -> Int]
  <2> DEFINE Right == {s \in SUBSET D : fold[s] \in Int}
  <2>1. IsFiniteSet(D) /\ \A x \in D : f[x] \in Int BY DEF Summable
  <2>2. {} \in Right BY <1>4 DEF Entry
  <2>3. ASSUME NEW s \in SUBSET D, s # {}, s \ {Pick(s)} \in Right
        PROVE  s \in Right
    <3>1. Pick(s) \in D BY <2>1, <2>3, PickSmaller
    <3>2. fold[s] = f[Pick(s)] + fold[s \ {Pick(s)}]
      BY <1>4, <2>3 DEF Entry
    <3> QED BY <2>1, <2>3, <3>1, <3>2
  <2> HIDE DEF Right
  <2>4. SUBSET D \subseteq Right BY <2>1, <2>2, <2>3, SetInduction
  <2> QED BY <1>3, <2>4 DEF Right
<1> QED BY <1>1, <1>4, <1>5 DEF IsTable
-----------------------------------------------------------------------------
(* The sums. *)

\* A sum of integers is one, and a sum of natural numbers is one, and at least
\* each of them.
LEMMA SumType ==
    ASSUME NEW f, Summable(f)
    PROVE  /\ SumFunction(f) \in Int
           /\ (\A x \in DOMAIN f : f[x] >= 0) =>
                /\ SumFunction(f) \in Nat
                /\ \A x \in DOMAIN f : f[x] <= SumFunction(f)
<1> DEFINE D == DOMAIN f
<1>0. IsFiniteSet(D) /\ \A x \in D : f[x] \in Int BY DEF Summable
<1>1. PICK t : IsTable(f, t) /\ SumFunction(f) = t[D] BY SumFromTable
<1>2. t \in [SUBSET D -> Int] /\ \A s \in SUBSET D : t[s] = Entry(f, t, s)
  BY <1>1 DEF IsTable
<1>3. SumFunction(f) \in Int BY <1>1, <1>2
<1>4. ASSUME \A x \in D : f[x] >= 0
      PROVE  /\ SumFunction(f) \in Nat
             /\ \A x \in D : f[x] <= SumFunction(f)
  <2> DEFINE Right == {s \in SUBSET D : t[s] >= 0 /\ \A x \in s : f[x] <= t[s]}
  <2>1. {} \in Right
    <3>1. {} \in SUBSET D /\ t[{}] = 0 BY <1>2 DEF Entry
    <3> QED BY <3>1
  <2>2. ASSUME NEW s \in SUBSET D, s # {}, s \ {Pick(s)} \in Right
        PROVE  s \in Right
    <3>1. Pick(s) \in D /\ f[Pick(s)] \in Int /\ f[Pick(s)] >= 0
      BY <1>0, <1>4, <2>2, PickSmaller
    <3>2. t[s] = f[Pick(s)] + t[s \ {Pick(s)}] BY <1>2, <2>2 DEF Entry
    <3>3. t[s \ {Pick(s)}] \in Int /\ t[s \ {Pick(s)}] >= 0 BY <1>2, <2>2
    <3>4. t[s] >= 0 /\ f[Pick(s)] <= t[s] BY <3>1, <3>2, <3>3
    <3>5. ASSUME NEW x \in s, x # Pick(s) PROVE f[x] <= t[s]
      <4>1. x \in s \ {Pick(s)} /\ f[x] \in Int BY <1>0, <3>5
      <4>2. f[x] <= t[s \ {Pick(s)}] BY <2>2, <4>1
      <4> QED BY <3>1, <3>2, <3>3, <4>1, <4>2
    <3> QED BY <3>4, <3>5
  <2> HIDE DEF Right
  <2>3. D \in Right BY <1>0, <2>1, <2>2, SetInduction
  <2> QED BY <1>1, <1>3, <2>3 DEF Right
<1> QED BY <1>3, <1>4

\* A sum changes by as much as the value at one place does.
LEMMA SumChanged ==
    ASSUME NEW f, NEW g, Summable(f), Summable(g), DOMAIN g = DOMAIN f,
           NEW k \in DOMAIN f, \A x \in DOMAIN f : x # k => g[x] = f[x]
    PROVE  SumFunction(g) = SumFunction(f) + g[k] - f[k]
<1> DEFINE D == DOMAIN f
           change(s) == IF k \in s THEN g[k] - f[k] ELSE 0
<1>0. IsFiniteSet(D) /\ \A x \in D : f[x] \in Int /\ g[x] \in Int
  BY DEF Summable
<1>1. PICK t : IsTable(f, t) /\ SumFunction(f) = t[D] BY SumFromTable
<1>2. PICK u : IsTable(g, u) /\ SumFunction(g) = u[D] BY SumFromTable
<1>3. /\ t \in [SUBSET D -> Int] /\ \A s \in SUBSET D : t[s] = Entry(f, t, s)
      /\ u \in [SUBSET D -> Int] /\ \A s \in SUBSET D : u[s] = Entry(g, u, s)
  BY <1>1, <1>2 DEF IsTable
<1> DEFINE Right == {s \in SUBSET D : u[s] = t[s] + change(s)}
<1>4. {} \in Right
  <2>1. {} \in SUBSET D /\ t[{}] = 0 /\ u[{}] = 0 BY <1>3 DEF Entry
  <2>2. change({}) = 0 OBVIOUS
  <2> QED BY <2>1, <2>2
<1>5. ASSUME NEW s \in SUBSET D, s # {}, s \ {Pick(s)} \in Right
      PROVE  s \in Right
  <2>1. Pick(s) \in s /\ Pick(s) \in D BY <1>0, <1>5, PickSmaller
  <2>2. /\ t[s] = f[Pick(s)] + t[s \ {Pick(s)}]
        /\ u[s] = g[Pick(s)] + u[s \ {Pick(s)}]
    BY <1>3, <1>5 DEF Entry
  <2>3. t[s \ {Pick(s)}] \in Int /\ t[s] \in Int BY <1>3
  <2>4. u[s \ {Pick(s)}] = t[s \ {Pick(s)}] + change(s \ {Pick(s)}) BY <1>5
  <2>5. CASE Pick(s) = k
    BY <1>0, <2>1, <2>2, <2>3, <2>4, <2>5
  <2>6. CASE Pick(s) # k
    <3>1. g[Pick(s)] = f[Pick(s)] /\ (k \in s <=> k \in s \ {Pick(s)})
      BY <2>1, <2>6
    <3> QED BY <1>0, <2>1, <2>2, <2>3, <2>4, <3>1
  <2> QED BY <2>5, <2>6
<1> HIDE DEF Right
<1>6. D \in Right BY <1>0, <1>4, <1>5, SetInduction
<1> QED BY <1>1, <1>2, <1>6 DEF Right

\* The form in which the actions change a function.
LEMMA SumExcept ==
    ASSUME NEW S, IsFiniteSet(S), NEW f \in [S -> Int], NEW k \in S,
           NEW v \in Int
    PROVE  SumFunction([f EXCEPT ![k] = v]) = SumFunction(f) + v - f[k]
<1> DEFINE g == [f EXCEPT ![k] = v]
<1>1. /\ DOMAIN f = S /\ DOMAIN g = S /\ g[k] = v
      /\ Summable(f) /\ Summable(g)
      /\ \A x \in S : x # k => g[x] = f[x]
  BY DEF Summable
<1> HIDE DEF g
<1>2. SumFunction(g) = SumFunction(f) + g[k] - f[k] BY <1>1, SumChanged
<1> QED BY <1>1, <1>2 DEF g

\* Equal values are added up by a product.
LEMMA SumConstant ==
    ASSUME NEW f, Summable(f), NEW c \in Int, \A x \in DOMAIN f : f[x] = c
    PROVE  SumFunction(f) = c * Cardinality(DOMAIN f)
<1> DEFINE D == DOMAIN f
<1>0. IsFiniteSet(D) BY DEF Summable
<1>1. PICK t : IsTable(f, t) /\ SumFunction(f) = t[D] BY SumFromTable
<1>2. t \in [SUBSET D -> Int] /\ \A s \in SUBSET D : t[s] = Entry(f, t, s)
  BY <1>1 DEF IsTable
<1> DEFINE Right == {s \in SUBSET D : t[s] = c * Cardinality(s)}
<1>3. {} \in Right
  <2>1. t[{}] = 0 /\ Cardinality({}) = 0 BY <1>2, FS_EmptySet DEF Entry
  <2> QED BY <2>1
<1>4. ASSUME NEW s \in SUBSET D, s # {}, s \ {Pick(s)} \in Right
      PROVE  s \in Right
  <2>1. /\ Pick(s) \in D /\ Cardinality(s) \in Nat
        /\ Cardinality(s \ {Pick(s)}) = Cardinality(s) - 1
    BY <1>0, <1>4, PickSmaller
  <2>2. t[s] = f[Pick(s)] + t[s \ {Pick(s)}] BY <1>2, <1>4 DEF Entry
  <2>3. t[s] = c + c * (Cardinality(s) - 1) BY <1>4, <2>1, <2>2
  <2>4. \A m \in Nat : c + c * (m - 1) = c * m OBVIOUS
  <2> QED BY <2>1, <2>3, <2>4
<1> HIDE DEF Right
<1>5. D \in Right BY <1>0, <1>3, <1>4, SetInduction
<1> QED BY <1>1, <1>5 DEF Right
-----------------------------------------------------------------------------
(* Counts. *)

\* The places of a sequence that hold elements of S.
Where(s, S) == {k \in DOMAIN s : s[k] \in S}

LEMMA WhereFinite ==
    ASSUME NEW T, NEW s \in Seq(T), NEW S
    PROVE  IsFiniteSet(Where(s, S)) /\ Cardinality(Where(s, S)) \in Nat
<1>1. Len(s) \in Nat /\ DOMAIN s = 1 .. Len(s) OBVIOUS
<1>2. IsFiniteSet(1 .. Len(s)) BY <1>1, FS_Interval
<1>3. Where(s, S) \in SUBSET (1 .. Len(s)) BY <1>1 DEF Where
<1> QED BY <1>2, <1>3, FS_Subset, FS_CardinalityType

\* An empty sequence holds nothing.
LEMMA CountEmpty == ASSUME NEW S PROVE Cardinality(Where(<<>>, S)) = 0
<1>1. Where(<<>>, S) = {} BY DEF Where
<1> QED BY <1>1, FS_EmptySet

\* An element that is appended counts once.
LEMMA CountAppend ==
    ASSUME NEW T, NEW s \in Seq(T), NEW m \in T, NEW S
    PROVE  /\ Append(s, m) \in Seq(T) /\ Len(Append(s, m)) = Len(s) + 1
           /\ Cardinality(Where(Append(s, m), S))
                = Cardinality(Where(s, S)) + (IF m \in S THEN 1 ELSE 0)
<1> DEFINE t == Append(s, m)
<1>1. /\ t \in Seq(T) /\ Len(t) = Len(s) + 1 /\ Len(s) \in Nat
      /\ DOMAIN s = 1 .. Len(s) /\ DOMAIN t = 1 .. Len(s) + 1
      /\ \A k \in 1 .. Len(s) : t[k] = s[k]
      /\ t[Len(s) + 1] = m
  OBVIOUS
<1>2. Len(s) + 1 \notin Where(s, S) BY <1>1 DEF Where
<1> HIDE DEF t
<1>3. CASE m \in S
  <2>1. Where(t, S) = Where(s, S) \cup {Len(s) + 1}
    BY <1>1, <1>3 DEF Where
  <2>2. Cardinality(Where(t, S)) = Cardinality(Where(s, S)) + 1
    BY <1>2, <2>1, WhereFinite, FS_AddElement
  <2> QED BY <1>1, <1>3, <2>2 DEF t
<1>4. CASE m \notin S
  <2>1. Where(t, S) = Where(s, S) BY <1>1, <1>4 DEF Where
  <2> QED BY <1>1, <1>4, <2>1, WhereFinite DEF t
<1> QED BY <1>3, <1>4

\* The place that k has in what is left when place i is removed.
Shift(i, k) == IF k < i THEN k ELSE k - 1

\* What is left when place i is removed.
LEMMA RemoveAtPlaces ==
    ASSUME NEW T, NEW s \in Seq(T), NEW i \in DOMAIN s
    PROVE  /\ RemoveAt(s, i) \in Seq(T) /\ Len(RemoveAt(s, i)) = Len(s) - 1
           /\ \A k \in 1 .. Len(s) - 1 :
                 RemoveAt(s, i)[k] = IF k < i THEN s[k] ELSE s[k + 1]
<1> DEFINE t == RemoveAt(s, i)
           before == SubSeq(s, 1, i - 1)
           after == SubSeq(s, i + 1, Len(s))
<1>0. Len(s) \in Nat /\ DOMAIN s = 1 .. Len(s) /\ i \in 1 .. Len(s)
  OBVIOUS
<1>1. /\ before \in Seq(T) /\ Len(before) = i - 1
      /\ \A k \in 1 .. i - 1 : before[k] = s[k]
  BY <1>0, SMTT(30)
<1>2. /\ after \in Seq(T) /\ Len(after) = Len(s) - i
      /\ \A k \in 1 .. Len(s) - i : after[k] = s[i + k]
  BY <1>0, SMTT(30)
<1>3. t = before \o after BY DEF RemoveAt
<1> HIDE DEF before, after, t
<1>4. t \in Seq(T) /\ Len(t) = Len(s) - 1
  BY <1>0, SMTT(30) DEF t, RemoveAt
<1>5. \A k \in 1 .. Len(s) - 1 :
          t[k] = IF k <= i - 1 THEN before[k] ELSE after[k - (i - 1)]
  BY <1>0, <1>1, <1>2, <1>3, SMTT(30)
<1>6. ASSUME NEW k \in 1 .. Len(s) - 1
      PROVE  t[k] = IF k < i THEN s[k] ELSE s[k + 1]
  <2>1. CASE k < i
    <3>1. k \in 1 .. i - 1 /\ k <= i - 1 BY <1>0, <2>1
    <3> QED BY <1>1, <1>5, <2>1, <3>1
  <2>2. CASE ~(k < i)
    <3>1. k - (i - 1) \in 1 .. Len(s) - i /\ ~(k <= i - 1) BY <1>0, <2>2
    <3>2. i + (k - (i - 1)) = k + 1 BY <1>0
    <3> QED BY <1>2, <1>5, <2>2, <3>1, <3>2
  <2> QED BY <2>1, <2>2
<1> QED BY <1>4, <1>6 DEF t

\* An element that is taken out, wherever it is, counts once.
LEMMA CountRemove ==
    ASSUME NEW T, NEW s \in Seq(T), NEW i \in DOMAIN s, NEW S
    PROVE  Cardinality(Where(s, S))
             = Cardinality(Where(RemoveAt(s, i), S))
                 + (IF s[i] \in S THEN 1 ELSE 0)
<1> DEFINE t == RemoveAt(s, i)
           rest == Where(s, S) \ {i}
           f == [k \in rest |-> Shift(i, k)]
<1>0. Len(s) \in Nat /\ DOMAIN s = 1 .. Len(s) /\ i \in 1 .. Len(s)
  OBVIOUS
<1>1. /\ t \in Seq(T) /\ DOMAIN t = 1 .. Len(s) - 1
      /\ \A k \in 1 .. Len(s) - 1 : t[k] = IF k < i THEN s[k] ELSE s[k + 1]
  <2>1. t \in Seq(T) /\ Len(t) = Len(s) - 1 BY RemoveAtPlaces
  <2> HIDE DEF t
  <2>2. DOMAIN t = 1 .. Len(s) - 1 BY <2>1
  <2> QED BY <2>1, <2>2, RemoveAtPlaces DEF t
<1> HIDE DEF t
<1>2. \A k \in rest : Shift(i, k) \in Where(t, S)
  BY <1>0, <1>1 DEF Where, Shift
<1>3. \A j, k \in rest : Shift(i, j) = Shift(i, k) => j = k
  BY <1>0 DEF Where, Shift
<1>4. ASSUME NEW n \in Where(t, S) PROVE \E k \in rest : Shift(i, k) = n
  <2>1. n \in 1 .. Len(s) - 1 /\ t[n] \in S BY <1>1 DEF Where
  <2>2. CASE n < i
    <3>1. n \in rest /\ Shift(i, n) = n
      BY <1>0, <1>1, <2>1, <2>2 DEF Where, Shift
    <3> QED BY <3>1
  <2>3. CASE ~(n < i)
    <3>1. n + 1 \in rest /\ Shift(i, n + 1) = n
      BY <1>0, <1>1, <2>1, <2>3 DEF Where, Shift
    <3> QED BY <3>1
  <2> QED BY <2>2, <2>3
<1>5. f \in Bijection(rest, Where(t, S))
  <2>1. f \in [rest -> Where(t, S)] BY <1>2
  <2>2. f \in Injection(rest, Where(t, S)) BY <1>3, <2>1, Fun_IsInj
  <2>3. f \in Surjection(rest, Where(t, S)) BY <1>4, <2>1, Fun_IsSurj
  <2> QED BY <2>2, <2>3 DEF Bijection
<1>6. IsFiniteSet(Where(s, S)) /\ IsFiniteSet(rest)
  BY WhereFinite, FS_RemoveElement
<1>7. Cardinality(Where(t, S)) = Cardinality(rest)
  <2>1. ExistsBijection(rest, Where(t, S)) BY <1>5 DEF ExistsBijection
  <2> QED BY <1>6, <2>1, FS_Bijection
<1>8. Cardinality(rest)
        = IF i \in Where(s, S) THEN Cardinality(Where(s, S)) - 1
          ELSE Cardinality(Where(s, S))
  BY <1>6, FS_RemoveElement
<1>9. i \in Where(s, S) <=> s[i] \in S BY DEF Where
<1>10. Cardinality(Where(s, S)) \in Nat BY WhereFinite
<1> QED BY <1>7, <1>8, <1>9, <1>10 DEF t

\* So does the one at the head.
LEMMA CountTail ==
    ASSUME NEW T, NEW s \in Seq(T), s # <<>>, NEW S
    PROVE  /\ Tail(s) \in Seq(T) /\ Len(Tail(s)) = Len(s) - 1
           /\ Tail(s) = RemoveAt(s, 1) /\ Head(s) \in T
           /\ Cardinality(Where(s, S))
                = Cardinality(Where(Tail(s), S))
                    + (IF Head(s) \in S THEN 1 ELSE 0)
<1>1. 1 \in DOMAIN s /\ Head(s) = s[1] /\ Head(s) \in T OBVIOUS
<1>2. /\ Tail(s) \in Seq(T) /\ Len(Tail(s)) = Len(s) - 1
      /\ RemoveAt(s, 1) \in Seq(T) /\ Len(RemoveAt(s, 1)) = Len(s) - 1
      /\ \A k \in 1 .. Len(s) - 1 : Tail(s)[k] = RemoveAt(s, 1)[k]
  <2>1. /\ RemoveAt(s, 1) \in Seq(T) /\ Len(RemoveAt(s, 1)) = Len(s) - 1
        /\ \A k \in 1 .. Len(s) - 1 :
              RemoveAt(s, 1)[k] = IF k < 1 THEN s[k] ELSE s[k + 1]
    BY <1>1, RemoveAtPlaces
  <2>2. /\ Tail(s) \in Seq(T) /\ Len(Tail(s)) = Len(s) - 1
        /\ \A k \in 1 .. Len(s) - 1 : Tail(s)[k] = s[k + 1]
    OBVIOUS
  <2> QED BY <2>1, <2>2
<1>3. Tail(s) = RemoveAt(s, 1)
  <2> DEFINE a == Tail(s)
             b == RemoveAt(s, 1)
  <2>1. /\ a \in Seq(T) /\ b \in Seq(T) /\ Len(a) = Len(b)
        /\ \A k \in 1 .. Len(a) : a[k] = b[k]
    BY <1>2
  <2> HIDE DEF a, b
  <2>2. a = b BY <2>1
  <2> QED BY <2>2 DEF a, b
<1>4. Cardinality(Where(s, S))
        = Cardinality(Where(RemoveAt(s, 1), S)) + (IF s[1] \in S THEN 1 ELSE 0)
  BY <1>1, CountRemove
<1> QED BY <1>1, <1>2, <1>3, <1>4, Zenon
=============================================================================
