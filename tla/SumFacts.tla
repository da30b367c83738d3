------------------------------ MODULE SumFacts ------------------------------
(***************************************************************************)
(* Sums over finite sets, for the proofs about money.  SumFunctionOnSet    *)
(* (module Functions) adds up the values of a function in an unspecified   *)
(* order; the lemmas below say that the order does not matter and what one *)
(* more element, one changed value or a smaller set does to the sum.  The  *)
(* induction is over a SET of numbers or subsets, so that it needs no      *)
(* operator for a parameter.  The greatest and the least of a set of       *)
(* numbers are at the end.                                                 *)
(***************************************************************************)
EXTENDS FiniteSetsExt, FiniteSetTheorems, NaturalsInduction,
        WellFoundedInduction, TLAPS

-----------------------------------------------------------------------------
(* Induction                                                               *)

\* Induction over the natural numbers: a set of them with zero and with the
\* successor of each member holds them all.
LEMMA NatSetInduction ==
  ASSUME NEW P \in SUBSET Nat, 0 \in P, \A n \in P : n + 1 \in P
  PROVE  P = Nat
<1> SUFFICES ASSUME Nat \ P # {} PROVE FALSE
  OBVIOUS
<1> DEFINE R == OpToRel(<, Nat)
<1>1. \A m, n \in Nat : m < n => <<m, n>> \in R
  BY DEF OpToRel
<1>2. IsWellFoundedOn(R, Nat)
  BY Zenon, NatLessThanWellFounded
<1> HIDE DEF R
<1>3. PICK n \in Nat \ P : \A m \in Nat \ P : <<m, n>> \notin R
  BY <1>2, WFMin
<1>4. n # 0 /\ n - 1 \in Nat /\ n - 1 < n
  OBVIOUS
<1>5. n - 1 \in P
  BY <1>1, <1>3, <1>4
<1> QED BY <1>4, <1>5

\* Induction over a finite set: a set of its subsets with the empty one, and with
\* each member extended by any element, holds them all.
LEMMA SubsetInduction ==
  ASSUME NEW S, IsFiniteSet(S), NEW P \in SUBSET SUBSET S, {} \in P,
         \A T \in P : \A x \in S \ T : T \cup {x} \in P
  PROVE  P = SUBSET S
<1> DEFINE N == {n \in Nat : \A T \in SUBSET S : Cardinality(T) = n => T \in P}
<1>1. \A T \in SUBSET S : IsFiniteSet(T) /\ Cardinality(T) \in Nat
  BY FS_Subset, FS_CardinalityType
<1>2. 0 \in N
  BY <1>1, FS_EmptySet
<1>3. ASSUME NEW n \in N PROVE n + 1 \in N
  <2>1. ASSUME NEW T \in SUBSET S, Cardinality(T) = n + 1 PROVE T \in P
    <3>0. n \in Nat /\ IsFiniteSet(T) /\ Cardinality(T) # 0
      BY <1>1, <2>1
    <3>1. PICK x \in T : TRUE
      BY <3>0, FS_EmptySet
    <3>2. T \ {x} \in SUBSET S /\ Cardinality(T \ {x}) = n
      <4>1. Cardinality(T \ {x}) = Cardinality(T) - 1
        BY <3>0, <3>1, FS_RemoveElement
      <4> QED BY <2>1, <3>0, <4>1
    <3>3. T \ {x} \in P /\ x \in S \ (T \ {x}) /\ T = (T \ {x}) \cup {x}
      BY <3>1, <3>2
    <3> QED BY <3>3
  <2> QED BY <2>1
<1>4. N = Nat
  <2> HIDE DEF N
  <2> QED BY <1>2, <1>3, NatSetInduction DEF N
<1> QED BY <1>1, <1>4

-----------------------------------------------------------------------------
(* What SumFunctionOnSet computes                                          *)

Pick(s) == CHOOSE x \in s : TRUE

\* h is the running sum of f over the subsets of S.
Runs(h, f, S) ==
  h = [s \in SUBSET S |-> IF s = {} THEN 0 ELSE f[Pick(s)] + h[s \ {Pick(s)}]]

\* The sum is the running sum at the whole set.
LEMMA SumByRun ==
  ASSUME NEW f, NEW S
  PROVE  SumFunctionOnSet(f, S) = (CHOOSE h : Runs(h, f, S))[S]
BY DEF SumFunctionOnSet, FoldFunctionOnSet, MapThenFoldSet, Runs, Pick

\* A non-empty set without its picked element is smaller by one.
LEMMA PickLess ==
  ASSUME NEW S, IsFiniteSet(S), NEW s \in SUBSET S, s # {}
  PROVE  /\ Pick(s) \in s /\ s \ {Pick(s)} \in SUBSET S
         /\ IsFiniteSet(s) /\ Cardinality(s) \in Nat \ {0}
         /\ Cardinality(s \ {Pick(s)}) = Cardinality(s) - 1
<1>1. Pick(s) \in s
  BY DEF Pick
<1>2. IsFiniteSet(s)
  BY FS_Subset
<1>3. Cardinality(s) \in Nat /\ Cardinality(s) # 0
  BY <1>2, FS_CardinalityType, FS_EmptySet
<1> QED BY <1>1, <1>2, <1>3, FS_RemoveElement

\* There is a running sum.
LEMMA RunExists ==
  ASSUME NEW S, IsFiniteSet(S), NEW f
  PROVE  \E h : Runs(h, f, S)
<1> DEFINE Upto(n) == {s \in SUBSET S : Cardinality(s) <= n}
           Runner(h, n) == \A s \in Upto(n) :
             h[s] = IF s = {} THEN 0 ELSE f[Pick(s)] + h[s \ {Pick(s)}]
           P == {n \in Nat : \E h : Runner(h, n)}
<1>1. 0 \in P
  <2>1. \A s \in Upto(0) : s = {}
    <3> SUFFICES ASSUME NEW s \in SUBSET S, Cardinality(s) <= 0 PROVE s = {}
      OBVIOUS
    <3> QED BY FS_Subset, FS_CardinalityType, FS_EmptySet
  <2>2. Runner([s \in {{}} |-> 0], 0)
    BY <2>1
  <2> QED BY <2>2
<1>2. ASSUME NEW n \in P PROVE n + 1 \in P
  <2>1. PICK h : Runner(h, n)
    OBVIOUS
  <2> DEFINE next == [s \in Upto(n + 1) |->
                        IF s = {} THEN 0 ELSE f[Pick(s)] + h[s \ {Pick(s)}]]
  <2>2. \A s \in Upto(n + 1) : s # {} => s \ {Pick(s)} \in Upto(n)
    <3> SUFFICES ASSUME NEW s \in SUBSET S, Cardinality(s) <= n + 1, s # {}
                 PROVE  s \ {Pick(s)} \in Upto(n)
      OBVIOUS
    <3>1. n \in Nat
      OBVIOUS
    <3>2. /\ s \ {Pick(s)} \in SUBSET S /\ Cardinality(s) \in Nat
          /\ Cardinality(s \ {Pick(s)}) = Cardinality(s) - 1
      BY PickLess
    <3> QED BY <3>1, <3>2
  <2>3. \A s \in Upto(n) : Cardinality(s) \in Int
    BY FS_Subset, FS_CardinalityType
  <2>4. \A s \in Upto(n) : s \in Upto(n + 1)
    BY <2>3
  <2>5. \A s \in Upto(n) : next[s] = h[s]
    BY <2>1, <2>4
  <2>6. Runner(next, n + 1)
    BY <2>2, <2>5
  <2> HIDE DEF next
  <2>7. n + 1 \in Nat
    OBVIOUS
  <2> QED BY <2>6, <2>7
<1>3. P = Nat
  <2> HIDE DEF P
  <2> QED BY <1>1, <1>2, NatSetInduction DEF P
<1>4. Cardinality(S) \in Nat
  BY FS_CardinalityType
<1>5. PICK h : Runner(h, Cardinality(S))
  BY <1>3, <1>4
<1>6. Upto(Cardinality(S)) = SUBSET S
  BY FS_Subset
<1> DEFINE g == [s \in SUBSET S |-> h[s]]
<1>7. \A s \in SUBSET S : g[s] = IF s = {} THEN 0 ELSE f[Pick(s)] + g[s \ {Pick(s)}]
  BY <1>5, <1>6, PickLess
<1>8. Runs(g, f, S)
  <2>1. g = [s \in SUBSET S |-> g[s]]
    OBVIOUS
  <2> HIDE DEF g
  <2> QED BY <1>7, <2>1 DEF Runs
<1> QED BY <1>8

\* Two running sums agree wherever the functions do, whatever the sets.
LEMMA RunsAgree ==
  ASSUME NEW S, NEW T, IsFiniteSet(S), IsFiniteSet(T), NEW f, NEW e, NEW g, NEW h,
         Runs(g, f, S), Runs(h, e, T), NEW U, U \subseteq S, U \subseteq T,
         \A x \in U : f[x] = e[x]
  PROVE  g[U] = h[U]
<1> DEFINE P == {n \in Nat : \A s \in SUBSET U : Cardinality(s) = n => g[s] = h[s]}
<1>1. IsFiniteSet(U) /\ Cardinality(U) \in Nat
  BY FS_Subset, FS_CardinalityType
<1>2. 0 \in P
  <2>1. \A s \in SUBSET U : Cardinality(s) = 0 => s = {}
    BY <1>1, FS_Subset, FS_EmptySet
  <2>2. g[{}] = 0 /\ h[{}] = 0
    BY DEF Runs
  <2> QED BY <2>1, <2>2
<1>3. ASSUME NEW n \in P PROVE n + 1 \in P
  <2>1. ASSUME NEW s \in SUBSET U, Cardinality(s) = n + 1 PROVE g[s] = h[s]
    <3>1. s # {}
      BY <2>1, FS_EmptySet
    <3>2. /\ Pick(s) \in s /\ s \ {Pick(s)} \in SUBSET U
          /\ Cardinality(s \ {Pick(s)}) = n
      BY <1>1, <2>1, <3>1, PickLess
    <3>3. g[s \ {Pick(s)}] = h[s \ {Pick(s)}]
      BY <3>2
    <3>4. g[s] = f[Pick(s)] + g[s \ {Pick(s)}] /\ h[s] = e[Pick(s)] + h[s \ {Pick(s)}]
      BY <3>1 DEF Runs
    <3> QED BY <3>2, <3>3, <3>4
  <2> QED BY <2>1
<1>4. P = Nat
  <2> HIDE DEF P
  <2> QED BY <1>2, <1>3, NatSetInduction DEF P
<1> QED BY <1>1, <1>4

-----------------------------------------------------------------------------
(* The laws of the sum                                                     *)

\* A sum depends on the values inside the set only.
LEMMA SumSame ==
  ASSUME NEW S, IsFiniteSet(S), NEW f, NEW g, \A x \in S : f[x] = g[x]
  PROVE  SumFunctionOnSet(f, S) = SumFunctionOnSet(g, S)
<1>1. Runs(CHOOSE h : Runs(h, f, S), f, S) /\ Runs(CHOOSE h : Runs(h, g, S), g, S)
  BY RunExists
<1> QED BY <1>1, RunsAgree, SumByRun

LEMMA SumEmpty == \A f : SumFunctionOnSet(f, {}) = 0
<1> TAKE f
<1>1. Runs(CHOOSE h : Runs(h, f, {}), f, {})
  BY RunExists, FS_EmptySet
<1>2. (CHOOSE h : Runs(h, f, {}))[{}] = 0
  BY <1>1 DEF Runs
<1> QED BY <1>2, SumByRun

\* The first step of the computation.
LEMMA SumPick ==
  ASSUME NEW S, IsFiniteSet(S), S # {}, NEW f
  PROVE  SumFunctionOnSet(f, S) = f[Pick(S)] + SumFunctionOnSet(f, S \ {Pick(S)})
<1> DEFINE x == Pick(S)
           g == CHOOSE h : Runs(h, f, S)
           e == CHOOSE h : Runs(h, f, S \ {x})
<1>1. Runs(g, f, S) /\ Runs(e, f, S \ {x}) /\ IsFiniteSet(S \ {x})
  BY RunExists, FS_RemoveElement
<1>2. g[S] = f[x] + g[S \ {x}]
  BY <1>1 DEF Runs
<1>3. g[S \ {x}] = e[S \ {x}]
  <2> HIDE DEF g, e, x
  <2> QED BY <1>1, RunsAgree
<1> QED BY <1>2, <1>3, SumByRun

\* A sum of integers is an integer.
LEMMA SumType ==
  ASSUME NEW S, IsFiniteSet(S), NEW f, \A x \in S : f[x] \in Int
  PROVE  SumFunctionOnSet(f, S) \in Int
<1> DEFINE P == {n \in Nat : \A s \in SUBSET S : Cardinality(s) = n => SumFunctionOnSet(f, s) \in Int}
<1>1. 0 \in P
  <2>1. \A s \in SUBSET S : Cardinality(s) = 0 => s = {}
    BY FS_Subset, FS_EmptySet
  <2> QED BY <2>1, SumEmpty
<1>2. ASSUME NEW n \in P PROVE n + 1 \in P
  <2>1. ASSUME NEW s \in SUBSET S, Cardinality(s) = n + 1 PROVE SumFunctionOnSet(f, s) \in Int
    <3>1. s # {}
      BY <2>1, FS_EmptySet
    <3>2. SumFunctionOnSet(f, s \ {Pick(s)}) \in Int /\ f[Pick(s)] \in Int /\ IsFiniteSet(s)
      BY <2>1, <3>1, PickLess
    <3> QED BY <3>1, <3>2, SumPick
  <2> QED BY <2>1
<1>3. P = Nat
  <2> HIDE DEF P
  <2> QED BY <1>1, <1>2, NatSetInduction DEF P
<1> QED BY <1>3, FS_CardinalityType

\* The order does not matter: any element may be taken out first.
LEMMA SumRemove ==
  ASSUME NEW S, IsFiniteSet(S), NEW f, \A x \in S : f[x] \in Int
  PROVE  \A x \in S : SumFunctionOnSet(f, S) = f[x] + SumFunctionOnSet(f, S \ {x})
<1> DEFINE Law(s) == \A x \in s :
             SumFunctionOnSet(f, s) = f[x] + SumFunctionOnSet(f, s \ {x})
           P == {n \in Nat : \A s \in SUBSET S : Cardinality(s) = n => Law(s)}
<1>1. \A s \in SUBSET S : IsFiniteSet(s) /\ SumFunctionOnSet(f, s) \in Int
  BY FS_Subset, SumType
<1>2. 0 \in P
  BY <1>1, FS_EmptySet
<1>3. ASSUME NEW n \in P PROVE n + 1 \in P
  <2>1. ASSUME NEW s \in SUBSET S, Cardinality(s) = n + 1, NEW x \in s
        PROVE  SumFunctionOnSet(f, s) = f[x] + SumFunctionOnSet(f, s \ {x})
    <3> DEFINE y == Pick(s)
    <3>1. /\ y \in s /\ IsFiniteSet(s) /\ s # {}
          /\ SumFunctionOnSet(f, s) = f[y] + SumFunctionOnSet(f, s \ {y})
      BY <1>1, SumPick DEF Pick
    <3> HIDE DEF y
    <3>2. CASE x = y
      BY <3>1, <3>2
    <3>3. CASE x # y
      <4>1. /\ Cardinality(s \ {x}) = n /\ Cardinality(s \ {y}) = n
            /\ s \ {x} \in SUBSET S /\ s \ {y} \in SUBSET S
        <5>1. n \in Nat
          OBVIOUS
        <5>2. /\ Cardinality(s \ {x}) = Cardinality(s) - 1
              /\ Cardinality(s \ {y}) = Cardinality(s) - 1
          BY <3>1, FS_RemoveElement
        <5> QED BY <2>1, <5>1, <5>2
      <4>2. Law(s \ {x}) /\ Law(s \ {y})
        BY <4>1
      <4>3. /\ SumFunctionOnSet(f, s \ {y}) = f[x] + SumFunctionOnSet(f, (s \ {y}) \ {x})
            /\ SumFunctionOnSet(f, s \ {x}) = f[y] + SumFunctionOnSet(f, (s \ {x}) \ {y})
        BY <3>1, <3>3, <4>2
      <4>4. SumFunctionOnSet(f, (s \ {y}) \ {x}) = SumFunctionOnSet(f, (s \ {x}) \ {y})
        <5>1. (s \ {y}) \ {x} = (s \ {x}) \ {y}
          OBVIOUS
        <5> QED BY <5>1
      <4>5. /\ SumFunctionOnSet(f, (s \ {x}) \ {y}) \in Int
            /\ f[x] \in Int /\ f[y] \in Int
        BY <1>1, <3>1
      <4> QED BY <3>1, <4>3, <4>4, <4>5
    <3> QED BY <3>2, <3>3
  <2> QED BY <2>1
<1>4. P = Nat
  <2> HIDE DEF P
  <2> QED BY <1>2, <1>3, NatSetInduction DEF P
<1> QED BY <1>4, FS_CardinalityType

\* One more element adds its value.
LEMMA SumInsert ==
  ASSUME NEW S, IsFiniteSet(S), NEW f, NEW x, x \notin S, f[x] \in Int,
         \A y \in S : f[y] \in Int
  PROVE  SumFunctionOnSet(f, S \cup {x}) = f[x] + SumFunctionOnSet(f, S)
<1>1. IsFiniteSet(S \cup {x}) /\ (S \cup {x}) \ {x} = S
  BY FS_AddElement
<1>2. SumFunctionOnSet(f, S \cup {x}) = f[x] + SumFunctionOnSet(f, (S \cup {x}) \ {x})
  BY <1>1, SumRemove
<1> QED BY <1>1, <1>2

\* g is f but for its value at x.
Changed(f, g, S, x) == /\ \A y \in S : f[y] \in Int /\ g[y] \in Int
                       /\ \A y \in S \ {x} : f[y] = g[y]

\* One changed value changes the sum by the difference.
LEMMA SumChange ==
  ASSUME NEW S, IsFiniteSet(S), NEW f, NEW g, NEW x \in S, Changed(f, g, S, x)
  PROVE  SumFunctionOnSet(g, S) = SumFunctionOnSet(f, S) - f[x] + g[x]
<1>0. /\ \A y \in S : f[y] \in Int /\ g[y] \in Int
      /\ \A y \in S \ {x} : f[y] = g[y]
  BY DEF Changed
<1>1. IsFiniteSet(S \ {x})
  BY FS_RemoveElement
<1>2. /\ SumFunctionOnSet(f, S) = f[x] + SumFunctionOnSet(f, S \ {x})
      /\ SumFunctionOnSet(g, S) = g[x] + SumFunctionOnSet(g, S \ {x})
  BY <1>0, SumRemove
<1>3. SumFunctionOnSet(f, S \ {x}) = SumFunctionOnSet(g, S \ {x})
  BY <1>0, <1>1, SumSame
<1>4. SumFunctionOnSet(f, S \ {x}) \in Int /\ f[x] \in Int /\ g[x] \in Int
  BY <1>0, <1>1, SumType
<1> QED BY <1>2, <1>3, <1>4

\* A sum of smaller values is smaller.
LEMMA SumAtMost ==
  ASSUME NEW S, IsFiniteSet(S), NEW f, NEW g,
         \A x \in S : f[x] \in Int /\ g[x] \in Int /\ f[x] <= g[x]
  PROVE  SumFunctionOnSet(f, S) <= SumFunctionOnSet(g, S)
<1> DEFINE P == {T \in SUBSET S : SumFunctionOnSet(f, T) <= SumFunctionOnSet(g, T)}
<1>1. {} \in P
  BY SumEmpty
<1>2. ASSUME NEW T \in P, NEW x \in S \ T PROVE T \cup {x} \in P
  <2>1. IsFiniteSet(T)
    BY FS_Subset
  <2>2. /\ SumFunctionOnSet(f, T) \in Int /\ SumFunctionOnSet(g, T) \in Int
        /\ f[x] \in Int /\ g[x] \in Int /\ f[x] <= g[x]
    BY <2>1, SumType
  <2>3. /\ SumFunctionOnSet(f, T \cup {x}) = f[x] + SumFunctionOnSet(f, T)
        /\ SumFunctionOnSet(g, T \cup {x}) = g[x] + SumFunctionOnSet(g, T)
    BY <2>1, SumInsert
  <2> QED BY <2>2, <2>3
<1>3. P = SUBSET S
  <2>1. P \in SUBSET SUBSET S /\ \A U \in P : \A x \in S \ U : U \cup {x} \in P
    BY <1>2
  <2> HIDE DEF P
  <2> QED BY <1>1, <2>1, SubsetInduction
<1> QED BY <1>3

\* A sum of natural numbers is one, and is at least each of them.
LEMMA SumNatural ==
  ASSUME NEW S, IsFiniteSet(S), NEW f, \A x \in S : f[x] \in Nat
  PROVE  /\ SumFunctionOnSet(f, S) \in Nat
         /\ \A x \in S : f[x] <= SumFunctionOnSet(f, S)
<1>0. \A x \in S : f[x] \in Int
  OBVIOUS
<1> DEFINE P == {T \in SUBSET S : SumFunctionOnSet(f, T) \in Nat}
<1>1. {} \in P
  BY SumEmpty
<1>2. ASSUME NEW T \in P, NEW x \in S \ T PROVE T \cup {x} \in P
  <2>1. IsFiniteSet(T)
    BY FS_Subset
  <2>2. SumFunctionOnSet(f, T \cup {x}) = f[x] + SumFunctionOnSet(f, T)
    BY <1>0, <2>1, SumInsert
  <2> QED BY <2>2
<1>3. P = SUBSET S
  <2>1. P \in SUBSET SUBSET S /\ \A U \in P : \A x \in S \ U : U \cup {x} \in P
    BY <1>2
  <2> HIDE DEF P
  <2> QED BY <1>1, <2>1, SubsetInduction
<1>4. \A x \in S : SumFunctionOnSet(f, S) = f[x] + SumFunctionOnSet(f, S \ {x})
  BY <1>0, SumRemove
<1>5. \A T \in SUBSET S : SumFunctionOnSet(f, T) \in Nat
  BY <1>3
<1>6. ASSUME NEW x \in S PROVE f[x] <= SumFunctionOnSet(f, S)
  <2>1. SumFunctionOnSet(f, S \ {x}) \in Nat /\ f[x] \in Nat
    BY <1>5
  <2> QED BY <1>4, <2>1
<1> QED BY <1>5, <1>6

\* The sums over two disjoint sets add up.
LEMMA SumUnion ==
  ASSUME NEW S, IsFiniteSet(S), NEW T, IsFiniteSet(T), S \cap T = {}, NEW f,
         \A x \in S \cup T : f[x] \in Int
  PROVE  SumFunctionOnSet(f, S \cup T) = SumFunctionOnSet(f, S) + SumFunctionOnSet(f, T)
<1> DEFINE P == {U \in SUBSET T :
             SumFunctionOnSet(f, S \cup U) = SumFunctionOnSet(f, S) + SumFunctionOnSet(f, U)}
<1>1. SumFunctionOnSet(f, S) \in Int
  BY SumType
<1>2. {} \in P
  BY <1>1, SumEmpty
<1>3. ASSUME NEW U \in P, NEW x \in T \ U PROVE U \cup {x} \in P
  <2>1. IsFiniteSet(U) /\ IsFiniteSet(S \cup U) /\ x \notin S \cup U
    BY FS_Subset, FS_Union
  <2>2. SumFunctionOnSet(f, U \cup {x}) = f[x] + SumFunctionOnSet(f, U)
    BY <2>1, SumInsert
  <2>3. SumFunctionOnSet(f, (S \cup U) \cup {x}) = f[x] + SumFunctionOnSet(f, S \cup U)
    BY <2>1, SumInsert
  <2>4. SumFunctionOnSet(f, U) \in Int /\ f[x] \in Int
    BY <2>1, SumType
  <2>5. SumFunctionOnSet(f, (S \cup U) \cup {x}) = SumFunctionOnSet(f, S \cup (U \cup {x}))
    <3>1. (S \cup U) \cup {x} = S \cup (U \cup {x})
      OBVIOUS
    <3> QED BY Zenon, <3>1
  <2> QED BY <1>1, <2>2, <2>3, <2>4, <2>5
<1>4. P = SUBSET T
  <2>1. P \in SUBSET SUBSET T /\ \A U \in P : \A x \in T \ U : U \cup {x} \in P
    BY <1>3
  <2> HIDE DEF P
  <2> QED BY <1>2, <2>1, SubsetInduction
<1> QED BY <1>4

\* Values of zero may be left out.
LEMMA SumZeroes ==
  ASSUME NEW S, IsFiniteSet(S), NEW T \in SUBSET S, NEW f,
         \A x \in S : f[x] \in Int, \A x \in S \ T : f[x] = 0
  PROVE  SumFunctionOnSet(f, T) = SumFunctionOnSet(f, S)
<1> DEFINE P == {U \in SUBSET (S \ T) : SumFunctionOnSet(f, U) = 0}
<1>1. IsFiniteSet(T) /\ IsFiniteSet(S \ T)
  BY FS_Subset, FS_Difference
<1>2. {} \in P
  BY SumEmpty
<1>3. ASSUME NEW U \in P, NEW x \in (S \ T) \ U PROVE U \cup {x} \in P
  <2>1. IsFiniteSet(U)
    BY <1>1, FS_Subset
  <2>2. SumFunctionOnSet(f, U \cup {x}) = f[x] + SumFunctionOnSet(f, U)
    BY <2>1, SumInsert
  <2> QED BY <2>2
<1>4. P = SUBSET (S \ T)
  <2>1. P \in SUBSET SUBSET (S \ T) /\ \A U \in P : \A x \in (S \ T) \ U : U \cup {x} \in P
    BY <1>3
  <2> HIDE DEF P
  <2> QED BY <1>1, <1>2, <2>1, SubsetInduction
<1>5. SumFunctionOnSet(f, S \ T) = 0
  BY <1>4
<1>6. T \cup (S \ T) = S /\ T \cap (S \ T) = {}
  OBVIOUS
<1>7. SumFunctionOnSet(f, T \cup (S \ T)) = SumFunctionOnSet(f, T) + SumFunctionOnSet(f, S \ T)
  BY <1>1, <1>6, SumUnion
<1>8. SumFunctionOnSet(f, T) \in Int
  BY <1>1, SumType
<1>9. SumFunctionOnSet(f, T \cup (S \ T)) = SumFunctionOnSet(f, S)
  BY Zenon, <1>6
<1> QED BY <1>5, <1>7, <1>8, <1>9

\* Of natural numbers, a part never sums to more than the whole.
LEMMA SumPart ==
  ASSUME NEW S, IsFiniteSet(S), NEW T \in SUBSET S, NEW f, \A x \in S : f[x] \in Nat
  PROVE  SumFunctionOnSet(f, T) <= SumFunctionOnSet(f, S)
<1>1. IsFiniteSet(T) /\ IsFiniteSet(S \ T)
  BY FS_Subset, FS_Difference
<1>2. T \cup (S \ T) = S /\ T \cap (S \ T) = {}
  OBVIOUS
<1>3. SumFunctionOnSet(f, T \cup (S \ T)) = SumFunctionOnSet(f, T) + SumFunctionOnSet(f, S \ T)
  BY <1>1, <1>2, SumUnion
<1>4. SumFunctionOnSet(f, T) \in Nat /\ SumFunctionOnSet(f, S \ T) \in Nat
  BY <1>1, SumNatural
<1>5. SumFunctionOnSet(f, T \cup (S \ T)) = SumFunctionOnSet(f, S)
  BY Zenon, <1>2
<1> QED BY <1>3, <1>4, <1>5

\* g is f, a table of n rows, with one more.
Grown(f, g, n) == /\ \A k \in 1..n : f[k] \in Int /\ g[k] = f[k]
                  /\ g[n + 1] \in Int

\* A table that grows by one row: the sum over old rows stays.
LEMMA SumKept ==
  ASSUME NEW n \in Nat, NEW f, NEW g, Grown(f, g, n), NEW A \in SUBSET (1..n)
  PROVE  /\ SumFunctionOnSet(g, A) = SumFunctionOnSet(f, A)
         /\ SumFunctionOnSet(f, A) \in Int
<1>1. IsFiniteSet(A)
  <2>1. IsFiniteSet(1..n)
    BY FS_Interval
  <2> QED BY <2>1, FS_Subset
<1> QED BY <1>1, SumSame, SumType DEF Grown

\* The new row adds its value.
LEMMA SumGrow ==
  ASSUME NEW n \in Nat, NEW f, NEW g, Grown(f, g, n), NEW A \in SUBSET (1..n)
  PROVE  SumFunctionOnSet(g, A \cup {n + 1}) = SumFunctionOnSet(f, A) + g[n + 1]
<1>1. IsFiniteSet(A)
  <2>1. IsFiniteSet(1..n)
    BY FS_Interval
  <2> QED BY <2>1, FS_Subset
<1>2. SumFunctionOnSet(g, A) = SumFunctionOnSet(f, A) /\ SumFunctionOnSet(f, A) \in Int
  BY SumKept
<1>3. n + 1 \notin A /\ g[n + 1] \in Int /\ \A k \in A : g[k] \in Int
  BY DEF Grown
<1>4. SumFunctionOnSet(g, A \cup {n + 1}) = g[n + 1] + SumFunctionOnSet(g, A)
  BY <1>1, <1>3, SumInsert
<1> QED BY <1>2, <1>3, <1>4

\* A value that is the same everywhere is counted as often as it occurs.
LEMMA SumConstant ==
  ASSUME NEW S, IsFiniteSet(S), NEW c \in Nat, NEW f, \A x \in S : f[x] = c
  PROVE  SumFunctionOnSet(f, S) = Cardinality(S) * c
<1> DEFINE P == {T \in SUBSET S : SumFunctionOnSet(f, T) = Cardinality(T) * c}
<1>1. P \in SUBSET SUBSET S
  OBVIOUS
<1>2. {} \in P
  BY SumEmpty, FS_EmptySet
<1>3. ASSUME NEW T \in P, NEW x \in S \ T PROVE T \cup {x} \in P
  <2>1. IsFiniteSet(T) /\ Cardinality(T) \in Nat
    BY FS_Subset, FS_CardinalityType
  <2>2. Cardinality(T \cup {x}) = Cardinality(T) + 1
    BY <2>1, FS_AddElement
  <2>3. SumFunctionOnSet(f, T \cup {x}) = f[x] + SumFunctionOnSet(f, T)
    <3>1. x \notin T /\ f[x] \in Int /\ \A y \in T : f[y] \in Int
      OBVIOUS
    <3> HIDE DEF P
    <3> QED BY <2>1, <3>1, SumInsert
  <2>4. SumFunctionOnSet(f, T) = Cardinality(T) * c /\ f[x] = c
    OBVIOUS
  <2>5. c + Cardinality(T) * c = (Cardinality(T) + 1) * c
    BY <2>1
  <2>6. SumFunctionOnSet(f, T \cup {x}) = Cardinality(T \cup {x}) * c
    BY <2>2, <2>3, <2>4, <2>5
  <2> QED BY <2>6
<1> HIDE DEF P
<1>4. P = SUBSET S
  BY <1>1, <1>2, <1>3, SubsetInduction
<1>5. S \in P
  BY <1>4
<1> QED BY <1>5 DEF P

\* g is f with c more at each element of T.
Raised(f, g, S, T, c) == \A x \in S : /\ f[x] \in Int /\ g[x] \in Int
                                      /\ g[x] = IF x \in T THEN f[x] + c ELSE f[x]

\* What is added to each of some elements is added to the sum as often.
LEMMA SumRaised ==
  ASSUME NEW S, IsFiniteSet(S), NEW T \in SUBSET S, NEW c \in Nat, NEW f, NEW g,
         Raised(f, g, S, T, c)
  PROVE  SumFunctionOnSet(g, S) = SumFunctionOnSet(f, S) + c * Cardinality(T)
<1>0. \A x \in S : /\ f[x] \in Int /\ g[x] \in Int
                   /\ g[x] = IF x \in T THEN f[x] + c ELSE f[x]
  BY DEF Raised
<1> DEFINE P == {U \in SUBSET S :
             SumFunctionOnSet(g, U) = SumFunctionOnSet(f, U) + c * Cardinality(U \cap T)}
<1>1. P \in SUBSET SUBSET S
  OBVIOUS
<1>2. {} \in P
  <2>1. {} \cap T = {} /\ Cardinality({}) = 0
    BY FS_EmptySet
  <2>2. SumFunctionOnSet(g, {}) = 0 /\ SumFunctionOnSet(f, {}) = 0
    BY SumEmpty
  <2>3. Cardinality({} \cap T) = 0
    BY Zenon, <2>1
  <2>4. 0 = 0 + c * 0
    OBVIOUS
  <2>5. SumFunctionOnSet(g, {}) = SumFunctionOnSet(f, {}) + c * Cardinality({} \cap T)
    BY <2>2, <2>3, <2>4
  <2> QED BY <2>5
<1>3. ASSUME NEW U \in P, NEW x \in S \ U PROVE U \cup {x} \in P
  <2> DEFINE n == Cardinality(U \cap T)
             a == SumFunctionOnSet(f, U)
             b == SumFunctionOnSet(g, U)
  <2>1. IsFiniteSet(U) /\ IsFiniteSet(U \cap T)
    BY FS_Subset
  <2>2. /\ x \notin U /\ b = a + c * n
        /\ f[x] \in Int /\ g[x] \in Int /\ \A y \in U : f[y] \in Int /\ g[y] \in Int
    BY <1>0
  <2>3. n \in Nat /\ a \in Int
    BY <2>1, <2>2, FS_CardinalityType, SumType
  <2>4. /\ SumFunctionOnSet(f, U \cup {x}) = f[x] + a
        /\ SumFunctionOnSet(g, U \cup {x}) = g[x] + b
    <3> HIDE DEF P
    <3> QED BY <2>1, <2>2, SumInsert
  <2>5. Cardinality((U \cup {x}) \cap T) = IF x \in T THEN n + 1 ELSE n
    <3>1. CASE x \in T
      <4>1. (U \cup {x}) \cap T = (U \cap T) \cup {x} /\ x \notin U \cap T
        BY <3>1
      <4>2. Cardinality((U \cap T) \cup {x}) = n + 1
        BY <2>1, <4>1, FS_AddElement
      <4> QED BY <3>1, <4>1, <4>2
    <3>2. CASE x \notin T
      <4>1. (U \cup {x}) \cap T = U \cap T
        BY <3>2
      <4> QED BY <3>2, <4>1
    <3> QED BY <3>1, <3>2
  <2> HIDE DEF n, a, b
  <2>6. c * (n + 1) = c * n + c /\ c * n \in Int
    BY <2>3
  <2>7. SumFunctionOnSet(g, U \cup {x})
          = SumFunctionOnSet(f, U \cup {x}) + c * Cardinality((U \cup {x}) \cap T)
    <3>1. g[x] = IF x \in T THEN f[x] + c ELSE f[x]
      BY <1>0
    <3>2. CASE x \in T
      <4>1. g[x] + b = (f[x] + a) + c * (n + 1)
        BY <2>2, <2>3, <2>6, <3>1, <3>2
      <4> QED BY <2>4, <2>5, <3>2, <4>1
    <3>3. CASE x \notin T
      <4>1. g[x] + b = (f[x] + a) + c * n
        BY <2>2, <2>3, <2>6, <3>1, <3>3
      <4> QED BY <2>4, <2>5, <3>3, <4>1
    <3> QED BY <3>2, <3>3
  <2> QED BY <2>7
<1> HIDE DEF P
<1>4. P = SUBSET S
  BY <1>1, <1>2, <1>3, SubsetInduction
<1>5. S \in P /\ S \cap T = T
  BY <1>4
<1> QED BY <1>5 DEF P

\* A share of an amount is no more than the amount, and all shares together
\* are not either.
LEMMA ShareAtMost ==
  ASSUME NEW a \in Nat, NEW n \in Nat, n > 0
  PROVE  /\ a \div n \in Nat /\ n * (a \div n) <= a /\ a \div n <= a
         /\ \A k \in 0..n : k * (a \div n) <= a
<1>1. a \div n \in Int /\ n * (a \div n) <= a /\ a < n * (a \div n) + n
  OBVIOUS
<1> DEFINE q == a \div n
<1>2. q \in Int /\ n * q <= a /\ a < n * q + n
  BY <1>1
<1> HIDE DEF q
<1>3. q >= 0
  <2> SUFFICES ASSUME q <= -1 PROVE FALSE
    BY <1>2
  <2>1. n * q <= -n
    BY <1>2
  <2> QED BY <1>2, <2>1
<1>4. \A k \in 0..n : k * q <= n * q
  BY <1>2, <1>3
<1>5. 1 * q <= n * q
  BY <1>4
<1> QED BY <1>2, <1>3, <1>4, <1>5 DEF q

\* The cost allocated to a sale of part of a holding is part of its cost.
LEMMA AllocationBounds ==
  ASSUME NEW c \in Nat, NEW held \in Nat \ {0}, NEW sold \in Nat, sold <= held
  PROVE  (c * sold) \div held \in 0..c
<1> DEFINE m == c * sold
<1> DEFINE q == m \div held
<1>1. m \in Nat /\ m <= c * held
  OBVIOUS
<1>2. q \in Nat /\ q * held <= m
  <2> HIDE DEF m
  <2> QED BY <1>1
<1>3. q * held <= c * held
  BY <1>1, <1>2
<1>4. q <= c
  <2> HIDE DEF q
  <2> QED BY <1>2, <1>3
<1> QED BY <1>2, <1>4

\* A whole holding carries its whole cost.
LEMMA WholeAllocation ==
  ASSUME NEW c \in Nat, NEW held \in Nat \ {0}
  PROVE  (c * held) \div held = c
<1> DEFINE q == (c * held) \div held
<1>1. q \in Int /\ q * held <= c * held /\ c * held < (q + 1) * held
  <2> DEFINE m == c * held
  <2>1. m \in Nat
    OBVIOUS
  <2> HIDE DEF m
  <2>2. m \div held \in Int /\ (m \div held) * held <= m /\ m < (m \div held + 1) * held
    BY <2>1
  <2> QED BY <2>2 DEF m
<1> HIDE DEF q
<1>2. ~ (q < c)
  <2>1. ASSUME q < c PROVE (q + 1) * held <= c * held
    BY <1>1, <2>1
  <2> QED BY <1>1, <2>1
<1>3. ~ (q > c)
  <2>1. ASSUME q > c PROVE (c + 1) * held <= q * held
    BY <1>1, <2>1
  <2>2. (c + 1) * held = c * held + held
    OBVIOUS
  <2> QED BY <1>1, <2>1, <2>2
<1>4. q = c
  BY <1>1, <1>2, <1>3
<1> QED BY <1>4 DEF q

\* h renames the elements of S, each to one of its own.
Renames(h, S) == \A x, y \in S : h[x] = h[y] => x = y

\* f counts under the new names what g counts under the old ones.
Carries(f, g, h, S) == \A x \in S : g[x] \in Int /\ f[h[x]] = g[x]

\* What is counted under other names is counted as often, and adds up to as much.
LEMMA SumRenamed ==
  ASSUME NEW S, IsFiniteSet(S), NEW h, Renames(h, S), NEW f, NEW g, Carries(f, g, h, S)
  PROVE  /\ IsFiniteSet({h[x] : x \in S}) /\ Cardinality({h[x] : x \in S}) = Cardinality(S)
         /\ SumFunctionOnSet(f, {h[x] : x \in S}) = SumFunctionOnSet(g, S)
<1> DEFINE I(U) == {h[x] : x \in U}
           P == {U \in SUBSET S :
             /\ IsFiniteSet(I(U)) /\ Cardinality(I(U)) = Cardinality(U)
             /\ SumFunctionOnSet(f, I(U)) = SumFunctionOnSet(g, U)}
<1>0. \A x \in S : g[x] \in Int /\ f[h[x]] = g[x]
  BY DEF Carries
<1>1. P \in SUBSET SUBSET S
  OBVIOUS
<1>2. {} \in P
  <2>1. I({}) = {}
    OBVIOUS
  <2>2. /\ IsFiniteSet({}) /\ Cardinality({}) = Cardinality({})
        /\ SumFunctionOnSet(f, {}) = SumFunctionOnSet(g, {})
    BY SumEmpty, FS_EmptySet
  <2> HIDE DEF I
  <2> QED BY <2>1, <2>2
<1>3. ASSUME NEW U \in P, NEW x \in S \ U PROVE U \cup {x} \in P
  <2>1. I(U \cup {x}) = I(U) \cup {h[x]}
    OBVIOUS
  <2>2. h[x] \notin I(U)
    BY DEF Renames
  <2>3. IsFiniteSet(U) /\ x \notin U /\ \A y \in U : g[y] \in Int
    BY <1>0, FS_Subset
  <2>4. g[x] \in Int /\ f[h[x]] = g[x] /\ \A z \in I(U) : f[z] \in Int
    BY <1>0
  <2>5. /\ IsFiniteSet(I(U)) /\ Cardinality(I(U)) = Cardinality(U)
        /\ SumFunctionOnSet(f, I(U)) = SumFunctionOnSet(g, U)
    OBVIOUS
  <2> HIDE DEF P, I
  <2>6. /\ IsFiniteSet(I(U) \cup {h[x]})
        /\ Cardinality(I(U) \cup {h[x]}) = Cardinality(I(U)) + 1
        /\ Cardinality(U \cup {x}) = Cardinality(U) + 1
    BY <2>2, <2>3, <2>5, FS_AddElement
  <2>7. /\ SumFunctionOnSet(f, I(U) \cup {h[x]}) = f[h[x]] + SumFunctionOnSet(f, I(U))
        /\ SumFunctionOnSet(g, U \cup {x}) = g[x] + SumFunctionOnSet(g, U)
    BY <2>2, <2>3, <2>4, <2>5, SumInsert
  <2>8. /\ IsFiniteSet(I(U \cup {x})) /\ Cardinality(I(U \cup {x})) = Cardinality(U \cup {x})
        /\ SumFunctionOnSet(f, I(U \cup {x})) = SumFunctionOnSet(g, U \cup {x})
    BY <2>1, <2>4, <2>5, <2>6, <2>7
  <2>9. U \cup {x} \in SUBSET S
    BY DEF P
  <2> QED BY <2>8, <2>9 DEF P
<1> HIDE DEF P
<1>4. P = SUBSET S
  BY <1>1, <1>2, <1>3, SubsetInduction
<1>5. S \in P
  BY <1>4
<1> QED BY <1>5 DEF P

-----------------------------------------------------------------------------
(* Greatest and least numbers                                               *)

\* A set of natural numbers has a least one.
LEMMA MinIsOne ==
  ASSUME NEW S \in SUBSET Nat, S # {}
  PROVE  Min(S) \in S /\ \A x \in S : Min(S) <= x
<1> DEFINE R == OpToRel(<, Nat)
<1>1. \A m, n \in Nat : m < n => <<m, n>> \in R
  BY DEF OpToRel
<1>2. IsWellFoundedOn(R, Nat)
  BY Zenon, NatLessThanWellFounded
<1> HIDE DEF R
<1>3. PICK m \in S : \A x \in S : <<x, m>> \notin R
  BY <1>2, WFMin
<1>4. ASSUME NEW x \in S, x < m PROVE FALSE
  <2>1. x \in Nat /\ m \in Nat
    OBVIOUS
  <2> QED BY <1>1, <1>3, <1>4, <2>1
<1>5. \A x \in S : m <= x
  <2>1. \A x \in S : x \in Int /\ m \in Int /\ ~(x < m)
    BY <1>4
  <2> QED BY <2>1
<1> QED BY <1>5, <1>3 DEF Min

\* One that is bounded has a greatest.
LEMMA MaxIsOne ==
  ASSUME NEW S \in SUBSET Nat, S # {}, NEW n \in Nat, \A x \in S : x <= n
  PROVE  Max(S) \in S /\ \A x \in S : Max(S) >= x
<1> DEFINE T == {k \in Nat : \A x \in S : x <= k}
<1>1. Min(T) \in T /\ \A k \in T : Min(T) <= k
  BY MinIsOne
<1>2. PICK m : m = Min(T)
  OBVIOUS
<1>3. m \in S
  <2> SUFFICES ASSUME m \notin S PROVE FALSE
    OBVIOUS
  <2>1. \A x \in S : x < m
    BY <1>1, <1>2
  <2>2. m - 1 \in T
    <3>1. PICK x \in S : TRUE
      OBVIOUS
    <3>2. m \in Nat /\ x \in Nat /\ x < m
      BY <1>1, <1>2, <2>1, <3>1
    <3>3. \A y \in S : y <= m - 1
      BY <2>1, <3>2
    <3> QED BY <3>2, <3>3
  <2> QED BY <1>1, <1>2, <2>2
<1> QED BY <1>1, <1>2, <1>3 DEF Max

=============================================================================
