------------------------------- MODULE SumLaws -------------------------------
(***************************************************************************)
(* The laws of SumOver, for every function and every finite set. The fold  *)
(* that SumOver stands for is a CHOOSE of a function defined by recursion  *)
(* over subsets; each law is proved of a smallest set that breaks it.      *)
(***************************************************************************)
EXTENDS Sums, FiniteSets, FiniteSetTheorems, WellFoundedInduction, TLAPS

-----------------------------------------------------------------------------
(* Smallest numbers and smallest sets.                                     *)

LEMMA Smallest ==
  ASSUME NEW T, T \subseteq Nat, T # {}
  PROVE  \E n \in T : \A m \in T : n <= m
<1> DEFINE R == OpToRel(<, Nat)
<1>1. IsWellFoundedOn(R, Nat)
  BY NatLessThanWellFounded
<1>2. \A m, n \in Nat : <<m, n>> \in R <=> m < n
  BY DEF OpToRel
<1> HIDE DEF R
<1>3. PICK n \in T : \A m \in T : ~(<<m, n>> \in R)
  BY <1>1, WFMin
<1>4. ASSUME NEW m \in T PROVE n <= m
  <2>1. m \in Nat /\ n \in Nat /\ ~(m < n)
    BY <1>2, <1>3
  <2> QED
    BY <2>1
<1> QED
  BY <1>4

\* A minimal counterexample: a set with no smaller one in the collection.
LEMMA MinimalSet ==
  ASSUME NEW S, IsFiniteSet(S), NEW C, C \subseteq SUBSET S, C # {}
  PROVE  \E s \in C : \A x \in s : s \ {x} \notin C
<1> DEFINE T == {Cardinality(s) : s \in C}
<1>1. \A s \in C : IsFiniteSet(s) /\ Cardinality(s) \in Nat
  BY FS_Subset, FS_CardinalityType
<1>2. T \subseteq Nat /\ T # {}
  BY <1>1
<1>3. PICK n \in T : \A m \in T : n <= m
  <2> HIDE DEF T
  <2> QED
    BY <1>2, Smallest
<1>4. PICK s \in C : n = Cardinality(s)
  OBVIOUS
<1>5. ASSUME NEW x \in s, s \ {x} \in C PROVE FALSE
  <2>1. Cardinality(s \ {x}) = Cardinality(s) - 1
    BY <1>1, FS_RemoveElement
  <2>2. Cardinality(s) <= Cardinality(s \ {x})
    BY <1>3, <1>4, <1>5
  <2> QED
    BY <1>1, <2>1, <2>2
<1> QED
  BY <1>5

-----------------------------------------------------------------------------
(* The recursion behind SumOver.                                           *)

\* The element the recursion takes out of a set.
Pick(s) == CHOOSE x \in s : TRUE

\* it adds up g over every set of D.
Rec(g, D, it) ==
  it = [s \in D |-> IF s = {} THEN 0 ELSE g[Pick(s)] + it[s \ {Pick(s)}]]

LEMMA PickIn == \A s : s # {} => Pick(s) \in s
  BY DEF Pick

LEMMA SumIsRec ==
  ASSUME NEW g, NEW S
  PROVE  SumOver(g, S) = (CHOOSE it : Rec(g, SUBSET S, it))[S]
  BY DEF SumOver, FoldFunctionOnSet, MapThenFoldSet, Rec, Pick

LEMMA RecExists ==
  ASSUME NEW g, NEW S, IsFiniteSet(S)
  PROVE  \E it : Rec(g, SUBSET S, it)
<1> DEFINE Small(n) == {s \in SUBSET S : Cardinality(s) <= n}
           T == {n \in Nat : ~\E it : Rec(g, Small(n), it)}
<1>1. \A s \in SUBSET S : IsFiniteSet(s) /\ Cardinality(s) \in Nat /\ Cardinality(s) <= Cardinality(S)
  BY FS_Subset, FS_CardinalityType
<1>2. T = {}
  <2> SUFFICES ASSUME T # {} PROVE FALSE
    OBVIOUS
  <2>1. PICK n \in T : \A m \in T : n <= m
    BY Smallest
  <2>2. CASE n = 0
    <3>1. \A s \in Small(0) : s = {}
      BY <1>1, FS_EmptySet
    <3>2. Rec(g, Small(0), [s \in Small(0) |-> 0])
      BY <3>1 DEF Rec
    <3> QED
      BY <2>1, <2>2, <3>2
  <2>3. CASE n # 0
    <3>1. n - 1 \in Nat /\ n - 1 \notin T
      <4> n \in Nat
        OBVIOUS
      <4> HIDE DEF T
      <4> QED
        BY <2>1, <2>3
    <3>2. PICK f : Rec(g, Small(n - 1), f)
      BY <3>1
    <3> DEFINE it == [s \in Small(n) |-> IF s = {} THEN 0 ELSE g[Pick(s)] + f[s \ {Pick(s)}]]
    <3>3. ASSUME NEW s \in Small(n), s # {}
          PROVE  s \ {Pick(s)} \in Small(n - 1)
      <4>1. Pick(s) \in s
        BY <3>3, PickIn
      <4>2. Cardinality(s \ {Pick(s)}) = Cardinality(s) - 1
        BY <1>1, <4>1, FS_RemoveElement
      <4> QED
        BY <1>1, <3>1, <4>2
    <3>4. \A s \in Small(n - 1) : s \in Small(n)
      BY <1>1, <3>1
    <3>5. \A s \in Small(n - 1) : it[s] = f[s]
      <4>1. \A s \in Small(n - 1) : f[s] = IF s = {} THEN 0 ELSE g[Pick(s)] + f[s \ {Pick(s)}]
        BY <3>2 DEF Rec
      <4> QED
        BY <3>4, <4>1
    <3>6. \A s \in Small(n) : s # {} => it[s \ {Pick(s)}] = f[s \ {Pick(s)}]
      BY <3>3, <3>5
    <3>7. Rec(g, Small(n), it)
      BY <3>6 DEF Rec
    <3> QED
      BY <2>1, <3>7
  <2> QED
    BY <2>2, <2>3
<1>3. Small(Cardinality(S)) = SUBSET S
  BY <1>1
<1>4. Cardinality(S) \in Nat
  BY <1>1
<1> QED
  BY <1>2, <1>3, <1>4

\* The function that SumOver chooses meets its equation.
Iter(g, S) == CHOOSE it : Rec(g, SUBSET S, it)

LEMMA IterRec ==
  ASSUME NEW g, NEW S, IsFiniteSet(S), NEW s \in SUBSET S
  PROVE  Iter(g, S)[s] = IF s = {} THEN 0 ELSE g[Pick(s)] + Iter(g, S)[s \ {Pick(s)}]
<1>1. Rec(g, SUBSET S, Iter(g, S))
  BY RecExists DEF Iter
<1> QED
  BY <1>1 DEF Rec

\* Which set the recursion started from makes no difference.
LEMMA IterSub ==
  ASSUME NEW g, NEW S, IsFiniteSet(S), NEW R \in SUBSET S
  PROVE  SumOver(g, R) = Iter(g, S)[R]
<1> DEFINE C == {s \in SUBSET R : Iter(g, R)[s] # Iter(g, S)[s]}
<1>0. IsFiniteSet(R)
  BY FS_Subset
<1>1. C = {}
  <2> SUFFICES ASSUME C # {} PROVE FALSE
    OBVIOUS
  <2>1. PICK s \in C : \A x \in s : s \ {x} \notin C
    <3>1. C \subseteq SUBSET R
      OBVIOUS
    <3> HIDE DEF C
    <3> QED
      BY <1>0, <3>1, MinimalSet
  <2>2. Iter(g, R)[s] = IF s = {} THEN 0 ELSE g[Pick(s)] + Iter(g, R)[s \ {Pick(s)}]
    BY <1>0, IterRec
  <2>3. Iter(g, S)[s] = IF s = {} THEN 0 ELSE g[Pick(s)] + Iter(g, S)[s \ {Pick(s)}]
    BY IterRec
  <2>4. s # {} => Iter(g, R)[s \ {Pick(s)}] = Iter(g, S)[s \ {Pick(s)}]
    BY <2>1, PickIn
  <2> QED
    BY <2>2, <2>3, <2>4
<1>2. Iter(g, R)[R] = Iter(g, S)[R]
  BY <1>1
<1> QED
  BY <1>2, SumIsRec DEF Iter

-----------------------------------------------------------------------------
(* The laws.                                                               *)

\* The sum over nothing.
LEMMA SumOfNone == \A g : SumOver(g, {}) = 0
<1> SUFFICES ASSUME NEW g PROVE SumOver(g, {}) = 0
  OBVIOUS
<1>1. IsFiniteSet({})
  BY FS_EmptySet
<1>2. SumOver(g, {}) = Iter(g, {})[{}]
  BY <1>1, IterSub
<1>3. Iter(g, {})[{}] = 0
  BY <1>1, IterRec
<1> QED
  BY <1>2, <1>3

LEMMA SumPicks ==
  ASSUME NEW g, NEW S, IsFiniteSet(S), S # {}
  PROVE  SumOver(g, S) = g[Pick(S)] + SumOver(g, S \ {Pick(S)})
<1>1. SumOver(g, S) = Iter(g, S)[S]
  BY IterSub
<1>2. SumOver(g, S \ {Pick(S)}) = Iter(g, S)[S \ {Pick(S)}]
  BY IterSub
<1>3. Iter(g, S)[S] = g[Pick(S)] + Iter(g, S)[S \ {Pick(S)}]
  <2>1. S \in SUBSET S
    OBVIOUS
  <2> QED
    BY <2>1, IterRec
<1> QED
  BY <1>1, <1>2, <1>3

\* Integers add up to an integer.
LEMMA SumIsInt ==
  ASSUME NEW S, IsFiniteSet(S), NEW g, \A x \in S : g[x] \in Int
  PROVE  SumOver(g, S) \in Int
<1> DEFINE C == {s \in SUBSET S : SumOver(g, s) \notin Int}
<1> SUFFICES ASSUME C # {} PROVE FALSE
  OBVIOUS
<1>1. PICK s \in C : \A x \in s : s \ {x} \notin C
  <2>1. C \subseteq SUBSET S
    OBVIOUS
  <2> HIDE DEF C
  <2> QED
    BY <2>1, MinimalSet
<1>2. IsFiniteSet(s)
  BY FS_Subset
<1>3. s # {}
  BY SumOfNone
<1>4. SumOver(g, s) = g[Pick(s)] + SumOver(g, s \ {Pick(s)})
  BY <1>2, <1>3, SumPicks
<1>5. Pick(s) \in s
  BY <1>3, PickIn
<1>6. SumOver(g, s \ {Pick(s)}) \in Int
  BY <1>1, <1>5
<1> QED
  BY <1>4, <1>5, <1>6

\* Nor do naturals add up to less than nothing.
LEMMA SumIsNat ==
  ASSUME NEW S, IsFiniteSet(S), NEW g, \A x \in S : g[x] \in Nat
  PROVE  SumOver(g, S) \in Nat
<1> DEFINE C == {s \in SUBSET S : SumOver(g, s) \notin Nat}
<1> SUFFICES ASSUME C # {} PROVE FALSE
  OBVIOUS
<1>1. PICK s \in C : \A x \in s : s \ {x} \notin C
  <2>1. C \subseteq SUBSET S
    OBVIOUS
  <2> HIDE DEF C
  <2> QED
    BY <2>1, MinimalSet
<1>2. IsFiniteSet(s)
  BY FS_Subset
<1>3. s # {}
  BY SumOfNone
<1>4. SumOver(g, s) = g[Pick(s)] + SumOver(g, s \ {Pick(s)})
  BY <1>2, <1>3, SumPicks
<1>5. Pick(s) \in s
  BY <1>3, PickIn
<1>6. SumOver(g, s \ {Pick(s)}) \in Nat
  BY <1>1, <1>5
<1> QED
  BY <1>4, <1>5, <1>6

\* Any element may be added last.
LEMMA SumTakesOut ==
  ASSUME NEW S, IsFiniteSet(S), NEW g, \A x \in S : g[x] \in Int, NEW x \in S
  PROVE  SumOver(g, S) = g[x] + SumOver(g, S \ {x})
<1> DEFINE C == {s \in SUBSET S : \E y \in s : SumOver(g, s) # g[y] + SumOver(g, s \ {y})}
<1>0. C = {}
  <2> SUFFICES ASSUME C # {} PROVE FALSE
    OBVIOUS
  <2>1. PICK s \in C : \A y \in s : s \ {y} \notin C
    <3>1. C \subseteq SUBSET S
      OBVIOUS
    <3> HIDE DEF C
    <3> QED
      BY <3>1, MinimalSet
  <2>2. PICK y \in s : SumOver(g, s) # g[y] + SumOver(g, s \ {y})
    OBVIOUS
  <2> DEFINE p == Pick(s)
  <2>3. IsFiniteSet(s) /\ p \in s
    BY FS_Subset, PickIn
  <2>4. SumOver(g, s) = g[p] + SumOver(g, s \ {p})
    BY <2>3, SumPicks
  <2>5. p # y
    BY <2>2, <2>4
  <2> HIDE DEF p
  <2>6. /\ s \ {p} \notin C /\ s \ {y} \notin C
        /\ s \ {p} \in SUBSET S /\ s \ {y} \in SUBSET S
    BY <2>1, <2>3
  <2>7. SumOver(g, s \ {p}) = g[y] + SumOver(g, (s \ {p}) \ {y})
    BY <2>5, <2>6
  <2>8. SumOver(g, s \ {y}) = g[p] + SumOver(g, (s \ {y}) \ {p})
    BY <2>3, <2>5, <2>6
  <2>9. (s \ {p}) \ {y} = (s \ {y}) \ {p}
    OBVIOUS
  <2>10. SumOver(g, (s \ {p}) \ {y}) \in Int
    <3>1. (s \ {p}) \ {y} \in SUBSET S /\ IsFiniteSet((s \ {p}) \ {y})
      BY FS_Subset
    <3> QED
      BY <3>1, SumIsInt
  <2>11. g[p] \in Int /\ g[y] \in Int
    BY <2>3
  <2>12. \A a, b, c \in Int : a + (b + c) = b + (a + c)
    OBVIOUS
  <2>13. SumOver(g, s) = g[p] + (g[y] + SumOver(g, (s \ {p}) \ {y}))
    BY <2>4, <2>7
  <2>14. g[y] + SumOver(g, s \ {y}) = g[y] + (g[p] + SumOver(g, (s \ {p}) \ {y}))
    BY <2>8, <2>9
  <2> QED
    BY <2>2, <2>10, <2>11, <2>12, <2>13, <2>14
<1> QED
  BY <1>0

\* Only the terms matter.
LEMMA SumOfSame ==
  ASSUME NEW S, IsFiniteSet(S), NEW g, NEW h, \A x \in S : g[x] = h[x]
  PROVE  SumOver(g, S) = SumOver(h, S)
<1> DEFINE C == {s \in SUBSET S : SumOver(g, s) # SumOver(h, s)}
<1> SUFFICES ASSUME C # {} PROVE FALSE
  OBVIOUS
<1>1. PICK s \in C : \A x \in s : s \ {x} \notin C
  <2>1. C \subseteq SUBSET S
    OBVIOUS
  <2> HIDE DEF C
  <2> QED
    BY <2>1, MinimalSet
<1>2. IsFiniteSet(s)
  BY FS_Subset
<1>3. s # {}
  BY SumOfNone
<1>4. Pick(s) \in s
  BY <1>3, PickIn
<1>5. /\ SumOver(g, s) = g[Pick(s)] + SumOver(g, s \ {Pick(s)})
      /\ SumOver(h, s) = h[Pick(s)] + SumOver(h, s \ {Pick(s)})
  BY <1>2, <1>3, SumPicks
<1>6. SumOver(g, s \ {Pick(s)}) = SumOver(h, s \ {Pick(s)})
  BY <1>1, <1>4
<1> QED
  BY <1>4, <1>5, <1>6

\* A set and one element more.
LEMMA SumPutsIn ==
  ASSUME NEW S, IsFiniteSet(S), NEW x, x \notin S, NEW g, \A y \in S \cup {x} : g[y] \in Int
  PROVE  SumOver(g, S \cup {x}) = g[x] + SumOver(g, S)
<1>1. IsFiniteSet(S \cup {x}) /\ (S \cup {x}) \ {x} = S
  BY FS_AddElement
<1> QED
  BY <1>1, SumTakesOut

\* One term changes.
LEMMA SumChanges ==
  ASSUME NEW S, IsFiniteSet(S), NEW x \in S, NEW g, NEW h,
         \A y \in S : g[y] \in Int /\ h[y] \in Int,
         \A y \in S \ {x} : g[y] = h[y]
  PROVE  SumOver(h, S) = SumOver(g, S) + (h[x] - g[x])
<1>1. IsFiniteSet(S \ {x})
  BY FS_Subset
<1>2. SumOver(g, S \ {x}) = SumOver(h, S \ {x}) /\ SumOver(g, S \ {x}) \in Int
  BY <1>1, SumOfSame, SumIsInt
<1>3. SumOver(g, S) = g[x] + SumOver(g, S \ {x}) /\ SumOver(h, S) = h[x] + SumOver(h, S \ {x})
  BY SumTakesOut
<1> QED
  BY <1>2, <1>3

\* What is not in T counts for nothing.
LEMMA SumOfPart ==
  ASSUME NEW S, IsFiniteSet(S), NEW g, NEW T \in SUBSET S, \A x \in S : g[x] \in Int
  PROVE  SumOver(g, T) = SumOver([x \in S |-> IF x \in T THEN g[x] ELSE 0], S)
<1> DEFINE h == [x \in S |-> IF x \in T THEN g[x] ELSE 0]
           C == {s \in SUBSET S : SumOver(g, s \cap T) # SumOver(h, s)}
<1>1. C = {}
  <2> SUFFICES ASSUME C # {} PROVE FALSE
    OBVIOUS
  <2>1. PICK s \in C : \A x \in s : s \ {x} \notin C
    <3>1. C \subseteq SUBSET S
      OBVIOUS
    <3> HIDE DEF C
    <3> QED
      BY <3>1, MinimalSet
  <2>2. IsFiniteSet(s) /\ IsFiniteSet(s \cap T)
    BY FS_Subset
  <2>3. s # {}
    <3>1. {} \cap T = {}
      OBVIOUS
    <3> QED
      BY <3>1, SumOfNone
  <2> DEFINE p == Pick(s)
  <2>4. p \in s
    BY <2>3, PickIn
  <2> HIDE DEF p
  <2>5. SumOver(g, (s \ {p}) \cap T) = SumOver(h, s \ {p})
    BY <2>1, <2>4
  <2>6. \A x \in s : h[x] \in Int /\ g[x] \in Int
    OBVIOUS
  <2>h. h[p] = IF p \in T THEN g[p] ELSE 0
    BY <2>4
  <2> HIDE DEF h
  <2>7. SumOver(h, s) = h[p] + SumOver(h, s \ {p})
    BY <2>2, <2>4, <2>6, SumTakesOut
  <2>8. CASE p \in T
    <3>1. SumOver(g, s \cap T) = g[p] + SumOver(g, (s \cap T) \ {p})
      BY <2>2, <2>4, <2>6, <2>8, SumTakesOut
    <3>2. (s \cap T) \ {p} = (s \ {p}) \cap T
      OBVIOUS
    <3> QED
      BY <2>1, <2>5, <2>7, <2>8, <2>h, <3>1, <3>2
  <2>9. CASE p \notin T
    <3>1. s \cap T = (s \ {p}) \cap T
      BY <2>9
    <3>2. SumOver(h, s \ {p}) \in Int
      <4>1. IsFiniteSet(s \ {p})
        BY <2>2, FS_Subset
      <4> QED
        BY <4>1, <2>6, SumIsInt
    <3>3. SumOver(h, s) = SumOver(h, s \ {p})
      BY <2>7, <2>9, <2>h, <3>2
    <3>4. SumOver(g, s \cap T) = SumOver(h, s)
      BY <2>5, <3>1, <3>3
    <3> QED
      BY <3>4
  <2> QED
    BY <2>8, <2>9
<1>2. S \cap T = T
  OBVIOUS
<1> QED
  BY <1>1, <1>2

\* Zeros add up to zero.
LEMMA SumOfZeros ==
  ASSUME NEW S, IsFiniteSet(S), NEW g, \A x \in S : g[x] = 0
  PROVE  SumOver(g, S) = 0
<1> DEFINE C == {s \in SUBSET S : SumOver(g, s) # 0}
<1> SUFFICES ASSUME C # {} PROVE FALSE
  OBVIOUS
<1>1. PICK s \in C : \A x \in s : s \ {x} \notin C
  <2>1. C \subseteq SUBSET S
    OBVIOUS
  <2> HIDE DEF C
  <2> QED
    BY <2>1, MinimalSet
<1>2. IsFiniteSet(s) /\ s # {}
  BY FS_Subset, SumOfNone
<1>3. SumOver(g, s) = g[Pick(s)] + SumOver(g, s \ {Pick(s)}) /\ Pick(s) \in s
  BY <1>2, SumPicks, PickIn
<1>4. SumOver(g, s \ {Pick(s)}) = 0
  BY <1>1, <1>3
<1> QED
  BY <1>3, <1>4

\* The sum of a sum is the sum of the sums.
LEMMA SumAdds ==
  ASSUME NEW S, IsFiniteSet(S), NEW f, NEW g, NEW h,
         \A x \in S : f[x] \in Int /\ g[x] \in Int /\ h[x] = f[x] + g[x]
  PROVE  SumOver(h, S) = SumOver(f, S) + SumOver(g, S)
<1> DEFINE C == {s \in SUBSET S : SumOver(h, s) # SumOver(f, s) + SumOver(g, s)}
<1> SUFFICES ASSUME C # {} PROVE FALSE
  OBVIOUS
<1>1. PICK s \in C : \A x \in s : s \ {x} \notin C
  <2>1. C \subseteq SUBSET S
    OBVIOUS
  <2> HIDE DEF C
  <2> QED
    BY <2>1, MinimalSet
<1>2. IsFiniteSet(s)
  BY FS_Subset
<1>3. s # {}
  <2>1. SumOver(f, {}) = 0 /\ SumOver(g, {}) = 0 /\ SumOver(h, {}) = 0
    BY SumOfNone
  <2>2. SumOver(h, {}) = SumOver(f, {}) + SumOver(g, {})
    BY <2>1
  <2> QED
    BY <2>2
<1> DEFINE p == Pick(s)
<1>4. p \in s
  BY <1>3, PickIn
<1>5. /\ SumOver(f, s) = f[p] + SumOver(f, s \ {p})
      /\ SumOver(g, s) = g[p] + SumOver(g, s \ {p})
      /\ SumOver(h, s) = h[p] + SumOver(h, s \ {p})
  BY <1>2, <1>3, SumPicks
<1> HIDE DEF p
<1>6. SumOver(h, s \ {p}) = SumOver(f, s \ {p}) + SumOver(g, s \ {p})
  BY <1>1, <1>4
<1>7. SumOver(f, s \ {p}) \in Int /\ SumOver(g, s \ {p}) \in Int
  <2>1. IsFiniteSet(s \ {p}) /\ \A x \in s \ {p} : f[x] \in Int /\ g[x] \in Int
    BY <1>2, FS_Subset
  <2> QED
    BY <2>1, SumIsInt
<1>8. f[p] \in Int /\ g[p] \in Int /\ h[p] = f[p] + g[p]
  BY <1>4
<1> QED
  BY <1>1, <1>5, <1>6, <1>7, <1>8

=============================================================================
