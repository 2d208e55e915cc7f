------------------------------ MODULE FoldFacts ------------------------------
(***************************************************************************)
(* Folds over finite sets.  The community modules define a fold by a       *)
(* recursive function over the subsets of the folded set, which takes one  *)
(* element after the other away.  That such a function exists, and what it *)
(* computes, is proved here for any step and any way to pick an element; a *)
(* module that folds instantiates the constants by its own operators.      *)
(***************************************************************************)
EXTENDS Integers, FiniteSetTheorems, WellFoundedInduction, TLAPS

CONSTANTS Step(_, _),   \* the next value, from the value so far and an element
          Base,         \* the value of the empty set
          Pick(_),      \* the element of a set that is folded last
          Holds(_, _)   \* what is to be shown of a set and its value

\* f gives the value of every subset of S.
IsFold(f, S) ==
  f = [s \in SUBSET S |->
         IF s = {} THEN Base ELSE Step(f[s \ {Pick(s)}], Pick(s))]

Picks(S) == \A s \in SUBSET S : s # {} => Pick(s) \in s

-----------------------------------------------------------------------------
\* A set of natural numbers that is not empty has a least one.
LEMMA Least ==
  ASSUME NEW T \in SUBSET Nat, T # {}
  PROVE  \E n \in T : \A m \in T : n <= m
<1> DEFINE R == {ss \in Nat \X Nat : ss[1] < ss[2]}
<1>1. ASSUME NEW x \in Nat, NEW y \in Nat, y < x PROVE <<y, x>> \in R
  <2>1. <<y, x>> \in Nat \X Nat /\ <<y, x>>[1] < <<y, x>>[2]
    BY <1>1
  <2> QED BY <2>1, Zenon
<1>2. IsWellFoundedOn(R, Nat)
  BY NatLessThanWellFounded DEF OpToRel
<1> HIDE DEF R
<1>3. PICK n \in T : \A m \in T : ~(<<m, n>> \in R)
  BY <1>2, WFMin
<1>4. \A m \in T : ~(m < n)
  BY <1>1, <1>3
<1> QED BY <1>4

\* Of finitely many, in an order, there is one that comes before none.
LEMMA LastExists ==
  ASSUME NEW S, IsFiniteSet(S), NEW R,
         \A e, o \in S : <<e, o>> \in R => ~(<<o, e>> \in R),
         \A e, o, u \in S : <<e, o>> \in R /\ <<o, u>> \in R => <<e, u>> \in R
  PROVE  \A s \in SUBSET S : s # {} => \E e \in s : \A o \in s : ~(<<e, o>> \in R)
<1> DEFINE NoneAfter(s, e) == \A o \in s : ~(<<e, o>> \in R)
           T == {Cardinality(s) : s \in {r \in SUBSET S : r # {} /\ ~\E e \in r : NoneAfter(r, e)}}
<1>1. T = {}
  <2> SUFFICES ASSUME T # {} PROVE FALSE
    OBVIOUS
  <2>1. T \in SUBSET Nat
    BY FS_Subset, FS_CardinalityType
  <2> HIDE DEF T
  <2>2. PICK k \in T : \A m \in T : k <= m
    BY <2>1, Least
  <2>3. PICK s \in SUBSET S : s # {} /\ k = Cardinality(s) /\ ~\E e \in s : NoneAfter(s, e)
    BY DEF T
  <2>4. PICK x : x \in s
    BY <2>3
  <2>5. /\ Cardinality(s) \in Nat /\ s \ {x} \in SUBSET S
        /\ Cardinality(s \ {x}) = Cardinality(s) - 1
    <3>1. IsFiniteSet(s)
      BY FS_Subset
    <3> QED BY <2>4, <3>1, FS_CardinalityType, FS_RemoveElement
  <2>6. Cardinality(s \ {x}) \notin T
    BY <2>2, <2>3, <2>5
  <2>7. s \ {x} = {} \/ \E e \in s \ {x} : NoneAfter(s \ {x}, e)
    BY <2>5, <2>6 DEF T
  <2>8. ~NoneAfter(s, x)
    BY <2>3, <2>4
  <2>9. PICK o \in s : <<x, o>> \in R
    BY <2>8
  <2>10. o # x
    BY <2>4, <2>9
  <2>11. PICK e \in s \ {x} : NoneAfter(s \ {x}, e)
    BY <2>7, <2>9, <2>10
  <2>12. <<e, x>> \in R
    BY <2>3, <2>11
  <2> QED BY <2>4, <2>9, <2>10, <2>11, <2>12
<1> SUFFICES ASSUME NEW s \in SUBSET S, s # {} PROVE \E e \in s : NoneAfter(s, e)
  OBVIOUS
<1>2. Cardinality(s) \notin T
  BY <1>1
<1> QED BY <1>2

\* One element fewer.
LEMMA Fewer ==
  ASSUME NEW S, IsFiniteSet(S), NEW s \in SUBSET S, NEW x \in s
  PROVE  /\ Cardinality(s) \in Nat /\ Cardinality(s) > 0
         /\ s \ {x} \in SUBSET S /\ Cardinality(s \ {x}) = Cardinality(s) - 1
<1>1. IsFiniteSet(s)
  BY FS_Subset
<1>2. Cardinality(s) \in Nat /\ Cardinality(s) # 0
  BY <1>1, FS_CardinalityType, FS_EmptySet
<1>3. Cardinality(s \ {x}) = Cardinality(s) - 1
  BY <1>1, FS_RemoveElement
<1> QED BY <1>2, <1>3

-----------------------------------------------------------------------------
(* A fold of S up to the subsets of n elements.                            *)

Small(S, n) == {s \in SUBSET S : Cardinality(s) <= n}
FoldUpTo(f, S, n) ==
  f = [s \in Small(S, n) |-> IF s = {} THEN Base ELSE Step(f[s \ {Pick(s)}], Pick(s))]

LEMMA OneMore ==
  ASSUME NEW S, IsFiniteSet(S), Picks(S), NEW n \in Nat, NEW f, FoldUpTo(f, S, n)
  PROVE  \E g : FoldUpTo(g, S, n + 1)
<1> DEFINE Value(s) == IF s = {} THEN Base ELSE Step(f[s \ {Pick(s)}], Pick(s))
           g == [s \in Small(S, n + 1) |-> Value(s)]
<1>1. ASSUME NEW s \in Small(S, n + 1), s # {}
      PROVE  g[s \ {Pick(s)}] = f[s \ {Pick(s)}]
  <2> DEFINE r == s \ {Pick(s)}
  <2>1. s \in SUBSET S /\ Pick(s) \in s /\ Cardinality(s) <= n + 1
    BY <1>1 DEF Small, Picks
  <2>2. r \in SUBSET S /\ Cardinality(r) <= n /\ Cardinality(r) <= n + 1
    BY <2>1, Fewer
  <2>3. r \in Small(S, n) /\ r \in Small(S, n + 1)
    BY <2>2 DEF Small
  <2>4. f[r] = Value(r)
    BY <2>3 DEF FoldUpTo
  <2> HIDE DEF r, Value
  <2>5. g[r] = Value(r)
    BY <2>3
  <2> QED BY <2>4, <2>5 DEF r
<1>2. \A s \in Small(S, n + 1) :
        Value(s) = IF s = {} THEN Base ELSE Step(g[s \ {Pick(s)}], Pick(s))
  BY <1>1
<1>3. g = [s \in Small(S, n + 1) |->
             IF s = {} THEN Base ELSE Step(g[s \ {Pick(s)}], Pick(s))]
  <2> HIDE DEF Value
  <2> QED BY <1>2
<1> QED BY <1>3 DEF FoldUpTo

LEMMA UpToAny ==
  ASSUME NEW S, IsFiniteSet(S), Picks(S), NEW n \in Nat
  PROVE  \E f : FoldUpTo(f, S, n)
<1> DEFINE T == {k \in Nat : ~\E f : FoldUpTo(f, S, k)}
<1>1. CASE T = {}
  BY <1>1
<1>2. CASE T # {}
  <2>1. T \in SUBSET Nat
    OBVIOUS
  <2> HIDE DEF T
  <2>2. PICK k \in T : \A m \in T : k <= m
    BY <1>2, <2>1, Least
  <2>3. k \in Nat /\ ~\E f : FoldUpTo(f, S, k)
    BY DEF T
  <2>4. CASE k = 0
    <3> DEFINE f == [s \in Small(S, 0) |-> Base]
    <3>1. ASSUME NEW s \in Small(S, 0) PROVE s = {}
      <4>1. s \in SUBSET S /\ IsFiniteSet(s) /\ Cardinality(s) <= 0
        BY FS_Subset DEF Small
      <4> QED BY <4>1, FS_EmptySet, FS_CardinalityType
    <3>2. FoldUpTo(f, S, 0)
      BY <3>1 DEF FoldUpTo
    <3> QED BY <2>3, <2>4, <3>2
  <2>5. CASE k # 0
    <3>1. k - 1 \in Nat /\ k - 1 \notin T
      BY <2>2, <2>3, <2>5
    <3>2. PICK f : FoldUpTo(f, S, k - 1)
      BY <3>1 DEF T
    <3>3. \E g : FoldUpTo(g, S, k - 1 + 1)
      BY <3>1, <3>2, OneMore
    <3> QED BY <2>3, <3>3
  <2> QED BY <2>4, <2>5
<1> QED BY <1>1, <1>2

\* The recursion defines a function: CHOOSE f : IsFold(f, S) is a fold.
THEOREM FoldExists ==
  ASSUME NEW S, IsFiniteSet(S), Picks(S)
  PROVE  \E f : IsFold(f, S)
<1>1. PICK f : FoldUpTo(f, S, Cardinality(S))
  BY UpToAny, FS_CardinalityType
<1>2. Small(S, Cardinality(S)) = SUBSET S
  BY FS_Subset DEF Small
<1> QED BY <1>1, <1>2 DEF FoldUpTo, IsFold

\* What holds of the empty set and survives a step holds of every fold.
THEOREM FoldInduction ==
  ASSUME NEW S, IsFiniteSet(S), Picks(S), NEW f, IsFold(f, S),
         Holds({}, Base),
         \A s \in SUBSET S : \A v :
           s # {} /\ Holds(s \ {Pick(s)}, v) => Holds(s, Step(v, Pick(s)))
  PROVE  \A s \in SUBSET S : Holds(s, f[s])
<1> DEFINE T == {Cardinality(s) : s \in {r \in SUBSET S : ~Holds(r, f[r])}}
<1>1. CASE T = {}
  BY <1>1
<1>2. CASE T # {}
  <2>1. T \in SUBSET Nat
    BY FS_Subset, FS_CardinalityType
  <2> HIDE DEF T
  <2>2. PICK k \in T : \A m \in T : k <= m
    BY <1>2, <2>1, Least
  <2>3. PICK s \in SUBSET S : ~Holds(s, f[s]) /\ k = Cardinality(s)
    BY DEF T
  <2>4. s # {}
    BY <2>3 DEF IsFold
  <2>5. Pick(s) \in s /\ f[s] = Step(f[s \ {Pick(s)}], Pick(s))
    BY <2>4 DEF IsFold, Picks
  <2>6. /\ s \ {Pick(s)} \in SUBSET S
        /\ Cardinality(s) \in Nat /\ Cardinality(s \ {Pick(s)}) = Cardinality(s) - 1
    BY <2>5, Fewer
  <2>7. Holds(s \ {Pick(s)}, f[s \ {Pick(s)}])
    <3>1. Cardinality(s \ {Pick(s)}) \notin T
      BY <2>2, <2>3, <2>6
    <3> QED BY <3>1, <2>6 DEF T
  <2> QED BY <2>3, <2>4, <2>5, <2>7
<1> QED BY <1>1, <1>2

\* Two folds agree on the sets they both fold.
THEOREM FoldsAgree ==
  ASSUME NEW S, IsFiniteSet(S), Picks(S), NEW U, S \subseteq U, NEW f, IsFold(f, S),
         NEW g, IsFold(g, U)
  PROVE  \A s \in SUBSET S : f[s] = g[s]
<1> DEFINE T == {Cardinality(s) : s \in {r \in SUBSET S : f[r] # g[r]}}
<1>1. CASE T = {}
  BY <1>1
<1>2. CASE T # {}
  <2>1. T \in SUBSET Nat
    BY FS_Subset, FS_CardinalityType
  <2> HIDE DEF T
  <2>2. PICK k \in T : \A m \in T : k <= m
    BY <1>2, <2>1, Least
  <2>3. PICK s \in SUBSET S : f[s] # g[s] /\ k = Cardinality(s)
    BY DEF T
  <2>4. s # {}
    BY <2>3 DEF IsFold
  <2>5. Pick(s) \in s /\ f[s] = Step(f[s \ {Pick(s)}], Pick(s)) /\ g[s] = Step(g[s \ {Pick(s)}], Pick(s))
    BY <2>4 DEF IsFold, Picks
  <2>6. /\ s \ {Pick(s)} \in SUBSET S
        /\ Cardinality(s) \in Nat /\ Cardinality(s \ {Pick(s)}) = Cardinality(s) - 1
    BY <2>5, Fewer
  <2>7. f[s \ {Pick(s)}] = g[s \ {Pick(s)}]
    <3>1. Cardinality(s \ {Pick(s)}) \notin T
      BY <2>2, <2>3, <2>6
    <3> QED BY <3>1, <2>6 DEF T
  <2> QED BY <2>3, <2>5, <2>7
<1> QED BY <1>1, <1>2

\* Where the order of two steps does not matter, any element may be taken last.
THEOREM FoldAnyLast ==
  ASSUME NEW S, IsFiniteSet(S), Picks(S), NEW f, IsFold(f, S),
         NEW V, Base \in V,
         \A v \in V, x \in S : Step(v, x) \in V,
         \A v \in V, x, y \in S : Step(Step(v, x), y) = Step(Step(v, y), x)
  PROVE  \A s \in SUBSET S : /\ f[s] \in V
                            /\ \A x \in s : f[s] = Step(f[s \ {x}], x)
<1> DEFINE Good(s) == f[s] \in V /\ \A x \in s : f[s] = Step(f[s \ {x}], x)
           T == {Cardinality(s) : s \in {r \in SUBSET S : ~Good(r)}}
<1>1. CASE T = {}
  BY <1>1
<1>2. CASE T # {}
  <2>1. T \in SUBSET Nat
    BY FS_Subset, FS_CardinalityType
  <2> HIDE DEF T
  <2>2. PICK k \in T : \A m \in T : k <= m
    BY <1>2, <2>1, Least
  <2>3. PICK s \in SUBSET S : ~Good(s) /\ k = Cardinality(s)
    BY DEF T
  <2>4. ASSUME NEW r \in SUBSET S, Cardinality(r) \in Nat, Cardinality(r) < Cardinality(s)
        PROVE  Good(r)
    <3>1. Cardinality(r) \notin T
      <4>1. k \in Nat
        BY <2>1
      <4> QED BY <2>2, <2>3, <2>4, <4>1
    <3> HIDE DEF Good
    <3> QED BY <3>1 DEF T
  <2>5. s # {}
    <3>1. f[{}] = Base
      BY DEF IsFold
    <3> QED BY <2>3, <3>1
  <2> DEFINE p == Pick(s)
  <2>6. p \in s /\ f[s] = Step(f[s \ {p}], p)
    BY <2>5 DEF IsFold, Picks
  <2> HIDE DEF p, Good
  <2>7. \A x \in s : s \ {x} \in SUBSET S /\ Good(s \ {x})
    <3> SUFFICES ASSUME NEW x \in s PROVE s \ {x} \in SUBSET S /\ Good(s \ {x})
      OBVIOUS
    <3>1. /\ s \ {x} \in SUBSET S /\ Cardinality(s) \in Nat
          /\ Cardinality(s \ {x}) = Cardinality(s) - 1 /\ Cardinality(s) > 0
      BY Fewer
    <3> QED BY <2>4, <3>1
  <2>8. f[s] \in V
    BY <2>6, <2>7 DEF Good
  <2>9. ASSUME NEW x \in s PROVE f[s] = Step(f[s \ {x}], x)
    <3>1. CASE x = p
      BY <2>6, <3>1
    <3>2. CASE x # p
      <4> DEFINE r == (s \ {p}) \ {x}
      <4>1. r = (s \ {x}) \ {p} /\ x \in s \ {p} /\ p \in s \ {x}
        BY <2>6, <3>2
      <4> HIDE DEF r
      <4>2. f[s \ {p}] = Step(f[r], x) /\ f[s \ {x}] = Step(f[r], p)
        BY <2>6, <2>7, <4>1 DEF Good, r
      <4>3. f[r] \in V
        <5>1. r \in SUBSET S /\ Cardinality(r) \in Nat /\ Cardinality(r) < Cardinality(s)
          <6>1. Cardinality(s \ {p}) = Cardinality(s) - 1 /\ Cardinality(s) \in Nat /\ s \ {p} \in SUBSET S
            BY <2>6, Fewer
          <6>2. /\ (s \ {p}) \ {x} \in SUBSET S
                /\ Cardinality((s \ {p}) \ {x}) = Cardinality(s \ {p}) - 1
                /\ Cardinality(s \ {p}) > 0
            BY <4>1, <6>1, Fewer
          <6> QED BY <6>1, <6>2 DEF r
        <5> QED BY <2>4, <5>1 DEF Good
      <4> QED BY <2>6, <4>2, <4>3
    <3> QED BY <3>1, <3>2
  <2> QED BY <2>3, <2>8, <2>9 DEF Good
<1> QED BY <1>1, <1>2
=============================================================================
