---------------------------- MODULE IdentityProofs ----------------------------
(***************************************************************************)
(* The identity of events, for any set of candidates, any citations and    *)
(* rulings, and any number of editions.                                    *)
(*                                                                         *)
(* A pass joins candidates in a union-find: first what the ledger binds    *)
(* (PinsHold), then along the relations (JoinsHold).  Two candidates end   *)
(* with one name exactly when no set that the relations stay within        *)
(* separates them.  That a newcomer never names an event that has a name   *)
(* rests on the order of establishment: the bound ids come first in it     *)
(* (BoundFirst), so of two events of which one is bound, a bound one names *)
(* the joint event.                                                        *)
(*                                                                         *)
(* Across passes it rests on the ledger: it keeps the relations of the     *)
(* pass before, so what was together stays linked, and it binds every      *)
(* candidate to an id the candidate's event has gone by (LedgerTells).     *)
(***************************************************************************)
EXTENDS Identity, FiniteSetTheorems, SequenceTheorems, TLAPS

-----------------------------------------------------------------------------
\* What a union-find may be: roots are their own roots, what an event is called by
\* is one of its members, and every name that was established is in the order.
Forest(u) ==
  /\ u = [root |-> u.root, canon |-> u.canon, order |-> u.order]
  /\ u.root \in [CandidateIds -> CandidateIds] /\ u.order \in Seq(CandidateIds)
  /\ \A c \in CandidateIds : /\ u.root[u.root[c]] = u.root[c]
                             /\ Id(u, c) \in CandidateIds /\ u.root[Id(u, c)] = u.root[c]
                             /\ Has(u, c) => Id(u, c) \in ToSet(u.order)

\* Two events become one, which goes by id.
Merged(u, from, to, id) == Established(Joined(u, from, to), to, id)
Touched(u, from, to, c) == u.root[c] \in {from, to}

\* A sequence with one more element.
LEMMA SetOfAppended ==
  ASSUME NEW T, NEW l \in Seq(T), NEW e \in T
  PROVE  Append(l, e) \in Seq(T) /\ ToSet(Append(l, e)) = ToSet(l) \cup {e}
<1>1. Append(l, e) \in Seq(T) /\ Len(Append(l, e)) = Len(l) + 1 /\ Len(l) \in Nat
  OBVIOUS
<1>2. \A i \in 1..Len(l) : Append(l, e)[i] = l[i]
  OBVIOUS
<1>3. Append(l, e)[Len(l) + 1] = e
  OBVIOUS
<1>4. DOMAIN l = 1..Len(l) /\ DOMAIN Append(l, e) = 1..(Len(l) + 1)
  BY <1>1
<1>5. ToSet(l) = {l[i] : i \in 1..Len(l)}
  BY <1>4 DEF ToSet
<1>6. ToSet(Append(l, e)) = {Append(l, e)[i] : i \in 1..(Len(l) + 1)}
  BY <1>4 DEF ToSet
<1>7. 1..(Len(l) + 1) = 1..Len(l) \cup {Len(l) + 1}
  BY <1>1
<1> QED BY <1>1, <1>2, <1>3, <1>5, <1>6, <1>7

\* Joining two events and establishing the id of a member (engine.py): the members of the
\* two go by that id, everybody else by what they went by, and only that id is new.
LEMMA MergeFacts ==
  ASSUME NEW u, Forest(u), NEW from \in CandidateIds, NEW to \in CandidateIds, NEW id \in CandidateIds,
         u.root[from] = from, u.root[to] = to, u.root[id] \in {from, to}
  PROVE  LET v == Merged(u, from, to, id) IN
         /\ Forest(v)
         /\ \A c \in CandidateIds :
              /\ v.root[c] = IF Touched(u, from, to, c) THEN to ELSE u.root[c]
              /\ Touched(u, from, to, c) => Has(v, c) /\ Id(v, c) = id
              /\ ~Touched(u, from, to, c) => (Has(v, c) <=> Has(u, c)) /\ Id(v, c) = Id(u, c)
         /\ v.order = IF id \in ToSet(u.order) THEN u.order ELSE Append(u.order, id)
<1> DEFINE root == [c \in CandidateIds |-> IF u.root[c] = from THEN to ELSE u.root[c]]
           canon == Over([r \in {to} |-> id], u.canon)
           order == IF id \in ToSet(u.order) THEN u.order ELSE Append(u.order, id)
           v == Merged(u, from, to, id)
<1>1. v = [root |-> root, canon |-> canon, order |-> order]
  <2>1. u = [root |-> u.root, canon |-> u.canon, order |-> u.order]
    BY DEF Forest
  <2>2. Joined(u, from, to) = [root |-> root, canon |-> u.canon, order |-> u.order]
    BY <2>1 DEF Joined
  <2>3. Joined(u, from, to).canon = u.canon /\ Joined(u, from, to).order = u.order
    BY <2>2
  <2>4. Established(Joined(u, from, to), to, id)
          = [Joined(u, from, to) EXCEPT !.canon = canon, !.order = order]
    BY <2>3 DEF Established
  <2> HIDE DEF root, canon, order
  <2>5. [[root |-> root, canon |-> u.canon, order |-> u.order] EXCEPT !.canon = canon, !.order = order]
          = [root |-> root, canon |-> canon, order |-> order]
    <3>1. [[root |-> root, canon |-> u.canon, order |-> u.order] EXCEPT !.canon = canon]
            = [root |-> root, canon |-> canon, order |-> u.order]
      OBVIOUS
    <3>2. [[root |-> root, canon |-> canon, order |-> u.order] EXCEPT !.order = order]
            = [root |-> root, canon |-> canon, order |-> order]
      OBVIOUS
    <3> QED BY <3>1, <3>2
  <2> QED BY <2>2, <2>4, <2>5 DEF Merged
<1>2. u.root \in [CandidateIds -> CandidateIds]
  BY DEF Forest
<1>3. /\ DOMAIN canon = {to} \cup DOMAIN u.canon /\ canon[to] = id
      /\ \A r \in DOMAIN u.canon \ {to} : canon[r] = u.canon[r]
  BY DEF Over
<1> HIDE DEF canon
<1>4. v.root = root /\ v.canon = canon /\ v.order = order
  BY <1>1
<1> HIDE DEF v
<1>5. \A c \in CandidateIds : v.root[c] = IF Touched(u, from, to, c) THEN to ELSE u.root[c]
  BY <1>2, <1>4 DEF Touched
<1>6. root \in [CandidateIds -> CandidateIds]
  BY <1>2
<1> HIDE DEF root
<1>7. ASSUME NEW c \in CandidateIds, Touched(u, from, to, c)
      PROVE  Has(v, c) /\ Id(v, c) = id
  BY <1>3, <1>4, <1>5, <1>7 DEF Has, Id
<1>8. ASSUME NEW c \in CandidateIds, ~Touched(u, from, to, c)
      PROVE  (Has(v, c) <=> Has(u, c)) /\ Id(v, c) = Id(u, c)
  <2>1. v.root[c] = u.root[c] /\ u.root[c] # to
    BY <1>5, <1>8 DEF Touched
  <2> QED BY <2>1, <1>3, <1>4 DEF Has, Id
<1>9. order \in Seq(CandidateIds) /\ ToSet(order) = ToSet(u.order) \cup {id}
  <2>1. u.order \in Seq(CandidateIds)
    BY DEF Forest
  <2>2. Append(u.order, id) \in Seq(CandidateIds) /\ ToSet(Append(u.order, id)) = ToSet(u.order) \cup {id}
    BY <2>1, SetOfAppended
  <2> QED BY <2>1, <2>2
<1> HIDE DEF order
<1>10. ASSUME NEW c \in CandidateIds
       PROVE  /\ v.root[v.root[c]] = v.root[c]
              /\ Id(v, c) \in CandidateIds /\ v.root[Id(v, c)] = v.root[c]
              /\ Has(v, c) => Id(v, c) \in ToSet(v.order)
  <2>1. /\ u.root[u.root[c]] = u.root[c] /\ u.root[c] \in CandidateIds
        /\ Id(u, c) \in CandidateIds /\ u.root[Id(u, c)] = u.root[c]
        /\ Has(u, c) => Id(u, c) \in ToSet(u.order)
    BY <1>2 DEF Forest
  <2>2. CASE Touched(u, from, to, c)
    <3>1. v.root[c] = to /\ v.root[to] = to
      BY <1>5, <2>2 DEF Touched
    <3>2. v.root[id] = to
      BY <1>5 DEF Touched
    <3> QED BY <1>7, <2>2, <3>1, <3>2, <1>4, <1>9
  <2>3. CASE ~Touched(u, from, to, c)
    <3>1. v.root[c] = u.root[c]
      BY <1>5, <2>3
    <3>2. ~Touched(u, from, to, u.root[c]) /\ ~Touched(u, from, to, Id(u, c))
      BY <2>1, <2>3 DEF Touched
    <3>3. v.root[u.root[c]] = u.root[c] /\ v.root[Id(u, c)] = u.root[c]
      BY <1>5, <2>1, <3>2
    <3> QED BY <1>8, <2>1, <2>3, <3>1, <3>3, <1>4, <1>9
  <2> QED BY <2>2, <2>3
<1>11. Forest(v)
  <2>1. v = [root |-> v.root, canon |-> v.canon, order |-> v.order]
    BY <1>1, <1>4
  <2> QED BY <2>1, <1>4, <1>6, <1>9, <1>10 DEF Forest
<1> QED BY <1>4, <1>5, <1>7, <1>8, <1>11 DEF v, order

-----------------------------------------------------------------------------
(* The relations a pass works with.                                        *)

\* What is in hand of the state: types, where sets of them are finite.
IdTyped ==
  /\ byLedger \in BOOLEAN /\ editions \in 0..MaxEditions
  /\ DOMAIN corpus \subseteq CandidateIds /\ \A c \in DOMAIN corpus : corpus[c].cites \in Citations
  /\ rulings \in Seq(Rulings)
  /\ seed.relations \in Seq(Ties) /\ basis.relations \in Seq(Ties)
  /\ DOMAIN seed.bindings \subseteq DOMAIN corpus
  /\ \A c \in DOMAIN seed.bindings : seed.bindings[c] \in CandidateIds
  /\ DOMAIN named = DOMAIN generation /\ DOMAIN named \subseteq DOMAIN corpus
  /\ \A c \in DOMAIN named : named[c] \in CandidateIds /\ generation[c] \in 0..Cardinality(CandidateIds)

NoteLink(l, p) == Noted(l, LinkAt(p))
NoteFiled(l, i) == Noted(l, Filed[i])
Grown(s, l) == l \in Seq(Ties) /\ ToSet(Start.relations) \subseteq ToSet(l)
Listing == INSTANCE FoldFacts WITH
  Step <- NoteLink, Base <- Start.relations, Pick <- LastPlace, Holds <- Grown
Noting == INSTANCE FoldFacts WITH
  Step <- NoteFiled, Base <- Linked, Pick <- Max, Holds <- Grown

\* append() of the ledger adds a relation at most (ledger.py).
LEMMA NotedFacts ==
  ASSUME NEW l \in Seq(Ties), NEW r \in Ties
  PROVE  Noted(l, r) \in Seq(Ties) /\ ToSet(Noted(l, r)) = ToSet(l) \cup {r}
BY SetOfAppended DEF Noted

\* What a pass starts from.
LEMMA StartTyped ==
  ASSUME IdTyped, IdentityAssumption
  PROVE  /\ Start.relations \in Seq(Ties) /\ Filed \in Seq(Ties)
         /\ DOMAIN Start.bindings \subseteq CandidateIds
         /\ \A c \in DOMAIN Start.bindings : Start.bindings[c] \in CandidateIds
<1>1. <<>> \in Seq(Ties) /\ DOMAIN <<>> = {}
  OBVIOUS
<1>2. Rulings \subseteq Ties
  BY DEF IdentityAssumption
<1>3. rulings \in Seq(Ties)
  BY <1>2 DEF IdTyped
<1>4. NoLedger.relations = <<>> /\ NoLedger.bindings = <<>>
  BY DEF NoLedger
<1>5. CASE byLedger
  BY <1>3, <1>5 DEF IdTyped, Start, Filed
<1>6. CASE ~byLedger
  BY <1>1, <1>4, <1>6 DEF Start, Filed
<1> QED BY <1>5, <1>6 DEF IdTyped

\* The documents hold finitely many links, all between candidates.
LEMMA LinksTyped ==
  ASSUME IdTyped, IdentityAssumption
  PROVE  /\ IsFiniteSet(Linking) /\ Linking \subseteq Nat \X Nat
         /\ \A p \in Linking : LinkAt(p) \in Ties
<1>1. DocumentOrder \in Seq(CandidateIds)
  BY DEF IdentityAssumption
<1>2. IsFiniteSet(Parsed) /\ Parsed \subseteq Nat /\ \A i \in Parsed : DocumentOrder[i] \in DOMAIN corpus
  <2>1. Len(DocumentOrder) \in Nat /\ DOMAIN DocumentOrder = 1..Len(DocumentOrder)
    BY <1>1
  <2>2. Parsed \subseteq 1..Len(DocumentOrder)
    BY <2>1 DEF Parsed
  <2>3. IsFiniteSet(1..Len(DocumentOrder))
    BY <2>1, FS_Interval
  <2> QED BY <2>1, <2>2, <2>3, FS_Subset DEF Parsed
<1> DEFINE Of(i) == {i} \X DOMAIN corpus[DocumentOrder[i]].cites
<1>3. ASSUME NEW i \in Parsed PROVE IsFiniteSet(Of(i)) /\ Of(i) \subseteq Nat \X Nat
  <2> DEFINE cites == corpus[DocumentOrder[i]].cites
  <2>1. cites \in Seq([rel : Links \cup {"OTHER"}, target : CandidateIds, sourced : BOOLEAN])
    BY <1>2 DEF IdTyped, IdentityAssumption
  <2>2. Len(cites) \in Nat /\ DOMAIN cites = 1..Len(cites)
    BY <2>1
  <2> HIDE DEF cites
  <2>3. IsFiniteSet(DOMAIN cites) /\ DOMAIN cites \subseteq Nat
    BY <2>2, FS_Interval
  <2>4. IsFiniteSet({i}) /\ i \in Nat
    BY <1>2, FS_Singleton
  <2>5. IsFiniteSet({i} \X DOMAIN cites) /\ {i} \X DOMAIN cites \subseteq Nat \X Nat
    BY <2>3, <2>4, FS_Product
  <2> QED BY <2>5 DEF cites
<1>4. IsFiniteSet(Citing) /\ Citing \subseteq Nat \X Nat
  <2> HIDE DEF Of
  <2> DEFINE sets == {Of(i) : i \in Parsed}
  <2>1. IsFiniteSet(sets)
    <3> DEFINE f == [i \in Parsed |-> Of(i)]
    <3>1. f \in Surjection(Parsed, sets)
      BY DEF Surjection
    <3> QED BY <1>2, <3>1, FS_Surjection
  <2>2. IsFiniteSet(UNION sets) /\ UNION sets \subseteq Nat \X Nat
    BY <1>3, <2>1, FS_UNION
  <2> QED BY <2>2 DEF Citing, Of
<1>5. IsFiniteSet(Linking) /\ Linking \subseteq Citing
  BY <1>4, FS_Subset DEF Linking
<1>6. ASSUME NEW p \in Linking PROVE LinkAt(p) \in Ties
  <2>1. p \in Citing /\ Cited(p).target \in DOMAIN corpus
    BY DEF Linking
  <2>2. PICK i \in Parsed : p \in {i} \X DOMAIN corpus[DocumentOrder[i]].cites
    BY <2>1 DEF Citing
  <2>3. p[1] = i
    BY <2>2
  <2>4. DocumentOrder[p[1]] \in CandidateIds /\ Cited(p).target \in CandidateIds
    BY <1>2, <2>1, <2>3 DEF IdTyped
  <2>5. ASSUME NEW c \in CandidateIds, NEW d \in CandidateIds PROVE Same(c, d) \in Ties
    BY DEF Same, Ties, Adjudicable
  <2> QED BY <2>4, <2>5 DEF LinkAt
<1> QED BY <1>4, <1>5, <1>6

\* Adding the links of the documents loses no relation of the ledger.
LEMMA LinkedGrown ==
  ASSUME IdTyped, IdentityAssumption
  PROVE  Grown(Linking, Linked)
<1> DEFINE S == Linking
           E(f) == f = [s \in SUBSET S |->
                          IF s = {} THEN Start.relations
                          ELSE Noted(f[s \ {LastPlace(s)}], LinkAt(LastPlace(s)))]
<1>1. Linked = (CHOOSE f : E(f))[S]
  BY DEF Linked, MapThenFoldSet
<1>2. Listing!IsFiniteSet(S) /\ Listing!Picks(S)
  <2>1. IsFiniteSet(S) /\ S \subseteq Nat \X Nat
    BY LinksTyped
  <2> HIDE DEF S
  <2>2. Listing!IsFiniteSet(S)
    BY <2>1 DEF IsFiniteSet, Listing!IsFiniteSet
  <2> DEFINE R == {pq \in S \X S : Precedes(pq[1], pq[2])}
  <2>3. \A p, q \in S : <<p, q>> \in R <=> Precedes(p, q)
    OBVIOUS
  <2>4. \A p, q \in S : <<p, q>> \in R => ~(<<q, p>> \in R)
    BY <2>1, <2>3 DEF Precedes
  <2>5. \A p, q, r \in S : <<p, q>> \in R /\ <<q, r>> \in R => <<p, r>> \in R
    BY <2>1, <2>3 DEF Precedes
  <2> HIDE DEF R
  <2>6. \A s \in SUBSET S : s # {} => \E p \in s : \A q \in s : ~(<<p, q>> \in R)
    BY <2>2, <2>4, <2>5, Listing!LastExists
  <2>7. \A s \in SUBSET S : s # {} => \E p \in s : \A q \in s : ~Precedes(p, q)
    BY <2>3, <2>6
  <2>8. \A s \in SUBSET S : s # {} => LastPlace(s) \in s
    BY <2>7 DEF LastPlace
  <2> QED BY <2>2, <2>8 DEF Listing!Picks
<1>3. PICK g : Listing!IsFold(g, S)
  BY <1>2, Listing!FoldExists
<1>4. \A f : E(f) <=> Listing!IsFold(f, S)
  BY Zenon DEF Listing!IsFold, NoteLink
<1> DEFINE f == CHOOSE h : E(h)
<1> HIDE DEF E
<1>5. Listing!IsFold(f, S)
  BY <1>3, <1>4
<1>6. Grown({}, Start.relations)
  BY StartTyped DEF Grown
<1>7. ASSUME NEW s \in SUBSET S, NEW l, s # {}, Grown(s \ {LastPlace(s)}, l)
      PROVE  Grown(s, NoteLink(l, LastPlace(s)))
  <2>1. LastPlace(s) \in S
    BY <1>2, <1>7 DEF Listing!Picks
  <2>2. LinkAt(LastPlace(s)) \in Ties
    BY <2>1, LinksTyped
  <2> QED BY <1>7, <2>2, NotedFacts DEF Grown, NoteLink
<1> HIDE DEF S, f
<1>8. \A s \in SUBSET S : Grown(s, f[s])
  BY <1>2, <1>5, <1>6, <1>7, Listing!FoldInduction
<1>9. Grown(S, f[S])
  BY <1>8
<1> QED BY <1>1, <1>9 DEF S, f

\* Of finitely many numbers there is a greatest one.
LEMMA GreatestIn ==
  ASSUME NEW S \in SUBSET Nat, IsFiniteSet(S)
  PROVE  \A s \in SUBSET S : s # {} => Max(s) \in s
<1> DEFINE R == {mn \in S \X S : mn[1] < mn[2]}
<1>1. \A m, n \in S : <<m, n>> \in R <=> m < n
  OBVIOUS
<1>2. \A m, n \in S : <<m, n>> \in R => ~(<<n, m>> \in R)
  BY <1>1
<1>3. \A m, n, k \in S : <<m, n>> \in R /\ <<n, k>> \in R => <<m, k>> \in R
  BY <1>1
<1> HIDE DEF R
<1>4. \A s \in SUBSET S : s # {} => \E m \in s : \A n \in s : ~(<<m, n>> \in R)
  <2>1. Noting!IsFiniteSet(S)
    BY DEF IsFiniteSet, Noting!IsFiniteSet
  <2> QED BY <2>1, <1>2, <1>3, Noting!LastExists
<1>5. ASSUME NEW s \in SUBSET S, s # {} PROVE Max(s) \in s
  <2>1. PICK m \in s : \A n \in s : ~(<<m, n>> \in R)
    BY <1>4, <1>5
  <2>2. \A n \in s : m \in Nat /\ n \in Nat /\ ~(m < n)
    BY <1>1, <2>1
  <2>3. \A n \in s : m >= n
    BY <2>2
  <2> QED BY <2>3 DEF Max
<1> QED BY <1>5

\* The places of a sequence, as the folds take them.
LEMMA PlacesPicked ==
  ASSUME NEW T, NEW q \in Seq(T)
  PROVE  /\ IsFiniteSet(DOMAIN q) /\ DOMAIN q \subseteq Nat
         /\ \A s \in SUBSET DOMAIN q : s # {} => Max(s) \in s
<1>1. Len(q) \in Nat /\ DOMAIN q = 1..Len(q)
  OBVIOUS
<1>2. IsFiniteSet(DOMAIN q) /\ DOMAIN q \in SUBSET Nat
  BY <1>1, FS_Interval
<1> HIDE DEF Max
<1> QED BY <1>2, GreatestIn

\* The relations of a pass are those of the ledger and more (pipeline.py).
LEMMA RelationsGrown ==
  ASSUME IdTyped, IdentityAssumption
  PROVE  Relations \in Seq(Ties) /\ ToSet(Start.relations) \subseteq ToSet(Relations)
<1> DEFINE S == DOMAIN Filed
           E(f) == f = [s \in SUBSET S |->
                          IF s = {} THEN Linked ELSE Noted(f[s \ {Max(s)}], Filed[Max(s)])]
<1>1. Relations = (CHOOSE f : E(f))[S]
  BY DEF Relations, FoldLeft, MapThenFoldSet
<1>2. Filed \in Seq(Ties)
  BY StartTyped
<1>3. Noting!IsFiniteSet(S) /\ Noting!Picks(S)
  BY <1>2, PlacesPicked DEF IsFiniteSet, Noting!IsFiniteSet, Noting!Picks
<1>4. PICK g : Noting!IsFold(g, S)
  BY <1>3, Noting!FoldExists
<1>5. \A f : E(f) <=> Noting!IsFold(f, S)
  BY Zenon DEF Noting!IsFold, NoteFiled
<1> DEFINE f == CHOOSE h : E(h)
<1> HIDE DEF E
<1>6. Noting!IsFold(f, S)
  BY <1>4, <1>5
<1>7. Grown({}, Linked)
  BY LinkedGrown DEF Grown
<1>8. ASSUME NEW s \in SUBSET S, NEW l, s # {}, Grown(s \ {Max(s)}, l)
      PROVE  Grown(s, NoteFiled(l, Max(s)))
  <2>1. Max(s) \in S
    BY <1>3, <1>8 DEF Noting!Picks
  <2>2. Filed[Max(s)] \in Ties
    BY <1>2, <2>1, ElementOfSeq
  <2> QED BY <1>8, <2>2, NotedFacts DEF Grown, NoteFiled
<1> HIDE DEF S, f
<1>9. \A s \in SUBSET S : Grown(s, f[s])
  BY <1>3, <1>6, <1>7, <1>8, Noting!FoldInduction
<1>10. Grown(S, f[S])
  BY <1>9
<1> QED BY <1>1, <1>10 DEF S, f, Grown

-----------------------------------------------------------------------------
(* The union-find, first over the bindings, then over the relations.       *)

\* No set the relations stay within separates c from d.
Within(S) == \A r \in ToSet(Relations) : r.rel = "SAME" => (r.a \in S <=> r.b \in S)
LinkedTo(c, d) == \A S \in SUBSET CandidateIds : Within(S) => (c \in S <=> d \in S)
\* Only linked candidates share a root.
OnlyRelated(u) == \A c, d \in CandidateIds : u.root[c] = u.root[d] => LinkedTo(c, d)

\* What the pass starts bound to, and the ids of the candidates in s.
Bindings == Start.bindings
BoundIds(s) == {Bindings[d] : d \in s}
\* Each candidate in s is in the event its binding names, which goes by a bound id.
KeepsBindings(s, u) ==
  \A c \in s : Has(u, c) /\ u.root[Bindings[c]] = u.root[c] /\ Id(u, c) \in BoundIds(s)
\* The ids that are bound were established before the others.
BoundFirst(u) ==
  \E n \in 0..Len(u.order) : \A i \in 1..Len(u.order) :
    u.order[i] \in BoundIds(DOMAIN Bindings) <=> i <= n

PinStep(u, c) == Pinned(u, c, Bindings[c])
PinsHold(s, u) ==
  Forest(u) /\ OnlyRelated(u) /\ KeepsBindings(s, u) /\ ToSet(u.order) = BoundIds(s)
Pinning == INSTANCE FoldFacts WITH
  Step <- PinStep, Base <- Apart, Pick <- Max, Holds <- PinsHold

JoinStep(u, i) == Related(u, Relations[i])
JoinsHold(s, u) ==
  /\ Forest(u) /\ OnlyRelated(u) /\ KeepsBindings(DOMAIN Bindings, u) /\ BoundFirst(u)
  /\ BoundIds(DOMAIN Bindings) \subseteq ToSet(u.order)
  /\ \A i \in s : Relations[i].rel = "SAME" => u.root[Relations[i].a] = u.root[Relations[i].b]
Joining == INSTANCE FoldFacts WITH
  Step <- JoinStep, Base <- Bound(Bindings), Pick <- Max, Holds <- JoinsHold

\* What the ledger binds, the relations it holds relate.
BoundAreLinked == \A c \in DOMAIN Bindings : LinkedTo(c, Bindings[c])

\* Being linked is an equivalence.
LEMMA LinkedEquivalence ==
  /\ \A c : LinkedTo(c, c)
  /\ \A c, d : LinkedTo(c, d) => LinkedTo(d, c)
  /\ \A c, d, e : LinkedTo(c, d) /\ LinkedTo(d, e) => LinkedTo(c, e)
BY DEF LinkedTo

\* Two linked candidates' events become one: members are still linked.
LEMMA MergeRelated ==
  ASSUME NEW u, Forest(u), OnlyRelated(u), NEW p \in CandidateIds, NEW q \in CandidateIds,
         LinkedTo(p, q), NEW v, NEW to, to \in {u.root[p], u.root[q]},
         \A c \in CandidateIds :
           v.root[c] = IF u.root[c] \in {u.root[p], u.root[q]} THEN to ELSE u.root[c]
  PROVE  OnlyRelated(v)
<1> SUFFICES ASSUME NEW c \in CandidateIds, NEW d \in CandidateIds, v.root[c] = v.root[d]
             PROVE  LinkedTo(c, d)
  BY DEF OnlyRelated
<1> DEFINE In(e) == u.root[e] \in {u.root[p], u.root[q]}
<1>1. \A e \in CandidateIds : In(e) => LinkedTo(e, p)
  BY LinkedEquivalence DEF OnlyRelated
<1>2. CASE In(c) /\ In(d)
  BY <1>1, <1>2, LinkedEquivalence
<1>3. CASE ~In(c) \/ ~In(d)
  <2>1. u.root[c] = u.root[d]
    BY <1>3
  <2> QED BY <2>1 DEF OnlyRelated
<1> QED BY <1>2, <1>3

\* One binding is pinned.
LEMMA PinKeeps ==
  ASSUME IdTyped, IdentityAssumption, BoundAreLinked,
         NEW s \in SUBSET DOMAIN Bindings, NEW c \in s, NEW u, PinsHold(s \ {c}, u)
  PROVE  PinsHold(s, PinStep(u, c))
<1> DEFINE id == Bindings[c]
           from == u.root[c]
           to == u.root[id]
           v == PinStep(u, c)
<1>1. c \in CandidateIds /\ id \in CandidateIds /\ DOMAIN Bindings \subseteq CandidateIds
      /\ \A d \in DOMAIN Bindings : Bindings[d] \in CandidateIds
  BY StartTyped DEF Bindings
<1>2. Forest(u) /\ OnlyRelated(u) /\ KeepsBindings(s \ {c}, u) /\ ToSet(u.order) = BoundIds(s \ {c})
  BY DEF PinsHold
<1>3. /\ u.root \in [CandidateIds -> CandidateIds] /\ from \in CandidateIds /\ to \in CandidateIds
      /\ u.root[from] = from /\ u.root[to] = to
  BY <1>1, <1>2 DEF Forest
<1>4. v = Merged(u, from, to, id)
  <2>1. Joined(u, from, to).root = [d \in CandidateIds |-> IF u.root[d] = from THEN to ELSE u.root[d]]
    <3>1. u = [root |-> u.root, canon |-> u.canon, order |-> u.order]
      BY <1>2 DEF Forest
    <3> DEFINE root == [d \in CandidateIds |-> IF u.root[d] = from THEN to ELSE u.root[d]]
    <3>2. Joined(u, from, to) = [u EXCEPT !.root = root]
      BY DEF Joined
    <3> HIDE DEF root
    <3>3. Joined(u, from, to).root = root
      BY <3>1, <3>2
    <3> QED BY <3>3 DEF root
  <2>2. Joined(u, from, to).root[id] = to
    BY <1>1, <2>1
  <2> QED BY <2>2 DEF PinStep, Pinned, Merged
<1> HIDE DEF v, id, from, to
<1>5. u.root[id] \in {from, to}
  BY DEF to
<1>6. /\ Forest(v)
      /\ \A d \in CandidateIds :
           /\ v.root[d] = IF Touched(u, from, to, d) THEN to ELSE u.root[d]
           /\ Touched(u, from, to, d) => Has(v, d) /\ Id(v, d) = id
           /\ ~Touched(u, from, to, d) => (Has(v, d) <=> Has(u, d)) /\ Id(v, d) = Id(u, d)
      /\ v.order = IF id \in ToSet(u.order) THEN u.order ELSE Append(u.order, id)
  BY <1>1, <1>2, <1>3, <1>4, <1>5, MergeFacts
<1>7. OnlyRelated(v)
  <2>1. LinkedTo(c, id)
    BY DEF BoundAreLinked, id
  <2> QED BY <1>1, <1>2, <1>6, <2>1, MergeRelated DEF Touched, from, to
<1>8. BoundIds(s) = BoundIds(s \ {c}) \cup {id}
  BY DEF BoundIds, id
<1>9. ToSet(v.order) = BoundIds(s)
  <2>1. u.order \in Seq(CandidateIds)
    BY <1>2 DEF Forest
  <2>2. ToSet(Append(u.order, id)) = ToSet(u.order) \cup {id}
    BY <1>1, <2>1, SetOfAppended
  <2> QED BY <1>2, <1>6, <1>8, <2>2
<1>10. KeepsBindings(s, v)
  <2> SUFFICES ASSUME NEW d \in s
               PROVE  Has(v, d) /\ v.root[Bindings[d]] = v.root[d] /\ Id(v, d) \in BoundIds(s)
    BY DEF KeepsBindings
  <2>1. d \in CandidateIds /\ Bindings[d] \in CandidateIds
    BY <1>1
  <2>2. d # c => /\ Has(u, d) /\ u.root[Bindings[d]] = u.root[d] /\ Id(u, d) \in BoundIds(s \ {c})
    BY <1>2 DEF KeepsBindings
  <2>3. Touched(u, from, to, c) /\ Touched(u, from, to, id)
    BY DEF Touched, from, to
  <2>4. CASE Touched(u, from, to, d)
    <3>1. Touched(u, from, to, Bindings[d])
      BY <2>2, <2>3, <2>4 DEF Touched, id
    <3> QED BY <1>6, <1>8, <2>1, <2>4, <3>1
  <2>5. CASE ~Touched(u, from, to, d)
    <3>1. d # c /\ ~Touched(u, from, to, Bindings[d])
      BY <2>2, <2>3, <2>5 DEF Touched
    <3> QED BY <1>6, <1>8, <2>1, <2>2, <2>5, <3>1
  <2> QED BY <2>4, <2>5
<1> QED BY <1>6, <1>7, <1>9, <1>10 DEF PinsHold, v

\* Before any binding, every candidate is an event of its own.
LEMMA ApartHolds ==
  ASSUME IdentityAssumption PROVE PinsHold({}, Apart)
<1>1. /\ Apart.root = [c \in CandidateIds |-> c] /\ Apart.canon = <<>> /\ Apart.order = <<>>
      /\ Apart = [root |-> Apart.root, canon |-> Apart.canon, order |-> Apart.order]
  BY DEF Apart
<1>2. DOMAIN <<>> = {} /\ <<>> \in Seq(CandidateIds)
  OBVIOUS
<1>3. \A c \in CandidateIds : ~Has(Apart, c) /\ Id(Apart, c) = c
  BY <1>1, <1>2 DEF Has, Id
<1>4. Forest(Apart)
  BY <1>1, <1>2, <1>3 DEF Forest
<1>5. OnlyRelated(Apart)
  BY <1>1, LinkedEquivalence DEF OnlyRelated
<1>6. ToSet(Apart.order) = BoundIds({})
  BY <1>1, <1>2 DEF ToSet, BoundIds
<1> QED BY <1>4, <1>5, <1>6 DEF PinsHold, KeepsBindings

\* After the bindings.
LEMMA BoundHolds ==
  ASSUME IdTyped, IdentityAssumption, BoundAreLinked
  PROVE  PinsHold(DOMAIN Bindings, Bound(Bindings))
<1> DEFINE S == DOMAIN Bindings
           E(f) == f = [s \in SUBSET S |->
                          IF s = {} THEN Apart
                          ELSE Pinned(f[s \ {Max(s)}], Max(s), Bindings[Max(s)])]
<1>1. Bound(Bindings) = (CHOOSE f : E(f))[S]
  BY DEF Bound, MapThenFoldSet
<1>2. Pinning!IsFiniteSet(S) /\ Pinning!Picks(S)
  <2>1. S \subseteq CandidateIds
    BY StartTyped DEF Bindings
  <2>2. S \in SUBSET Nat /\ IsFiniteSet(S)
    BY <2>1, FS_Subset DEF IdentityAssumption
  <2> HIDE DEF S
  <2> QED BY <2>2, GreatestIn DEF IsFiniteSet, Pinning!IsFiniteSet, Pinning!Picks
<1>3. PICK g : Pinning!IsFold(g, S)
  BY <1>2, Pinning!FoldExists
<1>4. \A f : E(f) <=> Pinning!IsFold(f, S)
  BY Zenon DEF Pinning!IsFold, PinStep
<1> DEFINE f == CHOOSE h : E(h)
<1> HIDE DEF E
<1>5. Pinning!IsFold(f, S)
  BY <1>3, <1>4
<1>6. PinsHold({}, Apart)
  BY ApartHolds
<1>7. ASSUME NEW s \in SUBSET S, NEW u, s # {}, PinsHold(s \ {Max(s)}, u)
      PROVE  PinsHold(s, PinStep(u, Max(s)))
  <2>1. Max(s) \in s
    BY <1>2, <1>7 DEF Pinning!Picks
  <2> QED BY <1>7, <2>1, PinKeeps
<1> HIDE DEF S, f
<1>8. \A s \in SUBSET S : PinsHold(s, f[s])
  BY <1>2, <1>5, <1>6, <1>7, Pinning!FoldInduction
<1>9. PinsHold(S, f[S])
  BY <1>8
<1> QED BY <1>1, <1>9 DEF S, f

\* An established id has a place in the order.
LEMMA RankFacts ==
  ASSUME NEW u, Forest(u), NEW id \in ToSet(u.order)
  PROVE  Rank(u, id) \in 1..Len(u.order) /\ u.order[Rank(u, id)] = id
<1>1. u.order \in Seq(CandidateIds) /\ DOMAIN u.order = 1..Len(u.order)
  BY DEF Forest
<1>2. \E k \in DOMAIN u.order : u.order[k] = id
  BY DEF ToSet
<1> QED BY <1>1, <1>2 DEF Rank

\* What comes before a bound id is bound.
LEMMA BoundBefore ==
  ASSUME NEW u, Forest(u), BoundFirst(u), NEW x \in ToSet(u.order), NEW y \in ToSet(u.order),
         Rank(u, x) <= Rank(u, y), y \in BoundIds(DOMAIN Bindings)
  PROVE  x \in BoundIds(DOMAIN Bindings)
<1>1. PICK n \in 0..Len(u.order) : \A k \in 1..Len(u.order) :
        u.order[k] \in BoundIds(DOMAIN Bindings) <=> k <= n
  BY DEF BoundFirst
<1>2. /\ Rank(u, x) \in 1..Len(u.order) /\ u.order[Rank(u, x)] = x
      /\ Rank(u, y) \in 1..Len(u.order) /\ u.order[Rank(u, y)] = y
  BY RankFacts
<1>3. u.order \in Seq(CandidateIds)
  BY DEF Forest
<1>4. Len(u.order) \in Nat
  BY <1>3
<1>5. Rank(u, y) <= n
  BY <1>1, <1>2
<1>6. Rank(u, x) <= n
  BY <1>2, <1>4, <1>5
<1> QED BY <1>1, <1>2, <1>6

\* One relation is followed: the name of a bound event stands against a newcomer's, and
\* between two bound events one of their names stands (set_canonical).
LEMMA JoinKeeps ==
  ASSUME IdTyped, IdentityAssumption, NEW s \in SUBSET DOMAIN Relations, NEW i \in s, NEW u,
         JoinsHold(s \ {i}, u)
  PROVE  JoinsHold(s, JoinStep(u, i))
<1> DEFINE r == Relations[i]
           v == JoinStep(u, i)
           B == BoundIds(DOMAIN Bindings)
<1>1. /\ Forest(u) /\ OnlyRelated(u) /\ KeepsBindings(DOMAIN Bindings, u) /\ BoundFirst(u)
      /\ B \subseteq ToSet(u.order)
      /\ \A k \in s \ {i} : Relations[k].rel = "SAME" => u.root[Relations[k].a] = u.root[Relations[k].b]
  BY DEF JoinsHold
<1>2. Relations \in Seq(Ties)
  BY RelationsGrown
<1>3. \A k \in DOMAIN Relations : Relations[k] \in Ties
  BY <1>2, ElementOfSeq
<1>4. \A k \in DOMAIN Relations : Relations[k].a \in CandidateIds /\ Relations[k].b \in CandidateIds
  BY <1>3 DEF Ties
<1>5. r.a \in CandidateIds /\ r.b \in CandidateIds /\ r \in ToSet(Relations)
  BY <1>4 DEF ToSet
<1>6. DOMAIN Bindings \subseteq CandidateIds /\ \A d \in DOMAIN Bindings : Bindings[d] \in CandidateIds
  BY StartTyped DEF Bindings
<1> HIDE DEF r, v, B
<1>7. CASE r.rel # "SAME" \/ u.root[r.a] = u.root[r.b]
  <2>1. v = u
    BY <1>7 DEF v, JoinStep, Related, r
  <2> QED BY <2>1, <1>1, <1>7 DEF JoinsHold, v, B, r
<1>8. CASE r.rel = "SAME" /\ u.root[r.a] # u.root[r.b]
  <2> DEFINE winner == IF FirstNames(u, r.a, r.b) THEN r.a ELSE r.b
             loser  == IF winner = r.a THEN r.b ELSE r.a
             from == u.root[loser]
             to == u.root[winner]
             id == Id(u, winner)
  <2>1. v = Merged(u, from, to, id)
    BY <1>8 DEF v, JoinStep, Related, r, Merged
  <2>2. winner \in CandidateIds /\ loser \in CandidateIds /\ {winner, loser} = {r.a, r.b}
    BY <1>5
  <2>3. \/ winner = r.a /\ loser = r.b /\ FirstNames(u, r.a, r.b)
        \/ winner = r.b /\ loser = r.a /\ ~FirstNames(u, r.a, r.b)
    BY <1>8
  <2> HIDE DEF winner, loser
  <2>4. /\ u.root \in [CandidateIds -> CandidateIds] /\ from \in CandidateIds /\ to \in CandidateIds
        /\ u.root[from] = from /\ u.root[to] = to
        /\ id \in CandidateIds /\ u.root[id] = to
        /\ Has(u, winner) => id \in ToSet(u.order)
        /\ Has(u, loser) => Id(u, loser) \in ToSet(u.order)
        /\ u.order \in Seq(CandidateIds)
    BY <1>1, <2>2 DEF Forest
  <2> HIDE DEF from, to, id
  <2>5. /\ Forest(v)
        /\ \A d \in CandidateIds :
             /\ v.root[d] = IF Touched(u, from, to, d) THEN to ELSE u.root[d]
             /\ Touched(u, from, to, d) => Has(v, d) /\ Id(v, d) = id
             /\ ~Touched(u, from, to, d) => (Has(v, d) <=> Has(u, d)) /\ Id(v, d) = Id(u, d)
        /\ v.order = IF id \in ToSet(u.order) THEN u.order ELSE Append(u.order, id)
    BY <1>1, <2>1, <2>4, MergeFacts
  <2>6. OnlyRelated(v)
    <3>1. LinkedTo(r.a, r.b) /\ LinkedTo(r.b, r.a)
      BY <1>5, <1>8 DEF LinkedTo, Within
    <3>2. LinkedTo(winner, loser)
      BY <2>3, <3>1
    <3> QED BY <1>1, <2>2, <2>5, <3>2, MergeRelated DEF Touched, from, to
  <2>7. Has(u, loser) /\ Id(u, loser) \in B => id \in B
    <3> SUFFICES ASSUME Has(u, loser), Id(u, loser) \in B PROVE id \in B
      OBVIOUS
    <3>1. Has(u, winner) /\ Rank(u, id) <= Rank(u, Id(u, loser))
      <4>1. CASE winner = r.a /\ loser = r.b /\ FirstNames(u, r.a, r.b)
        BY <4>1 DEF FirstNames, id
      <4>2. CASE winner = r.b /\ loser = r.a /\ ~FirstNames(u, r.a, r.b)
        <5>1. Has(u, winner) /\ ~(Rank(u, Id(u, loser)) <= Rank(u, id))
          BY <4>2 DEF FirstNames, id
        <5>2. Rank(u, id) \in Nat /\ Rank(u, Id(u, loser)) \in Nat
          BY <1>1, <2>4, <5>1, RankFacts
        <5> QED BY <5>1, <5>2
      <4> QED BY <2>3, <4>1, <4>2
    <3> QED BY <1>1, <2>4, <3>1, BoundBefore DEF B
  <2>8. KeepsBindings(DOMAIN Bindings, v)
    <3> SUFFICES ASSUME NEW d \in DOMAIN Bindings
                 PROVE  Has(v, d) /\ v.root[Bindings[d]] = v.root[d] /\ Id(v, d) \in B
      BY DEF KeepsBindings, B
    <3>1. d \in CandidateIds /\ Bindings[d] \in CandidateIds
      BY <1>6
    <3>2. Has(u, d) /\ u.root[Bindings[d]] = u.root[d] /\ Id(u, d) \in B
      BY <1>1 DEF KeepsBindings, B
    <3>3. CASE Touched(u, from, to, d)
      <4>1. Touched(u, from, to, Bindings[d])
        BY <3>2, <3>3 DEF Touched
      <4>2. id \in B
        <5>1. CASE u.root[d] = to
          BY <3>2, <5>1 DEF Id, Has, id, to
        <5>2. CASE u.root[d] = from
          <6>1. Has(u, loser) /\ Id(u, loser) = Id(u, d)
            BY <3>2, <5>2 DEF Has, Id, from
          <6> QED BY <2>7, <3>2, <6>1
        <5> QED BY <3>3, <5>1, <5>2 DEF Touched
      <4> QED BY <2>5, <3>1, <3>3, <4>1, <4>2
    <3>4. CASE ~Touched(u, from, to, d)
      <4>1. ~Touched(u, from, to, Bindings[d])
        BY <3>2, <3>4 DEF Touched
      <4> QED BY <2>5, <3>1, <3>2, <3>4, <4>1
    <3> QED BY <3>3, <3>4
  <2>9. BoundFirst(v) /\ B \subseteq ToSet(v.order)
    <3>1. CASE id \in ToSet(u.order)
      BY <1>1, <2>5, <3>1 DEF BoundFirst
    <3>2. CASE id \notin ToSet(u.order)
      <4>1. v.order = Append(u.order, id) /\ id \notin B
        BY <1>1, <2>5, <3>2
      <4>2. /\ Len(v.order) = Len(u.order) + 1 /\ Len(u.order) \in Nat
            /\ \A k \in 1..Len(u.order) : v.order[k] = u.order[k]
            /\ v.order[Len(u.order) + 1] = id
        BY <2>4, <4>1
      <4>3. PICK n \in 0..Len(u.order) : \A k \in 1..Len(u.order) : u.order[k] \in B <=> k <= n
        BY <1>1 DEF BoundFirst, B
      <4>4. \A k \in 1..Len(v.order) : v.order[k] \in B <=> k <= n
        <5> SUFFICES ASSUME NEW k \in 1..Len(v.order) PROVE v.order[k] \in B <=> k <= n
          OBVIOUS
        <5>1. CASE k \in 1..Len(u.order)
          BY <4>2, <4>3, <5>1
        <5>2. CASE k \notin 1..Len(u.order)
          <6>1. k = Len(u.order) + 1
            BY <4>2, <5>2
          <6> QED BY <4>1, <4>2, <6>1
        <5> QED BY <5>1, <5>2
      <4>5. n \in 0..Len(v.order)
        BY <4>2
      <4>6. ToSet(v.order) = ToSet(u.order) \cup {id}
        BY <2>4, <4>1, SetOfAppended
      <4> QED BY <1>1, <4>4, <4>5, <4>6 DEF BoundFirst, B
    <3> QED BY <3>1, <3>2
  <2>10. ASSUME NEW k \in s, Relations[k].rel = "SAME"
         PROVE  v.root[Relations[k].a] = v.root[Relations[k].b]
    <3>1. Relations[k].a \in CandidateIds /\ Relations[k].b \in CandidateIds
      BY <1>4
    <3>2. CASE k = i
      <4>1. Touched(u, from, to, Relations[k].a) /\ Touched(u, from, to, Relations[k].b)
        BY <2>2, <3>2 DEF Touched, from, to, r
      <4> QED BY <2>5, <3>1, <4>1
    <3>3. CASE k # i
      <4>1. u.root[Relations[k].a] = u.root[Relations[k].b]
        BY <1>1, <2>10, <3>3
      <4> QED BY <2>5, <3>1, <4>1 DEF Touched
    <3> QED BY <3>2, <3>3
  <2> QED BY <2>5, <2>6, <2>8, <2>9, <2>10 DEF JoinsHold, v, B
<1> QED BY <1>7, <1>8

\* The union-find at the end of the pass.
Final == FoldLeft(Related, Bound(Bindings), Relations)

\* After the relations.
LEMMA FinalHolds ==
  ASSUME IdTyped, IdentityAssumption, BoundAreLinked
  PROVE  JoinsHold(DOMAIN Relations, Final)
<1> DEFINE S == DOMAIN Relations
           E(f) == f = [s \in SUBSET S |->
                          IF s = {} THEN Bound(Bindings)
                          ELSE Related(f[s \ {Max(s)}], Relations[Max(s)])]
<1>1. Final = (CHOOSE f : E(f))[S]
  BY DEF Final, FoldLeft, MapThenFoldSet
<1>2. Relations \in Seq(Ties)
  BY RelationsGrown
<1>3. Joining!IsFiniteSet(S) /\ Joining!Picks(S)
  BY <1>2, PlacesPicked DEF IsFiniteSet, Joining!IsFiniteSet, Joining!Picks
<1>4. PICK g : Joining!IsFold(g, S)
  BY <1>3, Joining!FoldExists
<1>5. \A f : E(f) <=> Joining!IsFold(f, S)
  BY Zenon DEF Joining!IsFold, JoinStep
<1> DEFINE f == CHOOSE h : E(h)
<1> HIDE DEF E
<1>6. Joining!IsFold(f, S)
  BY <1>4, <1>5
<1>7. JoinsHold({}, Bound(Bindings))
  <2> DEFINE u == Bound(Bindings)
  <2>1. PinsHold(DOMAIN Bindings, u)
    BY BoundHolds
  <2> HIDE DEF u
  <2>2. /\ Forest(u) /\ OnlyRelated(u) /\ KeepsBindings(DOMAIN Bindings, u)
        /\ ToSet(u.order) = BoundIds(DOMAIN Bindings)
    BY <2>1 DEF PinsHold
  <2>3. u.order \in Seq(CandidateIds)
    BY <2>2 DEF Forest
  <2>4. Len(u.order) \in Nat /\ DOMAIN u.order = 1..Len(u.order)
    BY <2>3
  <2>5. \A k \in 1..Len(u.order) : u.order[k] \in BoundIds(DOMAIN Bindings)
    BY <2>2, <2>4 DEF ToSet
  <2>6. Len(u.order) \in 0..Len(u.order) /\ \A k \in 1..Len(u.order) : k <= Len(u.order)
    BY <2>4
  <2>7. BoundFirst(u)
    BY <2>5, <2>6 DEF BoundFirst
  <2> QED BY <2>2, <2>7 DEF JoinsHold, u
<1>8. ASSUME NEW s \in SUBSET S, NEW u, s # {}, JoinsHold(s \ {Max(s)}, u)
      PROVE  JoinsHold(s, JoinStep(u, Max(s)))
  <2>1. Max(s) \in s
    BY <1>3, <1>8 DEF Joining!Picks
  <2> QED BY <1>8, <2>1, JoinKeeps
<1> HIDE DEF S, f
<1>9. \A s \in SUBSET S : JoinsHold(s, f[s])
  BY <1>3, <1>6, <1>7, <1>8, Joining!FoldInduction
<1>10. JoinsHold(S, f[S])
  BY <1>9
<1> QED BY <1>1, <1>10 DEF S, f

\* What a pass resolves: candidates go by one name exactly when they are linked, by
\* the name of one they are linked to, and a candidate that was bound by a bound one.
LEMMA ResolvedFacts ==
  ASSUME IdTyped, IdentityAssumption, BoundAreLinked
  PROVE  /\ DOMAIN Resolved = DOMAIN corpus
         /\ \A c \in DOMAIN corpus : Resolved[c] \in CandidateIds /\ LinkedTo(c, Resolved[c])
         /\ \A c, d \in DOMAIN corpus : Resolved[c] = Resolved[d] <=> LinkedTo(c, d)
         /\ \A c \in DOMAIN Bindings \cap DOMAIN corpus : \E d \in DOMAIN Bindings :
              Resolved[c] = Bindings[d] /\ (d \in DOMAIN corpus => Resolved[d] = Resolved[c])
<1>1. Resolved = [c \in DOMAIN corpus |-> Id(Final, c)]
  BY DEF Resolved, Final, Bindings
<1>2. JoinsHold(DOMAIN Relations, Final)
  BY FinalHolds
<1> DEFINE u == Final
<1> HIDE DEF u
<1>3. /\ Forest(u) /\ OnlyRelated(u) /\ KeepsBindings(DOMAIN Bindings, u)
      /\ \A k \in DOMAIN Relations :
           Relations[k].rel = "SAME" => u.root[Relations[k].a] = u.root[Relations[k].b]
  BY <1>2 DEF JoinsHold, u
<1>4. DOMAIN corpus \subseteq CandidateIds /\ DOMAIN Bindings \subseteq CandidateIds
  BY StartTyped DEF IdTyped, Bindings
<1>5. \A c \in CandidateIds : Id(u, c) \in CandidateIds /\ u.root[Id(u, c)] = u.root[c]
  BY <1>3 DEF Forest
<1>6. \A c, d \in CandidateIds : Id(u, c) = Id(u, d) <=> u.root[c] = u.root[d]
  <2>1. \A c, d \in CandidateIds : u.root[c] = u.root[d] => Id(u, c) = Id(u, d)
    BY DEF Id, Has
  <2> QED BY <1>5, <2>1
<1>7. ASSUME NEW c \in CandidateIds, NEW d \in CandidateIds, LinkedTo(c, d)
      PROVE  u.root[c] = u.root[d]
  <2> DEFINE S == {e \in CandidateIds : u.root[e] = u.root[c]}
  <2>1. Within(S)
    <3>1. Relations \in Seq(Ties)
      BY RelationsGrown
    <3>2. \A k \in DOMAIN Relations : Relations[k].a \in CandidateIds /\ Relations[k].b \in CandidateIds
      <4>1. \A k \in DOMAIN Relations : Relations[k] \in Ties
        BY <3>1, ElementOfSeq
      <4> QED BY <4>1 DEF Ties
    <3>3. \A k \in DOMAIN Relations :
            Relations[k].rel = "SAME" => (Relations[k].a \in S <=> Relations[k].b \in S)
      BY <1>3, <3>2
    <3> HIDE DEF S
    <3> QED BY <3>3 DEF Within, ToSet
  <2>2. c \in S <=> d \in S
    BY <1>7, <2>1 DEF LinkedTo
  <2> QED BY <2>2
<1>8. \A c \in DOMAIN corpus : Resolved[c] = Id(u, c)
  BY <1>1 DEF u
<1>9. \A c \in DOMAIN corpus : Resolved[c] \in CandidateIds /\ LinkedTo(c, Resolved[c])
  BY <1>3, <1>4, <1>5, <1>8 DEF OnlyRelated
<1>10. \A c, d \in DOMAIN corpus : Resolved[c] = Resolved[d] <=> LinkedTo(c, d)
  BY <1>3, <1>4, <1>6, <1>7, <1>8 DEF OnlyRelated
<1>11. ASSUME NEW c \in DOMAIN Bindings \cap DOMAIN corpus
       PROVE  \E d \in DOMAIN Bindings :
                Resolved[c] = Bindings[d] /\ (d \in DOMAIN corpus => Resolved[d] = Resolved[c])
  <2>1. Id(u, c) \in BoundIds(DOMAIN Bindings)
    BY <1>3 DEF KeepsBindings
  <2>2. PICK d \in DOMAIN Bindings : Id(u, c) = Bindings[d]
    BY <2>1 DEF BoundIds
  <2>3. u.root[Bindings[d]] = u.root[d]
    BY <1>3 DEF KeepsBindings
  <2>4. u.root[d] = u.root[c]
    BY <1>4, <1>5, <2>2, <2>3
  <2> QED BY <1>4, <1>6, <1>8, <2>2, <2>4
<1> QED BY <1>1, <1>9, <1>10, <1>11

-----------------------------------------------------------------------------
(* Generations.                                                            *)

Climbs(s, up) == up \in [DOMAIN Resolved -> SUBSET DOMAIN Resolved]
Climb(up, i) == Higher(Resolved, up)
Climbing == INSTANCE FoldFacts WITH
  Step <- Climb, Base <- [c \in DOMAIN Resolved |-> Predecessor(Resolved, c)], Pick <- Max,
  Holds <- Climbs

\* A generation counts some of the candidates (revisions.py).
LEMMA GenerationsTyped ==
  ASSUME IdentityAssumption, DOMAIN Resolved \subseteq CandidateIds
  PROVE  /\ DOMAIN Generations(Resolved) = DOMAIN Resolved
         /\ \A c \in DOMAIN Resolved : Generations(Resolved)[c] \in 0..Cardinality(CandidateIds)
<1> DEFINE S == DOMAIN DocumentOrder
           D == DOMAIN Resolved
           base == [c \in DOMAIN Resolved |-> Predecessor(Resolved, c)]
           E(f) == f = [s \in SUBSET S |->
                          IF s = {} THEN base ELSE Higher(Resolved, f[s \ {Max(s)}])]
<1>1. Ancestors(Resolved) = (CHOOSE f : E(f))[S]
  BY DEF Ancestors, FoldLeft, MapThenFoldSet
<1>2. Climbing!IsFiniteSet(S) /\ Climbing!Picks(S)
  <2>1. DocumentOrder \in Seq(CandidateIds)
    BY DEF IdentityAssumption
  <2> QED BY <2>1, PlacesPicked DEF IsFiniteSet, Climbing!IsFiniteSet, Climbing!Picks
<1>3. PICK g : Climbing!IsFold(g, S)
  BY <1>2, Climbing!FoldExists
<1>4. \A f : E(f) <=> Climbing!IsFold(f, S)
  BY Zenon DEF Climbing!IsFold, Climb
<1> DEFINE f == CHOOSE h : E(h)
<1> HIDE DEF E
<1>5. Climbing!IsFold(f, S)
  BY <1>3, <1>4
<1>6. \A c : Predecessor(Resolved, c) \subseteq D
  BY DEF Predecessor, Amending
<1>7. Climbs({}, base)
  BY <1>6 DEF Climbs
<1>8. ASSUME NEW s \in SUBSET S, NEW up, s # {}, Climbs(s \ {Max(s)}, up)
      PROVE  Climbs(s, Climb(up, Max(s)))
  <2>1. up \in [D -> SUBSET D]
    BY <1>8 DEF Climbs
  <2>2. \A c \in D : up[c] \cup UNION {Predecessor(Resolved, e) : e \in up[c]} \in SUBSET D
    BY <1>6, <2>1
  <2> HIDE DEF D
  <2>3. Higher(Resolved, up) \in [D -> SUBSET D]
    BY <2>2 DEF Higher, D
  <2> QED BY <2>3 DEF Climbs, Climb, D
<1> HIDE DEF S, f, base
<1>9. \A s \in SUBSET S : Climbs(s, f[s])
  BY <1>2, <1>5, <1>7, <1>8, Climbing!FoldInduction DEF base
<1>10. Ancestors(Resolved) \in [D -> SUBSET D]
  BY <1>1, <1>9 DEF S, f, Climbs
<1>11. IsFiniteSet(CandidateIds) /\ Cardinality(CandidateIds) \in Nat
  BY FS_CardinalityType DEF IdentityAssumption
<1>12. \A s \in SUBSET D : Cardinality(s) \in 0..Cardinality(CandidateIds)
  BY <1>11, FS_Subset, FS_CardinalityType
<1> HIDE DEF D
<1>13. Generations(Resolved) = [c \in D |-> Cardinality(Ancestors(Resolved)[c])]
  BY DEF Generations, D
<1> QED BY <1>10, <1>12, <1>13 DEF D

-----------------------------------------------------------------------------
(* The passes.                                                             *)

\* A kept ledger holds the relations of its last pass, binds what that pass named,
\* to ids that were borne; what was ever borne is related.
LedgerTells ==
  /\ seed.relations = basis.relations
  /\ DOMAIN seed.bindings = DOMAIN named
  /\ \A c \in DOMAIN named : seed.bindings[c] \in borne[c]
  /\ \A c \in CandidateIds : \A id \in borne[c] : Together(c, id)

\* The inductive invariant.
IdInv ==
  /\ IdTyped
  /\ borne \in [CandidateIds -> SUBSET CandidateIds]
  /\ \A c, d \in DOMAIN named : named[c] = named[d] <=> Together(c, d)
  /\ \A c \in DOMAIN named : named[c] \in borne[c]
  /\ byLedger => LedgerTells

\* The invariant gives the types and what events are.
LEMMA IdInvGives == ASSUME IdInv PROVE IdentityTypeOK /\ MembersAreRelated
<1>1. IdTyped
  BY DEF IdInv
<1>2. ToSet(rulings) \subseteq Rulings
  BY <1>1 DEF IdTyped, ToSet
<1>3. \A r \in ToSet(seed.relations \o basis.relations) : {r.a, r.b} \subseteq CandidateIds
  <2> DEFINE both == seed.relations \o basis.relations
  <2>1. both \in Seq(Ties)
    BY <1>1 DEF IdTyped
  <2> HIDE DEF both
  <2>2. \A k \in DOMAIN both : both[k] \in Ties
    BY <2>1, ElementOfSeq
  <2>3. \A r \in Ties : r.a \in CandidateIds /\ r.b \in CandidateIds
    BY DEF Ties
  <2>4. \A r \in ToSet(both) : {r.a, r.b} \subseteq CandidateIds
    BY <2>2, <2>3 DEF ToSet
  <2> QED BY <2>4 DEF both
<1>4. IdentityTypeOK
  BY <1>1, <1>2, <1>3 DEF IdTyped, IdentityTypeOK
<1>5. MembersAreRelated
  <2>1. ASSUME byLedger, NEW c \in DOMAIN named, NEW id \in borne[c] \cap DOMAIN named
        PROVE  named[id] = named[c]
    <3>1. c \in CandidateIds
      BY <1>1 DEF IdTyped
    <3>2. Together(c, id)
      BY <2>1, <3>1 DEF IdInv, LedgerTells
    <3> QED BY <2>1, <3>2 DEF IdInv
  <2> QED BY <2>1 DEF IdInv, MembersAreRelated
<1> QED BY <1>4, <1>5

\* Relations are only added, so what was together is linked.
LEMMA TogetherIsLinked ==
  ASSUME IdInv, IdentityAssumption, byLedger, NEW c, NEW d, Together(c, d)
  PROVE  LinkedTo(c, d)
<1>1. ToSet(basis.relations) \subseteq ToSet(Relations)
  BY RelationsGrown DEF IdInv, LedgerTells, Start
<1>2. \A S : Within(S) => Closed(S)
  BY <1>1 DEF Within, Closed
<1> QED BY <1>2 DEF Together, LinkedTo

\* What the ledger binds was together, so it is linked now.
LEMMA LedgerLinks == ASSUME IdInv, IdentityAssumption PROVE BoundAreLinked
<1>1. CASE byLedger
  <2>1. Bindings = seed.bindings /\ LedgerTells
    BY <1>1 DEF Bindings, Start, IdInv
  <2>2. DOMAIN named \subseteq CandidateIds
    BY DEF IdInv, IdTyped
  <2>3. \A c \in DOMAIN Bindings : Together(c, Bindings[c])
    BY <2>1, <2>2 DEF LedgerTells
  <2> QED BY <1>1, <2>3, TogetherIsLinked DEF BoundAreLinked
<1>2. CASE ~byLedger
  <2>1. Bindings = <<>>
    BY <1>2 DEF Bindings, Start, NoLedger
  <2>2. DOMAIN <<>> = {}
    OBVIOUS
  <2> QED BY <2>1, <2>2 DEF BoundAreLinked
<1> QED BY <1>1, <1>2 DEF IdInv, IdTyped

\* A pass that ends keeps the invariant, and names an event by an id borne in it.
LEMMA PassKeeps ==
  ASSUME IdInv, IdentityAssumption, IdentityPass
  PROVE  IdInv' /\ (byLedger => \A c \in DOMAIN named : named'[c] \in Heritage(c))
<1> DEFINE ids == Resolved
<1>1. /\ named' = ids /\ generation' = Generations(ids)
      /\ seed' = IF byLedger THEN [relations |-> Relations, bindings |-> Over(seed.bindings, ids)] ELSE seed
      /\ borne' = [c \in CandidateIds |-> borne[c] \cup {ids[d] : d \in {c} \cap DOMAIN ids}]
      /\ basis' = [relations |-> Relations, corpus |-> corpus]
      /\ UNCHANGED <<byLedger, corpus, rulings, editions>>
  BY DEF IdentityPass
<1>2. IdTyped /\ BoundAreLinked
  BY LedgerLinks DEF IdInv
<1>3. /\ DOMAIN ids = DOMAIN corpus
      /\ \A c \in DOMAIN corpus : ids[c] \in CandidateIds /\ LinkedTo(c, ids[c])
      /\ \A c, d \in DOMAIN corpus : ids[c] = ids[d] <=> LinkedTo(c, d)
      /\ \A c \in DOMAIN Bindings \cap DOMAIN corpus : \E d \in DOMAIN Bindings :
           ids[c] = Bindings[d] /\ (d \in DOMAIN corpus => ids[d] = ids[c])
  BY <1>2, ResolvedFacts
<1>4. DOMAIN corpus \subseteq CandidateIds /\ DOMAIN named \subseteq DOMAIN corpus
  BY <1>2 DEF IdTyped
<1>5. /\ DOMAIN generation' = DOMAIN ids
      /\ \A c \in DOMAIN ids : generation'[c] \in 0..Cardinality(CandidateIds)
  BY <1>1, <1>3, <1>4, GenerationsTyped
<1>6. Relations \in Seq(Ties)
  BY <1>2, RelationsGrown
<1> HIDE DEF ids
<1>7. basis'.relations = Relations
  BY <1>1
<1>8. \A c, d : Together(c, d)' <=> LinkedTo(c, d)
  BY <1>7 DEF Together, Closed, LinkedTo, Within
<1>9. borne \in [CandidateIds -> SUBSET CandidateIds]
  BY DEF IdInv
<1>10. /\ borne' \in [CandidateIds -> SUBSET CandidateIds]
       /\ \A c \in CandidateIds : borne[c] \subseteq borne'[c]
       /\ \A c \in DOMAIN ids : ids[c] \in borne'[c]
       /\ \A c \in CandidateIds : \A id \in borne'[c] : id \in borne[c] \/ (c \in DOMAIN ids /\ id = ids[c])
  <2>1. \A c \in CandidateIds : {ids[d] : d \in {c} \cap DOMAIN ids} \subseteq CandidateIds
    BY <1>3
  <2> QED BY <1>1, <1>3, <1>4, <1>9, <2>1
<1>11. byLedger => /\ seed.relations = basis.relations
                   /\ DOMAIN seed.bindings = DOMAIN named
                   /\ \A c \in DOMAIN named : seed.bindings[c] \in borne[c]
                   /\ \A c \in CandidateIds : \A id \in borne[c] : Together(c, id)
  BY DEF IdInv, LedgerTells
<1>12. byLedger => LedgerTells'
  <2> SUFFICES ASSUME byLedger PROVE LedgerTells'
    OBVIOUS
  <2>1. /\ seed'.relations = Relations
        /\ seed'.bindings = [c \in DOMAIN seed.bindings \cup DOMAIN ids |->
                               IF c \in DOMAIN seed.bindings THEN seed.bindings[c] ELSE ids[c]]
    BY <1>1 DEF Over
  <2>2. DOMAIN seed'.bindings = DOMAIN named'
    BY <1>1, <1>3, <1>4, <1>11, <2>1
  <2>3. \A c \in DOMAIN named' : seed'.bindings[c] \in borne'[c]
    BY <1>1, <1>3, <1>4, <1>10, <1>11, <2>1
  <2>4. ASSUME NEW c \in CandidateIds, NEW id \in borne'[c] PROVE LinkedTo(c, id)
    <3>1. CASE id \in borne[c]
      BY <1>11, <2>4, <3>1, TogetherIsLinked
    <3>2. CASE c \in DOMAIN ids /\ id = ids[c]
      BY <1>3, <3>2
    <3> QED BY <1>10, <2>4, <3>1, <3>2
  <2> QED BY <1>7, <1>8, <2>1, <2>2, <2>3, <2>4 DEF LedgerTells
<1>13. IdTyped'
  <2>1. /\ byLedger' \in BOOLEAN /\ editions' \in 0..MaxEditions
        /\ DOMAIN corpus' \subseteq CandidateIds /\ \A c \in DOMAIN corpus' : corpus'[c].cites \in Citations
        /\ rulings' \in Seq(Rulings)
    BY <1>1, <1>2 DEF IdTyped
  <2>2. basis'.relations \in Seq(Ties)
    BY <1>6, <1>7
  <2>3. /\ seed'.relations \in Seq(Ties) /\ DOMAIN seed'.bindings \subseteq DOMAIN corpus'
        /\ \A c \in DOMAIN seed'.bindings : seed'.bindings[c] \in CandidateIds
    <3>1. CASE byLedger
      <4>1. /\ seed'.relations = Relations
            /\ seed'.bindings = [c \in DOMAIN seed.bindings \cup DOMAIN ids |->
                                   IF c \in DOMAIN seed.bindings THEN seed.bindings[c] ELSE ids[c]]
        BY <1>1, <3>1 DEF Over
      <4> QED BY <1>1, <1>2, <1>3, <1>6, <4>1 DEF IdTyped
    <3>2. CASE ~byLedger
      BY <1>1, <1>2, <3>2 DEF IdTyped
    <3> QED BY <3>1, <3>2
  <2>4. /\ DOMAIN named' = DOMAIN generation' /\ DOMAIN named' \subseteq DOMAIN corpus'
        /\ \A c \in DOMAIN named' :
             named'[c] \in CandidateIds /\ generation'[c] \in 0..Cardinality(CandidateIds)
    BY <1>1, <1>3, <1>5
  <2> QED BY <2>1, <2>2, <2>3, <2>4 DEF IdTyped
<1>14. \A c, d \in DOMAIN named' : named'[c] = named'[d] <=> Together(c, d)'
  BY <1>1, <1>3, <1>8
<1>15. IdInv'
  BY <1>1, <1>3, <1>4, <1>10, <1>12, <1>13, <1>14 DEF IdInv
<1>16. ASSUME byLedger, NEW c \in DOMAIN named PROVE named'[c] \in Heritage(c)
  <2>1. Bindings = seed.bindings /\ DOMAIN Bindings = DOMAIN named
    BY <1>11, <1>16 DEF Bindings, Start
  <2>2. PICK d \in DOMAIN named : ids[c] = Bindings[d] /\ ids[d] = ids[c]
    BY <1>3, <1>4, <1>16, <2>1
  <2>3. named'[c] \in borne[d] /\ named'[d] = named'[c]
    BY <1>1, <1>11, <1>16, <2>1, <2>2
  <2>4. d \in {e \in DOMAIN named : named'[e] = named'[c]}
    BY <2>3
  <2> QED BY <2>3, <2>4 DEF Heritage
<1> QED BY <1>15, <1>16

\* Nothing has been named.
LEMMA IdStarts == IdentityAssumption /\ IdentityInit => IdInv
<1> SUFFICES ASSUME IdentityAssumption, IdentityInit PROVE IdInv
  OBVIOUS
<1>1. DOMAIN <<>> = {} /\ <<>> \in Seq(Ties) /\ <<>> \in Seq(Rulings)
  OBVIOUS
<1>2. /\ seed.relations = <<>> /\ seed.bindings = <<>> /\ basis.relations = <<>>
      /\ corpus = <<>> /\ rulings = <<>> /\ named = <<>> /\ generation = <<>>
      /\ borne = [c \in CandidateIds |-> {}] /\ editions = 0 /\ byLedger \in BOOLEAN
  BY DEF IdentityInit, NoLedger
<1>3. 0 \in 0..MaxEditions
  BY DEF IdentityAssumption
<1>4. IdTyped
  BY <1>1, <1>2, <1>3 DEF IdTyped
<1>5. LedgerTells
  BY <1>1, <1>2 DEF LedgerTells
<1> QED BY <1>1, <1>2, <1>4, <1>5 DEF IdInv

\* Every step keeps the invariant, and a kept ledger the names.
LEMMA IdStep ==
  ASSUME IdentityAssumption, IdInv, [IdentityNext]_identityVars
  PROVE  IdInv' /\ (byLedger => \A c \in DOMAIN named : named'[c] \in Heritage(c))
<1> DEFINE Aside == UNCHANGED <<byLedger, seed, named, generation, basis, borne>>
<1>1. ASSUME Aside, IdTyped'
      PROVE  IdInv' /\ (byLedger => \A c \in DOMAIN named : named'[c] \in Heritage(c))
  <2>1. IdInv'
    BY <1>1 DEF IdInv, LedgerTells, Together, Closed
  <2>2. ASSUME NEW c \in DOMAIN named PROVE named'[c] \in Heritage(c)
    <3>1. named'[c] \in borne[c]
      BY <1>1 DEF IdInv
    <3> QED BY <3>1 DEF Heritage
  <2> QED BY <2>1, <2>2
<1>2. CASE DocumentCites
  <2>1. Aside /\ UNCHANGED rulings
    BY <1>2 DEF DocumentCites
  <2>2. PICK c \in CandidateIds, cites \in Citations :
          \E content \in 1..2 :
            corpus' = Over([d \in {c} |-> [content |-> content, cites |-> cites]], corpus)
    <3>1. \A c \in CandidateIds : (IF c \in DOMAIN corpus THEN 1..2 ELSE {1}) \subseteq 1..2
      OBVIOUS
    <3> QED BY <1>2, <3>1 DEF DocumentCites
  <2>3. /\ DOMAIN corpus' = {c} \cup DOMAIN corpus
        /\ \A d \in DOMAIN corpus' : corpus'[d].cites \in Citations
    BY <2>2 DEF Over, IdInv, IdTyped
  <2>4. editions' \in 0..MaxEditions
    BY <1>2 DEF DocumentCites, Edition, IdInv, IdTyped, IdentityAssumption
  <2>5. IdTyped'
    BY <2>1, <2>3, <2>4 DEF IdInv, IdTyped
  <2> QED BY <1>1, <2>1, <2>5
<1>3. CASE Rule
  <2>1. Aside /\ UNCHANGED corpus
    BY <1>3 DEF Rule
  <2>2. rulings' \in Seq(Rulings)
    <3>1. PICK r \in Rulings : rulings' \in {Append(rulings, r), <<r>>}
      BY <1>3 DEF Rule
    <3>2. rulings \in Seq(Rulings)
      BY DEF IdInv, IdTyped
    <3>3. Append(rulings, r) \in Seq(Rulings) /\ <<r>> \in Seq(Rulings)
      BY <3>2
    <3> QED BY <3>1, <3>3
  <2>3. editions' \in 0..MaxEditions
    BY <1>3 DEF Rule, Edition, IdInv, IdTyped, IdentityAssumption
  <2>4. IdTyped'
    BY <2>1, <2>2, <2>3 DEF IdInv, IdTyped
  <2> QED BY <1>1, <2>1, <2>4
<1>4. CASE IdentityPass
  BY <1>4, PassKeeps
<1>5. CASE UNCHANGED identityVars
  <2>1. Aside /\ UNCHANGED <<corpus, rulings, editions>>
    BY <1>5 DEF identityVars
  <2>2. IdTyped'
    BY <2>1 DEF IdInv, IdTyped
  <2> QED BY <1>1, <2>1, <2>2
<1> QED BY <1>2, <1>3, <1>4, <1>5 DEF IdentityNext

\* Events are what the relations make them, whatever the order they are written in, and a
\* newcomer never names an event that has a name (IdentityStands; identity/engine.py,
\* identity/ledger.py).
THEOREM EventsStand == ASSUME IdentityAssumption PROVE IdentitySpec => IdentityStands
<1> DEFINE Kept == byLedger => \A c \in DOMAIN named : named'[c] \in Heritage(c)
<1>1. IdentityInit => IdInv
  BY IdStarts
<1>2. IdInv /\ [IdentityNext]_identityVars => IdInv' /\ [Kept]_identityVars
  BY IdStep
<1>3. IdInv => MembersAreRelated
  BY IdInvGives
<1> QED BY <1>1, <1>2, <1>3, PTL DEF IdentitySpec, IdentityStands, NamesStand

\* What the corpus, the ledger and the names may be (IdentityTypeOK).
LEMMA IdentityTyped == ASSUME IdentityAssumption PROVE IdentitySpec => []IdentityTypeOK
<1>1. IdentityInit => IdInv
  BY IdStarts
<1>2. IdInv /\ [IdentityNext]_identityVars => IdInv'
  BY IdStep
<1>3. IdInv => IdentityTypeOK
  BY IdInvGives
<1> QED BY <1>1, <1>2, <1>3, PTL DEF IdentitySpec
=============================================================================
