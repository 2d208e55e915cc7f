---------------------------- MODULE ReckoningProofs ----------------------------
(***************************************************************************)
(* The engines that reckon, cash, settlement, tax recovery, market claims  *)
(* and securities: what they compute is a fold over a list or a set, and   *)
(* what is proved of it goes through either by the facts of FoldFacts.     *)
(* At the end, all the engines of MCDomain together: those of DomainProofs *)
(* and these.                                                              *)
(***************************************************************************)
EXTENDS DomainProofs, MCDomain, FiniteSetTheorems, TLAPS

-----------------------------------------------------------------------------
(***************************************************************************)
(* Cash.  An item of the reconciliation takes what no earlier one took,    *)
(* unless it is twinned; so two items that mention one movement are of     *)
(* twins, and a MATCH has its movement for itself.                         *)
(***************************************************************************)
ReckonedUpTo(k, done) ==
  /\ done.used = UNION {i.movements : i \in done.items}
  /\ \A i \in done.items :
       /\ i.line \in 1..k
       /\ i.movements \subseteq ValidMovements
       /\ i.status = CashStatus(i.line, i.movements)
       /\ IsEntitled(held[i.line]) => \A m \in i.movements : KeyMatch(m, held[i.line])
  /\ \A i, j \in done.items : i.line = j.line => i = j
  /\ \A i, j \in done.items :
       i.line < j.line /\ i.movements \cap j.movements # {} =>
         IsEntitled(held[j.line]) /\ Twinned(j.line)

NothingDone == [used |-> {}, items |-> {}]
ReckonedOf(s, done) == \A k \in Nat : s = 1..k => ReckonedUpTo(k, done)
Reckoning == INSTANCE FoldFacts WITH
  Step <- Visit, Base <- NothingDone, Pick <- Max, Holds <- ReckonedOf

LEMMA LastIsMax == ASSUME NEW k \in Nat \ {0} PROVE Max(1..k) = k /\ (1..k) \ {k} = 1..(k - 1)
<1>1. \A x \in 1..k : x <= k /\ k \in 1..k
  OBVIOUS
<1>2. Max(1..k) \in 1..k /\ Max(1..k) >= k
  BY <1>1 DEF Max
<1>3. Max(1..k) = k
  BY <1>2, <1>1
<1>4. (1..k) \ {k} = 1..(k - 1)
  OBVIOUS
<1> QED BY <1>3, <1>4

\* A set of natural numbers up to n has a greatest element.
LEMMA MaxIsIn ==
  ASSUME NEW n \in Nat, NEW s \in SUBSET (1..n), s # {}
  PROVE  Max(s) \in s
<1> DEFINE left == {n - x : x \in s}
<1>1. left \in SUBSET Nat /\ left # {}
  <2>1. \A x \in s : n - x \in Nat
    OBVIOUS
  <2>2. PICK x : x \in s
    OBVIOUS
  <2>3. n - x \in left
    BY <2>2
  <2> QED BY <2>1, <2>3
<1> HIDE DEF left
<1>2. PICK r \in left : \A q \in left : r <= q
  BY <1>1, Reckoning!Least
<1>3. PICK x \in s : r = n - x
  BY DEF left
<1>4. \A y \in s : n - y \in left
  BY DEF left
<1>5. \A y \in s : x >= y
  BY <1>2, <1>3, <1>4
<1> QED BY <1>3, <1>5 DEF Max

LEMMA VisitedIsFold ==
  ASSUME held \in Seq(Lines)
  PROVE  \E f : Reckoning!IsFold(f, 1..Len(held)) /\ Visited = f[1..Len(held)]
<1> DEFINE n == Len(held)
           places == [k \in DOMAIN held |-> k]
           E(f) == f = [s \in SUBSET (DOMAIN places) |->
                          IF s = {} THEN NothingDone ELSE Visit(f[s \ {Max(s)}], places[Max(s)])]
<1>0. n \in Nat /\ DOMAIN held = 1..n /\ DOMAIN places = 1..n
  OBVIOUS
<1>1. Visited = (CHOOSE f : E(f))[DOMAIN places]
  BY DEF Visited, FoldLeft, MapThenFoldSet, NothingDone
<1>2. \A s \in SUBSET (1..n) : s # {} => Max(s) \in s
  BY <1>0, MaxIsIn
<1>3. PICK g : Reckoning!IsFold(g, 1..n)
  <2> HIDE DEF n
  <2>1. IsFiniteSet(1..n)
    BY <1>0, FS_Interval
  <2>2. Reckoning!IsFiniteSet(1..n)
    BY <2>1 DEF IsFiniteSet, Reckoning!IsFiniteSet
  <2>3. Reckoning!Picks(1..n)
    BY <1>2 DEF Reckoning!Picks
  <2> QED BY <2>2, <2>3, Reckoning!FoldExists
<1>4. \A s \in SUBSET (1..n) : s # {} => places[Max(s)] = Max(s)
  BY <1>0, <1>2
<1>5. \A f : E(f) <=> Reckoning!IsFold(f, 1..n)
  <2> HIDE DEF places, n
  <2> QED BY <1>0, <1>4, Zenon DEF Reckoning!IsFold
<1> HIDE DEF E, places, n
<1>6. E(g)
  BY <1>3, <1>5
<1>7. Reckoning!IsFold(CHOOSE f : E(f), 1..n)
  <2>1. E(CHOOSE f : E(f))
    BY <1>6
  <2> QED BY <1>5, <2>1
<1> QED BY <1>0, <1>1, <1>7 DEF n

-----------------------------------------------------------------------------
LEMMA VisitReckons ==
  ASSUME NEW k \in Nat \ {0}, NEW v, ReckonedUpTo(k - 1, v)
  PROVE  ReckonedUpTo(k, Visit(v, k))
<1> DEFINE took == Taken(k, v.used)
           new == Item(k, CashStatus(k, took), took)
           done == Visit(v, k)
<1>1. done.used = v.used \cup took /\ done.items = v.items \cup {new}
  BY DEF Visit
<1>2. new.line = k /\ new.status = CashStatus(k, took) /\ new.movements = took
  BY DEF Item
<1>3. took \subseteq ValidMovements
  BY DEF Taken
<1>4. IsEntitled(held[k]) => \A m \in took : KeyMatch(m, held[k])
  BY DEF Taken
<1>5. took \cap v.used # {} => IsEntitled(held[k]) /\ Twinned(k)
  BY DEF Taken
<1> HIDE DEF took, new, done
<1>6. done.used = UNION {i.movements : i \in done.items}
  <2>1. v.used = UNION {i.movements : i \in v.items}
    BY DEF ReckonedUpTo
  <2> QED BY <1>1, <1>2, <2>1
<1>7. \A i \in v.items : /\ i.line \in 1..(k - 1)
                         /\ i.movements \subseteq ValidMovements
                         /\ i.status = CashStatus(i.line, i.movements)
                         /\ IsEntitled(held[i.line]) => \A m \in i.movements : KeyMatch(m, held[i.line])
                         /\ i.movements \subseteq v.used
  BY DEF ReckonedUpTo
<1>8. \A i \in done.items : /\ i.line \in 1..k
                            /\ i.movements \subseteq ValidMovements
                            /\ i.status = CashStatus(i.line, i.movements)
                            /\ IsEntitled(held[i.line]) => \A m \in i.movements : KeyMatch(m, held[i.line])
  <2>1. k \in 1..k /\ 1..(k - 1) \subseteq 1..k
    OBVIOUS
  <2> QED BY <1>1, <1>2, <1>3, <1>4, <1>7, <2>1
<1>9. \A i, j \in v.items :
        /\ i.line = j.line => i = j
        /\ i.line < j.line /\ i.movements \cap j.movements # {} => IsEntitled(held[j.line]) /\ Twinned(j.line)
  BY DEF ReckonedUpTo
<1>10. \A i \in v.items : i.line < new.line /\ ~(new.line < i.line)
  BY <1>2, <1>7
<1>11. \A i, j \in done.items : i.line = j.line => i = j
  <2>1. \A i \in v.items : i.line # new.line
    BY <1>2, <1>7
  <2> QED BY <1>1, <1>9, <2>1
<1>12. \A i, j \in done.items :
         i.line < j.line /\ i.movements \cap j.movements # {} => IsEntitled(held[j.line]) /\ Twinned(j.line)
  <2> SUFFICES ASSUME NEW i \in done.items, NEW j \in done.items, i.line < j.line,
                      i.movements \cap j.movements # {}
               PROVE  IsEntitled(held[j.line]) /\ Twinned(j.line)
    OBVIOUS
  <2>1. i \in v.items
    BY <1>1, <1>2, <1>10
  <2>2. CASE j \in v.items
    BY <1>9, <2>1, <2>2
  <2>3. CASE j = new
    <3>1. i.movements \subseteq v.used
      BY <1>7, <2>1
    <3> QED BY <1>2, <1>5, <2>3, <3>1
  <2> QED BY <1>1, <2>2, <2>3
<1> QED BY <1>6, <1>8, <1>11, <1>12 DEF ReckonedUpTo, done

LEMMA VisitedReckons ==
  ASSUME held \in Seq(Lines)
  PROVE  ReckonedUpTo(Len(held), Visited)
<1> DEFINE n == Len(held)
<1>0. n \in Nat
  OBVIOUS
<1>1. PICK f : Reckoning!IsFold(f, 1..n) /\ Visited = f[1..n]
  BY VisitedIsFold
<1> HIDE DEF n
<1>2. Reckoning!Picks(1..n) /\ Reckoning!IsFiniteSet(1..n)
  <2>1. IsFiniteSet(1..n)
    BY <1>0, FS_Interval
  <2> QED BY <1>0, <2>1, MaxIsIn DEF Reckoning!Picks, IsFiniteSet, Reckoning!IsFiniteSet
<1>3. ReckonedOf({}, NothingDone)
  <2>1. ASSUME NEW k \in Nat PROVE ReckonedUpTo(k, NothingDone)
    BY DEF ReckonedUpTo, NothingDone
  <2> QED BY <2>1 DEF ReckonedOf
<1>4. ASSUME NEW s \in SUBSET (1..n), NEW v, s # {}, ReckonedOf(s \ {Max(s)}, v)
      PROVE  ReckonedOf(s, Visit(v, Max(s)))
  <2> SUFFICES ASSUME NEW k \in Nat, s = 1..k
               PROVE  ReckonedUpTo(k, Visit(v, Max(s)))
    BY DEF ReckonedOf
  <2>1. k \in Nat \ {0} /\ k - 1 \in Nat
    BY <1>4
  <2>2. Max(s) = k /\ s \ {Max(s)} = 1..(k - 1)
    BY <2>1, LastIsMax
  <2>3. ReckonedUpTo(k - 1, v)
    BY <1>4, <2>1, <2>2 DEF ReckonedOf
  <2> QED BY <2>1, <2>2, <2>3, VisitReckons
<1>5. ReckonedOf(1..n, f[1..n])
  BY <1>1, <1>2, <1>3, <1>4, Reckoning!FoldInduction
<1> QED BY <1>0, <1>1, <1>5 DEF ReckonedOf, n

-----------------------------------------------------------------------------
CashInv == held \in Seq(Lines) /\ IsFiniteSet(booked)

LEMMA CashInvCounts == CashInv => CashCountedOnce
<1> SUFFICES ASSUME CashInv, NEW m \in ValidMovements
             PROVE  LET at == {i \in Reconciled : m \in i.movements} IN
                    /\ at # {}
                    /\ Cardinality(at) > 1 => \E i \in at : i.line # Absent /\ Twinned(i.line)
                    /\ \A i \in at : i.status = "MATCH" => at = {i} /\ i.movements = {m}
  BY DEF CashCountedOnce
<1> DEFINE at == {i \in Reconciled : m \in i.movements}
           n == Len(held)
<1>1. ReckonedUpTo(n, Visited)
  BY VisitedReckons DEF CashInv
<1>2. n \in Nat
  BY DEF CashInv
<1> DEFINE Over(x) == Item(Absent, "UNEXPECTED_CASH", {x})
<1>3. \A i : i \in at <=> ((i \in Visited.items /\ m \in i.movements)
                           \/ (m \notin Visited.used /\ i = Over(m)))
  <2>1. \A x : Over(x).movements = {x}
    BY DEF Item
  <2>2. Reconciled = Visited.items \cup {Over(x) : x \in ValidMovements \ Visited.used}
    BY DEF Reconciled
  <2> HIDE DEF Over
  <2> QED BY <2>1, <2>2
<1> HIDE DEF n
<1>4. m \in Visited.used <=> \E i \in Visited.items : m \in i.movements
  BY <1>1 DEF ReckonedUpTo
<1>5. Over(m).line = Absent /\ Over(m).status = "UNEXPECTED_CASH" /\ Over(m).movements = {m}
  BY DEF Item
<1> HIDE DEF at, Over
<1>6. at # {}
  <2>1. CASE m \in Visited.used
    BY <1>3, <1>4, <2>1
  <2>2. CASE m \notin Visited.used
    <3>1. Over(m) \in at
      BY <1>3, <2>2
    <3> QED BY <3>1
  <2> QED BY <2>1, <2>2
<1>7. m \notin Visited.used => at = {Over(m)}
  BY <1>3, <1>4
<1>8. ASSUME NEW i \in at, NEW j \in at, i # j
      PROVE  /\ m \in Visited.used /\ i \in Visited.items /\ j \in Visited.items
             /\ i.line \in 1..n /\ j.line \in 1..n
             /\ \/ i.line < j.line /\ IsEntitled(held[j.line]) /\ Twinned(j.line)
                \/ j.line < i.line /\ IsEntitled(held[i.line]) /\ Twinned(i.line)
  <2>1. m \in Visited.used
    BY <1>7, <1>8
  <2>2. i \in Visited.items /\ j \in Visited.items /\ m \in i.movements \cap j.movements
    BY <1>3, <2>1
  <2>3. i.line \in 1..n /\ j.line \in 1..n /\ i.line # j.line
    BY <1>1, <1>8, <2>2 DEF ReckonedUpTo
  <2>4. i.line < j.line \/ j.line < i.line
    BY <1>2, <2>3
  <2> QED BY <1>1, <2>1, <2>2, <2>3, <2>4 DEF ReckonedUpTo
<1>9. Cardinality(at) > 1 => \E i \in at : i.line # Absent /\ Twinned(i.line)
  <2> SUFFICES ASSUME Cardinality(at) > 1
               PROVE  \E i \in at : i.line # Absent /\ Twinned(i.line)
    OBVIOUS
  <2>1. PICK i \in at : TRUE
    BY <1>6
  <2>2. at # {i}
    <3>1. Cardinality({i}) = 1
      BY FS_Singleton
    <3> QED BY <3>1
  <2>3. PICK j \in at : j # i
    BY <2>1, <2>2
  <2>4. i.line # Absent /\ j.line # Absent
    BY <1>2, <1>8, <2>1, <2>3 DEF Absent
  <2> QED BY <1>8, <2>1, <2>3, <2>4
<1>10. ASSUME NEW i \in at, i.status = "MATCH"
       PROVE  at = {i} /\ i.movements = {m}
  <2>1. i \in Visited.items /\ m \in i.movements
    BY <1>3, <1>5, <1>10
  <2>2. i.line \in 1..n /\ CashStatus(i.line, i.movements) = "MATCH" /\ i.movements \subseteq booked
    BY <1>1, <1>10, <2>1 DEF ReckonedUpTo, ValidMovements
  <2>3. IsEntitled(held[i.line]) /\ ~Twinned(i.line) /\ ~(Cardinality(i.movements) > 1)
    BY <2>2 DEF CashStatus
  <2>4. i.movements = {m}
    <3>1. IsFiniteSet(i.movements)
      BY <2>2, FS_Subset DEF CashInv
    <3>2. Cardinality(i.movements) = 1
      BY <2>1, <2>3, <3>1, FS_CardinalityType, FS_EmptySet
    <3> QED BY <2>1, <3>1, <3>2, FS_Singleton
  <2>5. ASSUME NEW j \in at, j # i PROVE FALSE
    <3>1. /\ m \in Visited.used /\ j \in Visited.items /\ j.line \in 1..n
          /\ i.line < j.line /\ IsEntitled(held[j.line]) /\ Twinned(j.line)
      BY <1>8, <2>3, <2>5
    <3>2. m \in j.movements
      BY <1>3, <3>1
    <3>3. KeyMatch(m, held[i.line]) /\ KeyMatch(m, held[j.line])
      BY <1>1, <2>1, <2>3, <3>1, <3>2 DEF ReckonedUpTo
    <3>4. held[i.line].account = held[j.line].account
      BY <3>3 DEF KeyMatch, Linked
    <3>5. j.line # i.line /\ j.line \in DOMAIN held
      BY <1>2, <2>2, <3>1 DEF CashInv, n
    <3> QED BY <2>3, <3>1, <3>4, <3>5 DEF Twinned
  <2> QED BY <1>10, <2>4, <2>5
<1> QED BY <1>6, <1>9, <1>10 DEF at

CashSpec == CashInit /\ [][CashNext]_cashVars

LEMMA CashInvStep == CashInv /\ [CashNext]_cashVars => CashInv'
<1> SUFFICES ASSUME CashInv, [CashNext]_cashVars PROVE CashInv'
  OBVIOUS
<1> USE DEF CashInv
<1>1. CASE FactsRevised
  BY <1>1 DEF FactsRevised
<1>2. CASE LineDelivered
  <2>1. PICK l \in Lines : held' = Append(held, l)
    BY <1>2 DEF LineDelivered
  <2> QED BY <1>2, <2>1 DEF LineDelivered
<1>3. CASE CashBooked
  <2>1. PICK m : booked' = booked \cup {m}
    BY <1>3 DEF CashBooked
  <2> QED BY <1>3, <2>1, FS_AddElement DEF CashBooked
<1>4. CASE NetComputed
  BY <1>4 DEF NetComputed
<1>5. CASE UNCHANGED cashVars
  BY <1>5 DEF cashVars
<1> QED BY <1>1, <1>2, <1>3, <1>4, <1>5 DEF CashNext

\* Whatever positions and movements are delivered and facts revised, every valid
\* movement is in the reconciliation, twice only for twins, and a MATCH has its
\* movement for itself (reconciliation.py, reconcile).
THEOREM CashIsCounted == CashSpec => [](CashTypeOK /\ CashCountedOnce)
<1>1. CashInit => CashInv
  <2>1. IsFiniteSet({}) /\ <<>> \in Seq(Lines)
    BY FS_EmptySet
  <2> QED BY <2>1 DEF CashInit, CashInv
<1>2. CashInit => CashTypeOK
  BY DEF CashInit, CashTypeOK
<1>3. CashTypeOK /\ [CashNext]_cashVars => CashTypeOK'
  <2> SUFFICES ASSUME CashTypeOK, [CashNext]_cashVars PROVE CashTypeOK'
    OBVIOUS
  <2> USE DEF CashTypeOK
  <2>1. CASE FactsRevised
    BY <2>1 DEF FactsRevised
  <2>2. CASE LineDelivered
    <3>1. PICK l \in Lines : held' = Append(held, l)
      BY <2>2 DEF LineDelivered
    <3> QED BY <2>2, <3>1 DEF LineDelivered
  <2>3. CASE CashBooked
    BY <2>3 DEF CashBooked
  <2>4. CASE NetComputed
    BY <2>4 DEF NetComputed
  <2>5. CASE UNCHANGED cashVars
    BY <2>5 DEF cashVars
  <2> QED BY <2>1, <2>2, <2>3, <2>4, <2>5 DEF CashNext
<1> QED BY <1>1, <1>2, <1>3, CashInvStep, CashInvCounts, PTL DEF CashSpec

-----------------------------------------------------------------------------
(***************************************************************************)
(* The settlement feed.                                                    *)
(***************************************************************************)
MailRead == UNION {{Observe(m)} : m \in Mails}
RefOrNone == Refs \cup {NoRef}

LEMMA FirstIsFact ==
  ASSUME FeedAssumption, NEW m \in Mails, NEW qs, Facts(m, qs) # {}
  PROVE  First(m, qs) \in ToSet(m.facts) /\ First(m, qs).q \in qs
<1> DEFINE s == Facts(m, qs)
<1>1. DOMAIN m.facts = 1..Len(m.facts) /\ Len(m.facts) \in Nat
  BY DEF FeedAssumption
<1>2. s \in SUBSET Nat /\ s # {}
  BY <1>1 DEF Facts
<1> HIDE DEF s
<1>3. PICK n \in s : \A k \in s : n <= k
  BY <1>2, Reckoning!Least
<1>4. Min(s) \in s
  BY <1>3 DEF Min
<1> QED BY <1>4 DEF Facts, First, ToSet, s

Quantities == {"36B:SETT", "36B:ESTT", "36B:PSTA", "SttlmQty", "SttldQty", "PrevslySttldQty"}
KeyFields == {"20C:SEME", "20C:MITI", "AcctSvcrTxId", "TxId", "MktInfrstrctrTxId"}

LEMMA SaysType ==
  ASSUME FeedAssumption, NEW m \in Mails, NEW qs
  PROVE  /\ qs \subseteq Quantities => Says(m, qs, 0) \in Nat
         /\ qs \subseteq KeyFields => Says(m, qs, NoRef) \in RefOrNone
<1>1. CASE Facts(m, qs) = {}
  BY <1>1 DEF Says, RefOrNone
<1>2. CASE Facts(m, qs) # {}
  <2>1. First(m, qs) \in ToSet(m.facts) /\ First(m, qs).q \in qs
    BY <1>2, FirstIsFact
  <2>2. qs \subseteq Quantities => First(m, qs).v \in Nat
    BY <2>1 DEF FeedAssumption, Quantities
  <2>3. qs \subseteq KeyFields => First(m, qs).v \in Refs
    BY <2>1 DEF FeedAssumption, KeyFields
  <2> QED BY <1>2, <2>2, <2>3 DEF Says, RefOrNone
<1> QED BY <1>1, <1>2

Kinds == {"INSTRUCTION", "CONFIRMATION", "STATUS", "UNSUPPORTED"}
Processings == {"CANCELLED", "REJECTED", "OTHER", "NONE", "CONFLICTING_CHOICE"}
Matchings == {"MATCHED", "UNMATCHED", "NONE", "CONFLICTING_CHOICE"}
Reading ==
  [no : {m.no : m \in Mails}, name : {m.name : m \in Mails}, kind : Kinds, own : RefOrNone,
   market : RefOrNone, asks : Nat, settles : Nat, before : Nat, process : Processings,
   matching : Matchings, cancels : BOOLEAN]

LEMMA ObserveType ==
  ASSUME FeedAssumption, NEW m \in Mails
  PROVE  Observe(m) \in Reading /\ Observe(m).no = m.no
<1>1. KindOf(m.name) \in Kinds
  BY DEF KindOf, Kinds
<1>2. ASSUME NEW f PROVE Processing(f) \in Processings /\ Matching(f) \in Matchings
  BY DEF Processing, Matching, Processings, Matchings
<1>3. ASSUME NEW a \in Nat, NEW b \in Nat, NEW c \in Nat, NEW p \in Processings, NEW q \in Matchings,
             NEW o \in RefOrNone, NEW k \in RefOrNone
      PROVE  LET x == Observation(m, a, b, c, p, q, o, k) IN x \in Reading /\ x.no = m.no
  BY <1>1, <1>3 DEF Observation, Reading
<1>4. MtObservation(m) \in Reading /\ MtObservation(m).no = m.no
  <2> DEFINE confirms == KindOf(m.name) = "CONFIRMATION"
             settled == {"36B:ESTT"} \cup (IF confirms THEN {"36B:SETT"} ELSE {})
             asks == IF confirms THEN 0 ELSE Says(m, {"36B:SETT"}, 0)
             process == IF Facts(m, {"25D:IPRC", "25D:CPRC"}) = {} THEN "NONE"
                        ELSE Processing(First(m, {"25D:IPRC", "25D:CPRC"}))
             matching == IF Facts(m, {"25D:MTCH"}) = {} THEN "NONE" ELSE Matching(First(m, {"25D:MTCH"}))
  <2>1. asks \in Nat /\ Says(m, settled, 0) \in Nat /\ Says(m, {"36B:PSTA"}, 0) \in Nat
    <3>1. {"36B:SETT"} \subseteq Quantities /\ settled \subseteq Quantities /\ {"36B:PSTA"} \subseteq Quantities
      BY DEF Quantities
    <3> HIDE DEF settled
    <3> QED BY <3>1, SaysType
  <2>2. Says(m, {"20C:SEME"}, NoRef) \in RefOrNone /\ Says(m, {"20C:MITI"}, NoRef) \in RefOrNone
    BY SaysType DEF KeyFields
  <2>3. process \in Processings /\ matching \in Matchings
    <3>1. "NONE" \in Processings /\ "NONE" \in Matchings
      BY DEF Processings, Matchings
    <3> QED BY <1>2, <3>1
  <2>4. MtObservation(m) = Observation(m, asks, Says(m, settled, 0), Says(m, {"36B:PSTA"}, 0), process,
                                       matching, Says(m, {"20C:SEME"}, NoRef), Says(m, {"20C:MITI"}, NoRef))
    BY DEF MtObservation
  <2> HIDE DEF asks, settled, process, matching
  <2> QED BY <1>3, <2>1, <2>2, <2>3, <2>4
<1>5. MxObservation(m) \in Reading /\ MxObservation(m).no = m.no
  <2> DEFINE kind == KindOf(m.name)
             none(q) == kind # "STATUS" \/ Facts(m, {q}) = {}
             many(q) == Cardinality(Facts(m, {q})) > 1
             match(q) == IF none(q) THEN "NONE" ELSE IF many(q) THEN "CONFLICTING_CHOICE"
                         ELSE Matching(First(m, {q}))
             asks == IF kind = "CONFIRMATION" THEN 0 ELSE Says(m, {"SttlmQty"}, 0)
             settles == IF kind = "INSTRUCTION" THEN 0 ELSE Says(m, {"SttldQty"}, 0)
             before == IF kind = "INSTRUCTION" THEN 0 ELSE Says(m, {"PrevslySttldQty"}, 0)
             process == IF none("PrcgSts") THEN "NONE" ELSE IF many("PrcgSts") THEN "CONFLICTING_CHOICE"
                        ELSE Processing(First(m, {"PrcgSts"}))
             matching == IF match("MtchgSts") = "NONE" THEN match("IfrdMtchgSts") ELSE match("MtchgSts")
  <2>1. asks \in Nat /\ settles \in Nat /\ before \in Nat
    BY SaysType DEF Quantities
  <2>2. Says(m, {"AcctSvcrTxId", "TxId"}, NoRef) \in RefOrNone /\ Says(m, {"MktInfrstrctrTxId"}, NoRef) \in RefOrNone
    BY SaysType DEF KeyFields
  <2>3. process \in Processings /\ matching \in Matchings
    <3>1. \A t \in {"NONE", "CONFLICTING_CHOICE"} : t \in Processings /\ t \in Matchings
      BY DEF Processings, Matchings
    <3>2. \A q : match(q) \in Matchings
      BY <1>2, <3>1
    <3> HIDE DEF match
    <3> QED BY <1>2, <3>1, <3>2
  <2>4. MxObservation(m) = Observation(m, asks, settles, before, process, matching,
                             Says(m, {"AcctSvcrTxId", "TxId"}, NoRef), Says(m, {"MktInfrstrctrTxId"}, NoRef))
    BY DEF MxObservation
  <2> HIDE DEF asks, settles, before, process, matching
  <2> QED BY <1>3, <2>1, <2>2, <2>3, <2>4
<1> QED BY <1>4, <1>5 DEF Observe

-----------------------------------------------------------------------------
(* One observation in a transaction.                                       *)

Contents == {Meaning(x) : x \in Reading}
Txs ==
  [own : RefOrNone, market : RefOrNone, obs : SUBSET MailNumbers, contents : SUBSET Contents,
   asks : Nat, settled : Nat, instructed : BOOLEAN, advised : BOOLEAN, confirmed : BOOLEAN,
   process : Processings, matching : Matchings, cancelled : BOOLEAN, conflict : BOOLEAN]

LEMMA MaxOfTwo == ASSUME NEW a \in Nat, NEW b \in Nat PROVE Max({a, b}) \in Nat
<1>1. \E x \in {a, b} : \A y \in {a, b} : x >= y
  <2>1. CASE a >= b
    BY <2>1
  <2>2. CASE ~(a >= b)
    BY <2>2
  <2> QED BY <2>1, <2>2
<1> QED BY <1>1 DEF Max

\* A statement of a part adds it, one of the total replaces what was known.
LEMMA ConsolidatedFacts ==
  ASSUME NEW t \in Txs, NEW m \in Reading
  PROVE  LET u == Consolidated(t, m) IN
         /\ u \in Txs /\ u = [t EXCEPT !.settled = u.settled]
         /\ m.settles = 0 => u = t
         /\ m.settles > 0 /\ ~Cumulative(m) => u.settled = t.settled + m.settles
<1>1. t.settled \in Nat /\ m.settles \in Nat /\ m.before \in Nat
  BY DEF Txs, Reading
<1>2. Max({t.settled, m.settles + m.before}) \in Nat
  BY <1>1, MaxOfTwo
<1>3. \A n \in Nat : [t EXCEPT !.settled = n] \in Txs
  BY DEF Txs
<1>4. \A n : [t EXCEPT !.settled = n].settled = n
  BY DEF Txs
<1>5. t = [t EXCEPT !.settled = t.settled]
  BY DEF Txs
<1> QED BY <1>1, <1>2, <1>3, <1>4, <1>5 DEF Consolidated

\* A message adds its part where it states one.
Adds(m) == m.kind # "INSTRUCTION" /\ m.settles > 0

LEMMA ObservedFacts ==
  ASSUME NEW t \in Txs, NEW m \in Reading, m.kind # "UNSUPPORTED"
  PROVE  LET u == Noted(t, m) IN
         /\ u \in Txs
         /\ u.own = t.own /\ u.market = t.market /\ u.obs = t.obs /\ u.contents = t.contents
         /\ ~Adds(m) => u.settled = t.settled
         /\ Adds(m) /\ ~Cumulative(m) => u.settled = t.settled + m.settles
         /\ u # NoTx
<1>0. /\ m.settles \in Nat /\ m.asks \in Nat /\ m.cancels \in BOOLEAN
      /\ m.matching \in Matchings /\ m.process \in Processings
      /\ m.kind \in {"INSTRUCTION", "CONFIRMATION", "STATUS"}
  BY DEF Reading, Kinds
<1>1. ASSUME NEW v \in Txs PROVE
        /\ Consolidated(v, m) \in Txs
        /\ Consolidated(v, m).own = v.own /\ Consolidated(v, m).market = v.market
        /\ Consolidated(v, m).obs = v.obs /\ Consolidated(v, m).contents = v.contents
        /\ Consolidated(v, m).advised = v.advised /\ Consolidated(v, m).confirmed = v.confirmed
        /\ m.settles = 0 => Consolidated(v, m).settled = v.settled
        /\ m.settles > 0 /\ ~Cumulative(m) => Consolidated(v, m).settled = v.settled + m.settles
  <2>1. \A n : LET u == [v EXCEPT !.settled = n] IN
                 /\ u.own = v.own /\ u.market = v.market /\ u.obs = v.obs /\ u.contents = v.contents
                 /\ u.advised = v.advised /\ u.confirmed = v.confirmed
    BY DEF Txs
  <2> DEFINE u == Consolidated(v, m)
  <2>2. /\ u \in Txs /\ u = [v EXCEPT !.settled = u.settled]
        /\ m.settles = 0 => u = v
        /\ m.settles > 0 /\ ~Cumulative(m) => u.settled = v.settled + m.settles
    BY ConsolidatedFacts
  <2> HIDE DEF u
  <2>3. /\ u.own = v.own /\ u.market = v.market /\ u.obs = v.obs /\ u.contents = v.contents
        /\ u.advised = v.advised /\ u.confirmed = v.confirmed
    BY <2>1, <2>2
  <2> QED BY <2>2, <2>3 DEF u
<1>2. CASE m.kind = "INSTRUCTION"
  <2> DEFINE asks == IF t.asks = 0 THEN m.asks ELSE t.asks
             conflict == t.conflict \/ (t.asks > 0 /\ m.asks > 0 /\ t.asks # m.asks)
             cancelled == t.cancelled \/ m.cancels
  <2>1. asks \in Nat /\ conflict \in BOOLEAN /\ cancelled \in BOOLEAN
    BY <1>0 DEF Txs
  <2>2. Noted(t, m) = [t EXCEPT !.instructed = TRUE, !.conflict = conflict, !.asks = asks,
                                   !.cancelled = cancelled]
    BY <1>2 DEF Noted
  <2> HIDE DEF asks, conflict, cancelled
  <2> DEFINE u == Noted(t, m)
  <2>3. u \in Txs
    BY <2>1, <2>2 DEF Txs
  <2>4. /\ u.own = t.own /\ u.market = t.market /\ u.obs = t.obs /\ u.contents = t.contents
        /\ u.settled = t.settled /\ u.instructed = TRUE
    BY <2>2 DEF Txs
  <2>5. NoTx.instructed = FALSE
    BY DEF NoTx
  <2> QED BY <1>2, <2>3, <2>4, <2>5 DEF Adds
<1>3. CASE m.kind = "STATUS"
  <2> DEFINE v == [t EXCEPT !.advised = TRUE,
                            !.matching = IF m.matching = "NONE" THEN @ ELSE m.matching,
                            !.process = IF m.process = "NONE" THEN @ ELSE m.process]
  <2>1. /\ v \in Txs /\ v.own = t.own /\ v.market = t.market /\ v.obs = t.obs
        /\ v.contents = t.contents /\ v.settled = t.settled /\ v.advised = TRUE
    BY <1>0 DEF Txs
  <2>2. Noted(t, m) = Consolidated(v, m)
    BY <1>3 DEF Noted
  <2> HIDE DEF v
  <2> QED BY <1>0, <1>1, <1>3, <2>1, <2>2 DEF Adds, NoTx
<1>4. CASE m.kind = "CONFIRMATION"
  <2> DEFINE v == [t EXCEPT !.confirmed = TRUE]
  <2>1. /\ v \in Txs /\ v.own = t.own /\ v.market = t.market /\ v.obs = t.obs
        /\ v.contents = t.contents /\ v.settled = t.settled /\ v.confirmed = TRUE
    BY DEF Txs
  <2>2. Noted(t, m) = Consolidated(v, m)
    BY <1>4 DEF Noted
  <2> HIDE DEF v
  <2> QED BY <1>0, <1>1, <1>4, <2>1, <2>2 DEF Adds, NoTx
<1> QED BY <1>0, <1>2, <1>3, <1>4

\* u is t with the trace of m and what m says of the references t did not have.
TakenAs(u, t, m) ==
  /\ u \in Txs
  /\ u.own = (IF t.own = NoRef THEN m.own ELSE t.own)
  /\ u.market = (IF t.market = NoRef THEN m.market ELSE t.market)
  /\ u.obs = t.obs \cup {m.no}
  /\ u.contents = t.contents \cup {Meaning(m)}

LEMMA ContentFacts ==
  ASSUME NEW m \in Reading
  PROVE  /\ Meaning(m) \in Contents
         /\ \A x \in Reading : Meaning(x) = Meaning(m) =>
              /\ x.own = m.own /\ x.market = m.market /\ x.kind = m.kind
              /\ x.settles = m.settles /\ x.before = m.before
<1>1. \A x \in Reading : /\ Meaning(x).own = x.own /\ Meaning(x).market = x.market
                         /\ Meaning(x).kind = x.kind /\ Meaning(x).settles = x.settles
                         /\ Meaning(x).before = x.before
  BY DEF Meaning, Reading
<1> QED BY <1>1 DEF Contents

LEMMA BindFacts ==
  ASSUME NEW t \in Txs, NEW m \in Reading, m.kind # "UNSUPPORTED"
  PROVE  /\ TakenAs(Bind(t, m), t, m)
         /\ ~Adds(m) => Bind(t, m).settled = t.settled
         /\ Adds(m) /\ ~Cumulative(m) => Bind(t, m).settled = t.settled + m.settles
<1> DEFINE own == IF t.own = NoRef THEN m.own ELSE t.own
           shared == IF t.market = NoRef THEN m.market ELSE t.market
           asks == IF t = NoTx THEN m.asks ELSE t.asks
           named == [t EXCEPT !.own = own, !.market = shared, !.asks = asks]
           seen == Noted(named, m)
<1>1. own \in RefOrNone /\ shared \in RefOrNone /\ asks \in Nat /\ m.no \in MailNumbers
  BY DEF Txs, Reading, MailNumbers
<1>2. Bind(t, m) = [seen EXCEPT !.obs = @ \cup {m.no}, !.contents = @ \cup {Meaning(m)}]
  BY DEF Bind
<1> HIDE DEF own, shared, asks
<1>3. /\ named \in Txs /\ named.own = own /\ named.market = shared
      /\ named.obs = t.obs /\ named.contents = t.contents /\ named.settled = t.settled
  BY <1>1 DEF Txs
<1> HIDE DEF named
<1>4. /\ seen \in Txs /\ seen.own = own /\ seen.market = shared
      /\ seen.obs = t.obs /\ seen.contents = t.contents
      /\ ~Adds(m) => seen.settled = t.settled
      /\ Adds(m) /\ ~Cumulative(m) => seen.settled = t.settled + m.settles
  BY <1>3, ObservedFacts
<1>5. Meaning(m) \in Contents
  BY ContentFacts
<1> HIDE DEF seen
<1>6. Bind(t, m) \in Txs
  <2>1. ASSUME NEW a \in SUBSET MailNumbers, NEW b \in SUBSET Contents
        PROVE  [seen EXCEPT !.obs = a, !.contents = b] \in Txs
    BY <1>4 DEF Txs
  <2>2. seen.obs \in SUBSET MailNumbers /\ seen.contents \in SUBSET Contents
    BY <1>4 DEF Txs
  <2>3. seen.obs \cup {m.no} \in SUBSET MailNumbers /\ seen.contents \cup {Meaning(m)} \in SUBSET Contents
    BY <1>1, <1>5, <2>2
  <2>4. Bind(t, m) = [seen EXCEPT !.obs = seen.obs \cup {m.no},
                                  !.contents = seen.contents \cup {Meaning(m)}]
    BY <1>2
  <2> QED BY <2>1, <2>3, <2>4
<1>7. /\ Bind(t, m).own = own /\ Bind(t, m).market = shared /\ Bind(t, m).settled = seen.settled
      /\ Bind(t, m).obs = t.obs \cup {m.no} /\ Bind(t, m).contents = t.contents \cup {Meaning(m)}
  BY <1>2, <1>4 DEF Txs
<1> QED BY <1>4, <1>6, <1>7 DEF TakenAs, own, shared

\* x has references t has too.
Fits(x, t) ==
  /\ RefsOf(x) # {}
  /\ x.own # NoRef => t.own # NoRef
  /\ x.market # NoRef => t.market # NoRef

\* A reference that is the first one of a message that fits stays what it was.
LEMMA PrimaryKept ==
  ASSUME NEW t, NEW u, NEW m, TakenAs(u, t, m), NEW x, Fits(x, t)
  PROVE  Primary(u) = Primary(x) => Primary(t) = Primary(x)
<1>1. CASE t.own # NoRef
  BY <1>1 DEF TakenAs, Primary
<1>2. CASE t.own = NoRef
  <2>1. x.own = NoRef /\ x.market # NoRef /\ t.market # NoRef
    BY <1>2 DEF Fits, RefsOf
  <2>2. u.market = t.market
    BY <2>1 DEF TakenAs
  <2>3. \A a, b : <<"own", a>> # <<"market", b>>
    OBVIOUS
  <2> QED BY <1>2, <2>1, <2>2, <2>3 DEF Primary
<1> QED BY <1>1, <1>2

LEMMA BoundFits ==
  ASSUME NEW t, NEW u, NEW m, TakenAs(u, t, m)
  PROVE  /\ \A x : Fits(x, t) => Fits(x, u)
         /\ RefsOf(m) # {} => Fits(m, u)
         /\ RefsOf(t) \subseteq RefsOf(u)
BY DEF TakenAs, Fits, RefsOf

-----------------------------------------------------------------------------
(* The book l of transactions and the list o of orphans, made of the first  *)
(* p messages of the inbox.                                                 *)

Heard == {Observe(box[i]) : i \in 1..Len(box)}
BoxInv == box \in Seq(Mails) /\ \A i, j \in 1..Len(box) : box[i].no = box[j].no => i = j

InUse(l) == {id \in Refs : l[id] # NoTx}
Unplaceable(l, x) ==
  RefsOf(x) = {} \/ (Alike(l, x) = {} /\ \E a, b \in Candidates(l, x) : a # b)

BookTyped(l, o) ==
  /\ l \in [Refs -> Txs] /\ o \in Seq(MailNumbers)
  /\ IsFiniteSet(InUse(l))
  /\ \A id \in Refs : /\ l[id] # NoTx => id \in RefsOf(l[id])
                      /\ l[id].obs = {} => l[id] = NoTx
BookPlaced(l, o, p) ==
  /\ \A id \in Refs : \A n \in l[id].obs : \E i \in 1..p : box[i].no = n
  /\ \A n \in ToSet(o) : /\ \E i \in 1..p : box[i].no = n
                         /\ \A id \in Refs : n \notin l[id].obs
  /\ \A i \in 1..p :
       LET m == Observe(box[i]) IN m.kind # "UNSUPPORTED" => Exact(l, m) \/ m.no \in ToSet(o)
  /\ \A a, b \in Refs : \A n \in l[a].obs : n \in l[b].obs => a = b
BookOrphans(l, o) == \A x \in Heard : x.no \in ToSet(o) => Unplaceable(l, x)
BookTraces(l) ==
  /\ \A id \in Refs : \A x \in Heard : x.no \in l[id].obs =>
       Meaning(x) \in l[id].contents /\ Fits(x, l[id])
  /\ \A id \in Refs : \A c \in l[id].contents :
       \E x \in Heard : x.no \in l[id].obs /\ Meaning(x) = c

BookInv(l, o, p) ==
  BookTyped(l, o) /\ BookPlaced(l, o, p) /\ BookOrphans(l, o) /\ BookTraces(l)

LEMMA HeardFacts ==
  ASSUME FeedAssumption, BoxInv
  PROVE  /\ Len(box) \in Nat
         /\ \A i \in 1..Len(box) : /\ Observe(box[i]) \in Reading /\ Observe(box[i]).no = box[i].no
                                   /\ Observe(box[i]) \in Heard
         /\ Heard \subseteq Reading
         /\ \A x, y \in Heard : x.no = y.no => x = y
         /\ Heard = ToSet(Observations)
         /\ IsFiniteSet(Heard)
<1>1. Len(box) \in Nat /\ \A i \in 1..Len(box) : box[i] \in Mails
  BY DEF BoxInv
<1>2. \A i \in 1..Len(box) : /\ Observe(box[i]) \in Reading /\ Observe(box[i]).no = box[i].no
                             /\ Observe(box[i]) \in Heard
  BY <1>1, ObserveType DEF Heard
<1>3. Heard \subseteq Reading
  BY <1>2 DEF Heard
<1>4. \A x, y \in Heard : x.no = y.no => x = y
  BY <1>2 DEF Heard, BoxInv
<1>5. Heard = ToSet(Observations)
  <2>1. DOMAIN box = 1..Len(box)
    BY DEF BoxInv
  <2> QED BY <2>1 DEF Heard, ToSet, Observations
<1>6. IsFiniteSet(Heard)
  <2> DEFINE f == [i \in 1..Len(box) |-> Observe(box[i])]
  <2>1. f \in Surjection(1..Len(box), Heard)
    BY DEF Surjection, Heard
  <2> QED BY <1>1, <2>1, FS_Interval, FS_Surjection
<1> QED BY <1>1, <1>2, <1>3, <1>4, <1>5, <1>6

-----------------------------------------------------------------------------
(* A message taken into a transaction.                                     *)

Takes(l, k, id, m, u) ==
  /\ TakenAs(u, l[id], m) /\ k = [l EXCEPT ![id] = u]
  /\ id \in Refs /\ ~Exact(l, m) /\ RefsOf(m) # {} /\ ~Unplaceable(l, m)
  /\ l[id] = NoTx => id \in RefsOf(m)

LEMMA TakeTyped ==
  ASSUME NEW l, NEW o, BookTyped(l, o), NEW k, NEW id, NEW m, NEW u, Takes(l, k, id, m, u)
  PROVE  BookTyped(k, o)
<1>1. k \in [Refs -> Txs] /\ k[id] = u /\ \A x \in Refs \ {id} : k[x] = l[x]
  BY DEF BookTyped, Takes, TakenAs
<1>2. IsFiniteSet(InUse(k))
  <2>1. InUse(k) \subseteq InUse(l) \cup {id}
    BY <1>1 DEF InUse
  <2> QED BY <2>1, FS_AddElement, FS_Subset DEF BookTyped
<1>3. id \in RefsOf(u) /\ u.obs # {}
  <2>1. RefsOf(l[id]) \subseteq RefsOf(u) /\ u.obs # {}
    BY BoundFits DEF Takes, TakenAs
  <2>2. CASE l[id] # NoTx
    BY <2>1, <2>2 DEF BookTyped, Takes
  <2>3. CASE l[id] = NoTx
    <3>1. l[id].own = NoRef /\ l[id].market = NoRef
      BY <2>3 DEF NoTx
    <3>2. RefsOf(u) = RefsOf(m)
      BY <3>1 DEF Takes, TakenAs, RefsOf
    <3> QED BY <2>1, <2>3, <3>2 DEF Takes
  <2> QED BY <2>1, <2>2, <2>3
<1> QED BY <1>1, <1>2, <1>3 DEF BookTyped

LEMMA TakePlaced ==
  ASSUME FeedAssumption, BoxInv, NEW i \in 1..Len(box), NEW l, NEW o, BookTyped(l, o),
         BookPlaced(l, o, i - 1), NEW k, NEW id, NEW u, Takes(l, k, id, Observe(box[i]), u)
  PROVE  BookPlaced(k, o, i)
<1> DEFINE m == Observe(box[i])
<1>1. k[id] = u /\ id \in Refs /\ (\A x \in Refs \ {id} : k[x] = l[x]) /\ u.obs = l[id].obs \cup {m.no}
  BY DEF BookTyped, Takes, TakenAs
<1>2. m.no = box[i].no /\ Len(box) \in Nat /\ \A j \in 1..(i - 1) : j \in 1..i
  BY HeardFacts
<1>3. \A x \in Refs : m.no \notin l[x].obs
  BY DEF Takes, Exact
<1>4. \A x \in Refs : l[x].obs \subseteq k[x].obs
  BY <1>1
<1>5. \A x \in Refs : \A n \in k[x].obs : n \in l[x].obs \/ (n = m.no /\ x = id)
  BY <1>1
<1>6. m.no \notin ToSet(o)
  <2> SUFFICES ASSUME m.no \in ToSet(o) PROVE FALSE
    OBVIOUS
  <2>1. PICK j \in 1..(i - 1) : box[j].no = m.no
    BY DEF BookPlaced
  <2> QED BY <1>2, <2>1 DEF BoxInv
<1> HIDE DEF m
<1>7. \A x \in Refs : \A n \in k[x].obs : \E j \in 1..i : box[j].no = n
  BY <1>2, <1>5 DEF BookPlaced
<1>8. \A n \in ToSet(o) : /\ \E j \in 1..i : box[j].no = n
                          /\ \A x \in Refs : n \notin k[x].obs
  BY <1>2, <1>5, <1>6 DEF BookPlaced
<1>9. ASSUME NEW j \in 1..i, Observe(box[j]).kind # "UNSUPPORTED"
      PROVE  Exact(k, Observe(box[j])) \/ Observe(box[j]).no \in ToSet(o)
  <2>1. CASE j = i
    BY <1>1, <2>1 DEF Exact, m
  <2>2. CASE j # i
    <3>1. j \in 1..(i - 1)
      BY <2>2
    <3> QED BY <1>4, <1>9, <3>1 DEF Exact, BookPlaced
  <2> QED BY <2>1, <2>2
<1>10. \A a, b \in Refs : \A n \in k[a].obs : n \in k[b].obs => a = b
  BY <1>3, <1>5 DEF BookPlaced
<1> QED BY <1>7, <1>8, <1>9, <1>10 DEF BookPlaced

LEMMA TakeTraces ==
  ASSUME FeedAssumption, BoxInv, NEW m \in Heard, NEW l, NEW o, BookTyped(l, o), BookTraces(l),
         NEW k, NEW id, NEW u, Takes(l, k, id, m, u)
  PROVE  BookTraces(k)
<1>1. /\ k[id] = u /\ id \in Refs /\ (\A x \in Refs \ {id} : k[x] = l[x])
      /\ u.obs = l[id].obs \cup {m.no} /\ u.contents = l[id].contents \cup {Meaning(m)}
  BY DEF BookTyped, Takes, TakenAs
<1>2. ASSUME NEW a \in Refs, NEW x \in Heard, x.no \in k[a].obs
      PROVE  Meaning(x) \in k[a].contents /\ Fits(x, k[a])
  <2>1. CASE a # id
    BY <1>1, <1>2, <2>1 DEF BookTraces
  <2>2. CASE a = id /\ x.no \in l[id].obs
    <3>1. Meaning(x) \in l[id].contents /\ Fits(x, l[id])
      BY <1>1, <2>2 DEF BookTraces
    <3>2. Fits(x, u)
      BY <3>1, BoundFits DEF Takes
    <3> QED BY <1>1, <2>2, <3>1, <3>2
  <2>3. CASE a = id /\ x.no = m.no
    <3>1. x = m
      BY <2>3, HeardFacts
    <3>2. Fits(m, u)
      BY BoundFits DEF Takes
    <3> QED BY <1>1, <2>3, <3>1, <3>2
  <2> QED BY <1>1, <1>2, <2>1, <2>2, <2>3
<1>3. ASSUME NEW a \in Refs, NEW c \in k[a].contents
      PROVE  \E x \in Heard : x.no \in k[a].obs /\ Meaning(x) = c
  <2>1. CASE a # id
    BY <1>1, <1>3, <2>1 DEF BookTraces
  <2>2. CASE a = id /\ c \in l[id].contents
    BY <1>1, <2>2 DEF BookTraces
  <2>3. CASE a = id /\ c = Meaning(m)
    BY <1>1, <2>3
  <2> QED BY <1>1, <1>3, <2>1, <2>2, <2>3
<1> QED BY <1>2, <1>3 DEF BookTraces

\* An orphan stays one: its candidates remain, and no copy of it is taken elsewhere.
LEMMA TakeOrphans ==
  ASSUME FeedAssumption, BoxInv, NEW m \in Heard, NEW l, NEW o, BookTyped(l, o), BookTraces(l),
         BookOrphans(l, o), NEW k, NEW id, NEW u, Takes(l, k, id, m, u)
  PROVE  BookOrphans(k, o)
<1>1. /\ k[id] = u /\ id \in Refs /\ (\A x \in Refs \ {id} : k[x] = l[x])
      /\ u.contents = l[id].contents \cup {Meaning(m)} /\ u.obs = l[id].obs \cup {m.no}
  BY DEF BookTyped, Takes, TakenAs
<1>2. u # NoTx /\ RefsOf(l[id]) \subseteq RefsOf(u)
  BY <1>1, BoundFits DEF Takes, NoTx
<1> SUFFICES ASSUME NEW x \in Heard, x.no \in ToSet(o), RefsOf(x) # {} PROVE Unplaceable(k, x)
  BY DEF BookOrphans, Unplaceable
<1>3. Alike(l, x) = {} /\ \E a, b \in Candidates(l, x) : a # b
  BY DEF BookOrphans, Unplaceable
<1>4. Candidates(l, x) \subseteq Candidates(k, x)
  BY <1>1, <1>2 DEF Candidates
<1>5. Meaning(x) # Meaning(m)
  <2> SUFFICES ASSUME Meaning(x) = Meaning(m) PROVE FALSE
    OBVIOUS
  <2>1. x.own = m.own /\ x.market = m.market
    BY HeardFacts, ContentFacts
  <2>2. RefsOf(x) = RefsOf(m) /\ Primary(x) = Primary(m)
    BY <2>1 DEF RefsOf, Primary
  <2>3. Candidates(l, x) = Candidates(l, m) /\ Alike(l, x) = Alike(l, m)
    BY <2>2 DEF Candidates, Alike
  <2> QED BY <1>3, <2>3 DEF Takes, Unplaceable
<1>6. ASSUME NEW a \in Alike(k, x) PROVE FALSE
  <2>1. a \in Refs /\ k[a] # NoTx /\ Primary(k[a]) = Primary(x) /\ Meaning(x) \in k[a].contents
    BY <1>6 DEF Alike
  <2>2. Meaning(x) \in l[a].contents
    BY <1>1, <1>5, <2>1
  <2>3. l[a] # NoTx
    BY <2>2 DEF NoTx
  <2>4. Primary(l[a]) # Primary(x)
    BY <1>3, <2>1, <2>2, <2>3 DEF Alike
  <2>5. a = id
    BY <1>1, <2>1, <2>4
  <2>6. PICK y \in Heard : y.no \in l[id].obs /\ Meaning(y) = Meaning(x)
    BY <2>1, <2>2, <2>5 DEF BookTraces
  <2>7. Fits(y, l[id]) /\ y.own = x.own /\ y.market = x.market
    BY <1>1, <2>6, HeardFacts, ContentFacts DEF BookTraces
  <2>8. Fits(x, l[id])
    BY <2>7 DEF Fits, RefsOf
  <2>9. Primary(u) = Primary(x) => Primary(l[id]) = Primary(x)
    BY <2>8, PrimaryKept DEF Takes
  <2> QED BY <1>1, <2>1, <2>4, <2>5, <2>9
<1> QED BY <1>3, <1>4, <1>6 DEF Unplaceable

LEMMA TakeKeeps ==
  ASSUME FeedAssumption, BoxInv, NEW i \in 1..Len(box), NEW l, NEW o, BookInv(l, o, i - 1),
         NEW k, NEW id, NEW u, Takes(l, k, id, Observe(box[i]), u)
  PROVE  BookInv(k, o, i)
<1>1. Observe(box[i]) \in Heard
  BY HeardFacts
<1> QED BY <1>1, TakeTyped, TakePlaced, TakeTraces, TakeOrphans DEF BookInv

-----------------------------------------------------------------------------
(* The sum of the parts settled.                                           *)

AddPart(v, x) == x.settles + v
AnyOf(s) == CHOOSE x \in s : TRUE
IsTotal(s, v) == s # {} => v \in Nat
Summing == INSTANCE FoldFacts WITH Step <- AddPart, Base <- 0, Pick <- AnyOf, Holds <- IsTotal

LEMMA SumIsFold ==
  ASSUME NEW S, IsFiniteSet(S)
  PROVE  /\ Summing!IsFiniteSet(S) /\ Summing!Picks(S)
         /\ \E f : Summing!IsFold(f, S) /\ SumOf(S) = f[S]
<1> DEFINE E(f) == f = [s \in SUBSET S |->
                         IF s = {} THEN 0
                         ELSE (CHOOSE x \in s : TRUE).settles + f[s \ {CHOOSE x \in s : TRUE}]]
<1>1. SumOf(S) = (CHOOSE f : E(f))[S]
  BY DEF SumOf, MapThenSumSet, MapThenFoldSet
<1>2. Summing!IsFiniteSet(S) /\ Summing!Picks(S)
  BY DEF IsFiniteSet, Summing!IsFiniteSet, Summing!Picks, AnyOf
<1>3. PICK g : Summing!IsFold(g, S)
  BY <1>2, Summing!FoldExists
<1>4. \A f : E(f) <=> Summing!IsFold(f, S)
  BY Zenon DEF Summing!IsFold, AddPart, AnyOf
<1> HIDE DEF E
<1>5. E(CHOOSE f : E(f))
  BY <1>3, <1>4
<1> QED BY <1>1, <1>2, <1>4, <1>5

LEMMA SumFacts ==
  ASSUME NEW S \in SUBSET Reading, IsFiniteSet(S), NEW x \in Reading, x \notin S
  PROVE  SumOf({}) = 0 /\ SumOf(S \cup {x}) = x.settles + SumOf(S)
<1>1. SumOf({}) = 0
  <2>1. PICK f : Summing!IsFold(f, {}) /\ SumOf({}) = f[{}]
    BY SumIsFold, FS_EmptySet
  <2> QED BY <2>1 DEF Summing!IsFold
<1> DEFINE U == S \cup {x}
<1>2. IsFiniteSet(U)
  BY FS_AddElement
<1>3. PICK f : Summing!IsFold(f, S) /\ SumOf(S) = f[S]
  BY SumIsFold
<1>4. PICK g : Summing!IsFold(g, U) /\ SumOf(U) = g[U]
  BY <1>2, SumIsFold
<1>5. Summing!IsFiniteSet(U) /\ Summing!Picks(U) /\ Summing!IsFiniteSet(S) /\ Summing!Picks(S)
  BY <1>2, SumIsFold
<1> DEFINE Sums == Nat
<1>6. /\ 0 \in Sums
      /\ \A v \in Sums, y \in U : AddPart(v, y) \in Sums
      /\ \A v \in Sums, y, z \in U : AddPart(AddPart(v, y), z) = AddPart(AddPart(v, z), y)
  <2>1. \A y \in U : y.settles \in Nat
    BY DEF Reading
  <2> QED BY <2>1 DEF AddPart
<1>7. U \ {x} = S /\ x \in U /\ S \subseteq U
  OBVIOUS
<1> HIDE DEF U, Sums
<1>8. \A s \in SUBSET U : g[s] \in Sums /\ \A y \in s : g[s] = AddPart(g[s \ {y}], y)
  BY <1>4, <1>5, <1>6, Summing!FoldAnyLast
<1>9. g[U] = AddPart(g[S], x)
  BY <1>7, <1>8
<1>10. f[S] = g[S]
  BY <1>3, <1>4, <1>5, <1>7, Summing!FoldsAgree
<1> QED BY <1>1, <1>3, <1>4, <1>9, <1>10 DEF AddPart, U

-----------------------------------------------------------------------------
\* One message for each content of P: the copy that came first.
Earliest(P) ==
  {m \in P : \A n \in P : Meaning(n) = Meaning(m) =>
               \E i, j \in DOMAIN box : i <= j /\ box[i].no = m.no /\ box[j].no = n.no}

LEMMA EarliestGrows ==
  ASSUME FeedAssumption, BoxInv, NEW i \in 1..Len(box), NEW P \in SUBSET Heard,
         \A y \in P : \E j \in 1..(i - 1) : box[j].no = y.no
  PROVE  LET m == Observe(box[i]) IN
         /\ m \notin P
         /\ (\E y \in P : Meaning(y) = Meaning(m)) => Earliest(P \cup {m}) = Earliest(P)
         /\ ~(\E y \in P : Meaning(y) = Meaning(m)) => Earliest(P \cup {m}) = Earliest(P) \cup {m}
<1> DEFINE m == Observe(box[i])
           Before(y, z) == \E a, b \in DOMAIN box : a <= b /\ box[a].no = y.no /\ box[b].no = z.no
<1>1. m.no = box[i].no /\ DOMAIN box = 1..Len(box) /\ Len(box) \in Nat
  BY HeardFacts DEF BoxInv
<1>2. \A y \in P : Before(y, m) /\ ~Before(m, y)
  <2> SUFFICES ASSUME NEW y \in P PROVE Before(y, m) /\ ~Before(m, y)
    OBVIOUS
  <2>1. PICK j \in 1..(i - 1) : box[j].no = y.no
    OBVIOUS
  <2>2. j \in 1..Len(box) /\ j <= i /\ ~(i <= j)
    BY <1>1
  <2> HIDE DEF m
  <2>3. Before(y, m)
    BY <1>1, <2>1, <2>2
  <2>4. ~Before(m, y)
    BY <1>1, <2>1, <2>2 DEF BoxInv
  <2> QED BY <2>3, <2>4
<1>3. Before(m, m)
  BY <1>1
<1>4. \A Q : Earliest(Q) = {y \in Q : \A z \in Q : Meaning(z) = Meaning(y) => Before(y, z)}
  BY DEF Earliest
<1>5. m \notin P
  BY <1>2, <1>3
<1> HIDE DEF m, Before
<1> QED BY <1>2, <1>3, <1>4, <1>5 DEF m

-----------------------------------------------------------------------------
Stated(t) == \A m \in Parts(t) : ~Cumulative(m) /\ Primary(m) = Primary(t)
Counted(l) == \A id \in Refs : Stated(l[id]) => SumsUp(l[id])

\* What the transaction gains with m: nothing with a copy, the part of m otherwise.
Gains(l, id, m, u) ==
  \/ /\ u.settled = l[id].settled /\ u.own = l[id].own /\ u.market = l[id].market
     /\ Meaning(m) \in l[id].contents
  \/ /\ Alike(l, m) = {}
     /\ ~Adds(m) => u.settled = l[id].settled
     /\ Adds(m) /\ ~Cumulative(m) => u.settled = l[id].settled + m.settles

LEMMA TakeCounts ==
  ASSUME FeedAssumption, BoxInv, NEW i \in 1..Len(box), NEW l, NEW o, BookInv(l, o, i - 1),
         Counted(l), NEW k, NEW id, NEW u, Takes(l, k, id, Observe(box[i]), u),
         Gains(l, id, Observe(box[i]), u)
  PROVE  Counted(k)
<1> DEFINE m == Observe(box[i])
           t == l[id]
<1>1. /\ k[id] = u /\ id \in Refs /\ (\A x \in Refs \ {id} : k[x] = l[x])
      /\ u.obs = t.obs \cup {m.no} /\ u.contents = t.contents \cup {Meaning(m)}
      /\ t \in Txs /\ m \in Heard /\ m \in Reading
  BY HeardFacts DEF BookInv, BookTyped, Takes, TakenAs
<1>2. /\ Parts(t) = {x \in Heard : x.no \in t.obs /\ Adds(x)}
      /\ Parts(u) = Parts(t) \cup (IF Adds(m) THEN {m} ELSE {})
  <2>1. \A v : Parts(v) = {x \in Heard : x.no \in v.obs /\ Adds(x)}
    BY HeardFacts DEF Parts, Of, Adds
  <2>2. \A x \in Heard : x.no = m.no => x = m
    BY <1>1, HeardFacts
  <2> HIDE DEF m, t
  <2> QED BY <1>1, <2>1, <2>2
<1>3. Firsts(t) = Earliest(Parts(t)) /\ Firsts(u) = Earliest(Parts(u))
  BY DEF Firsts, Earliest
<1>4. \A x \in Parts(t) : Fits(x, t) /\ Meaning(x) \in t.contents
  BY <1>1, <1>2 DEF BookInv, BookTraces
<1>5. /\ m \notin Parts(t)
      /\ (\E y \in Parts(t) : Meaning(y) = Meaning(m)) => Earliest(Parts(t) \cup {m}) = Firsts(t)
      /\ ~(\E y \in Parts(t) : Meaning(y) = Meaning(m)) => Earliest(Parts(t) \cup {m}) = Firsts(t) \cup {m}
  <2>1. Parts(t) \in SUBSET Heard
    BY <1>2
  <2>2. \A y \in Parts(t) : \E j \in 1..(i - 1) : box[j].no = y.no
    BY <1>1, <1>2 DEF BookInv, BookPlaced
  <2> HIDE DEF t
  <2> QED BY <1>3, <2>1, <2>2, EarliestGrows
<1>6. TakenAs(u, t, m)
  BY DEF Takes
<1>7. Firsts(t) \in SUBSET Reading /\ IsFiniteSet(Firsts(t))
  <2>1. Firsts(t) \in SUBSET Heard
    BY <1>2, <1>3 DEF Earliest
  <2> QED BY <2>1, HeardFacts, FS_Subset
<1>8. t.settled \in Nat /\ m.settles \in Nat
  BY <1>1 DEF Txs, Reading
<1>9. \A v : SumsUp(v) <=> v.settled = SumOf(Firsts(v))
  BY DEF SumsUp
<1>10. Stated(t) => t.settled = SumOf(Firsts(t))
  BY <1>1, <1>9 DEF Counted
<1>11. Gains(l, id, m, u)
  OBVIOUS
<1>12. Meaning(m) \in t.contents => \E y \in Heard : y.no \in t.obs /\ Meaning(y) = Meaning(m) /\ Fits(y, t)
  BY <1>1 DEF BookInv, BookTraces
<1>13. ASSUME NEW y \in Heard, Meaning(y) = Meaning(m)
       PROVE  y.own = m.own /\ y.market = m.market /\ (Adds(m) => Adds(y))
  <2>1. y \in Reading
    BY HeardFacts
  <2> QED BY <1>1, <1>13, <2>1, ContentFacts DEF Adds
<1> HIDE DEF m, t
<1> SUFFICES ASSUME Stated(u) PROVE u.settled = SumOf(Firsts(u))
  BY <1>1, <1>9 DEF Counted
<1>14. Stated(t)
  <2> SUFFICES ASSUME NEW x \in Parts(t) PROVE ~Cumulative(x) /\ Primary(x) = Primary(t)
    BY DEF Stated
  <2>1. ~Cumulative(x) /\ Primary(x) = Primary(u)
    BY <1>2 DEF Stated
  <2> QED BY <1>4, <1>6, <2>1, PrimaryKept
<1>15. t.settled = SumOf(Firsts(t))
  BY <1>10, <1>14
<1>16. CASE ~Adds(m)
  <2>1. u.settled = t.settled /\ Parts(u) = Parts(t)
    BY <1>2, <1>11, <1>16 DEF Gains, t
  <2> QED BY <1>3, <1>15, <2>1
<1>17. CASE Adds(m) /\ Meaning(m) \in t.contents
  <2>1. PICK y \in Heard : y.no \in t.obs /\ Meaning(y) = Meaning(m) /\ Fits(y, t)
    BY <1>12, <1>17
  <2>2. y.own = m.own /\ y.market = m.market /\ Adds(y)
    BY <1>13, <1>17, <2>1
  <2>3. y \in Parts(t)
    BY <1>2, <2>1, <2>2
  <2>4. Primary(u) = Primary(m)
    BY <1>2, <1>17 DEF Stated
  <2>5. Fits(m, t)
    BY <2>1, <2>2 DEF Fits, RefsOf
  <2>6. Primary(t) = Primary(m)
    BY <1>6, <2>4, <2>5, PrimaryKept
  <2>7. t # NoTx
    BY <1>17 DEF NoTx
  <2>8. Alike(l, m) # {}
    <3>1. id \in Alike(l, m)
      BY <1>1, <1>17, <2>6, <2>7 DEF Alike, t
    <3> QED BY <3>1
  <2>9. u.settled = t.settled
    BY <1>11, <2>8 DEF Gains, t
  <2>10. Firsts(u) = Firsts(t)
    BY <1>2, <1>3, <1>5, <1>17, <2>1, <2>3
  <2> QED BY <1>15, <2>9, <2>10
<1>18. CASE Adds(m) /\ Meaning(m) \notin t.contents
  <2>1. ~\E y \in Parts(t) : Meaning(y) = Meaning(m)
    BY <1>4, <1>18
  <2>2. Firsts(u) = Firsts(t) \cup {m}
    BY <1>2, <1>3, <1>5, <1>18, <2>1
  <2>3. m \notin Firsts(t)
    BY <1>3, <1>5 DEF Earliest
  <2>4. ~Cumulative(m)
    BY <1>2, <1>18 DEF Stated
  <2>5. u.settled = t.settled + m.settles
    BY <1>11, <1>18, <2>4 DEF Gains, t
  <2>6. SumOf(Firsts(u)) = m.settles + SumOf(Firsts(t))
    BY <1>1, <1>7, <2>2, <2>3, SumFacts
  <2> QED BY <1>8, <1>15, <2>5, <2>6
<1> QED BY <1>16, <1>17, <1>18

-----------------------------------------------------------------------------
(* One message of the feed, new or booked in an earlier run.               *)

BookOf(acc, p) ==
  /\ acc = [ledger |-> acc.ledger, orphans |-> acc.orphans]
  /\ BookInv(acc.ledger, acc.orphans, p) /\ Counted(acc.ledger)

LEMMA OrphanKeeps ==
  ASSUME FeedAssumption, BoxInv, NEW i \in 1..Len(box), NEW p \in Nat, i \in 1..p, NEW q \in Nat,
         q = p \/ (q = i - 1 /\ p = i), NEW l, NEW o, BookInv(l, o, q),
         ~Exact(l, Observe(box[i])), Unplaceable(l, Observe(box[i]))
  PROVE  BookInv(l, Append(o, box[i].no), p)
<1> DEFINE m == Observe(box[i])
           r == Append(o, box[i].no)
<1>1. m \in Heard /\ m.no = box[i].no /\ box[i].no \in MailNumbers
  BY HeardFacts DEF BoxInv, MailNumbers
<1>2. r \in Seq(MailNumbers) /\ ToSet(r) = ToSet(o) \cup {box[i].no}
  <2>1. o \in Seq(MailNumbers)
    BY DEF BookInv, BookTyped
  <2>2. Len(r) = Len(o) + 1 /\ Len(o) \in Nat /\ DOMAIN r = 1..(Len(o) + 1) /\ DOMAIN o = 1..Len(o)
    BY <1>1, <2>1
  <2>3. r[Len(o) + 1] = box[i].no /\ \A j \in 1..Len(o) : r[j] = o[j]
    BY <1>1, <2>1
  <2>4. r \in Seq(MailNumbers)
    BY <1>1, <2>1
  <2> HIDE DEF r
  <2>5. \A j \in 1..(Len(o) + 1) : j \in 1..Len(o) \/ j = Len(o) + 1
    BY <2>2
  <2>6. \A j \in 1..Len(o) : j \in 1..(Len(o) + 1)
    BY <2>2
  <2>7. Len(o) + 1 \in 1..(Len(o) + 1)
    BY <2>2
  <2> QED BY <2>2, <2>3, <2>4, <2>5, <2>6, <2>7 DEF ToSet
<1>3. BookTyped(l, r)
  BY <1>2 DEF BookInv, BookTyped
<1> HIDE DEF m, r
<1>4. BookOrphans(l, r)
  <2> SUFFICES ASSUME NEW x \in Heard, x.no \in ToSet(r) PROVE Unplaceable(l, x)
    BY DEF BookOrphans
  <2>1. CASE x.no \in ToSet(o)
    BY <2>1 DEF BookInv, BookOrphans
  <2>2. CASE x.no = m.no
    <3>1. x = m
      BY <1>1, <2>2, HeardFacts
    <3> QED BY <3>1 DEF m
  <2> QED BY <1>1, <1>2, <2>1, <2>2
<1>5. BookPlaced(l, r, p)
  <2>1. \A j \in 1..q : j \in 1..p
    OBVIOUS
  <2>2. \A j \in 1..p : j \in 1..q \/ j = i
    OBVIOUS
  <2>3. \A id \in Refs : m.no \notin l[id].obs
    BY DEF Exact, m
  <2>4. BookPlaced(l, o, q)
    BY DEF BookInv
  <2>5. \A id \in Refs : \A n \in l[id].obs : \E j \in 1..p : box[j].no = n
    BY <2>1, <2>4 DEF BookPlaced
  <2>6. \A n \in ToSet(r) : /\ \E j \in 1..p : box[j].no = n
                            /\ \A id \in Refs : n \notin l[id].obs
    BY <1>1, <1>2, <2>1, <2>3, <2>4 DEF BookPlaced
  <2>7. \A j \in 1..p : Observe(box[j]).kind # "UNSUPPORTED" =>
                          Exact(l, Observe(box[j])) \/ Observe(box[j]).no \in ToSet(r)
    BY <1>1, <1>2, <2>2, <2>4 DEF BookPlaced, m
  <2> QED BY <2>4, <2>5, <2>6, <2>7 DEF BookPlaced
<1> QED BY <1>3, <1>4, <1>5 DEF BookInv, r

\* A message with nothing to book.
LEMMA ShelfKeeps ==
  ASSUME FeedAssumption, BoxInv, NEW i \in 1..Len(box), NEW l, NEW o, BookInv(l, o, i - 1),
         Observe(box[i]).kind = "UNSUPPORTED" \/ Exact(l, Observe(box[i]))
  PROVE  BookInv(l, o, i)
<1>1. Len(box) \in Nat /\ (\A j \in 1..(i - 1) : j \in 1..i)
  BY HeardFacts
<1>2. \A j \in 1..i : j \in 1..(i - 1) \/ j = i
  BY <1>1
<1>3. BookPlaced(l, o, i - 1)
  BY DEF BookInv
<1>4. \A id \in Refs : \A n \in l[id].obs : \E j \in 1..i : box[j].no = n
  BY <1>1, <1>3 DEF BookPlaced
<1>5. \A n \in ToSet(o) : /\ \E j \in 1..i : box[j].no = n
                          /\ \A id \in Refs : n \notin l[id].obs
  BY <1>1, <1>3 DEF BookPlaced
<1>6. \A j \in 1..i : Observe(box[j]).kind # "UNSUPPORTED" =>
                        Exact(l, Observe(box[j])) \/ Observe(box[j]).no \in ToSet(o)
  BY <1>2, <1>3 DEF BookPlaced
<1> QED BY <1>3, <1>4, <1>5, <1>6 DEF BookInv, BookPlaced

LEMMA ManyMeansTwo ==
  ASSUME NEW l, NEW o, BookTyped(l, o), NEW m
  PROVE  Cardinality(Candidates(l, m)) > 1 <=> \E a, b \in Candidates(l, m) : a # b
<1> DEFINE near == Candidates(l, m)
<1>1. IsFiniteSet(near)
  <2>1. near \in SUBSET InUse(l)
    BY DEF Candidates, InUse
  <2> QED BY <2>1, FS_Subset DEF BookTyped
<1> HIDE DEF near
<1>2. Cardinality(near) \in Nat
  BY <1>1, FS_CardinalityType
<1>3. Cardinality(near) > 1 <=> near # {} /\ ~\E x : near = {x}
  <2>1. Cardinality(near) = 0 <=> near = {}
    BY <1>1, FS_EmptySet
  <2>2. Cardinality(near) = 1 <=> \E x : near = {x}
    BY <1>1, FS_Singleton
  <2> QED BY <1>2, <2>1, <2>2
<1>4. (near # {} /\ ~\E x : near = {x}) <=> \E a, b \in near : a # b
  <2>1. ASSUME near # {}, ~\E x : near = {x} PROVE \E a, b \in near : a # b
    <3>1. PICK a : a \in near
      BY <2>1
    <3>2. near # {a}
      BY <2>1
    <3> QED BY <3>1, <3>2
  <2>2. ASSUME NEW a \in near, NEW b \in near, a # b, NEW x, near = {x} PROVE FALSE
    BY <2>2
  <2> QED BY <2>1, <2>2
<1> QED BY <1>3, <1>4 DEF near

\* A copy joins the transaction its content is in; it brings nothing.
LEMMA CopyTakes ==
  ASSUME FeedAssumption, BoxInv, NEW l, NEW o, BookTyped(l, o), BookTraces(l), NEW m \in Reading,
         ~Exact(l, m), RefsOf(m) # {}, NEW id \in Alike(l, m)
  PROVE  LET u == [l[id] EXCEPT !.obs = @ \cup {m.no}] IN
         Takes(l, [l EXCEPT ![id] = u], id, m, u) /\ Gains(l, id, m, u)
<1> DEFINE t == l[id]
           u == [t EXCEPT !.obs = @ \cup {m.no}]
<1>1. /\ id \in Refs /\ t # NoTx /\ Primary(t) = Primary(m) /\ Meaning(m) \in t.contents /\ t \in Txs
  BY DEF Alike, BookTyped
<1>2. m.no \in MailNumbers
  BY DEF Reading, MailNumbers
<1>3. /\ u \in Txs /\ u.own = t.own /\ u.market = t.market /\ u.contents = t.contents
      /\ u.obs = t.obs \cup {m.no} /\ u.settled = t.settled
  <2>1. t.obs \cup {m.no} \in SUBSET MailNumbers
    BY <1>1, <1>2 DEF Txs
  <2>2. u = [t EXCEPT !.obs = t.obs \cup {m.no}]
    OBVIOUS
  <2> HIDE DEF t
  <2> QED BY <1>1, <2>1, <2>2 DEF Txs
<1> HIDE DEF t, u
<1>4. PICK x \in Heard : x.no \in t.obs /\ Meaning(x) = Meaning(m)
  BY <1>1 DEF BookTraces, t
<1>5. Fits(x, t)
  BY <1>1, <1>4 DEF BookTraces, t
<1>6. x.own = m.own /\ x.market = m.market
  <2>1. x \in Reading
    BY <1>4, HeardFacts
  <2> QED BY <1>4, <2>1, ContentFacts
<1>7. TakenAs(u, t, m)
  <2>1. t.own = NoRef => m.own = NoRef
    BY <1>5, <1>6 DEF Fits
  <2>2. t.market = NoRef => m.market = NoRef
    BY <1>5, <1>6 DEF Fits
  <2>3. t.contents = t.contents \cup {Meaning(m)}
    BY <1>1
  <2> QED BY <1>3, <2>1, <2>2, <2>3 DEF TakenAs
<1>8. ~Unplaceable(l, m)
  BY DEF Unplaceable
<1> QED BY <1>1, <1>3, <1>7, <1>8 DEF Takes, Gains, t, u

LEMMA BindTakes ==
  ASSUME FeedAssumption, NEW l, NEW o, BookTyped(l, o), NEW m \in Reading,
         m.kind # "UNSUPPORTED", ~Exact(l, m), RefsOf(m) # {}, Alike(l, m) = {},
         NEW id \in Refs, ~\E a, b \in Candidates(l, m) : a # b,
         l[id] = NoTx => id \in RefsOf(m)
  PROVE  LET u == Bind(l[id], m) IN
         Takes(l, [l EXCEPT ![id] = u], id, m, u) /\ Gains(l, id, m, u)
<1>1. l[id] \in Txs
  BY DEF BookTyped
<1>2. ~Unplaceable(l, m)
  BY DEF Unplaceable
<1> QED BY <1>1, <1>2, BindFacts DEF Takes, Gains

LEMMA BookedKeeps ==
  ASSUME FeedAssumption, BoxInv, NEW i \in 1..Len(box), NEW p \in Nat, i <= p + 1, p <= Len(box),
         NEW l, NEW o, BookOf([ledger |-> l, orphans |-> o], p)
  PROVE  BookOf(Booked([ledger |-> l, orphans |-> o], Observe(box[i])), IF i <= p THEN p ELSE i)
<1> DEFINE m == Observe(box[i])
           near == Candidates(l, m)
           q == IF i <= p THEN p ELSE i
           Pair(k, r) == [ledger |-> k, orphans |-> r]
           acc == Pair(l, o)
<1> SUFFICES BookOf(Booked(acc, m), q)
  OBVIOUS
<1>0. /\ m \in Reading /\ m.no = box[i].no /\ m \in Heard /\ Len(box) \in Nat
      /\ BookInv(l, o, p) /\ Counted(l) /\ acc.ledger = l /\ acc.orphans = o
  BY HeardFacts DEF BookOf
<1>1. \A k, r : BookInv(k, r, q) /\ Counted(k) => BookOf(Pair(k, r), q)
  BY DEF BookOf
<1>2. i <= p => i \in 1..p /\ q = p
  OBVIOUS
<1>3. ~(i <= p) => p = i - 1 /\ q = i
  OBVIOUS
<1>4. i <= p /\ m.kind # "UNSUPPORTED" /\ ~Exact(l, m) => Unplaceable(l, m)
  BY <1>0, <1>2 DEF BookInv, BookPlaced, BookOrphans
<1>5. CASE m.kind = "UNSUPPORTED" \/ Exact(l, m)
  <2>1. Booked(acc, m) = acc
    BY <1>5 DEF Booked
  <2>2. BookInv(l, o, q)
    BY <1>0, <1>2, <1>3, <1>5, ShelfKeeps
  <2>3. acc = Pair(l, o)
    OBVIOUS
  <2> HIDE DEF m, q, acc, Pair
  <2> QED BY <1>0, <1>1, <2>1, <2>2, <2>3
<1>6. ASSUME m.kind # "UNSUPPORTED", ~Exact(l, m), Unplaceable(l, m), Booked(acc, m) = Orphan(acc, m)
      PROVE  BookOf(Booked(acc, m), q)
  <2>1. Orphan(acc, m) = Pair(l, Append(o, box[i].no))
    <3>1. \A x : [Pair(l, o) EXCEPT !.orphans = x] = Pair(l, x)
      OBVIOUS
    <3> QED BY <1>0, <3>1 DEF Orphan
  <2>2. i \in 1..q /\ q \in Nat /\ (p = q \/ (p = i - 1 /\ q = i))
    OBVIOUS
  <2> HIDE DEF q, acc
  <2>3. BookInv(l, Append(o, box[i].no), q)
    BY <1>0, <1>6, <2>2, OrphanKeeps
  <2> HIDE DEF m, acc, Pair
  <2> QED BY <1>0, <1>1, <1>6, <2>1, <2>3
<1>7. ASSUME NEW id, NEW u, m.kind # "UNSUPPORTED", ~Exact(l, m),
             Takes(l, [l EXCEPT ![id] = u], id, m, u), Gains(l, id, m, u),
             Booked(acc, m) = Pair([l EXCEPT ![id] = u], o)
      PROVE  BookOf(Booked(acc, m), q)
  <2>1. p = i - 1 /\ q = i
    BY <1>3, <1>4, <1>7 DEF Takes
  <2> HIDE DEF q, acc
  <2>2. BookInv(l, o, i - 1)
    BY <1>0, <2>1
  <2>3. BookInv([l EXCEPT ![id] = u], o, i)
    BY <1>7, <2>2, TakeKeeps
  <2>4. Counted([l EXCEPT ![id] = u])
    BY <1>0, <1>7, <2>2, TakeCounts
  <2> HIDE DEF m, acc, Pair
  <2> QED BY <1>1, <1>7, <2>1, <2>3, <2>4
<1>8. CASE m.kind # "UNSUPPORTED" /\ ~Exact(l, m) /\ RefsOf(m) = {}
  <2>1. Booked(acc, m) = Orphan(acc, m)
    BY <1>8 DEF Booked
  <2>2. Unplaceable(l, m)
    BY <1>8 DEF Unplaceable
  <2> HIDE DEF m, q, acc
  <2> QED BY <1>6, <1>8, <2>1, <2>2
<1>9. CASE m.kind # "UNSUPPORTED" /\ ~Exact(l, m) /\ RefsOf(m) # {} /\ Alike(l, m) # {}
  <2> DEFINE id == CHOOSE x \in Alike(l, m) : TRUE
             u == [l[id] EXCEPT !.obs = @ \cup {m.no}]
  <2>1. id \in Alike(l, m)
    BY <1>9
  <2>2. Booked(acc, m) = [acc EXCEPT !.ledger[id].obs = @ \cup {m.no}]
    BY <1>9 DEF Booked
  <2>3. [acc EXCEPT !.ledger[id].obs = @ \cup {m.no}] = Pair([l EXCEPT ![id] = u], o)
    <3>1. \A x : [Pair(l, o) EXCEPT !.ledger = x] = Pair(x, o)
      OBVIOUS
    <3> HIDE DEF id, m
    <3> QED BY <3>1
  <2>4. BookTyped(l, o) /\ BookTraces(l)
    BY <1>0 DEF BookInv
  <2> HIDE DEF m, q, id, acc, Pair
  <2>5. Takes(l, [l EXCEPT ![id] = u], id, m, u) /\ Gains(l, id, m, u)
    BY <1>0, <1>9, <2>1, <2>4, CopyTakes
  <2> HIDE DEF u
  <2> QED BY <1>7, <1>9, <2>2, <2>3, <2>5
<1>10. CASE m.kind # "UNSUPPORTED" /\ ~Exact(l, m) /\ RefsOf(m) # {} /\ Alike(l, m) = {}
            /\ Cardinality(near) > 1
  <2>1. Booked(acc, m) = Orphan(acc, m)
    BY <1>10 DEF Booked
  <2>2. BookTyped(l, o)
    BY <1>0 DEF BookInv
  <2> HIDE DEF m, q, acc
  <2>3. Unplaceable(l, m)
    BY <1>10, <2>2, ManyMeansTwo DEF Unplaceable
  <2> QED BY <1>6, <1>10, <2>1, <2>3
<1>11. CASE m.kind # "UNSUPPORTED" /\ ~Exact(l, m) /\ RefsOf(m) # {} /\ Alike(l, m) = {}
            /\ ~(Cardinality(near) > 1)
  <2> DEFINE id == IF near = {} THEN Primary(m)[2] ELSE CHOOSE x \in near : TRUE
             u == Bind(l[id], m)
  <2>1. Booked(acc, m) = [acc EXCEPT !.ledger[id] = Bind(@, m)]
    BY <1>11 DEF Booked
  <2>2. [acc EXCEPT !.ledger[id] = Bind(@, m)] = Pair([l EXCEPT ![id] = u], o)
    <3>1. \A x : [Pair(l, o) EXCEPT !.ledger = x] = Pair(x, o)
      OBVIOUS
    <3> HIDE DEF id, m
    <3> QED BY <3>1
  <2>3. BookTyped(l, o)
    BY <1>0 DEF BookInv
  <2>4. Primary(m)[2] \in RefsOf(m) /\ RefsOf(m) \subseteq Refs
    <3>1. m.own \in RefOrNone /\ m.market \in RefOrNone
      BY <1>0 DEF Reading
    <3> HIDE DEF m
    <3>2. CASE m.own # NoRef
      BY <3>1, <3>2 DEF Primary, RefsOf, RefOrNone
    <3>3. CASE m.own = NoRef
      BY <1>11, <3>1, <3>3 DEF Primary, RefsOf, RefOrNone
    <3> QED BY <3>2, <3>3
  <2>5. id \in Refs /\ (l[id] = NoTx => id \in RefsOf(m))
    <3> HIDE DEF m
    <3>1. CASE near = {}
      BY <2>4, <3>1
    <3>2. CASE near # {}
      BY <3>2 DEF Candidates
    <3> QED BY <3>1, <3>2
  <2>6. ~\E a, b \in near : a # b
    <3> HIDE DEF m
    <3> QED BY <1>11, <2>3, ManyMeansTwo
  <2> HIDE DEF m, q, id, acc, Pair
  <2>7. Takes(l, [l EXCEPT ![id] = u], id, m, u) /\ Gains(l, id, m, u)
    BY <1>0, <1>11, <2>3, <2>5, <2>6, BindTakes
  <2> HIDE DEF u
  <2> QED BY <1>7, <1>11, <2>1, <2>2, <2>7
<1> QED BY <1>5, <1>8, <1>9, <1>10, <1>11

-----------------------------------------------------------------------------
(* A run of the feed goes through the inbox.                               *)

LastBook == [ledger |-> ledger, orphans |-> orphans]
BookMail(acc, i) == Booked(acc, Observe(box[i]))
BookedOf(s, acc) ==
  \A k, p \in Nat : s = 1..k /\ k <= Len(box) /\ p <= Len(box) /\ BookOf(LastBook, p) =>
    BookOf(acc, IF k <= p THEN p ELSE k)
BookFold == INSTANCE FoldFacts WITH
  Step <- BookMail, Base <- LastBook, Pick <- Max, Holds <- BookedOf

BuiltBook == FoldLeft(Booked, [ledger |-> ledger, orphans |-> orphans], Observations)

LEMMA BuiltIsFold ==
  ASSUME BoxInv
  PROVE  \E f : BookFold!IsFold(f, 1..Len(box)) /\ BuiltBook = f[1..Len(box)]
<1> DEFINE n == Len(box)
           E(f) == f = [s \in SUBSET (DOMAIN Observations) |->
                          IF s = {} THEN LastBook
                          ELSE Booked(f[s \ {Max(s)}], Observations[Max(s)])]
<1>0. n \in Nat /\ DOMAIN box = 1..n /\ DOMAIN Observations = 1..n
  BY DEF BoxInv, Observations
<1>1. BuiltBook = (CHOOSE f : E(f))[DOMAIN Observations]
  BY DEF BuiltBook, FoldLeft, MapThenFoldSet, LastBook
<1>2. \A s \in SUBSET (1..n) : s # {} => Max(s) \in s
  BY <1>0, MaxIsIn
<1>3. PICK g : BookFold!IsFold(g, 1..n)
  <2> HIDE DEF n
  <2>1. IsFiniteSet(1..n)
    BY <1>0, FS_Interval
  <2>2. BookFold!IsFiniteSet(1..n)
    BY <2>1 DEF IsFiniteSet, BookFold!IsFiniteSet
  <2>3. BookFold!Picks(1..n)
    BY <1>2 DEF BookFold!Picks
  <2> QED BY <2>2, <2>3, BookFold!FoldExists
<1>4. \A s \in SUBSET (1..n) : s # {} => Observations[Max(s)] = Observe(box[Max(s)])
  BY <1>0, <1>2 DEF Observations
<1>5. \A f : E(f) <=> BookFold!IsFold(f, 1..n)
  <2> HIDE DEF n
  <2> QED BY <1>0, <1>4, Zenon DEF BookFold!IsFold, BookMail
<1> HIDE DEF E, n
<1>6. E(g)
  BY <1>3, <1>5
<1>7. BookFold!IsFold(CHOOSE f : E(f), 1..n)
  <2>1. E(CHOOSE f : E(f))
    BY <1>6
  <2> QED BY <1>5, <2>1
<1> QED BY <1>0, <1>1, <1>7 DEF n

LEMMA BuiltKeeps ==
  ASSUME FeedAssumption, BoxInv, NEW p \in Nat, p <= Len(box), BookOf(LastBook, p)
  PROVE  BookOf(BuiltBook, Len(box))
<1> DEFINE n == Len(box)
<1>0. n \in Nat
  BY DEF BoxInv
<1>1. PICK f : BookFold!IsFold(f, 1..n) /\ BuiltBook = f[1..n]
  BY BuiltIsFold
<1>2. BookFold!Picks(1..n) /\ BookFold!IsFiniteSet(1..n)
  <2> HIDE DEF n
  <2>1. IsFiniteSet(1..n)
    BY <1>0, FS_Interval
  <2> QED BY <1>0, <2>1, MaxIsIn DEF BookFold!Picks, IsFiniteSet, BookFold!IsFiniteSet
<1>3. BookedOf({}, LastBook)
  <2>1. ASSUME NEW k \in Nat, NEW q \in Nat, {} = 1..k, BookOf(LastBook, q)
        PROVE  BookOf(LastBook, IF k <= q THEN q ELSE k)
    <3>1. k = 0
      <4>1. k # 0 => 1 \in 1..k
        OBVIOUS
      <4> QED BY <2>1, <4>1
    <3>2. k <= q
      BY <3>1
    <3> QED BY <2>1, <3>2
  <2> QED BY <2>1 DEF BookedOf
<1>4. ASSUME NEW s \in SUBSET (1..n), NEW v, s # {}, BookedOf(s \ {Max(s)}, v)
      PROVE  BookedOf(s, BookMail(v, Max(s)))
  <2> SUFFICES ASSUME NEW k \in Nat, NEW q \in Nat, s = 1..k, k <= Len(box), q <= Len(box),
                      BookOf(LastBook, q)
               PROVE  BookOf(BookMail(v, Max(s)), IF k <= q THEN q ELSE k)
    BY DEF BookedOf
  <2>1. k \in Nat \ {0} /\ k - 1 \in Nat /\ k - 1 <= Len(box) /\ k \in 1..Len(box)
    BY <1>0, <1>4
  <2>2. Max(s) = k /\ s \ {Max(s)} = 1..(k - 1)
    BY <2>1, LastIsMax
  <2> DEFINE r == IF k - 1 <= q THEN q ELSE k - 1
  <2>3. BookOf(v, r)
    BY <1>4, <2>1, <2>2 DEF BookedOf
  <2>4. r \in Nat /\ k <= r + 1 /\ r <= Len(box)
    BY <1>0, <2>1
  <2>5. (IF k <= r THEN r ELSE k) = (IF k <= q THEN q ELSE k)
    BY <2>1
  <2> HIDE DEF r
  <2>6. v = [ledger |-> v.ledger, orphans |-> v.orphans]
    BY <2>3 DEF BookOf
  <2>7. BookOf([ledger |-> v.ledger, orphans |-> v.orphans], r)
    BY <2>3, <2>6
  <2>8. BookOf(Booked([ledger |-> v.ledger, orphans |-> v.orphans], Observe(box[k])),
               IF k <= r THEN r ELSE k)
    BY <2>1, <2>4, <2>7, BookedKeeps
  <2> QED BY <2>2, <2>5, <2>6, <2>8 DEF BookMail
<1>5. BookedOf(1..n, f[1..n])
  BY <1>1, <1>2, <1>3, <1>4, BookFold!FoldInduction
<1>6. BookOf(BuiltBook, IF n <= p THEN p ELSE n)
  BY <1>0, <1>1, <1>5 DEF BookedOf
<1> QED BY <1>0, <1>6

-----------------------------------------------------------------------------
LedgerInv == BoxInv /\ \E p \in 0..Len(box) : BookOf(LastBook, p)

LEMMA LedgerStarts == ASSUME FeedAssumption, FeedInit PROVE LedgerInv
<1>1. box = <<>> /\ ledger = [id \in Refs |-> NoTx] /\ orphans = <<>> /\ Len(box) = 0 /\ box \in Seq(Mails)
  BY DEF FeedInit
<1>2. BoxInv
  BY <1>1 DEF BoxInv
<1>3. Heard = {}
  BY <1>1 DEF Heard
<1>4. NoTx \in Txs
  BY DEF NoTx, Txs, RefOrNone, Processings, Matchings
<1>5. InUse(ledger) = {} /\ ToSet(orphans) = {} /\ orphans \in Seq(MailNumbers)
  BY <1>1 DEF InUse, ToSet
<1>6. \A id \in Refs : ledger[id] = NoTx /\ ledger[id].obs = {} /\ ledger[id].contents = {}
                       /\ ledger[id].settled = 0
  BY <1>1 DEF NoTx
<1>7. BookTyped(ledger, orphans)
  <2>1. ledger \in [Refs -> Txs]
    BY <1>1, <1>4
  <2> QED BY <1>5, <1>6, <2>1, FS_EmptySet DEF BookTyped
<1>8. BookPlaced(ledger, orphans, 0) /\ BookOrphans(ledger, orphans) /\ BookTraces(ledger)
  BY <1>3, <1>5, <1>6 DEF BookPlaced, BookOrphans, BookTraces
<1>9. Counted(ledger)
  <2> SUFFICES ASSUME NEW id \in Refs PROVE SumsUp(ledger[id])
    BY DEF Counted
  <2>1. Firsts(ledger[id]) = {}
    BY <1>6 DEF Firsts, Parts, Of
  <2>2. SumOf({}) = 0
    <3>1. PICK f : Summing!IsFold(f, {}) /\ SumOf({}) = f[{}]
      BY SumIsFold, FS_EmptySet
    <3> QED BY <3>1 DEF Summing!IsFold
  <2> QED BY <1>6, <2>1, <2>2 DEF SumsUp
<1>10. BookOf(LastBook, 0)
  BY <1>7, <1>8, <1>9 DEF BookOf, BookInv, LastBook
<1> QED BY <1>1, <1>2, <1>10 DEF LedgerInv

\* A message more in the inbox changes nothing that is booked.
LEMMA ArrivalKeeps ==
  ASSUME FeedAssumption, LedgerInv, NEW m \in Mails, MailArrives(m)
  PROVE  LedgerInv'
<1> DEFINE n == Len(box)
<1>1. PICK p \in 0..n : BookOf(LastBook, p)
  BY DEF LedgerInv
<1>2. /\ n \in Nat /\ box' \in Seq(Mails) /\ Len(box') = n + 1 /\ box'[n + 1] = m
      /\ DOMAIN box = 1..n /\ DOMAIN box' = 1..(n + 1)
      /\ \A i \in 1..n : box'[i] = box[i] /\ box[i] \in Mails
  BY DEF LedgerInv, BoxInv, MailArrives
<1>3. ledger' = ledger /\ orphans' = orphans /\ LastBook' = LastBook
  BY DEF MailArrives, LastBook
<1>4. \A i \in 1..n : box[i].no # m.no
  <2>1. \A i \in 1..n : box[i] # m
    BY <1>2 DEF MailArrives, ToSet
  <2> QED BY <1>2, <2>1 DEF FeedAssumption
<1> HIDE DEF n
<1>5. \A i \in 1..(n + 1) : i \in 1..n \/ i = n + 1
  BY <1>2
<1>6. \A i \in 1..n : i \in 1..(n + 1)
  BY <1>2
<1>7. BoxInv'
  <2>1. \A i, j \in 1..n : box[i].no = box[j].no => i = j
    BY DEF LedgerInv, BoxInv, n
  <2>2. \A i, j \in 1..(n + 1) : box'[i].no = box'[j].no => i = j
    BY <1>2, <1>4, <1>5, <2>1
  <2> QED BY <1>2, <2>2 DEF BoxInv
<1>8. BookTyped(ledger, orphans) /\ BookPlaced(ledger, orphans, p) /\ BookOrphans(ledger, orphans)
      /\ BookTraces(ledger) /\ Counted(ledger)
  BY <1>1 DEF BookOf, BookInv, LastBook
<1>9. \A i \in 1..p : i \in 1..n
  BY <1>1, <1>2
<1>10. Heard' = Heard \cup {Observe(m)} /\ Observe(m).no = m.no
  <2>1. Heard' = {Observe(box'[i]) : i \in 1..(n + 1)} /\ Heard = {Observe(box[i]) : i \in 1..n}
    BY <1>2 DEF Heard, n
  <2>2. n + 1 \in 1..(n + 1)
    BY <1>2
  <2> QED BY <1>2, <1>5, <1>6, <2>1, <2>2, ObserveType
<1>11. (\A id \in Refs : m.no \notin ledger[id].obs) /\ m.no \notin ToSet(orphans)
  BY <1>4, <1>8, <1>9 DEF BookPlaced
<1>12. BookPlaced(ledger, orphans, p)'
  <2>1. \A i \in 1..p : box'[i] = box[i]
    BY <1>2, <1>9
  <2>2. \A x : Exact(ledger, x)' <=> Exact(ledger, x)
    BY <1>3 DEF Exact
  <2>3. \A id \in Refs : \A k \in ledger[id].obs : \E i \in 1..p : box'[i].no = k
    BY <1>8, <2>1 DEF BookPlaced
  <2>4. \A k \in ToSet(orphans) : /\ \E i \in 1..p : box'[i].no = k
                                  /\ \A id \in Refs : k \notin ledger[id].obs
    BY <1>8, <2>1 DEF BookPlaced
  <2>5. \A i \in 1..p : Observe(box'[i]).kind # "UNSUPPORTED" =>
                          Exact(ledger, Observe(box'[i])) \/ Observe(box'[i]).no \in ToSet(orphans)
    BY <1>8, <2>1 DEF BookPlaced
  <2>6. \A a, b \in Refs : \A k \in ledger[a].obs : k \in ledger[b].obs => a = b
    BY <1>8 DEF BookPlaced
  <2> QED BY <1>3, <2>3, <2>4, <2>5, <2>6 DEF BookPlaced
<1>13. BookOrphans(ledger, orphans)'
  <2>1. \A x \in Heard' : x.no \in ToSet(orphans) => Unplaceable(ledger, x)
    BY <1>8, <1>10, <1>11 DEF BookOrphans
  <2> QED BY <1>3, <2>1 DEF BookOrphans
<1>14. BookTraces(ledger)'
  <2>1. \A id \in Refs : \A x \in Heard' : x.no \in ledger[id].obs =>
          Meaning(x) \in ledger[id].contents /\ Fits(x, ledger[id])
    BY <1>8, <1>10, <1>11 DEF BookTraces
  <2>2. \A id \in Refs : \A c \in ledger[id].contents :
          \E x \in Heard' : x.no \in ledger[id].obs /\ Meaning(x) = c
    BY <1>8, <1>10 DEF BookTraces
  <2> QED BY <1>3, <2>1, <2>2 DEF BookTraces
<1>15. Counted(ledger)'
  <2> SUFFICES ASSUME NEW id \in Refs PROVE (Stated(ledger[id]) => SumsUp(ledger[id]))'
    BY <1>3 DEF Counted
  <2> DEFINE t == ledger[id]
  <2>1. Heard = ToSet(Observations) /\ Heard' = ToSet(Observations)'
    <3>1. DOMAIN box = 1..Len(box) /\ DOMAIN box' = 1..Len(box')
      BY <1>2 DEF n
    <3> QED BY <3>1 DEF Heard, ToSet, Observations
  <2>2. Parts(t)' = Parts(t)
    <3>1. Parts(t) = {x \in Heard : x.no \in t.obs /\ x.kind # "INSTRUCTION" /\ x.settles > 0}
      BY <2>1 DEF Parts, Of
    <3>2. Parts(t)' = {x \in Heard' : x.no \in t.obs /\ x.kind # "INSTRUCTION" /\ x.settles > 0}
      BY <1>3, <2>1 DEF Parts, Of
    <3>3. Observe(m).no \notin t.obs
      BY <1>10, <1>11
    <3> HIDE DEF t
    <3> QED BY <1>10, <3>1, <3>2, <3>3
  <2>3. Firsts(t)' = Firsts(t)
    <3> DEFINE Before(x, y) == \E i, j \in DOMAIN box : i <= j /\ box[i].no = x.no /\ box[j].no = y.no
    <3>1. ASSUME NEW x \in Parts(t), NEW y \in Parts(t) PROVE Before(x, y)' <=> Before(x, y)
      <4>1. x.no # m.no /\ y.no # m.no
        BY <1>11 DEF Parts, Of
      <4> HIDE DEF t
      <4> QED BY <1>2, <1>5, <1>6, <4>1
    <3>2. Firsts(t) = {x \in Parts(t) : \A y \in Parts(t) : Meaning(y) = Meaning(x) => Before(x, y)}
      BY DEF Firsts
    <3>3. Firsts(t)' = {x \in Parts(t) : \A y \in Parts(t) : Meaning(y) = Meaning(x) => Before(x, y)'}
      BY <2>2 DEF Firsts
    <3> HIDE DEF t, Before
    <3> QED BY <3>1, <3>2, <3>3
  <2>4. Stated(t)' => Stated(t)
    BY <1>3, <2>2 DEF Stated
  <2>5. SumsUp(t) => SumsUp(t)'
    BY <1>3, <2>3 DEF SumsUp
  <2>6. Stated(t) => SumsUp(t)
    BY <1>8 DEF Counted
  <2> QED BY <2>4, <2>5, <2>6
<1>16. BookOf(LastBook, p)'
  BY <1>3, <1>8, <1>12, <1>13, <1>14, <1>15 DEF BookOf, BookInv, LastBook, BookTyped
<1>17. p \in 0..Len(box')
  BY <1>1, <1>2
<1> QED BY <1>7, <1>16, <1>17 DEF LedgerInv

LEMMA SameBook ==
  ASSUME NEW q, box' = box, BookOf(LastBook', q)
  PROVE  BookOf(LastBook, q)'
<1> DEFINE l == LastBook.ledger
           o == LastBook.orphans
<1>0. /\ LastBook' = [ledger |-> l', orphans |-> o'] /\ Counted(l')
      /\ BookTyped(l', o') /\ BookPlaced(l', o', q) /\ BookOrphans(l', o') /\ BookTraces(l')
  BY DEF BookOf, BookInv
<1>1. Observations' = Observations /\ Heard' = Heard
  BY DEF Observations, Heard
<1> HIDE DEF l, o
<1>2. BookTyped(l, o)'
  BY <1>0 DEF BookTyped
<1>3. BookPlaced(l, o, q)'
  BY <1>0 DEF BookPlaced
<1>4. BookOrphans(l, o)'
  BY <1>0, <1>1 DEF BookOrphans
<1>5. BookTraces(l)'
  BY <1>0, <1>1 DEF BookTraces
<1>6. Counted(l)'
  <2> SUFFICES ASSUME NEW id \in Refs PROVE (Stated(l[id]) => SumsUp(l[id]))'
    BY DEF Counted
  <2>1. Parts(l[id])' = Parts(l'[id])
    BY <1>1 DEF Parts, Of
  <2>2. Firsts(l[id])' = Firsts(l'[id])
    BY <2>1 DEF Firsts
  <2>3. Stated(l[id])' <=> Stated(l'[id])
    BY <2>1 DEF Stated
  <2>4. SumsUp(l[id])' <=> SumsUp(l'[id])
    BY <2>2 DEF SumsUp
  <2> QED BY <1>0, <2>3, <2>4 DEF Counted
<1> QED BY <1>0, <1>2, <1>3, <1>4, <1>5, <1>6 DEF BookOf, BookInv, l, o

LEMMA RunKeeps ==
  ASSUME FeedAssumption, LedgerInv, NEW ok \in BOOLEAN, RunFeed(ok)
  PROVE  LedgerInv'
<1>1. PICK p \in 0..Len(box) : BookOf(LastBook, p)
  BY DEF LedgerInv
<1>2. BoxInv /\ Len(box) \in Nat /\ p \in Nat /\ p <= Len(box)
  BY DEF LedgerInv, BoxInv
<1>3. BookOf(BuiltBook, Len(box))
  BY <1>1, <1>2, BuiltKeeps
<1>4. box' = box /\ (LastBook' = BuiltBook \/ LastBook' = LastBook)
  <2>1. /\ box' = box
        /\ ledger' = IF ok THEN BuiltBook.ledger ELSE ledger
        /\ orphans' = IF ok THEN BuiltBook.orphans ELSE orphans
    BY DEF RunFeed, BuiltBook
  <2>2. BuiltBook = [ledger |-> BuiltBook.ledger, orphans |-> BuiltBook.orphans]
    BY <1>3 DEF BookOf
  <2> QED BY <2>1, <2>2 DEF LastBook
<1>5. \E q \in 0..Len(box) : BookOf(LastBook', q)
  <2>1. Len(box) \in 0..Len(box)
    BY <1>2
  <2> QED BY <1>1, <1>3, <1>4, <2>1
<1>6. BoxInv'
  BY <1>2, <1>4 DEF BoxInv
<1>7. \A q \in 0..Len(box) : BookOf(LastBook', q) => BookOf(LastBook, q)'
  BY <1>4, SameBook
<1> QED BY <1>4, <1>5, <1>6, <1>7 DEF LedgerInv

LEMMA LedgerStep == ASSUME FeedAssumption, LedgerInv, [FeedNext]_stVars PROVE LedgerInv'
<1>1. CASE \E m \in Mails : MailArrives(m)
  BY <1>1, ArrivalKeeps
<1>2. CASE \E ok \in BOOLEAN : RunFeed(ok)
  BY <1>2, RunKeeps
<1>3. CASE UNCHANGED stVars
  <2>1. box' = box /\ LastBook' = LastBook
    BY <1>3 DEF stVars, LastBook
  <2>2. PICK p \in 0..Len(box) : BookOf(LastBook, p)
    BY DEF LedgerInv
  <2>3. BookOf(LastBook, p)'
    BY <2>1, <2>2, SameBook
  <2> QED BY <2>1, <2>3 DEF LedgerInv, BoxInv
<1> QED BY <1>1, <1>2, <1>3 DEF FeedNext

LEMMA ReadersDoAgree == ASSUME NEW t \in Txs PROVE
  (Exported(t) = "SETTLED" /\ t.instructed /\ t.asks > 0 /\ ~t.conflict) =>
    Verdict(t) \in {"MATCH", "OVER_SETTLED"}
<1> SUFFICES ASSUME Exported(t) = "SETTLED", t.instructed, t.asks > 0, ~t.conflict
             PROVE  Verdict(t) \in {"MATCH", "OVER_SETTLED"}
  OBVIOUS
<1>1. t.asks \in Nat /\ t.settled \in Nat
  BY DEF Txs
<1>2. TxStatus(t) = "SETTLED"
  BY DEF Exported
<1>3. t.confirmed /\ t.settled >= t.asks
  BY <1>2 DEF TxStatus
<1>4. Verdict(t) = IF t.settled = t.asks THEN "MATCH" ELSE IF t.settled > t.asks THEN "OVER_SETTLED"
                   ELSE "PARTIALLY_SETTLED"
  BY <1>1, <1>2, <1>3 DEF Verdict
<1> QED BY <1>1, <1>3, <1>4

LEMMA LedgerCounts == FeedAssumption /\ LedgerInv => CountedOnce
<1> SUFFICES ASSUME FeedAssumption, LedgerInv PROVE CountedOnce
  OBVIOUS
<1>1. PICK p \in 0..Len(box) : BookOf(LastBook, p)
  BY DEF LedgerInv
<1>2. BookTyped(ledger, orphans) /\ BookPlaced(ledger, orphans, p) /\ Counted(ledger)
  BY <1>1 DEF BookOf, BookInv, LastBook
<1>3. OncePlaced
  <2> SUFFICES ASSUME NEW n \in MailNumbers
               PROVE  /\ Cardinality({id \in Refs : n \in ledger[id].obs}) <= 1
                      /\ n \in ToSet(orphans) => \A id \in Refs : n \notin ledger[id].obs
    BY DEF OncePlaced
  <2> DEFINE at == {id \in Refs : n \in ledger[id].obs}
  <2>1. \A a, b \in at : a = b
    BY <1>2 DEF BookPlaced
  <2>2. at = {} \/ \E a : at = {a}
    BY <2>1
  <2> HIDE DEF at
  <2>3. Cardinality(at) = 0 \/ Cardinality(at) = 1
    BY <2>2, FS_EmptySet, FS_Singleton
  <2> QED BY <1>2, <2>3 DEF BookPlaced, at
<1>4. ReadersAgree
  BY <1>2, ReadersDoAgree DEF ReadersAgree, BookTyped
<1>5. \A id \in Refs : LET t == ledger[id] IN
        (\A m \in Parts(t) : ~Cumulative(m) /\ Primary(m) = Primary(t)) => SumsUp(t)
  BY <1>2 DEF Counted, Stated
<1> QED BY <1>3, <1>4, <1>5 DEF CountedOnce

FeedSpec == FeedInit /\ [][FeedNext]_stVars

\* However messages arrive and runs observe them again, every message is in one place,
\* where each is stated as a part the settled quantity is the sum of the different parts,
\* and the two readers of a transaction agree (settlement_transaction.py, build_ledger).
THEOREM FeedIsCounted ==
  ASSUME FeedAssumption
  PROVE  FeedSpec => [](FeedTypeOK /\ CountedOnce)
<1>1. LedgerInv => FeedTypeOK
  <2> SUFFICES ASSUME LedgerInv PROVE FeedTypeOK
    OBVIOUS
  <2>1. ledger \in [Refs -> Txs] /\ orphans \in Seq(MailNumbers) /\ box \in Seq(Mails)
    BY DEF LedgerInv, BoxInv, BookOf, BookInv, BookTyped, LastBook
  <2>2. \A t \in Txs : /\ t.obs \subseteq MailNumbers /\ t.settled \in Nat
                       /\ {t.own, t.market} \subseteq Refs \cup {NoRef}
    BY DEF Txs, RefOrNone
  <2>3. \A S, s : s \in Seq(S) => ToSet(s) \subseteq S
    BY DEF ToSet
  <2> QED BY <2>1, <2>2, <2>3 DEF FeedTypeOK
<1> QED BY <1>1, LedgerStarts, LedgerStep, LedgerCounts, PTL DEF FeedSpec

-----------------------------------------------------------------------------
(***************************************************************************)
(* Tax recovery.  A run opens its claims without document sets, so they    *)
(* are ASSESSED, and of all the events only a deadline check moves a claim *)
(* from there: to EXPIRED, once the deadline is past.                      *)
(***************************************************************************)
TaxClaims ==
  [status : TaxTerminal \cup Unsent \cup Under \cup {"NONE"}, amount : Nat, deadline : Nat]

\* c is what became of the claim b of a run.
RunMoves(b, c) ==
  /\ c \in TaxClaims /\ c.amount = b.amount /\ c.deadline = b.deadline
  /\ \/ c = b
     \/ /\ b # Unopened /\ b.status = "ASSESSED" /\ c.status = "EXPIRED"
        /\ taxDay > b.deadline /\ c # Unopened
\* c is what became of the claim b of the operator's file.
FileMoves(b, c) ==
  /\ c \in TaxClaims /\ c.amount = b.amount /\ c.deadline = b.deadline
  /\ b = Unopened => c = Unopened
  /\ c.status = b.status \/ c.status # "NONE"

MergedRun == MergedWith(runClaims, [r \in Methods |-> Opening(r, FALSE)])
RunHolds(s, v) == v \in [Methods -> TaxClaims] /\ \A r \in Methods : RunMoves(MergedRun[r], v[r])
FileHolds(s, v) == v \in [Methods -> TaxClaims] /\ \A r \in Methods : FileMoves(file[r], v[r])
Running == INSTANCE FoldFacts WITH
  Step <- Apply, Base <- MergedRun, Pick <- Latest, Holds <- RunHolds
Filing == INSTANCE FoldFacts WITH
  Step <- Apply, Base <- file, Pick <- Latest, Holds <- FileHolds

LEMMA MethodsAre == Methods = {"RELIEF_AT_SOURCE", "STANDARD_RECLAIM"}
<1>1. DOMAIN Recoveries = 1..2
  BY DEF Recoveries
<1>2. Methods = {Recoveries[i] : i \in 1..2}
  BY <1>1, Zenon DEF Methods, ToSet
<1>3. 1..2 = {1, 2}
  OBVIOUS
<1>4. Recoveries[1] = "RELIEF_AT_SOURCE" /\ Recoveries[2] = "STANDARD_RECLAIM"
  BY DEF Recoveries
<1> QED BY <1>2, <1>3, <1>4

\* Of finitely many events there is one that none comes after.
LEMMA LatestIsIn ==
  ASSUME NEW S, IsFiniteSet(S), \A e \in S : e.at \in Nat /\ e.no \in Nat
  PROVE  \A s \in SUBSET S : s # {} => Latest(s) \in s
<1> DEFINE R == {p \in S \X S : Before3(Rank(p[1]), Rank(p[2]))}
<1>1. \A e, o \in S : <<e, o>> \in R <=> Before3(Rank(e), Rank(o))
  OBVIOUS
<1>2. \A e, o \in S : Before3(Rank(e), Rank(o)) => ~Before3(Rank(o), Rank(e))
  BY DEF Rank, Before3
<1>3. \A e, o, u \in S :
        Before3(Rank(e), Rank(o)) /\ Before3(Rank(o), Rank(u)) => Before3(Rank(e), Rank(u))
  BY DEF Rank, Before3
<1> HIDE DEF R
<1>4. \A s \in SUBSET S : s # {} => \E e \in s : \A o \in s : ~(<<e, o>> \in R)
  <2>1. \A e, o \in S : <<e, o>> \in R => ~(<<o, e>> \in R)
    BY <1>1, <1>2
  <2>2. \A e, o, u \in S : <<e, o>> \in R /\ <<o, u>> \in R => <<e, u>> \in R
    BY <1>1, <1>3
  <2>3. Running!IsFiniteSet(S)
    BY DEF IsFiniteSet, Running!IsFiniteSet
  <2> QED BY <2>1, <2>2, <2>3, Running!LastExists
<1>5. ASSUME NEW s \in SUBSET S, s # {} PROVE Latest(s) \in s
  <2>1. \E e \in s : \A o \in s : ~Before3(Rank(e), Rank(o))
    BY <1>1, <1>4, <1>5
  <2> QED BY <2>1 DEF Latest
<1> QED BY <1>5

RunAnswer(es) == Answered(MergedRun, es)
FileAnswer(es) == Answered(file, es)
Dated(es) == IsFiniteSet(es) /\ \A e \in es : e.at \in Nat /\ e.no \in Nat

LEMMA RunIsFold ==
  ASSUME NEW S, Dated(S)
  PROVE  /\ Running!IsFiniteSet(S) /\ Running!Picks(S)
         /\ \E f : Running!IsFold(f, S) /\ Answered(MergedRun, S) = f[S]
<1> DEFINE E(f) == f = [s \in SUBSET S |->
                         IF s = {} THEN MergedRun ELSE Apply(f[s \ {Latest(s)}], Latest(s))]
<1>1. Answered(MergedRun, S) = (CHOOSE f : E(f))[S]
  BY DEF Answered, MapThenFoldSet
<1>2. Running!IsFiniteSet(S) /\ Running!Picks(S)
  BY LatestIsIn DEF Dated, IsFiniteSet, Running!IsFiniteSet, Running!Picks
<1>3. PICK g : Running!IsFold(g, S)
  BY <1>2, Running!FoldExists
<1>4. \A f : E(f) <=> Running!IsFold(f, S)
  BY Zenon DEF Running!IsFold
<1> HIDE DEF E
<1>5. E(CHOOSE f : E(f))
  BY <1>3, <1>4
<1> QED BY <1>1, <1>2, <1>4, <1>5

LEMMA FileIsFold ==
  ASSUME NEW S, Dated(S)
  PROVE  /\ Filing!IsFiniteSet(S) /\ Filing!Picks(S)
         /\ \E f : Filing!IsFold(f, S) /\ Answered(file, S) = f[S]
<1> DEFINE E(f) == f = [s \in SUBSET S |->
                         IF s = {} THEN file ELSE Apply(f[s \ {Latest(s)}], Latest(s))]
<1>1. Answered(file, S) = (CHOOSE f : E(f))[S]
  BY DEF Answered, MapThenFoldSet
<1>2. Filing!IsFiniteSet(S) /\ Filing!Picks(S)
  BY LatestIsIn DEF Dated, IsFiniteSet, Filing!IsFiniteSet, Filing!Picks
<1>3. PICK g : Filing!IsFold(g, S)
  BY <1>2, Filing!FoldExists
<1>4. \A f : E(f) <=> Filing!IsFold(f, S)
  BY Zenon DEF Filing!IsFold
<1> HIDE DEF E
<1>5. E(CHOOSE f : E(f))
  BY <1>3, <1>4
<1> QED BY <1>1, <1>2, <1>4, <1>5

\* What one event does to the claims.
Event(e) == e.claim \in Methods /\ e.type \in EventTypes /\ e.at \in Nat /\ e.no \in Nat
Why(cs, e, r, status) ==
  /\ r = e.claim /\ cs[r] # Unopened
  /\ \/ e.type = "EXPIRY_CHECK" /\ Expires(cs[r], e.at) /\ status = "EXPIRED"
     \/ /\ e.type \notin {"QUERY", "EXPIRY_CHECK"}
        /\ Target(e.type) \in TaxEdges[cs[r].status] /\ status = Target(e.type)
Follows(cs, e, now) ==
  /\ now \in [Methods -> TaxClaims]
  /\ \A r \in Methods :
       /\ now[r].amount = cs[r].amount /\ now[r].deadline = cs[r].deadline
       /\ now[r] # cs[r] => Why(cs, e, r, now[r].status)

LEMMA ApplyFollows ==
  ASSUME NEW cs \in [Methods -> TaxClaims], NEW e, Event(e)
  PROVE  Follows(cs, e, Apply(cs, e))
<1> DEFINE c == cs[e.claim]
           Set(st) == [cs EXCEPT ![e.claim].status = st]
           States == TaxTerminal \cup Unsent \cup Under \cup {"NONE"}
<1>1. e.claim \in Methods /\ c \in TaxClaims /\ e.type \in EventTypes
  BY DEF Event
<1>2. ASSUME NEW st \in States, Why(cs, e, e.claim, st)
      PROVE  Follows(cs, e, Set(st))
  <2>1. /\ Set(st) \in [Methods -> TaxClaims]
        /\ \A r \in Methods : r # e.claim => Set(st)[r] = cs[r]
        /\ Set(st)[e.claim].status = st
        /\ Set(st)[e.claim].amount = c.amount /\ Set(st)[e.claim].deadline = c.deadline
    BY <1>1 DEF TaxClaims
  <2> HIDE DEF Set, States
  <2> QED BY <1>1, <1>2, <2>1 DEF Follows
<1>3. "EXPIRED" \in States
  BY DEF TaxTerminal
<1>4. e.type \notin {"QUERY", "EXPIRY_CHECK"} => Target(e.type) \in States
  BY <1>1 DEF Target, EventTypes, TaxTerminal, Under
<1>5. Apply(cs, e) =
        IF c = Unopened \/ e.type = "QUERY" THEN cs
        ELSE IF e.type = "EXPIRY_CHECK"
             THEN IF Expires(c, e.at) THEN Set("EXPIRED") ELSE cs
             ELSE IF Target(e.type) \in TaxEdges[c.status] THEN Set(Target(e.type)) ELSE cs
  BY DEF Apply
<1>6. Follows(cs, e, cs)
  BY DEF Follows
<1> HIDE DEF Set, States
<1>7. CASE c # Unopened /\ e.type = "EXPIRY_CHECK" /\ Expires(c, e.at)
  BY <1>2, <1>3, <1>5, <1>7 DEF Why
<1>8. CASE /\ c # Unopened /\ e.type \notin {"QUERY", "EXPIRY_CHECK"}
           /\ Target(e.type) \in TaxEdges[c.status]
  BY <1>2, <1>4, <1>5, <1>8 DEF Why
<1> QED BY <1>5, <1>6, <1>7, <1>8

LEMMA RunEdges ==
  /\ \A type \in EventTypes \ {"QUERY", "EXPIRY_CHECK"} :
       Target(type) \notin TaxEdges["ASSESSED"] \cup TaxEdges["EXPIRED"]
  /\ "EXPIRED" \in TaxTerminal
<1>1. "ASSESSED" \in Unsent /\ "EXPIRED" \in TaxTerminal
  BY DEF Unsent, TaxTerminal
<1>2. TaxEdges["ASSESSED"] = {"PENDING_DOCUMENTATION", "READY_TO_SUBMIT", "EXPIRED"}
  BY <1>1 DEF TaxEdges
<1>3. TaxEdges["EXPIRED"] = {}
  BY <1>1 DEF TaxEdges
<1>4. \A type \in EventTypes \ {"QUERY", "EXPIRY_CHECK"} :
        Target(type) \in {"SUBMITTED", "ACKNOWLEDGED", "ACCEPTED", "REJECTED", "APPLIED"}
  BY DEF Target, EventTypes
<1> QED BY <1>1, <1>2, <1>3, <1>4

RunClaim(r, c) == c.status \in {"ASSESSED", "EXPIRED"} /\ c.deadline = Deadline(r)
Refund == "STANDARD_RECLAIM"

TaxInv ==
  /\ taxDay \in Nat /\ actual \subseteq EvidencedRates
  /\ told \subseteq ProviderEvents /\ IsFiniteSet(told) /\ \A e \in told : e.at <= taxDay
  /\ runClaims \in [Methods -> TaxClaims] /\ file \in [Methods -> TaxClaims]
  /\ orders \in [Methods -> {"NONE", "BLOCKED"}]
  /\ \A r \in Methods : runClaims[r] = Unopened \/ RunClaim(r, runClaims[r])
  /\ \A c \in {runClaims[Refund], file[Refund]} : c # Unopened => Backed(c)

\* What an assessment opens: a refund of what is evidenced; without documents it is ASSESSED.
LEMMA OpeningFacts ==
  ASSUME RecoveryAssumption, taxDay \in Nat, actual \subseteq EvidencedRates,
         NEW r \in Methods, NEW known \in BOOLEAN
  PROVE  LET o == Opening(r, known) IN
         /\ o \in TaxClaims
         /\ o # Unopened => /\ o.deadline = Deadline(r) /\ (r = Refund => Backed(o))
                            /\ o.status # "NONE" /\ (~known => o.status = "ASSESSED")
<1>1. Unopened \in TaxClaims
  BY DEF Unopened, TaxClaims
<1>2. CASE Assessed(r) # "ELIGIBLE"
  BY <1>1, <1>2 DEF Opening
<1>3. CASE Assessed(r) = "ELIGIBLE"
  <2> DEFINE st == IF ~known THEN "ASSESSED"
                   ELSE IF complete THEN "READY_TO_SUBMIT" ELSE "PENDING_DOCUMENTATION"
  <2>1. Opening(r, known) = [status |-> st, amount |-> Recoverable(r), deadline |-> Deadline(r)]
    BY <1>3 DEF Opening
  <2>2. st \in Unsent
    BY DEF Unsent
  <2>3. r = Refund => \E a \in actual : a > Entitled /\ Recoverable(r) = a - Entitled
    <3> SUFFICES ASSUME r = Refund PROVE \E a \in actual : a > Entitled /\ Recoverable(r) = a - Entitled
      OBVIOUS
    <3>1. Cardinality(actual) = 1 /\ ~\E a \in actual : a <= Entitled
      <4>1. Deadline(r) \in Nat /\ taxDay \in Nat
        BY DEF RecoveryAssumption
      <4>2. Deadline(r) > 0 /\ taxDay <= Deadline(r)
        BY <1>3, <4>1 DEF Assessed
      <4> QED BY <1>3, <4>1, <4>2 DEF Assessed, Refund
    <3>2. actual # {}
      BY <3>1, FS_EmptySet
    <3> DEFINE x == CHOOSE a \in actual : TRUE
    <3>3. x \in actual /\ Recoverable(r) = x - Entitled
      BY <3>2 DEF Recoverable, Refund
    <3> HIDE DEF x
    <3>4. x \in Nat /\ Entitled \in Nat /\ ~(x <= Entitled)
      BY <3>1, <3>3 DEF RecoveryAssumption
    <3> QED BY <3>3, <3>4
  <2>4. Recoverable(r) \in Nat
    <3>1. CASE r = Refund
      BY <2>3, <3>1 DEF RecoveryAssumption
    <3>2. CASE r # Refund
      BY <3>2, MethodsAre DEF Recoverable, Refund
    <3> QED BY <3>1, <3>2
  <2>5. Deadline(r) \in Nat
    BY DEF RecoveryAssumption
  <2> HIDE DEF st
  <2>6. Opening(r, known) \in TaxClaims
    BY <2>1, <2>2, <2>4, <2>5 DEF TaxClaims
  <2>7. st # "NONE" /\ (~known => st = "ASSESSED")
    BY DEF st
  <2>8. r = Refund => Backed(Opening(r, known))
    BY <2>1, <2>3 DEF Backed
  <2> QED BY <2>1, <2>6, <2>7, <2>8
<1> QED BY <1>2, <1>3

\* What opens is merged with what there was.
LEMMA MergedFacts ==
  ASSUME NEW prev \in [Methods -> TaxClaims], NEW new \in [Methods -> TaxClaims],
         \A c \in {prev[Refund], new[Refund]} : c # Unopened => Backed(c)
  PROVE  LET m == MergedWith(prev, new) IN
         /\ m \in [Methods -> TaxClaims]
         /\ \A r \in Methods :
              \/ m[r] = prev[r] /\ new[r] = Unopened
              \/ m[r] = new[r] /\ prev[r] = Unopened
              \/ /\ m[r].status = prev[r].status /\ m[r].deadline = new[r].deadline
                 /\ new[r] # Unopened /\ prev[r] # Unopened
         /\ m[Refund] # Unopened => Backed(m[Refund])
<1> DEFINE One(r) == IF new[r] = Unopened THEN prev[r]
                     ELSE IF prev[r] = Unopened THEN new[r]
                     ELSE [new[r] EXCEPT !.status = prev[r].status]
           m == MergedWith(prev, new)
<1>1. m = [r \in Methods |-> One(r)]
  BY DEF MergedWith
<1>2. ASSUME NEW r \in Methods
      PROVE  /\ One(r) \in TaxClaims
             /\ \/ One(r) = prev[r] /\ new[r] = Unopened
                \/ One(r) = new[r] /\ prev[r] = Unopened
                \/ /\ One(r).status = prev[r].status /\ One(r).deadline = new[r].deadline
                   /\ One(r).amount = new[r].amount /\ new[r] # Unopened /\ prev[r] # Unopened
  <2>1. prev[r] \in TaxClaims /\ new[r] \in TaxClaims
    OBVIOUS
  <2> QED BY <2>1 DEF TaxClaims
<1>3. Refund \in Methods
  BY MethodsAre DEF Refund
<1>4. \A r \in Methods : m[r] = One(r)
  BY <1>1
<1>5. m \in [Methods -> TaxClaims]
  BY <1>1, <1>2
<1> HIDE DEF One, m
<1>6. m[Refund] # Unopened => Backed(m[Refund])
  BY <1>2, <1>3, <1>4 DEF Backed
<1> QED BY <1>2, <1>4, <1>5, <1>6 DEF m

\* The claims a run goes on with, before the events.
LEMMA MergedRunFacts ==
  ASSUME RecoveryAssumption, TaxInv
  PROVE  /\ MergedRun \in [Methods -> TaxClaims]
         /\ \A r \in Methods :
              /\ MergedRun[r] = Unopened \/ RunClaim(r, MergedRun[r])
              /\ runClaims[r] # Unopened => /\ MergedRun[r] # Unopened
                                            /\ MergedRun[r].status = runClaims[r].status
              /\ runClaims[r] = Unopened => MergedRun[r].status # "EXPIRED"
         /\ MergedRun[Refund] # Unopened => Backed(MergedRun[Refund])
<1> DEFINE new == [r \in Methods |-> Opening(r, FALSE)]
<1>1. \A r \in Methods :
        /\ new[r] \in TaxClaims
        /\ new[r] # Unopened => new[r].deadline = Deadline(r) /\ new[r].status = "ASSESSED"
        /\ r = Refund /\ new[r] # Unopened => Backed(new[r])
  BY OpeningFacts DEF TaxInv
<1>2. new \in [Methods -> TaxClaims]
  BY <1>1
<1>3. Refund \in Methods
  BY MethodsAre DEF Refund
<1>4. MergedRun = MergedWith(runClaims, new)
  BY DEF MergedRun
<1> HIDE DEF new
<1>5. \A c \in {runClaims[Refund], new[Refund]} : c # Unopened => Backed(c)
  BY <1>1, <1>3 DEF TaxInv
<1>6. /\ MergedRun \in [Methods -> TaxClaims]
      /\ \A r \in Methods :
              \/ MergedRun[r] = runClaims[r] /\ new[r] = Unopened
              \/ MergedRun[r] = new[r] /\ runClaims[r] = Unopened
              \/ /\ MergedRun[r].status = runClaims[r].status /\ MergedRun[r].deadline = new[r].deadline
                 /\ new[r] # Unopened /\ runClaims[r] # Unopened
      /\ MergedRun[Refund] # Unopened => Backed(MergedRun[Refund])
  BY <1>2, <1>4, <1>5, MergedFacts DEF TaxInv
<1>7. Unopened.status = "NONE"
  BY DEF Unopened
<1>8. \A r \in Methods : runClaims[r] = Unopened \/ RunClaim(r, runClaims[r])
  BY DEF TaxInv
<1>9. ASSUME NEW r \in Methods
      PROVE  /\ MergedRun[r] = Unopened \/ RunClaim(r, MergedRun[r])
             /\ runClaims[r] # Unopened => /\ MergedRun[r] # Unopened
                                           /\ MergedRun[r].status = runClaims[r].status
             /\ runClaims[r] = Unopened => MergedRun[r].status # "EXPIRED"
  <2>1. CASE MergedRun[r] = runClaims[r]
    BY <1>7, <1>8, <2>1
  <2>2. CASE MergedRun[r] = new[r] /\ runClaims[r] = Unopened
    BY <1>1, <1>7, <2>2 DEF RunClaim
  <2>3. CASE /\ MergedRun[r].status = runClaims[r].status /\ MergedRun[r].deadline = new[r].deadline
             /\ new[r] # Unopened /\ runClaims[r] # Unopened
    BY <1>1, <1>7, <1>8, <2>3 DEF RunClaim
  <2> QED BY <1>6, <2>1, <2>2, <2>3
<1> QED BY <1>6, <1>9

\* The events of a run: its own deadline checks and what the provider told.
LEMMA RunEvents ==
  ASSUME RecoveryAssumption, TaxInv
  PROVE  LET es == Checks(MergedRun) \cup told IN
         Dated(es) /\ \A e \in es : Event(e) /\ e.at <= taxDay
<1> DEFINE Check(i) == [no |-> i, claim |-> Recoveries[i], type |-> "EXPIRY_CHECK", at |-> taxDay]
<1>1. DOMAIN Recoveries = 1..2 /\ 1..2 = {1, 2}
  BY DEF Recoveries
<1>2. Checks(MergedRun) \subseteq {Check(1), Check(2)}
  BY <1>1 DEF Checks
<1>3. IsFiniteSet({Check(1), Check(2)})
  <2>1. IsFiniteSet({Check(1)})
    BY FS_Singleton
  <2>2. IsFiniteSet({Check(1)} \cup {Check(2)})
    BY <2>1, FS_AddElement
  <2>3. {Check(1), Check(2)} = {Check(1)} \cup {Check(2)}
    OBVIOUS
  <2> QED BY <2>2, <2>3
<1>4. Recoveries[1] \in Methods /\ Recoveries[2] \in Methods
  BY MethodsAre DEF Recoveries
<1>5. taxDay \in Nat
  BY DEF TaxInv
<1>6. \A i \in {1, 2} : Event(Check(i)) /\ Check(i).at <= taxDay
  BY <1>4, <1>5 DEF Event, EventTypes
<1> HIDE DEF Check
<1>7. \A e \in told : Event(e) /\ e.at <= taxDay
  BY DEF TaxInv, RecoveryAssumption, Event
<1>8. IsFiniteSet(Checks(MergedRun) \cup told)
  BY <1>2, <1>3, FS_Subset, FS_Union DEF TaxInv
<1>9. \A e \in Checks(MergedRun) \cup told : Event(e) /\ e.at <= taxDay
  BY <1>2, <1>6, <1>7
<1> QED BY <1>8, <1>9 DEF Dated, Event

\* The events leave the claims of a run as they were, or EXPIRED past the deadline.
LEMMA RunAnswered ==
  ASSUME RecoveryAssumption, TaxInv
  PROVE  RunHolds(Checks(MergedRun) \cup told, Answered(MergedRun, Checks(MergedRun) \cup told))
<1> DEFINE S == Checks(MergedRun) \cup told
<1>1. Dated(S) /\ \A e \in S : Event(e) /\ e.at <= taxDay
  BY RunEvents
<1> HIDE DEF S
<1>2. Running!IsFiniteSet(S) /\ Running!Picks(S)
  BY <1>1, RunIsFold
<1>3. PICK f : Running!IsFold(f, S) /\ Answered(MergedRun, S) = f[S]
  BY <1>1, RunIsFold
<1>4. RunHolds({}, MergedRun)
  BY MergedRunFacts DEF RunHolds, RunMoves
<1>5. ASSUME NEW s \in SUBSET S, NEW v, s # {}, RunHolds(s \ {Latest(s)}, v)
      PROVE  RunHolds(s, Apply(v, Latest(s)))
  <2> DEFINE e == Latest(s)
             now == Apply(v, e)
  <2>1. e \in S
    BY <1>2, <1>5 DEF Running!Picks
  <2>2. Event(e) /\ e.at <= taxDay /\ e.at \in Nat /\ taxDay \in Nat
    BY <1>1, <2>1 DEF Event, TaxInv
  <2> HIDE DEF e
  <2>3. v \in [Methods -> TaxClaims] /\ \A r \in Methods : RunMoves(MergedRun[r], v[r])
    BY <1>5 DEF RunHolds
  <2>4. Follows(v, e, now)
    BY <2>2, <2>3, ApplyFollows
  <2> HIDE DEF now
  <2>5. ASSUME NEW r \in Methods PROVE RunMoves(MergedRun[r], now[r])
    <3>1. CASE now[r] = v[r]
      BY <2>3, <3>1
    <3>2. CASE now[r] # v[r]
      <4>1. Why(v, e, r, now[r].status) /\ v[r] # Unopened
        BY <2>4, <3>2 DEF Follows, Why
      <4>2. v[r] \in TaxClaims /\ now[r] \in TaxClaims
        BY <2>3, <2>4 DEF Follows
      <4>3. v[r].status # "EXPIRED"
        <5> SUFFICES ASSUME v[r].status = "EXPIRED" PROVE FALSE
          OBVIOUS
        <5> QED BY <2>2, <4>1, RunEdges DEF Why, Expires, Event
      <4>4. v[r] = MergedRun[r] /\ v[r].status = "ASSESSED"
        BY <2>3, <4>1, <4>3, MergedRunFacts DEF RunMoves, RunClaim
      <4>5. e.type = "EXPIRY_CHECK" /\ Expires(v[r], e.at) /\ now[r].status = "EXPIRED"
        BY <2>2, <4>1, <4>4, RunEdges DEF Why, Event
      <4>6. taxDay > v[r].deadline
        BY <2>2, <4>2, <4>5 DEF Expires, TaxClaims
      <4>7. now[r] # Unopened
        BY <4>5 DEF Unopened
      <4>8. now[r].amount = v[r].amount /\ now[r].deadline = v[r].deadline
        BY <2>4 DEF Follows
      <4> QED BY <4>1, <4>2, <4>4, <4>5, <4>6, <4>7, <4>8 DEF RunMoves
    <3> QED BY <3>1, <3>2
  <2>6. now \in [Methods -> TaxClaims]
    BY <2>4 DEF Follows
  <2>7. RunHolds(s, now)
    BY <2>5, <2>6 DEF RunHolds
  <2> QED BY <2>7 DEF now, e
<1>6. \A s \in SUBSET S : RunHolds(s, f[s])
  BY <1>2, <1>3, <1>4, <1>5, Running!FoldInduction
<1> QED BY <1>3, <1>6 DEF S

\* One event leaves the claims of the operator's file their amounts.
LEMMA FileAnswered ==
  ASSUME NEW e, Event(e), file \in [Methods -> TaxClaims]
  PROVE  FileHolds({e}, Answered(file, {e}))
<1> DEFINE S == {e}
<1>1. Dated(S)
  BY FS_Singleton DEF Dated, Event
<1>2. \A o \in S : Event(o)
  OBVIOUS
<1> HIDE DEF S
<1>3. Filing!IsFiniteSet(S) /\ Filing!Picks(S)
  BY <1>1, FileIsFold
<1>4. PICK f : Filing!IsFold(f, S) /\ Answered(file, S) = f[S]
  BY <1>1, FileIsFold
<1>5. FileHolds({}, file)
  BY DEF FileHolds, FileMoves
<1>6. ASSUME NEW s \in SUBSET S, NEW v, s # {}, FileHolds(s \ {Latest(s)}, v)
      PROVE  FileHolds(s, Apply(v, Latest(s)))
  <2>1. Event(Latest(s))
    BY <1>2, <1>3, <1>6 DEF Filing!Picks
  <2>2. v \in [Methods -> TaxClaims]
    BY <1>6 DEF FileHolds
  <2>3. Follows(v, Latest(s), Apply(v, Latest(s)))
    BY <2>1, <2>2, ApplyFollows
  <2>4. \A r \in Methods : Why(v, Latest(s), r, Apply(v, Latest(s))[r].status) =>
          Apply(v, Latest(s))[r].status # "NONE"
    BY <2>1 DEF Why, Event, EventTypes, Target
  <2> QED BY <1>6, <2>3, <2>4 DEF FileHolds, FileMoves, Follows, Why
<1>7. \A s \in SUBSET S : FileHolds(s, f[s])
  BY <1>3, <1>4, <1>5, <1>6, Filing!FoldInduction
<1> QED BY <1>4, <1>7 DEF S

LEMMA TaxInitially == RecoveryAssumption /\ TaxInit => TaxInv
<1> SUFFICES ASSUME RecoveryAssumption, TaxInit PROVE TaxInv
  OBVIOUS
<1>1. Unopened \in TaxClaims
  BY DEF Unopened, TaxClaims
<1>2. NoClaims \in [Methods -> TaxClaims] /\ \A r \in Methods : NoClaims[r] = Unopened
  BY <1>1 DEF NoClaims
<1>3. Refund \in Methods
  BY MethodsAre DEF Refund
<1> QED BY <1>2, <1>3, FS_EmptySet DEF TaxInit, TaxInv, NoOrders

\* What the claims and the instructions of a run say, and what a step may do to them.
TaxStands ==
  /\ \A r \in Methods :
       /\ (runClaims[r] # Unopened /\ runClaims'[r] = Unopened) => ~Reckoned
       /\ (runClaims[r].status \in TaxTerminal /\ runClaims'[r] # Unopened) =>
            runClaims'[r].status = runClaims[r].status
       /\ (runClaims'[r].status = "EXPIRED" /\ runClaims[r].status # "EXPIRED") => taxDay > Deadline(r)
       /\ runClaims'[r] = Unopened \/ RunClaim(r, runClaims'[r])
  /\ \A c \in {runClaims'[Refund], file'[Refund]} : c # Unopened => Backed(c)
  /\ runClaims' \in [Methods -> TaxClaims] /\ file' \in [Methods -> TaxClaims]
  /\ orders' \in [Methods -> {"NONE", "BLOCKED"}]

\* The step of a run.
LEMMA RunStands ==
  ASSUME RecoveryAssumption, TaxInv, NEW succeeds \in BOOLEAN, RunRecovery(succeeds)
  PROVE  TaxStands
<1>1. Refund \in Methods /\ Unopened.status \notin TaxTerminal \cup {"EXPIRED", "ASSESSED", "READY_TO_SUBMIT"}
  BY MethodsAre DEF Refund, Unopened, TaxTerminal
<1>2. CASE succeeds /\ Reckoned
  <2> DEFINE S == Checks(MergedRun) \cup told
             after == Answered(MergedRun, S)
  <2>1. /\ runClaims' = after /\ file' = file
        /\ orders' = [r \in Methods |-> Order(MergedRun[r])]
    BY <1>2 DEF RunRecovery, MergedRun
  <2>2. after \in [Methods -> TaxClaims] /\ \A r \in Methods : RunMoves(MergedRun[r], after[r])
    BY RunAnswered DEF RunHolds
  <2> HIDE DEF after
  <2>3. ASSUME NEW r \in Methods
        PROVE  /\ runClaims[r] # Unopened => after[r] # Unopened
               /\ runClaims[r].status \in TaxTerminal => after[r].status = runClaims[r].status
               /\ (after[r].status = "EXPIRED" /\ runClaims[r].status # "EXPIRED") => taxDay > Deadline(r)
               /\ after[r] = Unopened \/ RunClaim(r, after[r])
    <3>1. RunMoves(MergedRun[r], after[r])
      BY <2>2
    <3>2. /\ MergedRun[r] = Unopened \/ RunClaim(r, MergedRun[r])
          /\ runClaims[r] # Unopened => /\ MergedRun[r] # Unopened
                                        /\ MergedRun[r].status = runClaims[r].status
          /\ runClaims[r] = Unopened => MergedRun[r].status # "EXPIRED"
      BY MergedRunFacts
    <3>3. "ASSESSED" \notin TaxTerminal
      BY DEF TaxTerminal
    <3>4. CASE after[r] = MergedRun[r]
      BY <1>1, <3>2, <3>4 DEF RunClaim
    <3>5. CASE /\ MergedRun[r] # Unopened /\ MergedRun[r].status = "ASSESSED" /\ after[r].status = "EXPIRED"
               /\ taxDay > MergedRun[r].deadline /\ after[r] # Unopened
      <4>1. after[r].deadline = MergedRun[r].deadline
        BY <3>1 DEF RunMoves
      <4> QED BY <1>1, <3>2, <3>3, <3>5, <4>1 DEF RunClaim
    <3> QED BY <3>1, <3>4, <3>5 DEF RunMoves
  <2>4. after[Refund] # Unopened => Backed(after[Refund])
    <3>1. RunMoves(MergedRun[Refund], after[Refund])
      BY <1>1, <2>2
    <3>2. MergedRun[Refund] # Unopened => Backed(MergedRun[Refund])
      BY MergedRunFacts
    <3>3. after[Refund] # Unopened => MergedRun[Refund] # Unopened
      BY <3>1 DEF RunMoves
    <3> QED BY <3>1, <3>2, <3>3 DEF RunMoves, Backed
  <2>5. \A r \in Methods : MergedRun[r].status # "READY_TO_SUBMIT"
    BY <1>1, MergedRunFacts DEF RunClaim
  <2>6. orders' \in [Methods -> {"NONE", "BLOCKED"}]
    BY <2>1, <2>5 DEF Order
  <2> QED BY <2>1, <2>2, <2>3, <2>4, <2>6 DEF TaxStands, TaxInv
<1>3. CASE ~succeeds
  <2>1. runClaims' = runClaims /\ orders' = orders /\ file' = file
    BY <1>3 DEF RunRecovery
  <2> QED BY <1>1, <2>1 DEF TaxStands, TaxInv
<1>4. CASE succeeds /\ ~Reckoned
  <2>1. runClaims' = NoClaims /\ orders' = NoOrders /\ file' = file
    BY <1>4 DEF RunRecovery
  <2>2. NoClaims \in [Methods -> TaxClaims] /\ \A r \in Methods : NoClaims[r] = Unopened
    BY DEF NoClaims, Unopened, TaxClaims
  <2>3. NoOrders \in [Methods -> {"NONE", "BLOCKED"}]
    BY DEF NoOrders
  <2> QED BY <1>1, <1>4, <2>1, <2>2, <2>3 DEF TaxStands, TaxInv
<1> QED BY <1>2, <1>3, <1>4

\* The commands on the operator's file.
LEMMA FileStands ==
  ASSUME RecoveryAssumption, TaxInv,
         \/ OpenFile(file) \/ OpenFile(runClaims) \/ ReopenFile
         \/ \E e \in ProviderEvents : FileEvent(e)
  PROVE  file' \in [Methods -> TaxClaims] /\ (file'[Refund] # Unopened => Backed(file'[Refund]))
<1>1. Refund \in Methods
  BY MethodsAre DEF Refund
<1>2. ASSUME NEW known \in [Methods -> BOOLEAN], NEW new, new = [r \in Methods |-> Opening(r, known[r])]
      PROVE  new \in [Methods -> TaxClaims] /\ (new[Refund] # Unopened => Backed(new[Refund]))
  <2>1. \A r \in Methods : /\ Opening(r, known[r]) \in TaxClaims
                           /\ Opening(r, known[r]) # Unopened /\ r = Refund => Backed(Opening(r, known[r]))
    <3> SUFFICES ASSUME NEW r \in Methods
                 PROVE /\ Opening(r, known[r]) \in TaxClaims
                       /\ Opening(r, known[r]) # Unopened /\ r = Refund => Backed(Opening(r, known[r]))
      OBVIOUS
    <3>1. known[r] \in BOOLEAN
      OBVIOUS
    <3> QED BY <3>1, OpeningFacts DEF TaxInv
  <2> QED BY <1>1, <1>2, <2>1
<1>3. ASSUME NEW prev \in [Methods -> TaxClaims], prev[Refund] # Unopened => Backed(prev[Refund]),
             OpenFile(prev)
      PROVE  file' \in [Methods -> TaxClaims] /\ (file'[Refund] # Unopened => Backed(file'[Refund]))
  <2> DEFINE known == [r \in Methods |-> prev[r] # Unopened]
             new == [r \in Methods |-> Opening(r, known[r])]
  <2>1. known \in [Methods -> BOOLEAN]
    OBVIOUS
  <2>2. new = [r \in Methods |-> Opening(r, prev[r] # Unopened)]
    OBVIOUS
  <2>3. file' = MergedWith(prev, new)
    BY <1>3, <2>2 DEF OpenFile
  <2> HIDE DEF known
  <2>4. new \in [Methods -> TaxClaims] /\ (new[Refund] # Unopened => Backed(new[Refund]))
    BY <1>2, <2>1
  <2> HIDE DEF new
  <2> QED BY <1>3, <2>3, <2>4, MergedFacts
<1>4. CASE OpenFile(file)
  BY <1>3, <1>4 DEF TaxInv
<1>5. CASE OpenFile(runClaims)
  BY <1>3, <1>5 DEF TaxInv
<1>6. CASE ReopenFile
  <2> DEFINE known == [r \in Methods |-> file[r] # Unopened]
  <2>1. known \in [Methods -> BOOLEAN]
    OBVIOUS
  <2>2. file' = [r \in Methods |-> Opening(r, known[r])]
    BY <1>6 DEF ReopenFile
  <2> HIDE DEF known
  <2> QED BY <1>2, <2>1, <2>2
<1>7. ASSUME NEW e \in ProviderEvents, FileEvent(e)
      PROVE  file' \in [Methods -> TaxClaims] /\ (file'[Refund] # Unopened => Backed(file'[Refund]))
  <2>1. Event(e)
    BY DEF RecoveryAssumption, Event
  <2>2. FileHolds({e}, file')
    BY <1>7, <2>1, FileAnswered DEF FileEvent, TaxInv
  <2> QED BY <1>1, <2>2 DEF FileHolds, FileMoves, TaxInv, Backed
<1> QED BY <1>4, <1>5, <1>6, <1>7

\* Every claim of the file has a status, and the deadline of its rule.
Filed(c, r) == c.status # "NONE" /\ c.deadline = Deadline(r)
FileInv == \A r \in Methods : file[r] = Unopened \/ Filed(file[r], r)

LEMMA FileStaysFiled ==
  ASSUME RecoveryAssumption, TaxInv, FileInv, [TaxNext]_trVars
  PROVE  FileInv'
<1>1. ASSUME NEW r \in Methods, NEW known \in BOOLEAN
      PROVE  /\ Opening(r, known) \in TaxClaims
             /\ Opening(r, known) = Unopened \/ Filed(Opening(r, known), r)
  BY OpeningFacts DEF TaxInv, Filed
<1>2. ASSUME NEW prev \in [Methods -> TaxClaims], OpenFile(prev),
             \A r \in Methods : prev[r] = Unopened \/ Filed(prev[r], r),
             NEW r \in Methods
      PROVE  file'[r] = Unopened \/ Filed(file'[r], r)
  <2> DEFINE o == Opening(r, prev[r] # Unopened)
  <2>1. file'[r] = CASE o = Unopened -> prev[r]
                     [] o # Unopened /\ prev[r] = Unopened -> o
                     [] OTHER -> [o EXCEPT !.status = prev[r].status]
    BY <1>2 DEF OpenFile, MergedWith
  <2>2. o \in TaxClaims /\ (o = Unopened \/ Filed(o, r))
    BY <1>1
  <2> HIDE DEF o
  <2>3. CASE o # Unopened /\ prev[r] # Unopened
    <3>1. file'[r] = [o EXCEPT !.status = prev[r].status]
      BY <2>1, <2>3
    <3>2. file'[r].status = prev[r].status /\ file'[r].deadline = o.deadline
      BY <2>2, <3>1 DEF TaxClaims
    <3> QED BY <1>2, <2>2, <2>3, <3>2 DEF Filed
  <2> QED BY <1>2, <2>1, <2>2, <2>3
<1>3. CASE OpenFile(file)
  BY <1>2, <1>3 DEF TaxInv, FileInv, Filed
<1>4. CASE OpenFile(runClaims)
  <2>1. \A r \in Methods : runClaims[r] = Unopened \/ Filed(runClaims[r], r)
    BY DEF TaxInv, RunClaim, Filed
  <2> QED BY <1>2, <1>4, <2>1 DEF TaxInv, FileInv, Filed
<1>5. CASE ReopenFile
  <2>1. ASSUME NEW r \in Methods PROVE file'[r] = Unopened \/ Filed(file'[r], r)
    <3>1. file'[r] = Opening(r, file[r] # Unopened)
      BY <1>5 DEF ReopenFile
    <3> QED BY <1>1, <3>1
  <2> QED BY <2>1 DEF FileInv, Filed
<1>6. CASE \E e \in ProviderEvents : FileEvent(e)
  <2>1. PICK e \in ProviderEvents : FileEvent(e)
    BY <1>6
  <2>2. Event(e)
    BY DEF RecoveryAssumption, Event
  <2>3. FileHolds({e}, file')
    BY <2>1, <2>2, FileAnswered DEF FileEvent, TaxInv
  <2> QED BY <2>3 DEF FileHolds, FileMoves, FileInv, Filed
<1>7. CASE file' = file
  BY <1>7 DEF FileInv, Filed
<1>8. CASE \/ \E ok \in BOOLEAN : RunRecovery(ok)
           \/ \E e \in ProviderEvents : ProviderTells(e)
           \/ \E v \in Credits : Credited(v)
           \/ Edit \/ TaxDay \/ UNCHANGED trVars
  BY <1>7, <1>8 DEF RunRecovery, ProviderTells, Credited, Edit, TaxDay, trVars
<1> QED BY <1>3, <1>4, <1>5, <1>6, <1>8 DEF TaxNext

\* What the day, the profile and the inputs may be.
TaxWorld ==
  /\ taxDay \in 1..LastTaxDay /\ profile \in Profiles /\ complete \in BOOLEAN
  /\ inputs \subseteq RunInputs
  /\ credits \subseteq Credits /\ IsFiniteSet(credits) /\ edits \in 0..MaxEdits

LEMMA TaxWorldKept == RecoveryAssumption /\ TaxWorld /\ [TaxNext]_trVars => TaxWorld'
<1> SUFFICES ASSUME RecoveryAssumption, TaxWorld, [TaxNext]_trVars PROVE TaxWorld'
  OBVIOUS
<1>1. CASE Edit
  <2>1. profile' \in Profiles /\ credits' = credits /\ taxDay' = taxDay
    BY <1>1 DEF Edit, TaxWorld
  <2>2. complete' \in BOOLEAN
    BY <1>1, Zenon DEF Edit, TaxWorld
  <2>3. edits' \in 0..MaxEdits
    BY <1>1 DEF Edit, TaxWorld, RecoveryAssumption
  <2>4. inputs' \subseteq RunInputs
    <3>1. \A i \in RunInputs : SymDiff(inputs, {i}) \subseteq RunInputs
      BY DEF SymDiff, TaxWorld
    <3> QED BY <1>1, <3>1, Zenon DEF Edit, TaxWorld
  <2> QED BY <2>1, <2>2, <2>3, <2>4 DEF TaxWorld
<1>2. CASE TaxDay
  <2>1. taxDay' \in 1..LastTaxDay
    BY <1>2 DEF TaxDay, TaxWorld, RecoveryAssumption
  <2>2. UNCHANGED <<profile, complete, inputs, credits, edits>>
    BY <1>2 DEF TaxDay
  <2> QED BY <2>1, <2>2 DEF TaxWorld
<1>3. CASE \E v \in Credits : Credited(v)
  BY <1>3, FS_AddElement DEF Credited, TaxWorld
<1>4. CASE \/ \E ok \in BOOLEAN : RunRecovery(ok)
           \/ OpenFile(file) \/ OpenFile(runClaims) \/ ReopenFile
           \/ \E e \in ProviderEvents : FileEvent(e)
           \/ \E e \in ProviderEvents : ProviderTells(e)
           \/ UNCHANGED trVars
  <2>1. UNCHANGED <<taxDay, profile, complete, inputs, credits, edits>>
    BY <1>4 DEF RunRecovery, OpenFile, ReopenFile, FileEvent, ProviderTells, trVars
  <2> QED BY <2>1 DEF TaxWorld
<1> QED BY <1>1, <1>2, <1>3, <1>4 DEF TaxNext

LEMMA RecoveryTyped == TaxInv /\ FileInv /\ TaxWorld => TaxTypeOK
<1> SUFFICES ASSUME TaxInv, FileInv, TaxWorld PROVE TaxTypeOK
  OBVIOUS
<1> DEFINE Sent == TaxTerminal \cup Unsent \cup Under
<1>1. {"ASSESSED", "EXPIRED"} \subseteq Sent
  BY DEF Unsent, TaxTerminal
<1> HIDE DEF Sent
<1>2. \A c \in TaxClaims : c.status \in Sent \cup {"NONE"} /\ c.amount \in Nat
  BY DEF TaxClaims, Sent
<1>3. \A r \in Methods : runClaims[r] \in TaxClaims /\ file[r] \in TaxClaims
  BY DEF TaxInv
<1>4. ClaimsOK(runClaims)
  BY <1>1, <1>2, <1>3 DEF ClaimsOK, TaxInv, RunClaim, Sent
<1>5. ClaimsOK(file)
  BY <1>2, <1>3 DEF ClaimsOK, FileInv, Filed, Sent
<1>6. \A r \in Methods : orders[r] \in {"NONE", "SUBMIT", "BLOCKED"}
  BY DEF TaxInv
<1> QED BY <1>4, <1>5, <1>6 DEF TaxTypeOK, TaxWorld, TaxInv

LEMMA TaxMoves ==
  ASSUME RecoveryAssumption, TaxInv, [TaxNext]_trVars
  PROVE  TaxStands
<1> DEFINE quiet == runClaims' = runClaims /\ orders' = orders
<1>1. \A r \in Methods : Unopened.status \notin TaxTerminal
  BY DEF Unopened, TaxTerminal
<1>2. ASSUME runClaims' = runClaims, orders' = orders, file' \in [Methods -> TaxClaims],
             file'[Refund] # Unopened => Backed(file'[Refund])
      PROVE  TaxStands
  BY <1>2 DEF TaxStands, TaxInv
<1>3. CASE \E ok \in BOOLEAN : RunRecovery(ok)
  BY <1>3, RunStands
<1>4. CASE \/ OpenFile(file) \/ OpenFile(runClaims) \/ ReopenFile
           \/ \E e \in ProviderEvents : FileEvent(e)
  <2>1. runClaims' = runClaims /\ orders' = orders
    BY <1>4 DEF OpenFile, ReopenFile, FileEvent
  <2> QED BY <1>2, <1>4, <2>1, FileStands
<1>5. CASE \/ \E e \in ProviderEvents : ProviderTells(e)
           \/ \E v \in Credits : Credited(v)
           \/ Edit \/ TaxDay \/ UNCHANGED trVars
  <2>1. runClaims' = runClaims /\ orders' = orders /\ file' = file
    BY <1>5 DEF ProviderTells, Credited, Edit, TaxDay, trVars
  <2> QED BY <1>2, <2>1 DEF TaxInv
<1> QED BY <1>3, <1>4, <1>5 DEF TaxNext

LEMMA TaxInvStep ==
  ASSUME RecoveryAssumption, TaxInv, [TaxNext]_trVars
  PROVE  TaxInv'
<1>1. TaxStands
  BY TaxMoves
<1>2. /\ taxDay' \in Nat /\ taxDay' >= taxDay /\ actual \subseteq actual' /\ actual' \subseteq EvidencedRates
      /\ told' \subseteq ProviderEvents /\ IsFiniteSet(told') /\ \A e \in told' : e.at <= taxDay'
  <2>1. CASE UNCHANGED <<taxDay, actual, told>>
    BY <2>1 DEF TaxInv
  <2>2. ASSUME NEW e \in ProviderEvents, ProviderTells(e)
        PROVE  /\ taxDay' = taxDay /\ actual' = actual
               /\ told' \subseteq ProviderEvents /\ IsFiniteSet(told') /\ \A o \in told' : o.at <= taxDay
    <3>1. told' = told \cup {e} /\ e.at <= taxDay /\ taxDay' = taxDay /\ actual' = actual
      BY <2>2 DEF ProviderTells
    <3>2. IsFiniteSet(told')
      BY <3>1, FS_AddElement DEF TaxInv
    <3> QED BY <3>1, <3>2 DEF TaxInv
  <2>3. CASE Edit
    <3>1. taxDay' = taxDay /\ told' = told
      BY <2>3 DEF Edit
    <3>2. actual' = actual \/ \E a \in EvidencedRates : actual' = actual \cup {a}
      BY <2>3, Zenon DEF Edit
    <3> QED BY <3>1, <3>2 DEF TaxInv
  <2>4. CASE TaxDay
    <3>1. taxDay' = taxDay + 1 /\ told' = told /\ actual' = actual
      BY <2>4 DEF TaxDay
    <3>2. \A e \in told : e.at \in Nat /\ e.at <= taxDay
      BY DEF TaxInv, RecoveryAssumption
    <3> QED BY <3>1, <3>2 DEF TaxInv
  <2>5. \/ UNCHANGED <<taxDay, actual, told>> \/ Edit \/ TaxDay
        \/ \E e \in ProviderEvents : ProviderTells(e)
    <3>1. CASE \E ok \in BOOLEAN : RunRecovery(ok)
      BY <3>1 DEF RunRecovery
    <3>2. CASE OpenFile(file) \/ OpenFile(runClaims) \/ ReopenFile
      BY <3>2 DEF OpenFile, ReopenFile
    <3>3. CASE \/ \E e \in ProviderEvents : FileEvent(e)
               \/ \E v \in Credits : Credited(v)
      BY <3>3 DEF FileEvent, Credited
    <3>4. CASE UNCHANGED trVars
      BY <3>4 DEF trVars
    <3> QED BY <3>1, <3>2, <3>3, <3>4 DEF TaxNext
  <2>6. taxDay \in Nat
    BY DEF TaxInv
  <2>7. (\E e \in ProviderEvents : ProviderTells(e)) =>
          /\ taxDay' \in Nat /\ taxDay' >= taxDay /\ actual \subseteq actual' /\ actual' \subseteq EvidencedRates
          /\ told' \subseteq ProviderEvents /\ IsFiniteSet(told') /\ \A o \in told' : o.at <= taxDay'
    BY <2>2, <2>6 DEF TaxInv
  <2> QED BY <2>1, <2>3, <2>4, <2>5, <2>7
<1>3. \A c : Backed(c) => Backed(c)'
  BY <1>2 DEF Backed
<1> QED BY <1>1, <1>2, <1>3 DEF TaxStands, TaxInv, RunClaim

RecoverySpec == TaxInit /\ [][TaxNext]_trVars

LEMMA StandsIsMoves ==
  ASSUME RecoveryAssumption, TaxInv, [TaxNext]_trVars
  PROVE  ClaimsMove
<1>1. TaxStands
  BY TaxMoves
<1>2. \A r \in Methods : orders'[r] # "SUBMIT"
  BY <1>1 DEF TaxStands
<1> QED BY <1>1, <1>2 DEF TaxStands, ClaimsMove

\* The credits that name a claim add up to a number.
AddCredit(v, x) == x.amount + v
IsAmount(s, v) == v \in Nat
Crediting == INSTANCE FoldFacts WITH Step <- AddCredit, Base <- 0, Pick <- AnyOf, Holds <- IsAmount

LEMMA RefundedIsNumber ==
  ASSUME RecoveryAssumption, credits \subseteq Credits, IsFiniteSet(credits), NEW r
  PROVE  Refunded(r) \in Nat
<1> DEFINE S == {v \in credits : v.claim = r}
           E(f) == f = [s \in SUBSET S |->
                         IF s = {} THEN 0
                         ELSE (CHOOSE x \in s : TRUE).amount + f[s \ {CHOOSE x \in s : TRUE}]]
<1>1. Refunded(r) = (CHOOSE f : E(f))[S]
  BY DEF Refunded, MapThenSumSet, MapThenFoldSet
<1>2. Crediting!IsFiniteSet(S) /\ Crediting!Picks(S)
  <2>1. IsFiniteSet(S)
    BY FS_Subset
  <2> QED BY <2>1 DEF IsFiniteSet, Crediting!IsFiniteSet, Crediting!Picks, AnyOf
<1>3. PICK g : Crediting!IsFold(g, S)
  BY <1>2, Crediting!FoldExists
<1>4. \A f : E(f) <=> Crediting!IsFold(f, S)
  BY Zenon DEF Crediting!IsFold, AddCredit, AnyOf
<1>5. \A v \in S : v.amount \in Nat
  BY DEF RecoveryAssumption
<1> HIDE DEF E, S
<1>6. PICK f : Crediting!IsFold(f, S) /\ Refunded(r) = f[S]
  BY <1>1, <1>3, <1>4
<1>7. ASSUME NEW s \in SUBSET S, NEW v, s # {}, IsAmount(s \ {AnyOf(s)}, v)
      PROVE  IsAmount(s, AddCredit(v, AnyOf(s)))
  <2>1. AnyOf(s) \in S
    BY <1>2, <1>7 DEF Crediting!Picks
  <2> QED BY <1>5, <1>7, <2>1 DEF IsAmount, AddCredit
<1>8. IsAmount({}, 0)
  BY DEF IsAmount
<1>9. \A s \in SUBSET S : IsAmount(s, f[s])
  BY <1>2, <1>6, <1>7, <1>8, Crediting!FoldInduction
<1> QED BY <1>6, <1>9 DEF IsAmount

\* A claim asks for an excess that was evidenced, and is measured against it.
LEMMA RefundsAreBacked ==
  ASSUME RecoveryAssumption, TaxInv, TaxWorld
  PROVE  RefundsBacked
<1> SUFFICES ASSUME NEW c \in {runClaims[Refund], file[Refund]}, c # Unopened
             PROVE  RefundBacked(c, Refund)
  BY DEF RefundsBacked, Refund
<1>1. PICK a \in actual : a > Entitled /\ c.amount = a - Entitled
  BY DEF TaxInv, Backed
<1>2. a \in Nat /\ Entitled \in Nat
  BY DEF TaxInv, RecoveryAssumption
<1>3. Refunded(Refund) \in Nat
  BY RefundedIsNumber DEF TaxWorld
<1> DEFINE n == Refunded(Refund)
           says == Recon(c, Refund)
<1>4. /\ says = "PAID" => n = c.amount
      /\ says = "PARTIALLY_PAID" => n # 0 /\ ~(n > c.amount) /\ n # c.amount
      /\ says = "OVERPAID" => n > c.amount
  BY DEF Recon
<1> HIDE DEF says, n
<1>5. /\ says = "PAID" => n + Entitled = a
      /\ says = "PARTIALLY_PAID" => n > 0 /\ n + Entitled < a
      /\ says = "OVERPAID" => n + Entitled > a
  BY <1>1, <1>2, <1>3, <1>4 DEF n
<1> QED BY <1>1, <1>5 DEF RefundBacked, says, n

\* A refund claim of the runs or of the operator's file asks for exactly the excess of a rate
\* that was evidenced, and what is credited to it is called a part, the whole or too much of
\* that excess.  In the claims of the runs a claim is lost only to a run that does not reckon
\* its event, what is terminal stays so while it lives, and it expires only past its deadline;
\* no run writes an instruction that submits (tax_recovery_case.py, tax_recovery_status.py,
\* tax_recovery_recon.py).
THEOREM RecoveryKeepsClaims ==
  ASSUME RecoveryAssumption
  PROVE  RecoverySpec => RecoveryStands /\ []TaxTypeOK
<1>1. TaxInit => TaxInv
  BY TaxInitially
<1>2. TaxInv /\ [TaxNext]_trVars => TaxInv'
  BY TaxInvStep
<1>3. TaxInv /\ [TaxNext]_trVars => [ClaimsMove]_trVars
  BY StandsIsMoves
<1>4. TaxInit => FileInv /\ TaxWorld
  <2>1. TaxInit => FileInv
    BY DEF TaxInit, FileInv, NoClaims
  <2>2. TaxInit => TaxWorld
    <3>1. 1 \in 1..LastTaxDay /\ 0 \in 0..MaxEdits
      BY DEF RecoveryAssumption
    <3> QED BY <3>1, FS_EmptySet DEF TaxInit, TaxWorld, Profiles
  <2> QED BY <2>1, <2>2
<1>5. TaxInv /\ FileInv /\ TaxWorld /\ [TaxNext]_trVars => FileInv' /\ TaxWorld'
  BY FileStaysFiled, TaxWorldKept
<1>6. TaxInv /\ TaxWorld => RefundsBacked
  BY RefundsAreBacked
<1>7. RefundsBacked' /\ [ClaimsMove]_trVars => [RecoveryMoves]_trVars
  BY DEF RecoveryMoves
<1> QED BY <1>1, <1>2, <1>3, <1>4, <1>5, <1>6, <1>7, RecoveryTyped, PTL DEF RecoverySpec, RecoveryStands

-----------------------------------------------------------------------------
(***************************************************************************)
(* Market claims.  A message can only move a claim along an edge, and none *)
(* leaves a terminal status; a request that is refused restores a status   *)
(* that was terminal only for a claim that still is.                       *)
(***************************************************************************)
NoteNos == {n.no : n \in Notes}
Living(c) ==
  /\ c = [status |-> c.status, pre |-> c.pre, seen |-> c.seen, refs |-> c.refs, amount |-> c.amount]
  /\ c.status \in Statuses
  /\ c.pre \in ClaimTerminal => c.status \in ClaimTerminal
  /\ c.pre \in Statuses \cup {"NONE"} /\ c.amount \in 1..2
  /\ c.seen \subseteq NoteNos /\ c.refs \subseteq NoteRefs
IsClaim(c) == c = NoClaim \/ Living(c)

ClaimInv ==
  /\ notes \subseteq Notes /\ IsFiniteSet(notes)
  /\ moves \subseteq Moves /\ declared \subseteq Documents /\ trade \in Trades /\ rate \in 0..2
  /\ today \in 1..LastClaimDay /\ shifts \in 0..MaxShifts
  /\ DOMAIN claims = Rules /\ claims = [r \in Rules |-> claims[r]]
  /\ \A r \in Rules : IsClaim(claims[r])

\* c is what the messages made of the claim b.
Outlives(b, c) ==
  /\ IsClaim(c)
  /\ b = NoClaim <=> c = NoClaim
  /\ b.status \in ClaimTerminal => c.status = b.status
  /\ c.status = "SETTLED" => b.status = "SETTLED"
  /\ c.status = "CANCELLED" => b.status = "CANCELLED" \/ \E n \in Addressed : Cancels(n)

HeedRun(acc, n) == HeedOne(Merged, n, acc)
HeardOf(s, v) == v = [r \in Rules |-> v[r]] /\ \A r \in Rules : Outlives(Merged[r], v[r])
Hearing == INSTANCE FoldFacts WITH
  Step <- HeedRun, Base <- Merged, Pick <- FinalNote, Holds <- HeardOf

LEMMA EdgesAre ==
  /\ \A s \in Statuses : Edges[s] \subseteq Statuses
  /\ \A s \in ClaimTerminal : Edges[s] = {}
  /\ ClaimTerminal \subseteq Statuses /\ "NONE" \notin Statuses /\ "EXPECTED" \in Statuses
  /\ "EXPECTED" \notin ClaimTerminal /\ "SETTLED" \in ClaimTerminal /\ "CANCELLED" \in ClaimTerminal
BY DEF Edges, Statuses, ClaimTerminal, Settleable

\* A claim that is moved is the same claim in another status, or as it was.
LEMMA TransitionMoves ==
  ASSUME NEW c, Living(c), NEW to
  PROVE  /\ Living(Transition(c, to))
         /\ c.status \in ClaimTerminal => Transition(c, to) = c
         /\ Transition(c, to).status \in {c.status, to}
         /\ Transition(c, to).refs = c.refs /\ Transition(c, to).amount = c.amount
<1>1. c.status \in Statuses
  BY DEF Living
<1>2. CASE to \in Edges[c.status]
  <2>1. to \in Statuses /\ c.status \notin ClaimTerminal
    BY <1>1, <1>2, EdgesAre
  <2>2. Transition(c, to) = [c EXCEPT !.status = to]
    BY <1>2 DEF Transition
  <2>3. [c EXCEPT !.status = to] =
        [status |-> to, pre |-> c.pre, seen |-> c.seen, refs |-> c.refs, amount |-> c.amount]
    BY DEF Living
  <2> QED BY <2>1, <2>2, <2>3 DEF Living
<1>3. CASE to \notin Edges[c.status]
  BY <1>3 DEF Transition
<1> QED BY <1>2, <1>3

\* What a message is once it is projected.
Saying == {"NOTIFIED", "ACCEPTED", "PENDING", "MATCHING", "REJECTED", "CANCELLED", "PROPRIETARY",
           "CANCEL_COMPLETED", "CANCEL_ACCEPTED", "CANCEL_REJECTED", "CANCEL_PENDING",
           "ABSENT", "CONFLICTING_CHOICE"}
KindSet == {"CLAIM_CREATION", "CLAIM_STATUS", "CANCELLATION_REQUEST", "CANCELLATION_STATUS"}
LEMMA AddressedSays ==
  ASSUME ClaimAssumption, notes \subseteq Notes, NEW n \in Addressed
  PROVE  /\ n.kind \in KindSet /\ n.says \in Saying /\ n.no \in Nat
         /\ n.no \in NoteNos /\ n.refs \subseteq NoteRefs
<1>1. PICK m \in notes : n = Projected(m)
  BY DEF Addressed
<1>2. m.no \in Nat /\ m.name \in {"seev.050", "seev.051", "seev.052", "seev.053"}
  BY DEF ClaimAssumption
<1>3. NoteKind(m) \in {"CLAIM_CREATION", "CLAIM_STATUS", "CANCELLATION_REQUEST", "CANCELLATION_STATUS"}
  BY <1>2 DEF NoteKind
<1>4. \A tags : Choice(tags, Status052) \in Saying /\ Choice(tags, Status053) \in Saying
  <2>1. \A t \in DOMAIN Status052 : Status052[t] \in Saying
    BY DEF Status052, Saying
  <2>2. \A t \in DOMAIN Status053 : Status053[t] \in Saying
    BY DEF Status053, Saying
  <2>3. ASSUME NEW table, \A t \in DOMAIN table : table[t] \in Saying, NEW tags
        PROVE  Choice(tags, table) \in Saying
    <3> DEFINE known == tags \cap DOMAIN table
    <3>1. CASE known = {}
      BY <3>1, FS_EmptySet DEF Choice, Saying
    <3>2. CASE known # {} /\ Cardinality(known) = 1
      <4>1. Choice(tags, table) = table[CHOOSE t \in known : TRUE]
        BY <3>2 DEF Choice
      <4>2. (CHOOSE t \in known : TRUE) \in DOMAIN table
        BY <3>2
      <4> QED BY <2>3, <4>1, <4>2
    <3>3. CASE known # {} /\ Cardinality(known) # 1
      BY <3>3 DEF Choice, Saying
    <3> QED BY <3>1, <3>2, <3>3
  <2> QED BY <2>1, <2>2, <2>3
<1>5. n.no = m.no /\ n.kind = NoteKind(m) /\ n.says \in Saying
  BY <1>1, <1>3, <1>4 DEF Projected, Creation, StatusAdvice, Cancellation, Saying
<1>6. ASSUME NEW q \in ReferenceFields \cup {"RltdSttlmInstrId"}
      PROVE  Val(m, q) \in NoteRefs \cup {NoAnswer}
  <2>1. Vals(m, q) \subseteq NoteRefs
    BY <1>6 DEF Vals, ClaimAssumption
  <2>2. CASE Cardinality(Vals(m, q)) = 1
    <3>1. Vals(m, q) # {}
      BY <2>2, FS_EmptySet
    <3> QED BY <2>1, <2>2, <3>1 DEF Val
  <2>3. CASE Cardinality(Vals(m, q)) # 1
    BY <2>3 DEF Val
  <2> QED BY <2>2, <2>3
<1>7. n.refs \subseteq NoteRefs
  <2>1. \/ n.refs = {Val(m, q) : q \in ReferenceFields} \ {NoAnswer}
        \/ n.refs = {Val(m, q) : q \in ReferenceFields \cup {"RltdSttlmInstrId"}} \ {NoAnswer}
    BY <1>1, <1>3 DEF Projected, Creation, StatusAdvice, Cancellation
  <2> QED BY <1>6, <2>1
<1> QED BY <1>2, <1>3, <1>5, <1>7 DEF KindSet, NoteNos

\* A message moves a living claim or leaves it, and none leaves a terminal status.
LEMMA HeededOutlives ==
  ASSUME NEW c, Living(c), NEW n, n.says \in Saying, n.kind \in KindSet,
         n.no \in NoteNos, n.refs \subseteq NoteRefs
  PROVE  /\ Living(Heeded(c, n))
         /\ c.status \in ClaimTerminal => Heeded(c, n).status = c.status
         /\ Heeded(c, n).status = "SETTLED" => c.status = "SETTLED"
         /\ Heeded(c, n).status = "CANCELLED" => c.status = "CANCELLED" \/ Cancels(n)
<1> DEFINE Fine(b, d) == /\ Living(d)
                         /\ b.status \in ClaimTerminal => d.status = b.status
                         /\ d.status \in {"SETTLED", "CANCELLED"} => d.status = b.status
           now == Heeded(c, n)
<1>1. Fine(c, c)
  OBVIOUS
<1>2. ASSUME NEW b, Living(b), NEW to, to \notin {"SETTLED", "CANCELLED"} PROVE Fine(b, Transition(b, to))
  BY <1>2, TransitionMoves
<1>3. "SETTLED" \notin Saying
  BY DEF Saying
<1>4. ASSUME NEW v, NEW w, v \subseteq NoteNos, w \subseteq NoteRefs,
             NEW b, b = [c EXCEPT !.seen = v, !.refs = w]
      PROVE  Living(b) /\ b.status = c.status
  <2>1. b = [status |-> c.status, pre |-> c.pre, seen |-> v, refs |-> w, amount |-> c.amount]
    <3> DEFINE a == [c EXCEPT !.seen = v]
    <3>1. a = [status |-> c.status, pre |-> c.pre, seen |-> v, refs |-> c.refs, amount |-> c.amount]
      BY DEF Living
    <3>2. b = [a EXCEPT !.refs = w]
      BY <1>4 DEF Living
    <3> HIDE DEF a
    <3> QED BY <3>1, <3>2
  <2> QED BY <1>4, <2>1 DEF Living
<1>5. ASSUME NEW v, v \subseteq NoteNos
       PROVE  LET b == [c EXCEPT !.seen = v] IN Living(b) /\ b.status = c.status
  <2> DEFINE b == [c EXCEPT !.seen = v]
  <2>1. b = [status |-> c.status, pre |-> c.pre, seen |-> v, refs |-> c.refs, amount |-> c.amount]
    BY DEF Living
  <2> QED BY <1>5, <2>1 DEF Living
<1>0. c.seen \cup {n.no} \subseteq NoteNos
  BY DEF Living
<1>6. CASE n.no \in c.seen
  BY <1>1, <1>6 DEF Heeded
<1>7. CASE n.no \notin c.seen /\ n.kind = "CLAIM_CREATION"
  <2>1. now = Notification(c, n)
    BY <1>7 DEF Heeded
  <2> DEFINE b == [c EXCEPT !.seen = @ \cup {n.no}, !.refs = @ \cup n.refs]
  <2>2. Living(b) /\ b.status = c.status
    <3>1. c.seen \cup {n.no} \subseteq NoteNos /\ c.refs \cup n.refs \subseteq NoteRefs
      BY DEF Living
    <3> DEFINE v == c.seen \cup {n.no}
               w == c.refs \cup n.refs
    <3>2. b = [c EXCEPT !.seen = v, !.refs = w]
      OBVIOUS
    <3> HIDE DEF b, v, w
    <3>3. v \subseteq NoteNos /\ w \subseteq NoteRefs
      BY <3>1 DEF v, w
    <3> QED BY <1>4, <3>2, <3>3, Zenon
  <2>3. now = IF c.status = "EXPECTED" THEN Transition(b, "NOTIFIED") ELSE b
    BY <2>1 DEF Notification
  <2> HIDE DEF b
  <2> QED BY <1>2, <2>2, <2>3
<1>8. CASE n.no \notin c.seen /\ n.kind = "CLAIM_STATUS"
  <2>1. now = Transition(c, n.says)
    BY <1>8 DEF Heeded
  <2>2. n.says = "CANCELLED" => Cancels(n)
    BY <1>8 DEF Cancels
  <2> QED BY <1>3, <2>1, <2>2, TransitionMoves
<1>9. CASE n.no \notin c.seen /\ n.kind = "CANCELLATION_REQUEST"
  <2>1. now = CancelAsked(c)
    BY <1>9 DEF Heeded
  <2> DEFINE b == [c EXCEPT !.pre = c.status]
  <2>2. b = [status |-> c.status, pre |-> c.status, seen |-> c.seen, refs |-> c.refs, amount |-> c.amount]
    BY DEF Living
  <2>3. Living(b) /\ b.status = c.status
    BY <2>2 DEF Living
  <2>4. now = Transition(b, "CANCELLATION_REQUESTED")
    BY <2>1 DEF CancelAsked
  <2> HIDE DEF b
  <2> QED BY <1>2, <2>3, <2>4
<1>10. CASE n.no \notin c.seen /\ n.kind = "CANCELLATION_STATUS"
  <2>1. now = Answer(c, n)
    BY <1>10 DEF Heeded
  <2>2. CASE n.says \in {"CANCEL_ACCEPTED", "CANCEL_COMPLETED"}
    <3>1. now = Transition(c, "CANCELLED") /\ Cancels(n)
      BY <1>10, <2>1, <2>2 DEF Answer, Cancels
    <3> QED BY <3>1, TransitionMoves
  <2>3. CASE n.says = "CANCEL_REJECTED"
    <3>1. CASE c.pre = "NONE"
      BY <1>5, <1>0, <2>1, <2>3, <3>1 DEF Answer
    <3>2. CASE c.pre # "NONE" /\ c.pre \notin Edges[c.status]
      BY <1>1, <2>1, <2>3, <3>2 DEF Answer
    <3>3. CASE c.pre # "NONE" /\ c.pre \in Edges[c.status]
      <4>1. now = [c EXCEPT !.status = c.pre, !.pre = "NONE"]
        BY <2>1, <2>3, <3>3 DEF Answer
      <4>2. c.status \in Statuses /\ c.status \notin ClaimTerminal /\ c.pre \in Statuses
        BY <3>3, EdgesAre DEF Living
      <4>3. c.pre \notin ClaimTerminal
        BY <4>2 DEF Living
      <4>4. now = [status |-> c.pre, pre |-> "NONE", seen |-> c.seen, refs |-> c.refs, amount |-> c.amount]
        BY <4>1 DEF Living
      <4> QED BY <4>2, <4>3, <4>4, EdgesAre DEF Living
    <3> QED BY <3>1, <3>2, <3>3
  <2>4. CASE n.says = "CANCEL_PENDING"
    BY <1>5, <1>0, <2>1, <2>4 DEF Answer
  <2>5. CASE n.says \notin {"CANCEL_ACCEPTED", "CANCEL_COMPLETED", "CANCEL_REJECTED", "CANCEL_PENDING"}
    BY <1>1, <2>1, <2>5 DEF Answer
  <2> QED BY <2>2, <2>3, <2>4, <2>5
<1> QED BY <1>6, <1>7, <1>8, <1>9, <1>10 DEF KindSet

\* The messages of the event are finitely many, and one of them is last.
LEMMA BoundNotesFinite ==
  ASSUME ClaimAssumption, ClaimInv
  PROVE  /\ Hearing!IsFiniteSet(BoundNotes(Merged)) /\ Hearing!Picks(BoundNotes(Merged))
<1> DEFINE S == BoundNotes(Merged)
           ours == {m \in notes : Val(m, "CorpActnEvtId") = Corp}
           f == [m \in ours |-> Projected(m)]
<1>1. IsFiniteSet(S)
  <2>1. IsFiniteSet(ours)
    BY FS_Subset DEF ClaimInv
  <2>2. f \in Surjection(ours, Addressed)
    <3>1. Addressed = {Projected(m) : m \in ours}
      BY DEF Addressed
    <3>2. f \in [ours -> Addressed]
      BY <3>1
    <3>3. \A n \in Addressed : \E m \in ours : f[m] = n
      BY <3>1
    <3> QED BY <3>2, <3>3 DEF Surjection
  <2>3. IsFiniteSet(Addressed)
    BY <2>1, <2>2, FS_Surjection
  <2> QED BY <2>3, FS_Subset DEF BoundNotes
<1>2. \A n \in S : Turn(n) \in 1..4 /\ n.no \in Nat
  <2> SUFFICES ASSUME NEW n \in S PROVE Turn(n) \in 1..4 /\ n.no \in Nat
    OBVIOUS
  <2>1. n.kind \in KindSet /\ n.no \in Nat
    BY AddressedSays DEF BoundNotes, ClaimInv
  <2>2. DOMAIN KindOrder = 1..4 /\ \E i \in DOMAIN KindOrder : KindOrder[i] = n.kind
    <3>1. /\ KindOrder[1] = "CLAIM_CREATION" /\ KindOrder[2] = "CLAIM_STATUS"
          /\ KindOrder[3] = "CANCELLATION_REQUEST" /\ KindOrder[4] = "CANCELLATION_STATUS"
          /\ DOMAIN KindOrder = 1..4
      BY DEF KindOrder
    <3> QED BY <2>1, <3>1 DEF KindSet
  <2>3. Turn(n) \in DOMAIN KindOrder
    BY <2>2 DEF Turn
  <2> QED BY <2>1, <2>2, <2>3
<1> HIDE DEF S
<1> DEFINE R == {p \in S \X S : Earlier(p[1], p[2])}
<1>3. \A e, o \in S : <<e, o>> \in R <=> Earlier(e, o)
  OBVIOUS
<1> HIDE DEF R
<1>4. \A e, o \in S : <<e, o>> \in R => ~(<<o, e>> \in R)
  BY <1>2, <1>3 DEF Earlier
<1>5. \A e, o, u \in S : <<e, o>> \in R /\ <<o, u>> \in R => <<e, u>> \in R
  <2>1. ASSUME NEW e \in S, NEW o \in S, NEW u \in S, Earlier(e, o), Earlier(o, u) PROVE Earlier(e, u)
    <3>1. /\ Turn(e) \in 1..4 /\ Turn(o) \in 1..4 /\ Turn(u) \in 1..4
          /\ e.no \in Nat /\ o.no \in Nat /\ u.no \in Nat
      BY <1>2
    <3> QED BY <2>1, <3>1 DEF Earlier
  <2> QED BY <1>3, <2>1
<1>6. Hearing!IsFiniteSet(S)
  BY <1>1 DEF IsFiniteSet, Hearing!IsFiniteSet
<1>7. \A s \in SUBSET S : s # {} => \E e \in s : \A o \in s : ~(<<e, o>> \in R)
  BY <1>4, <1>5, <1>6, Hearing!LastExists
<1>8. ASSUME NEW s \in SUBSET S, s # {} PROVE FinalNote(s) \in s
  <2>1. \E e \in s : \A o \in s : ~Earlier(e, o)
    BY <1>3, <1>7, <1>8
  <2> QED BY <2>1 DEF FinalNote
<1> QED BY <1>6, <1>8 DEF S, Hearing!Picks

LEMMA HearingIsFold ==
  ASSUME ClaimAssumption, ClaimInv
  PROVE  \E f : Hearing!IsFold(f, BoundNotes(Merged)) /\ Applied(Merged) = f[BoundNotes(Merged)]
<1> DEFINE S == BoundNotes(Merged)
           E(f) == f = [s \in SUBSET S |->
                         IF s = {} THEN Merged ELSE HeedRun(f[s \ {FinalNote(s)}], FinalNote(s))]
<1>1. Applied(Merged) = (CHOOSE f : E(f))[S]
  BY DEF Applied, MapThenFoldSet, HeedRun
<1> HIDE DEF S
<1>2. Hearing!IsFiniteSet(S) /\ Hearing!Picks(S)
  BY BoundNotesFinite DEF S
<1>3. PICK g : Hearing!IsFold(g, S)
  BY <1>2, Hearing!FoldExists
<1>4. \A f : E(f) <=> Hearing!IsFold(f, S)
  BY Zenon DEF Hearing!IsFold
<1> HIDE DEF E
<1>5. E(CHOOSE f : E(f))
  BY <1>3, <1>4
<1> QED BY <1>1, <1>4, <1>5 DEF S

\* The claims a run goes on with: those that were, and those it opens.
LEMMA MergedLives ==
  ASSUME ClaimAssumption, ClaimInv, NEW r \in Rules
  PROVE  /\ IsClaim(Merged[r])
         /\ claims[r] # NoClaim => Merged[r] # NoClaim
         /\ claims[r].status \in ClaimTerminal => Merged[r].status = claims[r].status
         /\ Merged[r].status \in {"SETTLED", "CANCELLED"} => claims[r].status = Merged[r].status
<1>1. IsClaim(claims[r])
  BY DEF ClaimInv
<1>2. NoClaim.status = "NONE" /\ NoClaim.status \notin ClaimTerminal
  BY EdgesAre DEF NoClaim
<1>6. r \in Opened => rate \in 1..2
  <2>1. IsFiniteSet(RulesNow) /\ TradeNow \in Trades /\ rate \in 0..2
    <3>1. RulesNow \subseteq Rules
      BY DEF RulesNow, ClaimAssumption, ClaimInv
    <3>2. TradeNow \in Trades
      BY DEF TradeNow, Trades, ClaimInv
    <3> QED BY <3>1, <3>2, FS_Subset DEF ClaimAssumption, ClaimInv
  <2>2. Cardinality(RulesNow) \in Nat /\ (RulesNow = {} <=> Cardinality(RulesNow) = 0)
    BY <2>1, FS_CardinalityType, FS_EmptySet
  <2> DEFINE k == Cardinality(RulesNow)
  <2>3. k > 1 \/ k = 0 \/ k = 1
    BY <2>2
  <2>4. Assessment = "PROVEN" => rate # 0
    BY <2>1, <2>2, <2>3 DEF Assessment, Trades
  <2> QED BY <2>1, <2>4 DEF Opened
<1>7. Fresh(r).refs \subseteq NoteRefs
  BY DEF Fresh, NoClaim, NoteRefs
<1>3. CASE r \notin Opened
  <2>1. Merged[r] = claims[r]
    BY <1>3 DEF Merged
  <2> QED BY <1>1, <2>1
<1>4. CASE r \in Opened /\ claims[r] = NoClaim
  <2>1. Merged[r] = Fresh(r)
    BY <1>4 DEF Merged
  <2>2. Fresh(r) = [status |-> "EXPECTED", pre |-> "NONE", seen |-> {}, refs |-> {r, Tx}, amount |-> rate]
    <3> DEFINE a == [NoClaim EXCEPT !.status = "EXPECTED"]
    <3>1. a = [status |-> "EXPECTED", pre |-> "NONE", seen |-> {}, refs |-> {}, amount |-> 0]
      BY DEF NoClaim
    <3>4. Fresh(r) = [[a EXCEPT !.refs = {r, Tx}] EXCEPT !.amount = rate]
      BY DEF Fresh, NoClaim
    <3> HIDE DEF a
    <3> DEFINE b == [a EXCEPT !.refs = {r, Tx}]
    <3>2. b = [status |-> "EXPECTED", pre |-> "NONE", seen |-> {}, refs |-> {r, Tx}, amount |-> 0]
      BY <3>1
    <3>3. Fresh(r) = [b EXCEPT !.amount = rate]
      BY <3>4
    <3> HIDE DEF b
    <3> QED BY <3>2, <3>3
  <2>3. "NONE" \notin ClaimTerminal
    BY EdgesAre
  <2>4. Living(Merged[r]) /\ Merged[r].status = "EXPECTED"
    BY <1>4, <1>6, <2>1, <2>2, <2>3, EdgesAre DEF Living, NoteRefs
  <2>5. Merged[r] # NoClaim
    BY <2>4, <1>2
  <2> QED BY <1>2, <1>4, <2>4, <2>5 DEF IsClaim
<1>5. CASE r \in Opened /\ claims[r] # NoClaim
  <2> DEFINE c == claims[r]
             now == [c EXCEPT !.amount = rate, !.refs = Fresh(r).refs]
  <2>1. Merged[r] = now /\ Living(c)
    BY <1>1, <1>5 DEF Merged, IsClaim
  <2>2. now = [status |-> c.status, pre |-> c.pre, seen |-> c.seen, refs |-> Fresh(r).refs, amount |-> rate]
    <3> DEFINE a == [c EXCEPT !.amount = rate]
               w == Fresh(r).refs
    <3>1. a = [status |-> c.status, pre |-> c.pre, seen |-> c.seen, refs |-> c.refs, amount |-> rate]
      BY <2>1 DEF Living
    <3>2. now = [a EXCEPT !.refs = w]
      BY <2>1 DEF Living
    <3> HIDE DEF a, w
    <3>3. [a EXCEPT !.refs = w] =
          [status |-> c.status, pre |-> c.pre, seen |-> c.seen, refs |-> w, amount |-> rate]
      BY <3>1
    <3> QED BY <3>2, <3>3 DEF w
  <2>3. Living(now) /\ now.status = c.status
    BY <1>5, <1>6, <1>7, <2>1, <2>2 DEF Living
  <2>4. now # NoClaim
    BY <2>3, EdgesAre, <1>2 DEF Living
  <2> QED BY <2>1, <2>3, <2>4 DEF IsClaim
<1> QED BY <1>3, <1>4, <1>5

\* The messages leave of every claim what they may not change.
LEMMA AppliedOutlives ==
  ASSUME ClaimAssumption, ClaimInv
  PROVE  HeardOf(BoundNotes(Merged), Applied(Merged))
<1> DEFINE S == BoundNotes(Merged)
<1>1. Hearing!IsFiniteSet(S) /\ Hearing!Picks(S)
  BY BoundNotesFinite
<1>2. PICK f : Hearing!IsFold(f, S) /\ Applied(Merged) = f[S]
  BY HearingIsFold
<1>3. \A n \in S : /\ n \in Addressed /\ n.kind \in KindSet /\ n.says \in Saying
                   /\ n.no \in NoteNos /\ n.refs \subseteq NoteRefs
                   /\ \E r \in Rules : r \in BoundTo(n, Merged)
  <2> SUFFICES ASSUME NEW n \in S
               PROVE  /\ n \in Addressed /\ n.kind \in KindSet /\ n.says \in Saying
                      /\ n.no \in NoteNos /\ n.refs \subseteq NoteRefs
                      /\ \E r \in Rules : r \in BoundTo(n, Merged)
    OBVIOUS
  <2>1. n \in Addressed /\ Cardinality(BoundTo(n, Merged)) = 1
    BY DEF BoundNotes
  <2>2. BoundTo(n, Merged) # {}
    BY <2>1, FS_EmptySet
  <2>3. BoundTo(n, Merged) \subseteq Rules
    BY DEF BoundTo
  <2> QED BY <2>1, <2>2, <2>3, AddressedSays DEF ClaimInv
<1>4. HeardOf({}, Merged)
  <2>1. Merged = [r \in Rules |-> Merged[r]]
    BY DEF Merged
  <2>2. \A r \in Rules : IsClaim(Merged[r])
    BY MergedLives
  <2> QED BY <2>1, <2>2 DEF HeardOf, Outlives
<1> HIDE DEF S
<1>5. ASSUME NEW s \in SUBSET S, NEW v, s # {}, HeardOf(s \ {FinalNote(s)}, v)
      PROVE  HeardOf(s, HeedRun(v, FinalNote(s)))
  <2> DEFINE n == FinalNote(s)
             q == CHOOSE r \in BoundTo(n, Merged) : TRUE
             now == HeedRun(v, n)
  <2>1. n \in S
    BY <1>1, <1>5 DEF Hearing!Picks
  <2>2. /\ n \in Addressed /\ n.kind \in KindSet /\ n.says \in Saying
        /\ n.no \in NoteNos /\ n.refs \subseteq NoteRefs
    BY <1>3, <2>1
  <2>3. q \in BoundTo(n, Merged)
    BY <1>3, <2>1
  <2>4. now = [v EXCEPT ![q] = Heeded(v[q], n)]
    BY DEF HeedRun, HeedOne
  <2> HIDE DEF n, q, now
  <2>5. v = [r \in Rules |-> v[r]] /\ \A r \in Rules : Outlives(Merged[r], v[r])
    BY <1>5 DEF HeardOf
  <2>6. q \in Rules /\ Merged[q] # NoClaim
    BY <2>3 DEF BoundTo
  <2>7. DOMAIN v = Rules
    BY <2>5
  <2>8. DOMAIN now = Rules /\ now = [r \in Rules |-> now[r]]
    BY <2>4, <2>7
  <2>9. now[q] = Heeded(v[q], n) /\ \A r \in Rules \ {q} : now[r] = v[r]
    BY <2>4, <2>6, <2>7
  <2>10. Outlives(Merged[q], Heeded(v[q], n))
    <3>1. Outlives(Merged[q], v[q]) /\ Living(v[q])
      BY <2>5, <2>6 DEF Outlives, IsClaim
    <3>2. /\ Living(Heeded(v[q], n))
          /\ v[q].status \in ClaimTerminal => Heeded(v[q], n).status = v[q].status
          /\ Heeded(v[q], n).status = "SETTLED" => v[q].status = "SETTLED"
          /\ Heeded(v[q], n).status = "CANCELLED" => v[q].status = "CANCELLED" \/ Cancels(n)
      BY <2>2, <3>1, HeededOutlives
    <3>3. Heeded(v[q], n) # NoClaim
      <4>1. NoClaim.status = "NONE"
        BY DEF NoClaim
      <4> QED BY <3>2, <4>1, EdgesAre DEF Living
    <3> QED BY <2>2, <2>6, <3>1, <3>2, <3>3 DEF Outlives, IsClaim
  <2>11. \A r \in Rules : Outlives(Merged[r], now[r])
    BY <2>5, <2>9, <2>10
  <2> QED BY <2>8, <2>11 DEF HeardOf, now, n
<1>6. \A s \in SUBSET S : HeardOf(s, f[s])
  BY <1>1, <1>2, <1>4, <1>5, Hearing!FoldInduction
<1> QED BY <1>2, <1>6 DEF S

\* What the run does in the end: it settles what matches, and leaves the rest.
RunLeaves(r, c) ==
  /\ IsClaim(c)
  /\ claims[r] # NoClaim => c # NoClaim
  /\ claims[r].status \in ClaimTerminal => c.status = claims[r].status
  /\ c.status = "SETTLED" /\ claims[r].status # "SETTLED" => Paid(BoundMoves(c, r)) = c.amount
  /\ c.status = "CANCELLED" /\ claims[r].status # "CANCELLED" => \E n \in Addressed : Cancels(n)

LEMMA RunStandsBy ==
  ASSUME ClaimAssumption, ClaimInv, NEW r \in Rules
  PROVE  RunLeaves(r, Settled(Applied(Merged))[r])
<1> DEFINE b == Applied(Merged)[r]
           c == Settled(Applied(Merged))[r]
<1>1. Outlives(Merged[r], b)
  BY AppliedOutlives DEF HeardOf
<1>2. c = CASE ClaimRecon(b, r) = "MATCH" -> Transition(b, "SETTLED")
            [] ClaimRecon(b, r) = "AMOUNT_MISMATCH" -> Transition(b, "PARTIALLY_SETTLED")
            [] OTHER -> b
  BY DEF Settled
<1> SUFFICES RunLeaves(r, c)
  OBVIOUS
<1> HIDE DEF b, c
<1>3. /\ claims[r] # NoClaim => b # NoClaim
      /\ claims[r].status \in ClaimTerminal => b.status = claims[r].status
      /\ b.status = "SETTLED" => claims[r].status = "SETTLED"
      /\ b.status = "CANCELLED" => claims[r].status = "CANCELLED" \/ \E n \in Addressed : Cancels(n)
  BY <1>1, MergedLives DEF Outlives
<1>4. IsClaim(b)
  BY <1>1 DEF Outlives
<1>5. NoClaim.status = "NONE"
  BY DEF NoClaim
<1>6. CASE b = NoClaim \/ ClaimRecon(b, r) \notin {"MATCH", "AMOUNT_MISMATCH"}
  <2>1. ClaimRecon(NoClaim, r) \notin {"MATCH", "AMOUNT_MISMATCH"}
    BY <1>5, EdgesAre DEF ClaimRecon, Settleable
  <2>2. c = b
    BY <1>2, <1>6, <2>1
  <2> QED BY <1>3, <1>4, <2>2 DEF RunLeaves
<1>7. CASE b # NoClaim /\ ClaimRecon(b, r) = "MATCH"
  <2>1. c = Transition(b, "SETTLED") /\ Living(b)
    BY <1>2, <1>4, <1>7 DEF IsClaim
  <2>2. b.amount = Paid(BoundMoves(b, r))
    BY <1>7 DEF ClaimRecon
  <2>3. BoundMoves(c, r) = BoundMoves(b, r) /\ c.amount = b.amount
    BY <2>1, TransitionMoves DEF BoundMoves
  <2>4. /\ Living(c)
        /\ b.status \in ClaimTerminal => c = b
        /\ c.status \in {b.status, "SETTLED"}
    BY <2>1, TransitionMoves
  <2>5. c # NoClaim
    BY <1>5, <2>4, EdgesAre DEF Living
  <2> QED BY <1>3, <2>2, <2>3, <2>4, <2>5 DEF IsClaim, RunLeaves
<1>8. CASE b # NoClaim /\ ClaimRecon(b, r) = "AMOUNT_MISMATCH"
  <2>1. c = Transition(b, "PARTIALLY_SETTLED") /\ Living(b)
    BY <1>2, <1>4, <1>8 DEF IsClaim
  <2>2. /\ Living(c)
        /\ b.status \in ClaimTerminal => c = b
        /\ c.status \in {b.status, "PARTIALLY_SETTLED"}
    BY <2>1, TransitionMoves
  <2>3. c # NoClaim
    BY <1>5, <2>2, EdgesAre DEF Living
  <2> QED BY <1>3, <2>2, <2>3 DEF IsClaim, RunLeaves
<1> QED BY <1>6, <1>7, <1>8

LEMMA ClaimsMoveOn ==
  ASSUME ClaimAssumption, ClaimInv, [ClaimNext]_mcVars
  PROVE  ClaimInv' /\ ClaimsStep
<1> DEFINE World == /\ moves \subseteq Moves /\ declared \subseteq Documents
                    /\ trade \in Trades /\ rate \in 0..2
                    /\ today \in 1..LastClaimDay /\ shifts \in 0..MaxShifts
<1>5. World'
  <2>1. CASE Shift
    <3>1. trade' \in Trades /\ rate' \in 0..2
      BY <2>1 DEF Shift, ClaimInv
    <3>2. shifts' \in 0..MaxShifts
      BY <2>1 DEF Shift, ClaimInv, ClaimAssumption
    <3>3. declared' \subseteq Documents
      BY <2>1 DEF Shift, ClaimInv
    <3> QED BY <2>1, <3>1, <3>2, <3>3 DEF Shift, ClaimInv
  <2>2. CASE NextDay
    BY <2>2 DEF NextDay, ClaimInv, ClaimAssumption
  <2>3. CASE \E v \in Moves : MoveBooked(v)
    BY <2>3 DEF MoveBooked, ClaimInv
  <2>4. CASE \/ \E ok \in BOOLEAN : RunClaims(ok) \/ \E n \in Notes : NoteArrives(n)
             \/ UNCHANGED mcVars
    BY <2>4 DEF RunClaims, NoteArrives, mcVars, ClaimInv
  <2>5. CASE DocumentReturns
    BY <2>5 DEF DocumentReturns, ClaimInv
  <2> QED BY <2>1, <2>2, <2>3, <2>4, <2>5 DEF ClaimNext
<1>1. CASE RunClaims(TRUE) /\ Reached
  <2>1. claims' = Settled(Applied(Merged)) /\ notes' = notes
    BY <1>1 DEF RunClaims
  <2>2. ASSUME NEW r \in Rules PROVE IsClaim(claims'[r]) /\ ClaimStands(r)
    BY <2>1, RunStandsBy DEF ClaimStands, RunLeaves
  <2>3. DOMAIN claims' = Rules /\ claims' = [r \in Rules |-> claims'[r]]
    BY <2>1 DEF Settled
  <2>4. \A r \in Rules : IsClaim(claims[r])'
    BY <2>2
  <2>5. ClaimInv'
    <3>1. (notes \subseteq Notes)' /\ IsFiniteSet(notes)'
      BY <2>1 DEF ClaimInv
    <3> QED BY <1>5, <2>3, <2>4, <3>1 DEF ClaimInv
  <2> QED BY <2>2, <2>5 DEF ClaimsStep
<1>2. CASE claims' = claims /\ notes' \subseteq Notes /\ IsFiniteSet(notes')
  <2>1. \A r \in Rules : IsClaim(claims[r])'
    BY <1>2 DEF ClaimInv, IsClaim, Living
  <2>2. ClaimsStep
    BY <1>2 DEF ClaimsStep, ClaimStands
  <2> QED BY <1>2, <1>5, <2>1, <2>2 DEF ClaimInv
<1>6. CASE RunClaims(TRUE) /\ ~Reached
  <2>1. claims' = [r \in Rules |-> NoClaim] /\ notes' = notes
    BY <1>6 DEF RunClaims
  <2>2. \A r \in Rules : IsClaim(claims[r])'
    BY <2>1 DEF IsClaim
  <2>3. NoClaim.status \notin {"SETTLED", "CANCELLED"}
    BY DEF NoClaim
  <2>4. ClaimsStep
    BY <1>6, <2>1, <2>3 DEF ClaimsStep, ClaimStands
  <2>5. (notes \subseteq Notes)' /\ IsFiniteSet(notes)'
    BY <2>1 DEF ClaimInv
  <2> QED BY <1>5, <2>1, <2>2, <2>4, <2>5 DEF ClaimInv
<1>3. CASE \/ RunClaims(FALSE) \/ \E v \in Moves : MoveBooked(v)
           \/ Shift \/ DocumentReturns \/ NextDay \/ UNCHANGED mcVars
  BY <1>2, <1>3 DEF RunClaims, MoveBooked, Shift, DocumentReturns, NextDay, mcVars, ClaimInv
<1>4. CASE \E n \in Notes : NoteArrives(n)
  <2>1. PICK n \in Notes : NoteArrives(n)
    BY <1>4
  <2>2. claims' = claims /\ notes' = notes \cup {n}
    BY <2>1 DEF NoteArrives
  <2>3. IsFiniteSet(notes')
    BY <2>2, FS_AddElement DEF ClaimInv
  <2> QED BY <1>2, <2>2, <2>3 DEF ClaimInv
<1> QED BY <1>1, <1>3, <1>4, <1>6 DEF ClaimNext

ClaimSpec == ClaimInit /\ [][ClaimNext]_mcVars

\* A market claim is lost only to a run that does not come to its event; while it lives its
\* terminal status is final, and it becomes SETTLED only when the movements bound to it add up
\* to what is expected and CANCELLED only on a message that says so, whatever becomes of its
\* transaction, its rule and its rate (market_claim_case.py, market_claim_status.py,
\* market_claim_recon.py).
THEOREM ClaimsOutlive ==
  ASSUME ClaimAssumption
  PROVE  ClaimSpec => ClaimsStand /\ []ClaimTypeOK
<1>1. ClaimInit => ClaimInv
  BY FS_EmptySet DEF ClaimInit, ClaimInv, IsClaim, ClaimAssumption, Trades
<1>2. ClaimInv /\ [ClaimNext]_mcVars => ClaimInv' /\ [ClaimsStep]_mcVars
  BY ClaimsMoveOn
<1>3. ClaimInv => ClaimTypeOK
  BY DEF ClaimInv, ClaimTypeOK, IsClaim, Living, NoteNos
<1> QED BY <1>1, <1>2, <1>3, PTL DEF ClaimSpec, ClaimsStand

-----------------------------------------------------------------------------
(***************************************************************************)
(* Securities.  The quantities of a set of postings are summed; postings   *)
(* of nothing do not count, and of one account, instrument and direction   *)
(* there is at most one posting of something, which its movement equals.   *)
(***************************************************************************)
AddDelta(v, i) == i.delta + v
AnyPosting(s) == CHOOSE i \in s : TRUE
Moving(s) == {i \in s : i.delta # 0}
CountsMoving(s, v) == v \in Int /\ v = DeltaOf(Moving(s))
Posting == INSTANCE FoldFacts WITH
  Step <- AddDelta, Base <- 0, Pick <- AnyPosting, Holds <- CountsMoving

LEMMA DeltaIsFold ==
  ASSUME NEW S, IsFiniteSet(S)
  PROVE  /\ Posting!IsFiniteSet(S) /\ Posting!Picks(S)
         /\ \E f : Posting!IsFold(f, S) /\ DeltaOf(S) = f[S]
<1> DEFINE E(f) == f = [s \in SUBSET S |->
                         IF s = {} THEN 0
                         ELSE (CHOOSE x \in s : TRUE).delta + f[s \ {CHOOSE x \in s : TRUE}]]
<1>1. DeltaOf(S) = (CHOOSE f : E(f))[S]
  BY DEF DeltaOf, MapThenSumSet, MapThenFoldSet
<1>2. Posting!IsFiniteSet(S) /\ Posting!Picks(S)
  BY DEF IsFiniteSet, Posting!IsFiniteSet, Posting!Picks, AnyPosting
<1>3. PICK g : Posting!IsFold(g, S)
  BY <1>2, Posting!FoldExists
<1>4. \A f : E(f) <=> Posting!IsFold(f, S)
  BY Zenon DEF Posting!IsFold, AddDelta, AnyPosting
<1> HIDE DEF E
<1>5. E(CHOOSE f : E(f))
  BY <1>3, <1>4
<1> QED BY <1>1, <1>2, <1>4, <1>5

LEMMA NothingPosted == DeltaOf({}) = 0
<1>1. PICK f : Posting!IsFold(f, {}) /\ DeltaOf({}) = f[{}]
  BY DeltaIsFold, FS_EmptySet
<1> QED BY <1>1 DEF Posting!IsFold

\* One posting more.
LEMMA DeltaFacts ==
  ASSUME NEW S, IsFiniteSet(S), \A i \in S : i.delta \in Int,
         NEW x, x.delta \in Int, x \notin S
  PROVE  /\ DeltaOf(S) \in Int
         /\ DeltaOf(S \cup {x}) = x.delta + DeltaOf(S)
<1> DEFINE U == S \cup {x}
<1>2. IsFiniteSet(U)
  BY FS_AddElement
<1>3. PICK f : Posting!IsFold(f, S) /\ DeltaOf(S) = f[S]
  BY DeltaIsFold
<1>4. PICK g : Posting!IsFold(g, U) /\ DeltaOf(U) = g[U]
  BY <1>2, DeltaIsFold
<1>5. Posting!IsFiniteSet(U) /\ Posting!Picks(U) /\ Posting!IsFiniteSet(S) /\ Posting!Picks(S)
  BY <1>2, DeltaIsFold
<1> DEFINE Sums == Int
<1>6. /\ 0 \in Sums
      /\ \A v \in Sums, y \in U : AddDelta(v, y) \in Sums
      /\ \A v \in Sums, y, z \in U : AddDelta(AddDelta(v, y), z) = AddDelta(AddDelta(v, z), y)
  BY DEF AddDelta
<1>7. U \ {x} = S /\ x \in U /\ S \subseteq U /\ S \in SUBSET U
  OBVIOUS
<1> HIDE DEF U, Sums
<1>8. \A s \in SUBSET U : g[s] \in Sums /\ \A y \in s : g[s] = AddDelta(g[s \ {y}], y)
  BY <1>4, <1>5, <1>6, Posting!FoldAnyLast
<1>9. g[U] = AddDelta(g[S], x) /\ g[S] \in Sums
  BY <1>7, <1>8
<1>10. f[S] = g[S]
  BY <1>3, <1>4, <1>5, <1>7, Posting!FoldsAgree
<1> QED BY <1>3, <1>4, <1>9, <1>10 DEF AddDelta, U, Sums

LEMMA DeltaOfOne ==
  ASSUME NEW x, x.delta \in Int PROVE DeltaOf({x}) = x.delta
<1>1. IsFiniteSet({}) /\ \A i \in {} : i.delta \in Int
  BY FS_EmptySet
<1>2. DeltaOf({} \cup {x}) = x.delta + DeltaOf({})
  BY <1>1, DeltaFacts
<1>3. {} \cup {x} = {x}
  OBVIOUS
<1> QED BY <1>2, <1>3, NothingPosted

LEMMA DeltaType ==
  ASSUME NEW S, IsFiniteSet(S), \A i \in S : i.delta \in Int
  PROVE  DeltaOf(S) \in Int
<1>1. CASE S = {}
  BY <1>1, NothingPosted
<1>2. CASE S # {}
  <2>1. PICK x \in S : TRUE
    BY <1>2
  <2>2. IsFiniteSet(S \ {x}) /\ (\A i \in S \ {x} : i.delta \in Int) /\ x \notin S \ {x}
    BY FS_Subset
  <2>3. DeltaOf((S \ {x}) \cup {x}) = x.delta + DeltaOf(S \ {x}) /\ DeltaOf(S \ {x}) \in Int
    BY <2>1, <2>2, DeltaFacts
  <2>4. (S \ {x}) \cup {x} = S
    BY <2>1
  <2>5. x.delta \in Int
    BY <2>1
  <2> DEFINE rest == DeltaOf(S \ {x})
  <2>6. DeltaOf(S) = x.delta + rest
    BY <2>3, <2>4, Zenon
  <2>7. rest \in Int
    BY <2>3
  <2> HIDE DEF rest
  <2> QED BY <2>5, <2>6, <2>7
<1> QED BY <1>1, <1>2

LEMMA DeltaOfTwo ==
  ASSUME NEW x, NEW y, x # y, x.delta \in Int, y.delta \in Int
  PROVE  DeltaOf({x, y}) = x.delta + y.delta
<1>1. IsFiniteSet({y}) /\ (\A i \in {y} : i.delta \in Int) /\ x \notin {y}
  BY FS_Singleton
<1>2. DeltaOf({y} \cup {x}) = x.delta + DeltaOf({y})
  BY <1>1, DeltaFacts
<1>3. {y} \cup {x} = {x, y}
  OBVIOUS
<1> QED BY <1>2, <1>3, DeltaOfOne

\* Postings of nothing do not count.
LEMMA OnlyMovingCount ==
  ASSUME NEW S, IsFiniteSet(S), \A i \in S : i.delta \in Int
  PROVE  DeltaOf(S) = DeltaOf(Moving(S))
<1>1. PICK f : Posting!IsFold(f, S) /\ DeltaOf(S) = f[S]
  BY DeltaIsFold
<1>2. Posting!IsFiniteSet(S) /\ Posting!Picks(S)
  BY DeltaIsFold
<1>3. CountsMoving({}, 0)
  <2>1. Moving({}) = {}
    BY DEF Moving
  <2> QED BY <2>1, NothingPosted DEF CountsMoving
<1>4. ASSUME NEW s \in SUBSET S, NEW v, s # {}, CountsMoving(s \ {AnyPosting(s)}, v)
      PROVE  CountsMoving(s, AddDelta(v, AnyPosting(s)))
  <2> DEFINE p == AnyPosting(s)
             r == s \ {p}
  <2>1. p \in s /\ p.delta \in Int
    BY <1>4 DEF AnyPosting
  <2> HIDE DEF p
  <2>2. v \in Int /\ v = DeltaOf(Moving(r))
    BY <1>4 DEF CountsMoving, p
  <2>3. CASE p.delta = 0
    <3>1. Moving(s) = Moving(r)
      BY <2>1, <2>3 DEF Moving
    <3>2. AddDelta(v, p) = v
      BY <2>2, <2>3 DEF AddDelta
    <3> QED BY <2>2, <3>1, <3>2 DEF CountsMoving, p
  <2>4. CASE p.delta # 0
    <3>1. Moving(s) = Moving(r) \cup {p} /\ p \notin Moving(r) /\ Moving(r) \subseteq S
      BY <2>1, <2>4 DEF Moving
    <3>2. IsFiniteSet(Moving(r))
      BY <3>1, FS_Subset
    <3>3. DeltaOf(Moving(s)) = p.delta + DeltaOf(Moving(r))
      <4> HIDE DEF r
      <4>1. \A i \in Moving(r) : i.delta \in Int
        BY <3>1
      <4> QED BY <2>1, <3>1, <3>2, <4>1, DeltaFacts
    <3> QED BY <2>1, <2>2, <3>3 DEF CountsMoving, AddDelta, p
  <2> QED BY <2>3, <2>4
<1>5. CountsMoving(S, f[S])
  BY <1>1, <1>2, <1>3, <1>4, Posting!FoldInduction
<1> QED BY <1>1, <1>5 DEF CountsMoving

-----------------------------------------------------------------------------
(* What a position delivers and receives.                                  *)

Decided(l) ==
  /\ l.isin = SourceIsin
  /\ Entitlement(l).out \in Int /\ Entitlement(l).in \in Int

LEMMA ReceivesFacts ==
  ASSUME SecuritiesAssumption, SecTypeOK, NEW out \in Int, NEW base \in Int
  PROVE  Receives(out, base).out \in Int /\ Receives(out, base).in \in Int
<1>1. notice.new \in Int /\ notice.old \in Nat \ {0}
  BY DEF SecuritiesAssumption, SecTypeOK
<1>2. base * notice.new \in Int
  BY <1>1
<1>3. (base * notice.new) \div notice.old \in Int
  <2> DEFINE raw == base * notice.new
  <2>1. raw \in Int
    BY <1>2
  <2> HIDE DEF raw
  <2>2. raw \div notice.old \in Int
    BY <1>1, <2>1
  <2> QED BY <2>2 DEF raw
<1>4. Received(base) \in Int
  <2> DEFINE raw == (base * notice.new) \div notice.old
  <2>1. raw \in Int
    BY <1>3
  <2> HIDE DEF raw
  <2>2. Resolved(raw, notice.disf) \in Int
    BY <2>1 DEF Resolved, NoQuantity
  <2> QED BY <2>2 DEF Received, raw
<1> QED BY <1>4 DEF Receives, Grant

LEMMA EntitlementFacts ==
  ASSUME SecuritiesAssumption, SecTypeOK, NEW l \in Custody
  PROVE  Entitlement(l).status \in {"INDETERMINATE", "UNSUPPORTED"} \/ Decided(l)
<1>1. l.quantity \in Int /\ 0 \in Int
  BY DEF SecuritiesAssumption
<1>2. elected[l.account] \in Int
  <2>1. l.account \in Holders
    BY DEF Holders
  <2>2. Elections \cup {NoElection} \subseteq Int
    BY DEF SecuritiesAssumption, CASH, SECU, NoElection
  <2> QED BY <2>1, <2>2 DEF SecTypeOK
<1>3. /\ Receives(0, l.quantity).out \in Int /\ Receives(0, l.quantity).in \in Int
      /\ Receives(l.quantity, l.quantity).out \in Int /\ Receives(l.quantity, l.quantity).in \in Int
      /\ Receives(l.quantity, elected[l.account]).out \in Int
      /\ Receives(l.quantity, elected[l.account]).in \in Int
  BY <1>1, <1>2, ReceivesFacts
<1>4. \A s : /\ Grant(s, 0, 0).status = s /\ Grant(s, 0, 0).out = 0 /\ Grant(s, 0, 0).in = 0
  BY DEF Grant
<1>5. Exercise(l).out \in Int /\ Exercise(l).in \in Int
  BY <1>1, <1>2, <1>3, <1>4 DEF Exercise
<1>6. Scrip(l).out \in Int /\ Scrip(l).in \in Int
  BY <1>1, <1>3, <1>4 DEF Scrip
<1> QED BY <1>1, <1>3, <1>4, <1>5, <1>6 DEF Entitlement, Decided

\* An item that is projected posts something in one of two directions, or nothing.
ItemFacts(i) ==
  /\ i.delta \in Int
  /\ i.kind = "DELIVERY" => i.delta < 0
  /\ i.kind = "RECEIPT" => i.delta > 0
  /\ i.delta # 0 => i.kind \in {"DELIVERY", "RECEIPT"}

LEMMA LinesAre ==
  ASSUME SecuritiesAssumption, SecTypeOK, NEW n \in DOMAIN lines
  PROVE  lines[n] \in Custody /\ lines[n].account \in Holders /\ lines[n].quantity \in Int
BY DEF SecuritiesAssumption, SecTypeOK, Holders

LEMMA ImpactsAre ==
  ASSUME SecuritiesAssumption, SecTypeOK, Authoritative, NEW n \in DOMAIN lines
  PROVE  /\ lines[n].isin = SourceIsin
         /\ IsFiniteSet(ImpactsOf(n))
         /\ \A i \in ImpactsOf(n) : i \in Impacts /\ i.status = "PROJECTED" /\ ItemFacts(i)
<1> DEFINE cell == Entitlement(lines[n])
<1>1. \A i \in ImpactsOf(n) : i \in Impacts /\ i.status = "PROJECTED"
  BY DEF Authoritative, Impacts
<1>2. \A s : Undecided(n, s).status = s
  BY DEF Undecided, Impact
<1>3. ~Ambiguous(n) /\ cell.status \notin {"INDETERMINATE", "UNSUPPORTED"}
  <2>1. Ambiguous(n) => Undecided(n, "INDETERMINATE") \in ImpactsOf(n)
    BY DEF ImpactsOf
  <2>2. ~Ambiguous(n) /\ cell.status \in {"INDETERMINATE", "UNSUPPORTED"} =>
          Undecided(n, cell.status) \in ImpactsOf(n)
    BY DEF ImpactsOf
  <2> HIDE DEF cell
  <2> QED BY <1>1, <1>2, <2>1, <2>2
<1>4. lines[n].isin = SourceIsin /\ cell.out \in Int /\ cell.in \in Int
  BY <1>3, LinesAre, EntitlementFacts DEF Decided
<1> DEFINE out == IF cell.out > 0 THEN Impact(n, "DELIVERY", lines[n].isin, -cell.out)
                  ELSE Impact(n, "UNCHANGED", lines[n].isin, 0)
           in == Impact(n, "RECEIPT", TargetIsin, cell.in)
<1>5. ImpactsOf(n) = {out} \cup (IF cell.in > 0 THEN {in} ELSE {})
  BY <1>3 DEF ImpactsOf
<1>6. ItemFacts(out) /\ (cell.in > 0 => ItemFacts(in))
  <2> HIDE DEF cell
  <2> QED BY <1>4 DEF ItemFacts, Impact
<1> HIDE DEF out, in, cell
<1>7. IsFiniteSet({out} \cup {in}) /\ ImpactsOf(n) \subseteq {out} \cup {in}
  BY <1>5, FS_Singleton, FS_Union
<1>8. IsFiniteSet(ImpactsOf(n))
  BY <1>7, FS_Subset
<1> QED BY <1>1, <1>4, <1>5, <1>6, <1>8

LEMMA ImpactsFinite ==
  ASSUME SecuritiesAssumption, SecTypeOK, Authoritative
  PROVE  IsFiniteSet(Impacts) /\ \A i \in Impacts : i.status = "PROJECTED" /\ ItemFacts(i)
<1> DEFINE f == [n \in DOMAIN lines |-> ImpactsOf(n)]
           T == {ImpactsOf(n) : n \in DOMAIN lines}
<1>1. IsFiniteSet(DOMAIN lines)
  <2>1. DOMAIN lines = 1..Len(lines) /\ Len(lines) \in Nat
    BY DEF SecTypeOK
  <2> QED BY <2>1, FS_Interval
<1>2. f \in Surjection(DOMAIN lines, T)
  BY DEF Surjection
<1>3. IsFiniteSet(T)
  <2> HIDE DEF f, T
  <2> QED BY <1>1, <1>2, FS_Surjection
<1>4. \A t \in T : IsFiniteSet(t)
  BY ImpactsAre
<1>5. Impacts = UNION T
  BY DEF Impacts
<1> HIDE DEF T
<1>6. IsFiniteSet(Impacts)
  BY <1>3, <1>4, <1>5, FS_UNION
<1>7. \A i \in Impacts : i.status = "PROJECTED" /\ ItemFacts(i)
  BY ImpactsAre DEF Impacts
<1> QED BY <1>6, <1>7

-----------------------------------------------------------------------------
(* What is projected and what is observed.                                 *)

Directions == {"DELIVERY", "RECEIPT"}
TwoIsins == {SourceIsin, TargetIsin}
AllMatch == Authoritative /\ \A k \in ReconKeys : MovementStatus(k) = "MATCH"

\* Of a key nothing is expected and nothing observed, or one of each, and they
\* are equal.
Agreeing(k) ==
  \/ Expectations(k) = {} /\ Reported(k) = {}
  \/ \E i \in Impacts, n \in DOMAIN observed :
       Expectations(k) = {i} /\ Reported(k) = {n} /\ Moved(n).delta = i.delta

LEMMA OneElement ==
  ASSUME NEW S, IsFiniteSet(S), ~(Cardinality(S) > 1), S # {}
  PROVE  \E e \in S : S = {e}
<1>1. Cardinality(S) \in Nat /\ Cardinality(S) # 0
  BY FS_CardinalityType, FS_EmptySet
<1>2. Cardinality(S) = 1
  BY <1>1
<1> QED BY <1>2, FS_Singleton

LEMMA KeysAgree ==
  ASSUME SecuritiesAssumption, SecTypeOK, AllMatch,
         NEW h \in Holders, NEW isin \in TwoIsins, NEW d \in Directions
  PROVE  Agreeing(<<h, isin, d>>)
<1> DEFINE k == <<h, isin, d>>
<1>1. CASE Expectations(k) = {} /\ Reported(k) = {}
  BY <1>1 DEF Agreeing
<1>2. CASE Expectations(k) # {} \/ Reported(k) # {}
  <2>1. k \in ReconKeys
    <3>1. k \in Holders \X {SourceIsin, TargetIsin} \X {"DELIVERY", "RECEIPT"}
      BY DEF TwoIsins, Directions
    <3> QED BY <1>2, <3>1 DEF ReconKeys
  <2>2. MovementStatus(k) = "MATCH"
    BY <2>1 DEF AllMatch
  <2> DEFINE exps == Expectations(k)
             acts == Reported(k)
  <2>3. /\ ~(Cardinality(exps) > 1) /\ ~(Cardinality(acts) > 1) /\ exps # {} /\ acts # {}
        /\ \A i \in exps, n \in acts : observed[n].quantity = Magnitude(i)
    BY <2>2 DEF MovementStatus
  <2>4. exps \subseteq Impacts /\ acts \subseteq DOMAIN observed
    BY DEF Expectations, Reported
  <2>5. IsFiniteSet(exps) /\ IsFiniteSet(acts)
    <3>1. IsFiniteSet(DOMAIN observed)
      <4>1. DOMAIN observed = 1..Len(observed) /\ Len(observed) \in Nat
        BY DEF SecTypeOK
      <4> QED BY <4>1, FS_Interval
    <3>2. IsFiniteSet(Impacts)
      BY ImpactsFinite DEF AllMatch
    <3> HIDE DEF exps, acts
    <3> QED BY <2>4, <3>1, <3>2, FS_Subset
  <2>6. (\A i \in exps : i.kind = d) /\ \A n \in acts : observed[n].direction = d
    BY DEF Expectations, Reported
  <2> HIDE DEF exps, acts
  <2>7. PICK i \in exps : exps = {i}
    BY <2>3, <2>5, OneElement
  <2>8. PICK n \in acts : acts = {n}
    BY <2>3, <2>5, OneElement
  <2>9. i.kind = d /\ observed[n].direction = d /\ observed[n].quantity = Magnitude(i)
    BY <2>3, <2>6
  <2>10. ItemFacts(i)
    BY <2>4, ImpactsFinite DEF AllMatch
  <2>11. Moved(n).delta = i.delta
    BY <2>9, <2>10 DEF ItemFacts, Moved, Magnitude, Directions
  <2> QED BY <2>4, <2>7, <2>8, <2>11 DEF Agreeing, exps, acts
<1> QED BY <1>1, <1>2

LEMMA BothSidesAgree ==
  ASSUME SecuritiesAssumption, SecTypeOK, AllMatch,
         NEW h \in Holders, NEW isin \in TwoIsins
  PROVE  DeltaOf(ItemsFor(h, isin)) = DeltaOf({Moved(n) : n \in MovedFor(h, isin)})
<1> DEFINE out == <<h, isin, "DELIVERY">>
           in == <<h, isin, "RECEIPT">>
           moved == {Moved(n) : n \in MovedFor(h, isin)}
<1>1. Agreeing(out) /\ Agreeing(in)
  BY KeysAgree DEF Directions
<1>2. /\ ItemsFor(h, isin) \subseteq Impacts /\ IsFiniteSet(ItemsFor(h, isin))
      /\ \A i \in Impacts : i.status = "PROJECTED" /\ ItemFacts(i)
  <2>1. ItemsFor(h, isin) \subseteq Impacts
    BY DEF ItemsFor
  <2> QED BY <2>1, ImpactsFinite, FS_Subset DEF AllMatch
<1>3. DeltaOf(ItemsFor(h, isin)) = DeltaOf(Moving(ItemsFor(h, isin)))
  <2>1. \A i \in ItemsFor(h, isin) : i.delta \in Int
    BY <1>2 DEF ItemFacts
  <2> QED BY <1>2, <2>1, OnlyMovingCount
<1>4. Moving(ItemsFor(h, isin)) = Expectations(out) \cup Expectations(in)
  BY <1>2 DEF Moving, ItemsFor, Expectations, ItemFacts
<1>5. MovedFor(h, isin) = Reported(out) \cup Reported(in)
  <2>1. \A n \in DOMAIN observed : observed[n].direction \in {"DELIVERY", "RECEIPT"}
    BY DEF SecuritiesAssumption, SecTypeOK
  <2> QED BY <2>1 DEF MovedFor, Reported
<1>6. \A n, m : n # m => Moved(n) # Moved(m)
  <2>1. \A n : Moved(n).movement = n
    BY DEF Moved
  <2> QED BY <2>1
<1>7. (\A i \in Expectations(out), j \in Expectations(in) : i # j)
      /\ \A n \in Reported(out), m \in Reported(in) : n # m
  BY DEF Expectations, Reported
<1>8. \A i \in Impacts : i.delta \in Int
  BY <1>2 DEF ItemFacts
<1> HIDE DEF out, in
<1>9. moved = {Moved(n) : n \in Reported(out)} \cup {Moved(n) : n \in Reported(in)}
  BY <1>5
<1> HIDE DEF moved
<1>10. CASE Expectations(out) = {} /\ Reported(out) = {}
  <2>1. CASE Expectations(in) = {} /\ Reported(in) = {}
    <3>1. Expectations(out) \cup Expectations(in) = {} /\ moved = {}
      BY <1>9, <1>10, <2>1
    <3> QED BY <1>3, <1>4, <3>1 DEF moved
  <2>2. ASSUME NEW i \in Impacts, NEW n \in DOMAIN observed,
               Expectations(in) = {i}, Reported(in) = {n}, Moved(n).delta = i.delta
        PROVE  DeltaOf(Expectations(out) \cup Expectations(in)) = DeltaOf(moved)
    <3>1. Expectations(out) \cup Expectations(in) = {i} /\ moved = {Moved(n)}
      BY <1>9, <1>10, <2>2
    <3> QED BY <1>8, <2>2, <3>1, DeltaOfOne
  <2> QED BY <1>1, <1>3, <1>4, <2>1, <2>2 DEF Agreeing, moved
<1>11. ASSUME NEW i \in Impacts, NEW n \in DOMAIN observed,
              Expectations(out) = {i}, Reported(out) = {n}, Moved(n).delta = i.delta
       PROVE  DeltaOf(Expectations(out) \cup Expectations(in)) = DeltaOf(moved)
  <2>1. CASE Expectations(in) = {} /\ Reported(in) = {}
    <3>1. Expectations(out) \cup Expectations(in) = {i} /\ moved = {Moved(n)}
      BY <1>9, <1>11, <2>1
    <3> QED BY <1>8, <1>11, <3>1, DeltaOfOne
  <2>2. ASSUME NEW j \in Impacts, NEW m \in DOMAIN observed,
               Expectations(in) = {j}, Reported(in) = {m}, Moved(m).delta = j.delta
        PROVE  DeltaOf(Expectations(out) \cup Expectations(in)) = DeltaOf(moved)
    <3>1. Expectations(out) \cup Expectations(in) = {i, j} /\ moved = {Moved(n), Moved(m)}
      BY <1>9, <1>11, <2>2
    <3>2. i # j /\ Moved(n) # Moved(m)
      BY <1>6, <1>7, <1>11, <2>2
    <3>3. DeltaOf({i, j}) = i.delta + j.delta
      BY <1>8, <3>2, DeltaOfTwo
    <3>4. DeltaOf({Moved(n), Moved(m)}) = Moved(n).delta + Moved(m).delta
      BY <1>8, <1>11, <2>2, <3>2, DeltaOfTwo
    <3> QED BY <1>11, <2>2, <3>1, <3>3, <3>4
  <2> QED BY <1>1, <2>1, <2>2 DEF Agreeing
<1> QED BY <1>1, <1>3, <1>4, <1>10, <1>11 DEF Agreeing, moved

LEMMA SecTypeMatches == ASSUME SecuritiesAssumption PROVE SecTypeOK => MatchGivesProjection
<1> SUFFICES ASSUME SecTypeOK, AllMatch
             PROVE  /\ \A n \in DOMAIN lines :
                         (\A k \in DOMAIN lines : k # n =>
                            <<lines[k].account, lines[k].isin>> # <<lines[n].account, lines[n].isin>>)
                         => ProjectedLine(n) = HeldAfter(lines[n].account, lines[n].isin)
                    /\ \A h \in Holders : <<h, TargetIsin>> \notin Matched =>
                         NewLine(h) = HeldAfter(h, TargetIsin)
  BY DEF MatchGivesProjection, AllMatch
<1>1. ASSUME NEW n \in DOMAIN lines,
             \A k \in DOMAIN lines : k # n =>
               <<lines[k].account, lines[k].isin>> # <<lines[n].account, lines[n].isin>>
      PROVE  ProjectedLine(n) = HeldAfter(lines[n].account, lines[n].isin)
  <2> DEFINE h == lines[n].account
             isin == lines[n].isin
  <2>1. LinesFor(h, isin) = {n}
    BY <1>1 DEF LinesFor
  <2>2. h \in Holders /\ isin \in TwoIsins /\ lines[n].quantity \in Int
    BY LinesAre, ImpactsAre DEF AllMatch, TwoIsins
  <2> HIDE DEF h, isin
  <2>3. {HeldLine(m) : m \in LinesFor(h, isin)} = {HeldLine(n)}
    BY <2>1
  <2>4. DeltaOf({HeldLine(n)}) = lines[n].quantity
    <3>1. HeldLine(n).delta = lines[n].quantity
      BY DEF HeldLine
    <3> QED BY <2>2, <3>1, DeltaOfOne
  <2> QED BY <2>2, <2>3, <2>4, BothSidesAgree DEF ProjectedLine, HeldAfter, h, isin
<1>2. ASSUME NEW h \in Holders, <<h, TargetIsin>> \notin Matched
      PROVE  NewLine(h) = HeldAfter(h, TargetIsin)
  <2>1. LinesFor(h, TargetIsin) = {}
    BY <1>2 DEF LinesFor, Matched
  <2>2. {HeldLine(m) : m \in LinesFor(h, TargetIsin)} = {}
    BY <2>1
  <2>3. {i \in ItemsFor(h, TargetIsin) : i.status = "PROJECTED"} = ItemsFor(h, TargetIsin)
    BY ImpactsFinite DEF AllMatch, ItemsFor
  <2>4. DeltaOf(ItemsFor(h, TargetIsin)) = DeltaOf({Moved(n) : n \in MovedFor(h, TargetIsin)})
    BY BothSidesAgree DEF TwoIsins
  <2>5. DeltaOf({}) = 0 /\ DeltaOf(ItemsFor(h, TargetIsin)) \in Int
    <3>1. ItemsFor(h, TargetIsin) \subseteq Impacts
      BY DEF ItemsFor
    <3>2. IsFiniteSet(ItemsFor(h, TargetIsin)) /\ \A i \in ItemsFor(h, TargetIsin) : i.delta \in Int
      BY <3>1, ImpactsFinite, FS_Subset DEF AllMatch, ItemFacts
    <3>3. DeltaOf({}) = 0
      BY NothingPosted
    <3> QED BY <3>2, <3>3, DeltaType
  <2>6. NewLine(h) = DeltaOf(ItemsFor(h, TargetIsin))
    BY <2>3, Zenon DEF NewLine
  <2>7. HeldAfter(h, TargetIsin) = 0 + DeltaOf({Moved(n) : n \in MovedFor(h, TargetIsin)})
    BY <2>2, <2>5, Zenon DEF HeldAfter
  <2> QED BY <2>4, <2>5, <2>6, <2>7
<1> QED BY <1>1, <1>2

SecSpec == SecInit /\ [][SecNext]_secVars

\* Whatever is notified, reported, elected and observed: when every position is
\* decided and every movement matches, booking the movements on the positions
\* gives the projected positions, line by line and for every new instrument
\* (security_recon.py, projected_positions.py).
THEOREM MatchedIsProjected ==
  ASSUME SecuritiesAssumption PROVE SecSpec => [](SecTypeOK /\ MatchGivesProjection)
<1>1. SecInit => SecTypeOK
  BY DEF SecInit, SecTypeOK, SecuritiesAssumption
<1>2. SecTypeOK /\ [SecNext]_secVars => SecTypeOK'
  <2> SUFFICES ASSUME SecTypeOK, [SecNext]_secVars PROVE SecTypeOK'
    OBVIOUS
  <2> USE DEF SecTypeOK
  <2>1. CASE NoticeReplaced
    BY <2>1 DEF NoticeReplaced
  <2>2. CASE PositionReported
    <3>1. PICK l \in Custody : lines' = Append(lines, l)
      BY <2>2 DEF PositionReported
    <3> QED BY <2>2, <3>1 DEF PositionReported, SecuritiesAssumption
  <2>3. CASE Elected
    BY <2>3 DEF Elected
  <2>4. CASE MovementObserved
    <3>1. PICK m \in Observable : observed' = Append(observed, m)
      BY <2>4 DEF MovementObserved
    <3> QED BY <2>4, <3>1 DEF MovementObserved, SecuritiesAssumption
  <2>5. CASE UNCHANGED secVars
    BY <2>5 DEF secVars
  <2> QED BY <2>1, <2>2, <2>3, <2>4, <2>5 DEF SecNext
<1>3. SecTypeOK => MatchGivesProjection
  BY SecTypeMatches
<1> QED BY <1>1, <1>2, <1>3, PTL DEF SecSpec

-----------------------------------------------------------------------------
(***************************************************************************)
(* The engines together.  A step of the whole is one of the engine that    *)
(* was chosen and leaves the variables of the others, so for each engine a *)
(* behaviour of the whole is one of its own, and what was proved of it is  *)
(* true of the whole.                                                      *)
(***************************************************************************)
\* In the variables of each engine the whole does what the engine does.
THEOREM DomainIsItsParts ==
  DomainSpec => /\ ClaimSpec /\ RecoverySpec /\ FeedSpec /\ CasesSpec /\ CashSpec
                /\ SecSpec /\ CustodySpec /\ TaxEventSpec /\ ElectSpec
<1>1. Init => /\ ClaimInit /\ TaxInit /\ FeedInit /\ CasesInit /\ CashInit
              /\ SecInit /\ CustodyInit /\ TaxEventInit /\ ElectInit
  BY DEF Init
<1>2. [Next]_domainVars =>
        /\ [ClaimNext]_mcVars /\ [TaxNext]_trVars /\ [FeedNext]_stVars
        /\ [CasesNext]_casesVars /\ [CashNext]_cashVars /\ [SecNext]_secVars
        /\ [CustodyNext]_custodyVars /\ [TaxEventNext]_taxEventVars /\ [ElectNext]_electVars
  BY Zenon DEF Next, domainVars
<1> QED
  BY <1>1, <1>2, PTL DEF DomainSpec, ClaimSpec, RecoverySpec, FeedSpec, CasesSpec, CashSpec,
     SecSpec, CustodySpec, TaxEventSpec, ElectSpec

\* Every variable of every engine keeps its type (TypeOK).
THEOREM DomainTyped == DomainSpec => []TypeOK
<1>1. ClaimTypeOK /\ TaxTypeOK /\ FeedTypeOK /\ CasesTypeOK /\ CashTypeOK
        /\ SecTypeOK /\ CustodyTypeOK /\ TaxEventTypeOK /\ ElectTypeOK => TypeOK
  BY DEF TypeOK
<1>2. DomainSpec => /\ []ClaimTypeOK /\ []TaxTypeOK /\ [](FeedTypeOK /\ CountedOnce)
                    /\ []CasesTypeOK /\ [](CashTypeOK /\ CashCountedOnce)
                    /\ [](SecTypeOK /\ MatchGivesProjection)
                    /\ [](CustodyTypeOK /\ OneTruthPerSlot /\ MovementsAgree)
                    /\ [](TaxEventTypeOK /\ TaxAccounted) /\ []ElectTypeOK
  BY DomainIsItsParts, EnginesAssumption, ClaimsOutlive, RecoveryKeepsClaims, FeedIsCounted,
     CasesAreTold, CashIsCounted, MatchedIsProjected, OneTruth, TaxStandsOnEvidence,
     ElectionTyped DEF EnginesAssumption
<1> QED BY <1>1, <1>2, PTL

\* All that is checked of the engines at once, for whichever engine runs.
THEOREM DomainStands ==
  ASSUME PagesAgree
  PROVE  DomainSpec =>
           /\ []CountedOnce /\ []CashCountedOnce /\ []MatchGivesProjection
           /\ []TaxAccounted /\ []ElectionBacked
           /\ ClaimsStand /\ RecoveryStands /\ CasesStand /\ FeedIsTrue
<1>1. DomainSpec => /\ [](FeedTypeOK /\ CountedOnce) /\ [](CashTypeOK /\ CashCountedOnce)
                    /\ [](SecTypeOK /\ MatchGivesProjection)
                    /\ [](TaxEventTypeOK /\ TaxAccounted)
  BY DomainIsItsParts, EnginesAssumption, FeedIsCounted, CashIsCounted, MatchedIsProjected,
     TaxStandsOnEvidence DEF EnginesAssumption
<1>2. DomainSpec => /\ []ElectionBacked /\ ClaimsStand /\ RecoveryStands /\ CasesStand
                    /\ FeedIsTrue
  BY DomainIsItsParts, EnginesAssumption, WrittenIsBacked, ClaimsOutlive, RecoveryKeepsClaims,
     CasesAreTold, FeedIsTold DEF EnginesAssumption
<1> QED BY <1>1, <1>2, PTL
=============================================================================
