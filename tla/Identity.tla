------------------------------ MODULE Identity ------------------------------
(***************************************************************************)
(* Identity and revisions (src/ca_es/identity/, revisions.py, the head of  *)
(* pipeline.py): each document is a candidate; relations between documents *)
(* and between candidates join candidates into events; an event goes by    *)
(* the id of one of its candidates; its documents fall into revisions.     *)
(*                                                                         *)
(* run_pipeline may be given an identity ledger, which keeps relations and *)
(* bindings from pass to pass, and a file of adjudications.  The canon     *)
(* refresh (ops_canon.py) gives neither, and rebuilds only when the set of *)
(* chosen contents has changed.                                            *)
(***************************************************************************)
EXTENDS Naturals, Sequences, SequencesExt, FiniteSets

CONSTANTS CandidateIds,   \* ordered
          DocumentOrder,  \* the candidates in the order of their document ids
          Citations,      \* what a document may cite: sequences of a relation, the
                          \* candidate cited and whether the citation names its source
          Rulings,        \* what the reviewer may write
          MaxEditions     \* bound: documents, links and rulings that arrive or change

\* EXPLICIT_PREDECESSOR_REFERENCE and SUPERSEDES both link and amend, an
\* official cross reference links.
Links  == {"PREDECESSOR", "CROSS"}
Amends == {"PREDECESSOR"}

\* What a reviewer may write of two candidates; anything else is refused.
Adjudicable == {"SAME", "DISTINCT", "RELATED"}
Ties == [rel : Adjudicable \cup {"OTHER"}, a : CandidateIds, b : CandidateIds]

IdentityAssumption ==
  /\ CandidateIds \subseteq Nat /\ IsFiniteSet(CandidateIds)
  /\ DocumentOrder \in Seq(CandidateIds)
  /\ ToSet(DocumentOrder) = CandidateIds /\ IsInjective(DocumentOrder)
  /\ Citations \subseteq Seq([rel : Links \cup {"OTHER"}, target : CandidateIds, sourced : BOOLEAN])
  /\ Rulings \subseteq Ties
  /\ MaxEditions \in Nat

VARIABLES
  byLedger,    \* run_pipeline with a kept ledger, or the canon refresh
  corpus,      \* the documents that parse: candidate -> its content and what it cites
  rulings,     \* the adjudications file
  seed,        \* the identity ledger the next pass starts from
  named,       \* of the last pass that ended: candidate -> canonical_event_id
  generation,  \* candidate -> generation of its revision
  basis,       \* the relations and the documents that pass worked with
  borne,       \* bookkeeping of the model: the ids each candidate's event has gone by
  editions     \* bookkeeping of the model

identityVars == <<byLedger, corpus, rulings, seed, named, generation, basis, borne, editions>>

\* f, and g where f says nothing.
Over(f, g) == [x \in DOMAIN f \cup DOMAIN g |-> IF x \in DOMAIN f THEN f[x] ELSE g[x]]

Same(a, b) == [rel |-> "SAME", a |-> a, b |-> b]

NoLedger == [relations |-> <<>>, bindings |-> <<>>]

IdentityInit ==
  /\ byLedger \in BOOLEAN
  /\ corpus = <<>> /\ rulings = <<>>
  /\ seed = NoLedger
  /\ named = <<>> /\ generation = <<>>
  /\ basis = [relations |-> <<>>, corpus |-> <<>>]
  /\ borne = [c \in CandidateIds |-> {}]
  /\ editions = 0

----------------------------------------------------------------------------
(* The ledger.                                                             *)

\* append(): what is there already is not written twice.
Noted(relations, r) == IF r \in ToSet(relations) THEN relations ELSE Append(relations, r)

Start    == IF byLedger THEN seed ELSE NoLedger
Filed    == IF byLedger THEN rulings ELSE <<>>
Admitted == \A r \in ToSet(Filed) : r.rel \in Adjudicable /\ r.a # r.b

\* Where a document links to another one: its place in the order of the documents
\* and the place of the citation in it.  A citation without a source means one of
\* the document's own.
Parsed    == {i \in DOMAIN DocumentOrder : DocumentOrder[i] \in DOMAIN corpus}
Cited(p)  == corpus[DocumentOrder[p[1]]].cites[p[2]]
Citing    == UNION {{i} \X DOMAIN corpus[DocumentOrder[i]].cites : i \in Parsed}
Linking   == {p \in Citing : /\ Cited(p).rel \in Links
                             /\ Cited(p).target \in DOMAIN corpus \ {DocumentOrder[p[1]]}}
LinkAt(p) == Same(DocumentOrder[p[1]], Cited(p).target)

Precedes(p, q)    == p[1] < q[1] \/ (p[1] = q[1] /\ p[2] < q[2])
LastPlace(places) == CHOOSE p \in places : \A q \in places : ~Precedes(p, q)

\* The ledger, the links the documents give, the adjudications.
Linked    == MapThenFoldSet(LAMBDA r, l : Noted(l, r), Start.relations, LinkAt, LastPlace, Linking)
Relations == FoldLeft(Noted, Linked, Filed)

----------------------------------------------------------------------------
(* resolve_canonical().                                                    *)

\* The union-find: the root of each candidate, the canonical id of each root
\* that has one, the ids in the order in which they were established.
Apart == [root |-> [c \in CandidateIds |-> c], canon |-> <<>>, order |-> <<>>]

Joined(u, from, to) ==
  [u EXCEPT !.root = [c \in CandidateIds |-> IF @[c] = from THEN to ELSE @[c]]]

Established(u, root, id) ==
  [u EXCEPT !.canon = Over([r \in {root} |-> id], @),
            !.order = IF id \in ToSet(@) THEN @ ELSE Append(@, id)]

\* A persisted binding: c belongs to the event called id.
Pinned(u, c, id) ==
  LET j == Joined(u, u.root[c], u.root[id]) IN Established(j, j.root[id], id)

Has(u, c)  == u.root[c] \in DOMAIN u.canon
Id(u, c)   == IF Has(u, c) THEN u.canon[u.root[c]] ELSE u.root[c]
Rank(u, v) == CHOOSE i \in DOMAIN u.order : u.order[i] = v

\* MUTANT of FirstNames: the smallest id names the event, whatever it was called.
FirstNamesBySize(u, a, b) == Id(u, a) <= Id(u, b)

\* Does a's side name the joint event?  The id established first does; between
\* two newcomers, the smaller.
FirstNames(u, a, b) ==
  \/ Has(u, a) /\ Has(u, b) /\ Rank(u, Id(u, a)) <= Rank(u, Id(u, b))
  \/ Has(u, a) /\ ~Has(u, b)
  \/ ~Has(u, a) /\ ~Has(u, b) /\ a <= b

Related(u, r) ==
  IF r.rel # "SAME" \/ u.root[r.a] = u.root[r.b] THEN u
  ELSE LET winner == IF FirstNames(u, r.a, r.b) THEN r.a ELSE r.b
           loser  == IF winner = r.a THEN r.b ELSE r.a
       IN  Established(Joined(u, u.root[loser], u.root[winner]), u.root[winner], Id(u, winner))

Bound(bindings) ==
  MapThenFoldSet(LAMBDA c, u : Pinned(u, c, bindings[c]), Apart,
                 LAMBDA c : c, Max, DOMAIN bindings)

Resolved ==
  LET u == FoldLeft(Related, Bound(Start.bindings), Relations)
  IN  [c \in DOMAIN corpus |-> Id(u, c)]

----------------------------------------------------------------------------
(* build_revisions(), within each event.                                   *)

\* The last citation that amends a document of the event is the predecessor.
Amending(ids, c) ==
  {k \in DOMAIN corpus[c].cites :
     LET r == corpus[c].cites[k]
     IN  /\ r.rel \in Amends /\ r.sourced
         /\ r.target \in DOMAIN ids \ {c} /\ ids[r.target] = ids[c]}
Predecessor(ids, c) == {corpus[c].cites[k].target : k \in {m \in Amending(ids, c) : m = Max(Amending(ids, c))}}

\* Up the chain of predecessors, as many steps as there are documents.
Higher(ids, up)  == [c \in DOMAIN ids |-> up[c] \cup UNION {Predecessor(ids, e) : e \in up[c]}]
Ancestors(ids) ==
  FoldLeft(LAMBDA up, d : Higher(ids, up), [c \in DOMAIN ids |-> Predecessor(ids, c)], DocumentOrder)

Cyclic(ids) == LET above == Ancestors(ids) IN \E c \in DOMAIN ids : c \in above[c]

\* Each document amends one other at most: its distance from the root.
Generations(ids) ==
  LET above == Ancestors(ids) IN [c \in DOMAIN ids |-> Cardinality(above[c])]

----------------------------------------------------------------------------
Edition == editions < MaxEditions /\ editions' = editions + 1

\* A document is parsed, is replaced by another content, or other links are
\* listed with it.
DocumentCites ==
  /\ Edition
  /\ \E c \in CandidateIds, cites \in Citations :
     \E content \in IF c \in DOMAIN corpus THEN 1..2 ELSE {1} :
       corpus' = Over([d \in {c} |-> [content |-> content, cites |-> cites]], corpus)
  /\ UNCHANGED <<byLedger, rulings, seed, named, generation, basis, borne>>

\* The reviewer adds to the file or starts a new one.
Rule ==
  /\ byLedger /\ Edition
  /\ \E r \in Rulings : rulings' \in {Append(rulings, r), <<r>>}
  /\ UNCHANGED <<byLedger, corpus, seed, named, generation, basis, borne>>

\* The canon refresh looks at the contents, not at the links listed with them.
Evidence(docs) == {<<c, docs[c].content>> : c \in DOMAIN docs}
Unchanged == ~byLedger /\ Evidence(corpus) = Evidence(basis.corpus)

\* pipeline_body(): an adjudication that is refused or a cycle of amendments
\* raises, and nothing is written.
IdentityPass ==
  /\ ~Unchanged /\ Admitted
  /\ LET ids == Resolved IN
     /\ ~Cyclic(ids)
     /\ named' = ids
     /\ generation' = Generations(ids)
     /\ seed' = IF byLedger THEN [relations |-> Relations, bindings |-> Over(seed.bindings, ids)]
                            ELSE seed
     /\ borne' = [c \in CandidateIds |-> borne[c] \cup {ids[d] : d \in {c} \cap DOMAIN ids}]
  /\ basis' = [relations |-> Relations, corpus |-> corpus]
  /\ UNCHANGED <<byLedger, corpus, rulings, editions>>

IdentityNext == DocumentCites \/ Rule \/ IdentityPass
IdentitySpec == IdentityInit /\ [][IdentityNext]_identityVars

----------------------------------------------------------------------------
IdentityTypeOK ==
  /\ byLedger \in BOOLEAN /\ editions \in 0..MaxEditions
  /\ DOMAIN corpus \subseteq CandidateIds /\ \A c \in DOMAIN corpus : corpus[c].cites \in Citations
  /\ ToSet(rulings) \subseteq Rulings
  /\ \A r \in ToSet(seed.relations \o basis.relations) : {r.a, r.b} \subseteq CandidateIds
  /\ DOMAIN seed.bindings \subseteq DOMAIN corpus
  /\ DOMAIN named = DOMAIN generation /\ DOMAIN named \subseteq DOMAIN corpus
  /\ \A c \in DOMAIN named : named[c] \in CandidateIds /\ generation[c] \in 0..Cardinality(CandidateIds)

\* Two candidates are of one event exactly when relations lead from one to the
\* other, in whatever order they were written; a reference to an event by any
\* id it ever went by leads to the event.
\* Together: no set that the relations stay within has one but not the other.
Closed(S) == \A r \in ToSet(basis.relations) : r.rel = "SAME" => (r.a \in S <=> r.b \in S)
Together(c, d) == \A S \in SUBSET CandidateIds : Closed(S) => (c \in S <=> d \in S)
MembersAreRelated ==
  /\ \A c, d \in DOMAIN named : named[c] = named[d] <=> Together(c, d)
  /\ byLedger =>
       \A c \in DOMAIN named : \A id \in borne[c] \cap DOMAIN named : named[id] = named[c]

\* With a kept ledger, an event goes by a name that it, or an event that has
\* been joined to it, has gone by: whatever arrives, a newcomer never names it
\* (set_canonical, ledger.with_bindings, docs/decisions/ADR-012).
Heritage(c) == UNION {borne[d] : d \in {e \in DOMAIN named : named'[e] = named'[c]}}
NamesStand == [][byLedger => \A c \in DOMAIN named : named'[c] \in Heritage(c)]_identityVars

\* Events are what the relations make them, and a newcomer never names one that
\* has a name (identity/engine.py, identity/ledger.py).
IdentityStands == []MembersAreRelated /\ NamesStand

\* ADR-012 of every canonical_event_id, also of those of the canon refresh:
\* what has a name keeps it unless its event is joined to another.
CanonicalStable ==
  [][\A c \in DOMAIN named : named'[c] \in {named[d] : d \in DOMAIN named}]_identityVars

\* A document is of a later generation than each document it amends: the
\* generation is the longest path from a root (revisions.py, header).
LaterThanAmended ==
  \A c \in DOMAIN named : \A r \in ToSet(basis.corpus[c].cites) :
    /\ r.rel \in Amends /\ r.sourced
    /\ r.target \in DOMAIN named \ {c} /\ named[r.target] = named[c]
    => generation[c] > generation[r.target]

=============================================================================
