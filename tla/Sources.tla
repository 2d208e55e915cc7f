------------------------------- MODULE Sources -------------------------------
(***************************************************************************)
(* Source refresh and canon refresh (src/ca_es/ops_sources.py, ops_canon.py*)
(* and the CNMV adapter sources/live/cnmv.py): a portal lists documents by *)
(* publication date; a refresh enumerates a window that overlaps the last  *)
(* checkpoint, stores what is new, and moves the checkpoint; the canon is  *)
(* rebuilt from the contents that parse.  A listing may leave documents    *)
(* out without a word, and a rebuild that raises leaves the promotions     *)
(* that came before it.                                                    *)
(***************************************************************************)
EXTENDS Naturals, FiniteSets

CONSTANTS Docs,         \* documents, identified by registration number
          Published(_), \* publication date
          LastDay,      \* bound: days
          Overlap,      \* overlap_days
          Lag,          \* how late the portal lists a document
          Unparseable,  \* content versions no parser accepts
          Refetch,      \* refetch_known: known documents are downloaded again
          MaxFetchFaults, MaxAmends  \* bounds

ASSUME SourcesAssumption ==
  /\ \A d \in Docs : Published(d) \in Nat \ {0}
  /\ IsFiniteSet(Docs)
  /\ LastDay \in Nat \ {0} /\ Overlap \in Nat /\ Lag \in 0..Overlap
  /\ Unparseable \subseteq 1..2 /\ Refetch \in BOOLEAN
  /\ MaxFetchFaults \in Nat /\ MaxAmends \in Nat

VARIABLES
  portal,    \* content version listed for each document, 0: not listed
  day,       \* today
  latest,    \* source_documents: content last retrieved, 0: no row
  chosen,    \* source_documents: content last parsed, 0: none
  ckpt,      \* source_checkpoints: last publication date seen, 0: none
  canon,     \* the accumulated canon: the contents it was built from
  evidence,  \* state_meta: the evidence set of that canon
  built,     \* state_meta: there is a canon
  omitted,   \* bookkeeping of the model: left out of a listing that counted as complete
  passed,    \* bookkeeping of the model: the last canon pass did not raise
  fetchFaults, amends  \* bookkeeping of the model

canonVars   == <<chosen, canon, evidence, built, passed>>
refreshVars == <<latest, ckpt, omitted, fetchFaults>>
sourceVars  == <<portal, day, amends, refreshVars, canonVars>>

SourcesTypeOK ==
  /\ portal \in [Docs -> 0..2] /\ latest \in [Docs -> 0..2] /\ chosen \in [Docs -> 0..2]
  /\ day \in 1..LastDay /\ ckpt \in 0..LastDay
  /\ canon \subseteq Docs \X (1..2) /\ evidence \subseteq Docs \X (1..2)
  /\ built \in BOOLEAN /\ passed \in BOOLEAN /\ omitted \subseteq Docs
  /\ fetchFaults \in 0..MaxFetchFaults /\ amends \in 0..MaxAmends

SourcesInit ==
  /\ portal = [d \in Docs |-> 0]
  /\ day = 1
  /\ latest = portal /\ chosen = portal
  /\ ckpt = 0
  /\ canon = {} /\ evidence = {} /\ built = FALSE /\ passed = FALSE
  /\ omitted = {} /\ fetchFaults = 0 /\ amends = 0

NextDay ==
  /\ day < LastDay
  \* A document is listed at most Lag days late.
  /\ \A d \in Docs : portal[d] = 0 => day < Published(d) + Lag
  /\ day' = day + 1
  /\ UNCHANGED <<portal, amends, refreshVars, canonVars>>

List ==
  /\ \E d \in Docs : /\ portal[d] = 0 /\ day \in Published(d)..(Published(d) + Lag)
                     /\ portal' = [portal EXCEPT ![d] = 1]
  /\ UNCHANGED <<day, amends, refreshVars, canonVars>>

Amend ==
  /\ amends < MaxAmends
  /\ amends' = amends + 1
  /\ \E d \in Docs : portal[d] # 0 /\ portal' = [portal EXCEPT ![d] = 3 - @]
  /\ UNCHANGED <<day, refreshVars, canonVars>>

----------------------------------------------------------------------------
Latest(days) == IF days = {} THEN 0 ELSE CHOOSE n \in days : \A k \in days : k <= n

\* The window: overlapping the checkpoint, never after today.
WindowStart == IF ckpt > Overlap THEN ckpt - Overlap ELSE 1
Listed == {d \in Docs : portal[d] # 0 /\ Published(d) \in WindowStart..day}

\* What enumerating the window may yield: all of it, or what comes before a chunk
\* that raises, its rows lost with it; in both cases without the rows that have no
\* number and the pages of a chunk behind one that came without rows, though a
\* listing that lacks them counts as complete.
Before(n) == {d \in Listed : Published(d) < n}
Short(lost, fault) == IF lost = {} THEN fault ELSE fault + 1
Discoveries ==
  {[docs |-> Listed \ lost, complete |-> TRUE, fault |-> Short(lost, 0)] : lost \in SUBSET Listed}
    \cup UNION {{[docs |-> Before(n) \ lost, complete |-> FALSE, fault |-> Short(lost, 1)] :
                   lost \in SUBSET Before(n)} : n \in WindowStart..day}

\* Documents that are downloaded; the others are only seen again.
Wanted(docs) == {d \in docs : latest[d] = 0 \/ Refetch}

\* MUTANT of MovesCheckpoint: failed downloads do not hold it back.
MovesCheckpointAlways(found, failed) == found.complete

\* Only a refresh that enumerated and retrieved everything moves the checkpoint.
MovesCheckpoint(found, failed) == found.complete /\ failed = {}

\* _run_one_source.
Refresh ==
  /\ \E found \in Discoveries :
     \E failed \in SUBSET Wanted(found.docs) :
       /\ fetchFaults' = fetchFaults + found.fault + Cardinality(failed)
       /\ fetchFaults' <= MaxFetchFaults
       /\ latest' = [d \in Docs |-> IF d \in Wanted(found.docs) \ failed
                                    THEN portal[d] ELSE latest[d]]
       /\ ckpt' = IF MovesCheckpoint(found, failed)
                  THEN Latest({ckpt} \cup {Published(d) : d \in found.docs}) ELSE ckpt
       /\ omitted' = IF found.complete THEN omitted \cup (Listed \ found.docs) ELSE omitted
  /\ UNCHANGED <<portal, day, amends, canonVars>>

----------------------------------------------------------------------------
\* MUTANT of Promote: what was last retrieved is chosen, parsed or not.
PromoteBlind(d) == latest[d]

\* Content that parses is chosen; content that does not leaves the choice.
Promote(d) == IF latest[d] # 0 /\ latest[d] \notin Unparseable THEN latest[d] ELSE chosen[d]

EvidenceSet(c) == {<<d, c[d]>> : d \in {e \in Docs : c[e] # 0}}

\* MUTANT of Raised: the evidence set is recorded before the canon is built.
RaisedRecorded(now) == evidence' = EvidenceSet(now) /\ UNCHANGED <<canon, built>>

\* A rebuild that raises records nothing.
Raised(now) == UNCHANGED <<canon, evidence, built>>

Rebuilt(now) == canon' = EvidenceSet(now) /\ evidence' = EvidenceSet(now) /\ built' = TRUE

\* run_canon_refresh: promote, and rebuild unless the evidence is the same.  The
\* promotions are committed with the step although the rebuild raises.
CanonPass ==
  /\ chosen' = [d \in Docs |-> Promote(d)]
  /\ IF built /\ EvidenceSet(chosen') = evidence
     THEN passed' = TRUE /\ UNCHANGED <<canon, evidence, built>>
     ELSE \/ passed' = TRUE /\ Rebuilt(chosen')
          \/ passed' = FALSE /\ Raised(chosen')
  /\ UNCHANGED <<portal, day, amends, refreshVars>>

SourcesNext == NextDay \/ List \/ Amend \/ Refresh \/ CanonPass

SourcesSpec == SourcesInit /\ [][SourcesNext]_sourceVars

\* The checkpoint never leaves a document behind unless a listing that counted as
\* complete left it out: whatever else was listed and lies before the next window
\* has been retrieved, however late it was listed, whatever raised and whatever
\* download failed on the way (_run_one_source, CnmvAdapter.discover).
NoneLeftBehind ==
  \A d \in Docs :
    portal[d] # 0 /\ Published(d) < WindowStart => latest[d] # 0 \/ d \in omitted

\* NOT what the code does.  docs/p9/source-coverage.md:26-27 calls a listing complete
\* "con todas las páginas recorridas", and docs/p9/p92-discovery-state.md:64-66 says
\* that an incomplete one does not move the checkpoint past what was observed.
EveryListedIsKept ==
  \A d \in Docs : portal[d] # 0 /\ Published(d) < WindowStart => latest[d] # 0

\* The canon is built from content that parses, and it is always that of the recorded
\* evidence set, although a rebuild that raises leaves promotions the canon does not
\* have; and whenever a pass ends well, skipped or not and whatever raised before,
\* the canon is that of the chosen contents (run_canon_refresh).
CanonOfEvidence ==
  /\ \A p \in canon : p[2] \notin Unparseable
  /\ canon = evidence
  /\ passed => built /\ canon = EvidenceSet(chosen)
=============================================================================
