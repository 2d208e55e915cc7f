------------------------------- MODULE Custody -------------------------------
(***************************************************************************)
(* The custody feed (src/ca_es/ops_custody.py and custody_*.py): pages of  *)
(* position statements arrive in any order, again and corrected; what is   *)
(* complete becomes a positions document.  Entries of cash reports become  *)
(* movements when their references name one event.  Everything is derived  *)
(* anew from the messages the inbox recorded, at every custody-build.      *)
(*                                                                         *)
(* A message is the sequence of its fields, [q, v] each; the balances of a *)
(* position page are [isin, kind, quantity].  An instrument is on one page *)
(* of a statement only.                                                    *)
(***************************************************************************)
EXTENDS Naturals, FiniteSets, FiniteSetsExt, Sequences

CONSTANTS
  Pages,      \* the page messages a custodian may send: [no, name, says, balances]
  Entries,    \* the entries of the cash reports: [no, name, account, amount, says]
  NoValue,    \* a field that is absent, or given twice in different words
  References, Events, NoEvent,
  Mapped,     \* raw accounts the profile maps (injectively) to accounts
  Internal,   \* the positions we expect: <<account, isin>> |-> quantity
  MaxAge, LastCustodyDay

ASSUME CustodyAssumption ==
  /\ \A m \in Pages : m.name \in {"MT535", "semt.002"}
  /\ \A e \in Entries : e.no \in Nat /\ e.name \in {"MT940", "MT950", "camt.053", "camt.054"}
  /\ NoEvent \notin Events
  /\ MaxAge \in Nat /\ LastCustodyDay \in Nat

VARIABLES
  arrived,   \* the pages recorded, as they are read at every build; a repetition in
             \* other bytes is one more
  reported,  \* the entries recorded, as they are read
  registry,  \* reference_map of the profile
  custodyDay \* the day

custodyVars == <<arrived, reported, registry, custodyDay>>

CustodyInit ==
  /\ arrived = {}
  /\ reported = {}
  /\ registry = [r \in References |-> NoEvent]
  /\ custodyDay = 0

----------------------------------------------------------------------------
\* position_observation: what a page says.
Values(m, q) == {m.says[i].v : i \in {j \in DOMAIN m.says : m.says[j].q = q}}
Single(m, q) == IF Cardinality(Values(m, q)) = 1 THEN CHOOSE v \in Values(m, q) : TRUE ELSE NoValue

Aggregates(m, i) ==
  {j \in DOMAIN m.balances : m.balances[j].isin = i /\ m.balances[j].kind = "AGGR"}
Instruments(m) == {m.balances[j].isin : j \in DOMAIN m.balances}

\* MT535: a second aggregate balance, though it is the same, leaves no quantity.
MtQuantity(m, i) ==
  IF Cardinality(Aggregates(m, i)) = 1
  THEN m.balances[CHOOSE j \in Aggregates(m, i) : TRUE].quantity ELSE NoValue

\* semt.002: aggregate balances that agree are one.
MxQuantity(m, i) ==
  LET qs == {m.balances[j].quantity : j \in Aggregates(m, i)}
  IN  IF Cardinality(qs) = 1 THEN CHOOSE q \in qs : TRUE ELSE NoValue

Mt535(m) ==
  [no |-> m.no, account |-> Single(m, "97A:SAFE"), ref |-> Single(m, "20C:SEME"),
   day |-> Single(m, "98A:STAT"), page |-> Single(m, "28E:PAGE"), mark |-> Single(m, "28E:CONT"),
   update |-> NoValue, rows |-> {<<i, MtQuantity(m, i)>> : i \in Instruments(m)}]

Semt002(m) ==
  [no |-> m.no, account |-> Single(m, "SfkpgAcct"), ref |-> Single(m, "StmtId"),
   day |-> Single(m, "StmtDtTm"), page |-> Single(m, "PgNb"),
   mark |-> CASE Single(m, "LastPgInd") = "true" -> "LAST"
              [] Single(m, "LastPgInd") = "false" -> "MORE"
              [] OTHER -> NoValue,
   update |-> Single(m, "UpdTp"), rows |-> {<<i, MxQuantity(m, i)>> : i \in Instruments(m)}]

PositionObservation(m) == IF m.name = "MT535" THEN Mt535(m) ELSE Semt002(m)

\* cash_observation: the references of an entry, the most specific first.
MtRefs(e) == <<Single(e, "61:OWNER"), Single(e, "61:SERVICER")>>
CamtRefs(e) == <<Single(e, "EndToEndId"), Single(e, "TxId"), Single(e, "AcctSvcrRef"),
                 Single(e, "InstrId")>>
CashObservation(e) ==
  [no |-> e.no, account |-> e.account, amount |-> e.amount,
   refs |-> IF e.name \in {"MT940", "MT950"} THEN MtRefs(e) ELSE CamtRefs(e)]

\* _entry_refs: the references the entry bears.
RefSet(e) == {e.refs[i] : i \in DOMAIN e.refs} \ {NoValue}

----------------------------------------------------------------------------
\* build_snapshots: the messages of an account with one statement reference are
\* one statement; a page that came twice counts once, and twice with other
\* content is a conflict.
Statements(got) == {<<p.account, p.ref>> : p \in got}
PagesOf(st, got) == {p \in got : <<p.account, p.ref>> = st}
Content(p) == <<p.account, p.day, p.rows>>
Numbers(st, got) == {p.page : p \in PagesOf(st, got)}
PageConflict(st, got) ==
  \E p, q \in PagesOf(st, got) : p.page = q.page /\ Content(p) # Content(q)

\* One message of each page number.
Deduped(st, got) ==
  {CHOOSE p \in PagesOf(st, got) : p.page = n : n \in Numbers(st, got)}

Marks(pages) == {p.mark : p \in pages}
Terminal == {"ONLY", "LAST"}

\* completeness.
Completeness(pages) ==
  IF \E p \in pages : p.update = "DELT" THEN "PARTIAL"
  ELSE IF Cardinality(pages) = 1 /\ Marks(pages) \subseteq Terminal THEN "COMPLETE"
  ELSE IF Cardinality(pages) = 1 /\ Marks(pages) = {"MORE"} THEN "PARTIAL"
  ELSE IF NoValue \in Marks(pages) THEN "INDETERMINATE"
  ELSE IF {p.page : p \in pages} # 1..Cardinality(pages) THEN "PARTIAL"
  ELSE IF Marks(pages) \cap Terminal = {} THEN "PARTIAL"
  ELSE "COMPLETE"

\* Statements of one account and day that are complete and disagree.
AsOf(st, got) ==
  LET days == {p.day : p \in Deduped(st, got)} \ {NoValue} IN
  IF Cardinality(days) = 1 THEN CHOOSE d \in days : TRUE ELSE NoValue
Rows(st, got) == UNION {p.rows : p \in Deduped(st, got)}
Slot(st, got) == <<st[1], AsOf(st, got)>>
Whole(st, got) ==
  ~PageConflict(st, got) /\ Completeness(Deduped(st, got)) = "COMPLETE"
\* MUTANT of Disputed: the same reference is asked for.
DisputedByRef(st, got) ==
  \E other \in Statements(got) :
    /\ Whole(other, got)
    /\ other[2] = st[2] /\ Slot(other, got) = Slot(st, got)
    /\ Rows(other, got) # Rows(st, got)

Disputed(st, got) ==
  \E other \in Statements(got) :
    /\ Whole(other, got)
    /\ Slot(other, got) = Slot(st, got)
    /\ Rows(other, got) # Rows(st, got)

Status(st, got) ==
  IF PageConflict(st, got) THEN "INDETERMINATE"
  ELSE IF Whole(st, got) /\ Disputed(st, got) THEN "CONFLICTING"
  ELSE Completeness(Deduped(st, got))

\* positions_doc: complete statements of mapped accounts; what has no quantity is dropped.
Published(got) ==
  {d \in {[account |-> st[1], day |-> AsOf(st, got), rows |-> {r \in Rows(st, got) : r[2] # NoValue}] :
            st \in {s \in Statements(got) : Status(s, got) = "COMPLETE" /\ s[1] \in Mapped}} :
     d.rows # {}}

\* position_recon: the items of a published document against what we expect,
\* which names every account.
Listed(doc) == {<<doc.account, r[1]>> : r \in doc.rows}
Quantity(doc, k) == MapThenSumSet(LAMBDA r : r[2], {r \in doc.rows : <<doc.account, r[1]>> = k})
ItemStatus(doc, k) ==
  CASE k \in DOMAIN Internal \cap Listed(doc) ->
         (IF Internal[k] = Quantity(doc, k) THEN "MATCH" ELSE "POSITION_QUANTITY_MISMATCH")
    [] k \notin Listed(doc) -> "POSITION_MISSING_AT_CUSTODIAN"
    [] k \notin DOMAIN Internal -> "POSITION_UNEXPECTED_AT_CUSTODIAN"
PositionItems(doc) ==
  {<<k, ItemStatus(doc, k), Quantity(doc, k)>> : k \in DOMAIN Internal \cup Listed(doc)}

----------------------------------------------------------------------------
\* bind_cash: the events an entry's references resolve to.
Resolves(e) == {registry[r] : r \in RefSet(e)} \ {NoEvent}
BindingStatus(e) ==
  IF RefSet(e) = {} THEN "INSUFFICIENT_IDENTITY"
  ELSE IF Cardinality(Resolves(e)) > 1 THEN "AMBIGUOUS"
  ELSE IF Resolves(e) = {} THEN "NO_MATCH"
  ELSE IF e.account \notin Mapped THEN "INSUFFICIENT_IDENTITY"
  ELSE "BOUND"

\* movements_doc: one movement for each bound entry of each report; it takes the
\* event of the first reference that resolves.
Resolving(e) == {i \in DOMAIN e.refs : e.refs[i] # NoValue /\ registry[e.refs[i]] # NoEvent}
SourceReference(e) == e.refs[Min(Resolving(e))]
Movements == {[entry |-> e, ref |-> SourceReference(e), event |-> registry[SourceReference(e)]] :
                e \in {x \in reported : BindingStatus(x) = "BOUND"}}

\* cash_feed_recon: the first entry of a report that names the movement.
Names(e, m) == e.no = m.entry.no \/ m.ref \in RefSet(e)
FeedStatus(m, report) ==
  LET hits == {e \in report : Names(e, m)} IN
  IF hits = {} THEN "CASH_MISSING_IN_ACCOUNT_FEED"
  ELSE LET first == CHOOSE e \in hits : \A o \in hits : e.no <= o.no
       IN  IF first.amount = m.entry.amount THEN "MATCH" ELSE "CASH_ACCOUNT_AMOUNT_MISMATCH"

----------------------------------------------------------------------------
\* feed_health, for the accounts of the profile.
Complete == {st \in Statements(arrived) : Status(st, arrived) = "COMPLETE"}
Days == {AsOf(st, arrived) : st \in Complete} \ {NoValue}

Health ==
  IF \/ \E st \in Statements(arrived) : Status(st, arrived) = "CONFLICTING"
     \/ \E a \in Mapped : \A st \in Complete : st[1] # a
     \/ Days = {}
  THEN "FAILED"
  ELSE IF \/ custodyDay > Max(Days) + MaxAge
          \/ \E st \in Statements(arrived) : Status(st, arrived) \in {"PARTIAL", "INDETERMINATE"}
          \/ reported = {}
  THEN "DEGRADED"
  ELSE "HEALTHY"

----------------------------------------------------------------------------
PageArrives ==
  /\ \E m \in {n \in Pages : ~\E p \in arrived : p.no = n.no} :
       arrived' = arrived \cup {PositionObservation(m)}
  /\ UNCHANGED <<reported, registry, custodyDay>>

ReportArrives ==
  /\ \E e \in {f \in Entries : ~\E r \in reported : r.no = f.no} :
       reported' = reported \cup {CashObservation(e)}
  /\ UNCHANGED <<arrived, registry, custodyDay>>

ReferenceRegistered ==
  /\ \E r \in References, v \in Events : registry' = [registry EXCEPT ![r] = v]
  /\ UNCHANGED <<arrived, reported, custodyDay>>

CustodyDayPasses ==
  /\ custodyDay < LastCustodyDay /\ custodyDay' = custodyDay + 1
  /\ UNCHANGED <<arrived, reported, registry>>

CustodyNext == PageArrives \/ ReportArrives \/ ReferenceRegistered \/ CustodyDayPasses
CustodySpec == CustodyInit /\ [][CustodyNext]_custodyVars

----------------------------------------------------------------------------
CustodyTypeOK ==
  /\ arrived \subseteq {PositionObservation(m) : m \in Pages}
  /\ reported \subseteq {CashObservation(e) : e \in Entries}
  /\ registry \in [References -> Events \cup {NoEvent}]
  /\ custodyDay \in 0..LastCustodyDay

\* One truth: whatever arrives in whatever order, the positions documents of one
\* account and day reconcile alike (custody_snapshot.py, the conflict of complete
\* statements).
OneTruthPerSlot ==
  \A d, e \in Published(arrived) :
    (d.account = e.account /\ d.day = e.day) => PositionItems(d) = PositionItems(e)

\* No cash movement is attached to an event that one of its references contradicts;
\* a movement whose references are its own is found in the report it came from
\* (custody_bind.py, REFERENCES_DISAGREE).
MovementsAgree ==
  \A m \in Movements :
    /\ \A r \in RefSet(m.entry) : registry[r] \in {NoEvent, m.event}
    /\ (\A e \in reported \ {m.entry} : RefSet(e) \cap RefSet(m.entry) = {}) =>
          FeedStatus(m, reported) = "MATCH"

\* A page that is delivered again, in other bytes or over another transport,
\* changes no document (docs/p13/p131-position-observation.md).
RedeliveryHarmless ==
  [][\A p \in arrived' \ arrived :
       (\E q \in arrived : [p EXCEPT !.no = q.no] = q)
         => Published(arrived') = Published(arrived)]_custodyVars

\* All of it: what the feed tells the reconciliations (custody_snapshot.py).
FeedIsTrue == [](OneTruthPerSlot /\ MovementsAgree) /\ RedeliveryHarmless

\* custody_snapshot.py:9: a page of a statement of several pages is not a
\* complete snapshot: nothing is published of a statement one of whose earlier
\* pages is still missing.
PageIsNotStatement ==
  \A st \in Statements(arrived) : Status(st, arrived) = "COMPLETE" =>
    \A p \in PagesOf(st, arrived) : 1..p.page \subseteq Numbers(st, arrived)

\* custody_health.py:6-8: the last complete snapshot of a feed that fell is marked
\* stale: a healthy feed has a fresh statement of every account.
HealthyIsFresh ==
  Health = "HEALTHY" =>
    \A a \in Mapped : \E st \in Complete :
      st[1] = a /\ AsOf(st, arrived) \in Nat /\ AsOf(st, arrived) + MaxAge >= custodyDay
=============================================================================
