--------------------------- MODULE SendLedgerProofs ---------------------------
(***************************************************************************)
(* Theorems about SendLedger, for every number of contents, destinations,  *)
(* dispatchers, pollers, retries and faults.                               *)
(*                                                                         *)
(* First what holds with any number of dispatchers: no handoff is claimed  *)
(* that is not in the outbox, the attempts are numbered, every verdict has *)
(* its receipt, no outbox file is replaced.  Then what holds while at most *)
(* one dispatcher is at work (OneDispatcher): the attempts are in order, a *)
(* verdict is final, and the ledger keeps the promise of Handoff.  With    *)
(* two dispatchers none of these holds: the pass that was outrun records   *)
(* its answer over the other's verdict.                                    *)
(***************************************************************************)
EXTENDS SendLedger, FiniteSetTheorems, TLAPS

USE TablesAssumption, LockAssumption, LedgerAssumption
    DEF TablesAssumption, LockAssumption, LedgerAssumption

----------------------------------------------------------------------------
(* The ledger functions stay within the tables' types.                     *)

\* A fresh ops.db has the types of the tables.
LEMMA EmptyLedgerType == EmptyLedger \in Ledger
BY DEF EmptyLedger, Ledger, SendStatus, AttemptStatus

\* _set_send_status keeps the types of the tables.
LEMMA SetStatusType ==
  ASSUME NEW l \in Ledger, NEW d \in Deliveries, NEW s \in SendStatus,
         NEW w \in BOOLEAN
  PROVE  SetStatus(l, d, s, w) \in Ledger
BY DEF SetStatus, Ledger

\* Inserting a send_receipts row keeps the types of the tables.
LEMMA AddReceiptType ==
  ASSUME NEW l \in Ledger, NEW d \in Deliveries \cup {NoDelivery},
         NEW doc \in GatewayDoc \cup FinDocs, NEW st \in ReceiptStatus
  PROVE  AddReceipt(l, d, doc, st) \in Ledger
BY DEF AddReceipt, Ledger, ReceiptRow

\* The rows of sends can be counted, so the number of a generation is a
\* natural number.
LEMMA KnownFinite ==
  ASSUME NEW l \in Ledger, NEW S \in SUBSET Known(l)
  PROVE  Cardinality(S) \in Nat
<1>1. IsFiniteSet(Deliveries)
  BY FS_Product DEF Deliveries
<1>2. S \subseteq Deliveries
  BY DEF Known
<1> QED
  BY <1>1, <1>2, FS_Subset, FS_CardinalityType

\* prepare_sends keeps the types of the tables.
LEMMA PreparedType ==
  ASSUME NEW l \in Ledger, NEW c \in Contents
  PROVE  Prepared(l, c) \in Ledger
<1> DEFINE N(d) == Cardinality({e \in Known(l) : DestOf(e) = DestOf(d)})
<1>1. \A d \in Deliveries : N(d) \in Nat
  BY KnownFinite
<1>2. \A d \in Deliveries : N(d) + 1 \in Nat
  <2> HIDE DEF N
  <2> QED BY <1>1
<1>3. \A d \in Deliveries : l.gen[d] \in Nat /\ l.status[d] \in SendStatus
  BY DEF Ledger
<1> DEFINE g == [d \in Deliveries |->
                  IF d \in Fresh(l, c) THEN N(d) + 1 ELSE l.gen[d]]
           s == [d \in Deliveries |->
                  IF d \in Fresh(l, c) THEN S_PREPARED ELSE l.status[d]]
<1>4. g \in [Deliveries -> Nat]
  <2> HIDE DEF N
  <2> QED BY <1>2, <1>3
<1>5. s \in [Deliveries -> SendStatus]
  BY <1>3 DEF SendStatus
<1>6. Prepared(l, c) = [l EXCEPT !.status = s, !.gen = g]
  BY DEF Prepared
<1> HIDE DEF g, s
<1> QED
  BY <1>4, <1>5, <1>6 DEF Ledger

\* Inserting a STARTED attempt keeps the types of the tables.
LEMMA StartedType ==
  ASSUME NEW l \in Ledger, NEW d \in Deliveries, NEW n \in AttemptNo
  PROVE  Started(l, d, n) \in Ledger
<1>1. n \in 0..MaxRows /\ "STARTED" \in AttemptStatus
  BY DEF AttemptNo, AttemptStatus
<1>2. [l.row EXCEPT ![d][n] = "STARTED"] \in [Deliveries -> [AttemptNo -> AttemptStatus]]
  BY <1>1 DEF Ledger
<1>3. [l.count EXCEPT ![d] = n] \in [Deliveries -> 0..MaxRows]
  BY <1>1 DEF Ledger
<1> QED
  BY <1>2, <1>3 DEF Started, Ledger

\* _record_attempt has a status for every outcome of the adapter.
LEMMA StatusAfterType ==
  ASSUME NEW o \in Outcomes, NEW n \in Nat
  PROVE  /\ StatusAfter(o, n) \in SendStatus \ (GatewayStates \cup SwiftStates)
         /\ StatusAfter(o, n) \in DeliveredStates => o = "SPOOLED"
         /\ AttemptAfter(o) \in AttemptStatus \ {NoRow}
BY DEF StatusAfter, AttemptAfter, Outcomes, SendStatus, AttemptStatus, NoRow,
       GatewayStates, SwiftStates, DeliveredStates, S_NONE, S_PREPARED, S_SPOOLED,
       S_FAILED_RETRYABLE, S_FAILED_PERMANENT, S_GATEWAY_ACCEPTED,
       S_GATEWAY_REJECTED, S_UNKNOWN, S_ABANDONED, S_SWIFT_ACKED, S_SWIFT_NAKED

\* _record_attempt keeps the types of the tables.
LEMMA RecordedType ==
  ASSUME NEW l \in Ledger, NEW d \in Deliveries, NEW n \in AttemptNo,
         NEW o \in Outcomes
  PROVE  Recorded(l, d, n, o) \in Ledger
<1>1. [l EXCEPT !.row[d][n] = AttemptAfter(o)] \in Ledger
  BY StatusAfterType DEF Ledger, AttemptNo
<1>2. StatusAfter(o, n) \in SendStatus
  BY StatusAfterType DEF AttemptNo
<1> QED
  BY <1>1, <1>2, SetStatusType DEF Recorded

\* verify() answers one of its four verdicts on every outbox entry.
LEMMA VerifyType ==
  ASSUME NEW e \in Entry
  PROVE  /\ Verify(e) \in Verdicts
         /\ Verify(e) = "SPOOLED" => Handed(e)
BY DEF Verify, Verdicts, Handed

\* _recover_orphans has an attempt status and a send status for every
\* verdict.
LEMMA StatusOfVerdictType ==
  ASSUME NEW v \in Verdicts
  PROVE  /\ StatusOfVerdict(v) \in SendStatus \ (GatewayStates \cup SwiftStates)
         /\ StatusOfVerdict(v) \in DeliveredStates => v = "SPOOLED"
         /\ AttemptOfVerdict(v) \in AttemptStatus \ {NoRow}
BY DEF StatusOfVerdict, AttemptOfVerdict, Verdicts, SendStatus, AttemptStatus,
       NoRow, GatewayStates, SwiftStates, DeliveredStates, S_NONE, S_PREPARED,
       S_SPOOLED, S_FAILED_RETRYABLE, S_FAILED_PERMANENT, S_GATEWAY_ACCEPTED,
       S_GATEWAY_REJECTED, S_UNKNOWN, S_ABANDONED, S_SWIFT_ACKED, S_SWIFT_NAKED

\* A destination that is gone or whose verify() raises counts as UNKNOWN.
LEMMA VerdictForType ==
  ASSUME NEW sp \in [Deliveries -> Entry], NEW blind, NEW d \in Deliveries
  PROVE  /\ VerdictFor(sp, blind, d) \in Verdicts
         /\ VerdictFor(sp, blind, d) = "SPOOLED" => Handed(sp[d])
BY VerifyType DEF VerdictFor, Verdicts

\* _recover_orphans keeps the types of the tables.
LEMMA RecoveredType ==
  ASSUME NEW l \in Ledger, NEW sp \in [Deliveries -> Entry], NEW blind
  PROVE  Recovered(l, sp, blind) \in Ledger
<1>1. \A d \in Deliveries :
        /\ StatusOfVerdict(VerdictFor(sp, blind, d)) \in SendStatus
        /\ AttemptOfVerdict(VerdictFor(sp, blind, d)) \in AttemptStatus
  BY VerdictForType, StatusOfVerdictType
<1>2. /\ l.status \in [Deliveries -> SendStatus]
      /\ l.wait \in [Deliveries -> BOOLEAN]
      /\ l.row \in [Deliveries -> [AttemptNo -> AttemptStatus]]
  BY DEF Ledger
<1> DEFINE r == [d \in Deliveries |-> [n \in AttemptNo |->
                  IF l.row[d][n] = "STARTED"
                  THEN AttemptOfVerdict(VerdictFor(sp, blind, d))
                  ELSE l.row[d][n]]]
           s == [d \in Deliveries |->
                  IF d \in Orphans(l)
                  THEN StatusOfVerdict(VerdictFor(sp, blind, d))
                  ELSE l.status[d]]
           w == [d \in Deliveries |->
                  IF d \in Orphans(l) THEN FALSE ELSE l.wait[d]]
<1>3. r \in [Deliveries -> [AttemptNo -> AttemptStatus]]
  BY <1>1, <1>2
<1>4. s \in [Deliveries -> SendStatus]
  BY <1>1, <1>2
<1>5. w \in [Deliveries -> BOOLEAN]
  BY <1>2
<1>6. Recovered(l, sp, blind) = [l EXCEPT !.row = r, !.status = s, !.wait = w]
  BY DEF Recovered
<1> HIDE DEF r, s, w
<1> QED
  BY <1>3, <1>4, <1>5, <1>6 DEF Ledger

\* Ingesting or quarantining a receipt keeps the types of the tables.
LEMMA IngestedType ==
  ASSUME NEW l \in Ledger, NEW f \in ReceiptFile
  PROVE  /\ Ingested(l, f) \in Ledger
         /\ Quarantined(l, f) \in Ledger
<1>1. /\ f.d \in Deliveries
      /\ f.doc \in GatewayDoc
      /\ f.doc.verdict \in ReceiptStatus
      /\ StateOfVerdict(f.doc.verdict) \in SendStatus
  BY DEF ReceiptFile, GatewayDoc, ReceiptStatus, StateOfVerdict, SendStatus,
         DeliveredStates, GatewayStates
<1>2. Quarantined(l, f) \in Ledger
  BY <1>1, AddReceiptType DEF Quarantined, ReceiptStatus
<1>3. Applied(l, f) \in Ledger
  <2>1. AddReceipt(l, f.d, f.doc, f.doc.verdict) \in Ledger
    BY <1>1, AddReceiptType
  <2> QED
    BY <1>1, <2>1, SetStatusType DEF Applied
<1> QED
  BY <1>2, <1>3 DEF Ingested

\* A service message bound to one send keeps the types of the tables.
LEMMA FinAppliedType ==
  ASSUME NEW l \in Ledger, NEW d \in Deliveries, NEW f \in FinDocs
  PROVE  FinApplied(l, d, f) \in Ledger
<1>1. /\ FinStatus(f) \in ReceiptStatus
      /\ FinState(f) \in SendStatus
      /\ "CONFLICTING" \in ReceiptStatus
      /\ "QUARANTINED" \in ReceiptStatus
  BY DEF FinStatus, FinState, ReceiptStatus, SendStatus, DeliveredStates,
         SwiftStates
<1>2. /\ AddReceipt(l, d, f, FinStatus(f)) \in Ledger
      /\ AddReceipt(l, d, f, "CONFLICTING") \in Ledger
      /\ AddReceipt(l, d, f, "QUARANTINED") \in Ledger
  BY <1>1, AddReceiptType
<1>3. SetStatus(AddReceipt(l, d, f, FinStatus(f)), d, FinState(f), FALSE) \in Ledger
  BY <1>1, <1>2, SetStatusType
<1> QED
  BY <1>2, <1>3 DEF FinApplied

\* ingest_fin_service_doc keeps the types of the tables, whichever branch it
\* takes.
LEMMA FinIngestedType ==
  ASSUME NEW l \in Ledger, NEW f \in FinDocs
  PROVE  FinIngested(l, f) \subseteq Ledger
<1> DEFINE cands == FinCandidates(l, f)
           bound == FinBound(l, f)
<1>1. bound \subseteq cands /\ cands \subseteq Deliveries
  BY DEF FinBound, FinCandidates, Known
<1>2. AddReceipt(l, NoDelivery, f, "QUARANTINED") \in Ledger
  BY AddReceiptType DEF ReceiptStatus
<1>3. \A d \in cands : AddReceipt(l, d, f, "CONFLICTING") \in Ledger
  BY <1>1, AddReceiptType DEF ReceiptStatus
<1>4. [l EXCEPT !.receipts = @ \cup
         {[d |-> d, doc |-> f, st |-> "AMBIGUOUS"] : d \in bound}] \in Ledger
  BY <1>1 DEF Ledger, ReceiptRow, ReceiptStatus
<1>5. \A d \in bound : FinApplied(l, d, f) \in Ledger
  BY <1>1, FinAppliedType
<1> HIDE DEF cands, bound
<1> QED
  BY <1>2, <1>3, <1>4, <1>5 DEF FinIngested, cands, bound

----------------------------------------------------------------------------
(* Where a pass is, and what it may rely on there.                         *)

\* The lock is held by whoever is at work.
LockHeld == \A p \in Procs : pc[p] \notin {"idle", "gap"} => holder = p

Attempting(p) ==
  \/ pc[p] \in {"deliver", "meta", "record"}
  \/ pc[p] = "gap" /\ resume[p] = "deliver"

\* A snapshot is never ahead of the ledger, and the attempt a pass works on
\* is behind it.
SnapshotBehind ==
  /\ txn.count = db.count
  /\ \A p \in Procs :
       /\ \A d \in Deliveries : base[p][d] <= db.count[d]
       /\ Attempting(p) => /\ cur[p] \in Deliveries
                           /\ base[p][cur[p]] < db.count[cur[p]]

\* What the adapter has done for the attempt in progress.
AdapterProgress ==
  \A p \in Procs :
    /\ pc[p] = "meta" => /\ spool[cur[p]].msg = "own"
                         /\ spool[cur[p]].meta = "absent"
    /\ pc[p] = "record" => /\ out[p] \in Outcomes
                           /\ out[p] = "SPOOLED" => Handed(spool[cur[p]])

\* The inductive invariant.
IInv == /\ TypeOK
        /\ LockHeld
        /\ SnapshotBehind
        /\ AdapterProgress
        /\ AttemptsNumbered
        /\ HandoffBacked
        /\ VerdictBacked

----------------------------------------------------------------------------
(* Type correctness.                                                       *)

\* The inductive invariant holds before the first command.
LEMMA InitIInv == Init => IInv
<1> SUFFICES ASSUME Init PROVE IInv
  OBVIOUS
<1>1. TypeOK
  BY EmptyLedgerType DEF Init, TypeOK, ZeroBase, Phases, Resumes
<1>2. LockHeld /\ AdapterProgress
  BY DEF Init, LockHeld, AdapterProgress
<1>3. SnapshotBehind
  BY DEF Init, SnapshotBehind, EmptyLedger, ZeroBase, Attempting
<1>4. AttemptsNumbered
  BY DEF Init, AttemptsNumbered, EmptyLedger, AttemptNo, NoRow
<1>5. HandoffBacked /\ VerdictBacked
  BY DEF Init, HandoffBacked, VerdictBacked, Answered, EmptyLedger, DeliveredStates,
         GatewayStates, SwiftStates, S_NONE, S_SPOOLED, S_GATEWAY_ACCEPTED,
         S_GATEWAY_REJECTED, S_SWIFT_ACKED, S_SWIFT_NAKED
<1> QED
  BY <1>1, <1>2, <1>3, <1>4, <1>5 DEF IInv

\* checkpoint() keeps the types of what it assigns.
LEMMA CheckpointType ==
  ASSUME TypeOK, NEW p \in Procs, NEW l \in Ledger, NEW next \in Resumes,
         Checkpoint(p, l, next)
  PROVE  /\ db' \in Ledger /\ txn' \in Ledger
         /\ holder' \in Procs \cup {Nobody}
         /\ pc' \in [Procs -> Phases]
         /\ resume' \in [Procs -> Resumes]
BY DEF TypeOK, Checkpoint, Commit, Goto, Phases

\* The end of a pass resets its locals to values of their types.
LEMMA EndPassType ==
  ASSUME TypeOK, NEW p \in Procs, Leave(p), Forget(p)
  PROVE  /\ pc' \in [Procs -> Phases]
         /\ resume' \in [Procs -> Resumes]
         /\ cur' \in [Procs -> Deliveries \cup {NoDelivery}]
         /\ queue' \in [Procs -> SUBSET Deliveries]
         /\ base' \in [Procs -> [Deliveries -> 0..MaxRows]]
         /\ out' \in [Procs -> Outcomes \cup {NoOutcome}]
         /\ dirty' \in [Procs -> BOOLEAN]
<1>1. ZeroBase \in [Deliveries -> 0..MaxRows]
  BY DEF ZeroBase
<1> QED
  BY <1>1 DEF TypeOK, Leave, Forget, Phases, Resumes

\* release_run_lock() keeps every type.
LEMMA ReleaseType ==
  ASSUME TypeOK, NEW p \in Procs, Release(p),
         UNCHANGED <<spool, box, archive, faults, manual>>
  PROVE  TypeOK'
BY EndPassType DEF TypeOK, Release, Yield, Commit

\* deliver() up to its first write leaves an entry and an outcome.
LEMMA DeliverStepsType ==
  ASSUME NEW e \in Entry, NEW r \in DeliverSteps(e)
  PROVE  /\ r.entry \in Entry
         /\ r.outcome \in Outcomes \cup {MsgWritten}
         /\ r.outcome = "SPOOLED" => Handed(r.entry)
         /\ r.outcome = MsgWritten =>
              r.entry.msg = "own" /\ r.entry.meta = "absent"
         /\ Handed(e) => Handed(r.entry)
         /\ e.msg # "absent" => r.entry.msg = e.msg
         /\ e.meta # "absent" => r.entry.meta = e.meta
<1>1. CASE Handed(e)
  <2>1. r \in {Reply(e, "FAILED_PERMANENT"), Reply(e, "SPOOLED")}
    BY <1>1 DEF DeliverSteps, Handed, EmptyEntry
  <2> QED
    BY <1>1, <2>1 DEF Reply, Outcomes, MsgWritten
<1>2. CASE e.meta = "absent" /\ e.msg = "own"
  BY <1>2 DEF DeliverSteps, Reply, Handed, Outcomes, MsgWritten, Entry, MetaFile,
              MsgFile, EmptyEntry
<1>3. CASE e = EmptyEntry
  BY <1>3 DEF DeliverSteps, Reply, Handed, Outcomes, MsgWritten, Entry, MetaFile,
              MsgFile, EmptyEntry
<1>4. CASE ~Handed(e) /\ ~(e.meta = "absent" /\ e.msg = "own") /\ e # EmptyEntry
  BY <1>4 DEF DeliverSteps, Reply, Handed, Outcomes, MsgWritten, Entry, MetaFile,
              MsgFile, EmptyEntry
<1> QED
  BY <1>1, <1>2, <1>3, <1>4

\* The second rename of deliver() leaves an entry and an outcome.
LEMMA MetaStepsType ==
  ASSUME NEW e \in Entry, e.msg = "own", e.meta = "absent",
         NEW r \in MetaSteps(e)
  PROVE  /\ r.entry \in Entry
         /\ r.outcome \in Outcomes
         /\ r.outcome = "SPOOLED" => Handed(r.entry)
         /\ r.entry.msg = e.msg
         /\ ~Handed(e)
BY DEF MetaSteps, Reply, Handed, Outcomes, Entry, MetaFile, MsgFile

\* A file system step of deliver() keeps every type.
LEMMA AnswerType ==
  ASSUME TypeOK, NEW p \in Procs, cur[p] \in Deliveries,
         NEW r, r.entry \in Entry, r.outcome \in Outcomes \cup {MsgWritten},
         Answer(p, r)
  PROVE  TypeOK'
BY DEF TypeOK, Answer, Goto, Phases, Outcomes, MsgWritten

\* Every step keeps the types; that an attempt in progress has a delivery
\* and a number to record comes from the rest of the inductive invariant.
LEMMA TypeStep == TypeOK /\ SnapshotBehind /\ AdapterProgress /\ Next => TypeOK'
<1> SUFFICES ASSUME TypeOK, SnapshotBehind, AdapterProgress, Next PROVE TypeOK'
  OBVIOUS
<1>1. ASSUME NEW p \in Procs, Start(p) PROVE TypeOK'
  BY <1>1 DEF TypeOK, Start, Acquire, Goto, Phases
<1>2. ASSUME NEW p \in Procs, Reacquire(p) PROVE TypeOK'
  BY <1>2 DEF TypeOK, Reacquire, Regain, Goto, Phases, Resumes
<1>3. ASSUME NEW p \in Procs, LockLost(p) PROVE TypeOK'
  BY <1>3, EndPassType DEF TypeOK, LockLost, Lose
<1>4. ASSUME NEW p \in Procs, Crash(p) PROVE TypeOK'
  BY <1>4, EndPassType DEF TypeOK, Crash, Die
<1>5. ASSUME NEW p \in Procs, Recover(p) PROVE TypeOK'
  <2>1. PICK blind : IF RecoveryCheckpoints(txn, spool, blind)
                     THEN Checkpoint(p, Recovered(txn, spool, blind), "receipts")
                     ELSE /\ txn' = Recovered(txn, spool, blind)
                          /\ Goto(p, "receipts")
                          /\ UNCHANGED <<db, holder, resume>>
    BY <1>5 DEF Recover
  <2>2. Recovered(txn, spool, blind) \in Ledger
    BY RecoveredType DEF TypeOK
  <2>3. "receipts" \in Resumes /\ "receipts" \in Phases
    BY DEF Resumes, Phases
  <2>4. CASE RecoveryCheckpoints(txn, spool, blind)
    BY <1>5, <2>1, <2>2, <2>3, <2>4, CheckpointType DEF TypeOK, Recover
  <2>5. CASE ~RecoveryCheckpoints(txn, spool, blind)
    <3>1. /\ txn' = Recovered(txn, spool, blind)
          /\ pc' = [pc EXCEPT ![p] = "receipts"]
          /\ UNCHANGED <<db, holder, resume>>
      BY <2>1, <2>5 DEF Goto
    <3>2. UNCHANGED <<spool, box, archive, cur, queue, base, out, dirty, faults,
                      manual>>
      BY <1>5 DEF Recover
    <3> QED
      BY <2>2, <2>3, <3>1, <3>2 DEF TypeOK
  <2> QED
    BY <2>4, <2>5
<1>6. ASSUME NEW p \in Procs, NEW f \in box,
             Ingest(p, f) \/ QuarantineAck(p, f) \/ QuarantineNak(p, f)
      PROVE TypeOK'
  <2>1. f \in ReceiptFile /\ f.d \in Deliveries
    BY DEF TypeOK, ReceiptFile
  <2>2. Ingested(txn, f) \in Ledger /\ Quarantined(txn, f) \in Ledger
    BY <2>1, IngestedType DEF TypeOK
  <2> QED
    BY <1>6, <2>1, <2>2 DEF TypeOK, Ingest, QuarantineAck, QuarantineNak, Take,
                            Goto, Phases
<1>7. ASSUME NEW p \in Procs, EndReceipts(p) PROVE TypeOK'
  <2> DEFINE next == IF p \in Dispatchers THEN "scan" ELSE "loop"
  <2>1. next \in Resumes /\ next \in Phases
    BY DEF Resumes, Phases
  <2>2. CASE dirty[p]
    BY <1>7, <2>1, <2>2, CheckpointType DEF TypeOK, EndReceipts
  <2>3. CASE ~dirty[p]
    <3>1. /\ pc' = [pc EXCEPT ![p] = next]
          /\ UNCHANGED <<db, txn, holder, resume>>
      BY <1>7, <2>3 DEF EndReceipts, Goto
    <3>2. UNCHANGED <<spool, box, archive, cur, queue, base, out, dirty, faults,
                      manual>>
      BY <1>7 DEF EndReceipts
    <3> HIDE DEF next
    <3> QED
      BY <2>1, <3>1, <3>2 DEF TypeOK
  <2> QED
    BY <2>2, <2>3
<1>8. ASSUME NEW p \in Procs, Scan(p) PROVE TypeOK'
  <2>1. txn.count \in [Deliveries -> 0..MaxRows]
    BY DEF TypeOK, Ledger
  <2> QED
    BY <1>8, <2>1 DEF TypeOK, Scan, Goto, Phases
<1>9. ASSUME NEW p \in Procs, NEW d \in Deliveries, StartAttempt(p, d)
      PROVE TypeOK'
  <2>1. base[p][d] + 1 \in AttemptNo
    BY <1>9 DEF StartAttempt, TypeOK, AttemptNo
  <2>2. Started(txn, d, base[p][d] + 1) \in Ledger
    BY <2>1, StartedType DEF TypeOK
  <2>3. "deliver" \in Resumes
    BY DEF Resumes
  <2> QED
    BY <1>9, <2>2, <2>3, CheckpointType DEF TypeOK, StartAttempt
<1>10. ASSUME NEW p \in Procs, NEW d \in Deliveries, AttemptTaken(p, d)
       PROVE TypeOK'
  BY <1>10, ReleaseType DEF AttemptTaken
<1>11. ASSUME NEW p \in Procs, Deliver(p) PROVE TypeOK'
  <2>1. cur[p] \in Deliveries /\ spool[cur[p]] \in Entry
    BY <1>11 DEF Deliver, At, SnapshotBehind, Attempting, TypeOK
  <2> QED
    BY <1>11, <2>1, DeliverStepsType, AnswerType DEF Deliver
<1>12. ASSUME NEW p \in Procs, WriteMeta(p) PROVE TypeOK'
  <2>1. /\ cur[p] \in Deliveries /\ spool[cur[p]] \in Entry
        /\ spool[cur[p]].msg = "own" /\ spool[cur[p]].meta = "absent"
    BY <1>12 DEF WriteMeta, At, SnapshotBehind, AdapterProgress, Attempting, TypeOK
  <2> QED
    BY <1>12, <2>1, MetaStepsType, AnswerType DEF WriteMeta
<1>13. ASSUME NEW p \in Procs, Record(p) PROVE TypeOK'
  <2>1. /\ cur[p] \in Deliveries
        /\ out[p] \in Outcomes
        /\ base[p][cur[p]] < db.count[cur[p]]
    BY <1>13 DEF Record, At, SnapshotBehind, AdapterProgress, Attempting
  <2>2. base[p][cur[p]] \in 0..MaxRows /\ db.count[cur[p]] \in 0..MaxRows
    BY <2>1 DEF TypeOK, Ledger
  <2>3. base[p][cur[p]] + 1 \in AttemptNo
    BY <2>1, <2>2 DEF AttemptNo
  <2>4. Recorded(txn, cur[p], base[p][cur[p]] + 1, out[p]) \in Ledger
    BY <2>1, <2>3, RecordedType DEF TypeOK
  <2>5. "loop" \in Resumes
    BY DEF Resumes
  <2> QED
    BY <1>13, <2>4, <2>5, CheckpointType DEF TypeOK, Record
<1>14. ASSUME NEW p \in Procs, Finish(p) PROVE TypeOK'
  BY <1>14, ReleaseType DEF Finish
<1>15. ASSUME NEW l \in Ledger, Command(l), manual' \in [Deliveries -> 0..MaxRetries]
       PROVE TypeOK'
  BY <1>15 DEF TypeOK, Command, Commit, pass
<1>16. ASSUME NEW c \in Contents, SendPrepare(c) PROVE TypeOK'
  BY <1>15, <1>16, PreparedType DEF SendPrepare, TypeOK
<1>17. ASSUME NEW d \in Deliveries, NEW force \in BOOLEAN, SendRetry(d, force)
       PROVE TypeOK'
  <2>1. Retried(db, d) \in Ledger
    BY SetStatusType DEF Retried, TypeOK, SendStatus
  <2>2. manual' \in [Deliveries -> 0..MaxRetries]
    BY <1>17 DEF SendRetry, TypeOK
  <2> QED
    BY <1>15, <1>17, <2>1, <2>2 DEF SendRetry
<1>18. ASSUME NEW d \in Deliveries, SendAbandon(d) PROVE TypeOK'
  <2>1. Abandoned(db, d) \in Ledger
    BY SetStatusType DEF Abandoned, TypeOK, SendStatus
  <2> QED
    BY <1>15, <1>18, <2>1 DEF SendAbandon, TypeOK
<1>19. ASSUME NEW f \in FinDocs, SendIngestFin(f) PROVE TypeOK'
  BY <1>15, <1>19, FinIngestedType DEF SendIngestFin, TypeOK
<1>20. ASSUME NEW f \in ReceiptFile, ReceiptArrives(f) PROVE TypeOK'
  BY <1>20 DEF ReceiptArrives, TypeOK, pass
<1>21. \A d \in Deliveries, doc \in Docs : [d |-> d, doc |-> doc] \in ReceiptFile
  BY DEF ReceiptFile
<1> QED
  BY <1>1, <1>2, <1>3, <1>4, <1>5, <1>6, <1>7, <1>8, <1>9, <1>10, <1>11, <1>12,
     <1>13, <1>14, <1>16, <1>17, <1>18, <1>19, <1>20, <1>21
     DEF Next, Step, Operator

----------------------------------------------------------------------------
(* What the ledger functions preserve.                                     *)

Numbered(l) ==
  \A d \in Deliveries : \A n \in AttemptNo : l.row[d][n] # NoRow <=> n <= l.count[d]

Fine(l, sp) ==
  /\ Numbered(l)
  /\ \A d \in Deliveries : l.status[d] \in DeliveredStates => Handed(sp[d])
  /\ \A d \in Deliveries : Answered(l, d, l.status[d])

\* Fine, said of both ledgers, is the three invariants of the theorems.
LEMMA FineInvariants ==
  Fine(db, spool) /\ Fine(txn, spool)
    <=> AttemptsNumbered /\ HandoffBacked /\ VerdictBacked
BY DEF Fine, Numbered, AttemptsNumbered, HandoffBacked, VerdictBacked

\* A receipt row more cannot spoil a ledger: it numbers no attempt, claims
\* no handoff, and takes no evidence away.
LEMMA AddReceiptFine ==
  ASSUME NEW l \in Ledger, NEW sp, Fine(l, sp),
         NEW d \in Deliveries \cup {NoDelivery},
         NEW doc \in GatewayDoc \cup FinDocs, NEW st \in ReceiptStatus
  PROVE  Fine(AddReceipt(l, d, doc, st), sp)
<1> DEFINE k == AddReceipt(l, d, doc, st)
<1>1. /\ k.row = l.row /\ k.count = l.count /\ k.status = l.status
      /\ l.receipts \subseteq k.receipts
  BY DEF AddReceipt, Ledger
<1> HIDE DEF k
<1>2. \A e \in Deliveries : Answered(k, e, k.status[e])
  BY <1>1 DEF Fine, Answered
<1>3. Numbered(k)
  BY <1>1 DEF Fine, Numbered
<1>4. \A e \in Deliveries : k.status[e] \in DeliveredStates => Handed(sp[e])
  BY <1>1 DEF Fine
<1> QED
  BY <1>2, <1>3, <1>4 DEF Fine, k

\* A status may be set when the outbox and the receipts bear it out.
LEMMA SetStatusFine ==
  ASSUME NEW l \in Ledger, NEW sp, Fine(l, sp), NEW d \in Deliveries,
         NEW s \in SendStatus, NEW w \in BOOLEAN,
         s \in DeliveredStates => Handed(sp[d]),
         Answered(l, d, s)
  PROVE  Fine(SetStatus(l, d, s, w), sp)
<1> DEFINE k == SetStatus(l, d, s, w)
<1>1. /\ k.row = l.row /\ k.count = l.count /\ k.receipts = l.receipts
      /\ k.status = [l.status EXCEPT ![d] = s]
      /\ l.status \in [Deliveries -> SendStatus]
  BY DEF SetStatus, Ledger
<1> HIDE DEF k
<1>2. \A e \in Deliveries : Answered(k, e, k.status[e])
  BY <1>1 DEF Fine, Answered
<1>3. Numbered(k)
  BY <1>1 DEF Fine, Numbered
<1>4. \A e \in Deliveries : k.status[e] \in DeliveredStates => Handed(sp[e])
  BY <1>1 DEF Fine
<1> QED
  BY <1>2, <1>3, <1>4 DEF Fine, k

\* A status that is no verdict needs no evidence.
LEMMA Unanswered ==
  ASSUME NEW l, NEW d, NEW s, s \notin GatewayStates \cup SwiftStates
  PROVE  Answered(l, d, s)
BY DEF Answered

\* Which states claim a handoff, and which are verdicts.
LEMMA OpenStates ==
  /\ S_NONE \notin DeliveredStates
  /\ S_PREPARED \notin DeliveredStates
  /\ S_ABANDONED \notin DeliveredStates
  /\ \A s : s \notin DeliveredStates => s \notin GatewayStates \cup SwiftStates
  /\ GatewayStates \cup SwiftStates \subseteq DeliveredStates
  /\ S_SPOOLED \in DeliveredStates \ (GatewayStates \cup SwiftStates)
BY DEF DeliveredStates, GatewayStates, SwiftStates, S_NONE, S_PREPARED, S_SPOOLED,
       S_GATEWAY_ACCEPTED, S_GATEWAY_REJECTED, S_ABANDONED, S_SWIFT_ACKED,
       S_SWIFT_NAKED

\* prepare_sends claims nothing and starts nothing.
LEMMA PreparedFine ==
  ASSUME NEW l \in Ledger, NEW sp, Fine(l, sp), NEW c \in Contents
  PROVE  Fine(Prepared(l, c), sp) /\ Prepared(l, c).count = l.count
<1> DEFINE k == Prepared(l, c)
<1>1. /\ k.row = l.row /\ k.count = l.count /\ k.receipts = l.receipts
      /\ \A d \in Deliveries : k.status[d] = l.status[d] \/ k.status[d] = S_PREPARED
  BY DEF Prepared, Ledger
<1> HIDE DEF k
<1>2. \A e \in Deliveries : Answered(k, e, k.status[e])
  BY <1>1, OpenStates, Unanswered DEF Fine, Answered
<1>3. \A e \in Deliveries : k.status[e] \in DeliveredStates => Handed(sp[e])
  BY <1>1, OpenStates DEF Fine
<1>4. Numbered(k)
  BY <1>1 DEF Fine, Numbered
<1> QED
  BY <1>1, <1>2, <1>3, <1>4 DEF Fine, k

\* send-retry and send-abandon claim nothing and start nothing.
LEMMA OperatorFine ==
  ASSUME NEW l \in Ledger, NEW sp, Fine(l, sp), NEW d \in Deliveries
  PROVE  /\ Fine(Retried(l, d), sp) /\ Retried(l, d).count = l.count
         /\ Fine(Abandoned(l, d), sp) /\ Abandoned(l, d).count = l.count
<1>1. S_PREPARED \in SendStatus /\ S_ABANDONED \in SendStatus
  BY DEF SendStatus
<1>2. Retried(l, d).count = l.count /\ Abandoned(l, d).count = l.count
  BY DEF Retried, Abandoned, SetStatus, Ledger
<1> QED
  BY <1>1, <1>2, OpenStates, Unanswered, SetStatusFine DEF Retried, Abandoned

\* _recover_orphans claims a handoff only where verify() saw both files.
LEMMA RecoveredFine ==
  ASSUME NEW l \in Ledger, NEW sp \in [Deliveries -> Entry], Fine(l, sp), NEW blind
  PROVE  /\ Fine(Recovered(l, sp, blind), sp)
         /\ Recovered(l, sp, blind).count = l.count
<1> DEFINE k == Recovered(l, sp, blind)
           V(d) == VerdictFor(sp, blind, d)
<1>1. /\ k.count = l.count /\ k.receipts = l.receipts
      /\ k.row = [d \in Deliveries |-> [n \in AttemptNo |->
                   IF l.row[d][n] = "STARTED" THEN AttemptOfVerdict(V(d))
                                              ELSE l.row[d][n]]]
      /\ k.status = [d \in Deliveries |->
                      IF d \in Orphans(l) THEN StatusOfVerdict(V(d))
                                          ELSE l.status[d]]
  BY DEF Recovered, Ledger
<1>2. \A d \in Deliveries :
        /\ V(d) = "SPOOLED" => Handed(sp[d])
        /\ StatusOfVerdict(V(d)) \notin GatewayStates \cup SwiftStates
        /\ StatusOfVerdict(V(d)) \in DeliveredStates => V(d) = "SPOOLED"
        /\ AttemptOfVerdict(V(d)) # NoRow
  BY VerdictForType, StatusOfVerdictType
<1> HIDE DEF k, V
<1>3. \A e \in Deliveries : Answered(k, e, k.status[e])
  BY <1>1, <1>2, Unanswered DEF Fine, Answered
<1>4. \A e \in Deliveries : k.status[e] \in DeliveredStates => Handed(sp[e])
  BY <1>1, <1>2 DEF Fine
<1>5. \A d \in Deliveries : \A n \in AttemptNo :
        k.row[d][n] # NoRow <=> l.row[d][n] # NoRow
  BY <1>1, <1>2 DEF NoRow
<1>6. Numbered(k)
  BY <1>1, <1>5 DEF Fine, Numbered
<1> QED
  BY <1>1, <1>3, <1>4, <1>6 DEF Fine, k

\* The next attempt number, written once, keeps the numbering.
LEMMA StartedFine ==
  ASSUME NEW l \in Ledger, NEW sp, Fine(l, sp), NEW d \in Deliveries,
         NEW n \in AttemptNo, n = l.count[d] + 1
  PROVE  /\ Fine(Started(l, d, n), sp)
         /\ Started(l, d, n).count = [l.count EXCEPT ![d] = n]
<1> DEFINE k == Started(l, d, n)
<1>1. /\ k.status = l.status /\ k.receipts = l.receipts
      /\ k.count = [l.count EXCEPT ![d] = n]
      /\ k.row = [l.row EXCEPT ![d][n] = "STARTED"]
  BY DEF Started, Ledger
<1>2. /\ l.count \in [Deliveries -> 0..MaxRows]
      /\ l.row \in [Deliveries -> [AttemptNo -> AttemptStatus]]
  BY DEF Ledger
<1> HIDE DEF k
<1>3. \A e \in Deliveries : Answered(k, e, k.status[e])
  BY <1>1 DEF Fine, Answered
<1>4. Numbered(k)
  <2> SUFFICES ASSUME NEW e \in Deliveries, NEW m \in AttemptNo
               PROVE  k.row[e][m] # NoRow <=> m <= k.count[e]
    BY DEF Numbered
  <2>1. CASE e # d
    BY <1>1, <1>2, <2>1 DEF Fine, Numbered
  <2>2. CASE e = d /\ m = n
    BY <1>1, <1>2, <2>2 DEF NoRow, AttemptNo
  <2>3. CASE e = d /\ m # n
    <3>1. k.row[e][m] = l.row[d][m] /\ k.count[e] = n
      BY <1>1, <1>2, <2>3
    <3>2. l.row[d][m] # NoRow <=> m <= l.count[d]
      BY DEF Fine, Numbered
    <3>3. l.count[d] \in Nat
      BY <1>2
    <3> QED
      BY <2>3, <3>1, <3>2, <3>3 DEF AttemptNo
  <2> QED
    BY <2>1, <2>2, <2>3
<1> QED
  BY <1>1, <1>3, <1>4 DEF Fine, k

\* _record_attempt claims a handoff only when the adapter made it, and
\* closes a number that exists.
LEMMA RecordedFine ==
  ASSUME NEW l \in Ledger, NEW sp, Fine(l, sp), NEW d \in Deliveries,
         NEW n \in AttemptNo, NEW o \in Outcomes,
         n <= l.count[d], o = "SPOOLED" => Handed(sp[d])
  PROVE  Fine(Recorded(l, d, n, o), sp) /\ Recorded(l, d, n, o).count = l.count
<1> DEFINE k == [l EXCEPT !.row[d][n] = AttemptAfter(o)]
           s == StatusAfter(o, n)
<1>1. /\ k.status = l.status /\ k.receipts = l.receipts /\ k.count = l.count
      /\ k.row = [l.row EXCEPT ![d][n] = AttemptAfter(o)]
      /\ l.row \in [Deliveries -> [AttemptNo -> AttemptStatus]]
  BY DEF Ledger
<1>2. /\ AttemptAfter(o) \in AttemptStatus /\ AttemptAfter(o) # NoRow
      /\ s \in SendStatus
      /\ s \notin GatewayStates \cup SwiftStates
      /\ s \in DeliveredStates => o = "SPOOLED"
  BY StatusAfterType DEF AttemptNo
<1>3. k \in Ledger
  BY <1>2 DEF Ledger
<1>4. Recorded(l, d, n, o) = SetStatus(k, d, s, s = S_FAILED_RETRYABLE)
  BY DEF Recorded
<1> HIDE DEF k, s
<1>5. Numbered(k)
  <2>1. \A e \in Deliveries : \A m \in AttemptNo :
          k.row[e][m] # NoRow <=> l.row[e][m] # NoRow
    BY <1>1, <1>2 DEF Fine, Numbered
  <2> QED
    BY <1>1, <2>1 DEF Fine, Numbered
<1>6. Fine(k, sp)
  BY <1>1, <1>5 DEF Fine, Answered
<1>7. SetStatus(k, d, s, s = S_FAILED_RETRYABLE).count = k.count
  BY <1>3 DEF SetStatus, Ledger
<1>8. (s = S_FAILED_RETRYABLE) \in BOOLEAN
  OBVIOUS
<1>9. Answered(k, d, s)
  BY <1>2, Unanswered
<1>10. Fine(SetStatus(k, d, s, s = S_FAILED_RETRYABLE), sp)
  BY <1>2, <1>3, <1>6, <1>8, <1>9, SetStatusFine
<1> QED
  BY <1>1, <1>4, <1>7, <1>10

\* A receipt moves a send only from SPOOLED, and leaves its row.
LEMMA IngestedFine ==
  ASSUME NEW l \in Ledger, NEW sp, Fine(l, sp), NEW f \in ReceiptFile
  PROVE  /\ Fine(Ingested(l, f), sp) /\ Ingested(l, f).count = l.count
         /\ Fine(Quarantined(l, f), sp) /\ Quarantined(l, f).count = l.count
<1> DEFINE k == AddReceipt(l, f.d, f.doc, f.doc.verdict)
           s == StateOfVerdict(f.doc.verdict)
<1>1. /\ f.d \in Deliveries
      /\ f.doc \in GatewayDoc
      /\ f.doc.verdict \in ReceiptStatus
      /\ s \in GatewayStates
      /\ s \in SendStatus
  BY DEF ReceiptFile, GatewayDoc, ReceiptStatus, StateOfVerdict, SendStatus,
         DeliveredStates, GatewayStates
<1>2. Fine(Quarantined(l, f), sp)
  BY <1>1, AddReceiptFine DEF Quarantined, ReceiptStatus
<1>3. /\ Quarantined(l, f).count = l.count
      /\ k.count = l.count
      /\ k.receipts = l.receipts \cup {[d |-> f.d, doc |-> f.doc, st |-> f.doc.verdict]}
      /\ k \in Ledger
  BY <1>1, AddReceiptType DEF Quarantined, AddReceipt, Ledger
<1>4. Fine(k, sp)
  BY <1>1, AddReceiptFine
<1>5. SetStatus(k, f.d, s, FALSE).count = k.count
  BY <1>3 DEF SetStatus, Ledger
<1>6. CASE Applies(l, f)
  <2>1. Handed(sp[f.d])
    BY <1>1, <1>6, OpenStates DEF Applies, Fine
  <2>2. s \notin SwiftStates
    BY <1>1 DEF GatewayStates, SwiftStates, S_GATEWAY_ACCEPTED, S_GATEWAY_REJECTED,
                S_SWIFT_ACKED, S_SWIFT_NAKED
  <2>3. Answered(k, f.d, s)
    <3> HIDE DEF k
    <3>1. [d |-> f.d, doc |-> f.doc, st |-> f.doc.verdict] \in k.receipts
      BY <1>3
    <3> QED
      BY <1>1, <1>6, <2>2, <3>1 DEF Answered, Applies
  <2>4. Fine(SetStatus(k, f.d, s, FALSE), sp)
    <3> HIDE DEF k, s
    <3> QED BY <1>1, <1>3, <1>4, <2>1, <2>3, SetStatusFine
  <2> QED
    BY <1>2, <1>3, <1>5, <1>6, <2>4 DEF Ingested, Applied
<1>7. CASE ~Applies(l, f)
  BY <1>2, <1>3, <1>7 DEF Ingested
<1> QED
  BY <1>6, <1>7

\* A service message moves a send only after its handoff, and leaves its
\* row.
LEMMA FinAppliedFine ==
  ASSUME NEW l \in Ledger, NEW sp, Fine(l, sp), NEW d \in Deliveries,
         NEW f \in FinDocs
  PROVE  Fine(FinApplied(l, d, f), sp) /\ FinApplied(l, d, f).count = l.count
<1> DEFINE k == AddReceipt(l, d, f, FinStatus(f))
           s == FinState(f)
<1>1. /\ FinStatus(f) \in ReceiptStatus
      /\ s \in SendStatus /\ s \in SwiftStates
      /\ "CONFLICTING" \in ReceiptStatus
      /\ "QUARANTINED" \in ReceiptStatus
  BY DEF FinStatus, FinState, ReceiptStatus, SendStatus, DeliveredStates,
         SwiftStates
<1>2. \A st \in ReceiptStatus :
        Fine(AddReceipt(l, d, f, st), sp) /\ AddReceipt(l, d, f, st).count = l.count
  <2>1. \A st \in ReceiptStatus : Fine(AddReceipt(l, d, f, st), sp)
    BY AddReceiptFine
  <2> QED
    BY <2>1 DEF AddReceipt, Ledger
<1>3. /\ k \in Ledger
      /\ [d |-> d, doc |-> f, st |-> FinStatus(f)] \in k.receipts
  BY <1>1, AddReceiptType DEF AddReceipt, Ledger
<1>4. SetStatus(k, d, s, FALSE).count = k.count
  BY <1>3 DEF SetStatus, Ledger
<1>5. Fine(k, sp) /\ k.count = l.count
  BY <1>1, <1>2
<1>6. Answered(k, d, s)
  <2>1. s \notin GatewayStates
    BY <1>1 DEF GatewayStates, SwiftStates, S_GATEWAY_ACCEPTED, S_GATEWAY_REJECTED,
                S_SWIFT_ACKED, S_SWIFT_NAKED
  <2> HIDE DEF k
  <2> QED
    BY <1>3, <2>1 DEF Answered
<1> DEFINE a == SetStatus(k, d, s, FALSE)
<1>7. l.status[d] \in {S_SPOOLED} \cup GatewayStates => Fine(a, sp) /\ a.count = l.count
  <2> SUFFICES ASSUME l.status[d] \in {S_SPOOLED} \cup GatewayStates
               PROVE  Fine(a, sp) /\ a.count = l.count
    OBVIOUS
  <2>1. Handed(sp[d])
    BY OpenStates DEF Fine
  <2> HIDE DEF k, s
  <2>2. Fine(a, sp)
    BY <1>1, <1>3, <1>5, <1>6, <2>1, SetStatusFine
  <2> QED
    BY <1>4, <1>5, <2>2
<1>8. \/ FinApplied(l, d, f) = l
      \/ \E st \in ReceiptStatus : FinApplied(l, d, f) = AddReceipt(l, d, f, st)
      \/ FinApplied(l, d, f) = a /\ l.status[d] \in {S_SPOOLED} \cup GatewayStates
  <2>0. SwiftStates \cap ({S_SPOOLED} \cup GatewayStates) = {}
    BY DEF GatewayStates, SwiftStates, S_SPOOLED, S_GATEWAY_ACCEPTED,
           S_GATEWAY_REJECTED, S_SWIFT_ACKED, S_SWIFT_NAKED
  <2>1. CASE Seen(l, d, f)
    BY <2>1 DEF FinApplied
  <2>2. CASE ~Seen(l, d, f) /\ l.status[d] \in SwiftStates
    <3>1. FinApplied(l, d, f) =
            AddReceipt(l, d, f, IF l.status[d] = FinState(f) THEN FinStatus(f)
                                                             ELSE "CONFLICTING")
      BY <2>2, <2>0 DEF FinApplied
    <3> QED
      BY <1>1, <3>1
  <2>3. CASE /\ ~Seen(l, d, f) /\ l.status[d] \notin SwiftStates
             /\ l.status[d] \in {S_SPOOLED} \cup GatewayStates
    BY <2>3 DEF FinApplied
  <2>4. CASE /\ ~Seen(l, d, f) /\ l.status[d] \notin SwiftStates
             /\ l.status[d] \notin {S_SPOOLED} \cup GatewayStates
    BY <1>1, <2>4 DEF FinApplied
  <2> QED
    BY <2>1, <2>2, <2>3, <2>4
<1> HIDE DEF a
<1> QED
  BY <1>2, <1>7, <1>8

\* The same of the whole ingest_fin_service_doc.
LEMMA FinIngestedFine ==
  ASSUME NEW l \in Ledger, NEW sp, Fine(l, sp), NEW f \in FinDocs,
         NEW k \in FinIngested(l, f)
  PROVE  Fine(k, sp) /\ k.count = l.count
<1> DEFINE cands == FinCandidates(l, f)
           bound == FinBound(l, f)
           rows  == {[d |-> d, doc |-> f, st |-> "AMBIGUOUS"] : d \in bound}
           amb   == [l EXCEPT !.receipts = @ \cup rows]
<1>1. bound \subseteq cands /\ cands \subseteq Deliveries
  BY DEF FinBound, FinCandidates, Known
<1>2. \A d \in Deliveries \cup {NoDelivery} : \A st \in {"QUARANTINED", "CONFLICTING"} :
        Fine(AddReceipt(l, d, f, st), sp) /\ AddReceipt(l, d, f, st).count = l.count
  <2>1. {"QUARANTINED", "CONFLICTING"} \subseteq ReceiptStatus
    BY DEF ReceiptStatus
  <2>2. \A d \in Deliveries \cup {NoDelivery} : \A st \in {"QUARANTINED", "CONFLICTING"} :
          Fine(AddReceipt(l, d, f, st), sp)
    BY <2>1, AddReceiptFine
  <2> QED
    BY <2>2 DEF AddReceipt, Ledger
<1>3. /\ amb.row = l.row /\ amb.count = l.count /\ amb.status = l.status
      /\ l.receipts \subseteq amb.receipts
  BY DEF Ledger
<1>4. Fine(amb, sp)
  <2> HIDE DEF amb
  <2>1. \A e \in Deliveries : Answered(amb, e, amb.status[e])
    BY <1>3 DEF Fine, Answered
  <2>2. Numbered(amb)
    BY <1>3 DEF Fine, Numbered
  <2>3. \A e \in Deliveries : amb.status[e] \in DeliveredStates => Handed(sp[e])
    BY <1>3 DEF Fine
  <2> QED
    BY <2>1, <2>2, <2>3 DEF Fine
<1>5. \A d \in bound : Fine(FinApplied(l, d, f), sp) /\ FinApplied(l, d, f).count = l.count
  BY <1>1, FinAppliedFine
<1>6. \/ k = AddReceipt(l, NoDelivery, f, "QUARANTINED")
      \/ \E d \in cands : k = AddReceipt(l, d, f, "CONFLICTING")
      \/ k = amb
      \/ \E d \in bound : k = FinApplied(l, d, f)
  <2> HIDE DEF cands, bound
  <2> QED BY DEF FinIngested, cands, bound
<1> HIDE DEF cands, bound, amb
<1> QED
  BY <1>1, <1>2, <1>3, <1>4, <1>5, <1>6

----------------------------------------------------------------------------
(* The steps.                                                              *)

\* Nobody works without the run lock: acquire takes it from nobody, and
\* checkpoint, release, a crash and a lost lock give it up.
LEMMA LockHeldStep == TypeOK /\ LockHeld /\ Next => LockHeld'
<1> SUFFICES ASSUME TypeOK, LockHeld, Next PROVE LockHeld'
  OBVIOUS
<1> USE DEF LockHeld
<1>1. ASSUME NEW p \in Procs, NEW l, NEW next, At(p, "orphans") \/ At(p, "receipts")
               \/ At(p, "loop") \/ At(p, "record"),
             Checkpoint(p, l, next)
      PROVE  LockHeld'
  BY <1>1 DEF Checkpoint, Goto, At, TypeOK
<1>2. ASSUME NEW p \in Procs, At(p, "loop"), Release(p) PROVE LockHeld'
  BY <1>2 DEF Release, Yield, Leave, Forget, At, TypeOK
<1>3. ASSUME NEW p \in Procs, Start(p) \/ Reacquire(p) PROVE LockHeld'
  BY <1>3 DEF Start, Acquire, Reacquire, Regain, Goto, At, TypeOK
<1>4. ASSUME NEW p \in Procs, LockLost(p) \/ Crash(p) PROVE LockHeld'
  <2>1. CASE LockLost(p)
    BY <2>1 DEF LockLost, Lose, Leave, TypeOK
  <2>2. CASE Crash(p)
    BY <2>2 DEF Crash, Die, Leave, TypeOK
  <2> QED
    BY <1>4, <2>1, <2>2
<1>5. ASSUME NEW p \in Procs, Recover(p) PROVE LockHeld'
  BY <1>1, <1>5 DEF Recover, Goto, At, TypeOK
<1>6. ASSUME NEW p \in Procs, NEW f \in box,
             Ingest(p, f) \/ QuarantineAck(p, f) \/ QuarantineNak(p, f)
      PROVE  LockHeld'
  BY <1>6 DEF Ingest, QuarantineAck, QuarantineNak, Goto, At, TypeOK
<1>7. ASSUME NEW p \in Procs, EndReceipts(p) PROVE LockHeld'
  BY <1>1, <1>7 DEF EndReceipts, Goto, At, TypeOK
<1>8. ASSUME NEW p \in Procs, Scan(p) PROVE LockHeld'
  BY <1>8 DEF Scan, Goto, At, TypeOK
<1>9. ASSUME NEW p \in Procs, NEW d \in Deliveries,
             StartAttempt(p, d) \/ AttemptTaken(p, d)
      PROVE  LockHeld'
  BY <1>1, <1>2, <1>9 DEF StartAttempt, AttemptTaken
<1>10. ASSUME NEW p \in Procs, Deliver(p) \/ WriteMeta(p) PROVE LockHeld'
  BY <1>10 DEF Deliver, WriteMeta, Answer, Goto, At, TypeOK
<1>11. ASSUME NEW p \in Procs, Record(p) \/ Finish(p) PROVE LockHeld'
  BY <1>1, <1>2, <1>11 DEF Record, Finish
<1>12. ASSUME UNCHANGED <<holder, pc>> PROVE LockHeld'
  BY <1>12
<1>13. ASSUME Operator PROVE UNCHANGED <<holder, pc>>
  BY <1>13 DEF Operator, SendPrepare, SendRetry, SendAbandon, SendIngestFin,
               Command, pass
<1>14. ASSUME NEW f, ReceiptArrives(f) PROVE UNCHANGED <<holder, pc>>
  BY <1>14 DEF ReceiptArrives, pass
<1> QED
  BY <1>3, <1>4, <1>5, <1>6, <1>7, <1>8, <1>9, <1>10, <1>11, <1>12, <1>13, <1>14
     DEF Next, Step

\* What every step keeps of the outbox.
SpoolKept ==
  \A d \in Deliveries :
    /\ Handed(spool[d]) => Handed(spool'[d])
    /\ spool[d].msg # "absent" => spool'[d].msg = spool[d].msg
    /\ spool[d].meta # "absent" => spool'[d].meta = spool[d].meta

\* No step replaces or removes a file of the outbox: a write follows a check,
\* under the lock, that the entry is empty or an orphan .msg.
LEMMA SpoolKeptStep ==
  ASSUME TypeOK, SnapshotBehind, AdapterProgress, Next
  PROVE  SpoolKept
<1>1. ASSUME UNCHANGED spool PROVE SpoolKept
  BY <1>1 DEF SpoolKept
<1>2. ASSUME NEW p \in Procs, Deliver(p) PROVE SpoolKept
  <2>1. cur[p] \in Deliveries /\ spool[cur[p]] \in Entry
    BY <1>2 DEF Deliver, At, SnapshotBehind, Attempting, TypeOK
  <2>2. PICK r \in DeliverSteps(spool[cur[p]]) : spool' = [spool EXCEPT ![cur[p]] = r.entry]
    BY <1>2 DEF Deliver, Answer
  <2> QED
    BY <2>1, <2>2, DeliverStepsType DEF SpoolKept, TypeOK
<1>3. ASSUME NEW p \in Procs, WriteMeta(p) PROVE SpoolKept
  <2>1. /\ cur[p] \in Deliveries /\ spool[cur[p]] \in Entry
        /\ spool[cur[p]].msg = "own" /\ spool[cur[p]].meta = "absent"
    BY <1>3 DEF WriteMeta, At, SnapshotBehind, AdapterProgress, Attempting, TypeOK
  <2>2. PICK r \in MetaSteps(spool[cur[p]]) : spool' = [spool EXCEPT ![cur[p]] = r.entry]
    BY <1>3 DEF WriteMeta, Answer
  <2>3. r.entry.msg = spool[cur[p]].msg /\ ~Handed(spool[cur[p]])
    BY <2>1, MetaStepsType
  <2> QED
    BY <2>1, <2>2, <2>3 DEF SpoolKept, TypeOK
<1>4. ASSUME NEW p \in Procs, Step(p), ~Deliver(p), ~WriteMeta(p) PROVE UNCHANGED spool
  BY <1>4 DEF Step, Start, Acquire, Reacquire, Regain, Recover, Ingest, QuarantineAck, QuarantineNak,
              EndReceipts, Scan, StartAttempt, AttemptTaken, Record, Finish
<1>5. ASSUME NEW p \in Procs, LockLost(p) \/ Crash(p) PROVE UNCHANGED spool
  BY <1>5 DEF LockLost, Lose, Crash, Die
<1>6. ASSUME Operator PROVE UNCHANGED spool
  BY <1>6 DEF Operator, SendPrepare, SendRetry, SendAbandon, SendIngestFin, Command
<1>7. ASSUME NEW f, ReceiptArrives(f) PROVE UNCHANGED spool
  BY <1>7 DEF ReceiptArrives
<1> QED
  BY <1>1, <1>2, <1>3, <1>4, <1>5, <1>6, <1>7 DEF Next

\* Files that only appear cannot refute what the ledger claims.
LEMMA FineMonotone ==
  ASSUME NEW l, Fine(l, spool), SpoolKept
  PROVE  Fine(l, spool')
BY DEF Fine, SpoolKept

\* What every step makes of the two ledgers.
LedgersMove ==
  /\ Fine(db', spool) /\ Fine(txn', spool)
  /\ txn'.count = db'.count
  /\ \A d \in Deliveries : db.count[d] <= db'.count[d]

\* Every step keeps both ledgers fine, changes no attempt count outside a
\* commit, and never lowers one.
LEMMA LedgersStep ==
  ASSUME TypeOK, LockHeld, SnapshotBehind, AdapterProgress,
         Fine(db, spool), Fine(txn, spool), Next
  PROVE  LedgersMove
<1>1. /\ txn.count = db.count
      /\ db \in Ledger /\ txn \in Ledger
      /\ \A d \in Deliveries : db.count[d] \in Nat
  BY DEF SnapshotBehind, TypeOK, Ledger
<1>2. ASSUME NEW l, Fine(l, spool), l.count = db.count,
             \/ Commit(l)
             \/ txn' = l /\ UNCHANGED db
      PROVE  LedgersMove
  BY <1>1, <1>2 DEF LedgersMove, Commit
<1>3. ASSUME UNCHANGED <<db, txn>> PROVE LedgersMove
  BY <1>1, <1>3 DEF LedgersMove
<1>4. ASSUME NEW p \in Procs, Crash(p) PROVE LedgersMove
  BY <1>1, <1>2, <1>3, <1>4 DEF Crash, Die
<1>5. ASSUME NEW p \in Procs, Recover(p) PROVE LedgersMove
  <2>1. PICK blind :
          \/ Commit(Recovered(txn, spool, blind))
          \/ txn' = Recovered(txn, spool, blind) /\ UNCHANGED db
    BY <1>5 DEF Recover, Checkpoint
  <2>2. /\ Fine(Recovered(txn, spool, blind), spool)
        /\ Recovered(txn, spool, blind).count = db.count
    BY <1>1, RecoveredFine DEF TypeOK
  <2> QED
    BY <1>2, <2>1, <2>2
<1>6. ASSUME NEW p \in Procs, NEW f \in box,
             Ingest(p, f) \/ QuarantineAck(p, f) \/ QuarantineNak(p, f)
      PROVE  LedgersMove
  <2>1. f \in ReceiptFile
    BY DEF TypeOK
  <2>2. UNCHANGED db /\ (txn' = Ingested(txn, f) \/ txn' = Quarantined(txn, f))
    BY <1>6 DEF Ingest, QuarantineAck, QuarantineNak, Take
  <2>3. /\ Fine(Ingested(txn, f), spool) /\ Ingested(txn, f).count = db.count
        /\ Fine(Quarantined(txn, f), spool) /\ Quarantined(txn, f).count = db.count
    BY <1>1, <2>1, IngestedFine
  <2> QED
    BY <1>2, <2>2, <2>3
<1>7. ASSUME NEW p \in Procs, EndReceipts(p) PROVE LedgersMove
  BY <1>1, <1>2, <1>3, <1>7 DEF EndReceipts, Checkpoint
<1>8. ASSUME NEW p \in Procs, NEW d \in Deliveries, StartAttempt(p, d)
      PROVE  LedgersMove
  <2> DEFINE n == base[p][d] + 1
  <2>1. /\ n \in AttemptNo /\ base[p][d] \in Nat
        /\ base[p][d] <= txn.count[d]
        /\ txn.count[d] \in Nat
        /\ txn.row[d][n] = NoRow
    BY <1>1, <1>8 DEF StartAttempt, TypeOK, AttemptNo, SnapshotBehind
  <2>2. ~(n <= txn.count[d])
    BY <2>1 DEF Fine, Numbered
  <2>3. n = txn.count[d] + 1
    BY <2>1, <2>2
  <2>4. /\ Fine(Started(txn, d, n), spool)
        /\ Started(txn, d, n).count = [txn.count EXCEPT ![d] = n]
    <3> HIDE DEF n
    <3> QED BY <1>1, <2>1, <2>3, StartedFine
  <2>5. \A e \in Deliveries : txn.count[e] <= [txn.count EXCEPT ![d] = n][e]
    BY <1>1, <2>1, <2>3 DEF Ledger
  <2>6. db' = Started(txn, d, n) /\ txn' = Started(txn, d, n)
    BY <1>8 DEF StartAttempt, Checkpoint, Commit
  <2> HIDE DEF n
  <2> QED
    BY <1>1, <2>4, <2>5, <2>6 DEF LedgersMove
<1>9. ASSUME NEW p \in Procs, NEW d \in Deliveries, AttemptTaken(p, d)
      PROVE  LedgersMove
  BY <1>1, <1>2, <1>9 DEF AttemptTaken, Release, Yield
<1>10. ASSUME NEW p \in Procs, Record(p) PROVE LedgersMove
  <2> DEFINE n == base[p][cur[p]] + 1
  <2>1. /\ cur[p] \in Deliveries
        /\ out[p] \in Outcomes
        /\ out[p] = "SPOOLED" => Handed(spool[cur[p]])
        /\ base[p][cur[p]] < db.count[cur[p]]
    BY <1>10 DEF Record, At, SnapshotBehind, AdapterProgress, Attempting
  <2>2. base[p][cur[p]] \in 0..MaxRows /\ db.count[cur[p]] \in 0..MaxRows
    BY <2>1 DEF TypeOK, Ledger
  <2>3. n \in AttemptNo /\ n <= txn.count[cur[p]]
    BY <1>1, <2>1, <2>2 DEF AttemptNo
  <2>4. Commit(Recorded(txn, cur[p], n, out[p]))
    BY <1>10 DEF Record, Checkpoint
  <2> HIDE DEF n
  <2>5. /\ Fine(Recorded(txn, cur[p], n, out[p]), spool)
        /\ Recorded(txn, cur[p], n, out[p]).count = db.count
    BY <1>1, <2>1, <2>3, RecordedFine
  <2> QED
    BY <1>2, <2>4, <2>5
<1>11. ASSUME NEW p \in Procs, Finish(p) PROVE LedgersMove
  BY <1>1, <1>2, <1>11 DEF Finish, Release, Yield
<1>12. ASSUME NEW c \in Contents, SendPrepare(c) PROVE LedgersMove
  BY <1>1, <1>2, <1>12, PreparedFine DEF SendPrepare, Command
<1>13. ASSUME NEW d \in Deliveries, NEW force \in BOOLEAN,
              SendRetry(d, force) \/ SendAbandon(d)
       PROVE  LedgersMove
  BY <1>1, <1>2, <1>13, OperatorFine DEF SendRetry, SendAbandon, Command
<1>14. ASSUME NEW f \in FinDocs, SendIngestFin(f) PROVE LedgersMove
  BY <1>1, <1>2, <1>14, FinIngestedFine DEF SendIngestFin, Command
<1>15. ASSUME NEW p \in Procs,
              \/ Start(p) \/ Reacquire(p) \/ LockLost(p) \/ Scan(p)
              \/ Deliver(p) \/ WriteMeta(p)
       PROVE  LedgersMove
  BY <1>3, <1>15 DEF Start, Acquire, Reacquire, Regain, LockLost, Lose, Scan, Deliver, WriteMeta, Answer
<1>16. ASSUME NEW f, ReceiptArrives(f) PROVE LedgersMove
  BY <1>3, <1>16 DEF ReceiptArrives
<1> QED
  BY <1>4, <1>5, <1>6, <1>7, <1>8, <1>9, <1>10, <1>11, <1>12, <1>13, <1>14, <1>15,
     <1>16 DEF Next, Step, Operator

\* The locals of q that the invariant is about stay as they are.
Keeps(q) == /\ pc'[q] = pc[q] /\ resume'[q] = resume[q] /\ cur'[q] = cur[q]
            /\ base'[q] = base[q] /\ out'[q] = out[q]

\* A step of one pass leaves the locals of the others alone.
LEMMA OthersKeep ==
  ASSUME TypeOK, NEW p \in Procs, Step(p) \/ LockLost(p) \/ Crash(p),
         NEW q \in Procs, q # p
  PROVE  Keeps(q)
<1> USE DEF TypeOK
<1>1. CASE Start(p) \/ Reacquire(p)
  BY <1>1 DEF Keeps, Start, Acquire, Reacquire, Regain, Goto
<1>2. CASE LockLost(p) \/ Crash(p)
  BY <1>2 DEF Keeps, LockLost, Lose, Crash, Die, Leave, Forget
<1>3. CASE Recover(p)
  BY <1>3 DEF Keeps, Recover, Checkpoint, Goto
<1>4. CASE \E f \in box : Ingest(p, f) \/ QuarantineAck(p, f) \/ QuarantineNak(p, f)
  BY <1>4 DEF Keeps, Ingest, QuarantineAck, QuarantineNak, Goto
<1>5. CASE EndReceipts(p)
  BY <1>5 DEF Keeps, EndReceipts, Checkpoint, Goto
<1>6. CASE Scan(p)
  BY <1>6 DEF Keeps, Scan, Goto
<1>7. CASE \E d \in Deliveries : StartAttempt(p, d) \/ AttemptTaken(p, d)
  BY <1>7 DEF Keeps, StartAttempt, AttemptTaken, Checkpoint, Release, Yield, Leave, Forget, Goto
<1>8. CASE Deliver(p) \/ WriteMeta(p)
  BY <1>8 DEF Keeps, Deliver, WriteMeta, Answer, Goto
<1>9. CASE Record(p) \/ Finish(p)
  BY <1>9 DEF Keeps, Record, Finish, Checkpoint, Release, Yield, Leave, Forget, Goto
<1> QED
  BY <1>1, <1>2, <1>3, <1>4, <1>5, <1>6, <1>7, <1>8, <1>9 DEF Step

\* Operators and the gateway leave the locals of every pass alone.
LEMMA BystandersKeep ==
  ASSUME TypeOK, Operator \/ (\E f : ReceiptArrives(f)), NEW q \in Procs
  PROVE  Keeps(q)
BY DEF Keeps, Operator, SendPrepare, SendRetry, SendAbandon, SendIngestFin, Command,
       ReceiptArrives, pass

\* Every step keeps a pass's snapshot behind the ledger.
LEMMA SnapshotStep ==
  ASSUME TypeOK, SnapshotBehind, TypeOK', LedgersMove, Next
  PROVE  SnapshotBehind'
<1> DEFINE Behind(q) ==
             /\ \A d \in Deliveries : base[q][d] <= db.count[d]
             /\ Attempting(q) => /\ cur[q] \in Deliveries
                                 /\ base[q][cur[q]] < db.count[cur[q]]
<1>1. /\ txn'.count = db'.count
      /\ \A d \in Deliveries : /\ db.count[d] \in Nat
                               /\ db'.count[d] \in Nat
                               /\ db.count[d] <= db'.count[d]
  BY DEF LedgersMove, TypeOK, Ledger
<1>2. \A q \in Procs : \A d \in Deliveries : base[q][d] \in Nat
  BY DEF TypeOK
<1>3. ASSUME NEW q \in Procs, base'[q] = base[q], cur'[q] = cur[q],
             Attempting(q)' => Attempting(q)
      PROVE  Behind(q)'
  BY <1>1, <1>2, <1>3 DEF SnapshotBehind
<1>4. ASSUME NEW q \in Procs, Keeps(q) PROVE Behind(q)'
  BY <1>3, <1>4 DEF Keeps, Attempting
<1>5. ASSUME NEW p \in Procs, Leave(p), Forget(p) PROVE Behind(p)'
  BY <1>1, <1>5 DEF Leave, Forget, ZeroBase, TypeOK, Attempting
<1>6. ASSUME NEW p \in Procs,
             \/ Start(p) \/ Reacquire(p) \/ Recover(p) \/ EndReceipts(p)
             \/ Deliver(p) \/ WriteMeta(p)
      PROVE  Behind(p)'
  <2>1. base'[p] = base[p] /\ cur'[p] = cur[p]
    BY <1>6 DEF Start, Acquire, Reacquire, Regain, Recover, EndReceipts, Deliver, WriteMeta, Answer
  <2>2. Attempting(p)' => Attempting(p)
    <3>1. CASE Start(p)
      BY <3>1 DEF Start, Acquire, Goto, Attempting, TypeOK
    <3>2. CASE Reacquire(p)
      BY <3>2 DEF Reacquire, Regain, Goto, At, Attempting, TypeOK, Resumes
    <3>3. CASE Recover(p) \/ EndReceipts(p)
      BY <3>3 DEF Recover, EndReceipts, Checkpoint, Goto, Attempting, TypeOK
    <3>4. CASE Deliver(p) \/ WriteMeta(p)
      BY <3>4 DEF Deliver, WriteMeta, At, Attempting
    <3> QED
      BY <1>6, <3>1, <3>2, <3>3, <3>4
  <2> QED
    BY <1>3, <2>1, <2>2
<1>7. ASSUME NEW p \in Procs, NEW f \in box,
             Ingest(p, f) \/ QuarantineAck(p, f) \/ QuarantineNak(p, f)
      PROVE  Behind(p)'
  <2>1. base'[p] = base[p] /\ ~Attempting(p)'
    BY <1>7 DEF Ingest, QuarantineAck, QuarantineNak, Goto, At, Attempting, TypeOK
  <2> QED
    BY <1>1, <1>2, <2>1 DEF SnapshotBehind
<1>8. ASSUME NEW p \in Procs, Scan(p) PROVE Behind(p)'
  <2>1. base'[p] = txn.count /\ ~Attempting(p)' /\ db' = db
    BY <1>8 DEF Scan, Goto, At, Attempting, TypeOK
  <2> QED
    BY <1>1, <2>1 DEF SnapshotBehind
<1>9. ASSUME NEW p \in Procs, NEW d \in Deliveries, StartAttempt(p, d)
      PROVE  Behind(p)'
  <2>1. /\ base'[p] = base[p] /\ cur'[p] = d
        /\ db'.count[d] = base[p][d] + 1
    BY <1>9 DEF StartAttempt, Checkpoint, Commit, Started, TypeOK, Ledger
  <2> QED
    BY <1>1, <1>2, <2>1 DEF SnapshotBehind
<1>10. ASSUME NEW p \in Procs, Record(p) PROVE Behind(p)'
  <2>1. base'[p] = base[p] /\ ~Attempting(p)'
    BY <1>10 DEF Record, Checkpoint, Goto, Attempting, TypeOK
  <2> QED
    BY <1>1, <1>2, <2>1 DEF SnapshotBehind
<1>11. ASSUME NEW p \in Procs, Step(p) \/ LockLost(p) \/ Crash(p) PROVE Behind(p)'
  BY <1>5, <1>6, <1>7, <1>8, <1>9, <1>10, <1>11
     DEF Step, LockLost, Lose, Crash, Die, AttemptTaken, Finish, Release, Yield
<1>12. \A q \in Procs : Behind(q)'
  BY <1>4, <1>11, OthersKeep, BystandersKeep DEF Next
<1> QED
  BY <1>1, <1>12 DEF SnapshotBehind

\* Every step keeps what a pass knows of the adapter's progress: nobody else
\* writes to the outbox while it holds the lock.
LEMMA AdapterStep ==
  ASSUME TypeOK, LockHeld, SnapshotBehind, AdapterProgress, TypeOK', LockHeld', Next
  PROVE  AdapterProgress'
<1> DEFINE Progress(q) ==
             /\ pc[q] = "meta" => /\ spool[cur[q]].msg = "own"
                                  /\ spool[cur[q]].meta = "absent"
             /\ pc[q] = "record" => /\ out[q] \in Outcomes
                                    /\ out[q] = "SPOOLED" => Handed(spool[cur[q]])
<1>1. ASSUME NEW q \in Procs, Keeps(q), UNCHANGED spool PROVE Progress(q)'
  BY <1>1 DEF AdapterProgress, Keeps
<1>2. ASSUME NEW q \in Procs, pc'[q] \notin {"meta", "record"} PROVE Progress(q)'
  BY <1>2
<1>3. ASSUME NEW p \in Procs, Deliver(p) PROVE \A q \in Procs : Progress(q)'
  <2>1. /\ cur[p] \in Deliveries /\ spool[cur[p]] \in Entry
        /\ holder = p /\ holder' = p
    BY <1>3 DEF Deliver, Answer, At, SnapshotBehind, Attempting, TypeOK
  <2>2. PICK r \in DeliverSteps(spool[cur[p]]) : Answer(p, r)
    BY <1>3 DEF Deliver
  <2>3. spool'[cur'[p]] = r.entry
    BY <2>1, <2>2 DEF Answer, TypeOK
  <2>4. /\ r.outcome = MsgWritten => pc'[p] = "meta"
        /\ r.outcome # MsgWritten => pc'[p] = "record" /\ out'[p] = r.outcome
    BY <2>2 DEF Answer, Goto, TypeOK
  <2>5. Progress(p)'
    BY <2>1, <2>3, <2>4, DeliverStepsType
  <2>6. ASSUME NEW q \in Procs, q # p PROVE Progress(q)'
    BY <1>2, <2>1, <2>6 DEF LockHeld
  <2> QED
    BY <2>5, <2>6
<1>4. ASSUME NEW p \in Procs, WriteMeta(p) PROVE \A q \in Procs : Progress(q)'
  <2>1. /\ cur[p] \in Deliveries /\ spool[cur[p]] \in Entry
        /\ spool[cur[p]].msg = "own" /\ spool[cur[p]].meta = "absent"
        /\ holder = p /\ holder' = p
    BY <1>4 DEF WriteMeta, Answer, At, SnapshotBehind, AdapterProgress, Attempting,
                TypeOK
  <2>2. PICK r \in MetaSteps(spool[cur[p]]) : Answer(p, r)
    BY <1>4 DEF WriteMeta
  <2>3. spool'[cur'[p]] = r.entry
    BY <2>1, <2>2 DEF Answer, TypeOK
  <2>4. /\ r.outcome \in Outcomes
        /\ r.outcome = "SPOOLED" => Handed(r.entry)
    BY <2>1, MetaStepsType
  <2>5. pc'[p] = "record" /\ out'[p] = r.outcome
    BY <2>2, <2>4 DEF Answer, Goto, TypeOK, Outcomes, MsgWritten
  <2>6. Progress(p)'
    BY <2>3, <2>4, <2>5
  <2>7. ASSUME NEW q \in Procs, q # p PROVE Progress(q)'
    BY <1>2, <2>1, <2>7 DEF LockHeld
  <2> QED
    BY <2>6, <2>7
<1>5. ASSUME NEW p \in Procs, Step(p) \/ LockLost(p) \/ Crash(p),
             ~Deliver(p), ~WriteMeta(p)
      PROVE  UNCHANGED spool /\ pc'[p] \notin {"meta", "record"}
  <2>1. UNCHANGED spool
    BY <1>5 DEF Step, Start, Acquire, Reacquire, Regain, Recover, Ingest, QuarantineAck,
                QuarantineNak, EndReceipts, Scan, StartAttempt, AttemptTaken, Record,
                Finish, LockLost, Lose, Crash, Die
  <2>2. CASE Start(p) \/ Scan(p)
    BY <2>2 DEF Start, Acquire, Scan, Goto, TypeOK
  <2>3. CASE Reacquire(p)
    BY <2>3 DEF Reacquire, Regain, Goto, TypeOK, Resumes
  <2>4. CASE Recover(p) \/ EndReceipts(p)
    BY <2>4 DEF Recover, EndReceipts, Checkpoint, Goto, TypeOK
  <2>5. CASE \E f \in box : Ingest(p, f) \/ QuarantineAck(p, f) \/ QuarantineNak(p, f)
    BY <2>5 DEF Ingest, QuarantineAck, QuarantineNak, Goto, At, TypeOK
  <2>6. CASE \/ \E d \in Deliveries : StartAttempt(p, d) \/ AttemptTaken(p, d)
             \/ Record(p) \/ Finish(p)
    BY <2>6 DEF StartAttempt, AttemptTaken, Record, Finish, Checkpoint, Release, Yield,
                Leave, Forget, Goto, TypeOK
  <2>7. CASE LockLost(p) \/ Crash(p)
    BY <2>7 DEF LockLost, Lose, Crash, Die, Leave, Forget, TypeOK
  <2> QED
    BY <1>5, <2>1, <2>2, <2>3, <2>4, <2>5, <2>6, <2>7 DEF Step
<1>6. ASSUME Operator \/ (\E f : ReceiptArrives(f)) PROVE UNCHANGED spool
  BY <1>6 DEF Operator, SendPrepare, SendRetry, SendAbandon, SendIngestFin, Command,
              ReceiptArrives
<1>7. \A q \in Procs : Progress(q)'
  BY <1>1, <1>2, <1>3, <1>4, <1>5, <1>6, OthersKeep, BystandersKeep DEF Next, Step
<1> QED
  BY <1>7 DEF AdapterProgress

\* Every step, and a stutter, keeps the inductive invariant.
LEMMA NextIInv == IInv /\ [Next]_vars => IInv'
<1> SUFFICES ASSUME IInv, [Next]_vars PROVE IInv'
  OBVIOUS
<1>1. CASE UNCHANGED vars
  BY <1>1 DEF IInv, TypeOK, LockHeld, SnapshotBehind, AdapterProgress, Attempting,
              AttemptsNumbered, HandoffBacked, VerdictBacked, Answered, vars
<1>2. CASE Next
  <2>1. TypeOK' /\ LockHeld' /\ SpoolKept
    BY <1>2, TypeStep, LockHeldStep, SpoolKeptStep DEF IInv
  <2>2. Fine(db, spool) /\ Fine(txn, spool)
    BY FineInvariants DEF IInv
  <2>3. LedgersMove
    BY <1>2, <2>2, LedgersStep DEF IInv
  <2>4. SnapshotBehind' /\ AdapterProgress'
    BY <1>2, <2>1, <2>3, SnapshotStep, AdapterStep DEF IInv
  <2>5. Fine(db', spool') /\ Fine(txn', spool')
    BY <2>1, <2>3, FineMonotone DEF LedgersMove
  <2>6. AttemptsNumbered' /\ HandoffBacked' /\ VerdictBacked'
    BY <2>5 DEF Fine, Numbered, AttemptsNumbered, HandoffBacked, VerdictBacked,
                Answered
  <2> QED
    BY <2>1, <2>4, <2>6 DEF IInv
<1> QED
  BY <1>1, <1>2

----------------------------------------------------------------------------
(* The theorems.                                                           *)

\* The inductive invariant holds in every reachable state: what the ledger
\* claims, counts and calls answered stays backed through every interleaving
\* of passes, operators, receipts, crashes and lost locks.
THEOREM Invariance == Spec => []IInv
<1>1. Init => IInv
  BY InitIInv
<1>2. IInv /\ [Next]_vars => IInv'
  BY NextIInv
<1> QED
  BY <1>1, <1>2, PTL DEF Spec

\* Every variable keeps its type, whatever the passes, the operators and the
\* gateway do.
THEOREM TypeCorrect == Spec => []TypeOK
<1>1. IInv => TypeOK
  BY DEF IInv
<1> QED
  BY <1>1, Invariance, PTL

\* The ledger never says that a send was handed over, accepted, rejected or
\* acknowledged unless its two files are in the outbox.
THEOREM ClaimsAreBacked == Spec => []HandoffBacked
<1>1. IInv => HandoffBacked
  BY DEF IInv
<1> QED
  BY <1>1, Invariance, PTL

\* The attempts of every send are numbered without gaps or repetitions up to
\* its attempt_count, although passes number them from stale snapshots.
THEOREM AttemptsAreNumbered == Spec => []AttemptsNumbered
<1>1. IInv => AttemptsNumbered
  BY DEF IInv
<1> QED
  BY <1>1, Invariance, PTL

\* Every verdict in the ledger has its receipt or service message there.
THEOREM VerdictsAreBacked == Spec => []VerdictBacked
<1>1. IInv => VerdictBacked
  BY DEF IInv
<1> QED
  BY <1>1, Invariance, PTL

\* No step of any process replaces a file of the outbox.
THEOREM OutboxIsAppendOnly == Spec => SpoolNeverOverwritten
<1>1. IInv /\ [Next]_vars =>
        [\A d \in Deliveries :
           /\ spool[d].msg # "absent" => spool'[d].msg = spool[d].msg
           /\ spool[d].meta # "absent" => spool'[d].meta = spool[d].meta]_vars
  BY SpoolKeptStep DEF IInv, SpoolKept
<1> QED
  BY <1>1, Invariance, PTL DEF Spec, SpoolNeverOverwritten

----------------------------------------------------------------------------
(* One dispatcher.                                                         *)

\* send-dispatch is not run twice at the same time.
OneDispatcher == \A p, q \in Dispatchers : p = q

----------------------------------------------------------------------------
(* What a ledger is like while its attempts are in order.                  *)

\* A prepared send of which the ledger claims nothing.
Waits(l, d) == ClaimOf(l.status[d]) = "nothing" /\ l.status[d] # S_NONE

OneOpenIn(l) ==
  \A d \in Deliveries : \A m, n \in AttemptNo :
    l.row[d][m] = "STARTED" /\ l.row[d][n] = "STARTED" => m = n

OpenWaits(l) == \A d \in Orphans(l) : Waits(l, d)

\* more: the retries the operator ordered.
WithinBudget(l, more) ==
  \A d \in Deliveries :
    /\ l.count[d] <= MaxAttempts + more[d]
    /\ l.status[d] = S_NONE => l.count[d] = 0
    /\ l.status[d] = S_PREPARED /\ d \notin Orphans(l) =>
         l.count[d] < MaxAttempts + more[d]

Orderly(l, more) == OneOpenIn(l) /\ OpenWaits(l) /\ WithinBudget(l, more)

\* How far a transaction b may be ahead of the committed ledger a: it has
\* the gateway's answer to a send that a calls SPOOLED, and nothing else that
\* a reader could tell.
Drift(a, b) ==
  \A d \in Deliveries :
    /\ a.status[d] = S_NONE <=> b.status[d] = S_NONE
    /\ \/ ClaimOf(a.status[d]) = ClaimOf(b.status[d])
       \/ a.status[d] = S_SPOOLED /\ b.status[d] \in GatewayStates

\* k is l after a ledger function that touches no attempt.
Gentle(l, k, more) ==
  /\ k.row = l.row
  /\ k.count = l.count
  /\ \A d \in Deliveries :
       \/ k.status[d] = l.status[d]
       \/ ClaimOf(l.status[d]) # "nothing" /\ ClaimOf(k.status[d]) # "nothing"
       \/ /\ Waits(k, d)
          /\ k.status[d] = S_PREPARED => k.count[d] < MaxAttempts + more[d]

\* How a commit may move the claim on d.
Move(d, old, new) == Promise!Moves(d, ClaimOf(old.status[d]), ClaimOf(new.status[d]))

\* What the ledger claims in each state of a send.
LEMMA ClaimStates ==
  /\ \A s \in {S_NONE, S_PREPARED, S_FAILED_RETRYABLE, S_FAILED_PERMANENT, S_ABANDONED} :
       ClaimOf(s) = "nothing"
  /\ ClaimOf(S_SPOOLED) = "handed"
  /\ ClaimOf(S_UNKNOWN) = "unknown"
  /\ \A s \in GatewayStates : ClaimOf(s) \in {"accepted", "rejected"}
  /\ \A s \in SwiftStates : ClaimOf(s) \in {"acked", "naked"}
  /\ \A s : /\ ClaimOf(s) = "handed" <=> s = S_SPOOLED
            /\ ClaimOf(s) = "unknown" <=> s = S_UNKNOWN
            /\ ClaimOf(s) \in {"accepted", "rejected"} <=> s \in GatewayStates
            /\ ClaimOf(s) \in {"acked", "naked"} <=> s \in SwiftStates
            /\ ClaimOf(s) \in {"nothing", "unknown", "handed", "accepted",
                               "rejected", "acked", "naked"}
  /\ \A s, t : ClaimOf(s) = ClaimOf(t) => ClaimOf(s) = "nothing" \/ s = t
BY DEF ClaimOf, GatewayStates, SwiftStates, S_NONE, S_PREPARED, S_SPOOLED,
       S_FAILED_RETRYABLE, S_FAILED_PERMANENT, S_GATEWAY_ACCEPTED, S_GATEWAY_REJECTED,
       S_UNKNOWN, S_ABANDONED, S_SWIFT_ACKED, S_SWIFT_NAKED

\* A ledger function that touches no attempt leaves the ledger in order.
LEMMA GentleOrderly ==
  ASSUME NEW l, NEW k, NEW m \in [Deliveries -> Nat], NEW more \in [Deliveries -> Nat],
         l \in Ledger,
         \A d \in Deliveries : m[d] <= more[d],
         Orderly(l, m), Gentle(l, k, more)
  PROVE  Orderly(k, more)
<1>1. Orphans(k) = Orphans(l)
  BY DEF Gentle, Orphans
<1>2. OneOpenIn(k)
  BY DEF Gentle, Orderly, OneOpenIn
<1>3. OpenWaits(k)
  BY <1>1 DEF Gentle, Orderly, OpenWaits, Waits, Orphans
<1>4. \A d \in Deliveries : l.count[d] \in Nat /\ k.count[d] = l.count[d]
  BY DEF Ledger, Gentle
<1>5. ASSUME NEW d \in Deliveries
      PROVE  /\ k.count[d] <= MaxAttempts + more[d]
             /\ k.status[d] = S_NONE => k.count[d] = 0
             /\ k.status[d] = S_PREPARED /\ d \notin Orphans(k) =>
                  k.count[d] < MaxAttempts + more[d]
  <2>1. /\ l.count[d] <= MaxAttempts + m[d]
        /\ l.status[d] = S_NONE => l.count[d] = 0
        /\ l.status[d] = S_PREPARED /\ d \notin Orphans(l) =>
             l.count[d] < MaxAttempts + m[d]
    BY DEF Orderly, WithinBudget
  <2>2. \/ k.status[d] = l.status[d]
        \/ ClaimOf(k.status[d]) # "nothing"
        \/ /\ k.status[d] # S_NONE
           /\ k.status[d] = S_PREPARED => k.count[d] < MaxAttempts + more[d]
    BY DEF Gentle, Waits
  <2>3. m[d] \in Nat /\ more[d] \in Nat /\ m[d] <= more[d]
    OBVIOUS
  <2>4. ClaimOf(S_NONE) = "nothing" /\ ClaimOf(S_PREPARED) = "nothing"
    BY ClaimStates
  <2> QED
    BY <1>1, <1>4, <2>1, <2>2, <2>3, <2>4
<1> QED
  BY <1>2, <1>3, <1>5 DEF Orderly, WithinBudget

\* It moves no send that waits out of its wait.
LEMMA GentleWaits ==
  ASSUME NEW l, NEW k, NEW more, Gentle(l, k, more), NEW d \in Deliveries, Waits(l, d)
  PROVE  Waits(k, d)
BY DEF Gentle, Waits

\* A receipt row touches no send and no attempt.
LEMMA AddReceiptEffect ==
  ASSUME NEW l \in Ledger, NEW d, NEW doc, NEW st
  PROVE  /\ AddReceipt(l, d, doc, st).row = l.row
         /\ AddReceipt(l, d, doc, st).count = l.count
         /\ AddReceipt(l, d, doc, st).status = l.status
BY DEF AddReceipt, Ledger

\* A gateway receipt moves a SPOOLED send to its verdict, or nothing.
LEMMA IngestedEffect ==
  ASSUME NEW l \in Ledger, NEW f \in ReceiptFile,
         NEW k \in {Ingested(l, f), Quarantined(l, f)}
  PROVE  /\ k.row = l.row /\ k.count = l.count
         /\ \A d \in Deliveries :
              \/ k.status[d] = l.status[d]
              \/ l.status[d] = S_SPOOLED /\ k.status[d] \in GatewayStates
<1>1. /\ f.d \in Deliveries /\ f.doc \in GatewayDoc
      /\ f.doc.verdict \in ReceiptStatus
      /\ StateOfVerdict(f.doc.verdict) \in GatewayStates
  BY DEF ReceiptFile, GatewayDoc, ReceiptStatus, StateOfVerdict, GatewayStates
<1>2. CASE k = Quarantined(l, f) \/ k = l
  BY <1>2, AddReceiptEffect DEF Quarantined
<1>3. CASE Applies(l, f) /\ k = Applied(l, f)
  <2> DEFINE a == AddReceipt(l, f.d, f.doc, f.doc.verdict)
             s == StateOfVerdict(f.doc.verdict)
  <2>1. a \in Ledger /\ a.row = l.row /\ a.count = l.count /\ a.status = l.status
    BY <1>1, AddReceiptType, AddReceiptEffect
  <2>2. k = SetStatus(a, f.d, s, FALSE) /\ l.status[f.d] = S_SPOOLED
    BY <1>3 DEF Applied, Applies
  <2> HIDE DEF a, s
  <2>3. /\ k.row = a.row /\ k.count = a.count /\ k.status[f.d] = s
        /\ \A e \in Deliveries \ {f.d} : k.status[e] = a.status[e]
    BY <1>1, <2>1, <2>2 DEF SetStatus, Ledger
  <2> QED
    BY <1>1, <2>1, <2>2, <2>3 DEF s
<1> QED
  BY <1>2, <1>3 DEF Ingested

\* A service message moves a handed-over send to the network's verdict, or
\* nothing.
LEMMA FinAppliedEffect ==
  ASSUME NEW l \in Ledger, NEW e \in Deliveries, NEW f \in FinDocs,
         NEW k, k = FinApplied(l, e, f)
  PROVE  /\ k.row = l.row /\ k.count = l.count
         /\ \A d \in Deliveries :
              \/ k.status[d] = l.status[d]
              \/ /\ l.status[d] \in {S_SPOOLED} \cup GatewayStates
                 /\ k.status[d] \in SwiftStates
<1> DEFINE a == AddReceipt(l, e, f, FinStatus(f))
<1>1. FinStatus(f) \in ReceiptStatus /\ FinState(f) \in SwiftStates
  BY DEF FinStatus, FinState, ReceiptStatus, SwiftStates
<1>2. a \in Ledger /\ a.row = l.row /\ a.count = l.count /\ a.status = l.status
  BY <1>1, AddReceiptType, AddReceiptEffect
<1>3. CASE k = l \/ \E st : k = AddReceipt(l, e, f, st)
  BY <1>3, AddReceiptEffect
<1>4. CASE /\ l.status[e] \in {S_SPOOLED} \cup GatewayStates
           /\ k = SetStatus(a, e, FinState(f), FALSE)
  <2> HIDE DEF a
  <2>1. /\ k.row = a.row /\ k.count = a.count /\ k.status[e] = FinState(f)
        /\ \A d \in Deliveries \ {e} : k.status[d] = a.status[d]
    BY <1>2, <1>4 DEF SetStatus, Ledger
  <2> QED
    BY <1>1, <1>2, <1>4, <2>1
<1>5. SwiftStates \cap ({S_SPOOLED} \cup GatewayStates) = {}
  BY DEF GatewayStates, SwiftStates, S_SPOOLED, S_GATEWAY_ACCEPTED, S_GATEWAY_REJECTED,
         S_SWIFT_ACKED, S_SWIFT_NAKED
<1>6. \/ k = l
      \/ \E st : k = AddReceipt(l, e, f, st)
      \/ /\ l.status[e] \in {S_SPOOLED} \cup GatewayStates
         /\ k = SetStatus(a, e, FinState(f), FALSE)
  <2>1. CASE Seen(l, e, f)
    BY <2>1 DEF FinApplied
  <2>2. CASE ~Seen(l, e, f) /\ l.status[e] \in SwiftStates
    BY <1>5, <2>2 DEF FinApplied
  <2>3. CASE ~Seen(l, e, f) /\ l.status[e] \in {S_SPOOLED} \cup GatewayStates
    BY <1>5, <2>3 DEF FinApplied
  <2>4. CASE /\ ~Seen(l, e, f)
             /\ l.status[e] \notin SwiftStates \cup {S_SPOOLED} \cup GatewayStates
    BY <2>4 DEF FinApplied
  <2> QED
    BY <2>1, <2>2, <2>3, <2>4
<1> QED
  BY <1>3, <1>4, <1>6

LEMMA FinIngestedEffect ==
  ASSUME NEW l \in Ledger, NEW f \in FinDocs, NEW k \in FinIngested(l, f)
  PROVE  /\ k.row = l.row /\ k.count = l.count
         /\ \A d \in Deliveries :
              \/ k.status[d] = l.status[d]
              \/ /\ l.status[d] \in {S_SPOOLED} \cup GatewayStates
                 /\ k.status[d] \in SwiftStates
<1>1. FinBound(l, f) \subseteq Deliveries /\ FinCandidates(l, f) \subseteq Deliveries
  BY DEF FinBound, FinCandidates, Known
<1>2. \/ \E st : \E d \in Deliveries \cup {NoDelivery} : k = AddReceipt(l, d, f, st)
      \/ k = [l EXCEPT !.receipts = @ \cup
                {[d |-> d, doc |-> f, st |-> "AMBIGUOUS"] : d \in FinBound(l, f)}]
      \/ \E d \in Deliveries : k = FinApplied(l, d, f)
  BY <1>1 DEF FinIngested
<1>3. CASE k = [l EXCEPT !.receipts = @ \cup
                {[d |-> d, doc |-> f, st |-> "AMBIGUOUS"] : d \in FinBound(l, f)}]
  BY <1>3 DEF Ledger
<1>4. CASE \E st : \E d \in Deliveries \cup {NoDelivery} : k = AddReceipt(l, d, f, st)
  BY <1>4, AddReceiptEffect
<1>5. CASE \E d \in Deliveries : k = FinApplied(l, d, f)
  BY <1>5, FinAppliedEffect
<1> QED
  BY <1>2, <1>3, <1>4, <1>5

\* Gateway receipts and service messages are gentle.
LEMMA AnswersGentle ==
  ASSUME NEW l, NEW k, NEW more,
         k.row = l.row, k.count = l.count,
         \A d \in Deliveries :
           \/ k.status[d] = l.status[d]
           \/ /\ l.status[d] \in {S_SPOOLED} \cup GatewayStates
              /\ k.status[d] \in GatewayStates \cup SwiftStates
  PROVE  Gentle(l, k, more)
BY ClaimStates DEF Gentle

\* prepare_sends adds sends that have made no attempt.
LEMMA PreparedEffect ==
  ASSUME NEW l \in Ledger, NEW c \in Contents, NEW m \in [Deliveries -> Nat],
         WithinBudget(l, m)
  PROVE  /\ Gentle(l, Prepared(l, c), m)
         /\ \A d \in Deliveries : Move(d, l, Prepared(l, c))
<1> DEFINE k == Prepared(l, c)
<1>1. /\ k.row = l.row /\ k.count = l.count
      /\ \A d \in Deliveries :
           \/ k.status[d] = l.status[d]
           \/ l.status[d] = S_NONE /\ k.status[d] = S_PREPARED
  BY DEF Prepared, Ledger, Fresh, Known
<1> HIDE DEF k
<1>2. S_PREPARED # S_NONE
  BY DEF S_PREPARED, S_NONE
<1>3. \A d \in Deliveries : l.status[d] = S_NONE => l.count[d] < MaxAttempts + m[d]
  BY DEF WithinBudget
<1>4. Gentle(l, k, m)
  BY <1>1, <1>2, <1>3, ClaimStates DEF Gentle, Waits
<1>5. \A d \in Deliveries : ClaimOf(k.status[d]) = ClaimOf(l.status[d])
  BY <1>1, ClaimStates
<1> QED
  BY <1>4, <1>5 DEF k, Move, Promise!Moves

\* send_retry raises the budget of the send it prepares again.
LEMMA RetriedEffect ==
  ASSUME NEW l \in Ledger, NEW d \in Deliveries, NEW force \in BOOLEAN,
         NEW m \in [Deliveries -> Nat], WithinBudget(l, m), MayRetry(l, d, force)
  PROVE  /\ Gentle(l, Retried(l, d), [m EXCEPT ![d] = @ + 1])
         /\ \A e \in Deliveries : Move(e, l, Retried(l, d))
<1> DEFINE k == Retried(l, d)
<1>1. /\ k.row = l.row /\ k.count = l.count /\ k.status[d] = S_PREPARED
      /\ \A e \in Deliveries \ {d} : k.status[e] = l.status[e]
  BY DEF Retried, SetStatus, Ledger
<1> HIDE DEF k
<1>2. S_PREPARED # S_NONE
  BY DEF S_PREPARED, S_NONE
<1>3. l.count[d] < MaxAttempts + m[d] + 1
  BY DEF WithinBudget, Ledger
<1>4. Gentle(l, k, [m EXCEPT ![d] = @ + 1])
  BY <1>1, <1>2, <1>3, ClaimStates DEF Gentle, Waits
<1>5. ClaimOf(l.status[d]) \in {"nothing", "unknown"} /\ ClaimOf(k.status[d]) = "nothing"
  BY <1>1, ClaimStates DEF MayRetry, TERMINAL_STATES
<1> QED
  BY <1>1, <1>4, <1>5 DEF k, Move, Promise!Moves

\* send_abandon gives up a send that has no verdict.
LEMMA AbandonedEffect ==
  ASSUME NEW l \in Ledger, NEW d \in Deliveries, NEW m, MayAbandon(l, d)
  PROVE  /\ Gentle(l, Abandoned(l, d), m)
         /\ \A e \in Deliveries : Move(e, l, Abandoned(l, d))
<1> DEFINE k == Abandoned(l, d)
<1>1. /\ k.row = l.row /\ k.count = l.count /\ k.status[d] = S_ABANDONED
      /\ \A e \in Deliveries \ {d} : k.status[e] = l.status[e]
  BY DEF Abandoned, SetStatus, Ledger
<1> HIDE DEF k
<1>2. S_ABANDONED # S_NONE /\ S_ABANDONED # S_PREPARED
  BY DEF S_ABANDONED, S_NONE, S_PREPARED
<1>3. Gentle(l, k, m)
  BY <1>1, <1>2, ClaimStates DEF Gentle, Waits
<1>4. /\ ClaimOf(l.status[d]) \in {"nothing", "unknown", "handed"}
      /\ ClaimOf(k.status[d]) = "nothing"
  BY <1>1, ClaimStates DEF MayAbandon, TERMINAL_STATES
<1> QED
  BY <1>1, <1>3, <1>4 DEF k, Move, Promise!Moves

\* ingest_fin_service_doc moves claims as the network may.
LEMMA FinMoves ==
  ASSUME NEW l \in Ledger, NEW f \in FinDocs, NEW k \in FinIngested(l, f), NEW m
  PROVE  Gentle(l, k, m) /\ \A e \in Deliveries : Move(e, l, k)
<1>1. /\ k.row = l.row /\ k.count = l.count
      /\ \A d \in Deliveries :
           \/ k.status[d] = l.status[d]
           \/ /\ l.status[d] \in {S_SPOOLED} \cup GatewayStates
              /\ k.status[d] \in SwiftStates
  BY FinIngestedEffect
<1>2. Gentle(l, k, m)
  BY <1>1, AnswersGentle
<1>3. ASSUME NEW e \in Deliveries PROVE Move(e, l, k)
  <2>1. \/ ClaimOf(k.status[e]) = ClaimOf(l.status[e])
        \/ /\ ClaimOf(l.status[e]) \in {"handed", "accepted", "rejected"}
           /\ ClaimOf(k.status[e]) \in {"acked", "naked"}
    BY <1>1, ClaimStates
  <2> QED
    BY <2>1 DEF Move, Promise!Moves, Promise!Gateway, Promise!Network
<1> QED
  BY <1>2, <1>3

\* Committing a transaction moves claims as the gateway may.
LEMMA DriftMoves ==
  ASSUME NEW a, NEW b, Drift(a, b)
  PROVE  \A d \in Deliveries : Move(d, a, b)
<1> SUFFICES ASSUME NEW d \in Deliveries PROVE Move(d, a, b)
  OBVIOUS
<1>1. \/ ClaimOf(a.status[d]) = ClaimOf(b.status[d])
      \/ /\ ClaimOf(a.status[d]) = "handed"
         /\ ClaimOf(b.status[d]) \in {"accepted", "rejected"}
  BY ClaimStates DEF Drift
<1> QED
  BY <1>1 DEF Move, Promise!Moves, Promise!Gateway

\* Neither the adapter's answer nor verify()'s verdict leaves a send prepared,
\* or its attempt open.
LEMMA ClosingStates ==
  /\ \A o \in Outcomes, n \in Nat :
       /\ AttemptAfter(o) # "STARTED"
       /\ StatusAfter(o, n) \notin {S_NONE, S_PREPARED}
       /\ ClaimOf(StatusAfter(o, n)) \in {"nothing", "unknown", "handed"}
       /\ ClaimOf(StatusAfter(o, n)) = "handed" => o = "SPOOLED"
  /\ \A v \in Verdicts :
       /\ AttemptOfVerdict(v) # "STARTED"
       /\ StatusOfVerdict(v) \notin {S_NONE, S_PREPARED}
       /\ ClaimOf(StatusOfVerdict(v)) \in {"nothing", "unknown", "handed"}
       /\ ClaimOf(StatusOfVerdict(v)) = "handed" => v = "SPOOLED"
       /\ v \notin {"SPOOLED", "UNKNOWN"} => ClaimOf(StatusOfVerdict(v)) = "nothing"
<1>1. ASSUME NEW o \in Outcomes, NEW n \in Nat
      PROVE  /\ AttemptAfter(o) # "STARTED"
             /\ StatusAfter(o, n) \notin {S_NONE, S_PREPARED}
             /\ ClaimOf(StatusAfter(o, n)) \in {"nothing", "unknown", "handed"}
             /\ ClaimOf(StatusAfter(o, n)) = "handed" => o = "SPOOLED"
  <2>1. /\ AttemptAfter(o) # "STARTED"
        /\ StatusAfter(o, n) \in {S_SPOOLED, S_UNKNOWN, S_FAILED_RETRYABLE,
                                  S_FAILED_PERMANENT}
        /\ StatusAfter(o, n) = S_SPOOLED => o = "SPOOLED"
    BY DEF Outcomes, AttemptAfter, StatusAfter, S_SPOOLED, S_UNKNOWN,
           S_FAILED_RETRYABLE, S_FAILED_PERMANENT
  <2> QED
    BY <2>1, ClaimStates DEF S_NONE, S_PREPARED, S_SPOOLED, S_UNKNOWN,
                             S_FAILED_RETRYABLE, S_FAILED_PERMANENT
<1>2. ASSUME NEW v \in Verdicts
      PROVE  /\ AttemptOfVerdict(v) # "STARTED"
             /\ StatusOfVerdict(v) \notin {S_NONE, S_PREPARED}
             /\ ClaimOf(StatusOfVerdict(v)) \in {"nothing", "unknown", "handed"}
             /\ ClaimOf(StatusOfVerdict(v)) = "handed" => v = "SPOOLED"
             /\ v \notin {"SPOOLED", "UNKNOWN"} => ClaimOf(StatusOfVerdict(v)) = "nothing"
  <2>1. /\ AttemptOfVerdict(v) # "STARTED"
        /\ StatusOfVerdict(v) \in {S_SPOOLED, S_UNKNOWN, S_FAILED_RETRYABLE,
                                   S_FAILED_PERMANENT}
        /\ StatusOfVerdict(v) = S_SPOOLED => v = "SPOOLED"
        /\ StatusOfVerdict(v) = S_UNKNOWN => v = "UNKNOWN"
    BY DEF Verdicts, AttemptOfVerdict, StatusOfVerdict, S_SPOOLED, S_UNKNOWN,
           S_FAILED_RETRYABLE, S_FAILED_PERMANENT
  <2> QED
    BY <2>1, ClaimStates DEF S_NONE, S_PREPARED, S_SPOOLED, S_UNKNOWN,
                             S_FAILED_RETRYABLE, S_FAILED_PERMANENT
<1> QED
  BY <1>1, <1>2

\* _recover_orphans closes every open attempt; it claims a handoff only where
\* verify() saw one, and anything at all only when it checkpoints.
LEMMA RecoveredEffect ==
  ASSUME NEW l \in Ledger, NEW m \in [Deliveries -> Nat], Orderly(l, m),
         NEW blind, NEW k, k = Recovered(l, spool, blind),
         spool \in [Deliveries -> Entry],
         NEW a, Drift(a, l)
  PROVE  /\ Orphans(k) = {}
         /\ Orderly(k, m)
         /\ \A d \in Deliveries : Move(d, a, k)
         /\ ~RecoveryCheckpoints(l, spool, blind) => Drift(a, k)
<1> DEFINE V(d) == VerdictFor(spool, blind, d)
<1>1. /\ k.count = l.count
      /\ k.row = [d \in Deliveries |-> [n \in AttemptNo |->
                   IF l.row[d][n] = "STARTED" THEN AttemptOfVerdict(V(d))
                                              ELSE l.row[d][n]]]
      /\ k.status = [d \in Deliveries |->
                      IF d \in Orphans(l) THEN StatusOfVerdict(V(d))
                                          ELSE l.status[d]]
  BY DEF Recovered, Ledger
<1>2. \A d \in Deliveries :
        /\ AttemptOfVerdict(V(d)) # "STARTED"
        /\ StatusOfVerdict(V(d)) \notin {S_NONE, S_PREPARED}
        /\ ClaimOf(StatusOfVerdict(V(d))) \in {"nothing", "unknown", "handed"}
        /\ ClaimOf(StatusOfVerdict(V(d))) = "handed" => Handed(spool[d])
        /\ V(d) \notin {"SPOOLED", "UNKNOWN"} => ClaimOf(StatusOfVerdict(V(d))) = "nothing"
  BY VerdictForType, ClosingStates
<1>3. ~RecoveryCheckpoints(l, spool, blind) =>
        \A d \in Orphans(l) : V(d) \notin {"SPOOLED", "UNKNOWN"}
  BY DEF RecoveryCheckpoints
<1> HIDE DEF V
<1>4. \A d \in Deliveries : \A n \in AttemptNo : k.row[d][n] # "STARTED"
  BY <1>1, <1>2
<1>5. Orphans(k) = {}
  BY <1>4 DEF Orphans
<1>6. Orderly(k, m)
  <2>1. OneOpenIn(k) /\ OpenWaits(k)
    BY <1>4, <1>5 DEF OneOpenIn, OpenWaits
  <2>2. WithinBudget(k, m)
    BY <1>1, <1>2, <1>5 DEF WithinBudget, Orderly
  <2> QED
    BY <2>1, <2>2 DEF Orderly
<1>7. \A d \in Orphans(l) : /\ ClaimOf(a.status[d]) = "nothing" /\ a.status[d] # S_NONE
                            /\ d \in Deliveries
  <2>1. \A d \in Orphans(l) : /\ ClaimOf(l.status[d]) = "nothing" /\ l.status[d] # S_NONE
                              /\ d \in Deliveries
    BY DEF Orderly, OpenWaits, Waits, Orphans
  <2>2. \A s \in GatewayStates : ClaimOf(s) # "nothing"
    BY ClaimStates
  <2> QED
    BY <2>1, <2>2 DEF Drift
<1>8. ASSUME NEW d \in Deliveries PROVE Move(d, a, k)
  <2>1. CASE d \in Orphans(l)
    BY <1>1, <1>2, <1>7, <2>1 DEF Move, Promise!Moves
  <2>2. CASE d \notin Orphans(l)
    <3>1. k.status[d] = l.status[d] /\ Move(d, a, l)
      BY <1>1, <2>2, DriftMoves
    <3> QED
      BY <3>1 DEF Move
  <2> QED
    BY <2>1, <2>2
<1>9. ASSUME ~RecoveryCheckpoints(l, spool, blind) PROVE Drift(a, k)
  BY <1>1, <1>2, <1>3, <1>7, <1>9 DEF Drift
<1> QED
  BY <1>5, <1>6, <1>8, <1>9

\* The only open attempt of the ledger is the n-th of d.
OnlyOpen(l, d, n) ==
  \A e \in Deliveries : \A k \in AttemptNo :
    l.row[e][k] = "STARTED" <=> e = d /\ k = n

\* The dispatcher starts an attempt of a send that waits while no other
\* attempt is open.
LEMMA StartedEffect ==
  ASSUME NEW l \in Ledger, NEW m \in [Deliveries -> Nat], Orderly(l, m),
         Orphans(l) = {}, NEW d \in Deliveries, Waits(l, d),
         NEW n \in AttemptNo, n <= MaxAttempts + m[d],
         NEW k, k = Started(l, d, n)
  PROVE  /\ OnlyOpen(k, d, n) /\ Orderly(k, m)
         /\ k.status = l.status
<1>1. /\ k.status = l.status
      /\ k.count = [l.count EXCEPT ![d] = n]
      /\ k.row = [l.row EXCEPT ![d][n] = "STARTED"]
      /\ l.count \in [Deliveries -> 0..MaxRows]
      /\ l.row \in [Deliveries -> [AttemptNo -> AttemptStatus]]
  BY DEF Started, Ledger
<1>2. \A e \in Deliveries : \A j \in AttemptNo : l.row[e][j] # "STARTED"
  BY DEF Orphans
<1>3. OnlyOpen(k, d, n)
  BY <1>1, <1>2 DEF OnlyOpen
<1>4. Orphans(k) = {d}
  BY <1>3 DEF Orphans, OnlyOpen
<1>5. OneOpenIn(k) /\ OpenWaits(k)
  BY <1>1, <1>3, <1>4 DEF OnlyOpen, OneOpenIn, OpenWaits, Waits
<1>6. WithinBudget(k, m)
  <2> SUFFICES ASSUME NEW e \in Deliveries
               PROVE  /\ k.count[e] <= MaxAttempts + m[e]
                      /\ k.status[e] = S_NONE => k.count[e] = 0
                      /\ k.status[e] = S_PREPARED /\ e \notin Orphans(k) =>
                           k.count[e] < MaxAttempts + m[e]
    BY DEF WithinBudget
  <2>1. CASE e = d
    BY <1>1, <1>4, <2>1 DEF Waits
  <2>2. CASE e # d
    <3>1. k.count[e] = l.count[e] /\ k.status[e] = l.status[e] /\ e \notin Orphans(l)
      BY <1>1, <2>2
    <3> QED
      BY <3>1 DEF Orderly, WithinBudget
  <2> QED
    BY <2>1, <2>2
<1> QED
  BY <1>1, <1>3, <1>5, <1>6 DEF Orderly

\* _record_attempt closes the only open attempt and claims a handoff only
\* when the adapter made it.
LEMMA RecordedEffect ==
  ASSUME NEW l \in Ledger, NEW m \in [Deliveries -> Nat], Orderly(l, m),
         NEW d \in Deliveries, NEW n \in AttemptNo, OnlyOpen(l, d, n),
         NEW o \in Outcomes, o = "SPOOLED" => Handed(spool[d]),
         NEW k, k = Recorded(l, d, n, o),
         NEW a, Drift(a, l)
  PROVE  /\ Orphans(k) = {}
         /\ Orderly(k, m)
         /\ \A e \in Deliveries : Move(e, a, k)
         /\ \A e \in Deliveries \ {d} : k.status[e] = l.status[e]
<1> DEFINE s == StatusAfter(o, n)
<1>0. n \in Nat
  BY DEF AttemptNo
<1>1. /\ k.count = l.count
      /\ k.status = [l.status EXCEPT ![d] = s]
      /\ k.row = [l.row EXCEPT ![d][n] = AttemptAfter(o)]
      /\ l.row \in [Deliveries -> [AttemptNo -> AttemptStatus]]
      /\ l.status \in [Deliveries -> SendStatus]
  BY DEF Recorded, SetStatus, Ledger
<1>2. /\ AttemptAfter(o) # "STARTED"
      /\ s \notin {S_NONE, S_PREPARED}
      /\ ClaimOf(s) \in {"nothing", "unknown", "handed"}
      /\ ClaimOf(s) = "handed" => Handed(spool[d])
  BY <1>0, ClosingStates
<1> HIDE DEF s
<1>3. \A e \in Deliveries : \A j \in AttemptNo : k.row[e][j] # "STARTED"
  BY <1>1, <1>2 DEF OnlyOpen
<1>4. Orphans(k) = {} /\ Orphans(l) = {d}
  BY <1>3 DEF Orphans, OnlyOpen
<1>5. \A e \in Deliveries \ {d} : k.status[e] = l.status[e]
  BY <1>1
<1>6. k.status[d] = s
  BY <1>1
<1>7. Orderly(k, m)
  <2>1. OneOpenIn(k) /\ OpenWaits(k)
    BY <1>3, <1>4 DEF OneOpenIn, OpenWaits
  <2>2. WithinBudget(k, m)
    BY <1>1, <1>2, <1>4, <1>5, <1>6 DEF WithinBudget, Orderly
  <2> QED
    BY <2>1, <2>2 DEF Orderly
<1>8. ClaimOf(a.status[d]) = "nothing"
  <2>1. ClaimOf(l.status[d]) = "nothing"
    BY <1>4 DEF Orderly, OpenWaits, Waits
  <2>2. \A t \in GatewayStates : ClaimOf(t) # "nothing"
    BY ClaimStates
  <2> QED
    BY <2>1, <2>2 DEF Drift
<1>9. ASSUME NEW e \in Deliveries PROVE Move(e, a, k)
  <2>1. CASE e = d
    BY <1>2, <1>6, <1>8, <2>1 DEF Move, Promise!Moves
  <2>2. CASE e # d
    <3>1. k.status[e] = l.status[e] /\ Move(e, a, l)
      BY <1>5, <2>2, DriftMoves
    <3> QED
      BY <3>1 DEF Move
  <2> QED
    BY <2>1, <2>2
<1> QED
  BY <1>4, <1>5, <1>7, <1>9

----------------------------------------------------------------------------
(* Where the one dispatcher is, and what it may rely on there.             *)

\* It works through its snapshot.
InLoop(p) == \/ pc[p] \in {"loop", "deliver", "meta", "record"}
             \/ pc[p] = "gap" /\ resume[p] \in {"deliver", "loop"}

\* It has recovered the orphans and works on no attempt.
Recovering == {"receipts", "conflict", "scan", "loop"}

\* The sends left of a snapshot wait, in the transaction and in the
\* committed ledger, and their next attempt is within their budget.
PassQueue(p) ==
  /\ queue[p] # {} => p \in Dispatchers /\ InLoop(p)
  /\ Attempting(p) => cur[p] \notin queue[p]
  /\ \A d \in queue[p] : /\ base[p][d] < MaxAttempts + manual[d]
                         /\ Waits(db, d) /\ Waits(txn, d)
  /\ p \notin Dispatchers =>
       /\ pc[p] \in {"idle", "receipts", "conflict", "loop", "gap"}
       /\ pc[p] = "gap" => resume[p] = "loop"

\* The one attempt that is open is the dispatcher's own, if it makes one;
\* between its attempts none is.
PassRows(p) ==
  /\ pc[p] \in Recovering => Orphans(txn) = {}
  /\ pc[p] = "gap" /\ resume[p] \in Recovering => Orphans(txn) = {} /\ Orphans(db) = {}
  /\ Attempting(p) => /\ OnlyOpen(db, cur[p], base[p][cur[p]] + 1)
                      /\ OnlyOpen(txn, cur[p], base[p][cur[p]] + 1)

\* The attempts of a transaction are the committed ones, unless the
\* dispatcher has recovered orphans in it.
RowsAgree == \/ txn.row = db.row
             \/ \E p \in Dispatchers : holder = p /\ pc[p] \in Recovering

\* The inductive invariant of the single dispatcher, beside IInv.
SInv == /\ Orderly(db, manual) /\ Orderly(txn, manual)
        /\ Drift(db, txn)
        /\ \A p \in Procs : PassQueue(p)
        /\ \A p \in Dispatchers : PassRows(p)
        /\ RowsAgree

\* It holds before the first command.
LEMMA InitSInv == Init => SInv
<1> SUFFICES ASSUME Init PROVE SInv
  OBVIOUS
<1>1. /\ db = EmptyLedger /\ txn = EmptyLedger
      /\ manual \in [Deliveries -> Nat]
      /\ \A d \in Deliveries : /\ EmptyLedger.status[d] = S_NONE
                               /\ EmptyLedger.count[d] = 0
                               /\ \A n \in AttemptNo : EmptyLedger.row[d][n] = NoRow
      /\ \A d \in Deliveries : manual[d] = 0
  BY DEF Init, EmptyLedger
<1>2. S_NONE # S_PREPARED /\ NoRow # "STARTED"
  BY DEF S_NONE, S_PREPARED, NoRow
<1>3. Orphans(EmptyLedger) = {}
  BY <1>1, <1>2 DEF Orphans
<1>4. Orderly(EmptyLedger, manual)
  BY <1>1, <1>2, <1>3 DEF Orderly, OneOpenIn, OpenWaits, WithinBudget
<1>5. /\ \A p \in Procs : PassQueue(p)
      /\ \A p \in Dispatchers : PassRows(p)
  BY <1>1, <1>3 DEF Init, PassQueue, PassRows, InLoop, Attempting, Recovering
<1> QED
  BY <1>1, <1>4, <1>5 DEF SInv, Drift, RowsAgree

\* What a step leaves of the two ledgers.
TablesNext ==
  /\ Orderly(db', manual') /\ Orderly(txn', manual')
  /\ Drift(db', txn')
  /\ \A d \in Deliveries : Move(d, db, db')
  /\ \A p \in Dispatchers : \A d \in queue[p] : Waits(db', d) /\ Waits(txn', d)

\* A step that commits the transaction, drops it, or leaves both as they are.
LEMMA PlainTables ==
  ASSUME SInv, manual' = manual,
         \/ db' = db /\ txn' = txn
         \/ db' = db /\ txn' = db
         \/ db' = txn /\ txn' = txn
  PROVE  TablesNext
<1>1. Drift(db, db) /\ Drift(txn, txn)
  BY DEF Drift
<1>2. \A d \in Deliveries : Move(d, db, db) /\ Move(d, db, txn)
  BY <1>1, DriftMoves DEF SInv
<1>3. \A p \in Dispatchers : \A d \in queue[p] : Waits(db, d) /\ Waits(txn, d)
  BY DEF SInv, PassQueue
<1> QED
  BY <1>1, <1>2, <1>3 DEF TablesNext, SInv

\* A receipt taken into the open transaction.
LEMMA ReceiptTables ==
  ASSUME TypeOK, SInv, manual' = manual, db' = db, NEW f \in box,
         txn' = Ingested(txn, f) \/ txn' = Quarantined(txn, f)
  PROVE  TablesNext /\ txn'.row = txn.row
<1>0. /\ txn \in Ledger /\ f \in ReceiptFile /\ manual \in [Deliveries -> Nat]
      /\ \A d \in Deliveries : manual[d] <= manual[d]
  BY DEF TypeOK
<1>1. /\ txn'.row = txn.row /\ txn'.count = txn.count
      /\ \A d \in Deliveries :
           \/ txn'.status[d] = txn.status[d]
           \/ txn.status[d] = S_SPOOLED /\ txn'.status[d] \in GatewayStates
  BY <1>0, IngestedEffect
<1>2. Gentle(txn, txn', manual)
  BY <1>1, AnswersGentle
<1>3. Orderly(txn', manual)
  BY <1>0, <1>2, GentleOrderly DEF SInv
<1>4. Drift(db, txn')
  <2>1. /\ S_SPOOLED # S_NONE /\ S_NONE \notin GatewayStates
        /\ S_SPOOLED \notin GatewayStates
    BY DEF GatewayStates, S_SPOOLED, S_NONE, S_GATEWAY_ACCEPTED, S_GATEWAY_REJECTED
  <2>2. \A s : ClaimOf(s) = ClaimOf(S_SPOOLED) => s = S_SPOOLED
    BY ClaimStates
  <2> QED
    BY <1>1, <2>1, <2>2 DEF SInv, Drift
<1>5. \A d \in Deliveries : Move(d, db, db)
  BY DEF Move, Promise!Moves
<1>6. \A p \in Dispatchers : \A d \in queue[p] :
        d \in Deliveries /\ Waits(db, d) /\ Waits(txn, d)
  BY DEF SInv, PassQueue, TypeOK
<1>7. \A p \in Dispatchers : \A d \in queue[p] : Waits(db, d) /\ Waits(txn', d)
  BY <1>2, <1>6, GentleWaits
<1> QED
  BY <1>1, <1>3, <1>4, <1>5, <1>7 DEF TablesNext, SInv

\* An operator's command.
LEMMA CommandTables ==
  ASSUME TypeOK, TypeOK', SInv, NEW l, db' = l, txn' = l,
         \A d \in Deliveries : manual[d] <= manual'[d],
         Gentle(db, l, manual'), \A d \in Deliveries : Move(d, db, l)
  PROVE  TablesNext /\ txn'.row = db.row /\ db'.row = db.row
<1>0. /\ db \in Ledger /\ manual \in [Deliveries -> Nat] /\ manual' \in [Deliveries -> Nat]
  BY DEF TypeOK
<1>1. Orderly(l, manual')
  BY <1>0, GentleOrderly DEF SInv
<1>2. Drift(l, l)
  BY DEF Drift
<1>3. \A p \in Dispatchers : \A d \in queue[p] : d \in Deliveries /\ Waits(db, d)
  BY DEF SInv, PassQueue, TypeOK
<1>4. \A p \in Dispatchers : \A d \in queue[p] : Waits(l, d)
  BY <1>3, GentleWaits
<1> QED
  BY <1>1, <1>2, <1>4 DEF TablesNext, Gentle

\* The operator's commands, one by one.
LEMMA OperatorTables ==
  ASSUME TypeOK, TypeOK', SInv, Operator
  PROVE  /\ TablesNext /\ txn'.row = db.row /\ db'.row = db.row
         /\ holder = Nobody /\ holder' = Nobody
         /\ \A d \in Deliveries : manual[d] <= manual'[d]
<1>0. /\ db \in Ledger /\ manual \in [Deliveries -> Nat] /\ WithinBudget(db, manual)
  BY DEF TypeOK, SInv, Orderly
<1>1. ASSUME NEW c \in Contents, SendPrepare(c)
      PROVE  /\ TablesNext /\ txn'.row = db.row /\ db'.row = db.row
             /\ holder = Nobody /\ holder' = Nobody /\ manual' = manual
  <2>1. /\ db' = Prepared(db, c) /\ txn' = Prepared(db, c)
        /\ manual' = manual /\ holder = Nobody /\ holder' = Nobody
    BY <1>1 DEF SendPrepare, Command, Commit
  <2>2. \A d \in Deliveries : manual[d] <= manual'[d]
    BY <1>0, <2>1
  <2>3. /\ Gentle(db, Prepared(db, c), manual')
        /\ \A d \in Deliveries : Move(d, db, Prepared(db, c))
    BY <1>0, <2>1, PreparedEffect
  <2> QED
    BY <2>1, <2>2, <2>3, CommandTables
<1>2. ASSUME NEW d \in Deliveries, NEW force \in BOOLEAN, SendRetry(d, force)
      PROVE  /\ TablesNext /\ txn'.row = db.row /\ db'.row = db.row
             /\ holder = Nobody /\ holder' = Nobody
             /\ \A e \in Deliveries : manual[e] <= manual'[e]
  <2>1. /\ db' = Retried(db, d) /\ txn' = Retried(db, d) /\ MayRetry(db, d, force)
        /\ manual' = [manual EXCEPT ![d] = @ + 1]
        /\ holder = Nobody /\ holder' = Nobody
    BY <1>2 DEF SendRetry, Command, Commit
  <2>2. \A e \in Deliveries : manual[e] <= manual'[e]
    BY <1>0, <2>1
  <2>3. /\ Gentle(db, Retried(db, d), manual')
        /\ \A e \in Deliveries : Move(e, db, Retried(db, d))
    BY <1>0, <2>1, RetriedEffect
  <2> QED
    BY <2>1, <2>2, <2>3, CommandTables
<1>3. ASSUME NEW d \in Deliveries, SendAbandon(d)
      PROVE  /\ TablesNext /\ txn'.row = db.row /\ db'.row = db.row
             /\ holder = Nobody /\ holder' = Nobody /\ manual' = manual
  <2>1. /\ db' = Abandoned(db, d) /\ txn' = Abandoned(db, d) /\ MayAbandon(db, d)
        /\ manual' = manual /\ holder = Nobody /\ holder' = Nobody
    BY <1>3 DEF SendAbandon, Command, Commit
  <2>2. \A e \in Deliveries : manual[e] <= manual'[e]
    BY <1>0, <2>1
  <2>3. /\ Gentle(db, Abandoned(db, d), manual')
        /\ \A e \in Deliveries : Move(e, db, Abandoned(db, d))
    BY <1>0, <2>1, AbandonedEffect
  <2> QED
    BY <2>1, <2>2, <2>3, CommandTables
<1>4. ASSUME NEW f \in FinDocs, SendIngestFin(f)
      PROVE  /\ TablesNext /\ txn'.row = db.row /\ db'.row = db.row
             /\ holder = Nobody /\ holder' = Nobody /\ manual' = manual
  <2>1. PICK l \in FinIngested(db, f) : Command(l)
    BY <1>4 DEF SendIngestFin
  <2>2. /\ db' = l /\ txn' = l /\ manual' = manual /\ holder = Nobody /\ holder' = Nobody
    BY <1>4, <2>1 DEF SendIngestFin, Command, Commit
  <2>3. \A e \in Deliveries : manual[e] <= manual'[e]
    BY <1>0, <2>2
  <2>4. Gentle(db, l, manual') /\ \A e \in Deliveries : Move(e, db, l)
    BY <1>0, FinMoves
  <2> QED
    BY <2>2, <2>3, <2>4, CommandTables
<1>5. manual' = manual => \A e \in Deliveries : manual[e] <= manual'[e]
  BY <1>0
<1> QED
  BY <1>1, <1>2, <1>3, <1>4, <1>5 DEF Operator

\* Orphan recovery: the dispatcher has no snapshot yet, and afterwards no
\* attempt is open.
LEMMA RecoverTables ==
  ASSUME TypeOK, SInv, OneDispatcher, NEW p \in Procs, Recover(p)
  PROVE  /\ TablesNext /\ Orphans(txn') = {}
         /\ p \in Dispatchers
         /\ queue[p] = {} /\ queue' = queue /\ base' = base /\ cur' = cur
         /\ manual' = manual
         /\ \/ /\ db' = txn' /\ pc' = [pc EXCEPT ![p] = "gap"]
               /\ resume' = [resume EXCEPT ![p] = "receipts"]
            \/ /\ pc' = [pc EXCEPT ![p] = "receipts"] /\ holder' = p
<1>0. /\ txn \in Ledger /\ spool \in [Deliveries -> Entry]
      /\ manual \in [Deliveries -> Nat]
      /\ Orderly(txn, manual) /\ Orderly(db, manual) /\ Drift(db, txn)
  BY DEF TypeOK, SInv
<1>1. pc[p] = "orphans" /\ holder = p
  BY DEF Recover, At
<1>2. p \in Dispatchers /\ queue[p] = {}
  BY <1>1 DEF SInv, PassQueue, InLoop
<1>3. /\ queue' = queue /\ base' = base /\ cur' = cur /\ manual' = manual
  BY DEF Recover
<1>4. PICK blind \in SUBSET Orphans(txn) :
        IF RecoveryCheckpoints(txn, spool, blind)
        THEN Checkpoint(p, Recovered(txn, spool, blind), "receipts")
        ELSE /\ txn' = Recovered(txn, spool, blind)
             /\ Goto(p, "receipts")
             /\ UNCHANGED <<db, holder, resume>>
  BY DEF Recover
<1>5. txn' = Recovered(txn, spool, blind)
  BY <1>4 DEF Checkpoint, Commit
<1>6. /\ Orphans(txn') = {} /\ Orderly(txn', manual)
      /\ \A d \in Deliveries : Move(d, db, txn')
      /\ ~RecoveryCheckpoints(txn, spool, blind) => Drift(db, txn')
  BY <1>0, <1>5, RecoveredEffect
<1>7. \A q \in Dispatchers : queue[q] = {}
  BY <1>2 DEF OneDispatcher
<1>8. CASE RecoveryCheckpoints(txn, spool, blind)
  <2>1. /\ db' = txn' /\ pc' = [pc EXCEPT ![p] = "gap"]
        /\ resume' = [resume EXCEPT ![p] = "receipts"]
    BY <1>4, <1>5, <1>8 DEF Checkpoint, Commit, Goto
  <2>2. Drift(db', txn')
    BY <2>1 DEF Drift
  <2> QED
    BY <1>2, <1>3, <1>6, <1>7, <2>1, <2>2 DEF TablesNext
<1>9. CASE ~RecoveryCheckpoints(txn, spool, blind)
  <2>1. db' = db /\ pc' = [pc EXCEPT ![p] = "receipts"] /\ holder' = p
    BY <1>1, <1>4, <1>9 DEF Goto
  <2>2. \A d \in Deliveries : Move(d, db, db)
    BY DEF Move, Promise!Moves
  <2> QED
    BY <1>0, <1>2, <1>3, <1>6, <1>7, <1>9, <2>1, <2>2 DEF TablesNext
<1> QED
  BY <1>8, <1>9

\* The dispatcher opens the attempt it goes on to make.
LEMMA StartAttemptTables ==
  ASSUME TypeOK, SInv, OneDispatcher, NEW p \in Procs, NEW d \in Deliveries,
         StartAttempt(p, d)
  PROVE  /\ TablesNext /\ db' = txn'
         /\ p \in Dispatchers
         /\ OnlyOpen(txn', d, base[p][d] + 1)
         /\ cur' = [cur EXCEPT ![p] = d] /\ base' = base /\ manual' = manual
         /\ queue' = [queue EXCEPT ![p] = @ \ {d}] /\ d \in queue[p]
         /\ pc' = [pc EXCEPT ![p] = "gap"]
         /\ resume' = [resume EXCEPT ![p] = "deliver"]
<1> DEFINE n == base[p][d] + 1
<1>0. /\ txn \in Ledger /\ manual \in [Deliveries -> Nat]
      /\ Orderly(txn, manual) /\ Drift(db, txn)
  BY DEF TypeOK, SInv
<1>1. /\ pc[p] = "loop" /\ d \in queue[p] /\ base[p][d] < MaxRows
      /\ cur' = [cur EXCEPT ![p] = d] /\ base' = base /\ manual' = manual
      /\ queue' = [queue EXCEPT ![p] = @ \ {d}]
      /\ pc' = [pc EXCEPT ![p] = "gap"]
      /\ resume' = [resume EXCEPT ![p] = "deliver"]
      /\ txn' = Started(txn, d, n) /\ db' = Started(txn, d, n)
  BY DEF StartAttempt, At, Checkpoint, Commit, Goto
<1>2. /\ p \in Dispatchers
      /\ base[p][d] < MaxAttempts + manual[d] /\ Waits(txn, d) /\ Waits(db, d)
  BY <1>1 DEF SInv, PassQueue
<1>3. Orphans(txn) = {}
  BY <1>1, <1>2 DEF SInv, PassRows, Recovering
<1>4. base[p][d] \in 0..MaxRows /\ manual[d] \in Nat
  BY <1>0 DEF TypeOK
<1>5. n \in AttemptNo /\ n <= MaxAttempts + manual[d]
  BY <1>1, <1>2, <1>4 DEF AttemptNo
<1> HIDE DEF n
<1>6. OnlyOpen(txn', d, n) /\ Orderly(txn', manual) /\ txn'.status = txn.status
  BY <1>0, <1>1, <1>2, <1>3, <1>5, StartedEffect
<1>7. Drift(db', txn')
  BY <1>1 DEF Drift
<1>8. \A e \in Deliveries : Move(e, db, db')
  <2>1. \A e \in Deliveries : Move(e, db, txn)
    BY <1>0, DriftMoves
  <2> QED
    BY <1>1, <1>6, <2>1 DEF Move
<1>9. \A q \in Dispatchers : \A e \in queue[q] : Waits(db', e) /\ Waits(txn', e)
  BY <1>1, <1>6 DEF SInv, PassQueue, Waits
<1> QED
  BY <1>1, <1>2, <1>6, <1>7, <1>8, <1>9 DEF TablesNext, n

\* The dispatcher closes its attempt with the adapter's answer.
LEMMA RecordTables ==
  ASSUME TypeOK, IInv, SInv, OneDispatcher, NEW p \in Procs, Record(p)
  PROVE  /\ TablesNext /\ db' = txn' /\ Orphans(txn') = {}
         /\ p \in Dispatchers
         /\ base' = base /\ manual' = manual /\ queue' = queue
         /\ pc' = [pc EXCEPT ![p] = "gap"]
         /\ resume' = [resume EXCEPT ![p] = "loop"]
<1> DEFINE n == base[p][cur[p]] + 1
<1>0. /\ txn \in Ledger /\ manual \in [Deliveries -> Nat]
      /\ Orderly(txn, manual) /\ Drift(db, txn)
  BY DEF TypeOK, SInv
<1>1. /\ pc[p] = "record"
      /\ base' = base /\ manual' = manual /\ queue' = queue
      /\ pc' = [pc EXCEPT ![p] = "gap"]
      /\ resume' = [resume EXCEPT ![p] = "loop"]
      /\ txn' = Recorded(txn, cur[p], n, out[p]) /\ db' = Recorded(txn, cur[p], n, out[p])
  BY DEF Record, At, Checkpoint, Commit, Goto
<1>2. /\ cur[p] \in Deliveries
      /\ out[p] \in Outcomes
      /\ out[p] = "SPOOLED" => Handed(spool[cur[p]])
      /\ base[p][cur[p]] < db.count[cur[p]]
  BY <1>1 DEF IInv, SnapshotBehind, AdapterProgress, Attempting
<1>3. base[p][cur[p]] \in 0..MaxRows /\ db.count[cur[p]] \in 0..MaxRows
  BY <1>2 DEF TypeOK, Ledger
<1>4. n \in AttemptNo
  BY <1>2, <1>3 DEF AttemptNo
<1>5. p \in Dispatchers
  BY <1>1 DEF SInv, PassQueue
<1>6. OnlyOpen(txn, cur[p], n) /\ cur[p] \notin queue[p]
  BY <1>1, <1>5 DEF SInv, PassRows, PassQueue, Attempting
<1> HIDE DEF n
<1>7. /\ Orphans(txn') = {} /\ Orderly(txn', manual)
      /\ \A e \in Deliveries : Move(e, db, txn')
      /\ \A e \in Deliveries \ {cur[p]} : txn'.status[e] = txn.status[e]
  BY <1>0, <1>1, <1>2, <1>4, <1>6, RecordedEffect
<1>8. db' = txn'
  BY <1>1
<1>9. Drift(db', txn')
  BY <1>8 DEF Drift
<1>10. \A q \in Dispatchers : \A e \in queue[q] : Waits(db', e) /\ Waits(txn', e)
  <2> SUFFICES ASSUME NEW q \in Dispatchers, NEW e \in queue[q] PROVE Waits(txn', e)
    BY <1>8
  <2>1. q = p /\ q \in Procs
    BY <1>5 DEF OneDispatcher
  <2>2. e \in Deliveries /\ e # cur[p] /\ Waits(txn, e)
    BY <1>6, <2>1 DEF SInv, PassQueue, TypeOK
  <2> QED
    BY <1>7, <2>2 DEF Waits
<1> QED
  BY <1>1, <1>5, <1>7, <1>8, <1>9, <1>10 DEF TablesNext

\* Every step leaves the ledgers in order and moves claims as it may.
LEMMA TablesStep ==
  ASSUME TypeOK, TypeOK', IInv, SInv, OneDispatcher, Next
  PROVE  TablesNext
<1>1. ASSUME NEW p \in Procs, Recover(p) PROVE TablesNext
  BY <1>1, RecoverTables
<1>2. ASSUME NEW p \in Procs, NEW d \in Deliveries, StartAttempt(p, d) PROVE TablesNext
  BY <1>2, StartAttemptTables
<1>3. ASSUME NEW p \in Procs, Record(p) PROVE TablesNext
  BY <1>3, RecordTables
<1>4. ASSUME Operator PROVE TablesNext
  BY <1>4, OperatorTables
<1>5. ASSUME NEW p \in Procs, NEW f \in box,
             Ingest(p, f) \/ QuarantineAck(p, f) \/ QuarantineNak(p, f)
      PROVE  TablesNext
  BY <1>5, ReceiptTables DEF Ingest, QuarantineAck, QuarantineNak, Take
<1>6. ASSUME NEW p \in Procs,
             \/ Start(p) \/ Reacquire(p) \/ LockLost(p) \/ Scan(p)
             \/ Deliver(p) \/ WriteMeta(p) \/ (\E f : ReceiptArrives(f))
      PROVE  TablesNext
  <2>1. db' = db /\ txn' = txn /\ manual' = manual
    BY <1>6 DEF Start, Acquire, Reacquire, Regain, LockLost, Lose, Scan, Deliver,
                WriteMeta, Answer, ReceiptArrives
  <2> QED
    BY <2>1, PlainTables
<1>7. ASSUME NEW p \in Procs,
             \/ EndReceipts(p) \/ Finish(p) \/ Crash(p)
             \/ \E d \in Deliveries : AttemptTaken(p, d)
      PROVE  TablesNext
  <2>1. /\ manual' = manual
        /\ \/ db' = db /\ txn' = txn
           \/ db' = db /\ txn' = db
           \/ db' = txn /\ txn' = txn
    BY <1>7 DEF EndReceipts, Finish, Crash, Die, AttemptTaken, Checkpoint, Release,
                Yield, Commit
  <2> QED
    BY <2>1, PlainTables
<1>8. ASSUME NEW f, ReceiptArrives(f) PROVE TablesNext
  BY <1>8, PlainTables DEF ReceiptArrives
<1> QED
  BY <1>1, <1>2, <1>3, <1>4, <1>5, <1>6, <1>7, <1>8 DEF Next, Step

\* A step of one pass leaves the snapshots of the others alone.
LEMMA QueueKept ==
  ASSUME TypeOK, NEW q \in Procs,
         \/ \E p \in Procs \ {q} : Step(p) \/ LockLost(p) \/ Crash(p)
         \/ Operator
         \/ \E f : ReceiptArrives(f)
  PROVE  queue'[q] = queue[q]
<1> USE DEF TypeOK
<1>1. ASSUME NEW p \in Procs \ {q}, Step(p) \/ LockLost(p) \/ Crash(p)
      PROVE  queue'[q] = queue[q]
  <2>1. CASE \/ Start(p) \/ Reacquire(p) \/ Recover(p) \/ EndReceipts(p)
             \/ Deliver(p) \/ WriteMeta(p) \/ Record(p)
             \/ \E f \in box : Ingest(p, f) \/ QuarantineAck(p, f) \/ QuarantineNak(p, f)
    BY <2>1 DEF Start, Reacquire, Recover, EndReceipts, Deliver, WriteMeta, Answer,
                Record, Ingest, QuarantineAck, QuarantineNak
  <2>2. CASE Scan(p) \/ \E d \in Deliveries : StartAttempt(p, d)
    BY <2>2 DEF Scan, StartAttempt
  <2>3. CASE \/ Finish(p) \/ LockLost(p) \/ Crash(p)
             \/ \E d \in Deliveries : AttemptTaken(p, d)
    BY <2>3 DEF Finish, LockLost, Crash, AttemptTaken, Release, Forget
  <2> QED
    BY <1>1, <2>1, <2>2, <2>3 DEF Step
<1>2. CASE Operator \/ \E f : ReceiptArrives(f)
  BY <1>2 DEF Operator, SendPrepare, SendRetry, SendAbandon, SendIngestFin, Command,
              ReceiptArrives, pass
<1> QED
  BY <1>1, <1>2

\* What a poller, an operator or the gateway does to the attempts: nothing,
\* except that a commit or a crash makes the transaction and the committed
\* ledger agree; and nothing at all while the dispatcher holds the lock.
LEMMA BystandersRows ==
  ASSUME TypeOK, TypeOK', SInv,
         \/ \E q \in Procs \ Dispatchers : Step(q) \/ LockLost(q) \/ Crash(q)
         \/ Operator
         \/ \E f : ReceiptArrives(f)
  PROVE  /\ db'.row \in {db.row, txn.row} /\ txn'.row \in {db.row, txn.row}
         /\ \A d \in Deliveries : manual[d] <= manual'[d]
         /\ holder \in Dispatchers => db' = db /\ txn' = txn /\ holder' = holder
<1>0. \A d \in Deliveries : manual[d] \in Nat
  BY DEF TypeOK
<1>1. ASSUME NEW q \in Procs \ Dispatchers, Step(q) \/ LockLost(q) \/ Crash(q)
      PROVE  /\ db'.row \in {db.row, txn.row} /\ txn'.row \in {db.row, txn.row}
             /\ manual' = manual
             /\ holder \in Dispatchers => db' = db /\ txn' = txn /\ holder' = holder
  <2>1. queue[q] = {} /\ pc[q] \in {"idle", "receipts", "conflict", "loop", "gap"}
    BY DEF SInv, PassQueue
  <2>2. CASE \E f \in box : Ingest(q, f) \/ QuarantineAck(q, f) \/ QuarantineNak(q, f)
    <3>1. PICK f \in box : Ingest(q, f) \/ QuarantineAck(q, f) \/ QuarantineNak(q, f)
      BY <2>2
    <3>2. /\ db' = db /\ manual' = manual /\ holder = q
          /\ txn' = Ingested(txn, f) \/ txn' = Quarantined(txn, f)
      BY <3>1 DEF Ingest, QuarantineAck, QuarantineNak, Take, At
    <3>3. txn'.row = txn.row
      BY <3>2, ReceiptTables
    <3> QED
      BY <3>2, <3>3
  <2>3. CASE Start(q) \/ Reacquire(q) \/ LockLost(q)
    BY <2>3 DEF Start, Acquire, Reacquire, Regain, LockLost, Lose
  <2>4. CASE EndReceipts(q) \/ Finish(q) \/ Crash(q)
    BY <2>4 DEF EndReceipts, Finish, Crash, Die, Checkpoint, Release, Yield, Commit, At
  <2>5. CASE \/ Recover(q) \/ Scan(q) \/ Deliver(q) \/ WriteMeta(q) \/ Record(q)
             \/ \E d \in Deliveries : StartAttempt(q, d) \/ AttemptTaken(q, d)
    BY <2>1, <2>5 DEF Recover, Scan, Deliver, WriteMeta, Record, StartAttempt,
                      AttemptTaken, At
  <2> QED
    BY <1>1, <2>2, <2>3, <2>4, <2>5 DEF Step
<1>2. CASE Operator
  BY <1>2, OperatorTables
<1>3. ASSUME NEW f, ReceiptArrives(f)
      PROVE  db' = db /\ txn' = txn /\ manual' = manual /\ holder' = holder
  BY <1>3 DEF ReceiptArrives
<1>4. manual' = manual => \A d \in Deliveries : manual[d] <= manual'[d]
  BY <1>0
<1> QED
  BY <1>1, <1>2, <1>3, <1>4

\* The snapshot of a pass whose locals stay.
LEMMA QueueStays ==
  ASSUME TypeOK, SInv, TablesNext, NEW p \in Procs, Keeps(p), queue'[p] = queue[p],
         \A d \in Deliveries : manual[d] \in Nat /\ manual'[d] \in Nat
                               /\ manual[d] <= manual'[d]
  PROVE  PassQueue(p)'
<1>1. \A d \in queue[p] : d \in Deliveries /\ base[p][d] \in Nat
  BY DEF TypeOK
<1>2. \A d \in queue[p] : Waits(db', d) /\ Waits(txn', d)
  BY DEF TablesNext, SInv, PassQueue
<1>3. \A d \in queue[p] : base[p][d] < MaxAttempts + manual'[d]
  BY <1>1 DEF SInv, PassQueue
<1> QED
  BY <1>2, <1>3 DEF SInv, PassQueue, Keeps, InLoop, Attempting, Waits

\* While the others work, the dispatcher's place stays good.
LEMMA DispatcherWaits ==
  ASSUME TypeOK, TypeOK', LockHeld, SInv, TablesNext, NEW p \in Dispatchers,
         OneDispatcher,
         \/ \E q \in Procs \ {p} : Step(q) \/ LockLost(q) \/ Crash(q)
         \/ Operator
         \/ \E f : ReceiptArrives(f)
  PROVE  PassQueue(p)' /\ PassRows(p)'
<1>1. Keeps(p) /\ queue'[p] = queue[p]
  BY OthersKeep, BystandersKeep, QueueKept
<1>2. \A q \in Procs \ {p} : q \notin Dispatchers
  BY DEF OneDispatcher
<1>3. /\ db'.row \in {db.row, txn.row} /\ txn'.row \in {db.row, txn.row}
      /\ \A d \in Deliveries : manual[d] <= manual'[d]
      /\ holder = p => db' = db /\ txn' = txn
  BY <1>2, BystandersRows
<1>4. \A d \in Deliveries : manual[d] \in Nat /\ manual'[d] \in Nat
  BY DEF TypeOK
<1>5. PassQueue(p)'
  BY <1>1, <1>3, <1>4, QueueStays
<1>6. PassRows(p)'
  <2>1. pc[p] \in Recovering => holder = p
    BY DEF LockHeld, Recovering
  <2> QED
    BY <1>1, <1>3, <2>1 DEF SInv, PassRows, Keeps, Attempting, OnlyOpen, Orphans,
                            Recovering
<1> QED
  BY <1>5, <1>6

\* A poller has no snapshot and goes from the receipts to its end.
LEMMA PollerStep ==
  ASSUME TypeOK, SInv, NEW p \in Procs \ Dispatchers, Next
  PROVE  PassQueue(p)'
<1> SUFFICES /\ queue'[p] = {}
             /\ pc'[p] \in {"idle", "receipts", "conflict", "loop", "gap"}
             /\ pc'[p] = "gap" => resume'[p] = "loop"
  BY DEF PassQueue
<1>1. /\ queue[p] = {} /\ pc[p] \in {"idle", "receipts", "conflict", "loop", "gap"}
      /\ pc[p] = "gap" => resume[p] = "loop"
  BY DEF SInv, PassQueue
<1>2. ASSUME \/ \E q \in Procs \ {p} : Step(q) \/ LockLost(q) \/ Crash(q)
             \/ Operator
             \/ \E f : ReceiptArrives(f)
      PROVE  queue'[p] = queue[p] /\ pc'[p] = pc[p] /\ resume'[p] = resume[p]
  BY <1>2, OthersKeep, BystandersKeep, QueueKept DEF Keeps
<1>3. CASE Start(p) \/ Reacquire(p)
  BY <1>1, <1>3 DEF Start, Acquire, Reacquire, Regain, Goto, At, TypeOK
<1>4. CASE \E f \in box : Ingest(p, f) \/ QuarantineAck(p, f) \/ QuarantineNak(p, f)
  BY <1>1, <1>4 DEF Ingest, QuarantineAck, QuarantineNak, Goto, At, TypeOK
<1>5. CASE EndReceipts(p)
  BY <1>1, <1>5 DEF EndReceipts, Checkpoint, Goto, TypeOK
<1>6. CASE Finish(p) \/ LockLost(p) \/ Crash(p)
  BY <1>6 DEF Finish, LockLost, Lose, Crash, Die, Release, Yield, Leave, Forget, TypeOK
<1>7. CASE \/ Recover(p) \/ Scan(p) \/ Deliver(p) \/ WriteMeta(p) \/ Record(p)
           \/ \E d \in Deliveries : StartAttempt(p, d) \/ AttemptTaken(p, d)
  BY <1>1, <1>7 DEF Recover, Scan, Deliver, WriteMeta, Record, StartAttempt,
                    AttemptTaken, At
<1> QED
  BY <1>1, <1>2, <1>3, <1>4, <1>5, <1>6, <1>7 DEF Next, Step

\* The snapshot holds sends that wait and have an attempt left.
LEMMA ScanStep ==
  ASSUME TypeOK, SInv, NEW p \in Dispatchers, Scan(p)
  PROVE  PassQueue(p)' /\ PassRows(p)'
<1>1. /\ pc[p] = "scan" /\ holder = p
      /\ pc'[p] = "loop" /\ resume'[p] = resume[p]
      /\ base'[p] = txn.count /\ db' = db /\ txn' = txn /\ manual' = manual
  BY DEF Scan, At, Goto, TypeOK
<1>2. PICK elapsed \in SUBSET {d \in Deliveries : txn.wait[d]} :
        \A d \in queue'[p] : d \in Deliveries /\ Eligible(txn, d, elapsed)
  <2>1. PICK elapsed \in SUBSET {d \in Deliveries : txn.wait[d]},
             only \in {Deliveries} \cup {{d} : d \in Deliveries} :
          queue' = [queue EXCEPT ![p] = {d \in only : Eligible(txn, d, elapsed)}]
    BY DEF Scan
  <2>2. queue'[p] = {d \in only : Eligible(txn, d, elapsed)} /\ only \subseteq Deliveries
    BY <2>1 DEF TypeOK
  <2> QED
    BY <2>2
<1>3. Orphans(txn) = {}
  BY <1>1 DEF SInv, PassRows, Recovering
<1>4. ASSUME NEW d \in queue'[p]
      PROVE  txn.count[d] < MaxAttempts + manual[d] /\ Waits(db, d) /\ Waits(txn, d)
  <2>1. /\ d \in Deliveries
        /\ \/ txn.status[d] = S_PREPARED
           \/ txn.status[d] = S_FAILED_RETRYABLE /\ txn.count[d] < MaxAttempts
    BY <1>2 DEF Eligible
  <2>2. manual[d] \in Nat /\ txn.count[d] \in Nat
    BY <2>1 DEF TypeOK, Ledger
  <2>3. txn.count[d] < MaxAttempts + manual[d]
    BY <1>3, <2>1, <2>2 DEF SInv, Orderly, WithinBudget
  <2>4. Waits(txn, d)
    BY <2>1, ClaimStates DEF Waits, S_PREPARED, S_FAILED_RETRYABLE, S_NONE
  <2>5. \A s \in GatewayStates : ClaimOf(s) # "nothing"
    BY ClaimStates
  <2>6. Waits(db, d)
    BY <2>1, <2>4, <2>5 DEF SInv, Drift, Waits
  <2> QED
    BY <2>3, <2>4, <2>6
<1>5. PassQueue(p)'
  <2>1. ~Attempting(p)' /\ InLoop(p)'
    BY <1>1 DEF Attempting, InLoop
  <2>2. \A d \in queue'[p] : /\ base'[p][d] < MaxAttempts + manual'[d]
                             /\ Waits(db', d) /\ Waits(txn', d)
    BY <1>1, <1>4
  <2> QED
    BY <2>1, <2>2 DEF PassQueue, Waits
<1>6. PassRows(p)'
  BY <1>1, <1>3 DEF PassRows, Recovering, Attempting, Orphans
<1> QED
  BY <1>5, <1>6

\* The dispatcher's own steps keep its place good and the ledgers agreeing.
LEMMA DispatcherStep ==
  ASSUME TypeOK, TypeOK', IInv, SInv, OneDispatcher, TablesNext,
         NEW p \in Dispatchers, Step(p) \/ LockLost(p) \/ Crash(p)
  PROVE  PassQueue(p)' /\ PassRows(p)' /\ RowsAgree'
<1>0. p \in Procs /\ p # Nobody
  OBVIOUS
<1>1. pc[p] \notin Recovering \/ holder # p => txn.row = db.row
  BY DEF SInv, RowsAgree, OneDispatcher
<1>2. CASE Start(p)
  <2>1. /\ pc[p] = "idle" /\ holder = Nobody /\ holder' = p /\ pc'[p] = "orphans"
        /\ db' = db /\ txn' = txn /\ queue' = queue
    BY <1>2 DEF Start, Acquire, At, Goto, TypeOK
  <2>2. queue'[p] = {}
    BY <2>1 DEF SInv, PassQueue, InLoop
  <2> QED
    BY <1>0, <1>1, <2>1, <2>2 DEF PassQueue, PassRows, RowsAgree, Attempting, Recovering
<1>3. CASE Reacquire(p)
  <2>1. /\ pc[p] = "gap" /\ holder = Nobody /\ holder' = p /\ pc'[p] = resume[p]
        /\ db' = db /\ txn' = txn /\ queue' = queue /\ base' = base /\ cur' = cur
        /\ manual' = manual /\ resume[p] \in Resumes
    BY <1>3 DEF Reacquire, Regain, At, Goto, TypeOK
  <2>2. /\ resume[p] \in Recovering => Orphans(txn) = {}
        /\ Attempting(p)' => Attempting(p)
        /\ InLoop(p) => InLoop(p)'
    BY <2>1 DEF SInv, PassRows, Attempting, InLoop, Resumes
  <2>3. PassQueue(p)'
    BY <2>1, <2>2 DEF SInv, PassQueue, Waits
  <2>4. PassRows(p)'
    BY <2>1, <2>2 DEF SInv, PassRows, Orphans, OnlyOpen, Recovering, Resumes
  <2>5. RowsAgree'
    BY <1>0, <1>1, <2>1 DEF RowsAgree
  <2> QED
    BY <2>3, <2>4, <2>5
<1>4. CASE Recover(p)
  <2>1. /\ Orphans(txn') = {} /\ queue'[p] = {}
        /\ \/ db' = txn' /\ pc'[p] = "gap" /\ resume'[p] = "receipts"
           \/ pc'[p] = "receipts" /\ holder' = p
    BY <1>4, RecoverTables DEF TypeOK
  <2> QED
    BY <2>1 DEF PassQueue, PassRows, RowsAgree, Attempting, Recovering, Orphans
<1>5. CASE \E f \in box : Ingest(p, f) \/ QuarantineAck(p, f) \/ QuarantineNak(p, f)
  <2>1. PICK f \in box : Ingest(p, f) \/ QuarantineAck(p, f) \/ QuarantineNak(p, f)
    BY <1>5
  <2>2. /\ pc[p] \in {"receipts", "conflict"} /\ pc'[p] \in {"receipts", "conflict"}
        /\ holder = p /\ holder' = p /\ queue' = queue
        /\ db' = db /\ manual' = manual
        /\ txn' = Ingested(txn, f) \/ txn' = Quarantined(txn, f)
    BY <2>1 DEF Ingest, QuarantineAck, QuarantineNak, Take, At, Goto, TypeOK
  <2>3. txn'.row = txn.row
    BY <2>2, ReceiptTables
  <2>4. Orphans(txn) = {} /\ queue[p] = {}
    BY <2>2 DEF SInv, PassRows, PassQueue, InLoop, Recovering
  <2> QED
    BY <2>2, <2>3, <2>4 DEF PassQueue, PassRows, RowsAgree, Attempting, Recovering, Orphans
<1>6. CASE EndReceipts(p)
  <2>1. /\ pc[p] = "receipts" /\ holder = p /\ queue' = queue /\ txn' = txn
        /\ \/ pc'[p] = "scan" /\ holder' = p
           \/ pc'[p] = "gap" /\ resume'[p] = "scan" /\ db' = txn
    BY <1>6 DEF EndReceipts, Checkpoint, Commit, At, Goto, TypeOK
  <2>2. Orphans(txn) = {} /\ queue[p] = {}
    BY <2>1 DEF SInv, PassRows, PassQueue, InLoop, Recovering
  <2> QED
    BY <2>1, <2>2 DEF PassQueue, PassRows, RowsAgree, Attempting, Recovering, Orphans
<1>7. CASE Scan(p)
  <2>1. holder' = p /\ pc'[p] = "loop"
    BY <1>7 DEF Scan, At, Goto, TypeOK
  <2> QED
    BY <1>7, <2>1, ScanStep DEF RowsAgree, Recovering
<1>8. ASSUME NEW d \in Deliveries, StartAttempt(p, d)
      PROVE  PassQueue(p)' /\ PassRows(p)' /\ RowsAgree'
  <2>1. /\ db' = txn' /\ OnlyOpen(txn', d, base[p][d] + 1)
        /\ cur'[p] = d /\ base' = base /\ manual' = manual
        /\ queue'[p] = queue[p] \ {d} /\ pc'[p] = "gap" /\ resume'[p] = "deliver"
    BY <1>8, StartAttemptTables DEF TypeOK
  <2>2. \A e \in queue[p] : Waits(db', e) /\ Waits(txn', e)
    BY DEF TablesNext
  <2>3. PassQueue(p)'
    BY <2>1, <2>2 DEF SInv, PassQueue, InLoop, Waits
  <2>4. PassRows(p)'
    BY <2>1 DEF PassRows, OnlyOpen, Recovering
  <2> QED
    BY <2>1, <2>3, <2>4 DEF RowsAgree
<1>9. CASE Deliver(p) \/ WriteMeta(p)
  <2>1. /\ pc[p] \in {"deliver", "meta"} /\ pc'[p] \in {"meta", "record"}
        /\ db' = db /\ txn' = txn /\ queue' = queue /\ base' = base /\ cur' = cur
        /\ manual' = manual
    BY <1>9 DEF Deliver, WriteMeta, Answer, At, Goto, TypeOK
  <2>2. txn.row = db.row
    BY <1>1, <2>1 DEF Recovering
  <2>3. PassQueue(p)'
    BY <2>1 DEF SInv, PassQueue, InLoop, Attempting, Waits
  <2>4. PassRows(p)'
    BY <2>1 DEF SInv, PassRows, Recovering, Attempting, OnlyOpen
  <2> QED
    BY <2>1, <2>2, <2>3, <2>4 DEF RowsAgree
<1>10. CASE Record(p)
  <2>1. /\ db' = txn' /\ Orphans(txn') = {} /\ base' = base /\ manual' = manual
        /\ queue' = queue /\ pc'[p] = "gap" /\ resume'[p] = "loop"
    BY <1>10, RecordTables DEF TypeOK
  <2>2. \A e \in queue[p] : Waits(db', e) /\ Waits(txn', e)
    BY DEF TablesNext
  <2>3. PassQueue(p)'
    BY <2>1, <2>2 DEF SInv, PassQueue, InLoop, Attempting, Waits
  <2>4. PassRows(p)'
    BY <2>1 DEF PassRows, Attempting, Orphans
  <2> QED
    BY <2>1, <2>3, <2>4 DEF RowsAgree
<1>11. CASE \/ Finish(p) \/ LockLost(p) \/ Crash(p)
            \/ \E d \in Deliveries : AttemptTaken(p, d)
  <2>1. queue'[p] = {} /\ pc'[p] = "idle"
    BY <1>11 DEF Finish, LockLost, Lose, Crash, Die, AttemptTaken, Release, Yield,
                 Leave, Forget, TypeOK
  <2>2. db'.row = txn'.row
    <3>1. CASE Finish(p) \/ \E d \in Deliveries : AttemptTaken(p, d)
      BY <3>1 DEF Finish, AttemptTaken, Release, Yield, Commit
    <3>2. CASE LockLost(p)
      BY <1>1, <3>2 DEF LockLost, Lose, At, Recovering
    <3>3. CASE Crash(p)
      BY <1>1, <3>3 DEF Crash, Die
    <3> QED
      BY <1>11, <3>1, <3>2, <3>3
  <2> QED
    BY <2>1, <2>2 DEF PassQueue, PassRows, RowsAgree, Attempting, Recovering
<1> QED
  BY <1>2, <1>3, <1>4, <1>5, <1>6, <1>7, <1>8, <1>9, <1>10, <1>11 DEF Step

\* Every step, and a stutter, keeps the invariant of the single dispatcher.
LEMMA NextSInv ==
  ASSUME IInv, IInv', SInv, OneDispatcher, [Next]_vars
  PROVE  SInv' /\ (Next => TablesNext)
<1>0. TypeOK /\ TypeOK' /\ LockHeld
  BY DEF IInv
<1>1. CASE UNCHANGED vars /\ ~Next
  BY <1>1 DEF SInv, Orderly, OneOpenIn, OpenWaits, WithinBudget, Drift, PassQueue,
              PassRows, RowsAgree, InLoop, Attempting, OnlyOpen, Waits, Orphans, vars
<1>2. CASE Next
  <2>1. TablesNext
    BY <1>0, <1>2, TablesStep
  <2>2. Orderly(db, manual)' /\ Orderly(txn, manual)' /\ Drift(db, txn)'
    BY <2>1 DEF TablesNext
  <2>3. \A p \in Dispatchers : PassQueue(p)' /\ PassRows(p)'
    BY <1>0, <1>2, <2>1, DispatcherWaits, DispatcherStep DEF Next
  <2>4. \A p \in Procs \ Dispatchers : PassQueue(p)'
    BY <1>0, <1>2, PollerStep
  <2>5. RowsAgree'
    <3>1. CASE \E p \in Dispatchers : Step(p) \/ LockLost(p) \/ Crash(p)
      BY <1>0, <2>1, <3>1, DispatcherStep
    <3>2. CASE \/ \E q \in Procs \ Dispatchers : Step(q) \/ LockLost(q) \/ Crash(q)
               \/ Operator
               \/ \E f : ReceiptArrives(f)
      <4>1. /\ db'.row \in {db.row, txn.row} /\ txn'.row \in {db.row, txn.row}
            /\ holder \in Dispatchers => db' = db /\ txn' = txn /\ holder' = holder
        BY <1>0, <3>2, BystandersRows
      <4>2. CASE txn.row = db.row
        BY <4>1, <4>2 DEF RowsAgree
      <4>3. CASE \E p \in Dispatchers : holder = p /\ pc[p] \in Recovering
        <5>1. PICK p \in Dispatchers : holder = p /\ pc[p] \in Recovering
          BY <4>3
        <5>2. Keeps(p)
          BY <1>0, <3>2, OthersKeep, BystandersKeep
        <5> QED
          BY <4>1, <5>1, <5>2 DEF RowsAgree, Keeps
      <4> QED
        BY <4>2, <4>3 DEF SInv, RowsAgree
    <3> QED
      BY <1>2, <3>1, <3>2 DEF Next
  <2> QED
    BY <2>1, <2>2, <2>3, <2>4, <2>5 DEF SInv
<1> QED
  BY <1>1, <1>2

----------------------------------------------------------------------------
(* The theorems.                                                           *)

\* Both invariants hold in every reachable state.
THEOREM Discipline ==
  ASSUME OneDispatcher PROVE Spec => [](IInv /\ SInv)
<1>1. Init => IInv /\ SInv
  BY InitIInv, InitSInv
<1>2. IInv /\ SInv /\ [Next]_vars => (IInv /\ SInv)'
  BY NextIInv, NextSInv
<1> QED
  BY <1>1, <1>2, PTL DEF Spec

\* The invariant says what the runs check.
LEMMA DisciplineInvariants == IInv /\ SInv => AttemptDiscipline
<1> SUFFICES ASSUME IInv, SInv PROVE AttemptDiscipline
  OBVIOUS
<1>1. OneOpenAttempt
  <2> SUFFICES ASSUME NEW l \in {db, txn}, NEW d \in Deliveries
               PROVE  Cardinality({n \in AttemptNo : l.row[d][n] = "STARTED"}) <= 1
    BY DEF OneOpenAttempt
  <2> DEFINE S == {n \in AttemptNo : l.row[d][n] = "STARTED"}
  <2>1. S = {} \/ \E n \in AttemptNo : S = {n}
    BY DEF SInv, Orderly, OneOpenIn
  <2>2. \A n \in AttemptNo : Cardinality({n}) = 1
    BY FS_Singleton
  <2>3. Cardinality({}) = 0
    BY FS_EmptySet
  <2> HIDE DEF S
  <2>4. Cardinality(S) = 0 \/ Cardinality(S) = 1
    BY <2>1, <2>2, <2>3
  <2>5. Cardinality(S) <= 1
    BY <2>4
  <2> QED
    BY <2>5 DEF S
<1>2. StartedBeforeSideEffect
  <2> SUFFICES ASSUME NEW p \in Dispatchers, pc[p] \in {"deliver", "meta", "record"}
               PROVE  db.row[cur[p]][base[p][cur[p]] + 1] = "STARTED"
    BY DEF StartedBeforeSideEffect
  <2>1. /\ cur[p] \in Deliveries /\ base[p][cur[p]] < db.count[cur[p]]
        /\ OnlyOpen(db, cur[p], base[p][cur[p]] + 1)
    BY DEF IInv, SnapshotBehind, SInv, PassRows, Attempting
  <2>2. base[p][cur[p]] \in 0..MaxRows /\ db.count[cur[p]] \in 0..MaxRows
    BY <2>1 DEF IInv, TypeOK, Ledger
  <2>3. base[p][cur[p]] + 1 \in AttemptNo
    BY <2>1, <2>2 DEF AttemptNo
  <2> QED
    BY <2>1, <2>3 DEF OnlyOpen
<1>3. AttemptsBounded
  BY DEF SInv, Orderly, WithinBudget, AttemptsBounded
<1> QED
  BY <1>1, <1>2, <1>3 DEF AttemptDiscipline

\* With one dispatcher a send has one open attempt, it is durable before the
\* adapter runs, and only the operator's retries add attempts to
\* max_attempts, however crashes, recoveries, pollers and operators come in
\* between (_recover_orphans, _is_eligible, run_send_dispatch).
THEOREM AttemptsAreInOrder ==
  ASSUME OneDispatcher PROVE Spec => []AttemptDiscipline
BY Discipline, DisciplineInvariants, PTL

\* A verdict of the gateway gives way to a verdict of the network only, and
\* that one stays: with one dispatcher no recovery, retry or record of an
\* attempt comes back over it (_record_attempt, _recover_orphans,
\* ingest_fin_service_doc).
THEOREM VerdictsAreFinal ==
  ASSUME OneDispatcher PROVE Spec => VerdictFinal
<1>1. ASSUME IInv, IInv', SInv, [Next]_vars
      PROVE  [\A d \in Deliveries :
                /\ db.status[d] \in GatewayStates =>
                     db'.status[d] \in {db.status[d]} \cup SwiftStates
                /\ db.status[d] \in SwiftStates => db'.status[d] = db.status[d]]_vars
  <2> SUFFICES ASSUME Next, NEW d \in Deliveries
               PROVE  /\ db.status[d] \in GatewayStates =>
                           db'.status[d] \in {db.status[d]} \cup SwiftStates
                      /\ db.status[d] \in SwiftStates => db'.status[d] = db.status[d]
    BY <1>1
  <2>1. Promise!Moves(d, ClaimOf(db.status[d]), ClaimOf(db'.status[d]))
    BY <1>1, NextSInv DEF TablesNext, Move
  <2>2. /\ db.status[d] \in GatewayStates =>
             \/ ClaimOf(db'.status[d]) = ClaimOf(db.status[d])
             \/ ClaimOf(db'.status[d]) \in {"acked", "naked"}
        /\ db.status[d] \in SwiftStates =>
             ClaimOf(db'.status[d]) = ClaimOf(db.status[d])
    <3>1. /\ db.status[d] \in GatewayStates => ClaimOf(db.status[d]) \in {"accepted", "rejected"}
          /\ db.status[d] \in SwiftStates => ClaimOf(db.status[d]) \in {"acked", "naked"}
      BY ClaimStates
    <3> QED
      BY <2>1, <3>1 DEF Promise!Moves, Promise!Gateway, Promise!Network
  <2>3. /\ \A s \in GatewayStates \cup SwiftStates : ClaimOf(s) # "nothing"
        /\ \A s : ClaimOf(s) \in {"acked", "naked"} => s \in SwiftStates
        /\ \A s, t : ClaimOf(s) = ClaimOf(t) => ClaimOf(s) = "nothing" \/ s = t
    BY ClaimStates
  <2> QED
    BY <2>2, <2>3
<1> QED
  BY <1>1, Discipline, PTL DEF Spec, VerdictFinal

\* How the outbox changes: the adapter's next file, while no row is written.
LEMMA SpoolStep ==
  ASSUME TypeOK, IInv, Next
  PROVE  \/ spool' = spool
         \/ /\ db' = db
            /\ \E d \in Deliveries : \A e \in Deliveries :
                 /\ e # d => spool'[e] = spool[e]
                 /\ Handed(spool[e]) => Handed(spool'[e])
<1>1. ASSUME NEW p \in Procs, Deliver(p) \/ WriteMeta(p)
      PROVE  /\ db' = db
             /\ \E d \in Deliveries : \A e \in Deliveries :
                  /\ e # d => spool'[e] = spool[e]
                  /\ Handed(spool[e]) => Handed(spool'[e])
  <2>1. /\ cur[p] \in Deliveries /\ spool[cur[p]] \in Entry
        /\ WriteMeta(p) => spool[cur[p]].msg = "own" /\ spool[cur[p]].meta = "absent"
    BY <1>1 DEF Deliver, WriteMeta, At, IInv, SnapshotBehind, AdapterProgress,
                Attempting, TypeOK
  <2>2. PICK r : /\ Answer(p, r)
                 /\ Handed(spool[cur[p]]) => Handed(r.entry)
    <3>1. CASE Deliver(p)
      BY <2>1, <3>1, DeliverStepsType DEF Deliver
    <3>2. CASE WriteMeta(p)
      BY <2>1, <3>2, MetaStepsType DEF WriteMeta
    <3> QED
      BY <1>1, <3>1, <3>2
  <2>3. db' = db /\ spool' = [spool EXCEPT ![cur[p]] = r.entry]
    BY <2>2 DEF Answer
  <2>4. \A e \in Deliveries : /\ e # cur[p] => spool'[e] = spool[e]
                              /\ Handed(spool[e]) => Handed(spool'[e])
    BY <2>1, <2>2, <2>3 DEF TypeOK
  <2> QED
    BY <2>1, <2>3, <2>4
<1>2. ASSUME NEW p \in Procs, Step(p) \/ LockLost(p) \/ Crash(p),
             ~Deliver(p), ~WriteMeta(p)
      PROVE  spool' = spool
  BY <1>2 DEF Step, Start, Acquire, Reacquire, Regain, Recover, Ingest, QuarantineAck,
              QuarantineNak, EndReceipts, Scan, StartAttempt, AttemptTaken, Record,
              Finish, LockLost, Lose, Crash, Die
<1>3. ASSUME Operator \/ (\E f : ReceiptArrives(f)) PROVE spool' = spool
  BY <1>3 DEF Operator, SendPrepare, SendRetry, SendAbandon, SendIngestFin, Command,
              ReceiptArrives
<1> QED
  BY <1>1, <1>2, <1>3 DEF Next

\* The committed claims keep the promise of Handoff, when there is one
\* dispatcher and the outbox holds no delivery that this ops.db did not make:
\* every step is a handover, a change of claims that Handoff allows, or
\* nothing that a reader of the ledger could see.
THEOREM PromiseIsKept ==
  ASSUME OneDispatcher, \A e \in Occupied : ~Handed(e)
  PROVE  Spec => KeepsPromise
<1> DEFINE handed == {d \in Deliveries : Handed(spool[d])}
           claim == [d \in Deliveries |-> ClaimOf(db.status[d])]
<1>1. Init => Promise!Init
  BY ClaimStates DEF Init, EmptyLedger, Promise!Init
<1>2. ASSUME IInv, IInv', SInv, [Next]_vars
      PROVE  [Promise!Next]_<<handed, claim>>
  <2>1. CASE UNCHANGED vars
    BY <2>1 DEF vars
  <2>2. CASE Next
    <3>1. \A d \in Deliveries :
            Promise!Moves(d, ClaimOf(db.status[d]), ClaimOf(db'.status[d]))
      BY <1>2, <2>2, NextSInv DEF TablesNext, Move
    <3>2. CASE spool' = spool
      <4>1. claim' \in [Deliveries -> Promise!Claims]
        BY ClaimStates DEF Promise!Claims, Promise!Gateway, Promise!Network
      <4>2. \A d \in Deliveries : Promise!Moves(d, claim[d], claim'[d])
        BY <3>1
      <4>3. handed' = handed
        BY <3>2
      <4>4. Promise!Claim
        BY <4>1, <4>2, <4>3 DEF Promise!Claim
      <4> QED
        BY <4>4 DEF Promise!Next
    <3>3. CASE /\ db' = db
               /\ \E d \in Deliveries : \A e \in Deliveries :
                    /\ e # d => spool'[e] = spool[e]
                    /\ Handed(spool[e]) => Handed(spool'[e])
      <4>1. claim' = claim
        BY <3>3
      <4>2. PICK d \in Deliveries : \A e \in Deliveries :
                    /\ e # d => spool'[e] = spool[e]
                    /\ Handed(spool[e]) => Handed(spool'[e])
        BY <3>3
      <4>3. handed' = handed \/ (d \notin handed /\ handed' = handed \cup {d})
        BY <4>2
      <4>4. CASE handed' = handed
        BY <4>1, <4>4
      <4>5. CASE d \notin handed /\ handed' = handed \cup {d}
        BY <4>1, <4>5 DEF Promise!Next, Promise!HandOver
      <4> QED
        BY <4>3, <4>4, <4>5
    <3> QED
      BY <1>2, <2>2, <3>2, <3>3, SpoolStep DEF IInv
  <2> QED
    BY <1>2, <2>1, <2>2
<1> QED
  BY <1>1, <1>2, Discipline, PTL DEF Spec, KeepsPromise, Promise!Spec

==============================================================================
