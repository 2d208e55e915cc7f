------------------------------ MODULE SendLedger ------------------------------
(***************************************************************************)
(* The processes that work on the send ledger: dispatcher passes           *)
(* (send-dispatch), polling passes (send-poll) and the operator's one-shot *)
(* commands, over one SQLite file, one outbox and one receipts directory.  *)
(*                                                                         *)
(* Every command opens a write transaction (module RunLock), works in it   *)
(* and commits; a pass commits several times.  The file system steps of a  *)
(* pass are durable at once, its table rows only at the next commit; a     *)
(* crash drops the transaction and keeps the files.                        *)
(***************************************************************************)
EXTENDS SendTables, RunLock

CONSTANTS Dispatchers,          \* the processes that dispatch; the others poll
          Occupied,             \* outbox entries a delivery id may start with
          Docs,                 \* the receipts that may be dropped
          MaxRetries            \* bound: send-retry commands per send

ASSUME LedgerAssumption ==
  /\ Dispatchers \subseteq Procs
  /\ EmptyEntry \in Occupied
  /\ Occupied \subseteq Entry
  /\ Docs \subseteq GatewayDoc
  /\ MaxRetries \in Nat

VARIABLES
  spool,      \* outbox: delivery -> its entry
  box,        \* the files waiting in receipts/
  archive,    \* the files moved to receipts/processed/ and quarantine/
  cur,        \* the delivery a pass is working on
  queue,      \* deliveries left of its list_sends() snapshot
  base,       \* attempt counts of that snapshot
  out,        \* what the adapter answered
  dirty,      \* receipts ingested or quarantined in this pass
  manual      \* bookkeeping of the model: retries the operator ordered

pass    == <<pc, resume, cur, queue, base, out, dirty>>
vars    == <<db, txn, spool, box, archive, holder, pc, resume, cur, queue, base,
             out, dirty, faults, manual>>

Phases   == {"idle", "orphans", "receipts", "conflict", "scan", "loop",
             "deliver", "meta", "record", "gap"}
Resumes  == {"idle", "receipts", "scan", "deliver", "loop"}
NoOutcome == "NO_OUTCOME"
ZeroBase  == [d \in Deliveries |-> 0]

TypeOK ==
  /\ db \in Ledger
  /\ txn \in Ledger
  /\ spool \in [Deliveries -> Entry]
  /\ box \subseteq ReceiptFile
  /\ archive \subseteq ReceiptFile
  /\ holder \in Procs \cup {Nobody}
  /\ pc \in [Procs -> Phases]
  /\ resume \in [Procs -> Resumes]
  /\ cur \in [Procs -> Deliveries \cup {NoDelivery}]
  /\ queue \in [Procs -> SUBSET Deliveries]
  /\ base \in [Procs -> [Deliveries -> 0..MaxRows]]
  /\ out \in [Procs -> Outcomes \cup {NoOutcome}]
  /\ dirty \in [Procs -> BOOLEAN]
  /\ faults \in 0..MaxFaults
  /\ manual \in [Deliveries -> 0..MaxRetries]


Init ==
  /\ db = EmptyLedger
  /\ txn = EmptyLedger
  /\ spool \in [Deliveries -> Occupied]
  /\ box = {}
  /\ archive = {}
  /\ holder = Nobody
  /\ pc = [p \in Procs |-> "idle"]
  /\ resume = [p \in Procs |-> "idle"]
  /\ cur = [p \in Procs |-> NoDelivery]
  /\ queue = [p \in Procs |-> {}]
  /\ base = [p \in Procs |-> ZeroBase]
  /\ out = [p \in Procs |-> NoOutcome]
  /\ dirty = [p \in Procs |-> FALSE]
  /\ faults = 0
  /\ manual = [d \in Deliveries |-> 0]


----------------------------------------------------------------------------
(* The run lock, and what a pass loses with it.                            *)

\* A pass is over, in whatever way: its locals are gone.
Forget(p) ==
  /\ cur' = [cur EXCEPT ![p] = NoDelivery]
  /\ queue' = [queue EXCEPT ![p] = {}]
  /\ base' = [base EXCEPT ![p] = ZeroBase]
  /\ out' = [out EXCEPT ![p] = NoOutcome]
  /\ dirty' = [dirty EXCEPT ![p] = FALSE]

Release(p) == Yield(p) /\ Forget(p)

\* A dispatcher recovers orphans first, a poller goes straight to the receipts.
Start(p) ==
  /\ Acquire(p, IF p \in Dispatchers THEN "orphans" ELSE "receipts")
  /\ UNCHANGED <<spool, box, archive, cur, queue, base, out, dirty, manual>>

Reacquire(p) ==
  /\ Regain(p)
  /\ UNCHANGED <<spool, box, archive, cur, queue, base, out, dirty, manual>>

LockLost(p) ==
  /\ Lose(p)
  /\ Forget(p)
  /\ UNCHANGED <<spool, box, archive, manual>>

\* The process dies: its files stay.
Crash(p) ==
  /\ Die(p)
  /\ Forget(p)
  /\ UNCHANGED <<spool, box, archive, manual>>

----------------------------------------------------------------------------
(* A dispatcher pass (run_send_dispatch).                                  *)

Recover(p) ==
  /\ At(p, "orphans")
  /\ \E blind \in SUBSET Orphans(txn) :
       IF RecoveryCheckpoints(txn, spool, blind)
       THEN Checkpoint(p, Recovered(txn, spool, blind), "receipts")
       ELSE /\ txn' = Recovered(txn, spool, blind)
            /\ Goto(p, "receipts")
            /\ UNCHANGED <<db, holder, resume>>
  /\ UNCHANGED <<spool, box, archive, cur, queue, base, out, dirty, faults, manual>>

\* The file leaves receipts/ at once; the row waits for the next commit.
Take(p, f, l, counted) ==
  /\ box' = box \ {f}
  /\ archive' = archive \cup {f}
  /\ txn' = l
  /\ dirty' = [dirty EXCEPT ![p] = @ \/ counted]

Rivals(f) == {g \in box : g.d = f.d /\ g.doc.verdict # f.doc.verdict}

Ingest(p, f) ==
  /\ At(p, "receipts")
  /\ Rivals(f) = {}
  /\ Take(p, f, Ingested(txn, f), ~Replayed(txn, f))
  /\ UNCHANGED <<db, spool, holder, pc, resume, cur, queue, base, out,
                 faults, manual>>

\* An .ack and a .nak for one delivery are both quarantined, .ack first.
QuarantineAck(p, f) ==
  /\ At(p, "receipts")
  /\ Rivals(f) # {}
  /\ f.doc.verdict = "ACCEPTED"
  /\ Take(p, f, Quarantined(txn, f), TRUE)
  /\ cur' = [cur EXCEPT ![p] = f.d]
  /\ Goto(p, "conflict")
  /\ UNCHANGED <<db, spool, holder, resume, queue, base, out, faults, manual>>

QuarantineNak(p, f) ==
  /\ At(p, "conflict")
  /\ f.d = cur[p]
  /\ f.doc.verdict = "REJECTED"
  /\ Take(p, f, Quarantined(txn, f), TRUE)
  /\ cur' = [cur EXCEPT ![p] = NoDelivery]
  /\ Goto(p, "receipts")
  /\ UNCHANGED <<db, spool, holder, resume, queue, base, out, faults, manual>>

\* No file is left.  A pass that ingested or quarantined one checkpoints; a
\* poller has nothing more to do.
EndReceipts(p) ==
  /\ At(p, "receipts")
  /\ box = {}
  /\ LET next == IF p \in Dispatchers THEN "scan" ELSE "loop"
     IN  IF dirty[p]
         THEN Checkpoint(p, txn, next)
         ELSE /\ Goto(p, next)
              /\ UNCHANGED <<db, txn, holder, resume>>
  /\ UNCHANGED <<spool, box, archive, cur, queue, base, out, dirty, faults, manual>>

\* list_sends(): the pass works on this snapshot until it ends.  only: all
\* deliveries, or the one named by --delivery-id.
Scan(p) ==
  /\ At(p, "scan")
  /\ \E elapsed \in SUBSET {d \in Deliveries : txn.wait[d]} :
     \E only \in {Deliveries} \cup {{d} : d \in Deliveries} :
       queue' = [queue EXCEPT ![p] = {d \in only : Eligible(txn, d, elapsed)}]
  /\ base' = [base EXCEPT ![p] = txn.count]
  /\ Goto(p, "loop")
  /\ UNCHANGED <<db, txn, spool, box, archive, holder, resume, cur, out, dirty, faults,
                 manual>>

\* MUTANT of StartAttempt: an attempt number that is taken is written over.
StartAttemptReplacing(p, d) ==
  /\ At(p, "loop")
  /\ d \in queue[p]
  /\ base[p][d] < MaxRows
  /\ Checkpoint(p, Started(txn, d, base[p][d] + 1), "deliver")
  /\ cur' = [cur EXCEPT ![p] = d]
  /\ queue' = [queue EXCEPT ![p] = @ \ {d}]
  /\ UNCHANGED <<spool, box, archive, base, out, dirty, faults, manual>>

\* STARTED is durable before the side effect.
StartAttempt(p, d) ==
  /\ At(p, "loop")
  /\ d \in queue[p]
  /\ base[p][d] < MaxRows
  /\ txn.row[d][base[p][d] + 1] = NoRow
  /\ Checkpoint(p, Started(txn, d, base[p][d] + 1), "deliver")
  /\ cur' = [cur EXCEPT ![p] = d]
  /\ queue' = [queue EXCEPT ![p] = @ \ {d}]
  /\ UNCHANGED <<spool, box, archive, base, out, dirty, faults, manual>>

\* The attempt number is taken: attempt_id is the primary key, the insert
\* raises and the pass ends.
AttemptTaken(p, d) ==
  /\ At(p, "loop")
  /\ d \in queue[p]
  /\ base[p][d] < MaxRows
  /\ txn.row[d][base[p][d] + 1] # NoRow
  /\ Release(p)
  /\ UNCHANGED <<spool, box, archive, faults, manual>>

\* adapter.deliver(), one file system step at a time.
Answer(p, r) ==
  /\ spool' = [spool EXCEPT ![cur[p]] = r.entry]
  /\ IF r.outcome = MsgWritten
     THEN Goto(p, "meta") /\ UNCHANGED out
     ELSE Goto(p, "record") /\ out' = [out EXCEPT ![p] = r.outcome]
  /\ UNCHANGED <<db, txn, box, archive, holder, resume, cur, queue, base, dirty,
                 faults, manual>>

Deliver(p) ==
  /\ At(p, "deliver")
  /\ \E r \in DeliverSteps(spool[cur[p]]) : Answer(p, r)

WriteMeta(p) ==
  /\ At(p, "meta")
  /\ \E r \in MetaSteps(spool[cur[p]]) : Answer(p, r)

Record(p) ==
  /\ At(p, "record")
  /\ Checkpoint(p, Recorded(txn, cur[p], base[p][cur[p]] + 1, out[p]), "loop")
  /\ cur' = [cur EXCEPT ![p] = NoDelivery]
  /\ out' = [out EXCEPT ![p] = NoOutcome]
  /\ UNCHANGED <<spool, box, archive, queue, base, dirty, faults, manual>>

\* The snapshot is exhausted; the command's last checkpoint and the release.
Finish(p) ==
  /\ At(p, "loop")
  /\ queue[p] = {}
  /\ Release(p)
  /\ UNCHANGED <<spool, box, archive, faults, manual>>

----------------------------------------------------------------------------
(* One-shot commands: lock, one ledger function, commit, release.          *)

Command(l) ==
  /\ holder = Nobody
  /\ Commit(l)
  /\ UNCHANGED <<spool, box, archive, holder, pass, faults>>

SendPrepare(c) ==
  /\ Fresh(db, c) # {}
  /\ Command(Prepared(db, c))
  /\ UNCHANGED manual

SendRetry(d, force) ==
  /\ MayRetry(db, d, force)
  /\ manual[d] < MaxRetries
  /\ Command(Retried(db, d))
  /\ manual' = [manual EXCEPT ![d] = @ + 1]

SendAbandon(d) ==
  /\ MayAbandon(db, d)
  /\ Command(Abandoned(db, d))
  /\ UNCHANGED manual

SendIngestFin(f) ==
  /\ \E l \in FinIngested(db, f) : Command(l)
  /\ UNCHANGED manual

----------------------------------------------------------------------------
(* The gateway answers what was handed over; anyone may drop a file that   *)
(* is no valid receipt.  A file name is taken while the file is there.     *)

ReceiptArrives(f) ==
  /\ f.doc.valid => Handed(spool[f.d])
  /\ ~\E g \in box : g.d = f.d /\ g.doc.verdict = f.doc.verdict
  /\ box' = box \cup {f}
  /\ UNCHANGED <<db, txn, spool, archive, holder, pass, faults, manual>>

----------------------------------------------------------------------------
Step(p) ==
  \/ Start(p) \/ Reacquire(p)
  \/ Recover(p)
  \/ \E f \in box : Ingest(p, f) \/ QuarantineAck(p, f) \/ QuarantineNak(p, f)
  \/ EndReceipts(p)
  \/ Scan(p)
  \/ \E d \in Deliveries : StartAttempt(p, d) \/ AttemptTaken(p, d)
  \/ Deliver(p) \/ WriteMeta(p) \/ Record(p) \/ Finish(p)

Operator ==
  \/ \E c \in Contents : SendPrepare(c)
  \/ \E d \in Deliveries, force \in BOOLEAN : SendRetry(d, force)
  \/ \E d \in Deliveries : SendAbandon(d)
  \/ \E f \in FinDocs : SendIngestFin(f)

Next ==
  \/ \E p \in Procs : Step(p) \/ LockLost(p) \/ Crash(p)
  \/ Operator
  \/ \E d \in Deliveries, doc \in Docs : ReceiptArrives([d |-> d, doc |-> doc])

Spec == Init /\ [][Next]_vars

----------------------------------------------------------------------------
(* What must hold whatever passes overlap.                                 *)

\* No send is SPOOLED, or answered by the gateway or the network, unless its
\* bytes and its meta file are in the outbox: neither a crash between the two
\* renames, nor an orphan recovery, nor a stale pass claims a handoff that
\* did not happen (deliver, verify, _record_attempt, _recover_orphans).
HandoffBacked ==
  \A l \in {db, txn} : \A d \in Deliveries :
    l.status[d] \in DeliveredStates => Handed(spool[d])

\* The attempts of a send are numbered 1..attempt_count, each number once,
\* although a pass derives the next number from a snapshot that other passes
\* may have outrun (the snapshot of list_sends, the key attempt_id).
AttemptsNumbered ==
  \A l \in {db, txn} : \A d \in Deliveries : \A n \in AttemptNo :
    l.row[d][n] # NoRow <=> n <= l.count[d]

\* The ledger's evidence for status s of send d.
Answered(l, d, s) ==
  /\ s \in GatewayStates =>
       \E r \in l.receipts : /\ r.d = d
                             /\ r.doc \in GatewayDoc
                             /\ r.doc.valid
                             /\ r.st = r.doc.verdict
                             /\ StateOfVerdict(r.st) = s
  /\ s \in SwiftStates =>
       \E r \in l.receipts : /\ r.d = d
                             /\ r.doc \in FinDocs
                             /\ r.st = FinStatus(r.doc)
                             /\ FinState(r.doc) = s

\* A send answered by the gateway has the receipt that says so in the ledger,
\* valid and of that verdict; a send answered by the network has its service
\* message (_ingest_receipts_for_dest, ingest_fin_service_doc).
VerdictBacked ==
  \A l \in {db, txn} : \A d \in Deliveries : Answered(l, d, l.status[d])

\* What is in the outbox under a delivery id is never replaced: no retry,
\* recovery or collision rewrites a .msg or a .meta.json that is there.
SpoolNeverOverwritten ==
  [][\A d \in Deliveries :
       /\ spool[d].msg # "absent" => spool'[d].msg = spool[d].msg
       /\ spool[d].meta # "absent" => spool'[d].meta = spool[d].meta]_vars

----------------------------------------------------------------------------
(* What the run lock is there for: with one dispatcher at a time, also when *)
(* operators and pollers slip in between its checkpoints.                  *)

\* At most one attempt of a send is open.
OneOpenAttempt ==
  \A l \in {db, txn} : \A d \in Deliveries :
    Cardinality({n \in AttemptNo : l.row[d][n] = "STARTED"}) <= 1

\* While the adapter runs, the attempt it runs for is durably STARTED.
StartedBeforeSideEffect ==
  \A p \in Dispatchers :
    pc[p] \in {"deliver", "meta", "record"} =>
      db.row[cur[p]][base[p][cur[p]] + 1] = "STARTED"

\* Nobody but an operator starts more attempts than max_attempts: crashes and
\* recoveries do not add any.
AttemptsBounded ==
  \A d \in Deliveries : db.count[d] <= MaxAttempts + manual[d]

\* The attempts are in order while the run lock is held.
AttemptDiscipline == OneOpenAttempt /\ StartedBeforeSideEffect /\ AttemptsBounded

\* A verdict of the gateway gives way only to one of the network, and the
\* first verdict of the network stays.
VerdictFinal ==
  [][\A d \in Deliveries :
       /\ db.status[d] \in GatewayStates =>
            db'.status[d] \in {db.status[d]} \cup SwiftStates
       /\ db.status[d] \in SwiftStates => db'.status[d] = db.status[d]]_vars

----------------------------------------------------------------------------
(* What the ledger promises (module Handoff).                              *)

ClaimOf(s) ==
  CASE s = S_SPOOLED          -> "handed"
    [] s = S_UNKNOWN          -> "unknown"
    [] s = S_GATEWAY_ACCEPTED -> "accepted"
    [] s = S_GATEWAY_REJECTED -> "rejected"
    [] s = S_SWIFT_ACKED      -> "acked"
    [] s = S_SWIFT_NAKED      -> "naked"
    [] OTHER                  -> "nothing"

Promise == INSTANCE Handoff WITH
  handed <- {d \in Deliveries : Handed(spool[d])},
  claim  <- [d \in Deliveries |-> ClaimOf(db.status[d])]

\* The ledger's committed claims keep the promise of Handoff: no verdict
\* without a handoff that was claimed before, no claim ahead of the outbox, and
\* a send whose outcome is unknown is not attempted, answered or recovered
\* behind the operator's back: it is unknown until it is prepared again or
\* abandoned (send_retry with force, send_abandon).
KeepsPromise == Promise!Spec

----------------------------------------------------------------------------
(* Progress, when passes are scheduled again and again.                    *)

\* A pass without --delivery-id at a time when every backoff is over.
FullScan(p) ==
  Scan(p) /\ \A d \in Deliveries : Eligible(txn, d, Deliveries) => d \in queue'[p]

Fairness ==
  \A p \in Procs : /\ SF_vars(Step(p))
                   /\ SF_vars(EndReceipts(p))
                   /\ SF_vars(FullScan(p))

FairSpec == Spec /\ Fairness

\* Every prepared send is attempted, or given up by the operator, although
\* passes may die: no order of crash and recovery forgets one.
PreparedIsAttempted ==
  \A d \in Deliveries :
    db.status[d] = S_PREPARED ~> db.status[d] # S_PREPARED

\* Retries come to an end: a send with attempts left does not stay retryable
\* for ever, also when passes die between its attempts.
RetriesEnd ==
  \A d \in Deliveries :
    LET waits == db.status[d] = S_FAILED_RETRYABLE /\ db.count[d] < MaxAttempts
    IN  waits ~> ~waits

\* The gateway's receipt for a send that is SPOOLED takes effect, unless the
\* pass that moved it died before its commit.
ReceiptTakesEffect ==
  \A d \in Deliveries, doc \in Docs :
    LET f == [d |-> d, doc |-> doc]
    IN  (db.status[d] = S_SPOOLED /\ f \in box /\ doc.valid) ~>
          (db.status[d] # S_SPOOLED \/ (faults > 0 /\ f \in archive))

----------------------------------------------------------------------------
(* What the documents and comments say, and the code does not keep.        *)

\* "ABANDONED: decision operadora terminal" (send_abandon, p110).
AbandonIsFinal ==
  [][\A d \in Deliveries :
       db.status[d] = S_ABANDONED => db'.status[d] = S_ABANDONED]_vars

\* "Valido -> transicion SPOOLED -> GATEWAY_* + mover a processed/;
\* conflictivo -> quarantine/ + fila QUARANTINED" (_ingest_receipts_for_dest):
\* between passes, a receipt that left receipts/ has its row.
ReceiptAccounted ==
  holder = Nobody =>
    \A f \in archive : \E r \in db.receipts : r.d = f.d /\ r.doc = f.doc

==============================================================================
