------------------------------ MODULE SendTables ------------------------------
(***************************************************************************)
(* The send ledger as data: the tables sends, send_attempts and            *)
(* send_receipts of ops.db, and what each ledger function of               *)
(* src/ca_es/ops_send.py and src/ca_es/ops_fin.py makes of them in one     *)
(* transaction.  Who calls them, and how their transactions interleave, is *)
(* in SendLedger.                                                          *)
(*                                                                         *)
(* A delivery id is the digest of (instruction, content, destination); for *)
(* one instruction it is the pair <<content, destination>>.  Times are     *)
(* abstracted: wait[d] holds while next_attempt_after lies in the future   *)
(* of the transaction that set it.                                         *)
(***************************************************************************)
EXTENDS Naturals, FiniteSets, FileSpool

CONSTANTS Contents,     \* the serialised messages of the instruction
          Dests,        \* enabled and routed destinations
          NoDelivery,   \* the "?" a receipt row names when nothing matches
          MaxAttempts,  \* retry.max_attempts
          MaxRows,      \* bound: attempt rows of one send
          Tags,         \* what tells two receipts of one verdict apart
          FinDocs,      \* the FIN service messages that may be ingested
          Mir,          \* content -> the MIR in its block 1
          Ref           \* content -> its message_reference

Deliveries == Contents \X Dests
ContentOf(d) == d[1]
DestOf(d)    == d[2]
AttemptNo    == 1..MaxRows

\* A FIN service message embeds a copy of what the network got, which names a
\* MIR and perhaps a SEME: that of the content or another.
FinDoc == [kind: {"ACK", "NAK", "UNUSABLE"}, copy: Contents,
           seme: {"own", "other", "none"}]

ASSUME TablesAssumption ==
  /\ MaxAttempts \in Nat \ {0}
  /\ MaxRows \in Nat \ {0}
  /\ IsFiniteSet(Contents)
  /\ IsFiniteSet(Dests)
  /\ NoDelivery \notin Deliveries
  /\ FinDocs \subseteq FinDoc

S_NONE             == "NOT_PREPARED"    \* no row in sends
S_PREPARED         == "PREPARED"
S_SPOOLED          == "SPOOLED"
S_FAILED_RETRYABLE == "SPOOL_FAILED_RETRYABLE"
S_FAILED_PERMANENT == "SPOOL_FAILED_PERMANENT"
S_GATEWAY_ACCEPTED == "GATEWAY_ACCEPTED"
S_GATEWAY_REJECTED == "GATEWAY_REJECTED"
S_UNKNOWN          == "UNKNOWN_OUTCOME"
S_ABANDONED        == "ABANDONED"
S_SWIFT_ACKED      == "SWIFT_ACKED"
S_SWIFT_NAKED      == "SWIFT_NAKED"

GatewayStates   == {S_GATEWAY_ACCEPTED, S_GATEWAY_REJECTED}
SwiftStates     == {S_SWIFT_ACKED, S_SWIFT_NAKED}
TERMINAL_STATES == GatewayStates \cup SwiftStates \cup {S_ABANDONED}
DeliveredStates == {S_SPOOLED} \cup GatewayStates \cup SwiftStates
SendStatus      == {S_NONE, S_PREPARED, S_FAILED_RETRYABLE, S_FAILED_PERMANENT,
                    S_UNKNOWN, S_ABANDONED} \cup DeliveredStates

NoRow         == "NO_ROW"
AttemptStatus == {NoRow, "STARTED", "SUCCEEDED", "FAILED", "UNKNOWN"}

\* A receipt file is named by its delivery and its suffix (.ack/.nak); its
\* bytes are valid for that name or not (schema, ids, digest, status).
GatewayDoc == [verdict: {"ACCEPTED", "REJECTED"}, valid: BOOLEAN, tag: Tags]
ReceiptFile == [d: Deliveries, doc: GatewayDoc]

\* AMBIGUOUS stands for a QUARANTINED row with that quarantine_reason.
ReceiptStatus == {"ACCEPTED", "REJECTED", "QUARANTINED", "AMBIGUOUS",
                  "CONFLICTING", "SWIFT_ACK", "SWIFT_NAK"}
ReceiptRow == [d: Deliveries \cup {NoDelivery}, doc: GatewayDoc \cup FinDocs,
               st: ReceiptStatus]

Ledger == [status:   [Deliveries -> SendStatus],
           count:    [Deliveries -> 0..MaxRows],
           wait:     [Deliveries -> BOOLEAN],
           gen:      [Deliveries -> Nat],
           row:      [Deliveries -> [AttemptNo -> AttemptStatus]],
           receipts: SUBSET ReceiptRow]

EmptyLedger ==
  [status   |-> [d \in Deliveries |-> S_NONE],
   count    |-> [d \in Deliveries |-> 0],
   wait     |-> [d \in Deliveries |-> FALSE],
   gen      |-> [d \in Deliveries |-> 0],
   row      |-> [d \in Deliveries |-> [n \in AttemptNo |-> NoRow]],
   receipts |-> {}]

Known(l) == {d \in Deliveries : l.status[d] # S_NONE}

\* _set_send_status: the status, and next_attempt_after given or cleared.
SetStatus(l, d, s, w) == [l EXCEPT !.status[d] = s, !.wait[d] = w]

AddReceipt(l, d, doc, st) ==
  [l EXCEPT !.receipts = @ \cup {[d |-> d, doc |-> doc, st |-> st]}]

----------------------------------------------------------------------------
\* prepare_sends: one PREPARED row per destination that has none for this
\* content, numbered after the rows the instruction has there.
Fresh(l, c) == {d \in Deliveries : ContentOf(d) = c} \ Known(l)

Prepared(l, c) ==
  [l EXCEPT
    !.status = [d \in Deliveries |->
                 IF d \in Fresh(l, c) THEN S_PREPARED ELSE @[d]],
    !.gen = [d \in Deliveries |->
              IF d \in Fresh(l, c)
              THEN Cardinality({e \in Known(l) : DestOf(e) = DestOf(d)}) + 1
              ELSE @[d]]]

\* send_retry: not from a delivered or terminal state; UNKNOWN_OUTCOME only
\* when forced.
MayRetry(l, d, force) ==
  /\ d \in Known(l)
  /\ l.status[d] \notin TERMINAL_STATES \cup {S_SPOOLED}
  /\ l.status[d] = S_UNKNOWN => force

\* MUTANT of Retried: the pending status of the alert queue.
RetriedAsAlert(l, d) == SetStatus(l, d, "PENDING", FALSE)

Retried(l, d) == SetStatus(l, d, S_PREPARED, FALSE)

\* send_abandon: from every state that is not terminal, SPOOLED included.
MayAbandon(l, d) == d \in Known(l) /\ l.status[d] \notin TERMINAL_STATES

Abandoned(l, d) == SetStatus(l, d, S_ABANDONED, FALSE)

----------------------------------------------------------------------------
\* MUTANTS of Eligible: whatever is not final; one attempt short; a prepared
\* send only once.
EligibleUnlessFinal(l, d, elapsed) ==
  l.status[d] \in {S_PREPARED, S_FAILED_RETRYABLE, S_UNKNOWN}
EligibleOneShort(l, d, elapsed) ==
  \/ l.status[d] = S_PREPARED
  \/ l.status[d] = S_FAILED_RETRYABLE /\ l.count[d] + 1 < MaxAttempts
EligibleOnce(l, d, elapsed) ==
  l.status[d] \in {S_PREPARED, S_FAILED_RETRYABLE} /\ l.count[d] = 0

\* _is_eligible.  elapsed: the deliveries whose backoff is over by now.
Eligible(l, d, elapsed) ==
  \/ l.status[d] = S_PREPARED
  \/ /\ l.status[d] = S_FAILED_RETRYABLE
     /\ l.count[d] < MaxAttempts
     /\ l.wait[d] => d \in elapsed

\* The dispatcher's insert of attempt n and its update of attempt_count.
Started(l, d, n) == [l EXCEPT !.row[d][n] = "STARTED", !.count[d] = n]

\* _record_attempt: closes attempt n and moves the send; the attempt that
\* reaches max_attempts makes a retryable failure permanent.
AttemptAfter(o) == CASE o = "SPOOLED" -> "SUCCEEDED"
                     [] o = "UNKNOWN" -> "UNKNOWN"
                     [] OTHER         -> "FAILED"

StatusAfter(o, n) ==
  CASE o = "SPOOLED"          -> S_SPOOLED
    [] o = "UNKNOWN"          -> S_UNKNOWN
    [] o = "FAILED_PERMANENT" -> S_FAILED_PERMANENT
    [] o = "FAILED_RETRYABLE" -> IF n >= MaxAttempts THEN S_FAILED_PERMANENT
                                                     ELSE S_FAILED_RETRYABLE

Recorded(l, d, n, o) ==
  LET s == StatusAfter(o, n)
  IN  SetStatus([l EXCEPT !.row[d][n] = AttemptAfter(o)], d, s,
                s = S_FAILED_RETRYABLE)

\* _recover_orphans: every attempt left STARTED is closed with what verify()
\* says of its delivery; a NOT_SPOOLED send is due at once.  blind: the
\* deliveries whose destination is gone or whose verify() raised.
Orphans(l) == {d \in Deliveries : \E n \in AttemptNo : l.row[d][n] = "STARTED"}

VerdictFor(spool, blind, d) == IF d \in blind THEN "UNKNOWN" ELSE Verify(spool[d])

\* MUTANT of AttemptOfVerdict: a safe retry does not close the attempt.
AttemptOfVerdictOpen(v) == CASE v = "SPOOLED"     -> "SUCCEEDED"
                             [] v = "NOT_SPOOLED" -> "STARTED"
                             [] OTHER             -> "FAILED"

AttemptOfVerdict(v) == CASE v = "SPOOLED" -> "SUCCEEDED"
                         [] v = "UNKNOWN" -> "UNKNOWN"
                         [] OTHER         -> "FAILED"

StatusOfVerdict(v) == CASE v = "SPOOLED"     -> S_SPOOLED
                        [] v = "UNKNOWN"     -> S_UNKNOWN
                        [] v = "NOT_SPOOLED" -> S_FAILED_RETRYABLE
                        [] v = "COLLISION"   -> S_FAILED_PERMANENT

Recovered(l, spool, blind) ==
  [l EXCEPT
    !.row = [d \in Deliveries |-> [n \in AttemptNo |->
              IF @[d][n] = "STARTED"
              THEN AttemptOfVerdict(VerdictFor(spool, blind, d))
              ELSE @[d][n]]],
    !.status = [d \in Deliveries |->
                 IF d \in Orphans(l)
                 THEN StatusOfVerdict(VerdictFor(spool, blind, d))
                 ELSE @[d]],
    !.wait = [d \in Deliveries |-> IF d \in Orphans(l) THEN FALSE ELSE @[d]]]

\* Whether the dispatcher checkpoints after recovering them.
RecoveryCheckpoints(l, spool, blind) ==
  \E d \in Orphans(l) : VerdictFor(spool, blind, d) \in {"SPOOLED", "UNKNOWN"}

----------------------------------------------------------------------------
\* _ingest_receipts_for_dest, one file f: applied to a SPOOLED send,
\* consumed when the same bytes already gave the send its verdict, and
\* quarantined otherwise.
StateOfVerdict(v) == IF v = "ACCEPTED" THEN S_GATEWAY_ACCEPTED
                                       ELSE S_GATEWAY_REJECTED

\* MUTANT of Applies: the document is not validated.
AppliesUnchecked(l, f) == l.status[f.d] = S_SPOOLED

Applies(l, f) == f.doc.valid /\ l.status[f.d] = S_SPOOLED

Replayed(l, f) ==
  /\ f.doc.valid
  /\ l.status[f.d] \in GatewayStates
  /\ \E r \in l.receipts : /\ r.d = f.d
                           /\ r.doc = f.doc
                           /\ StateOfVerdict(r.st) = l.status[f.d]
                           /\ r.st \in {"ACCEPTED", "REJECTED"}

\* MUTANT of Applied: the row without the transition.
AppliedRowOnly(l, f) == AddReceipt(l, f.d, f.doc, f.doc.verdict)

Applied(l, f) ==
  SetStatus(AddReceipt(l, f.d, f.doc, f.doc.verdict), f.d,
            StateOfVerdict(f.doc.verdict), FALSE)

Quarantined(l, f) == AddReceipt(l, f.d, f.doc, "QUARANTINED")

Ingested(l, f) == CASE Applies(l, f)  -> Applied(l, f)
                    [] Replayed(l, f) -> l
                    [] OTHER          -> Quarantined(l, f)

----------------------------------------------------------------------------
\* ingest_fin_service_doc.  The sends with the MIR of the embedded copy, and
\* those of them its SEME, when it has one, is the message_reference of.
FinCandidates(l, f) == {d \in Known(l) : Mir[ContentOf(d)] = Mir[f.copy]}

FinBound(l, f) ==
  {d \in FinCandidates(l, f) :
     \/ f.seme = "none"
     \/ f.seme = "own" /\ Ref[ContentOf(d)] = Ref[f.copy]}

FinStatus(f) == IF f.kind = "ACK" THEN "SWIFT_ACK" ELSE "SWIFT_NAK"
FinState(f)  == IF f.kind = "ACK" THEN S_SWIFT_ACKED ELSE S_SWIFT_NAKED

Seen(l, d, f) == \E r \in l.receipts : r.d = d /\ r.doc = f

\* MUTANT of FinApplied: no regard for network evidence already there.
FinAppliedLast(l, d, f) ==
  IF Seen(l, d, f) \/ l.status[d] \notin DeliveredStates
  THEN l
  ELSE SetStatus(AddReceipt(l, d, f, FinStatus(f)), d, FinState(f), FALSE)

\* The one candidate d: the same bytes change nothing, network evidence
\* already there is kept, and only a handed-over send takes the verdict.
FinApplied(l, d, f) ==
  CASE Seen(l, d, f) -> l
    [] ~Seen(l, d, f) /\ l.status[d] \in SwiftStates ->
         AddReceipt(l, d, f, IF l.status[d] = FinState(f) THEN FinStatus(f)
                                                          ELSE "CONFLICTING")
    [] ~Seen(l, d, f) /\ l.status[d] \in {S_SPOOLED} \cup GatewayStates ->
         SetStatus(AddReceipt(l, d, f, FinStatus(f)), d, FinState(f), FALSE)
    [] OTHER -> AddReceipt(l, d, f, "QUARANTINED")

\* The ledgers the ingestion of f may leave: the row a mismatched SEME is
\* filed under is that of the first candidate, whichever it is.
FinIngested(l, f) ==
  LET cands == FinCandidates(l, f)
      bound == FinBound(l, f)
  IN  CASE f.kind = "UNUSABLE" \/ cands = {} ->
             {AddReceipt(l, NoDelivery, f, "QUARANTINED")}
        [] f.kind # "UNUSABLE" /\ cands # {} /\ bound = {} ->
             {AddReceipt(l, d, f, "CONFLICTING") : d \in cands}
        [] f.kind # "UNUSABLE" /\ Cardinality(bound) > 1 ->
             {[l EXCEPT !.receipts = @ \cup
                 {[d |-> d, doc |-> f, st |-> "AMBIGUOUS"] : d \in bound}]}
        [] OTHER -> {FinApplied(l, d, f) : d \in bound}

==============================================================================
