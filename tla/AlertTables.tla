----------------------------- MODULE AlertTables -----------------------------
(***************************************************************************)
(* The alert ledger as data: the tables outbox, deliveries and             *)
(* delivery_attempts of ops.db, and what apply_alerts                      *)
(* (src/ca_es/ops_alerts.py) and the functions of                          *)
(* src/ca_es/ops_delivery.py make of them in one transaction.  Who calls   *)
(* them is in AlertDelivery.                                               *)
(*                                                                         *)
(* A delivery key is the digest of (alert, state, facts, destination); it  *)
(* is that record here, the facts being the semantic_sha256 of the alert.  *)
(* wait[d] holds while next_attempt_after lies in the future of the        *)
(* transaction that set it.                                                *)
(***************************************************************************)
EXTENDS Naturals, FiniteSets

CONSTANTS Alerts,       \* alert keys
          Facts,        \* what an alert may say (its semantic_sha256)
          Dests,        \* the destinations of the configuration
          Category,     \* alert -> its category
          Routes,       \* destination -> the categories it takes
          NotifyOn,     \* payload_policy: the notices that are on
          Oversized,    \* facts whose payload exceeds max_payload_bytes
          MaxAttempts,  \* retry.max_attempts
          MaxRows       \* bound: attempt rows of one delivery

Categories == {Category[a] : a \in Alerts}
Notices    == {"OPEN", "CHANGE", "CLEAR"}

ASSUME AlertTablesAssumption ==
  /\ IsFiniteSet(Alerts) /\ IsFiniteSet(Facts) /\ IsFiniteSet(Dests)
  /\ Facts # {}
  /\ NotifyOn \subseteq Notices
  /\ MaxAttempts \in Nat \ {0}
  /\ MaxRows \in Nat \ {0}

Delivery  == [alert: Alerts, state: {"OPEN", "CLEARED"}, facts: Facts,
              dest: Dests]
AttemptNo == 1..MaxRows

D_NONE             == "NOT_DERIVED"    \* no row in deliveries
D_PENDING          == "PENDING"
D_DELIVERED        == "DELIVERED"
D_FAILED_RETRYABLE == "FAILED_RETRYABLE"
D_FAILED_PERMANENT == "FAILED_PERMANENT"
D_UNKNOWN          == "UNKNOWN_OUTCOME"
D_ABANDONED        == "ABANDONED"
DeliveryStatus == {D_NONE, D_PENDING, D_DELIVERED, D_FAILED_RETRYABLE,
                   D_FAILED_PERMANENT, D_UNKNOWN, D_ABANDONED}

NoRow         == "NO_ROW"
AttemptStatus == {NoRow, "STARTED", "SUCCEEDED", "FAILED", "UNKNOWN"}

\* A row of outbox; ABSENT stands for no row.
AlertRow == [state: {"ABSENT", "OPEN", "CLEARED"}, facts: Facts,
             ds: {"PENDING_DELIVERY", "DELIVERED", "FAILED_DELIVERY"}]

Ledger == [outbox: [Alerts -> AlertRow],
           status: [Delivery -> DeliveryStatus],
           gen:    [Delivery -> Nat],
           count:  [Delivery -> 0..MaxRows],
           wait:   [Delivery -> BOOLEAN],
           row:    [Delivery -> [AttemptNo -> AttemptStatus]]]

AbsentAlert ==
  [state |-> "ABSENT", facts |-> CHOOSE f \in Facts : TRUE,
   ds |-> "PENDING_DELIVERY"]

EmptyLedger ==
  [outbox |-> [a \in Alerts |-> AbsentAlert],
   status |-> [d \in Delivery |-> D_NONE],
   gen    |-> [d \in Delivery |-> 0],
   count  |-> [d \in Delivery |-> 0],
   wait   |-> [d \in Delivery |-> FALSE],
   row    |-> [d \in Delivery |-> [n \in AttemptNo |-> NoRow]]]

Known(l) == {d \in Delivery : l.status[d] # D_NONE}

----------------------------------------------------------------------------
\* apply_alerts: the candidates cands (alert -> facts) are opened, reopened or
\* changed, and rearmed then; the alerts of the evaluated categories that are
\* no candidates any more are cleared.  An alert that says the same is left
\* alone.
Opened(f) == [state |-> "OPEN", facts |-> f, ds |-> "PENDING_DELIVERY"]

\* MUTANT of Observed: an alert whose facts changed is not rearmed.
ObservedUnarmed(row, f) ==
  IF row.state = "OPEN" THEN [row EXCEPT !.facts = f] ELSE Opened(f)

Observed(row, f) ==
  IF row.state = "OPEN" /\ row.facts = f THEN row ELSE Opened(f)

AlertsApplied(l, cands, evaluated) ==
  [l EXCEPT !.outbox = [a \in Alerts |->
     IF a \in DOMAIN cands
     THEN Observed(@[a], cands[a])
     ELSE IF @[a].state = "OPEN" /\ Category[a] \in evaluated
          THEN [@[a] EXCEPT !.state = "CLEARED"]
          ELSE @[a]]]

----------------------------------------------------------------------------
\* The derivation of run_alert_deliver, for the enabled destinations on.
Routed(a, on) == {x \in on : Category[a] \in Routes[x]}

Notified(l) == {a \in Alerts : \/ l.outbox[a].state = "OPEN"
                               \/ /\ l.outbox[a].state = "CLEARED"
                                  /\ "CLEAR" \in NotifyOn}

\* The alerts whose aggregate the pass recomputes at its end.
Touched(l, on) == {a \in Notified(l) : Routed(a, on) # {}}

\* derive_delivery_key
Key(l, a, x) ==
  [alert |-> a, state |-> l.outbox[a].state, facts |-> l.outbox[a].facts,
   dest |-> x]

NextGen(l, d) ==
  Cardinality({e \in Known(l) : e.alert = d.alert /\ e.dest = d.dest}) + 1

Gate(l, d) == CASE d.state = "CLEARED"                     -> "CLEAR"
                [] d.state = "OPEN" /\ NextGen(l, d) = 1   -> "OPEN"
                [] d.state = "OPEN" /\ NextGen(l, d) # 1   -> "CHANGE"

\* _derive_for_alert: the deliveries it finds no row for and whose notice is
\* on ...
New(l, on) ==
  {d \in Delivery \ Known(l) :
     /\ d.alert \in Notified(l)
     /\ d.dest \in Routed(d.alert, on)
     /\ d = Key(l, d.alert, d.dest)
     /\ Gate(l, d) \in NotifyOn}

\* ... and those of them for which it raises instead of inserting one: the
\* insert for a payload over max_payload_bytes has 12 values for 13 columns.
TooLarge(l, on) == {d \in New(l, on) : d.facts \in Oversized}

Inserted(l, D) ==
  [l EXCEPT
    !.status = [d \in Delivery |-> IF d \in D THEN D_PENDING ELSE @[d]],
    !.gen = [d \in Delivery |-> IF d \in D THEN NextGen(l, d) ELSE @[d]]]

----------------------------------------------------------------------------
\* _set_delivery_status: next_attempt_after is written when it is given, or
\* for PENDING; otherwise it stays.
SetStatus(l, d, s) ==
  [l EXCEPT !.status[d] = s,
            !.wait[d] = CASE s = D_FAILED_RETRYABLE -> TRUE
                          [] s = D_PENDING          -> FALSE
                          [] OTHER                  -> @]

Orphans(l) == {d \in Delivery : \E n \in AttemptNo : l.row[d][n] = "STARTED"}

\* MUTANT of OrphansMarked: only where the delivery still waits.
OrphansOfPending(l) ==
  LET waiting == {d \in Delivery : l.status[d] = D_PENDING}
  IN  [l EXCEPT
        !.row = [d \in Delivery |-> [n \in AttemptNo |->
                  IF @[d][n] = "STARTED" /\ d \in waiting THEN "UNKNOWN"
                                                          ELSE @[d][n]]],
        !.status = [d \in Delivery |->
                     IF d \in Orphans(l) \cap waiting THEN D_UNKNOWN ELSE @[d]]]

\* MUTANT of OrphansMarked: what was under way is tried again.
OrphansRetried(l) ==
  [l EXCEPT
    !.row = [d \in Delivery |-> [n \in AttemptNo |->
              IF @[d][n] = "STARTED" THEN "FAILED" ELSE @[d][n]]],
    !.status = [d \in Delivery |->
                 IF d \in Orphans(l) THEN D_PENDING ELSE @[d]]]

\* _mark_orphan_attempts: every attempt left STARTED, whatever the status of
\* its delivery.
OrphansMarked(l) ==
  [l EXCEPT
    !.row = [d \in Delivery |-> [n \in AttemptNo |->
              IF @[d][n] = "STARTED" THEN "UNKNOWN" ELSE @[d][n]]],
    !.status = [d \in Delivery |->
                 IF d \in Orphans(l) THEN D_UNKNOWN ELSE @[d]]]

\* MUTANT of Eligible: one attempt short.
EligibleOneShort(l, d, elapsed) ==
  \/ l.status[d] = D_PENDING
  \/ l.status[d] = D_FAILED_RETRYABLE /\ l.count[d] + 1 < MaxAttempts

\* _is_eligible.  elapsed: the deliveries whose backoff is over by now.
Eligible(l, d, elapsed) ==
  \/ l.status[d] = D_PENDING
  \/ /\ l.status[d] = D_FAILED_RETRYABLE
     /\ l.count[d] < MaxAttempts
     /\ l.wait[d] => d \in elapsed

\* The dispatcher's insert of attempt n and its update of attempt_count.
Started(l, d, n) == [l EXCEPT !.row[d][n] = "STARTED", !.count[d] = n]

AttemptAfter(o) == CASE o = "SUCCEEDED" -> "SUCCEEDED"
                     [] o = "UNKNOWN"   -> "UNKNOWN"
                     [] OTHER           -> "FAILED"

StatusAfter(o, n) ==
  CASE o = "SUCCEEDED"        -> D_DELIVERED
    [] o = "UNKNOWN"          -> D_UNKNOWN
    [] o = "FAILED_PERMANENT" -> D_FAILED_PERMANENT
    [] o = "FAILED_RETRYABLE" -> IF n >= MaxAttempts THEN D_FAILED_PERMANENT
                                                     ELSE D_FAILED_RETRYABLE

\* _record_attempt
Recorded(l, d, n, o) ==
  SetStatus([l EXCEPT !.row[d][n] = AttemptAfter(o)], d, StatusAfter(o, n))

\* _recompute_aggregate: the delivery_state of an alert from the rows of its
\* present version; it stays when there are none.
Version(l, a, on) == {Key(l, a, x) : x \in Routed(a, on)} \cap Known(l)

\* MUTANT of Aggregate: whether anything was delivered.
AggregateSome(l, a, on) ==
  LET statuses == {l.status[d] : d \in Version(l, a, on)}
  IN  CASE statuses = {}            -> l.outbox[a].ds
        [] D_DELIVERED \in statuses -> "DELIVERED"
        [] OTHER                    -> "PENDING_DELIVERY"

Aggregate(l, a, on) ==
  LET statuses == {l.status[d] : d \in Version(l, a, on)}
  IN  CASE statuses = {}            -> l.outbox[a].ds
        [] statuses = {D_DELIVERED} -> "DELIVERED"
        [] statuses \cap {D_FAILED_PERMANENT, D_ABANDONED} # {} ->
             "FAILED_DELIVERY"
        [] OTHER                    -> "PENDING_DELIVERY"

Aggregated(l, touched, on) ==
  [l EXCEPT !.outbox = [a \in Alerts |->
     IF a \in touched THEN [@[a] EXCEPT !.ds = Aggregate(l, a, on)] ELSE @[a]]]

----------------------------------------------------------------------------
\* delivery_retry: UNKNOWN_OUTCOME only when forced.
MayRetry(l, d, force) ==
  /\ l.status[d] \notin {D_NONE, D_DELIVERED, D_ABANDONED}
  /\ l.status[d] = D_UNKNOWN => force

\* MUTANT of Retried: the pending status of the send queue.
RetriedAsSend(l, d) == SetStatus(l, d, "PREPARED")

Retried(l, d) == SetStatus(l, d, D_PENDING)

\* MUTANT of MayAbandon: also what has been delivered.
MayAbandonAny(l, d) == l.status[d] # D_NONE

\* delivery_abandon
MayAbandon(l, d) == l.status[d] \notin {D_NONE, D_DELIVERED}

Abandoned(l, d) == SetStatus(l, d, D_ABANDONED)

==============================================================================
