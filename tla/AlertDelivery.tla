---------------------------- MODULE AlertDelivery ----------------------------
(***************************************************************************)
(* The processes that work on the alert ledger: dispatcher passes          *)
(* (alert-deliver), the runs of the operational DAG that apply alerts to   *)
(* the outbox, and the operator's commands, under the run lock of module   *)
(* RunLock.  A destination gets its copy at once, whatever becomes of the  *)
(* transaction that records it.                                            *)
(***************************************************************************)
EXTENDS AlertTables, AlertAdapters, RunLock

CONSTANTS AdapterOf,  \* destination -> its adapter type
          Configs,    \* the sets of destinations a pass may find enabled
          NoDelivery,
          MaxRuns,    \* bound: runs that apply alerts
          MaxRetries  \* bound: delivery-retry commands per delivery

ASSUME AlertAssumption ==
  /\ AdapterOf \in [Dests -> AdapterTypes]
  /\ Configs \subseteq SUBSET Dests
  /\ NoDelivery \notin Delivery
  /\ MaxRuns \in Nat
  /\ MaxRetries \in Nat

VARIABLES
  copies,   \* delivery -> how many copies its destination got
  on,       \* the destinations a pass finds enabled
  touched,  \* the alerts it will aggregate
  seen,     \* the alerts that were in the outbox when it derived
  queue,    \* deliveries left of its list_deliveries() snapshot
  base,     \* attempt counts of that snapshot
  cur, end, \* the delivery it is working on, and how the attempt ended
  \* Bookkeeping of the model, read by no action of the program:
  runs, manual

locals == <<on, touched, seen, queue, base, cur, end>>
vars   == <<db, txn, holder, pc, resume, faults, copies, locals, runs, manual>>

Phases   == {"idle", "orphans", "derive", "scan", "loop", "deliver", "record",
             "done", "gap"}
Resumes  == {"idle", "derive", "scan", "deliver", "loop"}
NoEnd    == [cause |-> "none"]
ZeroBase == [d \in Delivery |-> 0]

TypeOK ==
  /\ db \in Ledger
  /\ txn \in Ledger
  /\ holder \in Procs \cup {Nobody}
  /\ pc \in [Procs -> Phases]
  /\ resume \in [Procs -> Resumes]
  /\ faults \in 0..MaxFaults
  /\ copies \in [Delivery -> Nat]
  /\ on \in [Procs -> SUBSET Dests]
  /\ touched \in [Procs -> SUBSET Alerts]
  /\ seen \in [Procs -> SUBSET Alerts]
  /\ queue \in [Procs -> SUBSET Delivery]
  /\ base \in [Procs -> [Delivery -> 0..MaxRows]]
  /\ cur \in [Procs -> Delivery \cup {NoDelivery}]
  /\ end \in [Procs -> AttemptEnd \cup {NoEnd}]
  /\ runs \in 0..MaxRuns
  /\ manual \in [Delivery -> 0..MaxRetries]

Init ==
  /\ db = EmptyLedger
  /\ txn = EmptyLedger
  /\ holder = Nobody
  /\ pc = [p \in Procs |-> "idle"]
  /\ resume = [p \in Procs |-> "idle"]
  /\ faults = 0
  /\ copies = [d \in Delivery |-> 0]
  /\ on = [p \in Procs |-> {}]
  /\ touched = [p \in Procs |-> {}]
  /\ seen = [p \in Procs |-> {}]
  /\ queue = [p \in Procs |-> {}]
  /\ base = [p \in Procs |-> ZeroBase]
  /\ cur = [p \in Procs |-> NoDelivery]
  /\ end = [p \in Procs |-> NoEnd]
  /\ runs = 0
  /\ manual = [d \in Delivery |-> 0]

----------------------------------------------------------------------------
(* The run lock, and what a pass loses with it.                            *)

World == <<copies, runs, manual>>

Forget(p) ==
  /\ on' = [on EXCEPT ![p] = {}]
  /\ touched' = [touched EXCEPT ![p] = {}]
  /\ seen' = [seen EXCEPT ![p] = {}]
  /\ queue' = [queue EXCEPT ![p] = {}]
  /\ base' = [base EXCEPT ![p] = ZeroBase]
  /\ cur' = [cur EXCEPT ![p] = NoDelivery]
  /\ end' = [end EXCEPT ![p] = NoEnd]

Release(p) == Yield(p) /\ Forget(p) /\ UNCHANGED <<World, faults>>

Start(p) ==
  /\ Acquire(p, "orphans")
  /\ \E c \in Configs : on' = [on EXCEPT ![p] = c]
  /\ UNCHANGED <<World, touched, seen, queue, base, cur, end>>

Reacquire(p) == Regain(p) /\ UNCHANGED <<World, locals>>

LockLost(p) == Lose(p) /\ Forget(p) /\ UNCHANGED World

Crash(p) == Die(p) /\ Forget(p) /\ UNCHANGED World

----------------------------------------------------------------------------
(* A dispatcher pass (run_alert_deliver).                                  *)

\* The pass goes on to phase next with tables l, after a checkpoint or not.
Proceed(p, l, next, checkpointed) ==
  /\ IF checkpointed
     THEN Checkpoint(p, l, next)
     ELSE /\ txn' = l
          /\ Goto(p, next)
          /\ UNCHANGED <<db, holder, resume>>
  /\ UNCHANGED <<World, faults>>

MarkOrphans(p) ==
  /\ At(p, "orphans")
  /\ Proceed(p, OrphansMarked(txn), "derive", Orphans(txn) # {})
  /\ UNCHANGED locals

\* An alert at a time, oldest first; the deliveries get their payload here.
Derive(p) ==
  /\ At(p, "derive")
  /\ TooLarge(txn, on[p]) = {}
  /\ Proceed(p, Inserted(txn, New(txn, on[p])), "scan", New(txn, on[p]) # {})
  /\ touched' = [touched EXCEPT ![p] = Touched(txn, on[p])]
  /\ seen' = [seen EXCEPT ![p] = {a \in Alerts : txn.outbox[a].state # "ABSENT"}]
  /\ UNCHANGED <<on, queue, base, cur, end>>

\* An oversized payload ends the pass with an exception.  A: the alerts it
\* derived before; their rows are committed on the way out.
DeriveRaises(p, A) ==
  /\ At(p, "derive")
  /\ TooLarge(txn, on[p]) # {}
  /\ \A d \in TooLarge(txn, on[p]) : d.alert \notin A
  /\ Proceed(p, Inserted(txn, {d \in New(txn, on[p]) : d.alert \in A}), "done",
             FALSE)
  /\ UNCHANGED locals

\* list_deliveries(): the pass works on this snapshot until it ends.  only:
\* all deliveries, or the one named by --delivery-key.
Scan(p) ==
  /\ At(p, "scan")
  /\ \E elapsed \in SUBSET {d \in Delivery : txn.status[d] = D_FAILED_RETRYABLE} :
     \E only \in {Delivery} \cup {{d} : d \in Known(txn)} :
       queue' = [queue EXCEPT ![p] = {d \in only : /\ Eligible(txn, d, elapsed)
                                                   /\ d.dest \in on[p]
                                                   /\ d.alert \in seen[p]}]
  /\ base' = [base EXCEPT ![p] = txn.count]
  /\ Proceed(p, txn, "loop", FALSE)
  /\ UNCHANGED <<on, touched, seen, cur, end>>

\* The notices of one alert to one destination go out oldest first.
Oldest(S) == {d \in S : \A e \in S : e.alert = d.alert /\ e.dest = d.dest =>
                                       txn.gen[d] <= txn.gen[e]}

Take(p, d) ==
  /\ cur' = [cur EXCEPT ![p] = d]
  /\ queue' = [queue EXCEPT ![p] = @ \ {d}]
  /\ UNCHANGED <<on, touched, seen, base, end>>

\* STARTED is durable before the side effect.
StartAttempt(p, d) ==
  /\ At(p, "loop")
  /\ d \in Oldest(queue[p])
  /\ base[p][d] < MaxRows
  /\ txn.row[d][base[p][d] + 1] = NoRow
  /\ Proceed(p, Started(txn, d, base[p][d] + 1), "deliver", TRUE)
  /\ Take(p, d)

\* The attempt number is taken: attempt_id is the primary key, the insert
\* raises and the pass ends.
AttemptTaken(p, d) ==
  /\ At(p, "loop")
  /\ d \in Oldest(queue[p])
  /\ base[p][d] < MaxRows
  /\ txn.row[d][base[p][d] + 1] # NoRow
  /\ Release(p)

\* The adapter's attempt: the destination gets a copy, or does not.
Deliver(p) ==
  /\ At(p, "deliver")
  /\ \E e \in AttemptEnds(AdapterOf[cur[p].dest], copies[cur[p]] > 0) :
       /\ end' = [end EXCEPT ![p] = e]
       /\ copies' = IF e.arrives THEN [copies EXCEPT ![cur[p]] = @ + 1] ELSE copies
  /\ Goto(p, "record")
  /\ UNCHANGED <<db, txn, holder, resume, faults, on, touched, seen,
                 queue, base, cur, runs, manual>>

Record(p) ==
  /\ At(p, "record")
  /\ Proceed(p, Recorded(txn, cur[p], base[p][cur[p]] + 1, end[p].outcome), "loop",
             TRUE)
  /\ touched' = [touched EXCEPT ![p] = @ \cup {cur[p].alert}]
  /\ cur' = [cur EXCEPT ![p] = NoDelivery]
  /\ end' = [end EXCEPT ![p] = NoEnd]
  /\ UNCHANGED <<on, seen, queue, base>>

\* _recompute_aggregate, before the last checkpoint.
Conclude(p) ==
  /\ At(p, "loop")
  /\ queue[p] = {}
  /\ Proceed(p, Aggregated(txn, touched[p], on[p]), "done", FALSE)
  /\ UNCHANGED locals

Finish(p) == At(p, "done") /\ Release(p)

----------------------------------------------------------------------------
(* One-shot commands: lock, one ledger function, commit, release.          *)

Command(l) ==
  /\ holder = Nobody
  /\ Commit(l)
  /\ UNCHANGED <<holder, pc, resume, faults, copies, locals>>

\* A run of the DAG evaluates some categories and finds some of their alerts.
ApplyAlerts(evaluated, cands) ==
  /\ runs < MaxRuns
  /\ \A a \in DOMAIN cands : Category[a] \in evaluated
  /\ Command(AlertsApplied(db, cands, evaluated))
  /\ runs' = runs + 1
  /\ UNCHANGED manual

DeliveryRetry(d, force) ==
  /\ MayRetry(db, d, force)
  /\ manual[d] < MaxRetries
  /\ Command(Retried(db, d))
  /\ manual' = [manual EXCEPT ![d] = @ + 1]
  /\ UNCHANGED runs

DeliveryAbandon(d) ==
  /\ MayAbandon(db, d)
  /\ Command(Abandoned(db, d))
  /\ UNCHANGED <<runs, manual>>

----------------------------------------------------------------------------
Step(p) ==
  \/ Start(p) \/ Reacquire(p)
  \/ MarkOrphans(p) \/ Derive(p) \/ Scan(p)
  \/ \E A \in SUBSET Alerts : DeriveRaises(p, A)
  \/ \E d \in Delivery : StartAttempt(p, d) \/ AttemptTaken(p, d)
  \/ Deliver(p) \/ Record(p) \/ Conclude(p) \/ Finish(p)

Run ==
  \E evaluated \in (SUBSET Categories) \ {{}}, A \in SUBSET Alerts :
    \E cands \in [A -> Facts] : ApplyAlerts(evaluated, cands)

Operator ==
  \/ \E d \in Delivery, force \in BOOLEAN : DeliveryRetry(d, force)
  \/ \E d \in Delivery : DeliveryAbandon(d)

Next ==
  \/ \E p \in Procs : Step(p) \/ LockLost(p) \/ Crash(p)
  \/ Run
  \/ Operator

Spec == Init /\ [][Next]_vars

----------------------------------------------------------------------------
(* What must hold whatever passes overlap.                                 *)

\* No delivery is DELIVERED unless its destination got a copy: neither a lost
\* answer, nor an orphaned attempt, nor a stale pass reports a notice that
\* nobody received (the adapters, _record_attempt, _mark_orphan_attempts).
DeliveredBacked ==
  \A l \in {db, txn} : \A d \in Delivery :
    l.status[d] = D_DELIVERED => copies[d] > 0

\* The attempts of a delivery are numbered 1..attempt_count, each number once,
\* although a pass derives the next one from a snapshot that other passes may
\* have outrun (the snapshot of list_deliveries, the key attempt_id).
AttemptsNumbered ==
  \A l \in {db, txn} : \A d \in Delivery : \A n \in AttemptNo :
    l.row[d][n] # NoRow <=> n <= l.count[d]

\* An open alert whose delivery_state is DELIVERED has been told, as it is
\* now, to every destination of some configuration, although destinations
\* come and go between passes and runs change alerts during them
\* (_recompute_aggregate).
OpenDeliveredIsTold ==
  \A a \in Alerts :
    db.outbox[a].state = "OPEN" /\ db.outbox[a].ds = "DELIVERED" =>
      \E audience \in {Routed(a, c) : c \in Configs} \ {{}} :
        \A x \in audience : copies[Key(db, a, x)] > 0

Involved(d) == \/ \E n \in AttemptNo : db.row[d][n] = "STARTED"
               \/ \E p \in Procs : d \in queue[p] \cup {cur[p]}

\* A delivery that is DELIVERED or ABANDONED stays so, once no pass has it in
\* its snapshot and no attempt of it was left STARTED (_is_eligible,
\* delivery_retry, delivery_abandon).
SettledStays ==
  [][\A d \in Delivery :
       db.status[d] \in {D_DELIVERED, D_ABANDONED} /\ ~Involved(d) =>
         db'.status[d] = db.status[d]]_vars

----------------------------------------------------------------------------
(* What the run lock is there for: with one dispatcher at a time, also when *)
(* runs and operators slip in between its checkpoints.                      *)

\* At most one attempt is open in the whole ledger: what a crash left STARTED
\* is closed before the next pass starts another (_mark_orphan_attempts).
OneOpenAttempt ==
  \A l \in {db, txn} :
    Cardinality({a \in Delivery \X AttemptNo : l.row[a[1]][a[2]] = "STARTED"}) <= 1

\* While the adapter runs, the attempt it runs for is durably STARTED.
StartedBeforeSideEffect ==
  \A p \in Procs :
    pc[p] \in {"deliver", "record"} =>
      db.row[cur[p]][base[p][cur[p]] + 1] = "STARTED"

\* The attempts are in order while one dispatcher runs at a time.
AttemptDiscipline == AttemptsNumbered /\ OneOpenAttempt /\ StartedBeforeSideEffect

\* A file is written once, and mail goes out twice only when an operator asked
\* for it: no order of crashes, time-outs, recoveries and retries repeats a
\* notice by itself.  (A webhook may: its receiver has the Idempotency-Key.)
NoSilentDuplicate ==
  \A d \in Delivery :
    CASE AdapterOf[d.dest] = "file"    -> copies[d] <= 1
      [] AdapterOf[d.dest] = "smtp"    -> copies[d] <= 1 + manual[d]
      [] AdapterOf[d.dest] = "webhook" -> TRUE

\* What the outbox promises (module Notice), when everybody in Dests is
\* enabled all the time.
Promise == INSTANCE Notice WITH
  Audience <- [a \in Alerts |-> Routed(a, Dests)],
  told <- [a \in Alerts |->
             {<<d.state, d.facts, d.dest>> :
                d \in {e \in Delivery : e.alert = a /\ copies[e] > 0}}],
  view <- db.outbox

\* delivery_state is DELIVERED only when every destination of the alert got a
\* copy of what the alert says at that moment, it is rearmed by every change,
\* and an open alert keeps it until then (apply_alerts, _recompute_aggregate).
KeepsNotice == Promise!Spec

----------------------------------------------------------------------------
(* Progress, when passes are scheduled again and again.                    *)

\* A pass without --delivery-key at a time when every backoff is over.
FullScan(p) ==
  Scan(p) /\ \A d \in Delivery : (/\ Eligible(txn, d, Delivery)
                                  /\ d.dest \in on[p]
                                  /\ d.alert \in seen[p]) => d \in queue'[p]

Fairness == \A p \in Procs : SF_vars(Step(p)) /\ SF_vars(FullScan(p))

FairSpec == Spec /\ Fairness

\* An alert that is open and waits to be told is told, or its delivery has
\* failed or is in doubt, or it says something else by then.
OpenIsSettled ==
  \A a \in Alerts, f \in Facts :
    (/\ db.outbox[a] = Opened(f)
     /\ Routed(a, Dests) # {}) ~>
       \/ db.outbox[a] # Opened(f)
       \/ \E x \in Routed(a, Dests) : db.status[Key(db, a, x)] = D_UNKNOWN

----------------------------------------------------------------------------
(* What the documents and comments say, and the code does not keep.        *)

\* "mismo hecho + mismo destino -> mismo delivery_key -> nunca re-envio tras
\* DELIVERED" (p100).
DeliveredNotResent ==
  [][\A d \in Delivery : db.status[d] = D_DELIVERED => copies'[d] = copies[d]]_vars

\* "max_payload_bytes excedido -> fila FAILED_PERMANENT PAYLOAD_TOO_LARGE sin
\* intento" (p107).
TooLargeIsRefused ==
  \A a \in Alerts, f \in Oversized :
    (/\ db.outbox[a] = Opened(f)
     /\ Routed(a, Dests) # {}) ~>
       \/ db.outbox[a] # Opened(f)
       \/ \A x \in Routed(a, Dests) :
            db.status[Key(db, a, x)] = D_FAILED_PERMANENT

==============================================================================
