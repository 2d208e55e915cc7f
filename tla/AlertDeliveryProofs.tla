------------------------- MODULE AlertDeliveryProofs -------------------------
(***************************************************************************)
(* Theorems about AlertDelivery, for every number of alerts, facts,        *)
(* destinations, dispatchers, runs, retries and faults, every routing and  *)
(* every mix of adapters.                                                  *)
(***************************************************************************)
EXTENDS AlertDelivery, FiniteSetTheorems, TLAPS

USE AlertTablesAssumption, LockAssumption, AlertAssumption
    DEF AlertTablesAssumption, LockAssumption, AlertAssumption

----------------------------------------------------------------------------
(* The ledger functions stay within the tables' types.                     *)

\* There are finitely many delivery keys.
LEMMA DeliveryFinite == IsFiniteSet(Delivery)
<1> DEFINE S == {"OPEN", "CLEARED"}
           T == (Alerts \X S) \X (Facts \X Dests)
           code == [d \in Delivery |-> <<<<d.alert, d.state>>, <<d.facts, d.dest>>>>]
<1>1. IsFiniteSet(S)
  <2>1. IsFiniteSet({"OPEN"})
    BY FS_Singleton
  <2>2. IsFiniteSet({"OPEN"} \cup {"CLEARED"})
    BY <2>1, FS_AddElement
  <2>3. S = {"OPEN"} \cup {"CLEARED"}
    OBVIOUS
  <2> QED
    BY <2>2, <2>3
<1>2. IsFiniteSet(Alerts \X S) /\ IsFiniteSet(Facts \X Dests)
  BY <1>1, FS_Product
<1>3. IsFiniteSet(T)
  BY <1>2, FS_Product
<1>4. code \in [Delivery -> T]
  BY DEF Delivery
<1>5. ASSUME NEW d \in Delivery, NEW e \in Delivery, code[d] = code[e]
      PROVE  d = e
  <2>1. /\ d.alert = e.alert /\ d.state = e.state
        /\ d.facts = e.facts /\ d.dest = e.dest
    BY <1>5
  <2> QED
    BY <2>1 DEF Delivery
<1>6. code \in Injection(Delivery, T)
  BY <1>4, <1>5 DEF Injection, IsInjective
<1> HIDE DEF T, code
<1> QED
  BY <1>3, <1>6, FS_Injection

\* The number of a generation is a natural number.
LEMMA NextGenType ==
  ASSUME NEW l, NEW d \in Delivery
  PROVE  NextGen(l, d) \in Nat
<1> DEFINE S == {e \in Known(l) : e.alert = d.alert /\ e.dest = d.dest}
<1>1. S \in SUBSET Delivery
  BY DEF Known
<1>2. Cardinality(S) \in Nat
  BY <1>1, DeliveryFinite, FS_Subset, FS_CardinalityType
<1>3. NextGen(l, d) = Cardinality(S) + 1
  BY DEF NextGen
<1> HIDE DEF S
<1> QED
  BY <1>2, <1>3

\* A fresh ops.db has the types of the tables.
LEMMA EmptyLedgerType == EmptyLedger \in Ledger
<1>1. AbsentAlert \in AlertRow
  BY DEF AbsentAlert, AlertRow
<1> QED
  BY <1>1 DEF EmptyLedger, Ledger, DeliveryStatus, AttemptStatus

\* apply_alerts keeps the types of the tables.
LEMMA AlertsAppliedType ==
  ASSUME NEW l \in Ledger, NEW A \in SUBSET Alerts, NEW cands \in [A -> Facts],
         NEW evaluated
  PROVE  AlertsApplied(l, cands, evaluated) \in Ledger
<1>1. l.outbox \in [Alerts -> AlertRow]
  BY DEF Ledger
<1>2. \A a \in A : Observed(l.outbox[a], cands[a]) \in AlertRow
  BY <1>1 DEF Observed, Opened, AlertRow
<1>3. \A a \in Alerts : [l.outbox[a] EXCEPT !.state = "CLEARED"] \in AlertRow
  BY <1>1 DEF AlertRow
<1> DEFINE o == [a \in Alerts |->
                  IF a \in DOMAIN cands THEN Observed(l.outbox[a], cands[a])
                  ELSE IF l.outbox[a].state = "OPEN" /\ Category[a] \in evaluated
                       THEN [l.outbox[a] EXCEPT !.state = "CLEARED"]
                       ELSE l.outbox[a]]
<1>4. o \in [Alerts -> AlertRow]
  BY <1>1, <1>2, <1>3
<1>5. AlertsApplied(l, cands, evaluated) = [l EXCEPT !.outbox = o]
  BY DEF AlertsApplied
<1> HIDE DEF o
<1> QED
  BY <1>4, <1>5 DEF Ledger

\* _derive_for_alert keeps the types of the tables.
LEMMA InsertedType ==
  ASSUME NEW l \in Ledger, NEW D
  PROVE  Inserted(l, D) \in Ledger
<1> DEFINE s == [d \in Delivery |-> IF d \in D THEN D_PENDING ELSE l.status[d]]
           g == [d \in Delivery |-> IF d \in D THEN NextGen(l, d) ELSE l.gen[d]]
<1>1. s \in [Delivery -> DeliveryStatus]
  BY DEF Ledger, DeliveryStatus
<1>2. g \in [Delivery -> Nat]
  BY NextGenType DEF Ledger
<1>3. Inserted(l, D) = [l EXCEPT !.status = s, !.gen = g]
  BY DEF Inserted
<1> HIDE DEF s, g
<1> QED
  BY <1>1, <1>2, <1>3 DEF Ledger

\* _set_delivery_status keeps the types of the tables.
LEMMA SetStatusType ==
  ASSUME NEW l \in Ledger, NEW d \in Delivery, NEW s \in DeliveryStatus
  PROVE  /\ SetStatus(l, d, s) \in Ledger
         /\ SetStatus(l, d, s).row = l.row
         /\ SetStatus(l, d, s).count = l.count
         /\ SetStatus(l, d, s).status = [l.status EXCEPT ![d] = s]
<1> DEFINE w == CASE s = D_FAILED_RETRYABLE -> TRUE
                  [] s = D_PENDING          -> FALSE
                  [] OTHER                  -> l.wait[d]
<1>1. w \in BOOLEAN
  BY DEF Ledger, D_FAILED_RETRYABLE, D_PENDING
<1>2. SetStatus(l, d, s) = [l EXCEPT !.status[d] = s, !.wait[d] = w]
  BY DEF SetStatus
<1> HIDE DEF w
<1>3. [l EXCEPT !.status[d] = s, !.wait[d] = w] \in Ledger
  BY <1>1 DEF Ledger
<1> QED
  BY <1>2, <1>3 DEF Ledger

\* _mark_orphan_attempts keeps the types of the tables.
LEMMA OrphansMarkedType ==
  ASSUME NEW l \in Ledger
  PROVE  OrphansMarked(l) \in Ledger
<1> DEFINE r == [d \in Delivery |-> [n \in AttemptNo |->
                  IF l.row[d][n] = "STARTED" THEN "UNKNOWN" ELSE l.row[d][n]]]
           s == [d \in Delivery |->
                  IF d \in Orphans(l) THEN D_UNKNOWN ELSE l.status[d]]
<1>1. r \in [Delivery -> [AttemptNo -> AttemptStatus]]
  BY DEF Ledger, AttemptStatus
<1>2. s \in [Delivery -> DeliveryStatus]
  BY DEF Ledger, DeliveryStatus
<1>3. OrphansMarked(l) = [l EXCEPT !.row = r, !.status = s]
  BY DEF OrphansMarked
<1> HIDE DEF r, s
<1> QED
  BY <1>1, <1>2, <1>3 DEF Ledger

\* Inserting a STARTED attempt keeps the types of the tables.
LEMMA StartedType ==
  ASSUME NEW l \in Ledger, NEW d \in Delivery, NEW n \in AttemptNo
  PROVE  Started(l, d, n) \in Ledger
<1>1. n \in 0..MaxRows /\ "STARTED" \in AttemptStatus
  BY DEF AttemptNo, AttemptStatus
<1>2. [l.row EXCEPT ![d][n] = "STARTED"] \in [Delivery -> [AttemptNo -> AttemptStatus]]
  BY <1>1 DEF Ledger
<1>3. [l.count EXCEPT ![d] = n] \in [Delivery -> 0..MaxRows]
  BY <1>1 DEF Ledger
<1> QED
  BY <1>2, <1>3 DEF Started, Ledger

\* _record_attempt has a status for every outcome of an adapter, and DELIVERED
\* for success only.
LEMMA StatusAfterType ==
  ASSUME NEW o \in AlertOutcomes, NEW n \in Nat
  PROVE  /\ StatusAfter(o, n) \in DeliveryStatus
         /\ StatusAfter(o, n) = D_DELIVERED => o = "SUCCEEDED"
         /\ AttemptAfter(o) \in AttemptStatus \ {NoRow}
BY DEF StatusAfter, AttemptAfter, AlertOutcomes, DeliveryStatus, AttemptStatus,
       NoRow, D_DELIVERED, D_FAILED_RETRYABLE, D_FAILED_PERMANENT, D_UNKNOWN

\* _record_attempt keeps the types of the tables.
LEMMA RecordedType ==
  ASSUME NEW l \in Ledger, NEW d \in Delivery, NEW n \in AttemptNo,
         NEW o \in AlertOutcomes
  PROVE  Recorded(l, d, n, o) \in Ledger
<1>1. [l EXCEPT !.row[d][n] = AttemptAfter(o)] \in Ledger
  BY StatusAfterType DEF Ledger, AttemptNo
<1>2. StatusAfter(o, n) \in DeliveryStatus
  BY StatusAfterType DEF AttemptNo
<1> QED
  BY <1>1, <1>2, SetStatusType DEF Recorded

\* _recompute_aggregate keeps the types of the tables.
LEMMA AggregatedType ==
  ASSUME NEW l \in Ledger, NEW A, NEW enabled
  PROVE  Aggregated(l, A, enabled) \in Ledger
<1>1. l.outbox \in [Alerts -> AlertRow]
  BY DEF Ledger
<1>2. \A a \in Alerts :
        Aggregate(l, a, enabled) \in {"PENDING_DELIVERY", "DELIVERED", "FAILED_DELIVERY"}
  <2> SUFFICES ASSUME NEW a \in Alerts
               PROVE  Aggregate(l, a, enabled)
                        \in {"PENDING_DELIVERY", "DELIVERED", "FAILED_DELIVERY"}
    OBVIOUS
  <2>1. l.outbox[a].ds \in {"PENDING_DELIVERY", "DELIVERED", "FAILED_DELIVERY"}
    BY <1>1 DEF AlertRow
  <2> DEFINE statuses == {l.status[d] : d \in Version(l, a, enabled)}
  <2>2. Aggregate(l, a, enabled) =
          CASE statuses = {}            -> l.outbox[a].ds
            [] statuses = {D_DELIVERED} -> "DELIVERED"
            [] statuses \cap {D_FAILED_PERMANENT, D_ABANDONED} # {} ->
                 "FAILED_DELIVERY"
            [] OTHER                    -> "PENDING_DELIVERY"
    BY DEF Aggregate
  <2> HIDE DEF statuses
  <2>3. \/ statuses = {}
        \/ statuses = {D_DELIVERED}
        \/ statuses \cap {D_FAILED_PERMANENT, D_ABANDONED} # {}
        \/ statuses # {} /\ statuses # {D_DELIVERED}
           /\ ~(statuses \cap {D_FAILED_PERMANENT, D_ABANDONED} # {})
    OBVIOUS
  <2>4. ~(statuses = {} /\ statuses = {D_DELIVERED})
    OBVIOUS
  <2>5. ~(statuses = {} /\ statuses \cap {D_FAILED_PERMANENT, D_ABANDONED} # {})
    OBVIOUS
  <2>6. ~(/\ statuses = {D_DELIVERED}
          /\ statuses \cap {D_FAILED_PERMANENT, D_ABANDONED} # {})
    BY DEF D_DELIVERED, D_FAILED_PERMANENT, D_ABANDONED
  <2> QED
    BY <2>1, <2>2, <2>3, <2>4, <2>5, <2>6
<1> DEFINE o == [a \in Alerts |->
                  IF a \in A
                  THEN [l.outbox[a] EXCEPT !.ds = Aggregate(l, a, enabled)]
                  ELSE l.outbox[a]]
<1>3. o \in [Alerts -> AlertRow]
  BY <1>1, <1>2 DEF AlertRow
<1>4. Aggregated(l, A, enabled) = [l EXCEPT !.outbox = o]
  BY DEF Aggregated
<1> HIDE DEF o
<1> QED
  BY <1>3, <1>4 DEF Ledger

\* An end in a given phase has the outcome of that phase.
LEMMA EndsType ==
  ASSUME NEW c \in Causes, NEW o \in AlertOutcomes, NEW A \in SUBSET BOOLEAN,
         NEW e \in Ends(c, o, A)
  PROVE  e \in AttemptEnd /\ e.outcome = o /\ e.arrives \in A
BY DEF Ends, AttemptEnd

\* However an attempt ends, it is an end the dispatcher knows, and one that
\* succeeds leaves a copy or finds one.
LEMMA AttemptEndsType ==
  ASSUME NEW t \in AdapterTypes, NEW there \in BOOLEAN,
         NEW e \in AttemptEnds(t, there)
  PROVE  /\ e \in AttemptEnd
         /\ e.outcome = "SUCCEEDED" => e.arrives \/ there
<1> DEFINE Reported(c, o) == Ends(c, o, {FALSE}) \cup Ends(c, o, {TRUE})
                             \cup Ends(c, o, BOOLEAN)
<1>1. ASSUME NEW c \in Causes, NEW o \in AlertOutcomes, e \in Reported(c, o)
      PROVE  e \in AttemptEnd /\ e.outcome = o
  <2>1. PICK A \in SUBSET BOOLEAN : e \in Ends(c, o, A)
    <3>1. {FALSE} \in SUBSET BOOLEAN /\ {TRUE} \in SUBSET BOOLEAN
      OBVIOUS
    <3> QED
      BY <1>1, <3>1
  <2> QED
    BY <2>1, EndsType
<1>2. ASSUME e \in Ends("done", "SUCCEEDED", {TRUE})
      PROVE  e \in AttemptEnd /\ e.arrives
  <2>1. "done" \in Causes /\ "SUCCEEDED" \in AlertOutcomes
    BY DEF Causes, AlertOutcomes
  <2>2. {TRUE} \in SUBSET BOOLEAN
    OBVIOUS
  <2>3. e \in AttemptEnd /\ e.arrives \in {TRUE}
    BY <1>2, <2>1, <2>2, EndsType
  <2> QED
    BY <2>3 DEF AttemptEnd
<1> HIDE DEF Reported
<1>3. \/ e \in Ends("done", "SUCCEEDED", {TRUE})
      \/ there /\ e \in Reported("replay", "SUCCEEDED")
      \/ \E c \in Causes, o \in AlertOutcomes \ {"SUCCEEDED"} : e \in Reported(c, o)
  <2> USE DEF Causes, AlertOutcomes, Reported
  <2>1. CASE t = "file"
    BY <2>1 DEF AttemptEnds, FileEnds
  <2>2. CASE t = "webhook"
    BY <2>2 DEF AttemptEnds, WebhookEnds
  <2>3. CASE t = "smtp"
    BY <2>3 DEF AttemptEnds, SmtpEnds
  <2> QED
    BY <2>1, <2>2, <2>3 DEF AdapterTypes
<1>4. "replay" \in Causes /\ "SUCCEEDED" \in AlertOutcomes
  BY DEF Causes, AlertOutcomes
<1> QED
  BY <1>1, <1>2, <1>3, <1>4

----------------------------------------------------------------------------
(* Where a pass is, and what it may rely on there.                         *)

\* The lock is held by whoever is at work.
LockHeld == \A p \in Procs : pc[p] \notin {"idle", "gap"} => holder = p

Attempting(p) ==
  \/ pc[p] \in {"deliver", "record"}
  \/ pc[p] = "gap" /\ resume[p] = "deliver"

\* A snapshot is never ahead of the ledger, and the attempt a pass works on
\* is behind it.
SnapshotBehind ==
  /\ txn.count = db.count
  /\ \A p \in Procs :
       /\ \A d \in Delivery : base[p][d] <= db.count[d]
       /\ Attempting(p) => /\ cur[p] \in Delivery
                           /\ base[p][cur[p]] < db.count[cur[p]]

\* A success that waits to be recorded has left a copy.
EndBacked ==
  \A p \in Procs :
    pc[p] = "record" =>
      /\ end[p] \in AttemptEnd
      /\ end[p].outcome = "SUCCEEDED" => copies[cur[p]] > 0

\* The inductive invariant.
IInv == /\ TypeOK
        /\ LockHeld
        /\ SnapshotBehind
        /\ EndBacked
        /\ AttemptsNumbered
        /\ DeliveredBacked

----------------------------------------------------------------------------
(* Type correctness.                                                       *)

\* The inductive invariant holds before the first run and the first pass.
LEMMA InitIInv == Init => IInv
<1> SUFFICES ASSUME Init PROVE IInv
  OBVIOUS
<1>1. TypeOK
  BY EmptyLedgerType DEF Init, TypeOK, ZeroBase, Phases, Resumes
<1>2. LockHeld /\ EndBacked
  BY DEF Init, LockHeld, EndBacked
<1>3. SnapshotBehind
  BY DEF Init, SnapshotBehind, EmptyLedger, ZeroBase, Attempting
<1>4. AttemptsNumbered /\ DeliveredBacked
  BY DEF Init, AttemptsNumbered, DeliveredBacked, EmptyLedger, AttemptNo, NoRow,
         D_NONE, D_DELIVERED
<1> QED
  BY <1>1, <1>2, <1>3, <1>4 DEF IInv

\* Going on to the next phase, after a checkpoint or not, keeps the types of
\* what it assigns.
LEMMA ProceedType ==
  ASSUME TypeOK, NEW p \in Procs, NEW l \in Ledger, NEW next \in Phases,
         NEW c \in BOOLEAN, c => next \in Resumes, Proceed(p, l, next, c)
  PROVE  /\ db' \in Ledger /\ txn' \in Ledger
         /\ holder' \in Procs \cup {Nobody}
         /\ pc' \in [Procs -> Phases]
         /\ resume' \in [Procs -> Resumes]
         /\ faults' \in 0..MaxFaults
         /\ copies' \in [Delivery -> Nat]
         /\ runs' \in 0..MaxRuns
         /\ manual' \in [Delivery -> 0..MaxRetries]
<1>1. UNCHANGED <<copies, runs, manual, faults>>
  BY DEF Proceed, World
<1>2. CASE c
  <2>1. /\ db' = l /\ txn' = l /\ holder' = Nobody
        /\ pc' = [pc EXCEPT ![p] = "gap"]
        /\ resume' = [resume EXCEPT ![p] = next]
    BY <1>2 DEF Proceed, Checkpoint, Commit, Goto
  <2>2. "gap" \in Phases
    BY DEF Phases
  <2> QED
    BY <1>1, <1>2, <2>1, <2>2 DEF TypeOK
<1>3. CASE ~c
  <2>1. /\ txn' = l
        /\ pc' = [pc EXCEPT ![p] = next]
        /\ UNCHANGED <<db, holder, resume>>
    BY <1>3 DEF Proceed, Goto
  <2> QED
    BY <1>1, <2>1 DEF TypeOK
<1> QED
  BY <1>2, <1>3

\* The end of a pass resets its locals to values of their types.
LEMMA EndPassType ==
  ASSUME TypeOK, NEW p \in Procs, Leave(p), Forget(p)
  PROVE  /\ pc' \in [Procs -> Phases]
         /\ resume' \in [Procs -> Resumes]
         /\ on' \in [Procs -> SUBSET Dests]
         /\ touched' \in [Procs -> SUBSET Alerts]
         /\ seen' \in [Procs -> SUBSET Alerts]
         /\ queue' \in [Procs -> SUBSET Delivery]
         /\ base' \in [Procs -> [Delivery -> 0..MaxRows]]
         /\ cur' \in [Procs -> Delivery \cup {NoDelivery}]
         /\ end' \in [Procs -> AttemptEnd \cup {NoEnd}]
<1>1. ZeroBase \in [Delivery -> 0..MaxRows]
  BY DEF ZeroBase
<1>2. "idle" \in Phases /\ "idle" \in Resumes
  BY DEF Phases, Resumes
<1> QED
  BY <1>1, <1>2 DEF TypeOK, Leave, Forget

\* release_run_lock() keeps every type.
LEMMA ReleaseType ==
  ASSUME TypeOK, NEW p \in Procs, Release(p)
  PROVE  TypeOK'
<1>1. Leave(p) /\ Forget(p)
  BY DEF Release, Yield
<1>2. /\ db' = txn /\ txn' = txn /\ holder' = Nobody
      /\ UNCHANGED <<copies, runs, manual, faults>>
  BY DEF Release, Yield, Commit, World
<1> QED
  BY <1>1, <1>2, EndPassType DEF TypeOK

\* Every step keeps the types; that an attempt in progress has a delivery
\* and an end to record comes from the rest of the inductive invariant.
LEMMA TypeStep == TypeOK /\ SnapshotBehind /\ EndBacked /\ Next => TypeOK'
<1> SUFFICES ASSUME TypeOK, SnapshotBehind, EndBacked, Next PROVE TypeOK'
  OBVIOUS
<1>1. ASSUME NEW p \in Procs, Start(p) PROVE TypeOK'
  BY <1>1 DEF TypeOK, Start, Acquire, Goto, Phases, World
<1>2. ASSUME NEW p \in Procs, Reacquire(p) PROVE TypeOK'
  <2>1. resume[p] \in Phases /\ "idle" \in Resumes
    BY DEF TypeOK, Phases, Resumes
  <2> QED
    BY <1>2, <2>1 DEF TypeOK, Reacquire, Regain, Goto, World, locals
<1>3. ASSUME NEW p \in Procs, LockLost(p) PROVE TypeOK'
  BY <1>3, EndPassType DEF TypeOK, LockLost, Lose, World
<1>4. ASSUME NEW p \in Procs, Crash(p) PROVE TypeOK'
  BY <1>4, EndPassType DEF TypeOK, Crash, Die, World
<1>5. ASSUME NEW p \in Procs, MarkOrphans(p) PROVE TypeOK'
  <2>1. OrphansMarked(txn) \in Ledger /\ "derive" \in Phases /\ "derive" \in Resumes
    BY OrphansMarkedType DEF TypeOK, Phases, Resumes
  <2>2. /\ Proceed(p, OrphansMarked(txn), "derive", Orphans(txn) # {})
        /\ UNCHANGED <<on, touched, seen, queue, base, cur, end>>
    BY <1>5 DEF MarkOrphans, locals
  <2> QED
    BY <2>1, <2>2, ProceedType DEF TypeOK
<1>6. ASSUME NEW p \in Procs, Derive(p) PROVE TypeOK'
  <2> DEFINE D == New(txn, on[p])
             T == Touched(txn, on[p])
             S == {a \in Alerts : txn.outbox[a].state # "ABSENT"}
  <2>1. Inserted(txn, D) \in Ledger /\ "scan" \in Phases /\ "scan" \in Resumes
    BY InsertedType DEF TypeOK, Phases, Resumes
  <2>2. T \in SUBSET Alerts /\ S \in SUBSET Alerts
    BY DEF Touched, Notified
  <2>3. /\ Proceed(p, Inserted(txn, D), "scan", D # {})
        /\ touched' = [touched EXCEPT ![p] = T]
        /\ seen' = [seen EXCEPT ![p] = S]
        /\ UNCHANGED <<on, queue, base, cur, end>>
    BY <1>6 DEF Derive
  <2> HIDE DEF D, T, S
  <2> QED
    BY <2>1, <2>2, <2>3, ProceedType DEF TypeOK
<1>7. ASSUME NEW p \in Procs, NEW A \in SUBSET Alerts, DeriveRaises(p, A)
      PROVE  TypeOK'
  <2> DEFINE D == {d \in New(txn, on[p]) : d.alert \in A}
  <2>1. Inserted(txn, D) \in Ledger /\ "done" \in Phases
    BY InsertedType DEF TypeOK, Phases
  <2>2. /\ Proceed(p, Inserted(txn, D), "done", FALSE)
        /\ UNCHANGED <<on, touched, seen, queue, base, cur, end>>
    BY <1>7 DEF DeriveRaises, locals
  <2> HIDE DEF D
  <2> QED
    BY <2>1, <2>2, ProceedType DEF TypeOK
<1>8. ASSUME NEW p \in Procs, Scan(p) PROVE TypeOK'
  <2>1. txn.count \in [Delivery -> 0..MaxRows]
    BY DEF TypeOK, Ledger
  <2>2. PICK Q \in SUBSET Delivery : queue' = [queue EXCEPT ![p] = Q]
    <3>1. PICK elapsed \in SUBSET {d \in Delivery : txn.status[d] = D_FAILED_RETRYABLE},
               only \in {Delivery} \cup {{d} : d \in Known(txn)} :
            queue' = [queue EXCEPT ![p] = {d \in only : /\ Eligible(txn, d, elapsed)
                                                        /\ d.dest \in on[p]
                                                        /\ d.alert \in seen[p]}]
      BY <1>8, Zenon DEF Scan
    <3>2. only \subseteq Delivery
      BY DEF Known
    <3> QED
      BY <3>1, <3>2
  <2>3. /\ base' = [base EXCEPT ![p] = txn.count]
        /\ Proceed(p, txn, "loop", FALSE)
        /\ UNCHANGED <<on, touched, seen, cur, end>>
    BY <1>8 DEF Scan
  <2>4. txn \in Ledger /\ "loop" \in Phases
    BY DEF TypeOK, Phases
  <2> QED
    BY <2>1, <2>2, <2>3, <2>4, ProceedType DEF TypeOK
<1>9. ASSUME NEW p \in Procs, NEW d \in Delivery, StartAttempt(p, d)
      PROVE  TypeOK'
  <2>1. base[p][d] + 1 \in AttemptNo
    BY <1>9 DEF StartAttempt, TypeOK, AttemptNo
  <2>2. Started(txn, d, base[p][d] + 1) \in Ledger
    BY <2>1, StartedType DEF TypeOK
  <2>3. "deliver" \in Phases /\ "deliver" \in Resumes
    BY DEF Phases, Resumes
  <2>4. /\ Proceed(p, Started(txn, d, base[p][d] + 1), "deliver", TRUE)
        /\ cur' = [cur EXCEPT ![p] = d]
        /\ queue' = [queue EXCEPT ![p] = @ \ {d}]
        /\ UNCHANGED <<on, touched, seen, base, end>>
    BY <1>9 DEF StartAttempt, Take
  <2> QED
    BY <2>2, <2>3, <2>4, ProceedType DEF TypeOK
<1>10. ASSUME NEW p \in Procs, NEW d \in Delivery, AttemptTaken(p, d)
       PROVE  TypeOK'
  BY <1>10, ReleaseType DEF AttemptTaken
<1>11. ASSUME NEW p \in Procs, Deliver(p) PROVE TypeOK'
  <2>1. cur[p] \in Delivery
    BY <1>11 DEF Deliver, At, SnapshotBehind, Attempting
  <2>2. AdapterOf[cur[p].dest] \in AdapterTypes
    BY <2>1 DEF Delivery
  <2>3. PICK e \in AttemptEnds(AdapterOf[cur[p].dest], copies[cur[p]] > 0) :
          /\ end' = [end EXCEPT ![p] = e]
          /\ copies' = IF e.arrives THEN [copies EXCEPT ![cur[p]] = @ + 1]
                                    ELSE copies
    BY <1>11 DEF Deliver
  <2>4. e \in AttemptEnd
    <3>1. (copies[cur[p]] > 0) \in BOOLEAN
      BY <2>1 DEF TypeOK
    <3> QED
      BY <2>2, <3>1, AttemptEndsType
  <2>5. copies' \in [Delivery -> Nat] /\ end' \in [Procs -> AttemptEnd \cup {NoEnd}]
    BY <2>1, <2>3, <2>4 DEF TypeOK
  <2>6. pc' \in [Procs -> Phases]
    BY <1>11 DEF Deliver, Goto, TypeOK, Phases
  <2> QED
    BY <1>11, <2>5, <2>6 DEF TypeOK, Deliver
<1>12. ASSUME NEW p \in Procs, Record(p) PROVE TypeOK'
  <2>1. /\ cur[p] \in Delivery
        /\ end[p] \in AttemptEnd
        /\ base[p][cur[p]] < db.count[cur[p]]
    BY <1>12 DEF Record, At, SnapshotBehind, EndBacked, Attempting
  <2>2. base[p][cur[p]] \in 0..MaxRows /\ db.count[cur[p]] \in 0..MaxRows
    BY <2>1 DEF TypeOK, Ledger
  <2>3. base[p][cur[p]] + 1 \in AttemptNo
    BY <2>1, <2>2 DEF AttemptNo
  <2>4. Recorded(txn, cur[p], base[p][cur[p]] + 1, end[p].outcome) \in Ledger
    BY <2>1, <2>3, RecordedType DEF TypeOK, AttemptEnd
  <2>5. "loop" \in Phases /\ "loop" \in Resumes /\ cur[p].alert \in Alerts
    BY <2>1 DEF Phases, Resumes, Delivery
  <2>6. /\ Proceed(p, Recorded(txn, cur[p], base[p][cur[p]] + 1, end[p].outcome),
                   "loop", TRUE)
        /\ touched' = [touched EXCEPT ![p] = @ \cup {cur[p].alert}]
        /\ cur' = [cur EXCEPT ![p] = NoDelivery]
        /\ end' = [end EXCEPT ![p] = NoEnd]
        /\ UNCHANGED <<on, seen, queue, base>>
    BY <1>12 DEF Record
  <2> QED
    BY <2>4, <2>5, <2>6, ProceedType DEF TypeOK
<1>13. ASSUME NEW p \in Procs, Conclude(p) PROVE TypeOK'
  <2>1. Aggregated(txn, touched[p], on[p]) \in Ledger /\ "done" \in Phases
    BY AggregatedType DEF TypeOK, Phases
  <2>2. /\ Proceed(p, Aggregated(txn, touched[p], on[p]), "done", FALSE)
        /\ UNCHANGED <<on, touched, seen, queue, base, cur, end>>
    BY <1>13 DEF Conclude, locals
  <2> QED
    BY <2>1, <2>2, ProceedType DEF TypeOK
<1>14. ASSUME NEW p \in Procs, Finish(p) PROVE TypeOK'
  BY <1>14, ReleaseType DEF Finish
<1>15. ASSUME NEW l \in Ledger, Command(l), runs' \in 0..MaxRuns,
              manual' \in [Delivery -> 0..MaxRetries]
       PROVE  TypeOK'
  BY <1>15 DEF TypeOK, Command, Commit, locals
<1>16. ASSUME NEW evaluated, NEW A \in SUBSET Alerts, NEW cands \in [A -> Facts],
              ApplyAlerts(evaluated, cands)
       PROVE  TypeOK'
  <2>1. AlertsApplied(db, cands, evaluated) \in Ledger
    BY AlertsAppliedType DEF TypeOK
  <2>2. runs' \in 0..MaxRuns /\ manual' \in [Delivery -> 0..MaxRetries]
    BY <1>16 DEF ApplyAlerts, TypeOK
  <2> QED
    BY <1>15, <1>16, <2>1, <2>2 DEF ApplyAlerts
<1>17. ASSUME NEW d \in Delivery, NEW force \in BOOLEAN, DeliveryRetry(d, force)
       PROVE  TypeOK'
  <2>1. Retried(db, d) \in Ledger
    BY SetStatusType DEF Retried, TypeOK, DeliveryStatus
  <2>2. runs' \in 0..MaxRuns /\ manual' \in [Delivery -> 0..MaxRetries]
    BY <1>17 DEF DeliveryRetry, TypeOK
  <2> QED
    BY <1>15, <1>17, <2>1, <2>2 DEF DeliveryRetry
<1>18. ASSUME NEW d \in Delivery, DeliveryAbandon(d) PROVE TypeOK'
  <2>1. Abandoned(db, d) \in Ledger
    BY SetStatusType DEF Abandoned, TypeOK, DeliveryStatus
  <2>2. runs' \in 0..MaxRuns /\ manual' \in [Delivery -> 0..MaxRetries]
    BY <1>18 DEF DeliveryAbandon, TypeOK
  <2> QED
    BY <1>15, <1>18, <2>1, <2>2 DEF DeliveryAbandon
<1> QED
  BY <1>1, <1>2, <1>3, <1>4, <1>5, <1>6, <1>7, <1>8, <1>9, <1>10, <1>11, <1>12,
     <1>13, <1>14, <1>16, <1>17, <1>18 DEF Next, Step, Run, Operator

----------------------------------------------------------------------------
(* What the ledger functions preserve.                                     *)

Numbered(l) ==
  \A d \in Delivery : \A n \in AttemptNo : l.row[d][n] # NoRow <=> n <= l.count[d]

Fine(l, c) ==
  /\ Numbered(l)
  /\ \A d \in Delivery : l.status[d] = D_DELIVERED => c[d] > 0

\* Fine, said of both ledgers, is the two invariants of the theorems.
LEMMA FineInvariants ==
  Fine(db, copies) /\ Fine(txn, copies) <=> AttemptsNumbered /\ DeliveredBacked
BY DEF Fine, Numbered, AttemptsNumbered, DeliveredBacked

\* No status but DELIVERED claims anything.
LEMMA OpenStates ==
  D_DELIVERED \notin {D_NONE, D_PENDING, D_FAILED_RETRYABLE, D_FAILED_PERMANENT,
                      D_UNKNOWN, D_ABANDONED}
BY DEF D_NONE, D_PENDING, D_DELIVERED, D_FAILED_RETRYABLE, D_FAILED_PERMANENT,
       D_UNKNOWN, D_ABANDONED

\* A run and the aggregate write to outbox alone.
LEMMA OutboxFine ==
  ASSUME NEW l \in Ledger, NEW c, Fine(l, c), NEW o
  PROVE  Fine([l EXCEPT !.outbox = o], c) /\ [l EXCEPT !.outbox = o].count = l.count
<1> DEFINE k == [l EXCEPT !.outbox = o]
<1>1. k.row = l.row /\ k.count = l.count /\ k.status = l.status
  BY DEF Ledger
<1> HIDE DEF k
<1>2. Fine(k, c) /\ k.count = l.count
  BY <1>1 DEF Fine, Numbered
<1> QED
  BY <1>2 DEF k

\* The derivation claims nothing and starts nothing.
LEMMA InsertedFine ==
  ASSUME NEW l \in Ledger, NEW c, Fine(l, c), NEW D
  PROVE  Fine(Inserted(l, D), c) /\ Inserted(l, D).count = l.count
<1> DEFINE k == Inserted(l, D)
<1>1. /\ k.row = l.row /\ k.count = l.count
      /\ \A d \in Delivery : k.status[d] = l.status[d] \/ k.status[d] = D_PENDING
  BY DEF Inserted, Ledger
<1> HIDE DEF k
<1>2. Fine(k, c)
  BY <1>1, OpenStates DEF Fine, Numbered
<1> QED
  BY <1>1, <1>2 DEF k

\* Setting a status claims a copy only if it is DELIVERED.
LEMMA SetStatusFine ==
  ASSUME NEW l \in Ledger, NEW c, Fine(l, c), NEW d \in Delivery,
         NEW s \in DeliveryStatus, s = D_DELIVERED => c[d] > 0
  PROVE  Fine(SetStatus(l, d, s), c) /\ SetStatus(l, d, s).count = l.count
<1> DEFINE k == SetStatus(l, d, s)
<1>1. /\ k.row = l.row /\ k.count = l.count
      /\ k.status = [l.status EXCEPT ![d] = s]
  BY SetStatusType
<1>2. l.status \in [Delivery -> DeliveryStatus]
  BY DEF Ledger
<1> HIDE DEF k
<1>3. Fine(k, c)
  BY <1>1, <1>2 DEF Fine, Numbered
<1> QED
  BY <1>1, <1>3 DEF k

\* delivery-retry and delivery-abandon claim nothing and start nothing.
LEMMA OperatorFine ==
  ASSUME NEW l \in Ledger, NEW c, Fine(l, c), NEW d \in Delivery
  PROVE  /\ Fine(Retried(l, d), c) /\ Retried(l, d).count = l.count
         /\ Fine(Abandoned(l, d), c) /\ Abandoned(l, d).count = l.count
<1>1. D_PENDING \in DeliveryStatus /\ D_ABANDONED \in DeliveryStatus
  BY DEF DeliveryStatus
<1> QED
  BY <1>1, OpenStates, SetStatusFine DEF Retried, Abandoned

\* _mark_orphan_attempts closes attempts and claims nothing.
LEMMA OrphansMarkedFine ==
  ASSUME NEW l \in Ledger, NEW c, Fine(l, c)
  PROVE  Fine(OrphansMarked(l), c) /\ OrphansMarked(l).count = l.count
<1> DEFINE k == OrphansMarked(l)
<1>1. /\ k.count = l.count
      /\ k.row = [d \in Delivery |-> [n \in AttemptNo |->
                   IF l.row[d][n] = "STARTED" THEN "UNKNOWN" ELSE l.row[d][n]]]
      /\ \A d \in Delivery : k.status[d] = l.status[d] \/ k.status[d] = D_UNKNOWN
  BY DEF OrphansMarked, Ledger
<1> HIDE DEF k
<1>2. \A d \in Delivery : \A n \in AttemptNo :
        k.row[d][n] # NoRow <=> l.row[d][n] # NoRow
  BY <1>1 DEF NoRow
<1>3. Fine(k, c)
  BY <1>1, <1>2, OpenStates DEF Fine, Numbered
<1> QED
  BY <1>1, <1>3 DEF k

\* The next attempt number, written once, keeps the numbering.
LEMMA StartedFine ==
  ASSUME NEW l \in Ledger, NEW c, Fine(l, c), NEW d \in Delivery,
         NEW n \in AttemptNo, n = l.count[d] + 1
  PROVE  /\ Fine(Started(l, d, n), c)
         /\ Started(l, d, n).count = [l.count EXCEPT ![d] = n]
<1> DEFINE k == Started(l, d, n)
<1>1. /\ k.status = l.status
      /\ k.count = [l.count EXCEPT ![d] = n]
      /\ k.row = [l.row EXCEPT ![d][n] = "STARTED"]
  BY DEF Started, Ledger
<1>2. /\ l.count \in [Delivery -> 0..MaxRows]
      /\ l.row \in [Delivery -> [AttemptNo -> AttemptStatus]]
  BY DEF Ledger
<1> HIDE DEF k
<1>3. Numbered(k)
  <2> SUFFICES ASSUME NEW e \in Delivery, NEW m \in AttemptNo
               PROVE  k.row[e][m] # NoRow <=> m <= k.count[e]
    BY DEF Numbered
  <2>1. CASE e # d
    BY <1>1, <1>2, <2>1 DEF Fine, Numbered
  <2>2. CASE e = d /\ m = n
    BY <1>1, <1>2, <2>2 DEF NoRow, AttemptNo
  <2>3. CASE e = d /\ m # n
    <3>1. k.row[e][m] = l.row[d][m] /\ k.count[e] = n
      BY <1>1, <1>2, <2>3
    <3>2. l.row[d][m] # NoRow <=> m <= l.count[d]
      BY DEF Fine, Numbered
    <3>3. l.count[d] \in Nat
      BY <1>2
    <3> QED
      BY <2>3, <3>1, <3>2, <3>3 DEF AttemptNo
  <2> QED
    BY <2>1, <2>2, <2>3
<1> QED
  BY <1>1, <1>3 DEF Fine, k

\* _record_attempt closes a number that exists, and claims a copy only after a
\* success that left one.
LEMMA RecordedFine ==
  ASSUME NEW l \in Ledger, NEW c, Fine(l, c), NEW d \in Delivery,
         NEW n \in AttemptNo, NEW o \in AlertOutcomes,
         n <= l.count[d], o = "SUCCEEDED" => c[d] > 0
  PROVE  Fine(Recorded(l, d, n, o), c) /\ Recorded(l, d, n, o).count = l.count
<1> DEFINE k == [l EXCEPT !.row[d][n] = AttemptAfter(o)]
           s == StatusAfter(o, n)
<1>1. /\ k.status = l.status /\ k.count = l.count
      /\ k.row = [l.row EXCEPT ![d][n] = AttemptAfter(o)]
      /\ l.row \in [Delivery -> [AttemptNo -> AttemptStatus]]
  BY DEF Ledger
<1>2. /\ AttemptAfter(o) \in AttemptStatus /\ AttemptAfter(o) # NoRow
      /\ s \in DeliveryStatus
      /\ s = D_DELIVERED => o = "SUCCEEDED"
  BY StatusAfterType DEF AttemptNo
<1>3. k \in Ledger
  BY <1>2 DEF Ledger
<1>4. Recorded(l, d, n, o) = SetStatus(k, d, s)
  BY DEF Recorded
<1> HIDE DEF k, s
<1>5. Numbered(k)
  <2>1. \A e \in Delivery : \A m \in AttemptNo :
          k.row[e][m] # NoRow <=> l.row[e][m] # NoRow
    BY <1>1, <1>2 DEF Fine, Numbered
  <2> QED
    BY <1>1, <2>1 DEF Fine, Numbered
<1>6. Fine(k, c)
  BY <1>1, <1>5 DEF Fine
<1>7. Fine(SetStatus(k, d, s), c) /\ SetStatus(k, d, s).count = k.count
  BY <1>2, <1>3, <1>6, SetStatusFine
<1> QED
  BY <1>1, <1>4, <1>7

----------------------------------------------------------------------------
(* What every step keeps.                                                  *)

\* The lock is held by whoever is at work: a step of another process needs it.
LEMMA LockHeldStep == TypeOK /\ LockHeld /\ Next => LockHeld'
<1> SUFFICES ASSUME TypeOK, LockHeld, Next PROVE LockHeld'
  OBVIOUS
<1> USE DEF LockHeld
<1>1. ASSUME NEW p \in Procs, NEW l, NEW next, NEW c, holder = p,
             Proceed(p, l, next, c)
      PROVE  LockHeld'
  <2>1. \A q \in Procs : q # p => pc[q] \in {"idle", "gap"} /\ pc'[q] = pc[q]
    BY <1>1 DEF Proceed, Checkpoint, Goto, TypeOK
  <2>2. \/ pc'[p] = "gap"
        \/ holder' = p
    BY <1>1 DEF Proceed, Checkpoint, Goto, TypeOK
  <2> QED
    BY <2>1, <2>2
<1>2. ASSUME NEW p \in Procs, holder = p, Release(p) PROVE LockHeld'
  BY <1>2 DEF Release, Yield, Leave, TypeOK
<1>3. ASSUME NEW p \in Procs, Start(p) \/ Reacquire(p) PROVE LockHeld'
  BY <1>3 DEF Start, Acquire, Reacquire, Regain, Goto, At, TypeOK
<1>4. ASSUME NEW p \in Procs, LockLost(p) PROVE LockHeld'
  BY <1>4 DEF LockLost, Lose, Leave, TypeOK
<1>5. ASSUME NEW p \in Procs, Crash(p) PROVE LockHeld'
  BY <1>5 DEF Crash, Die, Leave, TypeOK
<1>6. ASSUME NEW p \in Procs,
             \/ At(p, "orphans") \/ At(p, "derive") \/ At(p, "scan")
             \/ At(p, "loop") \/ At(p, "deliver") \/ At(p, "record")
             \/ At(p, "done")
      PROVE  holder = p
  BY <1>6 DEF At
<1>7. ASSUME NEW p \in Procs, MarkOrphans(p) PROVE LockHeld'
  BY <1>1, <1>6, <1>7 DEF MarkOrphans
<1>8. ASSUME NEW p \in Procs, Derive(p) PROVE LockHeld'
  BY <1>1, <1>6, <1>8 DEF Derive
<1>9. ASSUME NEW p \in Procs, NEW A, DeriveRaises(p, A) PROVE LockHeld'
  BY <1>1, <1>6, <1>9 DEF DeriveRaises
<1>10. ASSUME NEW p \in Procs, Scan(p) PROVE LockHeld'
  BY <1>1, <1>6, <1>10 DEF Scan
<1>11. ASSUME NEW p \in Procs, NEW d, StartAttempt(p, d) PROVE LockHeld'
  BY <1>1, <1>6, <1>11 DEF StartAttempt
<1>12. ASSUME NEW p \in Procs, NEW d, AttemptTaken(p, d) PROVE LockHeld'
  BY <1>2, <1>6, <1>12 DEF AttemptTaken
<1>13. ASSUME NEW p \in Procs, Deliver(p) PROVE LockHeld'
  BY <1>13 DEF Deliver, Goto, At, TypeOK
<1>14. ASSUME NEW p \in Procs, Record(p) PROVE LockHeld'
  BY <1>1, <1>6, <1>14 DEF Record
<1>15. ASSUME NEW p \in Procs, Conclude(p) PROVE LockHeld'
  BY <1>1, <1>6, <1>15 DEF Conclude
<1>16. ASSUME NEW p \in Procs, Finish(p) PROVE LockHeld'
  BY <1>2, <1>6, <1>16 DEF Finish
<1>17. ASSUME Run \/ Operator PROVE LockHeld'
  BY <1>17 DEF Run, Operator, ApplyAlerts, DeliveryRetry, DeliveryAbandon, Command
<1> QED
  BY <1>3, <1>4, <1>5, <1>7, <1>8, <1>9, <1>10, <1>11, <1>12, <1>13, <1>14, <1>15,
     <1>16, <1>17 DEF Next, Step

\* What arrived at a destination stays there.
CopiesKept == \A d \in Delivery : copies[d] <= copies'[d]

\* No step takes a copy back: only an attempt of an adapter changes them.
LEMMA CopiesKeptStep ==
  ASSUME TypeOK, SnapshotBehind, Next
  PROVE  CopiesKept
<1>1. ASSUME UNCHANGED copies PROVE CopiesKept
  BY <1>1 DEF CopiesKept, TypeOK
<1>2. ASSUME NEW p \in Procs, Deliver(p) PROVE CopiesKept
  <2>1. cur[p] \in Delivery
    BY <1>2 DEF Deliver, At, SnapshotBehind, Attempting
  <2>2. copies' = [copies EXCEPT ![cur[p]] = @ + 1] \/ UNCHANGED copies
    BY <1>2 DEF Deliver
  <2> QED
    BY <2>1, <2>2 DEF CopiesKept, TypeOK
<1>3. ASSUME NEW p \in Procs, Step(p), ~Deliver(p) PROVE UNCHANGED copies
  BY <1>3 DEF Step, Start, Reacquire, MarkOrphans, Derive, DeriveRaises, Scan,
              StartAttempt, AttemptTaken, Record, Conclude, Finish, Proceed, Release,
              World
<1>4. ASSUME NEW p \in Procs, LockLost(p) \/ Crash(p) PROVE UNCHANGED copies
  BY <1>4 DEF LockLost, Crash, World
<1>5. ASSUME Run \/ Operator PROVE UNCHANGED copies
  BY <1>5 DEF Run, Operator, ApplyAlerts, DeliveryRetry, DeliveryAbandon, Command
<1> QED
  BY <1>1, <1>2, <1>3, <1>4, <1>5 DEF Next

\* A ledger that was fine stays so while copies only arrive.
LEMMA FineMonotone ==
  ASSUME NEW l, Fine(l, copies), CopiesKept, TypeOK, TypeOK'
  PROVE  Fine(l, copies')
<1>1. \A d \in Delivery : copies[d] \in Nat /\ copies'[d] \in Nat
  BY DEF TypeOK
<1>2. \A d \in Delivery : copies[d] > 0 => copies'[d] > 0
  BY <1>1 DEF CopiesKept
<1> QED
  BY <1>2 DEF Fine

\* What every step makes of the two ledgers.
LedgersMove ==
  /\ Fine(db', copies) /\ Fine(txn', copies)
  /\ txn'.count = db'.count
  /\ \A d \in Delivery : db.count[d] <= db'.count[d]

\* Every step keeps both ledgers fine, changes no attempt count outside a
\* commit, and never lowers one.
LEMMA LedgersStep ==
  ASSUME TypeOK, SnapshotBehind, EndBacked,
         Fine(db, copies), Fine(txn, copies), Next
  PROVE  LedgersMove
<1>1. /\ txn.count = db.count
      /\ db \in Ledger /\ txn \in Ledger
      /\ \A d \in Delivery : db.count[d] \in Nat
  BY DEF SnapshotBehind, TypeOK, Ledger
<1>2. ASSUME NEW l, Fine(l, copies), l.count = db.count,
             \/ Commit(l)
             \/ txn' = l /\ UNCHANGED db
      PROVE  LedgersMove
  BY <1>1, <1>2 DEF LedgersMove, Commit
<1>3. ASSUME NEW p, NEW l, NEW next, NEW c, Fine(l, copies), l.count = db.count,
             Proceed(p, l, next, c)
      PROVE  LedgersMove
  BY <1>2, <1>3 DEF Proceed, Checkpoint
<1>4. ASSUME UNCHANGED <<db, txn>> PROVE LedgersMove
  BY <1>1, <1>4 DEF LedgersMove
<1>5. ASSUME NEW p \in Procs, Crash(p) PROVE LedgersMove
  <2>1. (txn' = db /\ UNCHANGED db) \/ UNCHANGED <<db, txn>>
    BY <1>5 DEF Crash, Die
  <2> QED
    BY <1>2, <1>4, <2>1
<1>6. ASSUME NEW p \in Procs, Release(p) PROVE LedgersMove
  BY <1>1, <1>2, <1>6 DEF Release, Yield
<1>7. ASSUME NEW p \in Procs, MarkOrphans(p) PROVE LedgersMove
  BY <1>1, <1>3, <1>7, OrphansMarkedFine DEF MarkOrphans
<1>8. ASSUME NEW p \in Procs, Derive(p) PROVE LedgersMove
  BY <1>1, <1>3, <1>8, InsertedFine DEF Derive
<1>9. ASSUME NEW p \in Procs, NEW A, DeriveRaises(p, A) PROVE LedgersMove
  <2>1. PICK D : Proceed(p, Inserted(txn, D), "done", FALSE)
    BY <1>9 DEF DeriveRaises
  <2> QED
    BY <1>1, <1>3, <2>1, InsertedFine
<1>10. ASSUME NEW p \in Procs, Scan(p) PROVE LedgersMove
  BY <1>1, <1>3, <1>10 DEF Scan
<1>11. ASSUME NEW p \in Procs, NEW d \in Delivery, StartAttempt(p, d)
       PROVE  LedgersMove
  <2> DEFINE n == base[p][d] + 1
  <2>1. /\ n \in AttemptNo /\ base[p][d] \in Nat
        /\ base[p][d] <= txn.count[d]
        /\ txn.count[d] \in Nat
        /\ txn.row[d][n] = NoRow
    BY <1>1, <1>11 DEF StartAttempt, TypeOK, AttemptNo, SnapshotBehind
  <2>2. ~(n <= txn.count[d])
    BY <2>1 DEF Fine, Numbered
  <2>3. n = txn.count[d] + 1
    BY <2>1, <2>2
  <2>4. /\ Fine(Started(txn, d, n), copies)
        /\ Started(txn, d, n).count = [txn.count EXCEPT ![d] = n]
    <3> HIDE DEF n
    <3> QED BY <1>1, <2>1, <2>3, StartedFine
  <2>5. \A e \in Delivery : txn.count[e] <= [txn.count EXCEPT ![d] = n][e]
    BY <1>1, <2>1, <2>3 DEF Ledger
  <2>6. db' = Started(txn, d, n) /\ txn' = Started(txn, d, n)
    BY <1>11 DEF StartAttempt, Proceed, Checkpoint, Commit
  <2> HIDE DEF n
  <2> QED
    BY <1>1, <2>4, <2>5, <2>6 DEF LedgersMove
<1>12. ASSUME NEW p \in Procs, Record(p) PROVE LedgersMove
  <2> DEFINE n == base[p][cur[p]] + 1
  <2>1. /\ cur[p] \in Delivery
        /\ end[p] \in AttemptEnd
        /\ end[p].outcome = "SUCCEEDED" => copies[cur[p]] > 0
        /\ base[p][cur[p]] < db.count[cur[p]]
    BY <1>12 DEF Record, At, SnapshotBehind, EndBacked, Attempting
  <2>2. base[p][cur[p]] \in 0..MaxRows /\ db.count[cur[p]] \in 0..MaxRows
    BY <2>1 DEF TypeOK, Ledger
  <2>3. /\ n \in AttemptNo /\ n <= txn.count[cur[p]]
        /\ end[p].outcome \in AlertOutcomes
    BY <1>1, <2>1, <2>2 DEF AttemptNo, AttemptEnd
  <2>4. Proceed(p, Recorded(txn, cur[p], n, end[p].outcome), "loop", TRUE)
    BY <1>12 DEF Record
  <2> HIDE DEF n
  <2>5. /\ Fine(Recorded(txn, cur[p], n, end[p].outcome), copies)
        /\ Recorded(txn, cur[p], n, end[p].outcome).count = db.count
    BY <1>1, <2>1, <2>3, RecordedFine
  <2> QED
    BY <1>3, <2>4, <2>5
<1>13. ASSUME NEW p \in Procs, Conclude(p) PROVE LedgersMove
  <2>1. PICK o : Proceed(p, [txn EXCEPT !.outbox = o], "done", FALSE)
    BY <1>13, Zenon DEF Conclude, Aggregated
  <2> QED
    BY <1>1, <1>3, <2>1, OutboxFine
<1>14. ASSUME NEW evaluated, NEW cands, ApplyAlerts(evaluated, cands)
       PROVE  LedgersMove
  <2>1. PICK o : Commit([db EXCEPT !.outbox = o])
    BY <1>14, Zenon DEF ApplyAlerts, Command, AlertsApplied
  <2> QED
    BY <1>1, <1>2, <2>1, OutboxFine
<1>15. ASSUME NEW d \in Delivery, NEW force, DeliveryRetry(d, force)
       PROVE  LedgersMove
  BY <1>1, <1>2, <1>15, OperatorFine DEF DeliveryRetry, Command
<1>16. ASSUME NEW d \in Delivery, DeliveryAbandon(d) PROVE LedgersMove
  BY <1>1, <1>2, <1>16, OperatorFine DEF DeliveryAbandon, Command
<1>17. ASSUME NEW p \in Procs,
              Start(p) \/ Reacquire(p) \/ LockLost(p) \/ Deliver(p)
       PROVE  LedgersMove
  BY <1>4, <1>17 DEF Start, Acquire, Reacquire, Regain, LockLost, Lose, Deliver
<1>18. ASSUME NEW p \in Procs, NEW d, AttemptTaken(p, d) PROVE Release(p)
  BY <1>18 DEF AttemptTaken
<1> QED
  BY <1>5, <1>6, <1>7, <1>8, <1>9, <1>10, <1>11, <1>12, <1>13, <1>14, <1>15, <1>16,
     <1>17, <1>18 DEF Next, Step, Run, Operator, Finish

\* The locals of q that the invariant is about stay as they are.
Keeps(q) == /\ pc'[q] = pc[q] /\ resume'[q] = resume[q] /\ cur'[q] = cur[q]
            /\ base'[q] = base[q] /\ end'[q] = end[q]

\* A step of one pass leaves the locals of the others alone.
LEMMA OthersKeep ==
  ASSUME TypeOK, NEW p \in Procs, Step(p) \/ LockLost(p) \/ Crash(p),
         NEW q \in Procs, q # p
  PROVE  Keeps(q)
<1> USE DEF TypeOK
<1>1. CASE Start(p) \/ Reacquire(p)
  BY <1>1 DEF Keeps, Start, Acquire, Reacquire, Regain, Goto, locals
<1>2. ASSUME Leave(p), Forget(p) PROVE Keeps(q)
  BY <1>2 DEF Keeps, Leave, Forget
<1>3. CASE LockLost(p) \/ Crash(p)
  BY <1>2, <1>3 DEF LockLost, Lose, Crash, Die
<1>4. ASSUME Release(p) PROVE Keeps(q)
  BY <1>2, <1>4 DEF Release, Yield
<1>5. ASSUME NEW l, NEW next, NEW c, Proceed(p, l, next, c)
      PROVE  pc'[q] = pc[q] /\ resume'[q] = resume[q]
  BY <1>5 DEF Proceed, Checkpoint, Goto
<1>6. CASE MarkOrphans(p) \/ Conclude(p) \/ \E A \in SUBSET Alerts : DeriveRaises(p, A)
  BY <1>5, <1>6 DEF Keeps, MarkOrphans, Conclude, DeriveRaises, locals
<1>7. CASE Derive(p)
  BY <1>5, <1>7 DEF Keeps, Derive
<1>8. CASE Scan(p)
  BY <1>5, <1>8 DEF Keeps, Scan
<1>9. CASE \E d \in Delivery : StartAttempt(p, d)
  BY <1>5, <1>9 DEF Keeps, StartAttempt, Take
<1>10. CASE Record(p)
  BY <1>5, <1>10 DEF Keeps, Record
<1>11. CASE Deliver(p)
  BY <1>11 DEF Keeps, Deliver, Goto
<1>12. CASE Finish(p) \/ \E d \in Delivery : AttemptTaken(p, d)
  BY <1>4, <1>12 DEF Finish, AttemptTaken
<1> QED
  BY <1>1, <1>3, <1>6, <1>7, <1>8, <1>9, <1>10, <1>11, <1>12 DEF Step

\* Runs and operators leave the locals of every pass alone.
LEMMA BystandersKeep ==
  ASSUME Run \/ Operator, NEW q \in Procs
  PROVE  Keeps(q) /\ UNCHANGED copies
BY DEF Keeps, Run, Operator, ApplyAlerts, DeliveryRetry, DeliveryAbandon, Command, locals

\* Every step keeps a pass's snapshot behind the ledger.
LEMMA SnapshotStep ==
  ASSUME TypeOK, SnapshotBehind, TypeOK', LedgersMove, Next
  PROVE  SnapshotBehind'
<1> DEFINE Behind(q) ==
             /\ \A d \in Delivery : base[q][d] <= db.count[d]
             /\ Attempting(q) => /\ cur[q] \in Delivery
                                 /\ base[q][cur[q]] < db.count[cur[q]]
<1>1. /\ txn'.count = db'.count
      /\ \A d \in Delivery : /\ db.count[d] \in Nat
                             /\ db'.count[d] \in Nat
                             /\ db.count[d] <= db'.count[d]
  BY DEF LedgersMove, TypeOK, Ledger
<1>2. \A q \in Procs : \A d \in Delivery : base[q][d] \in Nat
  BY DEF TypeOK
<1>3. ASSUME NEW q \in Procs, base'[q] = base[q], cur'[q] = cur[q],
             Attempting(q)' => Attempting(q)
      PROVE  Behind(q)'
  BY <1>1, <1>2, <1>3 DEF SnapshotBehind
<1>4. ASSUME NEW q \in Procs, Keeps(q) PROVE Behind(q)'
  BY <1>3, <1>4 DEF Keeps, Attempting
<1>5. ASSUME NEW p \in Procs, Leave(p), Forget(p) PROVE Behind(p)'
  BY <1>1, <1>5 DEF Leave, Forget, ZeroBase, TypeOK, Attempting
<1>6. ASSUME NEW p \in Procs, NEW l, NEW next, NEW c,
             next \notin {"deliver", "record", "gap"}, Proceed(p, l, next, c)
      PROVE  ~Attempting(p)'
  BY <1>6 DEF Proceed, Checkpoint, Goto, Attempting, TypeOK
<1>7. ASSUME NEW p \in Procs, Start(p) PROVE Behind(p)'
  <2>1. base'[p] = base[p] /\ cur'[p] = cur[p] /\ ~Attempting(p)'
    BY <1>7 DEF Start, Acquire, Goto, Attempting, TypeOK
  <2> QED
    BY <1>3, <2>1
<1>8. ASSUME NEW p \in Procs, Reacquire(p) PROVE Behind(p)'
  <2>1. base'[p] = base[p] /\ cur'[p] = cur[p]
    BY <1>8 DEF Reacquire, locals
  <2>2. Attempting(p)' => Attempting(p)
    BY <1>8 DEF Reacquire, Regain, Goto, At, Attempting, TypeOK, Resumes
  <2> QED
    BY <1>3, <2>1, <2>2
<1>9. ASSUME NEW p \in Procs,
             \/ MarkOrphans(p) \/ Derive(p) \/ Conclude(p)
             \/ \E A \in SUBSET Alerts : DeriveRaises(p, A)
      PROVE  Behind(p)'
  <2>1. base'[p] = base[p] /\ cur'[p] = cur[p]
    BY <1>9 DEF MarkOrphans, Derive, Conclude, DeriveRaises, locals
  <2>2. \E l, c : \/ Proceed(p, l, "derive", c)
                  \/ Proceed(p, l, "scan", c)
                  \/ Proceed(p, l, "done", c)
    <3>1. CASE MarkOrphans(p)
      BY <3>1, Zenon DEF MarkOrphans
    <3>2. CASE Derive(p)
      BY <3>2, Zenon DEF Derive
    <3>3. CASE Conclude(p)
      BY <3>3, Zenon DEF Conclude
    <3>4. CASE \E A \in SUBSET Alerts : DeriveRaises(p, A)
      BY <3>4, Zenon DEF DeriveRaises
    <3> QED
      BY <1>9, <3>1, <3>2, <3>3, <3>4
  <2>3. ~Attempting(p)'
    BY <1>6, <2>2
  <2> QED
    BY <1>3, <2>1, <2>3
<1>10. ASSUME NEW p \in Procs, Scan(p) PROVE Behind(p)'
  <2>1. base'[p] = txn.count /\ db' = db
    BY <1>10 DEF Scan, Proceed, TypeOK
  <2>2. ~Attempting(p)'
    BY <1>6, <1>10 DEF Scan
  <2> QED
    BY <1>1, <2>1, <2>2 DEF SnapshotBehind
<1>11. ASSUME NEW p \in Procs, NEW d \in Delivery, StartAttempt(p, d)
      PROVE  Behind(p)'
  <2>1. base'[p] = base[p] /\ cur'[p] = d
    BY <1>11 DEF StartAttempt, Take, TypeOK
  <2>2. db' = Started(txn, d, base[p][d] + 1)
    BY <1>11 DEF StartAttempt, Proceed, Checkpoint, Commit
  <2>3. db'.count[d] = base[p][d] + 1
    BY <2>2 DEF Started, TypeOK, Ledger
  <2> QED
    BY <1>1, <1>2, <2>1, <2>3 DEF SnapshotBehind
<1>12. ASSUME NEW p \in Procs, Deliver(p) PROVE Behind(p)'
  <2>1. base'[p] = base[p] /\ cur'[p] = cur[p] /\ Attempting(p)
    BY <1>12 DEF Deliver, At, Attempting
  <2> QED
    BY <1>3, <2>1
<1>13. ASSUME NEW p \in Procs, Record(p) PROVE Behind(p)'
  <2>1. base'[p] = base[p]
    BY <1>13 DEF Record
  <2>2. \E l : Proceed(p, l, "loop", TRUE)
    BY <1>13, Zenon DEF Record
  <2>3. ~Attempting(p)'
    BY <1>6, <2>2
  <2> QED
    BY <1>1, <1>2, <2>1, <2>3 DEF SnapshotBehind
<1>14. ASSUME NEW p \in Procs, Step(p) \/ LockLost(p) \/ Crash(p) PROVE Behind(p)'
  <2>1. CASE \/ LockLost(p) \/ Crash(p) \/ Finish(p)
             \/ \E d \in Delivery : AttemptTaken(p, d)
    BY <1>5, <2>1 DEF LockLost, Lose, Crash, Die, AttemptTaken, Finish, Release, Yield
  <2> QED
    BY <1>7, <1>8, <1>9, <1>10, <1>11, <1>12, <1>13, <1>14, <2>1 DEF Step
<1>15. \A q \in Procs : Behind(q)'
  BY <1>4, <1>14, OthersKeep, BystandersKeep DEF Next
<1> QED
  BY <1>1, <1>15 DEF SnapshotBehind

\* Every step keeps a success that waits to be recorded backed by its copy.
LEMMA EndStep ==
  ASSUME TypeOK, SnapshotBehind, EndBacked, TypeOK', CopiesKept, Next
  PROVE  EndBacked'
<1> DEFINE Backed(q) == pc[q] = "record" =>
                          /\ end[q] \in AttemptEnd
                          /\ end[q].outcome = "SUCCEEDED" => copies[cur[q]] > 0
<1>1. ASSUME NEW q \in Procs, Keeps(q) PROVE Backed(q)'
  <2>1. CASE pc[q] # "record"
    BY <1>1, <2>1 DEF Keeps
  <2>2. CASE pc[q] = "record"
    <3>1. cur[q] \in Delivery
      BY <2>2 DEF SnapshotBehind, Attempting
    <3>2. /\ copies[cur[q]] \in Nat /\ copies'[cur[q]] \in Nat
          /\ copies[cur[q]] <= copies'[cur[q]]
      BY <3>1 DEF TypeOK, CopiesKept
    <3>3. /\ end[q] \in AttemptEnd
          /\ end[q].outcome = "SUCCEEDED" => copies[cur[q]] > 0
      BY <2>2 DEF EndBacked
    <3> QED
      BY <1>1, <3>2, <3>3 DEF Keeps
  <2> QED
    BY <2>1, <2>2
<1>2. ASSUME NEW p \in Procs, Deliver(p) PROVE Backed(p)'
  <2>1. cur[p] \in Delivery /\ copies[cur[p]] \in Nat
    BY <1>2 DEF Deliver, At, SnapshotBehind, Attempting, TypeOK
  <2>2. AdapterOf[cur[p].dest] \in AdapterTypes
    BY <2>1 DEF Delivery
  <2>3. PICK e \in AttemptEnds(AdapterOf[cur[p].dest], copies[cur[p]] > 0) :
          /\ end' = [end EXCEPT ![p] = e]
          /\ copies' = IF e.arrives THEN [copies EXCEPT ![cur[p]] = @ + 1]
                                    ELSE copies
    BY <1>2 DEF Deliver
  <2>4. /\ e \in AttemptEnd
        /\ e.outcome = "SUCCEEDED" => e.arrives \/ copies[cur[p]] > 0
    <3>1. (copies[cur[p]] > 0) \in BOOLEAN
      BY <2>1
    <3> QED
      BY <2>2, <3>1, AttemptEndsType
  <2>5. end'[p] = e /\ cur'[p] = cur[p]
    BY <1>2, <2>3 DEF Deliver, TypeOK
  <2>6. e.arrives => copies'[cur[p]] > 0
    BY <2>1, <2>3 DEF TypeOK
  <2>7. ~e.arrives => copies' = copies
    BY <2>3
  <2> QED
    BY <2>4, <2>5, <2>6, <2>7
<1>3. ASSUME NEW p \in Procs, Step(p) \/ LockLost(p) \/ Crash(p), ~Deliver(p)
      PROVE  pc'[p] # "record"
  <2>1. ASSUME NEW l, NEW next, NEW c, next # "record",
               Proceed(p, l, next, c)
        PROVE  pc'[p] # "record"
    BY <2>1 DEF Proceed, Checkpoint, Goto, TypeOK
  <2>2. ASSUME Leave(p) PROVE pc'[p] # "record"
    BY <2>2 DEF Leave, TypeOK
  <2>3. CASE Start(p)
    BY <2>3 DEF Start, Acquire, Goto, TypeOK
  <2>4. CASE Reacquire(p)
    BY <2>4 DEF Reacquire, Regain, Goto, TypeOK, Resumes
  <2>5. CASE \/ MarkOrphans(p) \/ Derive(p) \/ Scan(p) \/ Record(p) \/ Conclude(p)
             \/ \E A \in SUBSET Alerts : DeriveRaises(p, A)
             \/ \E d \in Delivery : StartAttempt(p, d)
    BY <2>1, <2>5 DEF MarkOrphans, Derive, Scan, Record, Conclude, DeriveRaises,
                      StartAttempt
  <2>6. CASE \/ LockLost(p) \/ Crash(p) \/ Finish(p)
             \/ \E d \in Delivery : AttemptTaken(p, d)
    BY <2>2, <2>6 DEF LockLost, Lose, Crash, Die, AttemptTaken, Finish, Release, Yield
  <2> QED
    BY <1>3, <2>3, <2>4, <2>5, <2>6 DEF Step
<1>4. ASSUME NEW q \in Procs, pc'[q] # "record" PROVE Backed(q)'
  BY <1>4
<1>5. ASSUME NEW p \in Procs, Step(p) \/ LockLost(p) \/ Crash(p) PROVE Backed(p)'
  BY <1>2, <1>3, <1>4, <1>5
<1>6. \A q \in Procs : Backed(q)'
  BY <1>1, <1>5, OthersKeep, BystandersKeep DEF Next
<1> QED
  BY <1>6 DEF EndBacked

\* Every step, and a stutter, keeps the inductive invariant.
LEMMA NextIInv == IInv /\ [Next]_vars => IInv'
<1> SUFFICES ASSUME IInv, [Next]_vars PROVE IInv'
  OBVIOUS
<1>1. CASE UNCHANGED vars
  BY <1>1 DEF IInv, TypeOK, LockHeld, SnapshotBehind, EndBacked, Attempting,
              AttemptsNumbered, DeliveredBacked, vars, locals
<1>2. CASE Next
  <2>1. TypeOK' /\ LockHeld' /\ CopiesKept
    BY <1>2, TypeStep, LockHeldStep, CopiesKeptStep DEF IInv
  <2>2. Fine(db, copies) /\ Fine(txn, copies)
    BY FineInvariants DEF IInv
  <2>3. LedgersMove
    BY <1>2, <2>2, LedgersStep DEF IInv
  <2>4. SnapshotBehind' /\ EndBacked'
    BY <1>2, <2>1, <2>3, SnapshotStep, EndStep DEF IInv
  <2>5. Fine(db', copies') /\ Fine(txn', copies')
    BY <2>1, <2>3, FineMonotone DEF LedgersMove, IInv
  <2>6. AttemptsNumbered' /\ DeliveredBacked'
    BY <2>5 DEF Fine, Numbered, AttemptsNumbered, DeliveredBacked
  <2> QED
    BY <2>1, <2>4, <2>6 DEF IInv
<1> QED
  BY <1>1, <1>2

----------------------------------------------------------------------------
(* The theorems.                                                           *)

\* The inductive invariant holds in every reachable state: what the alert
\* ledger claims and counts stays backed through every interleaving of passes,
\* runs, operators, crashes and lost locks.
THEOREM Invariance == Spec => []IInv
<1>1. Init => IInv
  BY InitIInv
<1>2. IInv /\ [Next]_vars => IInv'
  BY NextIInv
<1> QED
  BY <1>1, <1>2, PTL DEF Spec

\* Every variable keeps its type, whatever the passes, the runs and the
\* operators do.
THEOREM TypeCorrect == Spec => []TypeOK
<1>1. IInv => TypeOK
  BY DEF IInv
<1> QED
  BY <1>1, Invariance, PTL

\* No delivery is DELIVERED unless its destination got a copy.
THEOREM DeliveriesAreBacked == Spec => []DeliveredBacked
<1>1. IInv => DeliveredBacked
  BY DEF IInv
<1> QED
  BY <1>1, Invariance, PTL

\* The attempts of every delivery are numbered without gaps or repetitions up
\* to its attempt_count, although passes number them from stale snapshots.
THEOREM AttemptsAreNumbered == Spec => []AttemptsNumbered
<1>1. IInv => AttemptsNumbered
  BY DEF IInv
<1> QED
  BY <1>1, Invariance, PTL

----------------------------------------------------------------------------
(* What the ledger functions change, said table by table.                  *)

\* k is l but for the table outbox.
OutboxOnly(l, k) == /\ k.row = l.row /\ k.count = l.count
                    /\ k.status = l.status /\ k.gen = l.gen

\* _mark_orphan_attempts closes every open attempt, and does nothing when
\* there is none.
LEMMA OrphansMarkedEffect ==
  ASSUME NEW l \in Ledger, NEW k, k = OrphansMarked(l)
  PROVE  /\ k.outbox = l.outbox /\ k.count = l.count
         /\ Orphans(k) = {}
         /\ \A d \in Delivery :
              k.status[d] = IF d \in Orphans(l) THEN D_UNKNOWN ELSE l.status[d]
         /\ Orphans(l) = {} => k.row = l.row
<1>1. /\ k.outbox = l.outbox /\ k.count = l.count
      /\ k.row = [d \in Delivery |-> [n \in AttemptNo |->
                   IF l.row[d][n] = "STARTED" THEN "UNKNOWN" ELSE l.row[d][n]]]
      /\ k.status = [d \in Delivery |->
                      IF d \in Orphans(l) THEN D_UNKNOWN ELSE l.status[d]]
      /\ l.row \in [Delivery -> [AttemptNo -> AttemptStatus]]
  BY DEF OrphansMarked, Ledger
<1>2. \A d \in Delivery : \A n \in AttemptNo : k.row[d][n] # "STARTED"
  BY <1>1
<1>3. Orphans(k) = {}
  BY <1>2 DEF Orphans
<1>4. ASSUME Orphans(l) = {} PROVE k.row = l.row
  <2>1. \A d \in Delivery : \A n \in AttemptNo : l.row[d][n] # "STARTED"
    BY <1>4 DEF Orphans
  <2>2. \A d \in Delivery : k.row[d] = l.row[d]
    BY <1>1, <2>1
  <2> QED
    BY <1>1, <2>2
<1> QED
  BY <1>1, <1>3, <1>4

\* The derivation writes a status where there was none, and nothing else.
LEMMA InsertedEffect ==
  ASSUME NEW l \in Ledger, NEW D, NEW k, k = Inserted(l, D)
  PROVE  /\ k.outbox = l.outbox /\ k.count = l.count /\ k.row = l.row
         /\ \A d \in Delivery :
              k.status[d] = IF d \in D THEN D_PENDING ELSE l.status[d]
BY DEF Inserted, Ledger

\* Starting an attempt writes its row.
LEMMA StartedEffect ==
  ASSUME NEW l \in Ledger, NEW d \in Delivery, NEW n \in AttemptNo,
         NEW k, k = Started(l, d, n)
  PROVE  /\ k.outbox = l.outbox /\ k.status = l.status
         /\ \A e \in Delivery : \A m \in AttemptNo :
              k.row[e][m] = IF e = d /\ m = n THEN "STARTED" ELSE l.row[e][m]
BY DEF Started, Ledger

\* _record_attempt writes the row of its attempt and the status of its
\* delivery.
LEMMA RecordedEffect ==
  ASSUME NEW l \in Ledger, NEW d \in Delivery, NEW n \in AttemptNo,
         NEW o \in AlertOutcomes, NEW k, k = Recorded(l, d, n, o)
  PROVE  /\ k.outbox = l.outbox
         /\ \A e \in Delivery : \A m \in AttemptNo :
              k.row[e][m] = IF e = d /\ m = n THEN AttemptAfter(o) ELSE l.row[e][m]
         /\ \A e \in Delivery :
              k.status[e] = IF e = d THEN StatusAfter(o, n) ELSE l.status[e]
BY DEF Recorded, SetStatus, Ledger

\* The operator's commands write the status of their delivery.
LEMMA RetriedEffect ==
  ASSUME NEW l \in Ledger, NEW d \in Delivery, NEW k, k = Retried(l, d)
  PROVE  /\ k.outbox = l.outbox /\ k.row = l.row
         /\ \A e \in Delivery : k.status[e] = IF e = d THEN D_PENDING ELSE l.status[e]
BY DEF Retried, SetStatus, Ledger

LEMMA AbandonedEffect ==
  ASSUME NEW l \in Ledger, NEW d \in Delivery, NEW k, k = Abandoned(l, d)
  PROVE  /\ k.outbox = l.outbox /\ k.row = l.row
         /\ \A e \in Delivery : k.status[e] = IF e = d THEN D_ABANDONED ELSE l.status[e]
BY DEF Abandoned, SetStatus, Ledger

\* Runs and the aggregate write to outbox alone.
LEMMA OutboxEffect ==
  ASSUME NEW l \in Ledger, NEW A, NEW B,
         NEW k \in {AlertsApplied(l, A, B), Aggregated(l, A, B)}
  PROVE  OutboxOnly(l, k)
BY DEF OutboxOnly, AlertsApplied, Aggregated, Ledger

----------------------------------------------------------------------------
(* How far a transaction is ahead of the committed ledger.                 *)

\* What a step of the program does to the two ledgers, and to them only.
Keep     == db' = db /\ txn' = txn
Flush    == db' = txn /\ txn' = txn
Rollback == db' = db /\ txn' = db
Advance(l, checkpointed) == txn' = l /\ (IF checkpointed THEN db' = l ELSE db' = db)

\* Every step is one of these.
LEMMA LedgerCases ==
  ASSUME IInv, Next
  PROVE  \/ Keep \/ Flush \/ Rollback
         \/ \E p \in Procs : /\ MarkOrphans(p)
                             /\ Advance(OrphansMarked(txn), Orphans(txn) # {})
         \/ \E p \in Procs : /\ Derive(p)
                             /\ Advance(Inserted(txn, New(txn, on[p])),
                                        New(txn, on[p]) # {})
         \/ \E p \in Procs, A \in SUBSET Alerts :
              /\ DeriveRaises(p, A)
              /\ Advance(Inserted(txn, {d \in New(txn, on[p]) : d.alert \in A}), FALSE)
         \/ \E p \in Procs, d \in Delivery, n \in AttemptNo :
              /\ StartAttempt(p, d) /\ n = base[p][d] + 1
              /\ Advance(Started(txn, d, n), TRUE)
         \/ \E p \in Procs, d \in Delivery, n \in AttemptNo, o \in AlertOutcomes :
              /\ Record(p) /\ d = cur[p] /\ n = base[p][d] + 1 /\ o = end[p].outcome
              /\ Advance(Recorded(txn, d, n, o), TRUE)
         \/ \E p \in Procs : /\ Conclude(p)
                             /\ Advance(Aggregated(txn, touched[p], on[p]), FALSE)
         \/ \E evaluated \in SUBSET Categories, A \in SUBSET Alerts :
              \E cands \in [A -> Facts] :
                /\ ApplyAlerts(evaluated, cands)
                /\ Commit(AlertsApplied(db, cands, evaluated))
         \/ \E d \in Delivery, force \in BOOLEAN :
              DeliveryRetry(d, force) /\ Commit(Retried(db, d))
         \/ \E d \in Delivery : DeliveryAbandon(d) /\ Commit(Abandoned(db, d))
<1>1. ASSUME NEW p, NEW l, NEW next, NEW c, Proceed(p, l, next, c)
      PROVE  Advance(l, c)
  BY <1>1 DEF Proceed, Checkpoint, Commit, Advance
<1>2. ASSUME NEW p \in Procs, Start(p) \/ Reacquire(p) \/ LockLost(p) \/ Deliver(p)
      PROVE  Keep
  BY <1>2 DEF Start, Acquire, Reacquire, Regain, LockLost, Lose, Deliver, Keep
<1>3. ASSUME NEW p \in Procs, Crash(p) PROVE Rollback \/ Keep
  BY <1>3 DEF Crash, Die, Rollback, Keep
<1>4. ASSUME NEW p \in Procs, Finish(p) \/ \E d \in Delivery : AttemptTaken(p, d)
      PROVE  Flush
  BY <1>4 DEF Finish, AttemptTaken, Release, Yield, Commit, Flush
<1>5. ASSUME NEW p \in Procs, Scan(p) PROVE Keep
  <2>1. Advance(txn, FALSE)
    BY <1>1, <1>5 DEF Scan
  <2> QED
    BY <2>1 DEF Advance, Keep
<1>6. ASSUME NEW p \in Procs, MarkOrphans(p)
      PROVE  Advance(OrphansMarked(txn), Orphans(txn) # {})
  BY <1>1, <1>6 DEF MarkOrphans
<1>7. ASSUME NEW p \in Procs, Derive(p)
      PROVE  Advance(Inserted(txn, New(txn, on[p])), New(txn, on[p]) # {})
  BY <1>1, <1>7 DEF Derive
<1>8. ASSUME NEW p \in Procs, NEW A \in SUBSET Alerts, DeriveRaises(p, A)
      PROVE  Advance(Inserted(txn, {d \in New(txn, on[p]) : d.alert \in A}), FALSE)
  BY <1>1, <1>8 DEF DeriveRaises
<1>9. ASSUME NEW p \in Procs, NEW d \in Delivery, StartAttempt(p, d)
      PROVE  \E n \in AttemptNo : n = base[p][d] + 1 /\ Advance(Started(txn, d, n), TRUE)
  <2>1. Advance(Started(txn, d, base[p][d] + 1), TRUE)
    BY <1>1, <1>9 DEF StartAttempt
  <2>2. base[p][d] + 1 \in AttemptNo
    BY <1>9 DEF StartAttempt, IInv, TypeOK, AttemptNo
  <2> QED
    BY <2>1, <2>2
<1>10. ASSUME NEW p \in Procs, Record(p)
       PROVE  \E d \in Delivery, n \in AttemptNo, o \in AlertOutcomes :
                /\ d = cur[p] /\ n = base[p][d] + 1 /\ o = end[p].outcome
                /\ Advance(Recorded(txn, d, n, o), TRUE)
  <2>1. Advance(Recorded(txn, cur[p], base[p][cur[p]] + 1, end[p].outcome), TRUE)
    BY <1>1, <1>10 DEF Record
  <2>2. /\ cur[p] \in Delivery /\ end[p].outcome \in AlertOutcomes
        /\ base[p][cur[p]] < db.count[cur[p]]
    BY <1>10 DEF Record, At, IInv, SnapshotBehind, Attempting, EndBacked, AttemptEnd
  <2>3. base[p][cur[p]] \in 0..MaxRows /\ db.count[cur[p]] \in 0..MaxRows
    BY <2>2 DEF IInv, TypeOK, Ledger
  <2>4. base[p][cur[p]] + 1 \in AttemptNo
    BY <2>2, <2>3 DEF AttemptNo
  <2> QED
    BY <2>1, <2>2, <2>4
<1>11. ASSUME NEW p \in Procs, Conclude(p)
       PROVE  Advance(Aggregated(txn, touched[p], on[p]), FALSE)
  BY <1>1, <1>11 DEF Conclude
<1>12. ASSUME NEW evaluated, NEW cands, ApplyAlerts(evaluated, cands)
       PROVE  Commit(AlertsApplied(db, cands, evaluated))
  BY <1>12 DEF ApplyAlerts, Command
<1>13. ASSUME NEW d \in Delivery, NEW force \in BOOLEAN, DeliveryRetry(d, force)
       PROVE  Commit(Retried(db, d))
  BY <1>13 DEF DeliveryRetry, Command
<1>14. ASSUME NEW d \in Delivery, DeliveryAbandon(d) PROVE Commit(Abandoned(db, d))
  BY <1>14 DEF DeliveryAbandon, Command
<1> QED
  <2>1. CASE \E p \in Procs : Step(p) \/ LockLost(p) \/ Crash(p)
    <3>1. PICK p \in Procs : Step(p) \/ LockLost(p) \/ Crash(p)
      BY <2>1
    <3>2. CASE \/ Start(p) \/ Reacquire(p) \/ LockLost(p) \/ Deliver(p) \/ Crash(p)
               \/ Finish(p) \/ Scan(p) \/ \E d \in Delivery : AttemptTaken(p, d)
      BY <1>2, <1>3, <1>4, <1>5, <3>2
    <3>3. CASE MarkOrphans(p)
      BY <1>6, <3>3
    <3>4. CASE Derive(p)
      BY <1>7, <3>4
    <3>5. CASE \E A \in SUBSET Alerts : DeriveRaises(p, A)
      BY <1>8, <3>5
    <3>6. CASE \E d \in Delivery : StartAttempt(p, d)
      BY <1>9, <3>6
    <3>7. CASE Record(p)
      BY <1>10, <3>7
    <3>8. CASE Conclude(p)
      BY <1>11, <3>8
    <3> QED
      BY <3>1, <3>2, <3>3, <3>4, <3>5, <3>6, <3>7, <3>8 DEF Step
  <2>2. CASE Run
    <3>1. PICK evaluated \in (SUBSET Categories) \ {{}}, A \in SUBSET Alerts :
            \E cands \in [A -> Facts] : ApplyAlerts(evaluated, cands)
      BY <2>2, Zenon DEF Run
    <3>2. PICK cands \in [A -> Facts] : ApplyAlerts(evaluated, cands)
      BY <3>1
    <3>3. Commit(AlertsApplied(db, cands, evaluated))
      BY <1>12, <3>2
    <3>4. \E eval \in SUBSET Categories, B \in SUBSET Alerts : \E found \in [B -> Facts] :
            /\ ApplyAlerts(eval, found)
            /\ Commit(AlertsApplied(db, found, eval))
      BY <3>2, <3>3, Zenon
    <3> QED
      BY <3>4
  <2>3. CASE Operator
    BY <1>13, <1>14, <2>3 DEF Operator
  <2> QED
    BY <2>1, <2>2, <2>3 DEF Next

\* The attempts of a transaction are the committed ones, and so is every
\* status but that of a delivery the pass has derived.
Drift ==
  /\ txn.row = db.row
  /\ \A d \in Delivery :
       \/ txn.status[d] = db.status[d]
       \/ db.status[d] = D_NONE /\ txn.status[d] = D_PENDING

Settled(d) == db.status[d] \in {D_DELIVERED, D_ABANDONED} /\ ~Involved(d)

\* Every step keeps the drift within that, and the status of a delivery that
\* is settled.
LEMMA DriftStep ==
  ASSUME IInv, Drift, Next
  PROVE  /\ Drift'
         /\ \A d \in Delivery : Settled(d) => db'.status[d] = db.status[d]
<1> DEFINE Goal == /\ Drift'
                   /\ \A d \in Delivery : Settled(d) => db'.status[d] = db.status[d]
<1>1. /\ db \in Ledger /\ txn \in Ledger
      /\ txn.row = db.row
      /\ \A d \in Delivery :
           \/ txn.status[d] = db.status[d]
           \/ db.status[d] = D_NONE /\ txn.status[d] = D_PENDING
  BY DEF IInv, TypeOK, Drift
<1>2. /\ D_DELIVERED # D_NONE /\ D_ABANDONED # D_NONE
      /\ D_DELIVERED # D_PENDING /\ D_ABANDONED # D_PENDING
  BY DEF D_DELIVERED, D_ABANDONED, D_NONE, D_PENDING
<1>3. \A d \in Delivery : Settled(d) => /\ db.status[d] \in {D_DELIVERED, D_ABANDONED}
                                        /\ d \notin Orphans(db)
                                        /\ \A p \in Procs : d \notin queue[p] /\ d # cur[p]
  BY DEF Settled, Involved, Orphans
<1>4. \A d \in Delivery : Settled(d) => txn.status[d] = db.status[d]
  BY <1>1, <1>2, <1>3
<1>5. ASSUME Keep \/ Flush \/ Rollback PROVE Goal
  BY <1>1, <1>4, <1>5 DEF Keep, Flush, Rollback, Drift
\* A checkpoint makes both ledgers the same.
<1>6. ASSUME db' = txn', \A d \in Delivery : Settled(d) => db'.status[d] = db.status[d]
      PROVE  Goal
  BY <1>6 DEF Drift
<1>7. ASSUME NEW p \in Procs, Advance(OrphansMarked(txn), Orphans(txn) # {})
      PROVE  Goal
  <2>1. /\ txn'.status = OrphansMarked(txn).status
        /\ \A d \in Delivery : txn'.status[d] = IF d \in Orphans(txn) THEN D_UNKNOWN
                                                 ELSE txn.status[d]
        /\ Orphans(txn) = {} => txn'.row = txn.row
    BY <1>1, <1>7, OrphansMarkedEffect DEF Advance
  <2>2. Orphans(txn) = Orphans(db)
    BY <1>1 DEF Orphans
  <2>3. CASE Orphans(txn) # {}
    <3>1. db' = txn'
      BY <1>7, <2>3 DEF Advance
    <3> QED
      BY <1>3, <1>4, <1>6, <2>1, <2>2, <3>1
  <2>4. CASE Orphans(txn) = {}
    <3>1. db' = db
      BY <1>7, <2>4 DEF Advance
    <3> QED
      BY <1>1, <2>1, <2>4, <3>1 DEF Drift
  <2> QED
    BY <2>3, <2>4
<1>8. ASSUME NEW D \in SUBSET (Delivery \ Known(txn)), NEW c \in BOOLEAN,
             Advance(Inserted(txn, D), c)
      PROVE  Goal
  <2>1. /\ txn'.row = txn.row
        /\ \A d \in Delivery : txn'.status[d] = IF d \in D THEN D_PENDING
                                                ELSE txn.status[d]
    BY <1>1, <1>8, InsertedEffect DEF Advance
  <2>2. \A d \in D : txn.status[d] = D_NONE /\ db.status[d] = D_NONE
    BY <1>1 DEF Known, D_NONE, D_PENDING
  <2>3. CASE c
    <3>1. db' = txn'
      BY <1>8, <2>3 DEF Advance
    <3> QED
      BY <1>2, <1>3, <1>4, <1>6, <2>1, <2>2, <3>1
  <2>4. CASE ~c
    <3>1. db' = db
      BY <1>8, <2>4 DEF Advance
    <3> QED
      BY <1>1, <2>1, <2>2, <3>1 DEF Drift
  <2> QED
    BY <2>3, <2>4
<1>9. ASSUME NEW p \in Procs, Derive(p),
             Advance(Inserted(txn, New(txn, on[p])), New(txn, on[p]) # {})
      PROVE  Goal
  <2>1. New(txn, on[p]) \in SUBSET (Delivery \ Known(txn))
    BY DEF New
  <2> QED
    BY <1>8, <1>9, <2>1
<1>10. ASSUME NEW p \in Procs, NEW A,
              Advance(Inserted(txn, {d \in New(txn, on[p]) : d.alert \in A}), FALSE)
       PROVE  Goal
  <2>1. {d \in New(txn, on[p]) : d.alert \in A} \in SUBSET (Delivery \ Known(txn))
    BY DEF New
  <2> QED
    BY <1>8, <1>10, <2>1
<1>11. ASSUME NEW d \in Delivery, NEW n \in AttemptNo, Advance(Started(txn, d, n), TRUE)
       PROVE  Goal
  <2>1. db' = txn' /\ txn'.status = txn.status
    BY <1>1, <1>11, StartedEffect DEF Advance
  <2> QED
    BY <1>4, <1>6, <2>1
<1>12. ASSUME NEW p \in Procs, NEW d \in Delivery, NEW n \in AttemptNo,
              NEW o \in AlertOutcomes, d = cur[p], Advance(Recorded(txn, d, n, o), TRUE)
       PROVE  Goal
  <2>1. db' = txn' /\ \A e \in Delivery : e = d \/ txn'.status[e] = txn.status[e]
    BY <1>1, <1>12, RecordedEffect DEF Advance
  <2> QED
    BY <1>3, <1>4, <1>6, <1>12, <2>1
<1>13. ASSUME NEW A, NEW E, Advance(Aggregated(txn, A, E), FALSE) PROVE Goal
  <2>1. db' = db /\ txn'.status = txn.status /\ txn'.row = txn.row
    BY <1>1, <1>13, OutboxEffect DEF Advance, OutboxOnly
  <2> QED
    BY <1>1, <2>1 DEF Drift
<1>14. ASSUME NEW cands, NEW E, Commit(AlertsApplied(db, cands, E)) PROVE Goal
  <2>1. db' = txn' /\ db'.status = db.status
    BY <1>1, <1>14, OutboxEffect DEF Commit, OutboxOnly
  <2> QED
    BY <1>6, <2>1
<1>15. ASSUME NEW d \in Delivery, NEW force, DeliveryRetry(d, force),
              Commit(Retried(db, d))
       PROVE  Goal
  <2>1. db' = txn' /\ \A e \in Delivery : e = d \/ db'.status[e] = db.status[e]
    BY <1>1, <1>15, RetriedEffect DEF Commit
  <2>2. db.status[d] \notin {D_DELIVERED, D_ABANDONED}
    BY <1>15 DEF DeliveryRetry, MayRetry
  <2> QED
    BY <1>3, <1>6, <2>1, <2>2
<1>16. ASSUME NEW d \in Delivery, DeliveryAbandon(d), Commit(Abandoned(db, d))
       PROVE  Goal
  <2>1. db' = txn' /\ \A e \in Delivery :
          db'.status[e] = IF e = d THEN D_ABANDONED ELSE db.status[e]
    BY <1>1, <1>16, AbandonedEffect DEF Commit
  <2>2. db.status[d] # D_DELIVERED
    BY <1>16 DEF DeliveryAbandon, MayAbandon
  <2> QED
    BY <1>3, <1>6, <2>1, <2>2
<1> HIDE DEF Goal
<1>17. Goal
  BY <1>5, <1>7, <1>9, <1>10, <1>11, <1>12, <1>13, <1>14, <1>15, <1>16, LedgerCases
<1> QED
  BY <1>17 DEF Goal

\* IInv and the drift hold together in every reachable state.
THEOREM DriftIsBounded == Spec => [](IInv /\ Drift)
<1>1. Init => IInv /\ Drift
  BY InitIInv DEF Init, Drift
<1>2. IInv /\ Drift /\ [Next]_vars => (IInv /\ Drift)'
  <2>1. IInv /\ Drift /\ UNCHANGED vars => Drift'
    BY DEF Drift, vars
  <2> QED
    BY <2>1, NextIInv, DriftStep
<1> QED
  BY <1>1, <1>2, PTL DEF Spec

\* A delivery that is DELIVERED or ABANDONED stays so, once no pass has it in
\* its snapshot and no attempt of it was left STARTED, whatever passes overlap.
THEOREM SettledDeliveriesStay == Spec => SettledStays
<1>1. IInv /\ Drift /\ [Next]_vars =>
        [\A d \in Delivery :
           db.status[d] \in {D_DELIVERED, D_ABANDONED} /\ ~Involved(d) =>
             db'.status[d] = db.status[d]]_vars
  BY DriftStep DEF Settled
<1> QED
  BY <1>1, DriftIsBounded, PTL DEF Spec, SettledStays

----------------------------------------------------------------------------
(* Transactions and what a pass has in hand.                               *)

\* A transaction differs from the committed ledger only at the end of a pass:
\* everything before is checkpointed as soon as it is written.
InStep == txn = db \/ (holder \in Procs /\ pc[holder] = "done")

\* What a pass works on, and what an attempt was left open of, are
\* deliveries of the committed ledger.
KnownInHand ==
  /\ Orphans(db) \subseteq Known(db)
  /\ \A p \in Procs : /\ queue[p] \subseteq Known(db)
                      /\ Attempting(p) => cur[p] \in Known(db)

\* A sweep that finds no orphan and a derivation of nothing leave the ledger
\* as it is.
LEMMA NothingToDo ==
  ASSUME NEW l \in Ledger
  PROVE  /\ Orphans(l) = {} => OrphansMarked(l) = l
         /\ Inserted(l, {}) = l
<1>1. /\ l.row \in [Delivery -> [AttemptNo -> AttemptStatus]]
      /\ l.status \in [Delivery -> DeliveryStatus]
      /\ l.gen \in [Delivery -> Nat]
  BY DEF Ledger
<1>2. ASSUME Orphans(l) = {} PROVE OrphansMarked(l) = l
  <2> DEFINE r == [d \in Delivery |-> [n \in AttemptNo |->
                    IF l.row[d][n] = "STARTED" THEN "UNKNOWN" ELSE l.row[d][n]]]
             s == [d \in Delivery |->
                    IF d \in Orphans(l) THEN D_UNKNOWN ELSE l.status[d]]
  <2>1. OrphansMarked(l) = [l EXCEPT !.row = r, !.status = s]
    BY DEF OrphansMarked
  <2>2. \A d \in Delivery : \A n \in AttemptNo : l.row[d][n] # "STARTED"
    BY <1>2 DEF Orphans
  <2>3. \A d \in Delivery : r[d] = l.row[d]
    BY <1>1, <2>2
  <2>4. r = l.row
    BY <1>1, <2>3
  <2>5. s = l.status
    BY <1>1, <1>2
  <2> HIDE DEF r, s
  <2> QED
    BY <2>1, <2>4, <2>5 DEF Ledger
<1>3. Inserted(l, {}) = l
  <2> DEFINE s == [d \in Delivery |-> IF d \in {} THEN D_PENDING ELSE l.status[d]]
             g == [d \in Delivery |-> IF d \in {} THEN NextGen(l, d) ELSE l.gen[d]]
  <2>1. Inserted(l, {}) = [l EXCEPT !.status = s, !.gen = g]
    BY DEF Inserted
  <2>2. s = l.status /\ g = l.gen
    BY <1>1
  <2> HIDE DEF s, g
  <2> QED
    BY <2>1, <2>2 DEF Ledger
<1> QED
  BY <1>2, <1>3

\* Every step checkpoints what it writes, or ends the pass.
LEMMA InStepStep ==
  ASSUME IInv, InStep, Next
  PROVE  InStep'
<1>1. db \in Ledger /\ txn \in Ledger /\ pc \in [Procs -> Phases]
      /\ holder \in Procs \cup {Nobody}
  BY DEF IInv, TypeOK
<1>2. ASSUME db' = txn' PROVE InStep'
  BY <1>2 DEF InStep
<1>3. ASSUME Keep, txn = db PROVE InStep'
  BY <1>3 DEF Keep, InStep
<1>4. ASSUME NEW p \in Procs, holder = p, pc[p] # "done" PROVE txn = db
  BY <1>4 DEF InStep
<1>5. ASSUME NEW p \in Procs, Start(p) \/ Reacquire(p) PROVE InStep'
  <2>1. holder = Nobody /\ Keep
    BY <1>5 DEF Start, Acquire, Reacquire, Regain, Keep
  <2> QED
    BY <1>3, <2>1 DEF InStep
<1>6. ASSUME NEW p \in Procs, LockLost(p) PROVE InStep'
  BY <1>1, <1>6 DEF LockLost, Lose, Leave, At, InStep
<1>7. ASSUME NEW p \in Procs, Crash(p) PROVE InStep'
  BY <1>1, <1>7 DEF Crash, Die, Leave, InStep
<1>8. ASSUME NEW p \in Procs, Deliver(p) \/ Scan(p) PROVE InStep'
  <2>1. txn = db
    BY <1>4, <1>8 DEF Deliver, Scan, At
  <2>2. Keep
    BY <1>8 DEF Deliver, Scan, Keep, Proceed
  <2> QED
    BY <1>3, <2>1, <2>2
<1>9. ASSUME NEW p \in Procs, MarkOrphans(p),
             Advance(OrphansMarked(txn), Orphans(txn) # {})
      PROVE  InStep'
  <2>1. txn = db
    BY <1>4, <1>9 DEF MarkOrphans, At
  <2> QED
    BY <1>1, <1>2, <1>9, <2>1, NothingToDo DEF Advance
<1>10. ASSUME NEW p \in Procs, Derive(p),
              Advance(Inserted(txn, New(txn, on[p])), New(txn, on[p]) # {})
       PROVE  InStep'
  <2>1. txn = db
    BY <1>4, <1>10 DEF Derive, At
  <2> QED
    BY <1>1, <1>2, <1>10, <2>1, NothingToDo DEF Advance
<1>11. ASSUME NEW p \in Procs, \/ Conclude(p) \/ \E A : DeriveRaises(p, A)
       PROVE  InStep'
  <2>1. holder = p /\ \E l : Proceed(p, l, "done", FALSE)
    BY <1>11, Zenon DEF Conclude, DeriveRaises, At
  <2>2. holder' = p /\ pc'[p] = "done"
    BY <1>1, <2>1 DEF Proceed, Goto
  <2> QED
    BY <2>2 DEF InStep
<1>12. ASSUME NEW p \in Procs, Finish(p) \/ \E d \in Delivery : AttemptTaken(p, d)
       PROVE  InStep'
  BY <1>2, <1>12 DEF Finish, AttemptTaken, Release, Yield, Commit
<1>13. ASSUME NEW p \in Procs, Record(p) \/ \E d \in Delivery : StartAttempt(p, d)
       PROVE  InStep'
  <2>1. \E l, next : Proceed(p, l, next, TRUE)
    BY <1>13, Zenon DEF Record, StartAttempt
  <2> QED
    BY <1>2, <2>1 DEF Proceed, Checkpoint, Commit
<1>14. ASSUME NEW p \in Procs, MarkOrphans(p) \/ Derive(p) PROVE InStep'
  <2>1. CASE MarkOrphans(p)
    BY <1>9, <2>1 DEF MarkOrphans, Proceed, Checkpoint, Commit, Advance
  <2>2. CASE Derive(p)
    BY <1>10, <2>2 DEF Derive, Proceed, Checkpoint, Commit, Advance
  <2> QED
    BY <1>14, <2>1, <2>2
<1>15. ASSUME Run \/ Operator PROVE InStep'
  <2>1. \E l : Command(l)
    BY <1>15, Zenon DEF Run, Operator, ApplyAlerts, DeliveryRetry, DeliveryAbandon
  <2> QED
    BY <1>2, <2>1 DEF Command, Commit
<1> QED
  BY <1>5, <1>6, <1>7, <1>8, <1>11, <1>12, <1>13, <1>14, <1>15 DEF Next, Step

\* A delivery that is in the ledger stays there.
LEMMA KnownGrows ==
  ASSUME IInv, Drift, Next
  PROVE  Known(db) \subseteq Known(db') /\ Known(db') \subseteq Known(txn')
<1>1. /\ db \in Ledger /\ txn \in Ledger /\ Drift'
      /\ \A d \in Delivery : db.status[d] # D_NONE => txn.status[d] = db.status[d]
  BY DriftStep DEF IInv, TypeOK, Drift
<1>2. /\ D_PENDING # D_NONE /\ D_UNKNOWN # D_NONE /\ D_ABANDONED # D_NONE
      /\ \A o, n : StatusAfter(o, n) # D_NONE \/ o \notin AlertOutcomes
  BY DEF D_PENDING, D_UNKNOWN, D_ABANDONED, D_NONE, StatusAfter, AlertOutcomes,
         D_DELIVERED, D_FAILED_PERMANENT, D_FAILED_RETRYABLE
<1> DEFINE Grow == \A d \in Delivery : db.status[d] # D_NONE => db'.status[d] # D_NONE
<1>3. ASSUME NEW l, NEW c, Advance(l, c),
             \A d \in Delivery : txn.status[d] # D_NONE => l.status[d] # D_NONE
      PROVE  Grow
  BY <1>1, <1>3 DEF Advance
<1>4. ASSUME Keep \/ Flush \/ Rollback PROVE Grow
  BY <1>1, <1>4 DEF Keep, Flush, Rollback
<1>5. ASSUME NEW c, Advance(OrphansMarked(txn), c) PROVE Grow
  BY <1>1, <1>2, <1>3, <1>5, OrphansMarkedEffect
<1>6. ASSUME NEW D, NEW c, Advance(Inserted(txn, D), c) PROVE Grow
  BY <1>1, <1>2, <1>3, <1>6, InsertedEffect
<1>7. ASSUME NEW d \in Delivery, NEW n \in AttemptNo, Advance(Started(txn, d, n), TRUE)
      PROVE  Grow
  <2>1. Started(txn, d, n).status = txn.status
    BY <1>1, StartedEffect
  <2> QED
    BY <1>3, <1>7, <2>1
<1>8. ASSUME NEW d \in Delivery, NEW n \in AttemptNo, NEW o \in AlertOutcomes,
             Advance(Recorded(txn, d, n, o), TRUE)
      PROVE  Grow
  <2>1. \A e \in Delivery : Recorded(txn, d, n, o).status[e] =
                              IF e = d THEN StatusAfter(o, n) ELSE txn.status[e]
    BY <1>1, RecordedEffect
  <2> QED
    BY <1>2, <1>3, <1>8, <2>1
<1>9. ASSUME NEW A, NEW E, Advance(Aggregated(txn, A, E), FALSE) PROVE Grow
  <2>1. Aggregated(txn, A, E).status = txn.status
    BY <1>1, OutboxEffect DEF OutboxOnly
  <2> QED
    BY <1>3, <1>9, <2>1
<1>10. ASSUME NEW A, NEW E, Commit(AlertsApplied(db, A, E)) PROVE Grow
  BY <1>1, <1>10, OutboxEffect DEF OutboxOnly, Commit
<1>11. ASSUME NEW d \in Delivery, Commit(Retried(db, d)) \/ Commit(Abandoned(db, d))
       PROVE  Grow
  BY <1>1, <1>2, <1>11, RetriedEffect, AbandonedEffect DEF Commit
<1> HIDE DEF Grow
<1>12. Grow
  BY <1>4, <1>5, <1>6, <1>7, <1>8, <1>9, <1>10, <1>11, LedgerCases
<1> QED
  BY <1>1, <1>12 DEF Grow, Known, Drift

\* What a pass has in hand comes from its scan, and the configuration it
\* works with from its start.
LEMMA HandMoves ==
  ASSUME TypeOK, Next, NEW q \in Procs
  PROVE  /\ Scan(q) \/ queue'[q] \subseteq queue[q]
         /\ Attempting(q)' => \/ /\ Attempting(q)
                                 /\ cur'[q] = cur[q] /\ base'[q] = base[q]
                                 /\ queue'[q] = queue[q]
                              \/ \E d \in queue[q] : /\ StartAttempt(q, d)
                                                     /\ cur'[q] = d
         /\ on'[q] \in Configs \cup {{}, on[q]}
<1> USE DEF TypeOK
<1> DEFINE Goal == /\ Scan(q) \/ queue'[q] \subseteq queue[q]
                   /\ Attempting(q)' => \/ /\ Attempting(q)
                                           /\ cur'[q] = cur[q] /\ base'[q] = base[q]
                                           /\ queue'[q] = queue[q]
                                        \/ \E d \in queue[q] : /\ StartAttempt(q, d)
                                                               /\ cur'[q] = d
                   /\ on'[q] \in Configs \cup {{}, on[q]}
<1>1. ASSUME UNCHANGED <<on, queue, cur, base>>, Attempting(q)' => Attempting(q)
      PROVE  Goal
  BY <1>1
<1>2. ASSUME NEW p \in Procs, Leave(p), Forget(p) PROVE Goal
  BY <1>2 DEF Leave, Forget, Attempting
<1>3. ASSUME NEW p \in Procs, \/ LockLost(p) \/ Crash(p) \/ Finish(p)
                              \/ \E d \in Delivery : AttemptTaken(p, d)
      PROVE  Goal
  BY <1>2, <1>3 DEF LockLost, Lose, Crash, Die, Finish, AttemptTaken, Release, Yield
<1>4. ASSUME NEW p \in Procs, NEW l, NEW next, NEW c, Proceed(p, l, next, c),
             next \notin {"deliver", "record", "gap"}
      PROVE  (Attempting(q)' => Attempting(q)) /\ (q = p => ~Attempting(q)')
  BY <1>4 DEF Proceed, Checkpoint, Goto, Attempting
<1>5. ASSUME NEW p \in Procs, Start(p) PROVE Goal
  BY <1>5 DEF Start, Acquire, Goto, Attempting
<1>6. ASSUME NEW p \in Procs, Reacquire(p) PROVE Goal
  BY <1>1, <1>6 DEF Reacquire, Regain, Goto, Attempting, locals, At, Resumes
<1>7. ASSUME NEW p \in Procs, \/ MarkOrphans(p) \/ Conclude(p)
                              \/ \E A : DeriveRaises(p, A)
      PROVE  Goal
  <2>1. \E l, c : Proceed(p, l, "derive", c) \/ Proceed(p, l, "done", c)
    <3>1. CASE MarkOrphans(p)
      BY <3>1, Zenon DEF MarkOrphans
    <3>2. CASE Conclude(p)
      BY <3>2, Zenon DEF Conclude
    <3>3. CASE \E A : DeriveRaises(p, A)
      BY <3>3, Zenon DEF DeriveRaises
    <3> QED
      BY <1>7, <3>1, <3>2, <3>3
  <2>2. UNCHANGED <<on, queue, cur, base>>
    BY <1>7 DEF MarkOrphans, Conclude, DeriveRaises, locals
  <2> QED
    BY <1>1, <1>4, <2>1, <2>2
<1>8. ASSUME NEW p \in Procs, Derive(p) PROVE Goal
  <2>1. UNCHANGED <<on, queue, cur, base>> /\ \E l, c : Proceed(p, l, "scan", c)
    BY <1>8, Zenon DEF Derive
  <2> QED
    BY <1>1, <1>4, <2>1
<1>9. ASSUME NEW p \in Procs, Scan(p) PROVE Goal
  <2>1. /\ Proceed(p, txn, "loop", FALSE)
        /\ on' = on /\ cur' = cur
        /\ base' = [base EXCEPT ![p] = txn.count]
        /\ \A r \in Procs \ {p} : queue'[r] = queue[r]
    BY <1>9 DEF Scan
  <2> QED
    BY <1>4, <1>9, <2>1
<1>10. ASSUME NEW p \in Procs, NEW d \in Delivery, StartAttempt(p, d) PROVE Goal
  <2>1. /\ Proceed(p, Started(txn, d, base[p][d] + 1), "deliver", TRUE)
        /\ cur' = [cur EXCEPT ![p] = d] /\ base' = base /\ on' = on
        /\ queue' = [queue EXCEPT ![p] = @ \ {d}]
        /\ d \in queue[p]
    BY <1>10 DEF StartAttempt, Take, Oldest
  <2>2. \A r \in Procs \ {p} : pc'[r] = pc[r] /\ resume'[r] = resume[r]
    BY <2>1 DEF Proceed, Checkpoint, Goto
  <2> QED
    BY <1>10, <2>1, <2>2 DEF Attempting
<1>11. ASSUME NEW p \in Procs, Deliver(p) PROVE Goal
  BY <1>1, <1>11 DEF Deliver, Goto, Attempting, At
<1>12. ASSUME NEW p \in Procs, Record(p) PROVE Goal
  <2>1. /\ \E l : Proceed(p, l, "loop", TRUE)
        /\ cur' = [cur EXCEPT ![p] = NoDelivery] /\ UNCHANGED <<on, base, queue>>
    BY <1>12, Zenon DEF Record
  <2> QED
    BY <1>4, <2>1
<1>13. ASSUME Run \/ Operator PROVE Goal
  BY <1>1, <1>13 DEF Run, Operator, ApplyAlerts, DeliveryRetry, DeliveryAbandon, Command,
                     locals, Attempting
<1> HIDE DEF Goal
<1>14. Goal
  BY <1>3, <1>5, <1>6, <1>7, <1>8, <1>9, <1>10, <1>11, <1>12, <1>13 DEF Next, Step
<1> QED
  BY <1>14 DEF Goal

\* The attempts that are open after a step were open before, or the step
\* starts one.
LEMMA OpenMoves ==
  ASSUME IInv, Drift, Next, NEW e \in Delivery, NEW j \in AttemptNo,
         db'.row[e][j] = "STARTED"
  PROVE  \/ db.row[e][j] = "STARTED"
         \/ \E p \in Procs : StartAttempt(p, e) /\ j = base[p][e] + 1
<1> DEFINE Goal == \/ db.row[e][j] = "STARTED"
                   \/ \E p \in Procs : StartAttempt(p, e) /\ j = base[p][e] + 1
<1>1. /\ db \in Ledger /\ txn \in Ledger /\ txn.row = db.row
      /\ db.row \in [Delivery -> [AttemptNo -> AttemptStatus]]
  BY DEF IInv, TypeOK, Drift, Ledger
<1>2. ASSUME db'.row = db.row PROVE Goal
  BY <1>2
<1>3. ASSUME Keep \/ Flush \/ Rollback PROVE Goal
  BY <1>1, <1>2, <1>3 DEF Keep, Flush, Rollback
<1>4. ASSUME NEW c \in BOOLEAN, Advance(OrphansMarked(txn), c) PROVE Goal
  <2>1. Orphans(OrphansMarked(txn)) = {}
    BY <1>1, OrphansMarkedEffect
  <2> QED
    BY <1>1, <1>2, <1>4, <2>1 DEF Advance, Orphans
<1>5. ASSUME NEW D, NEW c \in BOOLEAN, Advance(Inserted(txn, D), c) PROVE Goal
  BY <1>1, <1>2, <1>5, InsertedEffect DEF Advance
<1>6. ASSUME NEW p \in Procs, NEW d \in Delivery, NEW n \in AttemptNo,
             StartAttempt(p, d), n = base[p][d] + 1, Advance(Started(txn, d, n), TRUE)
      PROVE  Goal
  <2>1. db'.row[e][j] = IF e = d /\ j = n THEN "STARTED" ELSE txn.row[e][j]
    BY <1>1, <1>6, StartedEffect DEF Advance
  <2> QED
    BY <1>1, <1>6, <2>1
<1>7. ASSUME NEW d \in Delivery, NEW n \in AttemptNo, NEW o \in AlertOutcomes,
             Advance(Recorded(txn, d, n, o), TRUE)
      PROVE  Goal
  <2>1. db'.row[e][j] = IF e = d /\ j = n THEN AttemptAfter(o) ELSE txn.row[e][j]
    BY <1>1, <1>7, RecordedEffect DEF Advance
  <2>2. AttemptAfter(o) # "STARTED"
    BY DEF AttemptAfter
  <2> QED
    BY <1>1, <2>1, <2>2
<1>8. ASSUME NEW A, NEW E, Advance(Aggregated(txn, A, E), FALSE) PROVE Goal
  BY <1>1, <1>2, <1>8 DEF Advance
<1>9. ASSUME NEW A, NEW E, Commit(AlertsApplied(db, A, E)) PROVE Goal
  BY <1>1, <1>2, <1>9, OutboxEffect DEF OutboxOnly, Commit
<1>10. ASSUME NEW d \in Delivery, Commit(Retried(db, d)) \/ Commit(Abandoned(db, d))
       PROVE  Goal
  BY <1>1, <1>2, <1>10, RetriedEffect, AbandonedEffect DEF Commit
<1> HIDE DEF Goal
<1>11. Goal
  BY <1>3, <1>4, <1>5, <1>6, <1>7, <1>8, <1>9, <1>10, LedgerCases
<1> QED
  BY <1>11 DEF Goal

\* Every step keeps what a pass has in hand in the committed ledger.
LEMMA KnownInHandStep ==
  ASSUME IInv, Drift, InStep, KnownInHand, Next
  PROVE  KnownInHand'
<1>1. Known(db) \subseteq Known(db')
  BY KnownGrows
<1>2. ASSUME NEW q \in Procs, Scan(q) PROVE queue'[q] \subseteq Known(db')
  <2>1. txn = db /\ db' = db
    BY <1>2 DEF Scan, At, InStep, Proceed
  <2>2. \E E : \E only \in SUBSET Delivery :
          queue' = [queue EXCEPT ![q] = {d \in only : /\ Eligible(txn, d, E)
                                                      /\ d.dest \in on[q]
                                                      /\ d.alert \in seen[q]}]
    <3>1. \A only \in {Delivery} \cup {{d} : d \in Known(txn)} : only \in SUBSET Delivery
      BY DEF Known
    <3> QED
      <4>1. PICK E : \E only \in {Delivery} \cup {{d} : d \in Known(txn)} :
              queue' = [queue EXCEPT ![q] = {d \in only : /\ Eligible(txn, d, E)
                                                          /\ d.dest \in on[q]
                                                          /\ d.alert \in seen[q]}]
        BY <1>2, Zenon DEF Scan
      <4>2. PICK only \in {Delivery} \cup {{d} : d \in Known(txn)} :
              queue' = [queue EXCEPT ![q] = {d \in only : /\ Eligible(txn, d, E)
                                                          /\ d.dest \in on[q]
                                                          /\ d.alert \in seen[q]}]
        BY <4>1
      <4>3. only \in SUBSET Delivery
        BY <3>1
      <4> QED
        BY <4>2, <4>3
  <2>3. \A d \in queue'[q] : d \in Delivery /\ \E E : Eligible(txn, d, E)
    BY <2>2 DEF IInv, TypeOK
  <2>4. \A d \in queue'[q] : d \in Delivery /\ txn.status[d] # D_NONE
    BY <2>3 DEF Eligible, D_PENDING, D_FAILED_RETRYABLE, D_NONE
  <2> QED
    BY <2>1, <2>4 DEF Known
<1>3. ASSUME NEW q \in Procs
      PROVE  /\ queue'[q] \subseteq Known(db')
             /\ Attempting(q)' => cur'[q] \in Known(db')
  <2>1. Scan(q) \/ queue'[q] \subseteq queue[q]
    BY HandMoves DEF IInv
  <2>2. Attempting(q)' => \/ Attempting(q) /\ cur'[q] = cur[q]
                          \/ cur'[q] \in queue[q]
    BY HandMoves DEF IInv
  <2> QED
    BY <1>1, <1>2, <2>1, <2>2 DEF KnownInHand
<1>4. Orphans(db') \subseteq Known(db')
  <2>1. \A e \in Orphans(db') : \/ e \in Orphans(db)
                                \/ \E p \in Procs : e \in queue[p]
    BY OpenMoves DEF Orphans, StartAttempt, Oldest
  <2> QED
    BY <1>1, <2>1 DEF KnownInHand
<1> QED
  BY <1>3, <1>4 DEF KnownInHand

WInv == IInv /\ Drift /\ InStep /\ KnownInHand

\* All of it holds in every reachable state, whatever passes overlap.
THEOREM PassesCommitWhatTheyDo == Spec => []WInv
<1>1. Init => WInv
  <2> SUFFICES ASSUME Init PROVE WInv
    OBVIOUS
  <2>1. IInv /\ Drift /\ InStep
    BY InitIInv DEF Init, Drift, InStep
  <2>2. Orphans(db) = {}
    BY DEF Init, EmptyLedger, Orphans, NoRow
  <2>3. \A p \in Procs : queue[p] = {} /\ ~Attempting(p)
    BY DEF Init, Attempting
  <2> QED
    BY <2>1, <2>2, <2>3 DEF WInv, KnownInHand
<1>2. WInv /\ [Next]_vars => WInv'
  <2>1. WInv /\ Next => WInv'
    BY NextIInv, DriftStep, InStepStep, KnownInHandStep DEF WInv
  <2>2. WInv /\ UNCHANGED vars => WInv'
    BY NextIInv DEF WInv, Drift, InStep, KnownInHand, Orphans, Known, Attempting, vars,
                    locals
  <2> QED
    BY <2>1, <2>2
<1> QED
  BY <1>1, <1>2, PTL DEF Spec

----------------------------------------------------------------------------
(* Who has been told, while destinations come and go.                      *)

\* Of two configurations one has the destinations of the other.
Nested == \A c, e \in Configs : c \subseteq e \/ e \subseteq c

KeyOf(a, s, f, x) == [alert |-> a, state |-> s, facts |-> f, dest |-> x]

\* The destinations for which a version of an alert has deliveries.
DerivedFor(l, a, s, f) == {x \in Dests : l.status[KeyOf(a, s, f, x)] # D_NONE}

Audiences(a) == {Routed(a, c) : c \in Configs \cup {{}}}

\* An open version has deliveries for everybody in some configuration, or for
\* nobody.
DerivedTogether(l) ==
  \A a \in Alerts, f \in Facts : DerivedFor(l, a, "OPEN", f) \in Audiences(a)

ToldIn(l) ==
  \A a \in Alerts :
    l.outbox[a].state = "OPEN" /\ l.outbox[a].ds = "DELIVERED" =>
      \E audience \in {Routed(a, c) : c \in Configs} \ {{}} :
        \A x \in audience : copies[Key(l, a, x)] > 0

TInv == /\ \A p \in Procs : on[p] \in Configs \cup {{}}
        /\ DerivedTogether(db) /\ DerivedTogether(txn)
        /\ ToldIn(db) /\ ToldIn(txn)

\* Two audiences are nested as their configurations are.
LEMMA NestedAudiences ==
  ASSUME Nested, NEW a, NEW c \in Configs \cup {{}}, NEW e \in Configs \cup {{}}
  PROVE  /\ Routed(a, c) \cup Routed(a, e) \in Audiences(a)
         /\ Routed(a, c) \cap Routed(a, e) \in Audiences(a)
<1>1. c \subseteq e \/ e \subseteq c
  BY DEF Nested
<1>2. CASE c \subseteq e
  <2>1. /\ Routed(a, c) \cup Routed(a, e) = Routed(a, e)
        /\ Routed(a, c) \cap Routed(a, e) = Routed(a, c)
    BY <1>2 DEF Routed
  <2> QED
    BY <2>1 DEF Audiences
<1>3. CASE e \subseteq c
  <2>1. /\ Routed(a, c) \cup Routed(a, e) = Routed(a, c)
        /\ Routed(a, c) \cap Routed(a, e) = Routed(a, e)
    BY <1>3 DEF Routed
  <2> QED
    BY <2>1 DEF Audiences
<1> QED
  BY <1>1, <1>2, <1>3

\* A ledger function that gives no delivery its first status.
LEMMA SameKnown ==
  ASSUME NEW l, NEW k,
         \A d \in Delivery : k.status[d] = D_NONE <=> l.status[d] = D_NONE,
         DerivedTogether(l)
  PROVE  DerivedTogether(k)
<1>1. ASSUME NEW a \in Alerts, NEW f \in Facts
      PROVE  DerivedFor(k, a, "OPEN", f) = DerivedFor(l, a, "OPEN", f)
  <2>1. \A x \in Dests : KeyOf(a, "OPEN", f, x) \in Delivery
    BY DEF KeyOf, Delivery
  <2> QED
    BY <2>1 DEF DerivedFor
<1> QED
  BY <1>1 DEF DerivedTogether

\* The derivation adds everybody the pass finds enabled, whose alert is open
\* and whose notices are on, or nobody.
LEMMA InsertedTogether ==
  ASSUME Nested, {"OPEN", "CHANGE"} \subseteq NotifyOn,
         NEW l \in Ledger, NEW enabled \in Configs \cup {{}}, NEW A,
         NEW D, \A d : d \in D <=> d \in New(l, enabled) /\ d.alert \in A,
         NEW k, k = Inserted(l, D),
         DerivedTogether(l)
  PROVE  DerivedTogether(k)
<1> SUFFICES ASSUME NEW a \in Alerts, NEW f \in Facts
             PROVE  DerivedFor(k, a, "OPEN", f) \in Audiences(a)
  BY DEF DerivedTogether
<1>1. \A x \in Dests : KeyOf(a, "OPEN", f, x) \in Delivery
  BY DEF KeyOf, Delivery
<1>2. \A d \in Delivery :
        k.status[d] # D_NONE <=> \/ l.status[d] # D_NONE
                                 \/ d \in New(l, enabled) /\ d.alert \in A
  BY InsertedEffect DEF D_PENDING, D_NONE
<1>3. DerivedFor(l, a, "OPEN", f) \in Audiences(a)
  BY DEF DerivedTogether
<1>4. CASE a \in A /\ l.outbox[a].state = "OPEN" /\ l.outbox[a].facts = f
  <2>1. ASSUME NEW x \in Dests
        PROVE  k.status[KeyOf(a, "OPEN", f, x)] # D_NONE <=>
                 \/ l.status[KeyOf(a, "OPEN", f, x)] # D_NONE
                 \/ x \in Routed(a, enabled)
    <3> DEFINE d == KeyOf(a, "OPEN", f, x)
    <3>1. /\ d \in Delivery /\ d.alert = a /\ d.state = "OPEN" /\ d.dest = x
          /\ d = Key(l, a, x)
      BY <1>1, <1>4 DEF KeyOf, Key
    <3>2. Gate(l, d) \in NotifyOn
      BY <3>1 DEF Gate
    <3>3. a \in Notified(l)
      BY <1>4 DEF Notified
    <3> HIDE DEF d
    <3>4. d \in New(l, enabled) <=> l.status[d] = D_NONE /\ x \in Routed(a, enabled)
      BY <3>1, <3>2, <3>3 DEF New, Known
    <3> QED
      BY <1>2, <1>4, <3>1, <3>4 DEF d
  <2>2. Routed(a, enabled) \subseteq Dests
    BY DEF Routed
  <2>3. DerivedFor(k, a, "OPEN", f) = DerivedFor(l, a, "OPEN", f) \cup Routed(a, enabled)
    BY <2>1, <2>2 DEF DerivedFor
  <2> QED
    <3>1. PICK c \in Configs \cup {{}} : DerivedFor(l, a, "OPEN", f) = Routed(a, c)
      BY <1>3 DEF Audiences
    <3>2. Routed(a, c) \cup Routed(a, enabled) \in Audiences(a)
      BY NestedAudiences
    <3> QED
      BY <2>3, <3>1, <3>2
<1>5. CASE ~(a \in A /\ l.outbox[a].state = "OPEN" /\ l.outbox[a].facts = f)
  <2>1. ASSUME NEW x \in Dests, KeyOf(a, "OPEN", f, x) \in New(l, enabled), a \in A
        PROVE  FALSE
    BY <1>5, <2>1 DEF New, KeyOf, Key
  <2>2. \A x \in Dests : KeyOf(a, "OPEN", f, x).alert = a
    BY DEF KeyOf
  <2>3. DerivedFor(k, a, "OPEN", f) = DerivedFor(l, a, "OPEN", f)
    BY <1>1, <1>2, <2>1, <2>2 DEF DerivedFor
  <2> QED
    BY <1>3, <2>3
<1> QED
  BY <1>4, <1>5

\* The aggregate says DELIVERED of an open alert only when everybody in some
\* configuration has its copy.
LEMMA AggregatedTold ==
  ASSUME Nested, TypeOK, NEW l \in Ledger, Fine(l, copies), DerivedTogether(l),
         ToldIn(l), NEW enabled \in Configs \cup {{}}, NEW A,
         NEW k, k = Aggregated(l, A, enabled)
  PROVE  ToldIn(k)
<1> SUFFICES ASSUME NEW a \in Alerts, k.outbox[a].state = "OPEN",
                    k.outbox[a].ds = "DELIVERED"
             PROVE  \E audience \in {Routed(a, c) : c \in Configs} \ {{}} :
                      \A x \in audience : copies[Key(k, a, x)] > 0
  BY DEF ToldIn
<1>1. /\ l.outbox[a] \in AlertRow
      /\ k.outbox[a] = IF a \in A
                       THEN [l.outbox[a] EXCEPT !.ds = Aggregate(l, a, enabled)]
                       ELSE l.outbox[a]
  BY DEF Aggregated, Ledger
<1>2. /\ k.outbox[a].state = l.outbox[a].state /\ k.outbox[a].facts = l.outbox[a].facts
      /\ k.outbox[a].ds = l.outbox[a].ds \/ k.outbox[a].ds = Aggregate(l, a, enabled)
  BY <1>1 DEF AlertRow
<1>3. \A x : Key(k, a, x) = Key(l, a, x)
  BY <1>2 DEF Key
<1>4. CASE l.outbox[a].ds = "DELIVERED"
  BY <1>2, <1>3, <1>4 DEF ToldIn
<1>5. CASE l.outbox[a].ds # "DELIVERED" /\ Aggregate(l, a, enabled) = "DELIVERED"
  <2> DEFINE f == l.outbox[a].facts
             V == Version(l, a, enabled)
             audience == DerivedFor(l, a, "OPEN", f) \cap Routed(a, enabled)
  <2>1. {l.status[d] : d \in V} = {D_DELIVERED}
    <3> DEFINE S == {l.status[d] : d \in V}
    <3>1. Aggregate(l, a, enabled) =
            CASE S = {}            -> l.outbox[a].ds
              [] S = {D_DELIVERED} -> "DELIVERED"
              [] S \cap {D_FAILED_PERMANENT, D_ABANDONED} # {} -> "FAILED_DELIVERY"
              [] OTHER             -> "PENDING_DELIVERY"
      BY DEF Aggregate
    <3> HIDE DEF S
    <3> QED
      BY <1>5, <3>1 DEF S
  <2>2. f \in Facts
    BY <1>1 DEF AlertRow
  <2>3. \A x \in Dests : Key(l, a, x) = KeyOf(a, "OPEN", f, x) /\ Key(l, a, x) \in Delivery
    BY <1>2, <2>2 DEF Key, KeyOf, Delivery
  <2>4. V = {Key(l, a, x) : x \in audience}
    <3>1. Routed(a, enabled) \subseteq Dests
      BY DEF Routed
    <3>2. \A x \in Routed(a, enabled) :
            Key(l, a, x) \in Known(l) <=> x \in DerivedFor(l, a, "OPEN", f)
      BY <2>3, <3>1 DEF Known, DerivedFor
    <3> QED
      BY <3>2 DEF Version
  <2>5. audience # {}
    BY <2>1, <2>4
  <2>6. audience \in Audiences(a)
    <3>1. DerivedFor(l, a, "OPEN", f) \in Audiences(a)
      BY <2>2 DEF DerivedTogether
    <3> QED
      BY <3>1, NestedAudiences DEF Audiences
  <2>7. Routed(a, {}) = {}
    BY DEF Routed
  <2>8. audience \in {Routed(a, c) : c \in Configs} \ {{}}
    BY <2>5, <2>6, <2>7 DEF Audiences
  <2>9. ASSUME NEW x \in audience PROVE copies[Key(k, a, x)] > 0
    <3>1. l.status[Key(l, a, x)] = D_DELIVERED
      BY <2>1, <2>4
    <3>2. Key(l, a, x) \in Delivery
      BY <2>3 DEF DerivedFor
    <3> QED
      BY <1>3, <3>1, <3>2 DEF Fine
  <2> QED
    BY <2>8, <2>9
<1> QED
  BY <1>2, <1>4, <1>5

\* What a run opens, reopens or changes waits to be told; what it clears is
\* not open.
LEMMA AppliedTold ==
  ASSUME NEW l \in Ledger, ToldIn(l), NEW A \in SUBSET Alerts, NEW cands \in [A -> Facts],
         NEW evaluated, NEW k, k = AlertsApplied(l, cands, evaluated)
  PROVE  ToldIn(k)
<1> SUFFICES ASSUME NEW a \in Alerts, k.outbox[a].state = "OPEN",
                    k.outbox[a].ds = "DELIVERED"
             PROVE  \E audience \in {Routed(a, c) : c \in Configs} \ {{}} :
                      \A x \in audience : copies[Key(k, a, x)] > 0
  BY DEF ToldIn
<1>1. /\ l.outbox[a] \in AlertRow
      /\ k.outbox[a] = IF a \in DOMAIN cands THEN Observed(l.outbox[a], cands[a])
                       ELSE IF l.outbox[a].state = "OPEN" /\ Category[a] \in evaluated
                            THEN [l.outbox[a] EXCEPT !.state = "CLEARED"]
                            ELSE l.outbox[a]
  BY DEF AlertsApplied, Ledger
<1>2. k.outbox[a] = l.outbox[a]
  BY <1>1 DEF Observed, Opened, AlertRow
<1> QED
  BY <1>2 DEF ToldIn, Key

\* What has been told stays told.
LEMMA ToldMonotone ==
  ASSUME TypeOK, TypeOK', CopiesKept, NEW l \in Ledger, ToldIn(l),
         NEW k, k.outbox = l.outbox
  PROVE  \A a \in Alerts :
           k.outbox[a].state = "OPEN" /\ k.outbox[a].ds = "DELIVERED" =>
             \E audience \in {Routed(a, c) : c \in Configs} \ {{}} :
               \A x \in audience : copies'[Key(k, a, x)] > 0
<1> SUFFICES ASSUME NEW a \in Alerts, l.outbox[a].state = "OPEN",
                    l.outbox[a].ds = "DELIVERED"
             PROVE  \E audience \in {Routed(a, c) : c \in Configs} \ {{}} :
                      \A x \in audience : copies'[Key(l, a, x)] > 0
  BY DEF Key
<1>1. PICK audience \in {Routed(a, c) : c \in Configs} \ {{}} :
        \A x \in audience : copies[Key(l, a, x)] > 0
  BY DEF ToldIn
<1>2. ASSUME NEW x \in audience PROVE copies'[Key(l, a, x)] > 0
  <2>1. x \in Dests /\ l.outbox[a].facts \in Facts
    BY DEF Routed, Ledger, AlertRow
  <2>2. Key(l, a, x) \in Delivery
    BY <2>1 DEF Key, Delivery
  <2>3. /\ copies[Key(l, a, x)] \in Nat /\ copies'[Key(l, a, x)] \in Nat
        /\ copies[Key(l, a, x)] <= copies'[Key(l, a, x)]
    BY <2>2 DEF TypeOK, CopiesKept
  <2> QED
    BY <1>1, <2>3
<1> QED
  BY <1>2

\* Every step derives for a whole audience and calls delivered what everybody
\* in it was told.
LEMMA ToldStep ==
  ASSUME Nested, {"OPEN", "CHANGE"} \subseteq NotifyOn, WInv, TInv, Next, WInv'
  PROVE  TInv'
<1>1. /\ db \in Ledger /\ txn \in Ledger /\ db' \in Ledger /\ txn' \in Ledger
      /\ TypeOK /\ TypeOK' /\ CopiesKept
      /\ Fine(db, copies) /\ Fine(txn, copies)
  BY CopiesKeptStep, FineInvariants DEF WInv, IInv, TypeOK
<1>2. \A p \in Procs : on'[p] \in Configs \cup {{}}
  BY HandMoves, <1>1 DEF TInv
\* The ledgers after the step, judged by the copies before it.
<1> DEFINE Good(l) == DerivedTogether(l) /\ ToldIn(l)
           Goal == Good(db') /\ Good(txn')
<1>3. Good(db) /\ Good(txn)
  BY DEF TInv
<1> HIDE DEF Good
<1>4. ASSUME NEW l, NEW c \in BOOLEAN, Advance(l, c), Good(l) PROVE Goal
  BY <1>3, <1>4 DEF Advance
<1>5. ASSUME NEW l, Commit(l), Good(l) PROVE Goal
  BY <1>5 DEF Commit
<1>6. ASSUME Keep \/ Flush \/ Rollback PROVE Goal
  BY <1>3, <1>6 DEF Keep, Flush, Rollback
\* A ledger function that leaves the outbox alone, and knows what was known.
<1>7. ASSUME NEW l \in {db, txn}, NEW k, k.outbox = l.outbox,
             \A d \in Delivery : k.status[d] = D_NONE <=> l.status[d] = D_NONE
      PROVE  Good(k)
  BY <1>3, <1>7, SameKnown DEF Good, ToldIn, Key
<1>8. ASSUME NEW c \in BOOLEAN, Advance(OrphansMarked(txn), c) PROVE Goal
  <2> DEFINE k == OrphansMarked(txn)
  <2>1. /\ k.outbox = txn.outbox
        /\ \A d \in Delivery :
             k.status[d] = IF d \in Orphans(txn) THEN D_UNKNOWN ELSE txn.status[d]
    BY <1>1, OrphansMarkedEffect
  <2>2. \A d \in Orphans(txn) : txn.status[d] # D_NONE
    BY DEF WInv, KnownInHand, Drift, Orphans, Known
  <2> HIDE DEF k
  <2>3. Good(k)
    BY <1>7, <2>1, <2>2 DEF D_UNKNOWN, D_NONE
  <2> QED
    BY <1>4, <1>8, <2>3 DEF k
<1>9. ASSUME NEW p \in Procs, NEW A, NEW c \in BOOLEAN,
             Advance(Inserted(txn, {d \in New(txn, on[p]) : d.alert \in A}), c)
      PROVE  Goal
  <2> DEFINE D == {d \in New(txn, on[p]) : d.alert \in A}
             k == Inserted(txn, D)
  <2>1. k.outbox = txn.outbox
    BY <1>1, InsertedEffect
  <2>2. on[p] \in Configs \cup {{}}
    BY DEF TInv
  <2>3. DerivedTogether(k)
    <3>1. DerivedTogether(txn)
      BY <1>3 DEF Good
    <3> QED
      <4>1. \A d : d \in D <=> d \in New(txn, on[p]) /\ d.alert \in A
        OBVIOUS
      <4> HIDE DEF D
      <4> QED
        BY <1>1, <2>2, <3>1, <4>1, InsertedTogether
  <2> HIDE DEF k
  <2>4. ToldIn(k)
    BY <1>3, <2>1 DEF Good, ToldIn, Key
  <2>5. Good(k)
    BY <2>3, <2>4 DEF Good
  <2> QED
    BY <1>4, <1>9, <2>5 DEF k
<1>10. ASSUME NEW p \in Procs,
              Advance(Inserted(txn, New(txn, on[p])), New(txn, on[p]) # {})
       PROVE  Goal
  <2>1. New(txn, on[p]) = {d \in New(txn, on[p]) : d.alert \in Alerts}
    BY DEF New, Delivery
  <2> QED
    BY <1>9, <1>10, <2>1
<1>11. ASSUME NEW d \in Delivery, NEW n \in AttemptNo, Advance(Started(txn, d, n), TRUE)
       PROVE  Goal
  <2>1. Started(txn, d, n).outbox = txn.outbox /\ Started(txn, d, n).status = txn.status
    BY <1>1, StartedEffect
  <2>2. Good(Started(txn, d, n))
    BY <1>7, <2>1
  <2> QED
    BY <1>4, <1>11, <2>2
<1>12. ASSUME NEW p \in Procs, NEW d \in Delivery, NEW n \in AttemptNo,
              NEW o \in AlertOutcomes, Record(p), d = cur[p],
              Advance(Recorded(txn, d, n, o), TRUE)
       PROVE  Goal
  <2> DEFINE k == Recorded(txn, d, n, o)
  <2>1. /\ k.outbox = txn.outbox
        /\ \A e \in Delivery :
             k.status[e] = IF e = d THEN StatusAfter(o, n) ELSE txn.status[e]
    BY <1>1, RecordedEffect
  <2>2. d \in Known(db)
    BY <1>12 DEF Record, At, WInv, KnownInHand, Attempting
  <2>3. StatusAfter(o, n) # D_NONE
    BY DEF StatusAfter, AlertOutcomes, D_NONE, D_DELIVERED, D_UNKNOWN,
           D_FAILED_PERMANENT, D_FAILED_RETRYABLE
  <2>4. txn.status[d] # D_NONE
    BY <2>2 DEF Known, WInv, Drift
  <2> HIDE DEF k
  <2>5. Good(k)
    BY <1>7, <2>1, <2>3, <2>4
  <2> QED
    BY <1>4, <1>12, <2>5 DEF k
<1>13. ASSUME NEW p \in Procs, Advance(Aggregated(txn, touched[p], on[p]), FALSE)
       PROVE  Goal
  <2> DEFINE k == Aggregated(txn, touched[p], on[p])
  <2>1. k.status = txn.status
    BY <1>1, OutboxEffect DEF OutboxOnly
  <2>2. on[p] \in Configs \cup {{}}
    BY DEF TInv
  <2>3. ToldIn(k)
    BY <1>1, <1>3, <2>2, AggregatedTold DEF Good
  <2> HIDE DEF k
  <2>4. Good(k)
    BY <1>3, <2>1, <2>3, SameKnown DEF Good
  <2> QED
    BY <1>4, <1>13, <2>4 DEF k
<1>14. ASSUME NEW evaluated, NEW A \in SUBSET Alerts, NEW cands \in [A -> Facts],
              Commit(AlertsApplied(db, cands, evaluated))
       PROVE  Goal
  <2> DEFINE k == AlertsApplied(db, cands, evaluated)
  <2>1. k.status = db.status
    BY <1>1, OutboxEffect DEF OutboxOnly
  <2>2. ToldIn(k)
    BY <1>1, <1>3, AppliedTold DEF Good
  <2> HIDE DEF k
  <2>3. Good(k)
    BY <1>3, <2>1, <2>2, SameKnown DEF Good
  <2> QED
    BY <1>5, <1>14, <2>3 DEF k
<1>15. ASSUME NEW d \in Delivery, db.status[d] # D_NONE,
              Commit(Retried(db, d)) \/ Commit(Abandoned(db, d))
       PROVE  Goal
  <2>1. Good(Retried(db, d))
    BY <1>1, <1>7, <1>15, RetriedEffect DEF D_NONE, D_PENDING
  <2>2. Good(Abandoned(db, d))
    BY <1>1, <1>7, <1>15, AbandonedEffect DEF D_NONE, D_ABANDONED
  <2> QED
    BY <1>5, <1>15, <2>1, <2>2
<1>16. ASSUME NEW d \in Delivery, NEW force, DeliveryRetry(d, force) \/ DeliveryAbandon(d)
       PROVE  db.status[d] # D_NONE
  BY <1>16 DEF DeliveryRetry, MayRetry, DeliveryAbandon, MayAbandon
<1> HIDE DEF Goal
<1>17. Goal
  BY <1>6, <1>8, <1>9, <1>10, <1>11, <1>12, <1>13, <1>14, <1>15, <1>16, LedgerCases
     DEF WInv
<1>18. DerivedTogether(db') /\ DerivedTogether(txn') /\ ToldIn(db)' /\ ToldIn(txn)'
  <2>1. /\ DerivedTogether(db') /\ DerivedTogether(txn')
        /\ ToldIn(db') /\ ToldIn(txn')
    BY <1>17 DEF Goal, Good
  <2>2. \A l \in {db', txn'} : ToldIn(l) =>
          \A a \in Alerts :
            l.outbox[a].state = "OPEN" /\ l.outbox[a].ds = "DELIVERED" =>
              \E audience \in {Routed(a, c) : c \in Configs} \ {{}} :
                \A x \in audience : copies'[Key(l, a, x)] > 0
    BY <1>1, ToldMonotone
  <2>3. ToldIn(db)' /\ ToldIn(txn)'
    BY <2>1, <2>2 DEF ToldIn
  <2> QED
    BY <2>1, <2>3
<1> QED
  BY <1>2, <1>18 DEF TInv, DerivedTogether

\* An open alert whose delivery_state is DELIVERED has been told, as it is now,
\* to every destination of some configuration, although destinations come and
\* go between passes and runs change alerts during them.  The configurations
\* must be nested: a version derived for one audience and aggregated for
\* another that overlaps it is DELIVERED when the overlap is.
THEOREM OpenAlertsAreTold ==
  ASSUME Nested, {"OPEN", "CHANGE"} \subseteq NotifyOn
  PROVE  Spec => []OpenDeliveredIsTold
<1>1. Init => TInv
  <2> SUFFICES ASSUME Init PROVE TInv
    OBVIOUS
  <2>1. \A a \in Alerts : EmptyLedger.outbox[a].state = "ABSENT"
    BY DEF EmptyLedger, AbsentAlert
  <2>2. ToldIn(EmptyLedger)
    BY <2>1 DEF ToldIn
  <2>3. \A a, f : DerivedFor(EmptyLedger, a, "OPEN", f) \subseteq
                    {x \in Dests : KeyOf(a, "OPEN", f, x) \notin Delivery}
    BY DEF DerivedFor, EmptyLedger
  <2>4. \A a \in Alerts, f \in Facts : DerivedFor(EmptyLedger, a, "OPEN", f) = {}
    BY <2>3 DEF DerivedFor, KeyOf, Delivery
  <2>5. \A a : Routed(a, {}) = {}
    BY DEF Routed
  <2>6. DerivedTogether(EmptyLedger)
    BY <2>4, <2>5 DEF DerivedTogether, Audiences
  <2> QED
    BY <2>2, <2>6 DEF Init, TInv
<1>2. WInv /\ TInv /\ [Next]_vars /\ WInv' => TInv'
  <2>1. WInv /\ TInv /\ Next /\ WInv' => TInv'
    BY ToldStep
  <2>2. TInv /\ UNCHANGED vars => TInv'
    BY DEF TInv, vars, locals, ToldIn, Key
  <2> QED
    BY <2>1, <2>2
<1>3. TInv => OpenDeliveredIsTold
  BY DEF TInv, ToldIn, OpenDeliveredIsTold
<1> QED
  BY <1>1, <1>2, <1>3, PassesCommitWhatTheyDo, PTL DEF Spec

----------------------------------------------------------------------------
(* The attempts while one process works on the ledger at a time.           *)

\* alert-deliver is not run twice at the same time.
OneProcess == \A p, q \in Procs : p = q

\* The pass has closed what was left open, and makes no attempt.
Swept(p) ==
  \/ pc[p] \in {"derive", "scan", "loop", "done"}
  \/ pc[p] = "gap" /\ resume[p] \in {"derive", "scan", "loop"}

OneOpen ==
  \A d, e \in Delivery : \A m, n \in AttemptNo :
    db.row[d][m] = "STARTED" /\ db.row[e][n] = "STARTED" => d = e /\ m = n

\* The inductive invariant of the attempts, beside WInv: one is open at most,
\* the one the pass makes or what a crash left.
RInv ==
  /\ OneOpen
  /\ \A p \in Procs :
       /\ Swept(p) => Orphans(db) = {}
       /\ Attempting(p) => /\ db.row[cur[p]][base[p][cur[p]] + 1] = "STARTED"
                           /\ cur[p] \notin queue[p]

\* An open attempt is closed by the sweep of the next pass or by its answer.
LEMMA OpenKept ==
  ASSUME IInv, Drift, Next, NEW e \in Delivery, NEW j \in AttemptNo,
         db.row[e][j] = "STARTED", \A p \in Procs : ~MarkOrphans(p) /\ ~Record(p)
  PROVE  db'.row[e][j] = "STARTED"
<1>1. /\ db \in Ledger /\ txn \in Ledger /\ txn.row = db.row
  BY DEF IInv, TypeOK, Drift, Ledger
<1>2. ASSUME db'.row = db.row PROVE db'.row[e][j] = "STARTED"
  BY <1>2
<1>3. ASSUME Keep \/ Flush \/ Rollback PROVE db'.row = db.row
  BY <1>1, <1>3 DEF Keep, Flush, Rollback
<1>4. ASSUME NEW D, NEW c \in BOOLEAN, Advance(Inserted(txn, D), c)
      PROVE  db'.row = db.row
  BY <1>1, <1>4, InsertedEffect DEF Advance
<1>5. ASSUME NEW d \in Delivery, NEW n \in AttemptNo, Advance(Started(txn, d, n), TRUE)
      PROVE  db'.row[e][j] = "STARTED"
  BY <1>1, <1>5, StartedEffect DEF Advance
<1>6. ASSUME NEW A, NEW E, Advance(Aggregated(txn, A, E), FALSE) PROVE db'.row = db.row
  BY <1>6 DEF Advance
<1>7. ASSUME NEW A, NEW E, Commit(AlertsApplied(db, A, E)) PROVE db'.row = db.row
  BY <1>1, <1>7, OutboxEffect DEF OutboxOnly, Commit
<1>8. ASSUME NEW d \in Delivery, Commit(Retried(db, d)) \/ Commit(Abandoned(db, d))
      PROVE  db'.row = db.row
  BY <1>1, <1>8, RetriedEffect, AbandonedEffect DEF Commit
<1> QED
  BY <1>2, <1>3, <1>4, <1>5, <1>6, <1>7, <1>8, LedgerCases

\* A pass is swept by its sweep, stays so until it starts an attempt, and is
\* so again when it records the answer.
LEMMA SweptMoves ==
  ASSUME TypeOK, Next, OneProcess, NEW q \in Procs, Swept(q)'
  PROVE  /\ Swept(q) \/ MarkOrphans(q) \/ Record(q)
         /\ \A p \in Procs, d \in Delivery : ~StartAttempt(p, d)
<1> USE DEF TypeOK
<1> DEFINE Goal == Swept(q) \/ MarkOrphans(q) \/ Record(q)
<1>1. \A p \in Procs : p = q
  BY DEF OneProcess
<1>2. ASSUME NEW d \in Delivery, StartAttempt(q, d) PROVE FALSE
  <2>1. pc'[q] = "gap" /\ resume'[q] = "deliver"
    BY <1>2 DEF StartAttempt, Proceed, Checkpoint, Goto
  <2> QED
    BY <2>1 DEF Swept
<1>3. ASSUME Leave(q) PROVE FALSE
  BY <1>3 DEF Leave, Swept
<1>4. ASSUME \/ LockLost(q) \/ Crash(q) \/ Finish(q)
             \/ \E d \in Delivery : AttemptTaken(q, d)
      PROVE  FALSE
  BY <1>3, <1>4 DEF LockLost, Lose, Crash, Die, Finish, AttemptTaken, Release, Yield
<1>5. ASSUME Start(q) PROVE FALSE
  BY <1>5 DEF Start, Acquire, Goto, Swept
<1>6. ASSUME Reacquire(q) PROVE Goal
  <2>1. pc'[q] = resume[q] /\ pc[q] = "gap"
    BY <1>6 DEF Reacquire, Regain, Goto, At
  <2> QED
    BY <2>1 DEF Swept, Resumes
<1>7. ASSUME Deliver(q) PROVE FALSE
  BY <1>7 DEF Deliver, Goto, Swept
<1>8. ASSUME \/ Derive(q) \/ Scan(q) \/ Conclude(q)
             \/ \E A \in SUBSET Alerts : DeriveRaises(q, A)
      PROVE  Goal
  BY <1>8 DEF Derive, Scan, Conclude, DeriveRaises, At, Swept
<1>9. ASSUME Run \/ Operator PROVE Goal
  BY <1>9, BystandersKeep DEF Keeps, Swept
<1> HIDE DEF Goal
<1>10. MarkOrphans(q) \/ Record(q) => Goal
  BY DEF Goal
<1>11. Goal
  <2>1. CASE \E p \in Procs : Step(p) \/ LockLost(p) \/ Crash(p)
    <3>1. Step(q) \/ LockLost(q) \/ Crash(q)
      BY <1>1, <2>1
    <3> QED
      BY <3>1, <1>2, <1>4, <1>5, <1>6, <1>7, <1>8, <1>10 DEF Step
  <2> QED
    BY <2>1, <1>9 DEF Next
<1> QED
  BY <1>1, <1>2, <1>11 DEF Goal

\* What the invariants say of the pass that records an answer.
LEMMA RecordsOpenAttempt ==
  ASSUME IInv, RInv, NEW q \in Procs, Attempting(q)
  PROVE  /\ cur[q] \in Delivery /\ base[q][cur[q]] + 1 \in AttemptNo
         /\ db.row[cur[q]][base[q][cur[q]] + 1] = "STARTED"
         /\ cur[q] \notin queue[q]
<1>1. cur[q] \in Delivery /\ base[q][cur[q]] < db.count[cur[q]]
  BY DEF IInv, SnapshotBehind
<1>2. base[q][cur[q]] \in 0..MaxRows /\ db.count[cur[q]] \in 0..MaxRows
  BY <1>1 DEF IInv, TypeOK, Ledger
<1> QED
  BY <1>1, <1>2 DEF RInv, AttemptNo

\* An attempt is started when none is open.
LEMMA StartsAlone ==
  ASSUME IInv, RInv, OneProcess, NEW p \in Procs, NEW d \in Delivery, StartAttempt(p, d)
  PROVE  Orphans(db) = {} /\ cur'[p] = d /\ base' = base /\ d \notin queue'[p]
<1>1. Swept(p)
  BY DEF StartAttempt, At, Swept
<1> QED
  BY <1>1 DEF RInv, StartAttempt, Take, IInv, TypeOK

\* Every step keeps the open attempt alone, and whose it is.
LEMMA RInvStep ==
  ASSUME IInv, Drift, RInv, OneProcess, Next
  PROVE  RInv'
<1>1. /\ db \in Ledger /\ txn \in Ledger /\ txn.row = db.row
      /\ \A p, q \in Procs : p = q
  BY DEF IInv, TypeOK, Drift, OneProcess
<1>2. \A e \in Delivery, j \in AttemptNo :
        db'.row[e][j] = "STARTED" =>
          \/ db.row[e][j] = "STARTED" /\ \A p \in Procs, d \in Delivery : ~StartAttempt(p, d)
          \/ \E p \in Procs : StartAttempt(p, e) /\ j = base[p][e] + 1
  <2>1. ASSUME NEW e \in Delivery, NEW j \in AttemptNo, db'.row[e][j] = "STARTED",
               db.row[e][j] = "STARTED"
        PROVE  \A p \in Procs, d \in Delivery : ~StartAttempt(p, d)
    <3>1. e \in Orphans(db)
      BY <2>1 DEF Orphans
    <3> QED
      BY <3>1, StartsAlone
  <2> QED
    BY <2>1, OpenMoves
<1>3. OneOpen'
  <2> SUFFICES ASSUME NEW d \in Delivery, NEW e \in Delivery,
                      NEW m \in AttemptNo, NEW n \in AttemptNo,
                      db'.row[d][m] = "STARTED", db'.row[e][n] = "STARTED"
               PROVE  d = e /\ m = n
    BY DEF OneOpen
  <2>1. CASE \E p \in Procs : StartAttempt(p, d) /\ m = base[p][d] + 1
    <3>1. PICK p \in Procs : StartAttempt(p, d) /\ m = base[p][d] + 1
      BY <2>1
    <3>2. PICK q \in Procs : StartAttempt(q, e) /\ n = base[q][e] + 1
      BY <1>2, <3>1
    <3>3. p = q
      BY <1>1
    <3>4. cur'[p] = d
      BY <3>1, StartsAlone
    <3>5. cur'[q] = e
      BY <3>2, StartsAlone
    <3> QED
      BY <3>1, <3>2, <3>3, <3>4, <3>5
  <2>2. CASE db.row[d][m] = "STARTED" /\ \A p \in Procs, f \in Delivery : ~StartAttempt(p, f)
    <3>1. db.row[e][n] = "STARTED"
      BY <1>2, <2>2
    <3> QED
      BY <2>2, <3>1 DEF RInv, OneOpen
  <2> QED
    BY <1>2, <2>1, <2>2
<1>4. ASSUME NEW q \in Procs, Swept(q)' PROVE Orphans(db') = {}
  <2>1. Swept(q) \/ MarkOrphans(q) \/ Record(q)
    BY <1>4, SweptMoves DEF IInv
  <2>2. \A e \in Delivery, j \in AttemptNo :
          db'.row[e][j] = "STARTED" => db.row[e][j] = "STARTED"
    BY <1>2, <1>4, SweptMoves DEF IInv
  <2>3. CASE Swept(q)
    BY <2>2, <2>3 DEF RInv, Orphans
  <2>4. CASE MarkOrphans(q)
    <3>1. IF Orphans(txn) # {} THEN db' = OrphansMarked(txn) ELSE db' = db
      BY <2>4 DEF MarkOrphans, Proceed, Checkpoint, Commit
    <3>2. Orphans(OrphansMarked(txn)) = {}
      BY <1>1, OrphansMarkedEffect
    <3>3. Orphans(db) = Orphans(txn)
      BY <1>1 DEF Orphans
    <3> QED
      BY <3>1, <3>2, <3>3
  <2>5. CASE Record(q)
    <3>1. Attempting(q)
      BY <2>5 DEF Record, At, Attempting
    <3> DEFINE d == cur[q]
               n == base[q][d] + 1
    <3>2. d \in Delivery /\ n \in AttemptNo /\ db.row[d][n] = "STARTED"
      BY <3>1, RecordsOpenAttempt
    <3>3. end[q].outcome \in AlertOutcomes
      BY <2>5 DEF Record, At, IInv, EndBacked, AttemptEnd
    <3>4. db' = Recorded(txn, d, n, end[q].outcome)
      BY <2>5 DEF Record, Proceed, Checkpoint, Commit
    <3>5. db'.row[d][n] = AttemptAfter(end[q].outcome)
      BY <1>1, <3>2, <3>3, <3>4, RecordedEffect
    <3>6. db'.row[d][n] # "STARTED"
      BY <3>5 DEF AttemptAfter
    <3>7. \A e \in Delivery, j \in AttemptNo : db'.row[e][j] # "STARTED"
      BY <2>2, <3>2, <3>6 DEF RInv, OneOpen
    <3> QED
      BY <3>7 DEF Orphans
  <2> QED
    BY <2>1, <2>3, <2>4, <2>5
<1>5. ASSUME NEW q \in Procs, Attempting(q)'
      PROVE  /\ db'.row[cur'[q]][base'[q][cur'[q]] + 1] = "STARTED"
             /\ cur'[q] \notin queue'[q]
  <2>1. CASE Attempting(q) /\ cur'[q] = cur[q] /\ base'[q] = base[q] /\ queue'[q] = queue[q]
    <3>1. ~MarkOrphans(q)
      BY <2>1 DEF MarkOrphans, At, Attempting
    <3>2. ~Record(q)
      <4>1. ASSUME Record(q) PROVE FALSE
        <5>1. pc'[q] = "gap" /\ resume'[q] = "loop"
          BY <4>1 DEF Record, Proceed, Checkpoint, Goto, IInv, TypeOK
        <5> QED
          BY <1>5, <5>1 DEF Attempting
      <4> QED
        BY <4>1
    <3>3. \A p \in Procs : ~MarkOrphans(p) /\ ~Record(p)
      BY <1>1, <3>1, <3>2
    <3> QED
      BY <2>1, <3>3, RecordsOpenAttempt, OpenKept
  <2>2. CASE \E d \in queue[q] : StartAttempt(q, d) /\ cur'[q] = d
    <3>1. PICK d \in queue[q] : StartAttempt(q, d) /\ cur'[q] = d
      BY <2>2
    <3>2. d \in Delivery
      BY DEF IInv, TypeOK
    <3>3. base' = base /\ d \notin queue'[q]
      BY <3>1, <3>2, StartsAlone
    <3>4. base[q][d] + 1 \in AttemptNo
      BY <3>1, <3>2 DEF StartAttempt, IInv, TypeOK, AttemptNo
    <3>5. db' = Started(txn, d, base[q][d] + 1)
      BY <3>1 DEF StartAttempt, Proceed, Checkpoint, Commit
    <3>6. db'.row[d][base[q][d] + 1] = "STARTED"
      BY <1>1, <3>2, <3>4, <3>5, StartedEffect
    <3> QED
      BY <3>1, <3>3, <3>6
  <2> QED
    BY <1>5, <2>1, <2>2, HandMoves DEF IInv
<1> QED
  BY <1>3, <1>4, <1>5 DEF RInv

\* What holds of the attempts of one process at a time.
LEMMA AttemptsInvariant ==
  ASSUME OneProcess
  PROVE  Spec => [](WInv /\ RInv)
<1>1. Init => RInv
  <2> SUFFICES ASSUME Init PROVE RInv
    OBVIOUS
  <2>1. \A d \in Delivery, n \in AttemptNo : db.row[d][n] # "STARTED"
    BY DEF Init, EmptyLedger, NoRow
  <2>2. \A p \in Procs : ~Attempting(p)
    BY DEF Init, Attempting
  <2> QED
    BY <2>1, <2>2 DEF RInv, OneOpen, Orphans
<1>2. RInv /\ UNCHANGED vars => RInv'
  BY DEF RInv, OneOpen, Swept, Orphans, Attempting, vars, locals
<1>3. WInv /\ RInv /\ [Next]_vars => RInv'
  BY <1>2, RInvStep DEF WInv
<1> QED
  BY <1>1, <1>3, PassesCommitWhatTheyDo, PTL DEF Spec

\* The attempts are in order (AttemptDiscipline): numbered without gaps, one
\* open at most in the whole ledger, and durably so while the adapter runs.
\* The key attempt_id alone does not do that: two passes that overlap may each
\* start an attempt.
THEOREM AttemptsAreInOrder ==
  ASSUME OneProcess
  PROVE  Spec => []AttemptDiscipline
<1>1. IInv /\ Drift /\ RInv => AttemptDiscipline
  <2> SUFFICES ASSUME IInv, Drift, RInv PROVE AttemptDiscipline
    OBVIOUS
  <2>1. \A p \in Procs : pc[p] \in {"deliver", "record"} => Attempting(p)
    BY DEF Attempting
  <2>2. StartedBeforeSideEffect
    BY <2>1, RecordsOpenAttempt DEF StartedBeforeSideEffect
  <2>3. OneOpenAttempt
    <3> SUFFICES ASSUME NEW l \in {db, txn}
                 PROVE  Cardinality({a \in Delivery \X AttemptNo :
                                       l.row[a[1]][a[2]] = "STARTED"}) <= 1
      BY DEF OneOpenAttempt
    <3> DEFINE O == {a \in Delivery \X AttemptNo : l.row[a[1]][a[2]] = "STARTED"}
    <3>1. l.row = db.row
      BY DEF Drift
    <3>2. \A a, b \in O : a = b
      <4> SUFFICES ASSUME NEW a \in O, NEW b \in O PROVE a = b
        OBVIOUS
      <4>1. a[1] = b[1] /\ a[2] = b[2]
        BY <3>1 DEF RInv, OneOpen
      <4> QED
        BY <4>1
    <3>3. O = {} \/ \E a \in O : O = {a}
      BY <3>2
    <3> HIDE DEF O
    <3>4. Cardinality(O) \in {0, 1}
      BY <3>3, FS_EmptySet, FS_Singleton
    <3> QED
      BY <3>4 DEF O
  <2> QED
    BY <2>2, <2>3 DEF AttemptDiscipline, IInv
<1> QED
  BY <1>1, AttemptsInvariant, PTL DEF WInv

----------------------------------------------------------------------------
(* How often a destination gets a copy.                                    *)

Mailed(d) == AdapterOf[d.dest] = "smtp"

\* The delivery may still be attempted, and no attempt of it is open.
Fresh(l, d) == /\ l.status[d] \in {D_NONE, D_PENDING, D_FAILED_RETRYABLE}
               /\ d \notin Orphans(l)

\* What may be sent again was not received more often than it was asked for.
Budget ==
  \A d \in Delivery :
    Mailed(d) => /\ copies[d] <= 1 + manual[d]
                 /\ Fresh(db, d) \/ Fresh(txn, d) => copies[d] <= manual[d]

\* That is so of what a pass has in hand, until the attempt has an end that is
\* not to be repeated.
Unsent(p) ==
  /\ \A d \in queue[p] : Mailed(d) => copies[d] <= manual[d]
  /\ /\ Attempting(p)
     /\ Mailed(cur[p])
     /\ pc[p] = "record" => end[p].outcome = "FAILED_RETRYABLE"
     => copies[cur[p]] <= manual[cur[p]]

FileOnce == \A d \in Delivery : AdapterOf[d.dest] = "file" => copies[d] <= 1

SInv == Budget /\ FileOnce /\ \A p \in Procs : Unsent(p)

\* No copy arrives by an attempt at mail that is to be repeated, nor by one at
\* a file that is there.
LEMMA ArrivalsCount ==
  ASSUME NEW type \in AdapterTypes, NEW there \in BOOLEAN,
         NEW e \in AttemptEnds(type, there), e.arrives
  PROVE  /\ type = "smtp" => e.outcome # "FAILED_RETRYABLE"
         /\ type = "file" => ~there
<1>1. CASE type = "smtp"
  <2>1. e \in SmtpEnds
    BY <1>1 DEF AttemptEnds
  <2> QED
    BY <1>1, <2>1 DEF SmtpEnds, Ends
<1>2. CASE type = "file"
  <2>1. e \in FileEnds(there)
    BY <1>2 DEF AttemptEnds
  <2> QED
    BY <1>2, <2>1 DEF FileEnds, Ends
<1>3. CASE type \notin {"smtp", "file"}
  BY <1>3
<1> QED
  BY <1>1, <1>2, <1>3

\* A destination gets a copy of the delivery a pass works on, one at a time.
LEMMA CopyMoves ==
  ASSUME TypeOK, Next, NEW d \in Delivery
  PROVE  \/ copies'[d] = copies[d]
         \/ \E p \in Procs :
              /\ Deliver(p) /\ cur[p] = d
              /\ copies'[d] = copies[d] + 1
              /\ end'[p].arrives
              /\ end'[p] \in AttemptEnds(AdapterOf[d.dest], copies[d] > 0)
<1> USE DEF TypeOK
<1> DEFINE Goal == \/ copies'[d] = copies[d]
                   \/ \E p \in Procs :
                        /\ Deliver(p) /\ cur[p] = d
                        /\ copies'[d] = copies[d] + 1
                        /\ end'[p].arrives
                        /\ end'[p] \in AttemptEnds(AdapterOf[d.dest], copies[d] > 0)
<1>1. ASSUME copies' = copies PROVE Goal
  BY <1>1
<1>2. ASSUME NEW p \in Procs, Deliver(p) PROVE Goal
  <2>1. PICK e \in AttemptEnds(AdapterOf[cur[p].dest], copies[cur[p]] > 0) :
          /\ end' = [end EXCEPT ![p] = e]
          /\ copies' = IF e.arrives THEN [copies EXCEPT ![cur[p]] = @ + 1] ELSE copies
    BY <1>2 DEF Deliver
  <2> QED
    BY <1>2, <2>1
<1>3. ASSUME NEW p, NEW l, NEW next, NEW c, Proceed(p, l, next, c) PROVE copies' = copies
  BY <1>3 DEF Proceed, World
<1> HIDE DEF Goal
<1>4. ASSUME NEW p \in Procs, Step(p), ~Deliver(p) PROVE Goal
  <2>1. CASE Start(p) \/ Reacquire(p) \/ Finish(p) \/ \E e \in Delivery : AttemptTaken(p, e)
    BY <1>1, <2>1 DEF Start, Reacquire, Finish, AttemptTaken, Release, World
  <2>2. CASE \/ MarkOrphans(p) \/ Derive(p) \/ Scan(p) \/ Record(p) \/ Conclude(p)
             \/ \E A \in SUBSET Alerts : DeriveRaises(p, A)
             \/ \E e \in Delivery : StartAttempt(p, e)
    BY <1>1, <1>3, <2>2, Zenon DEF MarkOrphans, Derive, Scan, Record, Conclude, DeriveRaises,
                                   StartAttempt
  <2> QED
    BY <1>4, <2>1, <2>2 DEF Step
<1>5. ASSUME NEW p \in Procs, LockLost(p) \/ Crash(p) PROVE Goal
  BY <1>1, <1>5 DEF LockLost, Crash, World
<1>6. ASSUME Run \/ Operator PROVE Goal
  BY <1>1, <1>6, BystandersKeep DEF Run, Operator, ApplyAlerts, DeliveryRetry,
                                    DeliveryAbandon, Command
<1> QED
  BY <1>2, <1>4, <1>5, <1>6 DEF Next, Goal

\* The operator's requests are counted, and nothing else.
LEMMA ManualMoves ==
  ASSUME TypeOK, Next, NEW d \in Delivery
  PROVE  /\ manual[d] <= manual'[d]
         /\ \A force \in BOOLEAN : DeliveryRetry(d, force) => manual'[d] = manual[d] + 1
<1> USE DEF TypeOK
<1> DEFINE Goal == manual[d] <= manual'[d]
<1>1. ASSUME manual' = manual PROVE Goal
  BY <1>1
<1>2. ASSUME NEW p, NEW l, NEW next, NEW c, Proceed(p, l, next, c) PROVE manual' = manual
  BY <1>2 DEF Proceed, World
<1>3. ASSUME NEW force \in BOOLEAN, NEW e \in Delivery, DeliveryRetry(e, force) PROVE Goal
  BY <1>3 DEF DeliveryRetry
<1> HIDE DEF Goal
<1>4. ASSUME NEW p \in Procs, Step(p) PROVE Goal
  <2>1. CASE \/ Start(p) \/ Reacquire(p) \/ Finish(p) \/ Deliver(p)
             \/ \E e \in Delivery : AttemptTaken(p, e)
    BY <1>1, <2>1 DEF Start, Reacquire, Finish, AttemptTaken, Release, World, Deliver
  <2>2. CASE \/ MarkOrphans(p) \/ Derive(p) \/ Scan(p) \/ Record(p) \/ Conclude(p)
             \/ \E A \in SUBSET Alerts : DeriveRaises(p, A)
             \/ \E e \in Delivery : StartAttempt(p, e)
    BY <1>1, <1>2, <2>2, Zenon DEF MarkOrphans, Derive, Scan, Record, Conclude, DeriveRaises,
                                   StartAttempt
  <2> QED
    BY <1>4, <2>1, <2>2 DEF Step
<1>5. ASSUME NEW p \in Procs, LockLost(p) \/ Crash(p) PROVE Goal
  BY <1>1, <1>5 DEF LockLost, Crash, World
<1>6. ASSUME Run PROVE Goal
  BY <1>1, <1>6 DEF Run, ApplyAlerts
<1>7. ASSUME NEW e \in Delivery, DeliveryAbandon(e) PROVE Goal
  BY <1>1, <1>7 DEF DeliveryAbandon
<1>8. \A force \in BOOLEAN : DeliveryRetry(d, force) => manual'[d] = manual[d] + 1
  BY DEF DeliveryRetry
<1> QED
  BY <1>3, <1>4, <1>5, <1>6, <1>7, <1>8 DEF Next, Operator, Goal

\* A delivery may be attempted again only when it could be before, when an
\* operator asks for it, or when its attempt has failed and is to be repeated.
LEMMA FreshMoves ==
  ASSUME IInv, Drift, Next, NEW d \in Delivery, Fresh(db', d) \/ Fresh(txn', d)
  PROVE  \/ Fresh(db, d) \/ Fresh(txn, d)
         \/ \E force \in BOOLEAN : DeliveryRetry(d, force)
         \/ \E p \in Procs : /\ Record(p) /\ cur[p] = d
                             /\ end[p].outcome = "FAILED_RETRYABLE"
<1> DEFINE Goal == \/ Fresh(db, d) \/ Fresh(txn, d)
                   \/ \E force \in BOOLEAN : DeliveryRetry(d, force)
                   \/ \E p \in Procs : /\ Record(p) /\ cur[p] = d
                                       /\ end[p].outcome = "FAILED_RETRYABLE"
<1>1. db \in Ledger /\ txn \in Ledger
  BY DEF IInv, TypeOK
<1>2. /\ D_UNKNOWN \notin {D_NONE, D_PENDING, D_FAILED_RETRYABLE}
      /\ D_ABANDONED \notin {D_NONE, D_PENDING, D_FAILED_RETRYABLE}
      /\ \A o \in AlertOutcomes, n \in AttemptNo :
           StatusAfter(o, n) \in {D_NONE, D_PENDING, D_FAILED_RETRYABLE} =>
             o = "FAILED_RETRYABLE"
  BY DEF D_PENDING, D_UNKNOWN, D_ABANDONED, D_NONE, StatusAfter, AlertOutcomes,
         D_DELIVERED, D_FAILED_PERMANENT, D_FAILED_RETRYABLE
<1>3. ASSUME NEW l, NEW k,
             \A n \in AttemptNo : l.row[d][n] = "STARTED" => k.row[d][n] = "STARTED",
             k.status[d] = l.status[d], Fresh(k, d)
      PROVE  Fresh(l, d)
  BY <1>3 DEF Fresh, Orphans
<1>4. ASSUME NEW k, NEW c, Advance(k, c), Fresh(k, d) => Goal PROVE Goal
  BY <1>4 DEF Advance
<1>5. ASSUME Keep \/ Flush \/ Rollback PROVE Goal
  BY <1>5 DEF Keep, Flush, Rollback
<1>6. ASSUME NEW c, Advance(OrphansMarked(txn), c) PROVE Goal
  <2> DEFINE k == OrphansMarked(txn)
  <2>1. k.status[d] = IF d \in Orphans(txn) THEN D_UNKNOWN ELSE txn.status[d]
    BY <1>1, OrphansMarkedEffect
  <2>2. Fresh(k, d) => Fresh(txn, d)
    BY <1>2, <2>1 DEF Fresh
  <2> QED
    BY <1>4, <1>6, <2>2
<1>7. ASSUME NEW D, NEW c, Advance(Inserted(txn, D), c), D \cap Known(txn) = {}
      PROVE  Goal
  <2> DEFINE k == Inserted(txn, D)
  <2>1. /\ k.row = txn.row
        /\ k.status[d] = IF d \in D THEN D_PENDING ELSE txn.status[d]
    BY <1>1, InsertedEffect
  <2>2. d \in D => txn.status[d] = D_NONE
    BY <1>7 DEF Known
  <2>3. Fresh(k, d) => Fresh(txn, d)
    BY <2>1, <2>2 DEF Fresh, Orphans
  <2> QED
    BY <1>4, <1>7, <2>3
<1>8. ASSUME NEW e \in Delivery, NEW n \in AttemptNo, Advance(Started(txn, e, n), TRUE)
      PROVE  Goal
  <2> DEFINE k == Started(txn, e, n)
  <2>1. /\ k.status = txn.status
        /\ \A m \in AttemptNo :
             k.row[d][m] = IF d = e /\ m = n THEN "STARTED" ELSE txn.row[d][m]
    BY <1>1, StartedEffect
  <2> HIDE DEF k
  <2>2. Fresh(k, d) => Fresh(txn, d)
    BY <2>1, <1>3
  <2> QED
    BY <1>4, <1>8, <2>2 DEF k
<1>9. ASSUME NEW p \in Procs, NEW e \in Delivery, NEW n \in AttemptNo, NEW o \in AlertOutcomes,
             Record(p), e = cur[p], o = end[p].outcome, Advance(Recorded(txn, e, n, o), TRUE)
      PROVE  Goal
  <2> DEFINE k == Recorded(txn, e, n, o)
  <2>1. /\ \A m \in AttemptNo :
             k.row[d][m] = IF d = e /\ m = n THEN AttemptAfter(o) ELSE txn.row[d][m]
        /\ k.status[d] = IF d = e THEN StatusAfter(o, n) ELSE txn.status[d]
    BY <1>1, RecordedEffect
  <2> HIDE DEF k
  <2>2. CASE d = e
    <3>1. Fresh(k, d) => o = "FAILED_RETRYABLE"
      BY <1>2, <2>1, <2>2 DEF Fresh
    <3> QED
      BY <1>4, <1>9, <2>2, <3>1 DEF k
  <2>3. CASE d # e
    <3>1. Fresh(k, d) => Fresh(txn, d)
      BY <2>1, <2>3, <1>3
    <3> QED
      BY <1>4, <1>9, <3>1 DEF k
  <2> QED
    BY <2>2, <2>3
<1>10. ASSUME NEW A, NEW E, Advance(Aggregated(txn, A, E), FALSE) PROVE Goal
  <2>1. Fresh(Aggregated(txn, A, E), d) => Fresh(txn, d)
    BY <1>1, OutboxEffect DEF OutboxOnly, Fresh, Orphans
  <2> QED
    BY <1>4, <1>10, <2>1
<1>11. ASSUME NEW A, NEW E, Commit(AlertsApplied(db, A, E)) PROVE Goal
  <2>1. Fresh(AlertsApplied(db, A, E), d) => Fresh(db, d)
    BY <1>1, OutboxEffect DEF OutboxOnly, Fresh, Orphans
  <2> QED
    BY <1>11, <2>1 DEF Commit
<1>12. ASSUME NEW e \in Delivery, NEW force \in BOOLEAN, DeliveryRetry(e, force),
              Commit(Retried(db, e))
       PROVE  Goal
  <2>1. /\ Retried(db, e).row = db.row
        /\ d # e => Retried(db, e).status[d] = db.status[d]
    BY <1>1, RetriedEffect
  <2>2. d # e /\ Fresh(Retried(db, e), d) => Fresh(db, d)
    BY <2>1 DEF Fresh, Orphans
  <2> QED
    BY <1>12, <2>2 DEF Commit
<1>13. ASSUME NEW e \in Delivery, Commit(Abandoned(db, e)) PROVE Goal
  <2>1. /\ Abandoned(db, e).row = db.row
        /\ Abandoned(db, e).status[d] = IF d = e THEN D_ABANDONED ELSE db.status[d]
    BY <1>1, AbandonedEffect
  <2>2. Fresh(Abandoned(db, e), d) => Fresh(db, d)
    BY <1>2, <2>1 DEF Fresh, Orphans
  <2> QED
    BY <1>13, <2>2 DEF Commit
<1>14. /\ \A p \in Procs : New(txn, on[p]) \cap Known(txn) = {}
       /\ \A p \in Procs, A \in SUBSET Alerts :
            {x \in New(txn, on[p]) : x.alert \in A} \cap Known(txn) = {}
  BY DEF New
<1> HIDE DEF Goal
<1>15. Goal
  BY <1>5, <1>6, <1>7, <1>8, <1>9, <1>10, <1>11, <1>12, <1>13, <1>14, LedgerCases
<1> QED
  BY <1>15 DEF Goal

\* An attempt under way stays under way until its answer is recorded.
LEMMA AnswerWaits ==
  ASSUME TypeOK, Next, OneProcess, NEW q \in Procs, pc[q] = "record", Attempting(q)'
  PROVE  pc'[q] = "record" /\ end'[q] = end[q]
<1> USE DEF TypeOK
<1>1. \A p \in Procs : p = q
  BY DEF OneProcess
<1>2. ASSUME Leave(q) PROVE FALSE
  BY <1>2 DEF Leave, Attempting
<1>3. ASSUME LockLost(q) \/ Crash(q) PROVE FALSE
  BY <1>2, <1>3 DEF LockLost, Lose, Crash, Die
<1>4. ASSUME Step(q) PROVE Record(q)
  BY <1>4 DEF Step, Start, Acquire, Reacquire, Regain, MarkOrphans, Derive, Scan, DeriveRaises,
              StartAttempt, AttemptTaken, Deliver, Conclude, Finish, At
<1>5. ASSUME Record(q) PROVE FALSE
  <2>1. pc'[q] = "gap" /\ resume'[q] = "loop"
    BY <1>5 DEF Record, Proceed, Checkpoint, Goto
  <2> QED
    BY <2>1 DEF Attempting
<1>6. Run \/ Operator
  BY <1>1, <1>3, <1>4, <1>5 DEF Next
<1> QED
  BY <1>6, BystandersKeep DEF Keeps

\* While an attempt is open its delivery is not fresh, and the adapter's
\* answer changes neither ledger.
LEMMA DeliverKeeps ==
  ASSUME IInv, Drift, RInv, NEW p \in Procs, Deliver(p)
  PROVE  /\ ~Fresh(db', cur[p]) /\ ~Fresh(txn', cur[p])
         /\ Attempting(p) /\ pc[p] = "deliver" /\ pc'[p] = "record"
         /\ cur' = cur /\ queue' = queue
<1>1. Attempting(p) /\ pc[p] = "deliver" /\ pc'[p] = "record"
  BY DEF Deliver, At, Attempting, Goto, IInv, TypeOK
<1>2. cur[p] \in Orphans(db)
  BY <1>1, RecordsOpenAttempt DEF Orphans
<1>3. db' = db /\ txn' = txn /\ Orphans(txn) = Orphans(db)
  BY DEF Deliver, Drift, Orphans
<1> QED
  BY <1>1, <1>2, <1>3 DEF Deliver, Fresh

LEMMA BudgetStep ==
  ASSUME IInv, Drift, RInv, SInv, Next
  PROVE  Budget' /\ FileOnce'
<1>1. \A d \in Delivery : /\ copies[d] \in Nat /\ copies'[d] \in Nat
                          /\ manual[d] \in Nat /\ manual'[d] \in Nat
  BY TypeStep, AlertAssumption DEF IInv, TypeOK
<1>2. AdapterOf \in [Dests -> AdapterTypes]
  BY AlertAssumption
<1>3. ASSUME NEW d \in Delivery, Mailed(d)
      PROVE  /\ copies'[d] <= 1 + manual'[d]
             /\ Fresh(db', d) \/ Fresh(txn', d) => copies'[d] <= manual'[d]
  <2>1. manual[d] <= manual'[d]
    BY ManualMoves DEF IInv
  <2>2. CASE copies'[d] = copies[d]
    <3>1. copies[d] <= 1 + manual[d]
      BY <1>3 DEF SInv, Budget
    <3>2. ASSUME Fresh(db', d) \/ Fresh(txn', d) PROVE copies[d] <= manual'[d]
      <4>1. CASE Fresh(db, d) \/ Fresh(txn, d)
        <5>1. copies[d] <= manual[d]
          BY <1>3, <4>1 DEF SInv, Budget
        <5> QED
          BY <1>1, <2>1, <5>1
      <4>2. CASE \E force \in BOOLEAN : DeliveryRetry(d, force)
        <5>1. manual'[d] = manual[d] + 1
          BY <4>2, ManualMoves DEF IInv
        <5> QED
          BY <1>1, <3>1, <5>1
      <4>3. CASE \E p \in Procs : /\ Record(p) /\ cur[p] = d
                                  /\ end[p].outcome = "FAILED_RETRYABLE"
        <5>1. PICK p \in Procs : /\ Record(p) /\ cur[p] = d
                                 /\ end[p].outcome = "FAILED_RETRYABLE"
          BY <4>3
        <5>2. Attempting(p)
          BY <5>1 DEF Record, At, Attempting
        <5>3. copies[d] <= manual[d]
          BY <1>3, <5>1, <5>2 DEF SInv, Unsent
        <5> QED
          BY <1>1, <2>1, <5>3
      <4> QED
        BY <3>2, <4>1, <4>2, <4>3, FreshMoves
    <3> QED
      BY <1>1, <2>1, <2>2, <3>1, <3>2
  <2>3. CASE \E p \in Procs : Deliver(p) /\ cur[p] = d /\ copies'[d] = copies[d] + 1
    <3>1. PICK p \in Procs : Deliver(p) /\ cur[p] = d /\ copies'[d] = copies[d] + 1
      BY <2>3
    <3>2. /\ ~Fresh(db', d) /\ ~Fresh(txn', d)
          /\ Attempting(p) /\ pc[p] = "deliver"
      BY <3>1, DeliverKeeps
    <3>3. copies[d] <= manual[d]
      BY <1>3, <3>1, <3>2 DEF SInv, Unsent
    <3> QED
      BY <1>1, <2>1, <3>1, <3>2, <3>3
  <2> QED
    BY <2>2, <2>3, CopyMoves DEF IInv
<1>4. ASSUME NEW d \in Delivery, AdapterOf[d.dest] = "file" PROVE copies'[d] <= 1
  <2>1. CASE copies'[d] = copies[d]
    BY <1>4, <2>1 DEF SInv, FileOnce
  <2>2. CASE \E p \in Procs : /\ copies'[d] = copies[d] + 1
                              /\ end'[p].arrives
                              /\ end'[p] \in AttemptEnds(AdapterOf[d.dest], copies[d] > 0)
    <3>1. ~(copies[d] > 0)
      BY <1>4, <2>2, ArrivalsCount DEF AdapterTypes
    <3> QED
      BY <1>1, <2>2, <3>1
  <2> QED
    BY <2>1, <2>2, CopyMoves DEF IInv
<1> QED
  BY <1>3, <1>4 DEF Budget, FileOnce

LEMMA UnsentStep ==
  ASSUME IInv, Drift, RInv, SInv, OneProcess, Next, NEW q \in Procs
  PROVE  Unsent(q)'
<1>1. \A d \in Delivery : /\ copies[d] \in Nat /\ copies'[d] \in Nat
                          /\ manual[d] \in Nat /\ manual'[d] \in Nat
                          /\ manual[d] <= manual'[d]
  BY TypeStep, ManualMoves, AlertAssumption DEF IInv, TypeOK
<1>2. \A p \in Procs : p = q
  BY DEF OneProcess
<1>3. queue[q] \subseteq Delivery /\ queue'[q] \subseteq Delivery
  BY TypeStep DEF IInv, TypeOK
<1>4. ASSUME NEW d \in Delivery, copies[d] <= manual[d], copies'[d] = copies[d]
      PROVE  copies'[d] <= manual'[d]
  BY <1>1, <1>4
<1>5. ASSUME NEW d \in queue'[q], Mailed(d) PROVE copies'[d] <= manual'[d]
  <2>1. d \in Delivery
    BY <1>3
  <2>2. CASE Scan(q)
    <3>1. \E E : Eligible(txn, d, E)
      <4>1. PICK E : \E only \in {Delivery} \cup {{e} : e \in Known(txn)} :
              queue' = [queue EXCEPT ![q] = {e \in only : /\ Eligible(txn, e, E)
                                                          /\ e.dest \in on[q]
                                                          /\ e.alert \in seen[q]}]
        BY <2>2, Zenon DEF Scan
      <4> QED
        BY <4>1, <1>5 DEF IInv, TypeOK
    <3>2. txn.status[d] \in {D_NONE, D_PENDING, D_FAILED_RETRYABLE}
      BY <3>1 DEF Eligible
    <3>3. Orphans(txn) = {}
      <4>1. Swept(q)
        BY <2>2 DEF Scan, At, Swept
      <4> QED
        BY <4>1 DEF RInv, Drift, Orphans
    <3>4. copies[d] <= manual[d]
      BY <1>5, <2>1, <3>2, <3>3 DEF SInv, Budget, Fresh
    <3>5. copies' = copies
      BY <2>2 DEF Scan, Proceed, World
    <3> QED
      BY <1>4, <2>1, <3>4, <3>5
  <2>3. CASE d \in queue[q]
    <3>1. copies[d] <= manual[d]
      BY <1>5, <2>3 DEF SInv, Unsent
    <3>2. ASSUME NEW p \in Procs, Deliver(p), cur[p] = d PROVE FALSE
      <4>1. Attempting(q) /\ cur[q] = d
        BY <1>2, <3>2, DeliverKeeps
      <4> QED
        BY <2>3, <4>1, RecordsOpenAttempt
    <3>3. copies'[d] = copies[d]
      BY <2>1, <3>2, CopyMoves DEF IInv
    <3> QED
      BY <1>4, <2>1, <3>1, <3>3
  <2> QED
    BY <1>5, <2>2, <2>3, HandMoves DEF IInv
<1>6. ASSUME Attempting(q)', Mailed(cur'[q]),
             pc'[q] = "record" => end'[q].outcome = "FAILED_RETRYABLE"
      PROVE  copies'[cur'[q]] <= manual'[cur'[q]]
  <2>1. CASE Attempting(q) /\ cur'[q] = cur[q]
    <3> DEFINE d == cur[q]
    <3>1. d \in Delivery
      BY <2>1, RecordsOpenAttempt
    <3>2. pc[q] = "record" => end[q].outcome = "FAILED_RETRYABLE"
      BY <1>6, AnswerWaits DEF IInv
    <3>3. copies[d] <= manual[d]
      BY <1>6, <2>1, <3>2 DEF SInv, Unsent
    <3>4. ASSUME NEW p \in Procs, Deliver(p), end'[p].arrives,
                 end'[p] \in AttemptEnds(AdapterOf[d.dest], copies[d] > 0)
          PROVE  FALSE
      <4>1. end'[p].outcome = "FAILED_RETRYABLE"
        BY <1>2, <1>6, <3>4, DeliverKeeps
      <4>2. AdapterOf[d.dest] = "smtp"
        BY <1>6, <2>1 DEF Mailed
      <4> DEFINE there == copies[d] > 0
      <4>3. "smtp" \in AdapterTypes /\ there \in BOOLEAN
        BY DEF AdapterTypes
      <4>4. end'[p] \in AttemptEnds("smtp", there)
        BY <3>4, <4>2
      <4> HIDE DEF there
      <4>5. end'[p].outcome # "FAILED_RETRYABLE"
        BY <3>4, <4>3, <4>4, ArrivalsCount
      <4> QED
        BY <4>1, <4>5
    <3>5. copies'[d] = copies[d]
      BY <3>1, <3>4, CopyMoves DEF IInv
    <3> QED
      BY <1>4, <2>1, <3>1, <3>3, <3>5
  <2>2. CASE \E d \in queue[q] : StartAttempt(q, d) /\ cur'[q] = d
    <3>1. PICK d \in queue[q] : StartAttempt(q, d) /\ cur'[q] = d
      BY <2>2
    <3>2. copies[d] <= manual[d]
      BY <1>6, <3>1 DEF SInv, Unsent
    <3>3. copies' = copies
      BY <3>1 DEF StartAttempt, Proceed, World
    <3> QED
      BY <1>3, <1>4, <3>1, <3>2, <3>3
  <2> QED
    BY <1>6, <2>1, <2>2, HandMoves DEF IInv
<1> QED
  BY <1>5, <1>6 DEF Unsent

\* No notice is repeated by itself (NoSilentDuplicate): a file is written once,
\* and mail goes out once and once more for each delivery-retry, whatever
\* times out, crashes and is recovered, because an attempt that may have
\* reached its destination is never left in a state that is tried again
\* (_is_eligible, _mark_orphan_attempts, the phases of the smtp adapter).
THEOREM NoticesAreNotRepeated ==
  ASSUME OneProcess
  PROVE  Spec => []NoSilentDuplicate
<1>1. Init => SInv
  <2> SUFFICES ASSUME Init PROVE SInv
    OBVIOUS
  <2>1. \A d \in Delivery : copies[d] = 0 /\ manual[d] = 0
    BY DEF Init
  <2>2. \A p \in Procs : queue[p] = {} /\ ~Attempting(p)
    BY DEF Init, Attempting
  <2> QED
    BY <2>1, <2>2 DEF SInv, Budget, FileOnce, Unsent
<1>2. SInv /\ UNCHANGED vars => SInv'
  BY DEF SInv, Budget, FileOnce, Unsent, Attempting, Fresh, Orphans, vars, locals
<1>3. WInv /\ RInv /\ SInv /\ [Next]_vars => SInv'
  BY <1>2, BudgetStep, UnsentStep DEF WInv, SInv
<1>4. SInv => NoSilentDuplicate
  <2>1. \A d \in Delivery : AdapterOf[d.dest] \in {"file", "smtp", "webhook"}
    BY AlertAssumption DEF Delivery, AdapterTypes
  <2> QED
    BY <2>1 DEF SInv, Budget, FileOnce, NoSilentDuplicate, Mailed
<1>5. Spec => []SInv
  BY <1>1, <1>3, AttemptsInvariant, PTL DEF Spec
<1> QED
  BY <1>4, <1>5, PTL

----------------------------------------------------------------------------
(* What the outbox promises, while everybody in Dests is enabled.          *)

\* Every pass finds all destinations enabled.
AllEnabled == Configs = {Dests}

\* A version of an alert has deliveries for everybody who is to be told of the
\* alert, or for nobody.
Same(l) ==
  \A a \in Alerts, s \in {"OPEN", "CLEARED"}, f \in Facts :
    DerivedFor(l, a, s, f) \in {{}, Routed(a, Dests)}

\* An open alert that is DELIVERED is so at everybody.
Stays(l) ==
  \A a \in Alerts :
    l.outbox[a].state = "OPEN" /\ l.outbox[a].ds = "DELIVERED" =>
      \A x \in Routed(a, Dests) : l.status[Key(l, a, x)] = D_DELIVERED

\* What is attempted is not DELIVERED yet.
HandUndelivered ==
  /\ \A d \in Orphans(db) : db.status[d] # D_DELIVERED
  /\ \A p \in Procs :
       /\ \A d \in queue[p] : db.status[d] # D_DELIVERED
       /\ Attempting(p) => db.status[cur[p]] # D_DELIVERED

\* What Notice calls informed and settled, said of ledgers.
InformedIn(l, a) ==
  /\ Routed(a, Dests) # {}
  /\ \A x \in Routed(a, Dests) : Key(l, a, x) \in Delivery /\ copies[Key(l, a, x)] > 0

SettledIn(l, k, a) ==
  /\ k.outbox[a] = [l.outbox[a] EXCEPT !.ds = k.outbox[a].ds]
  /\ \/ k.outbox[a].ds = l.outbox[a].ds
     \/ k.outbox[a].ds = "DELIVERED" /\ InformedIn(l, a)
     \/ /\ k.outbox[a].ds # "DELIVERED"
        /\ ~(l.outbox[a].state = "OPEN" /\ l.outbox[a].ds = "DELIVERED")

\* What a transaction would make of the outbox is what Notice allows.
OutboxDrift == \A a \in Alerts : SettledIn(db, txn, a)

NInv == /\ \A p \in Procs : on[p] \in {{}, Dests}
        /\ Same(db) /\ Same(txn)
        /\ Stays(db) /\ Stays(txn)
        /\ HandUndelivered
        /\ OutboxDrift

\* The generation of a notice is the same at everybody who is to be told: so
\* many versions of the alert came before.
VersionsAt(l, a, x) == {e \in Known(l) : e.alert = a /\ e.dest = x}

LEMMA VersionsBound ==
  ASSUME NEW l, Same(l), NEW a \in Alerts,
         NEW x \in Routed(a, Dests), NEW y \in Routed(a, Dests)
  PROVE  Cardinality(VersionsAt(l, a, x)) <= Cardinality(VersionsAt(l, a, y))
<1> DEFINE S == VersionsAt(l, a, x)
           T == VersionsAt(l, a, y)
           to == [e \in S |-> KeyOf(a, e.state, e.facts, y)]
<1>1. x \in Dests /\ y \in Dests
  BY DEF Routed
<1>2. ASSUME NEW e \in S PROVE KeyOf(a, e.state, e.facts, y) \in T
  <2> DEFINE s == e.state
             f == e.facts
  <2>1. /\ s \in {"OPEN", "CLEARED"} /\ f \in Facts
        /\ e = KeyOf(a, s, f, x) /\ l.status[e] # D_NONE
    BY DEF VersionsAt, Known, Delivery, KeyOf
  <2>2. x \in DerivedFor(l, a, s, f)
    BY <1>1, <2>1 DEF DerivedFor
  <2>3. y \in DerivedFor(l, a, s, f)
    BY <2>1, <2>2 DEF Same
  <2>4. KeyOf(a, s, f, y) \in Delivery
    BY <1>1, <2>1 DEF KeyOf, Delivery
  <2>5. /\ l.status[KeyOf(a, s, f, y)] # D_NONE
        /\ KeyOf(a, s, f, y).alert = a /\ KeyOf(a, s, f, y).dest = y
    BY <2>3 DEF DerivedFor, KeyOf
  <2> QED
    BY <2>4, <2>5 DEF VersionsAt, Known
<1>3. ASSUME NEW d \in S, NEW e \in S, to[d] = to[e] PROVE d = e
  <2>1. d.state = e.state /\ d.facts = e.facts
    BY <1>3 DEF KeyOf
  <2>2. d.alert = e.alert /\ d.dest = e.dest /\ d \in Delivery /\ e \in Delivery
    BY DEF VersionsAt, Known
  <2> QED
    BY <2>1, <2>2 DEF Delivery
<1>4. to \in Injection(S, T)
  BY <1>2, <1>3 DEF Injection, IsInjective
<1>5. IsFiniteSet(T)
  <2>1. T \subseteq Delivery
    BY DEF VersionsAt, Known
  <2> QED
    BY <2>1, DeliveryFinite, FS_Subset
<1> HIDE DEF S, T, to
<1>6. Cardinality(S) <= Cardinality(T)
  BY <1>4, <1>5, FS_Injection
<1> QED
  BY <1>6 DEF S, T

\* So the notice of a version is on for all of them, or off.
LEMMA GateSame ==
  ASSUME NEW l, Same(l), NEW a \in Alerts, NEW s \in {"OPEN", "CLEARED"},
         NEW f \in Facts, NEW x \in Routed(a, Dests), NEW y \in Routed(a, Dests)
  PROVE  Gate(l, KeyOf(a, s, f, x)) = Gate(l, KeyOf(a, s, f, y))
<1>1. ASSUME NEW z \in Routed(a, Dests)
      PROVE  Cardinality(VersionsAt(l, a, z)) \in Nat
  <2>1. VersionsAt(l, a, z) \subseteq Delivery
    BY DEF VersionsAt, Known
  <2> QED
    BY <2>1, DeliveryFinite, FS_Subset, FS_CardinalityType
<1>2. Cardinality(VersionsAt(l, a, x)) = Cardinality(VersionsAt(l, a, y))
  <2>1. Cardinality(VersionsAt(l, a, x)) <= Cardinality(VersionsAt(l, a, y))
    BY VersionsBound
  <2>2. Cardinality(VersionsAt(l, a, y)) <= Cardinality(VersionsAt(l, a, x))
    BY VersionsBound
  <2> QED
    BY <1>1, <2>1, <2>2
<1>3. \A z : NextGen(l, KeyOf(a, s, f, z)) = Cardinality(VersionsAt(l, a, z)) + 1
  BY DEF NextGen, KeyOf, VersionsAt
<1>4. NextGen(l, KeyOf(a, s, f, x)) = NextGen(l, KeyOf(a, s, f, y))
  BY <1>2, <1>3
<1>5. KeyOf(a, s, f, x).state = KeyOf(a, s, f, y).state
  BY DEF KeyOf
<1> QED
  BY <1>4, <1>5 DEF Gate

\* The derivation takes the notices of a version for everybody or for nobody.
LEMMA InsertedSame ==
  ASSUME NEW l \in Ledger, Same(l), NEW enabled \in {{}, Dests}, NEW A,
         NEW D, \A d : d \in D <=> d \in New(l, enabled) /\ d.alert \in A,
         NEW k, k = Inserted(l, D)
  PROVE  Same(k)
<1> SUFFICES ASSUME NEW a \in Alerts, NEW s \in {"OPEN", "CLEARED"}, NEW f \in Facts
             PROVE  DerivedFor(k, a, s, f) \in {{}, Routed(a, Dests)}
  BY DEF Same
<1> DEFINE key(x) == KeyOf(a, s, f, x)
<1>1. \A x \in Dests : key(x) \in Delivery /\ key(x).alert = a /\ key(x).dest = x
  BY DEF KeyOf, Delivery
<1>2. \A d \in Delivery :
        k.status[d] # D_NONE <=> \/ l.status[d] # D_NONE
                                 \/ d \in New(l, enabled) /\ d.alert \in A
  BY InsertedEffect DEF D_PENDING, D_NONE
<1>3. DerivedFor(l, a, s, f) \in {{}, Routed(a, Dests)}
  BY DEF Same
<1>4. ASSUME NEW x \in Dests, key(x) \in New(l, enabled)
      PROVE  /\ x \in Routed(a, Dests) /\ enabled = Dests
             /\ a \in Notified(l) /\ s = l.outbox[a].state /\ f = l.outbox[a].facts
             /\ Gate(l, key(x)) \in NotifyOn
  BY <1>1, <1>4 DEF New, Routed, KeyOf, Key
<1>5. CASE \A x \in Dests : ~(key(x) \in New(l, enabled) /\ a \in A)
  <2>1. DerivedFor(k, a, s, f) = DerivedFor(l, a, s, f)
    BY <1>1, <1>2, <1>5 DEF DerivedFor
  <2> QED
    BY <1>3, <2>1
<1>6. CASE \E x \in Dests : key(x) \in New(l, enabled) /\ a \in A
  <2>1. PICK x \in Dests : key(x) \in New(l, enabled) /\ a \in A
    BY <1>6
  <2>2. /\ x \in Routed(a, Dests) /\ enabled = Dests
        /\ a \in Notified(l) /\ s = l.outbox[a].state /\ f = l.outbox[a].facts
        /\ Gate(l, key(x)) \in NotifyOn
    BY <1>4, <2>1
  <2>3. ASSUME NEW y \in Routed(a, Dests) PROVE y \in DerivedFor(k, a, s, f)
    <3>1. y \in Dests
      BY DEF Routed
    <3>2. Gate(l, key(y)) \in NotifyOn
      BY <2>2, GateSame
    <3>3. key(y) = Key(l, a, y)
      BY <2>2 DEF KeyOf, Key
    <3>4. l.status[key(y)] # D_NONE \/ key(y) \in New(l, enabled)
      BY <1>1, <2>2, <3>1, <3>2, <3>3 DEF New, Known
    <3>5. k.status[key(y)] # D_NONE
      BY <1>1, <1>2, <2>1, <3>1, <3>4
    <3> QED
      BY <3>1, <3>5 DEF DerivedFor
  <2>4. ASSUME NEW y \in DerivedFor(k, a, s, f) PROVE y \in Routed(a, Dests)
    <3>1. y \in Dests /\ k.status[key(y)] # D_NONE
      BY DEF DerivedFor
    <3>2. y \in DerivedFor(l, a, s, f) \/ key(y) \in New(l, enabled)
      BY <1>1, <1>2, <3>1 DEF DerivedFor
    <3> QED
      BY <1>3, <1>4, <3>1, <3>2
  <2> QED
    BY <2>3, <2>4
<1> QED
  BY <1>5, <1>6

\* A ledger function that gives no delivery its first status.
LEMMA SameKept ==
  ASSUME NEW l, NEW k, Same(l),
         \A d \in Delivery : k.status[d] = D_NONE <=> l.status[d] = D_NONE
  PROVE  Same(k)
<1>1. ASSUME NEW a \in Alerts, NEW s \in {"OPEN", "CLEARED"}, NEW f \in Facts
      PROVE  DerivedFor(k, a, s, f) = DerivedFor(l, a, s, f)
  <2>1. \A x \in Dests : KeyOf(a, s, f, x) \in Delivery
    BY DEF KeyOf, Delivery
  <2> QED
    BY <2>1 DEF DerivedFor
<1> QED
  BY <1>1 DEF Same

\* A ledger function that takes no delivery back.
LEMMA StaysKept ==
  ASSUME NEW l \in Ledger, NEW k, Stays(l), k.outbox = l.outbox,
         \A d \in Delivery : l.status[d] = D_DELIVERED => k.status[d] = D_DELIVERED
  PROVE  Stays(k)
<1>1. ASSUME NEW a \in Alerts, k.outbox[a].state = "OPEN", k.outbox[a].ds = "DELIVERED",
             NEW x \in Routed(a, Dests)
      PROVE  k.status[Key(k, a, x)] = D_DELIVERED
  <2>1. Key(k, a, x) = Key(l, a, x)
    BY DEF Key
  <2>2. Key(l, a, x) \in Delivery
    BY <1>1 DEF Key, Delivery, Ledger, AlertRow, Routed
  <2>3. l.status[Key(l, a, x)] = D_DELIVERED
    BY <1>1 DEF Stays
  <2> QED
    BY <2>1, <2>2, <2>3
<1> QED
  BY <1>1 DEF Stays

\* What a run opens, reopens or changes waits to be told; what it clears is
\* not open.
LEMMA AppliedStays ==
  ASSUME NEW l \in Ledger, Stays(l), NEW A \in SUBSET Alerts, NEW cands \in [A -> Facts],
         NEW evaluated, NEW k, k = AlertsApplied(l, cands, evaluated)
  PROVE  Stays(k)
<1>1. k.status = l.status
  BY OutboxEffect DEF OutboxOnly
<1>2. ASSUME NEW a \in Alerts, k.outbox[a].state = "OPEN", k.outbox[a].ds = "DELIVERED"
      PROVE  k.outbox[a] = l.outbox[a]
  <2>1. /\ l.outbox[a] \in AlertRow
        /\ k.outbox[a] = IF a \in DOMAIN cands THEN Observed(l.outbox[a], cands[a])
                         ELSE IF l.outbox[a].state = "OPEN" /\ Category[a] \in evaluated
                              THEN [l.outbox[a] EXCEPT !.state = "CLEARED"]
                              ELSE l.outbox[a]
    BY DEF AlertsApplied, Ledger
  <2> QED
    BY <1>2, <2>1 DEF Observed, Opened, AlertRow
<1> QED
  BY <1>1, <1>2 DEF Stays, Key

\* What the deliveries of an alert say of it, when they are everybody's.
LEMMA AggregateOfAll ==
  ASSUME NEW l \in Ledger, Same(l), NEW a \in Alerts, NEW enabled \in {{}, Dests}
  PROVE  \/ Aggregate(l, a, enabled) = l.outbox[a].ds
         \/ /\ Aggregate(l, a, enabled) = "DELIVERED"
            /\ Routed(a, Dests) # {}
            /\ \A x \in Routed(a, Dests) : /\ Key(l, a, x) \in Delivery
                                            /\ l.status[Key(l, a, x)] = D_DELIVERED
         \/ /\ Aggregate(l, a, enabled) # "DELIVERED"
            /\ \E x \in Routed(a, Dests) : l.status[Key(l, a, x)] # D_DELIVERED
<1> DEFINE f == l.outbox[a].facts
           st == l.outbox[a].state
           V == Version(l, a, enabled)
           S == {l.status[d] : d \in V}
<1>1. f \in Facts /\ Routed(a, enabled) \subseteq Dests /\ Routed(a, {}) = {}
  BY DEF Ledger, AlertRow, Routed
<1>2. st \in {"OPEN", "CLEARED"} \/ st = "ABSENT"
  BY DEF Ledger, AlertRow
<1>3. ASSUME st \in {"OPEN", "CLEARED"}
      PROVE  V = {} \/ (Routed(a, Dests) # {} /\ V = {Key(l, a, x) : x \in Routed(a, Dests)})
  <2>1. \A x \in Dests : Key(l, a, x) = KeyOf(a, st, f, x) /\ Key(l, a, x) \in Delivery
    BY <1>1, <1>3 DEF Key, KeyOf, Delivery
  <2>2. V = {Key(l, a, x) : x \in Routed(a, enabled) \cap DerivedFor(l, a, st, f)}
    <3>1. \A x \in Routed(a, enabled) :
            Key(l, a, x) \in Known(l) <=> x \in DerivedFor(l, a, st, f)
      BY <1>1, <2>1 DEF Known, DerivedFor
    <3> QED
      BY <3>1 DEF Version
  <2>3. DerivedFor(l, a, st, f) \in {{}, Routed(a, Dests)}
    BY <1>1, <1>3 DEF Same
  <2> QED
    BY <1>1, <2>2, <2>3
<1>4. ASSUME st = "ABSENT" PROVE V = {}
  BY <1>4 DEF Version, Key, Known, Delivery
<1>5. V = {} \/ (Routed(a, Dests) # {} /\ V = {Key(l, a, x) : x \in Routed(a, Dests)})
  <2>1. CASE st \in {"OPEN", "CLEARED"}
    BY <1>3, <2>1
  <2>2. CASE st = "ABSENT"
    BY <1>4, <2>2
  <2> QED
    BY <1>2, <2>1, <2>2
<1>6. Aggregate(l, a, enabled) =
        CASE S = {}            -> l.outbox[a].ds
          [] S = {D_DELIVERED} -> "DELIVERED"
          [] S \cap {D_FAILED_PERMANENT, D_ABANDONED} # {} -> "FAILED_DELIVERY"
          [] OTHER             -> "PENDING_DELIVERY"
  BY DEF Aggregate
<1> HIDE DEF V
<1>7. CASE S = {}
  <2> HIDE DEF S
  <2> QED
    BY <1>6, <1>7
<1>8. CASE S = {D_DELIVERED}
  <2>1. V # {} /\ \A d \in V : l.status[d] = D_DELIVERED
    BY <1>8
  <2>2. Aggregate(l, a, enabled) = "DELIVERED"
    <3> HIDE DEF S
    <3> QED
      BY <1>6, <1>8
  <2>3. V \subseteq Delivery
    BY DEF Known, V, Version
  <2> QED
    BY <1>5, <2>1, <2>2, <2>3
<1>9. CASE S # {} /\ S # {D_DELIVERED}
  <2>1. V # {} /\ \E d \in V : l.status[d] # D_DELIVERED
    BY <1>9
  <2>2. Aggregate(l, a, enabled) # "DELIVERED"
    <3> HIDE DEF S
    <3> QED
      BY <1>6, <1>9
  <2> QED
    BY <1>5, <2>1, <2>2
<1> QED
  BY <1>7, <1>8, <1>9

\* The aggregate settles alerts as Notice allows, and says DELIVERED of an open
\* one only when everybody's delivery is.
LEMMA AggregatedSettles ==
  ASSUME NEW l \in Ledger, Fine(l, copies), Same(l), Stays(l), NEW enabled \in {{}, Dests},
         NEW A, NEW k, k = Aggregated(l, A, enabled)
  PROVE  Same(k) /\ Stays(k) /\ \A a \in Alerts : SettledIn(l, k, a)
<1>1. k.status = l.status
  BY OutboxEffect DEF OutboxOnly
<1>2. Same(k)
  BY <1>1 DEF Same, DerivedFor
<1>3. ASSUME NEW a \in Alerts
      PROVE  /\ SettledIn(l, k, a)
             /\ k.outbox[a].state = "OPEN" /\ k.outbox[a].ds = "DELIVERED" =>
                  \A x \in Routed(a, Dests) : k.status[Key(k, a, x)] = D_DELIVERED
  <2>1. /\ l.outbox[a] \in AlertRow
        /\ k.outbox[a] = IF a \in A
                         THEN [l.outbox[a] EXCEPT !.ds = Aggregate(l, a, enabled)]
                         ELSE l.outbox[a]
    BY DEF Aggregated, Ledger
  <2>2. /\ k.outbox[a] = [l.outbox[a] EXCEPT !.ds = k.outbox[a].ds]
        /\ k.outbox[a].state = l.outbox[a].state /\ k.outbox[a].facts = l.outbox[a].facts
        /\ \/ k.outbox[a].ds = l.outbox[a].ds
           \/ a \in A /\ k.outbox[a].ds = Aggregate(l, a, enabled)
    BY <2>1 DEF AlertRow
  <2>3. \A x : Key(k, a, x) = Key(l, a, x)
    BY <2>2 DEF Key
  <2>4. CASE k.outbox[a].ds = l.outbox[a].ds
    BY <1>1, <2>2, <2>3, <2>4 DEF SettledIn, Stays
  <2>5. CASE /\ k.outbox[a].ds # l.outbox[a].ds
             /\ a \in A /\ k.outbox[a].ds = Aggregate(l, a, enabled)
    <3>2. CASE /\ Aggregate(l, a, enabled) = "DELIVERED"
               /\ Routed(a, Dests) # {}
               /\ \A x \in Routed(a, Dests) : /\ Key(l, a, x) \in Delivery
                                               /\ l.status[Key(l, a, x)] = D_DELIVERED
      <4>1. InformedIn(l, a)
        BY <3>2 DEF InformedIn, Fine
      <4> QED
        BY <1>1, <2>2, <2>3, <2>5, <3>2, <4>1 DEF SettledIn
    <3>3. CASE /\ Aggregate(l, a, enabled) # "DELIVERED"
               /\ \E x \in Routed(a, Dests) : l.status[Key(l, a, x)] # D_DELIVERED
      <4>1. ~(l.outbox[a].state = "OPEN" /\ l.outbox[a].ds = "DELIVERED")
        BY <3>3 DEF Stays
      <4> QED
        BY <2>2, <2>5, <3>3, <4>1 DEF SettledIn
    <3> QED
      BY <2>5, <3>2, <3>3, AggregateOfAll
  <2> QED
    BY <2>2, <2>4, <2>5
<1> QED
  BY <1>2, <1>3 DEF Stays

\* A delivery becomes DELIVERED when the answer of its attempt is recorded.
LEMMA DeliveredMoves ==
  ASSUME IInv, Drift, Next, NEW d \in Delivery, db'.status[d] = D_DELIVERED
  PROVE  \/ db.status[d] = D_DELIVERED
         \/ \E p \in Procs : Record(p) /\ cur[p] = d
<1> DEFINE Goal == \/ db.status[d] = D_DELIVERED
                   \/ \E p \in Procs : Record(p) /\ cur[p] = d
<1>1. db \in Ledger /\ txn \in Ledger
  BY DEF IInv, TypeOK
<1>2. D_DELIVERED \notin {D_PENDING, D_UNKNOWN, D_ABANDONED}
  BY DEF D_PENDING, D_UNKNOWN, D_ABANDONED, D_DELIVERED
<1>3. ASSUME txn.status[d] = D_DELIVERED PROVE Goal
  BY <1>2, <1>3 DEF Drift
<1>4. ASSUME NEW k, NEW c, Advance(k, c), k.status[d] = D_DELIVERED => Goal PROVE Goal
  BY <1>4 DEF Advance
<1>5. ASSUME Keep \/ Flush \/ Rollback PROVE Goal
  BY <1>3, <1>5 DEF Keep, Flush, Rollback
<1>6. ASSUME NEW c, Advance(OrphansMarked(txn), c) PROVE Goal
  <2>1. OrphansMarked(txn).status[d] = IF d \in Orphans(txn) THEN D_UNKNOWN
                                                             ELSE txn.status[d]
    BY <1>1, OrphansMarkedEffect
  <2> QED
    BY <1>2, <1>3, <1>4, <1>6, <2>1
<1>7. ASSUME NEW D, NEW c, Advance(Inserted(txn, D), c) PROVE Goal
  <2>1. Inserted(txn, D).status[d] = IF d \in D THEN D_PENDING ELSE txn.status[d]
    BY <1>1, InsertedEffect
  <2> QED
    BY <1>2, <1>3, <1>4, <1>7, <2>1
<1>8. ASSUME NEW e \in Delivery, NEW n \in AttemptNo, Advance(Started(txn, e, n), TRUE)
      PROVE  Goal
  <2>1. Started(txn, e, n).status = txn.status
    BY <1>1, StartedEffect
  <2> QED
    BY <1>3, <1>4, <1>8, <2>1
<1>9. ASSUME NEW p \in Procs, NEW e \in Delivery, NEW n \in AttemptNo, NEW o \in AlertOutcomes,
             Record(p), e = cur[p], Advance(Recorded(txn, e, n, o), TRUE)
      PROVE  Goal
  <2>1. Recorded(txn, e, n, o).status[d] = IF d = e THEN StatusAfter(o, n)
                                                    ELSE txn.status[d]
    BY <1>1, RecordedEffect
  <2> QED
    BY <1>3, <1>4, <1>9, <2>1
<1>10. ASSUME NEW A, NEW E, Advance(Aggregated(txn, A, E), FALSE) PROVE Goal
  BY <1>10 DEF Advance
<1>11. ASSUME NEW A, NEW E, Commit(AlertsApplied(db, A, E)) PROVE Goal
  BY <1>1, <1>11, OutboxEffect DEF OutboxOnly, Commit
<1>12. ASSUME NEW e \in Delivery, Commit(Retried(db, e)) \/ Commit(Abandoned(db, e))
       PROVE  Goal
  BY <1>1, <1>2, <1>12, RetriedEffect, AbandonedEffect DEF Commit
<1> HIDE DEF Goal
<1>13. Goal
  BY <1>5, <1>6, <1>7, <1>8, <1>9, <1>10, <1>11, <1>12, LedgerCases
<1> QED
  BY <1>13 DEF Goal

\* What is attempted, or left open, is not DELIVERED.
LEMMA HandStep ==
  ASSUME WInv, RInv, HandUndelivered, OneProcess, Next, RInv'
  PROVE  HandUndelivered'
<1>1. /\ \A p, q \in Procs : p = q
      /\ IInv /\ Drift /\ db \in Ledger /\ txn \in Ledger
      /\ \A p \in Procs : queue[p] \subseteq Delivery
  BY DEF OneProcess, WInv, IInv, TypeOK
<1>2. ASSUME NEW p \in Procs, Record(p)
      PROVE  Orphans(db') = {} /\ ~Attempting(p)' /\ cur[p] \notin queue[p] /\ ~Scan(p)
             /\ \A d : ~StartAttempt(p, d)
  <2>1. pc'[p] = "gap" /\ resume'[p] = "loop" /\ pc[p] = "record"
    BY <1>1, <1>2 DEF Record, Proceed, Checkpoint, Goto, At, IInv, TypeOK
  <2>2. Swept(p)' /\ ~Attempting(p)' /\ Attempting(p)
    BY <2>1 DEF Swept, Attempting
  <2>3. Orphans(db') = {}
    BY <2>2 DEF RInv
  <2> QED
    BY <1>1, <2>1, <2>2, <2>3, RecordsOpenAttempt DEF Scan, StartAttempt, At
<1>3. ASSUME NEW d \in Orphans(db') PROVE db'.status[d] # D_DELIVERED
  <2>1. d \in Delivery /\ \A p \in Procs : ~Record(p)
    BY <1>2 DEF Orphans
  <2>2. d \in Orphans(db) \/ \E p \in Procs : d \in queue[p]
    BY <1>1, OpenMoves DEF Orphans, StartAttempt, Oldest
  <2>3. db.status[d] # D_DELIVERED
    BY <2>2 DEF HandUndelivered
  <2> QED
    BY <1>1, <2>1, <2>3, DeliveredMoves
<1>4. ASSUME NEW q \in Procs, NEW d \in queue'[q] PROVE db'.status[d] # D_DELIVERED
  <2>1. CASE Scan(q)
    <3>1. \E E : Eligible(txn, d, E)
      <4>1. PICK E : \E only \in {Delivery} \cup {{e} : e \in Known(txn)} :
              queue' = [queue EXCEPT ![q] = {e \in only : /\ Eligible(txn, e, E)
                                                          /\ e.dest \in on[q]
                                                          /\ e.alert \in seen[q]}]
        BY <2>1, Zenon DEF Scan
      <4> QED
        BY <1>1, <1>4, <4>1 DEF IInv, TypeOK
    <3>2. txn.status[d] # D_DELIVERED
      BY <3>1 DEF Eligible, D_PENDING, D_FAILED_RETRYABLE, D_DELIVERED
    <3>3. txn = db /\ db' = db
      BY <2>1 DEF Scan, At, WInv, InStep, Proceed
    <3> QED
      BY <3>2, <3>3
  <2>2. CASE d \in queue[q]
    <3>1. d \in Delivery /\ db.status[d] # D_DELIVERED
      BY <1>1, <2>2 DEF HandUndelivered
    <3>2. \A p \in Procs : ~(Record(p) /\ cur[p] = d)
      BY <1>1, <1>2, <2>2
    <3> QED
      BY <1>1, <3>1, <3>2, DeliveredMoves
  <2> QED
    BY <1>1, <1>4, <2>1, <2>2, HandMoves DEF IInv
<1>5. ASSUME NEW q \in Procs, Attempting(q)' PROVE db'.status[cur'[q]] # D_DELIVERED
  <2>1. \A p \in Procs : ~Record(p)
    BY <1>1, <1>2, <1>5
  <2>2. CASE Attempting(q) /\ cur'[q] = cur[q]
    <3>1. cur[q] \in Delivery /\ db.status[cur[q]] # D_DELIVERED
      BY <1>1, <2>2, RecordsOpenAttempt DEF HandUndelivered
    <3> QED
      BY <1>1, <2>1, <2>2, <3>1, DeliveredMoves
  <2>3. CASE \E d \in queue[q] : StartAttempt(q, d) /\ cur'[q] = d
    <3>1. cur'[q] \in Delivery /\ db.status[cur'[q]] # D_DELIVERED
      BY <1>1, <2>3 DEF HandUndelivered
    <3> QED
      BY <1>1, <2>1, <3>1, DeliveredMoves
  <2> QED
    BY <1>1, <1>5, <2>2, <2>3, HandMoves DEF IInv
<1> QED
  BY <1>3, <1>4, <1>5 DEF HandUndelivered

\* An outbox that says the same is settled.
LEMMA SettledSame ==
  ASSUME NEW l \in Ledger, NEW k, k.outbox = l.outbox, NEW a \in Alerts
  PROVE  SettledIn(l, k, a)
<1>1. l.outbox[a] \in AlertRow
  BY DEF Ledger
<1> QED
  BY <1>1 DEF SettledIn, AlertRow

\* Every step keeps the ledgers as Notice needs them, judged by the copies
\* before it.
LEMMA NoticeLedgers ==
  ASSUME WInv, RInv, NInv, Next, WInv'
  PROVE  /\ Same(db') /\ Same(txn') /\ Stays(db') /\ Stays(txn')
         /\ \A a \in Alerts : SettledIn(db', txn', a)
<1>1. /\ IInv /\ Drift /\ InStep
      /\ db \in Ledger /\ txn \in Ledger /\ db' \in Ledger /\ txn' \in Ledger
      /\ Fine(db, copies) /\ Fine(txn, copies)
  BY FineInvariants DEF WInv, IInv, TypeOK
<1> DEFINE Good(l) == Same(l) /\ Stays(l)
           Goal == /\ Good(db') /\ Good(txn')
                   /\ \A a \in Alerts : SettledIn(db', txn', a)
<1>2. Good(db) /\ Good(txn) /\ \A a \in Alerts : SettledIn(db, txn, a)
  BY DEF NInv, OutboxDrift
<1> HIDE DEF Good
<1>3. ASSUME db' = txn', Good(db') PROVE Goal
  BY <1>1, <1>3, SettledSame
<1>4. ASSUME NEW k, NEW c, Advance(k, c), Good(k), k.outbox = txn.outbox PROVE Goal
  <2>1. CASE db' = txn'
    BY <1>3, <1>4, <2>1 DEF Advance
  <2>2. CASE db' = db
    BY <1>2, <1>4, <2>2 DEF Advance, SettledIn
  <2> QED
    BY <1>4, <2>1, <2>2 DEF Advance
<1>5. ASSUME NEW k, Commit(k), Good(k) PROVE Goal
  BY <1>3, <1>5 DEF Commit
<1>6. ASSUME Keep \/ Flush \/ Rollback PROVE Goal
  BY <1>2, <1>3, <1>6 DEF Keep, Flush, Rollback
<1>7. ASSUME NEW l \in {db, txn}, NEW k, k.outbox = l.outbox,
             \A d \in Delivery : k.status[d] = D_NONE <=> l.status[d] = D_NONE,
             \A d \in Delivery : l.status[d] = D_DELIVERED => k.status[d] = D_DELIVERED
      PROVE  Good(k)
  BY <1>1, <1>2, <1>7, SameKept, StaysKept DEF Good
<1>8. ASSUME NEW c \in BOOLEAN, Advance(OrphansMarked(txn), c) PROVE Goal
  <2> DEFINE k == OrphansMarked(txn)
  <2>1. /\ k.outbox = txn.outbox
        /\ \A d \in Delivery :
             k.status[d] = IF d \in Orphans(txn) THEN D_UNKNOWN ELSE txn.status[d]
    BY <1>1, OrphansMarkedEffect
  <2>2. \A d \in Orphans(txn) : d \in Known(db) /\ db.status[d] # D_DELIVERED
    BY DEF WInv, KnownInHand, Drift, Orphans, NInv, HandUndelivered
  <2>3. \A d \in Orphans(txn) : txn.status[d] \notin {D_NONE, D_DELIVERED}
    BY <1>1, <2>2 DEF Known, Drift
  <2> HIDE DEF k
  <2>4. Good(k)
    BY <1>7, <2>1, <2>3 DEF D_UNKNOWN, D_NONE
  <2> QED
    BY <1>4, <1>8, <2>1, <2>4 DEF k
<1>9. ASSUME NEW p \in Procs, NEW A, NEW c \in BOOLEAN,
             Advance(Inserted(txn, {d \in New(txn, on[p]) : d.alert \in A}), c)
      PROVE  Goal
  <2> DEFINE D == {d \in New(txn, on[p]) : d.alert \in A}
             k == Inserted(txn, D)
  <2>1. /\ k.outbox = txn.outbox
        /\ \A d \in Delivery : k.status[d] = IF d \in D THEN D_PENDING ELSE txn.status[d]
    BY <1>1, InsertedEffect
  <2>2. on[p] \in {{}, Dests}
    BY DEF NInv
  <2>3. Same(k)
    <3>1. Same(txn)
      BY <1>2 DEF Good
    <3>2. \A d : d \in D <=> d \in New(txn, on[p]) /\ d.alert \in A
      OBVIOUS
    <3> HIDE DEF D
    <3> QED
      BY <1>1, <2>2, <3>1, <3>2, InsertedSame
  <2>4. \A d \in D : txn.status[d] = D_NONE
    BY DEF New, Known
  <2> HIDE DEF k, D
  <2>5. Stays(k)
    BY <1>1, <1>2, <2>1, <2>4, StaysKept DEF Good, D_NONE, D_DELIVERED
  <2>6. Good(k)
    BY <2>3, <2>5 DEF Good
  <2> QED
    BY <1>4, <1>9, <2>1, <2>6 DEF k, D
<1>10. ASSUME NEW p \in Procs,
              Advance(Inserted(txn, New(txn, on[p])), New(txn, on[p]) # {})
       PROVE  Goal
  <2>1. New(txn, on[p]) = {d \in New(txn, on[p]) : d.alert \in Alerts}
    BY DEF New, Delivery
  <2> QED
    BY <1>9, <1>10, <2>1
<1>11. ASSUME NEW d \in Delivery, NEW n \in AttemptNo, Advance(Started(txn, d, n), TRUE)
       PROVE  Goal
  <2>1. Started(txn, d, n).outbox = txn.outbox /\ Started(txn, d, n).status = txn.status
    BY <1>1, StartedEffect
  <2>2. Good(Started(txn, d, n))
    BY <1>7, <2>1
  <2> QED
    BY <1>4, <1>11, <2>1, <2>2
<1>12. ASSUME NEW p \in Procs, NEW d \in Delivery, NEW n \in AttemptNo,
              NEW o \in AlertOutcomes, Record(p), d = cur[p],
              Advance(Recorded(txn, d, n, o), TRUE)
       PROVE  Goal
  <2> DEFINE k == Recorded(txn, d, n, o)
  <2>1. /\ k.outbox = txn.outbox
        /\ \A e \in Delivery :
             k.status[e] = IF e = d THEN StatusAfter(o, n) ELSE txn.status[e]
    BY <1>1, RecordedEffect
  <2>2. d \in Known(db) /\ db.status[d] # D_DELIVERED
    BY <1>12 DEF Record, At, WInv, KnownInHand, Attempting, NInv, HandUndelivered
  <2>3. StatusAfter(o, n) # D_NONE
    BY DEF StatusAfter, AlertOutcomes, D_NONE, D_DELIVERED, D_UNKNOWN,
           D_FAILED_PERMANENT, D_FAILED_RETRYABLE
  <2>4. txn.status[d] \notin {D_NONE, D_DELIVERED}
    BY <1>1, <2>2 DEF Known, Drift
  <2> HIDE DEF k
  <2>5. Good(k)
    BY <1>7, <2>1, <2>3, <2>4
  <2> QED
    BY <1>4, <1>12, <2>1, <2>5 DEF k
<1>13. ASSUME NEW p \in Procs, Conclude(p),
              Advance(Aggregated(txn, touched[p], on[p]), FALSE)
       PROVE  Goal
  <2> DEFINE k == Aggregated(txn, touched[p], on[p])
  <2>1. txn = db
    BY <1>1, <1>13 DEF Conclude, At, InStep
  <2>2. on[p] \in {{}, Dests}
    BY DEF NInv
  <2>3. Same(k) /\ Stays(k) /\ \A a \in Alerts : SettledIn(txn, k, a)
    BY <1>1, <1>2, <2>2, AggregatedSettles DEF Good
  <2> HIDE DEF k
  <2>4. txn' = k /\ db' = txn
    BY <1>13, <2>1 DEF Advance, k
  <2>5. Good(txn') /\ Good(db')
    BY <1>2, <2>3, <2>4 DEF Good
  <2> QED
    BY <2>3, <2>4, <2>5
<1>14. ASSUME NEW evaluated, NEW A \in SUBSET Alerts, NEW cands \in [A -> Facts],
              Commit(AlertsApplied(db, cands, evaluated))
       PROVE  Goal
  <2> DEFINE k == AlertsApplied(db, cands, evaluated)
  <2>1. k.status = db.status
    BY <1>1, OutboxEffect DEF OutboxOnly
  <2>2. Stays(k)
    BY <1>1, <1>2, AppliedStays DEF Good
  <2> HIDE DEF k
  <2>3. Good(k)
    BY <1>2, <2>1, <2>2, SameKept DEF Good
  <2> QED
    BY <1>5, <1>14, <2>3 DEF k
<1>15. ASSUME NEW d \in Delivery, db.status[d] \notin {D_NONE, D_DELIVERED},
              Commit(Retried(db, d)) \/ Commit(Abandoned(db, d))
       PROVE  Goal
  <2>1. Good(Retried(db, d))
    BY <1>1, <1>7, <1>15, RetriedEffect DEF D_NONE, D_PENDING
  <2>2. Good(Abandoned(db, d))
    BY <1>1, <1>7, <1>15, AbandonedEffect DEF D_NONE, D_ABANDONED
  <2> QED
    BY <1>5, <1>15, <2>1, <2>2
<1>16. ASSUME NEW d \in Delivery, NEW force, DeliveryRetry(d, force) \/ DeliveryAbandon(d)
       PROVE  db.status[d] \notin {D_NONE, D_DELIVERED}
  BY <1>16 DEF DeliveryRetry, MayRetry, DeliveryAbandon, MayAbandon
<1> HIDE DEF Goal
<1>17. Goal
  BY <1>1, <1>6, <1>8, <1>9, <1>10, <1>11, <1>12, <1>13, <1>14, <1>15, <1>16, LedgerCases
<1> QED
  BY <1>17 DEF Goal, Good

LEMMA NInvStep ==
  ASSUME OneProcess, AllEnabled, WInv, RInv, NInv, Next, WInv', RInv'
  PROVE  NInv'
<1>1. \A p \in Procs : on'[p] \in {{}, Dests}
  BY HandMoves DEF WInv, IInv, NInv, AllEnabled
<1>2. HandUndelivered'
  BY HandStep DEF NInv
<1>3. /\ Same(db') /\ Same(txn') /\ Stays(db') /\ Stays(txn')
      /\ \A a \in Alerts : SettledIn(db', txn', a)
  BY NoticeLedgers
<1>4. \A d \in Delivery : /\ copies[d] \in Nat /\ copies'[d] \in Nat
                          /\ copies[d] <= copies'[d]
  BY CopiesKeptStep DEF CopiesKept, WInv, IInv, TypeOK
<1>5. ASSUME NEW a \in Alerts, InformedIn(db', a) PROVE InformedIn(db, a)'
  BY <1>4, <1>5 DEF InformedIn, Key
<1>6. OutboxDrift'
  BY <1>3, <1>5 DEF OutboxDrift, SettledIn
<1>7. Same(db)' /\ Same(txn)' /\ Stays(db)' /\ Stays(txn)'
  BY <1>3 DEF Same, Stays, DerivedFor, Key
<1> QED
  BY <1>1, <1>2, <1>6, <1>7 DEF NInv

LEMMA NoticeInvariant ==
  ASSUME OneProcess, AllEnabled
  PROVE  Spec => [](WInv /\ RInv /\ NInv)
<1>1. Init => NInv
  <2> SUFFICES ASSUME Init PROVE NInv
    OBVIOUS
  <2>1. db = EmptyLedger /\ txn = EmptyLedger
    BY DEF Init
  <2>2. \A a, s, f : DerivedFor(EmptyLedger, a, s, f) \subseteq
                       {x \in Dests : KeyOf(a, s, f, x) \notin Delivery}
    BY DEF DerivedFor, EmptyLedger
  <2>3. \A a \in Alerts, s \in {"OPEN", "CLEARED"}, f \in Facts :
          DerivedFor(EmptyLedger, a, s, f) = {}
    BY <2>2 DEF DerivedFor, KeyOf, Delivery
  <2>4. Same(EmptyLedger)
    BY <2>3 DEF Same
  <2>5. Stays(EmptyLedger)
    BY DEF Stays, EmptyLedger, AbsentAlert
  <2>6. EmptyLedger \in Ledger
    BY InitIInv, <2>1 DEF IInv, TypeOK
  <2>7. OutboxDrift
    BY <2>1, <2>6, SettledSame DEF OutboxDrift
  <2>8. HandUndelivered
    <3>1. \A d \in Delivery : db.status[d] # D_DELIVERED
      BY <2>1 DEF EmptyLedger, D_NONE, D_DELIVERED
    <3>2. \A p \in Procs : queue[p] = {} /\ ~Attempting(p)
      BY DEF Init, Attempting
    <3> QED
      BY <3>1, <3>2 DEF HandUndelivered, Orphans
  <2>9. \A p \in Procs : on[p] = {}
    BY DEF Init
  <2> QED
    BY <2>1, <2>4, <2>5, <2>7, <2>8, <2>9 DEF NInv
<1>2. NInv /\ UNCHANGED vars => NInv'
  BY DEF NInv, Same, Stays, DerivedFor, Key, OutboxDrift, SettledIn, InformedIn,
         HandUndelivered, Orphans, Attempting, vars, locals
<1>3. WInv /\ RInv /\ NInv /\ [Next]_vars /\ WInv' /\ RInv' => NInv'
  BY <1>2, NInvStep
<1> QED
  BY <1>1, <1>3, AttemptsInvariant, PTL DEF Spec

\* The committed outbox changes by a run, or to what the transaction says.
LEMMA OutboxMoves ==
  ASSUME IInv, Next
  PROVE  \/ db'.outbox \in {db.outbox, txn.outbox}
         \/ \E evaluated \in SUBSET Categories, A \in SUBSET Alerts :
              \E cands \in [A -> Facts] :
                /\ ApplyAlerts(evaluated, cands)
                /\ Commit(AlertsApplied(db, cands, evaluated))
<1>1. db \in Ledger /\ txn \in Ledger
  BY DEF IInv, TypeOK
<1> DEFINE Goal == db'.outbox \in {db.outbox, txn.outbox}
<1>2. ASSUME NEW k, NEW c, Advance(k, c), k.outbox = txn.outbox PROVE Goal
  BY <1>2 DEF Advance
<1>3. ASSUME Keep \/ Flush \/ Rollback PROVE Goal
  BY <1>3 DEF Keep, Flush, Rollback
<1>4. ASSUME NEW c, Advance(OrphansMarked(txn), c) PROVE Goal
  BY <1>1, <1>2, <1>4, OrphansMarkedEffect
<1>5. ASSUME NEW D, NEW c, Advance(Inserted(txn, D), c) PROVE Goal
  BY <1>1, <1>2, <1>5, InsertedEffect
<1>6. ASSUME NEW d \in Delivery, NEW n \in AttemptNo, Advance(Started(txn, d, n), TRUE)
      PROVE  Goal
  <2>1. Started(txn, d, n).outbox = txn.outbox
    BY <1>1, StartedEffect
  <2> QED
    BY <1>2, <1>6, <2>1
<1>7. ASSUME NEW d \in Delivery, NEW n \in AttemptNo, NEW o \in AlertOutcomes,
             Advance(Recorded(txn, d, n, o), TRUE)
      PROVE  Goal
  <2>1. Recorded(txn, d, n, o).outbox = txn.outbox
    BY <1>1, RecordedEffect
  <2> QED
    BY <1>2, <1>7, <2>1
<1>8. ASSUME NEW A, NEW E, Advance(Aggregated(txn, A, E), FALSE) PROVE Goal
  BY <1>8 DEF Advance
<1>9. ASSUME NEW d \in Delivery, Commit(Retried(db, d)) \/ Commit(Abandoned(db, d))
      PROVE  Goal
  BY <1>1, <1>9, RetriedEffect, AbandonedEffect DEF Commit
<1> HIDE DEF Goal
<1>10. Goal \/ \E evaluated \in SUBSET Categories, A \in SUBSET Alerts :
                 \E cands \in [A -> Facts] :
                   /\ ApplyAlerts(evaluated, cands)
                   /\ Commit(AlertsApplied(db, cands, evaluated))
  <2>1. CASE \E evaluated \in SUBSET Categories, A \in SUBSET Alerts :
               \E cands \in [A -> Facts] :
                 /\ ApplyAlerts(evaluated, cands)
                 /\ Commit(AlertsApplied(db, cands, evaluated))
    BY <2>1, Zenon
  <2>2. CASE ~(\E evaluated \in SUBSET Categories, A \in SUBSET Alerts :
                 \E cands \in [A -> Facts] :
                   /\ ApplyAlerts(evaluated, cands)
                   /\ Commit(AlertsApplied(db, cands, evaluated)))
    <3>1. Goal
      BY <2>2, <1>3, <1>4, <1>5, <1>6, <1>7, <1>8, <1>9, LedgerCases
    <3> QED
      BY <3>1
  <2> QED
    BY <2>1, <2>2
<1> QED
  BY <1>10, Zenon DEF Goal

\* A run changes an alert as Notice allows.
LEMMA ObservedRows ==
  ASSUME NEW l \in Ledger, NEW A \in SUBSET Alerts, NEW cands \in [A -> Facts],
         NEW evaluated, NEW k, k = AlertsApplied(l, cands, evaluated), NEW a \in Alerts
  PROVE  Promise!Observes(l.outbox[a], k.outbox[a])
<1>1. /\ l.outbox[a] \in AlertRow
      /\ k.outbox[a] = IF a \in DOMAIN cands THEN Observed(l.outbox[a], cands[a])
                       ELSE IF l.outbox[a].state = "OPEN" /\ Category[a] \in evaluated
                            THEN [l.outbox[a] EXCEPT !.state = "CLEARED"]
                            ELSE l.outbox[a]
  BY DEF AlertsApplied, Ledger
<1>2. a \in DOMAIN cands => cands[a] \in Facts
  OBVIOUS
<1> QED
  BY <1>1, <1>2 DEF Promise!Observes, Observed, Opened, AlertRow

\* The outbox keeps the promise of Notice, when one dispatcher runs at a time
\* and finds everybody enabled: every step tells somebody who is to be told,
\* observes alerts, settles them as those who are to be told were told, or is
\* nothing that a reader of the outbox could see.
THEOREM OutboxKeepsNotice ==
  ASSUME OneProcess, AllEnabled
  PROVE  Spec => KeepsNotice
<1> DEFINE told == [a \in Alerts |->
                     {<<d.state, d.facts, d.dest>> :
                        d \in {e \in Delivery : e.alert = a /\ copies[e] > 0}}]
           view == db.outbox
<1>1. Init => Promise!Init
  <2> SUFFICES ASSUME Init PROVE Promise!Init
    OBVIOUS
  <2>1. told = [a \in Alerts |-> {}]
    BY DEF Init
  <2>2. view \in [Alerts -> {r \in Promise!Row : r.state = "ABSENT"}]
    BY DEF Init, EmptyLedger, AbsentAlert, Promise!Row
  <2> QED
    BY <2>1, <2>2 DEF Promise!Init
<1>2. ASSUME WInv, RInv, NInv, WInv', Next PROVE [Promise!Next]_<<told, view>>
  <2>1. /\ IInv /\ db \in Ledger /\ db' \in Ledger /\ txn \in Ledger
        /\ copies \in [Delivery -> Nat] /\ copies' \in [Delivery -> Nat]
    BY <1>2 DEF WInv, IInv, TypeOK
  <2>2. view' \in [Alerts -> Promise!Row]
    BY <2>1 DEF Ledger, AlertRow, Promise!Row
  <2>3. CASE copies' = copies
    <3>1. told' = told
      BY <2>3
    <3>2. CASE db'.outbox = db.outbox
      BY <3>1, <3>2
    <3>3. CASE db'.outbox = txn.outbox
      <4>1. ASSUME NEW a \in Alerts PROVE Promise!Settles(a, view'[a])
        <5>1. SettledIn(db, txn, a)
          BY <1>2 DEF NInv, OutboxDrift
        <5>2. InformedIn(db, a) => Promise!Informed(a)
          <6>1. ASSUME NEW x \in Routed(a, Dests), Key(db, a, x) \in Delivery,
                       copies[Key(db, a, x)] > 0
                PROVE  <<view[a].state, view[a].facts, x>> \in told[a]
            <7> DEFINE d == Key(db, a, x)
            <7>1. d.alert = a /\ d.state = view[a].state /\ d.facts = view[a].facts /\ d.dest = x
              BY DEF Key
            <7> QED
              BY <6>1, <7>1
          <6> QED
            BY <6>1 DEF InformedIn, Promise!Informed
        <5> QED
          BY <3>3, <5>1, <5>2 DEF SettledIn, Promise!Settles
      <4>2. Promise!Settle
        BY <2>2, <3>1, <4>1 DEF Promise!Settle
      <4> QED
        BY <4>2 DEF Promise!Next
    <3>4. CASE \E evaluated \in SUBSET Categories, A \in SUBSET Alerts :
                 \E cands \in [A -> Facts] :
                   /\ ApplyAlerts(evaluated, cands)
                   /\ Commit(AlertsApplied(db, cands, evaluated))
      <4>1. PICK evaluated \in SUBSET Categories, A \in SUBSET Alerts :
                 \E cands \in [A -> Facts] :
                   /\ ApplyAlerts(evaluated, cands)
                   /\ Commit(AlertsApplied(db, cands, evaluated))
        BY <3>4, Zenon
      <4>2. PICK cands \in [A -> Facts] : Commit(AlertsApplied(db, cands, evaluated))
        BY <4>1
      <4>3. db' = AlertsApplied(db, cands, evaluated)
        BY <4>2 DEF Commit
      <4>4. \A a \in Alerts : Promise!Observes(view[a], view'[a])
        BY <2>1, <4>3, ObservedRows
      <4>5. Promise!Observe
        BY <2>2, <3>1, <4>4 DEF Promise!Observe
      <4> QED
        BY <4>5 DEF Promise!Next
    <3> QED
      BY <1>2, <2>1, <3>2, <3>3, <3>4, OutboxMoves
  <2>4. CASE \E d \in Delivery, p \in Procs :
               Deliver(p) /\ cur[p] = d /\ copies'[d] = copies[d] + 1
    <3>1. PICK d \in Delivery, p \in Procs :
                 Deliver(p) /\ cur[p] = d /\ copies'[d] = copies[d] + 1
      BY <2>4
    <3>2. /\ view' = view
          /\ \A e \in Delivery : copies'[e] = IF e = d THEN copies[e] + 1 ELSE copies[e]
      BY <2>1, <3>1 DEF Deliver
    <3> DEFINE a == d.alert
               note == <<d.state, d.facts, d.dest>>
    <3>3. a \in Alerts /\ d.state \in {"OPEN", "CLEARED"} /\ d.facts \in Facts /\ d.dest \in Dests
          /\ d = KeyOf(a, d.state, d.facts, d.dest)
      BY DEF Delivery, KeyOf
    <3>4. d.dest \in Routed(a, Dests)
      <4>1. d \in Known(db)
        BY <1>2, <3>1 DEF Deliver, At, Attempting, WInv, KnownInHand
      <4>2. d.dest \in DerivedFor(db, a, d.state, d.facts)
        BY <3>3, <4>1 DEF DerivedFor, Known
      <4> QED
        BY <1>2, <3>3, <4>2 DEF NInv, Same
    <3>5. told' = [told EXCEPT ![a] = @ \cup {note}]
      <4>1. ASSUME NEW b \in Alerts
            PROVE  told'[b] = IF b = a THEN told[b] \cup {note} ELSE told[b]
        <5>1. \A e \in Delivery :
                copies'[e] > 0 <=> e = d \/ copies[e] > 0
          BY <2>1, <3>2
        <5> QED
          BY <3>3, <5>1
      <4> QED
        BY <3>3, <4>1
    <3>6. Promise!Tell(a, d.dest)
      BY <3>2, <3>3, <3>5 DEF Promise!Tell
    <3>7. d.dest \in [b \in Alerts |-> Routed(b, Dests)][a]
      BY <3>3, <3>4
    <3> QED
      BY <3>3, <3>6, <3>7 DEF Promise!Next
  <2> QED
    <3>1. \A d \in Delivery : \/ copies'[d] = copies[d]
                              \/ \E p \in Procs : /\ Deliver(p) /\ cur[p] = d
                                                  /\ copies'[d] = copies[d] + 1
      BY <1>2, <2>1, CopyMoves DEF IInv
    <3>2. (\A d \in Delivery : copies'[d] = copies[d]) => copies' = copies
      BY <2>1
    <3> QED
      BY <2>3, <2>4, <3>1, <3>2
<1>3. UNCHANGED vars => UNCHANGED <<told, view>>
  BY DEF vars
<1>4. WInv /\ RInv /\ NInv /\ WInv' /\ [Next]_vars => [Promise!Next]_<<told, view>>
  BY <1>2, <1>3
<1> QED
  BY <1>1, <1>4, NoticeInvariant, PTL DEF Spec, KeepsNotice, Promise!Spec

==============================================================================
