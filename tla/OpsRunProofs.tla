---------------------------- MODULE OpsRunProofs ----------------------------
(***************************************************************************)
(* The operational run, for any number of runs, executions, faults and     *)
(* changes of the world.                                                   *)
(*                                                                         *)
(* A run that succeeded is immutable (SucceededRunsStand).  The status     *)
(* alone does not give this, because the rows of a run are written long    *)
(* after its status was read; what does is that the run in execution is    *)
(* never one that succeeded.                                               *)
(*                                                                         *)
(* Three theorems rest on the books of an execution: the rows of           *)
(* the steps before pc are of this execution, whatever an earlier one left *)
(* in the same run, and say which of them delivered (InTurn).  On them     *)
(* stand that no step delivers past a gap (RunsHaveNoGap), that a document *)
(* taken over from an earlier run is what its step would compute now       *)
(* (CacheIsSound), and that the alerts follow the runs (AlertsDoFollow).   *)
(*                                                                         *)
(* The last section joins the machines of MCOperation.  Each step of the   *)
(* whole is a step of one machine and a stutter of the others              *)
(* (OperationIsItsParts), so what was proved of each, its types            *)
(* (OperationTyped) and its properties (OperationStands), holds there.     *)
(***************************************************************************)
EXTENDS MCOperation, EdgeProofs, IdentityProofs, SequenceTheorems, FiniteSetTheorems,
        WellFoundedInduction, TLAPS

Fields == {"status", "asOf", "row"}

\* The table of runs is a sequence of records.
RunsShape ==
  /\ \E A : runs \in Seq(A)
  /\ \A r \in 1..Len(runs) : DOMAIN runs[r] = Fields

\* The run in execution exists and has not succeeded.
ExecutesUnfinished ==
  /\ cur \in 0..Len(runs)
  /\ cur # 0 => runs[cur].status # "SUCCEEDED"

IInv == RunsShape /\ ExecutesUnfinished

\* Runs that are kept by a step of an execution: all that succeeded.
Kept == \A r \in DOMAIN runs : runs[r].status = "SUCCEEDED" => runs'[r] = runs[r]

-----------------------------------------------------------------------------
\* Writing a row of the run in execution touches no other run and no status (run_ops,
\* put_run_step).
LEMMA SetRowTouchesOneRun ==
  ASSUME RunsShape, cur \in 1..Len(runs), NEW s, NEW row
  PROVE  LET q == SetRow(s, row)
         IN  /\ \E A : q \in Seq(A)
             /\ Len(q) = Len(runs)
             /\ \A r \in 1..Len(runs) : DOMAIN q[r] = Fields /\ q[r].status = runs[r].status
             /\ \A r \in 1..Len(runs) \ {cur} : q[r] = runs[r]
             /\ q[cur].row = Put(runs[cur].row, s, row)
<1> DEFINE new == [runs[cur] EXCEPT !.row = Put(@, s, row)]
           q == [runs EXCEPT ![cur] = new]
<1>1. SetRow(s, row) = q
  BY DEF SetRow
<1>2. PICK A : runs \in Seq(A)
  BY DEF RunsShape
<1>3. /\ DOMAIN new = Fields /\ new.status = runs[cur].status
      /\ new.row = Put(runs[cur].row, s, row)
  <2>1. DOMAIN runs[cur] = Fields
    BY DEF RunsShape
  <2> QED BY <2>1 DEF Fields
<1>4. /\ q \in Seq(A \cup {new}) /\ Len(q) = Len(runs)
      /\ q[cur] = new
      /\ \A r \in 1..Len(runs) \ {cur} : q[r] = runs[r]
  <2>1. runs \in Seq(A \cup {new})
    BY <1>2
  <2> HIDE DEF new
  <2> QED BY <2>1, ExceptSeq
<1> HIDE DEF new, q
<1>5. \A r \in 1..Len(runs) : DOMAIN q[r] = Fields /\ q[r].status = runs[r].status
  BY <1>3, <1>4 DEF RunsShape
<1> QED BY <1>1, <1>3, <1>4, <1>5

LEMMA Initially == OpsInit => IInv
<1> SUFFICES ASSUME OpsInit PROVE IInv
  OBVIOUS
<1>1. runs = <<>> /\ cur = 0
  BY DEF OpsInit
<1>2. runs \in Seq({}) /\ Len(runs) = 0
  BY <1>1
<1> QED BY <1>1, <1>2 DEF IInv, RunsShape, ExecutesUnfinished

\* A step that writes a row, and goes on or dies.
LEMMA RowWritten ==
  ASSUME IInv, cur # 0, cur' = cur \/ cur' = 0, NEW s, NEW row, runs' = SetRow(s, row)
  PROVE  IInv' /\ Kept
<1>1. cur \in 1..Len(runs)
  BY DEF IInv, ExecutesUnfinished
<1>2. PICK q : q = SetRow(s, row)
  OBVIOUS
<1>3. /\ \E A : q \in Seq(A)
      /\ Len(q) = Len(runs)
      /\ \A r \in 1..Len(runs) : DOMAIN q[r] = Fields /\ q[r].status = runs[r].status
      /\ \A r \in 1..Len(runs) \ {cur} : q[r] = runs[r]
  BY <1>1, <1>2, SetRowTouchesOneRun DEF IInv
<1>4. runs' = q
  BY <1>2
<1>5. RunsShape'
  BY <1>3, <1>4 DEF RunsShape
<1>6. ExecutesUnfinished'
  BY <1>1, <1>3, <1>4 DEF IInv, ExecutesUnfinished
<1>7. Kept
  <2>1. DOMAIN runs = 1..Len(runs)
    BY DEF IInv, RunsShape
  <2> QED BY <1>3, <1>4, <2>1 DEF Kept, IInv, ExecutesUnfinished
<1> QED BY <1>5, <1>6, <1>7 DEF IInv

\* A step that writes no run.
LEMMA NothingWritten ==
  ASSUME IInv, runs' = runs, cur' = cur \/ cur' = 0
  PROVE  IInv' /\ Kept
<1>1. 0 \in 0..Len(runs)
  BY DEF IInv, ExecutesUnfinished
<1> QED BY <1>1 DEF IInv, RunsShape, ExecutesUnfinished, Kept

LEMMA RunStarted == ASSUME IInv, StartRun PROVE IInv' /\ Kept
<1> DEFINE new == [status |-> "RUNNING", asOf |-> inputs["as_of"], row |-> <<>>]
<1>1. PICK A : runs \in Seq(A)
  BY DEF IInv, RunsShape
<1>2. runs' = Append(runs, new) /\ cur' = Len(runs) + 1
  BY DEF StartRun
<1>3. /\ runs' \in Seq(A \cup {new})
      /\ Len(runs') = Len(runs) + 1
      /\ runs'[Len(runs) + 1] = new
      /\ \A r \in 1..Len(runs) : runs'[r] = runs[r]
  <2>1. runs \in Seq(A \cup {new})
    BY <1>1
  <2> HIDE DEF new
  <2> QED BY <1>2, <2>1, AppendProperties
<1>4. DOMAIN new = Fields /\ new.status # "SUCCEEDED"
  BY DEF Fields
<1> HIDE DEF new
<1>5. Len(runs) \in Nat /\ DOMAIN runs = 1..Len(runs)
  BY <1>1
<1>6. \A r \in 1..Len(runs') : r \in 1..Len(runs) \/ r = Len(runs) + 1
  BY <1>3, <1>5
<1>7. RunsShape'
  BY <1>3, <1>4, <1>6 DEF IInv, RunsShape
<1>8. ExecutesUnfinished'
  BY <1>2, <1>3, <1>4, <1>5 DEF ExecutesUnfinished
<1> QED BY <1>3, <1>5, <1>7, <1>8 DEF IInv, Kept

LEMMA RunResumed == ASSUME IInv, ResumeRun PROVE IInv' /\ Kept
<1>1. /\ runs' = runs
      /\ cur' \in DOMAIN runs /\ runs[cur'].status # "SUCCEEDED"
  BY DEF ResumeRun
<1>2. DOMAIN runs = 1..Len(runs) /\ Len(runs) \in Nat
  BY DEF IInv, RunsShape
<1> QED BY <1>1, <1>2 DEF IInv, RunsShape, ExecutesUnfinished, Kept

\* The outcome is written to the run in execution, which had not succeeded.
LEMMA RunEnded == ASSUME IInv, EndRun PROVE IInv' /\ Kept
<1> DEFINE new == [runs[cur] EXCEPT !.status = Verdict]
<1>1. runs' = [runs EXCEPT ![cur] = new] /\ cur' = 0 /\ cur # 0
  BY DEF EndRun
<1>2. PICK A : runs \in Seq(A)
  BY DEF IInv, RunsShape
<1>3. cur \in 1..Len(runs) /\ DOMAIN runs = 1..Len(runs) /\ Len(runs) \in Nat
  BY <1>1, <1>2 DEF IInv, ExecutesUnfinished
<1>4. DOMAIN new = Fields
  BY <1>3 DEF IInv, RunsShape
<1>5. /\ runs' \in Seq(A \cup {new}) /\ Len(runs') = Len(runs)
      /\ runs'[cur] = new
      /\ \A r \in 1..Len(runs) \ {cur} : runs'[r] = runs[r]
  <2>1. runs \in Seq(A \cup {new})
    BY <1>2
  <2> HIDE DEF new
  <2> QED BY <1>1, <1>3, <2>1, ExceptSeq
<1> HIDE DEF new
<1>6. RunsShape'
  BY <1>4, <1>5 DEF IInv, RunsShape
<1>7. ExecutesUnfinished'
  BY <1>1, <1>3, <1>5 DEF ExecutesUnfinished
<1>8. Kept
  BY <1>1, <1>3, <1>5 DEF Kept, IInv, ExecutesUnfinished
<1> QED BY <1>6, <1>7, <1>8 DEF IInv

LEMMA StepKeeps == IInv /\ [OpsNext]_opsVars => IInv' /\ (Kept \/ UNCHANGED opsVars)
<1> SUFFICES ASSUME IInv, [OpsNext]_opsVars PROVE IInv' /\ (Kept \/ UNCHANGED opsVars)
  OBVIOUS
<1>1. CASE Change
  BY <1>1, NothingWritten DEF Change
<1>2. CASE StartRun
  BY <1>2, RunStarted
<1>3. CASE ResumeRun
  BY <1>3, RunResumed
<1>4. ASSUME NEW s \in Current, BlockStep(s) PROVE IInv' /\ Kept
  <2>1. runs' = SetRow(s.id, Row("BLOCKED", {}, {}, 0)) /\ cur' = cur /\ cur # 0
    BY <1>4 DEF BlockStep, Current
  <2> QED BY <2>1, RowWritten
<1>5. ASSUME NEW s \in Current, SkipStep(s) PROVE IInv' /\ Kept
  <2>1. PICK row : runs' = SetRow(s.id, row) /\ cur' = cur /\ cur # 0
    BY <1>5 DEF SkipStep, Current
  <2> QED BY <2>1, RowWritten
<1>6. ASSUME NEW s \in Current, FinishStep(s) PROVE IInv' /\ Kept
  <2>1. PICK row : runs' = SetRow(s.id, row) /\ cur' = cur /\ cur # 0
    BY <1>6 DEF FinishStep, Done, Current
  <2> QED BY <2>1, RowWritten
<1>7. ASSUME NEW s \in Current, MissingInputs(s) PROVE IInv' /\ Kept
  <2>1. runs' = SetRow(s.id, Row("BLOCKED", {}, {}, 0)) /\ cur' = cur /\ cur # 0
    BY <1>7 DEF MissingInputs, Current
  <2> QED BY <2>1, RowWritten
<1>8. ASSUME NEW s \in Current, FailStep(s) PROVE IInv' /\ Kept
  <2>1. runs' = SetRow(s.id, Row("FAILED", {}, {}, 0)) /\ cur' = cur /\ cur # 0
    BY <1>8 DEF FailStep, Current
  <2> QED BY <2>1, RowWritten
<1>9. ASSUME NEW s \in Current, CrashInStep(s) PROVE IInv' /\ Kept
  <2>1. runs' = SetRow(s.id, Row("RUNNING", {}, {}, 0)) /\ cur' = 0 /\ cur # 0
    BY <1>9 DEF CrashInStep, Current
  <2> QED BY <2>1, RowWritten
<1>10. CASE EndRun
  BY <1>10, RunEnded
<1>11. CASE CrashRun
  BY <1>11, NothingWritten DEF CrashRun
<1>12. CASE UNCHANGED opsVars
  BY <1>12, NothingWritten DEF opsVars
<1> QED
  BY <1>1, <1>2, <1>3, <1>4, <1>5, <1>6, <1>7, <1>8, <1>9, <1>10, <1>11, <1>12 DEF OpsNext

\* A run that succeeded is never written again (SuccessStands; run_ops, RUN_IMMUTABLE): its
\* rows, its date and its status stay, whatever is executed, resumed or interrupted later.
THEOREM SucceededRunsStand == OpsSpec => SuccessStands
<1>1. IInv /\ [OpsNext]_opsVars =>
        [\A r \in DOMAIN runs : runs[r].status = "SUCCEEDED" => runs'[r] = runs[r]]_opsVars
  BY StepKeeps DEF Kept
<1>2. IInv /\ [OpsNext]_opsVars => IInv'
  BY StepKeeps
<1> QED BY <1>1, <1>2, Initially, PTL DEF OpsSpec, SuccessStands
-----------------------------------------------------------------------------
(* What default_dag() says of its steps.                                   *)

LEMMA DagSize == Len(Dag) = 18 /\ DOMAIN Dag = 1..18
  BY DEF Dag

LEMMA DagIds ==
  /\ Dag[1].id = "validate_inputs" /\ Dag[2].id = "source_refresh"
  /\ Dag[3].id = "canon_refresh" /\ Dag[4].id = "process_inbox"
  /\ Dag[5].id = "compute_deadlines" /\ Dag[6].id = "build_action_queue"
  /\ Dag[7].id = "morning_brief_v2" /\ Dag[8].id = "entitlements"
  /\ Dag[9].id = "tax_events" /\ Dag[10].id = "cash_reconciliation"
  /\ Dag[11].id = "tax_recovery" /\ Dag[12].id = "settlement_feed"
  /\ Dag[13].id = "market_claims" /\ Dag[14].id = "exception_cases"
  /\ Dag[15].id = "securities_events" /\ Dag[16].id = "alert_outbox"
  /\ Dag[17].id = "health_report" /\ Dag[18].id = "lineage_export"
  BY DEF Dag, Step

LEMMA DagDistinct == \A j, k \in 1..18 : Dag[j].id = Dag[k].id => j = k
  BY DagIds

\* A step comes after the steps it depends on.
LEMMA DagOrder ==
  \A k \in 1..18 : \A d \in Dag[k].deps : \E j \in 1..(k - 1) : d = Dag[j].id
<1> DEFINE Earlier(k) == \A d \in Dag[k].deps : \E j \in 1..(k - 1) : d = Dag[j].id
<1>1. Earlier(1) /\ Earlier(2) /\ Earlier(3) /\ Earlier(4)
  BY DagIds DEF Dag, Step
<1>2. Earlier(5) /\ Earlier(6) /\ Earlier(7) /\ Earlier(8)
  BY DagIds DEF Dag, Step
<1>3. Earlier(9) /\ Earlier(10) /\ Earlier(11) /\ Earlier(12)
  BY DagIds DEF Dag, Step
<1>4. Earlier(13) /\ Earlier(14) /\ Earlier(15)
  BY DagIds DEF Dag, Step
<1>5. Earlier(16) /\ Earlier(17) /\ Earlier(18)
  BY DagIds DEF Dag, Step
<1> HIDE DEF Earlier
<1>6. \A k \in 1..18 : Earlier(k)
  BY <1>1, <1>2, <1>3, <1>4, <1>5
<1> QED BY <1>6 DEF Earlier

\* Every step is mandatory or not, and reads and declares inputs of the run.
LEMMA DagInputs ==
  \A k \in 1..18 : /\ Dag[k].mandatory \in BOOLEAN
                   /\ Dag[k].reads.inputs \subseteq Inputs
                   /\ Dag[k].uses \subseteq Inputs
<1> DEFINE Fits(k) == /\ Dag[k].mandatory \in BOOLEAN
                      /\ Dag[k].reads.inputs \subseteq Inputs
                      /\ Dag[k].uses \subseteq Inputs
<1>1. Fits(1) /\ Fits(2) /\ Fits(3)
  BY DEF Dag, Step, Read, Inputs, ValidateInputs, SourceRefresh, CanonRefresh
<1>2. Fits(4) /\ Fits(5) /\ Fits(6)
  BY DEF Dag, Step, Read, Inputs, ProcessInbox, Deadlines, ActionQueue
<1>3. Fits(7) /\ Fits(8) /\ Fits(9)
  BY DEF Dag, Step, Read, Inputs, Brief, Entitlements, TaxEvents
<1>4. Fits(10) /\ Fits(11) /\ Fits(12)
  BY DEF Dag, Step, Read, Inputs, CashRecon, TaxRecovery, SettlementFeed
<1>5. Fits(13) /\ Fits(14) /\ Fits(15)
  BY DEF Dag, Step, Read, Inputs, MarketClaims, ExceptionCases, SecuritiesEvents
<1>6. Fits(16) /\ Fits(17) /\ Fits(18)
  BY DEF Dag, Step, Read, Inputs, AlertOutbox, HealthReport, LineageExport
<1> HIDE DEF Fits
<1>7. \A k \in 1..18 : Fits(k)
  BY <1>1, <1>2, <1>3, <1>4, <1>5, <1>6
<1> QED BY <1>7 DEF Fits

\* A pure step reads no more than what its cache key is made of: the inputs it
\* declares and the outputs of the steps it depends on.
LEMMA DagKeys ==
  \A k \in 1..18 : Dag[k].pure =>
    /\ Dag[k].reads.inputs \subseteq Dag[k].uses
    /\ Dag[k].reads.steps \subseteq Dag[k].deps \ {"validate_inputs"}
<1> DEFINE Covered(k) == Dag[k].pure =>
      /\ Dag[k].reads.inputs \subseteq Dag[k].uses
      /\ Dag[k].reads.steps \subseteq Dag[k].deps \ {"validate_inputs"}
<1>1. \A k \in {1, 2, 3, 4, 9, 11, 12, 13, 15, 16, 17, 18} : Covered(k)
  BY DEF Dag, Step
<1>2. Covered(5) /\ Covered(6) /\ Covered(7)
  BY DEF Dag, Step, Read, Deadlines, ActionQueue, Brief
<1>3. Covered(8) /\ Covered(10) /\ Covered(14)
  BY DEF Dag, Step, Read, Entitlements, CashRecon, ExceptionCases
<1> HIDE DEF Covered
<1>4. \A k \in 1..18 : Covered(k)
  BY <1>1, <1>2, <1>3
<1> QED BY <1>4 DEF Covered

\* The three steps before which the canon may still change.
LEMMA DagStart ==
  /\ ~Dag[1].pure /\ ~Dag[2].pure /\ ~Dag[3].pure
  /\ Dag[1].reads.inputs = {} /\ Dag[1].reads.steps = {}
  /\ Dag[2].reads.inputs = {"source_policy"} /\ Dag[2].reads.steps = {}
  /\ Dag[3].reads.inputs = {"source_policy", "evidence"} /\ Dag[3].reads.steps = {}
  BY DEF Dag, Step, Read, ValidateInputs, SourceRefresh, CanonRefresh

\* The alerts are derived from steps that come before the outbox.
LEMMA DagSources ==
  \A a \in Subjects : /\ Sources(a) # {}
                      /\ \A s \in Sources(a) : \E k \in 1..15 : s = Dag[k].id
  BY DagIds DEF Subjects, Sources

Ids == {Dag[k].id : k \in 1..18}

LEMMA DagCount == Cardinality(Ids) = Len(Dag)
<1> DEFINE f == [k \in 1..18 |-> Dag[k].id]
<1>1. f \in Surjection(1..18, Ids) /\ f \in Injection(1..18, Ids)
  BY DagDistinct DEF Ids, Surjection, Injection, IsInjective
<1>2. IsFiniteSet(1..18) /\ Cardinality(1..18) = 18
  <2>1. 1 \in Int /\ 18 \in Int
    OBVIOUS
  <2>2. IsFiniteSet(1..18) /\ Cardinality(1..18) = IF 1 > 18 THEN 0 ELSE 18 - 1 + 1
    BY <2>1, FS_Interval, Zenon
  <2> QED BY <2>2
<1> HIDE DEF f
<1> QED BY <1>1, <1>2, FS_Surjection, DagSize

-----------------------------------------------------------------------------
(* The books of an execution.                                              *)

Delivered == {"SUCCEEDED", "SKIPPED_UNCHANGED"}
Refused   == {"FAILED", "BLOCKED"}

\* Rows are rows of steps of the DAG.
RowsNamed == \A r \in 1..Len(runs) : DOMAIN runs[r].row \subseteq Ids

\* A run that succeeded has a row of every step, and every step delivered.
Complete == \A r \in 1..Len(runs) : runs[r].status = "SUCCEEDED" =>
  /\ DOMAIN runs[r].row = Ids
  /\ \A s \in Ids : runs[r].row[s].status \in Delivered

World == DOMAIN inputs = Inputs /\ trouble \subseteq Subjects

ContextShape == cur # 0 =>
  /\ pc \in 1..19
  /\ ctx = [ver |-> ctx.ver, outs |-> ctx.outs, trouble |-> ctx.trouble]
  /\ DOMAIN ctx.ver = Inputs
  /\ ctx.trouble \subseteq Subjects

\* The steps that have had their turn in this execution have a row of this
\* execution, and an output if they delivered, which they did only when all they
\* depend on did.
InTurn == cur # 0 =>
  /\ \A s \in DOMAIN ctx.outs : \E k \in 1..(pc - 1) : s = Dag[k].id
  /\ \A k \in 1..(pc - 1) :
       /\ Dag[k].id \in DOMAIN runs[cur].row
       /\ runs[cur].row[Dag[k].id].status \in
            IF Dag[k].id \in DOMAIN ctx.outs THEN Delivered ELSE Refused
       /\ Dag[k].id \in DOMAIN ctx.outs => Dag[k].deps \subseteq DOMAIN ctx.outs

WInv == IInv /\ RowsNamed /\ Complete /\ World /\ ContextShape /\ InTurn

LEMMA PutEffect ==
  ASSUME NEW f, NEW s, NEW v, NEW g, g = Put(f, s, v)
  PROVE  \A t \in DOMAIN g : \/ t = s /\ g[t] = v
                             \/ t \in DOMAIN f /\ g[t] = f[t]
  BY DEF Put

\* What writing a row changes in the tables.
OneRow(s, row) ==
  /\ Len(runs') = Len(runs)
  /\ \A r \in 1..Len(runs) : runs'[r].status = runs[r].status
  /\ \A r \in 1..Len(runs) \ {cur} : runs'[r] = runs[r]
  /\ DOMAIN runs'[cur].row = DOMAIN runs[cur].row \cup {s}
  /\ runs'[cur].row[s] = row
  /\ \A t \in DOMAIN runs[cur].row \ {s} : runs'[cur].row[t] = runs[cur].row[t]

LEMMA RowSet ==
  ASSUME IInv, cur # 0, NEW s, NEW row, runs' = SetRow(s, row)
  PROVE  cur \in 1..Len(runs) /\ OneRow(s, row)
<1>1. cur \in 1..Len(runs)
  BY DEF IInv, ExecutesUnfinished
<1>2. PICK q : q = SetRow(s, row)
  OBVIOUS
<1>3. /\ Len(q) = Len(runs)
      /\ \A r \in 1..Len(runs) : q[r].status = runs[r].status
      /\ \A r \in 1..Len(runs) \ {cur} : q[r] = runs[r]
      /\ q[cur].row = Put(runs[cur].row, s, row)
  BY <1>1, <1>2, SetRowTouchesOneRun DEF IInv
<1>4. /\ DOMAIN q[cur].row = DOMAIN runs[cur].row \cup {s}
      /\ q[cur].row[s] = row
      /\ \A t \in DOMAIN runs[cur].row \ {s} : q[cur].row[t] = runs[cur].row[t]
  BY <1>3 DEF Put
<1>5. runs' = q
  BY <1>2
<1> QED BY <1>1, <1>3, <1>4, <1>5 DEF OneRow

\* The rows of the runs after a row was written: no run that succeeded is touched.
LEMMA BooksKept ==
  ASSUME WInv, cur # 0, NEW s \in Ids, NEW row, runs' = SetRow(s, row)
  PROVE  RowsNamed' /\ Complete'
<1>1. cur \in 1..Len(runs) /\ OneRow(s, row)
  BY RowSet DEF WInv
<1>2. RowsNamed'
  BY <1>1 DEF OneRow, RowsNamed, WInv
<1>3. Complete'
  BY <1>1 DEF OneRow, Complete, WInv, IInv, ExecutesUnfinished
<1> QED BY <1>2, <1>3

LEMMA CurrentStep ==
  ASSUME WInv, NEW s \in Current
  PROVE  cur # 0 /\ pc \in 1..18 /\ s = Dag[pc] /\ s.id \in Ids
  BY DagSize DEF WInv, ContextShape, Current, Ids

\* The outcomes of a turn: the step has no output, it has one, the process dies.
Refuses(s) == \E row :
  /\ runs' = SetRow(s.id, row) /\ row.status \in Refused
  /\ pc' = pc + 1 /\ UNCHANGED <<cur, ctx, alert, inputs, trouble>>

Delivers(s) == \E row, out :
  /\ runs' = SetRow(s.id, row) /\ row.status \in Delivered
  /\ ~DependencyBad(s)
  /\ ctx'.outs = Put(ctx.outs, s.id, out)
  /\ ctx' = [ver |-> ctx'.ver, outs |-> ctx'.outs, trouble |-> ctx'.trouble]
  /\ DOMAIN ctx'.ver = Inputs /\ ctx'.trouble = ctx.trouble
  /\ pc' = pc + 1 /\ UNCHANGED <<cur, inputs, trouble>>

\* The dependencies of a step had their turn, so that one that is not bad has an
\* output in this execution.
LEMMA DependenciesDelivered ==
  ASSUME WInv, NEW s \in Current, ~DependencyBad(s)
  PROVE  s.deps \subseteq DOMAIN ctx.outs
<1>1. cur # 0 /\ pc \in 1..18 /\ s = Dag[pc]
  BY CurrentStep
<1>2. SUFFICES ASSUME NEW d \in s.deps PROVE d \in DOMAIN ctx.outs
  OBVIOUS
<1>3. PICK j \in 1..(pc - 1) : d = Dag[j].id
  BY <1>1, DagOrder
<1>4. /\ d \in DOMAIN runs[cur].row
      /\ runs[cur].row[d].status \in IF d \in DOMAIN ctx.outs THEN Delivered ELSE Refused
  BY <1>1, <1>3 DEF WInv, InTurn
<1>5. runs[cur].row[d].status \notin Refused
  BY <1>4 DEF DependencyBad, HasRow, RowOf, Refused
<1> QED BY <1>4, <1>5

LEMMA TurnRefused ==
  ASSUME WInv, NEW s \in Current, Refuses(s)
  PROVE  ContextShape' /\ InTurn'
<1>1. cur # 0 /\ pc \in 1..18 /\ s = Dag[pc]
  BY CurrentStep
<1>2. PICK row : /\ runs' = SetRow(s.id, row) /\ row.status \in Refused
                 /\ pc' = pc + 1 /\ cur' = cur /\ ctx' = ctx
  BY DEF Refuses
<1>3. cur \in 1..Len(runs) /\ OneRow(s.id, row)
  BY <1>1, <1>2, RowSet DEF WInv
<1>4. ContextShape'
  BY <1>1, <1>2 DEF WInv, ContextShape
<1>5. \A t \in DOMAIN ctx'.outs : \E k \in 1..(pc' - 1) : t = Dag[k].id
  BY <1>1, <1>2 DEF WInv, InTurn
<1>6. ASSUME NEW k \in 1..(pc' - 1)
      PROVE  /\ Dag[k].id \in DOMAIN runs'[cur'].row
             /\ runs'[cur'].row[Dag[k].id].status \in
                  IF Dag[k].id \in DOMAIN ctx'.outs THEN Delivered ELSE Refused
             /\ Dag[k].id \in DOMAIN ctx'.outs => Dag[k].deps \subseteq DOMAIN ctx'.outs
  <2>1. CASE k = pc
    <3>1. Dag[k].id \notin DOMAIN ctx.outs
      <4>1. \A t \in DOMAIN ctx.outs : \E j \in 1..(pc - 1) : t = Dag[j].id
        BY <1>1 DEF WInv, InTurn
      <4> QED BY <2>1, <4>1, <1>1, DagDistinct
    <3> QED BY <1>1, <1>2, <1>3, <2>1, <3>1 DEF OneRow
  <2>2. CASE k # pc
    <3>1. k \in 1..(pc - 1) /\ Dag[k].id # s.id
      BY <1>1, <1>2, <2>2, DagDistinct
    <3>2. /\ Dag[k].id \in DOMAIN runs[cur].row
          /\ runs[cur].row[Dag[k].id].status \in
               IF Dag[k].id \in DOMAIN ctx.outs THEN Delivered ELSE Refused
          /\ Dag[k].id \in DOMAIN ctx.outs => Dag[k].deps \subseteq DOMAIN ctx.outs
      BY <1>1, <3>1 DEF WInv, InTurn
    <3> QED BY <1>2, <1>3, <3>1, <3>2 DEF OneRow
  <2> QED BY <2>1, <2>2
<1>7. InTurn'
  BY <1>5, <1>6 DEF InTurn
<1> QED BY <1>4, <1>7

LEMMA TurnDelivered ==
  ASSUME WInv, NEW s \in Current, Delivers(s)
  PROVE  ContextShape' /\ InTurn'
<1>1. cur # 0 /\ pc \in 1..18 /\ s = Dag[pc]
  BY CurrentStep
<1>2. PICK row, out :
        /\ runs' = SetRow(s.id, row) /\ row.status \in Delivered
        /\ ctx'.outs = Put(ctx.outs, s.id, out)
        /\ ctx' = [ver |-> ctx'.ver, outs |-> ctx'.outs, trouble |-> ctx'.trouble]
        /\ DOMAIN ctx'.ver = Inputs /\ ctx'.trouble = ctx.trouble
        /\ pc' = pc + 1 /\ cur' = cur
  BY DEF Delivers
<1>3. cur \in 1..Len(runs) /\ OneRow(s.id, row)
  BY <1>1, <1>2, RowSet DEF WInv
<1>4. ContextShape'
  BY <1>1, <1>2 DEF WInv, ContextShape
<1>5. DOMAIN ctx'.outs = DOMAIN ctx.outs \cup {s.id}
  BY <1>2 DEF Put
<1>6. \A t \in DOMAIN ctx'.outs : \E k \in 1..(pc' - 1) : t = Dag[k].id
  <2>1. \A t \in DOMAIN ctx.outs : \E k \in 1..(pc - 1) : t = Dag[k].id
    BY <1>1 DEF WInv, InTurn
  <2> QED BY <1>1, <1>2, <1>5, <2>1
<1>7. s.deps \subseteq DOMAIN ctx.outs
  BY DependenciesDelivered DEF Delivers
<1>8. ASSUME NEW k \in 1..(pc' - 1)
      PROVE  /\ Dag[k].id \in DOMAIN runs'[cur'].row
             /\ runs'[cur'].row[Dag[k].id].status \in
                  IF Dag[k].id \in DOMAIN ctx'.outs THEN Delivered ELSE Refused
             /\ Dag[k].id \in DOMAIN ctx'.outs => Dag[k].deps \subseteq DOMAIN ctx'.outs
  <2>1. CASE k = pc
    BY <1>1, <1>2, <1>3, <1>5, <1>7, <2>1 DEF OneRow
  <2>2. CASE k # pc
    <3>1. k \in 1..(pc - 1) /\ Dag[k].id # s.id
      BY <1>1, <1>2, <2>2, DagDistinct
    <3>2. /\ Dag[k].id \in DOMAIN runs[cur].row
          /\ runs[cur].row[Dag[k].id].status \in
               IF Dag[k].id \in DOMAIN ctx.outs THEN Delivered ELSE Refused
          /\ Dag[k].id \in DOMAIN ctx.outs => Dag[k].deps \subseteq DOMAIN ctx.outs
      BY <1>1, <3>1 DEF WInv, InTurn
    <3> QED BY <1>2, <1>3, <1>5, <3>1, <3>2 DEF OneRow
  <2> QED BY <2>1, <2>2
<1>9. InTurn'
  BY <1>6, <1>8 DEF InTurn
<1> QED BY <1>4, <1>9

\* The accumulated canon takes the place of the configured one for the steps after
\* canon_refresh; nothing else of the context moves (_step_canon_refresh).
LEMMA CanonMoved ==
  ASSUME WInv, cur # 0, NEW s, NEW c, c = CanonNow(s)
  PROVE  /\ c = [ver |-> c.ver, outs |-> ctx.outs, trouble |-> ctx.trouble]
         /\ DOMAIN c.ver = Inputs
         /\ \A i \in Inputs \ {"canon"} : c.ver[i] = ctx.ver[i]
         /\ s.id # "canon_refresh" => c.ver = ctx.ver
<1>1. /\ ctx = [ver |-> ctx.ver, outs |-> ctx.outs, trouble |-> ctx.trouble]
      /\ DOMAIN ctx.ver = Inputs
  BY DEF WInv, ContextShape
<1>2. CASE c = ctx
  BY <1>1, <1>2
<1>3. ASSUME NEW v, s.id = "canon_refresh", c = [ctx EXCEPT !.ver["canon"] = v]
      PROVE  /\ c = [ver |-> c.ver, outs |-> ctx.outs, trouble |-> ctx.trouble]
             /\ DOMAIN c.ver = Inputs
             /\ \A i \in Inputs \ {"canon"} : c.ver[i] = ctx.ver[i]
  <2>1. c = [ver |-> [ctx.ver EXCEPT !["canon"] = v], outs |-> ctx.outs, trouble |-> ctx.trouble]
    BY <1>1, <1>3
  <2> QED BY <1>1, <2>1
<1> QED BY <1>2, <1>3 DEF CanonNow

LEMMA OutSet ==
  ASSUME NEW c, c = [ver |-> c.ver, outs |-> c.outs, trouble |-> c.trouble],
         NEW s, NEW out, NEW e, e = [c EXCEPT !.outs = Put(@, s, out)]
  PROVE  e = [ver |-> c.ver, outs |-> Put(c.outs, s, out), trouble |-> c.trouble]
  OBVIOUS

\* A step that is done delivers what Compute makes of the context before it.
LEMMA DoneDelivers ==
  ASSUME WInv, NEW s \in Current, Done(s)
  PROVE  /\ ctx'.outs = Put(ctx.outs, s.id, Compute(s))
         /\ ctx' = [ver |-> ctx'.ver, outs |-> ctx'.outs, trouble |-> ctx'.trouble]
         /\ DOMAIN ctx'.ver = Inputs /\ ctx'.trouble = ctx.trouble
         /\ \A i \in Inputs \ {"canon"} : ctx'.ver[i] = ctx.ver[i]
         /\ s.id # "canon_refresh" => ctx'.ver = ctx.ver
<1>1. cur # 0
  BY CurrentStep
<1>2. PICK c : c = CanonNow(s)
  OBVIOUS
<1>3. PICK out : out = Compute(s)
  OBVIOUS
<1>4. ctx' = [c EXCEPT !.outs = Put(@, s.id, out)]
  BY <1>2, <1>3 DEF Done
<1>5. /\ c = [ver |-> c.ver, outs |-> ctx.outs, trouble |-> ctx.trouble]
      /\ DOMAIN c.ver = Inputs
      /\ \A i \in Inputs \ {"canon"} : c.ver[i] = ctx.ver[i]
      /\ s.id # "canon_refresh" => c.ver = ctx.ver
  BY <1>1, <1>2, CanonMoved
<1>6. c = [ver |-> c.ver, outs |-> c.outs, trouble |-> c.trouble] /\ c.outs = ctx.outs
      /\ c.trouble = ctx.trouble
  BY <1>5
<1>7. ctx' = [ver |-> c.ver, outs |-> Put(c.outs, s.id, out), trouble |-> c.trouble]
  BY <1>4, <1>6, OutSet
<1>8. /\ ctx'.outs = Put(c.outs, s.id, out) /\ ctx'.ver = c.ver /\ ctx'.trouble = c.trouble
      /\ ctx' = [ver |-> ctx'.ver, outs |-> ctx'.outs, trouble |-> ctx'.trouble]
  <2> HIDE DEF Put
  <2> QED BY <1>7
<1> QED BY <1>3, <1>5, <1>6, <1>8

LEMMA Blocks == ASSUME NEW s, BlockStep(s) PROVE Refuses(s)
  BY DEF BlockStep, Refuses, Refused, Row, idle

LEMMA Misses == ASSUME NEW s, MissingInputs(s) PROVE Refuses(s)
  BY DEF MissingInputs, Refuses, Refused, Row, idle

LEMMA Fails == ASSUME NEW s, FailStep(s) PROVE Refuses(s)
  BY DEF FailStep, Refuses, Refused, Row, idle

LEMMA Finishes == ASSUME WInv, NEW s \in Current, FinishStep(s) PROVE Delivers(s)
<1>1. Done(s) /\ ~DependencyBad(s) /\ pc' = pc + 1 /\ UNCHANGED <<cur, inputs, trouble>>
  BY DEF FinishStep, RunStep, idle
<1>2. PICK row : runs' = SetRow(s.id, row) /\ row.status \in Delivered
  BY <1>1 DEF Done, Row, Delivered
<1> QED BY <1>1, <1>2, DoneDelivers DEF Delivers

\* A step that is skipped takes over the output of a row that succeeded with its key.
LEMMA SkipTakesOver ==
  ASSUME WInv, NEW s \in Current, SkipStep(s)
  PROVE  /\ \E r \in Donors(s) :
              /\ runs' = SetRow(s.id, Row("SKIPPED_UNCHANGED", CacheKey(s), runs[r].row[s.id].out, r))
              /\ ctx'.outs = Put(ctx.outs, s.id, runs[r].row[s.id].out)
         /\ ctx' = [ver |-> ctx'.ver, outs |-> ctx'.outs, trouble |-> ctx'.trouble]
         /\ ctx'.ver = ctx.ver /\ ctx'.trouble = ctx.trouble
<1>1. ctx = [ver |-> ctx.ver, outs |-> ctx.outs, trouble |-> ctx.trouble]
  BY CurrentStep DEF WInv, ContextShape
<1>2. PICK r \in Donors(s) :
        /\ runs' = SetRow(s.id, Row("SKIPPED_UNCHANGED", CacheKey(s), runs[r].row[s.id].out, r))
        /\ ctx' = SetOut(s.id, runs[r].row[s.id].out)
  BY DEF SkipStep
<1>3. PICK out : out = runs[r].row[s.id].out
  OBVIOUS
<1>4. ctx' = [ver |-> ctx.ver, outs |-> Put(ctx.outs, s.id, out), trouble |-> ctx.trouble]
  BY <1>1, <1>2, <1>3, OutSet DEF SetOut
<1>5. /\ ctx'.outs = Put(ctx.outs, s.id, out) /\ ctx'.ver = ctx.ver /\ ctx'.trouble = ctx.trouble
      /\ ctx' = [ver |-> ctx'.ver, outs |-> ctx'.outs, trouble |-> ctx'.trouble]
  BY <1>4
<1> QED BY <1>2, <1>3, <1>5

LEMMA Skips == ASSUME WInv, NEW s \in Current, SkipStep(s) PROVE Delivers(s)
<1>1. ~DependencyBad(s) /\ pc' = pc + 1 /\ UNCHANGED <<cur, inputs, trouble>>
  BY DEF SkipStep, idle
<1>2. /\ ctx' = [ver |-> ctx'.ver, outs |-> ctx'.outs, trouble |-> ctx'.trouble]
      /\ ctx'.ver = ctx.ver /\ ctx'.trouble = ctx.trouble
  BY SkipTakesOver
<1>3. PICK row, out :
        /\ runs' = SetRow(s.id, row) /\ row.status \in Delivered
        /\ ctx'.outs = Put(ctx.outs, s.id, out)
  <2>1. PICK r \in Donors(s) :
          /\ runs' = SetRow(s.id, Row("SKIPPED_UNCHANGED", CacheKey(s), runs[r].row[s.id].out, r))
          /\ ctx'.outs = Put(ctx.outs, s.id, runs[r].row[s.id].out)
    BY SkipTakesOver
  <2>2. Row("SKIPPED_UNCHANGED", CacheKey(s), runs[r].row[s.id].out, r).status \in Delivered
    BY DEF Row, Delivered
  <2> QED BY <2>1, <2>2
<1>4. DOMAIN ctx.ver = Inputs
  BY CurrentStep DEF WInv, ContextShape
<1> QED BY <1>1, <1>2, <1>3, <1>4 DEF Delivers

\* An execution enters with the inputs of now and no output.
LEMMA Entered ==
  ASSUME World, NEW asOf, Enter(asOf)
  PROVE  /\ pc' = 1
         /\ ctx' = [ver |-> ctx'.ver, outs |-> ctx'.outs, trouble |-> ctx'.trouble]
         /\ DOMAIN ctx'.ver = Inputs /\ DOMAIN ctx'.outs = {}
         /\ ctx'.trouble = trouble /\ ctx'.trouble \subseteq Subjects
  BY DEF Enter, World

LEMMA BooksOpened ==
  ASSUME WInv, StartRun
  PROVE  WInv'
<1>1. IInv'
  BY RunStarted DEF WInv
<1> DEFINE new == [status |-> "RUNNING", asOf |-> inputs["as_of"], row |-> <<>>]
<1>2. PICK A : runs \in Seq(A)
  BY DEF WInv, IInv, RunsShape
<1>3. /\ runs' = Append(runs, new) /\ Enter(inputs["as_of"])
      /\ UNCHANGED <<inputs, trouble>>
  BY DEF StartRun
<1>4. /\ Len(runs') = Len(runs) + 1 /\ Len(runs) \in Nat
      /\ runs'[Len(runs) + 1] = new
      /\ \A r \in 1..Len(runs) : runs'[r] = runs[r]
  <2>1. runs \in Seq(A \cup {new})
    BY <1>2
  <2> HIDE DEF new
  <2> QED BY <1>3, <2>1, AppendProperties
<1>5. new.status = "RUNNING" /\ DOMAIN new.row = {}
  OBVIOUS
<1> HIDE DEF new
<1>6. \A r \in 1..Len(runs') : r \in 1..Len(runs) \/ r = Len(runs) + 1
  BY <1>4
<1>7. RowsNamed'
  BY <1>4, <1>5, <1>6 DEF RowsNamed, WInv
<1>8. Complete'
  BY <1>4, <1>5, <1>6 DEF Complete, WInv
<1>9. World'
  BY <1>3 DEF World, WInv
<1>10. /\ pc' = 1
       /\ ctx' = [ver |-> ctx'.ver, outs |-> ctx'.outs, trouble |-> ctx'.trouble]
       /\ DOMAIN ctx'.ver = Inputs /\ DOMAIN ctx'.outs = {}
       /\ ctx'.trouble \subseteq Subjects
  BY <1>3, Entered DEF WInv
<1>11. ContextShape' /\ InTurn'
  BY <1>10 DEF ContextShape, InTurn
<1> QED BY <1>1, <1>7, <1>8, <1>9, <1>11 DEF WInv

LEMMA BooksReopened ==
  ASSUME WInv, ResumeRun
  PROVE  WInv'
<1>1. IInv'
  BY RunResumed DEF WInv
<1>2. runs' = runs /\ UNCHANGED <<inputs, trouble>>
  BY DEF ResumeRun
<1>3. PICK asOf : Enter(asOf)
  BY DEF ResumeRun
<1>4. RowsNamed' /\ Complete' /\ World'
  BY <1>2 DEF RowsNamed, Complete, World, WInv
<1>5. /\ pc' = 1
      /\ ctx' = [ver |-> ctx'.ver, outs |-> ctx'.outs, trouble |-> ctx'.trouble]
      /\ DOMAIN ctx'.ver = Inputs /\ DOMAIN ctx'.outs = {}
      /\ ctx'.trouble \subseteq Subjects
  BY <1>3, Entered DEF WInv
<1>6. ContextShape' /\ InTurn'
  BY <1>5 DEF ContextShape, InTurn
<1> QED BY <1>1, <1>4, <1>6 DEF WInv

\* A outcome SUCCEEDED says that every step delivered in this very execution: each has
\* had its turn, and none is bad.
LEMMA VerdictDelivered ==
  ASSUME WInv, cur # 0, pc = 19, Verdict = "SUCCEEDED"
  PROVE  \A k \in 1..18 : /\ Dag[k].id \in DOMAIN runs[cur].row
                          /\ runs[cur].row[Dag[k].id].status \in Delivered
                          /\ Dag[k].id \in DOMAIN ctx.outs
<1>1. ~Bad(TRUE) /\ ~Bad(FALSE)
  BY DEF Verdict
<1>2. SUFFICES ASSUME NEW k \in 1..18
               PROVE  /\ Dag[k].id \in DOMAIN runs[cur].row
                      /\ runs[cur].row[Dag[k].id].status \in Delivered
                      /\ Dag[k].id \in DOMAIN ctx.outs
  OBVIOUS
<1>3. /\ Dag[k].id \in DOMAIN runs[cur].row
      /\ runs[cur].row[Dag[k].id].status \in
           IF Dag[k].id \in DOMAIN ctx.outs THEN Delivered ELSE Refused
  <2>1. k \in 1..(pc - 1)
    OBVIOUS
  <2> QED BY <2>1 DEF WInv, InTurn
<1>4. Dag[k].mandatory = TRUE \/ Dag[k].mandatory = FALSE
  BY DagInputs
<1>5. runs[cur].row[Dag[k].id].status \notin Refused
  BY <1>1, <1>4, DagSize DEF Bad, RowOf, Refused
<1> QED BY <1>3, <1>5

\* An execution that ends SUCCEEDED leaves a run in which every step delivered
\* (run_ops).
LEMMA BooksClosed ==
  ASSUME WInv, EndRun
  PROVE  WInv'
<1>1. IInv'
  BY RunEnded DEF WInv
<1> DEFINE new == [runs[cur] EXCEPT !.status = Verdict]
<1>2. /\ runs' = [runs EXCEPT ![cur] = new] /\ cur' = 0 /\ cur # 0 /\ pc = 19
      /\ UNCHANGED <<inputs, trouble>>
  BY DagSize DEF EndRun, idle
<1>3. PICK A : runs \in Seq(A)
  BY DEF WInv, IInv, RunsShape
<1>4. cur \in 1..Len(runs)
  BY <1>2 DEF WInv, IInv, ExecutesUnfinished
<1>5. new.status = Verdict /\ new.row = runs[cur].row
  BY <1>4 DEF WInv, IInv, RunsShape, Fields
<1>6. /\ Len(runs') = Len(runs) /\ runs'[cur] = new
      /\ \A r \in 1..Len(runs) \ {cur} : runs'[r] = runs[r]
  <2>1. runs \in Seq(A \cup {new})
    BY <1>3
  <2> HIDE DEF new
  <2> QED BY <1>2, <1>4, <2>1, ExceptSeq
<1> HIDE DEF new
<1>7. RowsNamed'
  BY <1>4, <1>5, <1>6 DEF RowsNamed, WInv
<1>8. ASSUME Verdict = "SUCCEEDED"
      PROVE  /\ DOMAIN runs[cur].row = Ids
             /\ \A s \in Ids : runs[cur].row[s].status \in Delivered
  <2>2. \A k \in 1..18 : /\ Dag[k].id \in DOMAIN runs[cur].row
                         /\ runs[cur].row[Dag[k].id].status \in Delivered
    BY <1>2, <1>8, VerdictDelivered
  <2>3. DOMAIN runs[cur].row \subseteq Ids
    BY <1>4 DEF WInv, RowsNamed
  <2> QED BY <2>2, <2>3 DEF Ids
<1>9. Complete'
  BY <1>4, <1>5, <1>6, <1>8 DEF Complete, WInv
<1>10. World' /\ ContextShape' /\ InTurn'
  BY <1>2 DEF WInv, World, ContextShape, InTurn
<1> QED BY <1>1, <1>7, <1>9, <1>10 DEF WInv

LEMMA BooksInitially == OpsInit => WInv
<1> SUFFICES ASSUME OpsInit PROVE WInv
  OBVIOUS
<1>1. IInv
  BY Initially
<1>2. Len(runs) = 0 /\ cur = 0
  BY DEF OpsInit
<1>3. World
  BY DEF OpsInit, World
<1> QED BY <1>1, <1>2, <1>3 DEF WInv, RowsNamed, Complete, ContextShape, InTurn

\* Nothing of the books is written, and no execution goes on.
LEMMA BooksAside ==
  ASSUME WInv, IInv', runs' = runs, cur' = 0, World'
  PROVE  WInv'
  BY DEF WInv, RowsNamed, Complete, ContextShape, InTurn

LEMMA WStep == WInv /\ [OpsNext]_opsVars => WInv'
<1> SUFFICES ASSUME WInv, [OpsNext]_opsVars PROVE WInv'
  OBVIOUS
<1>1. IInv'
  BY StepKeeps DEF WInv
<1>2. CASE Change
  <2>1. runs' = runs /\ cur' = 0
    BY <1>2 DEF Change
  <2>2. World'
    BY <1>2 DEF Change, World, WInv
  <2> QED BY <1>1, <2>1, <2>2, BooksAside
<1>3. CASE StartRun
  BY <1>3, BooksOpened
<1>4. CASE ResumeRun
  BY <1>4, BooksReopened
<1>5. ASSUME NEW s \in Current, Refuses(s) PROVE WInv'
  <2>1. cur # 0 /\ s.id \in Ids
    BY CurrentStep
  <2>2. RowsNamed' /\ Complete'
    BY <1>5, <2>1, BooksKept DEF Refuses
  <2>3. ContextShape' /\ InTurn'
    BY <1>5, TurnRefused
  <2>4. World'
    BY <1>5 DEF Refuses, World, WInv
  <2> QED BY <1>1, <2>2, <2>3, <2>4 DEF WInv
<1>6. ASSUME NEW s \in Current, Delivers(s) PROVE WInv'
  <2>1. cur # 0 /\ s.id \in Ids
    BY CurrentStep
  <2>2. RowsNamed' /\ Complete'
    BY <1>6, <2>1, BooksKept DEF Delivers
  <2>3. ContextShape' /\ InTurn'
    BY <1>6, TurnDelivered
  <2>4. World'
    BY <1>6 DEF Delivers, World, WInv
  <2> QED BY <1>1, <2>2, <2>3, <2>4 DEF WInv
<1>7. ASSUME NEW s \in Current, CrashInStep(s) PROVE WInv'
  <2>1. cur # 0 /\ s.id \in Ids
    BY CurrentStep
  <2>2. /\ runs' = SetRow(s.id, Row("RUNNING", {}, {}, 0)) /\ cur' = 0
        /\ UNCHANGED <<inputs, trouble>>
    BY <1>7 DEF CrashInStep, idle
  <2>3. RowsNamed' /\ Complete'
    BY <2>1, <2>2, BooksKept
  <2>4. World' /\ ContextShape' /\ InTurn'
    BY <2>2 DEF WInv, World, ContextShape, InTurn
  <2> QED BY <1>1, <2>3, <2>4 DEF WInv
<1>8. CASE EndRun
  BY <1>8, BooksClosed
<1>9. CASE CrashRun
  <2>1. runs' = runs /\ cur' = 0 /\ World'
    BY <1>9 DEF CrashRun, idle, World, WInv
  <2> QED BY <1>1, <2>1, BooksAside
<1>10. CASE UNCHANGED opsVars
  BY <1>1, <1>10 DEF opsVars, WInv, RowsNamed, Complete, World, ContextShape, InTurn
<1> QED
  BY <1>2, <1>3, <1>4, <1>5, <1>6, <1>7, <1>8, <1>9, <1>10, Blocks, Misses, Fails,
     Finishes, Skips DEF OpsNext

\* No step delivers in an execution in which a step it depends on did not, and a run that
\* succeeded has a row of every step, all of them delivered (NoGap; run_ops): a row left by
\* an earlier execution of the run never passes for one of this execution, because every
\* dependency of a step has its turn before the step, and leaves a row of its own.
THEOREM RunsHaveNoGap == OpsSpec => []NoGap
<1>1. WInv => NoGap
  <2> SUFFICES ASSUME WInv PROVE NoGap
    OBVIOUS
  <2>1. ASSUME cur # 0, pc > 1, Dag[pc - 1].id \in DOMAIN ctx.outs
        PROVE  Dag[pc - 1].deps \subseteq DOMAIN ctx.outs
    <3>1. pc - 1 \in 1..(pc - 1)
      BY <2>1 DEF WInv, ContextShape
    <3> QED BY <2>1, <3>1 DEF WInv, InTurn
  <2>2. DOMAIN runs = 1..Len(runs)
    BY DEF WInv, IInv, RunsShape
  <2>3. ASSUME NEW r \in DOMAIN runs, runs[r].status = "SUCCEEDED"
        PROVE  /\ Cardinality(DOMAIN runs[r].row) = Len(Dag)
               /\ \A s \in DOMAIN runs[r].row :
                    runs[r].row[s].status \in {"SUCCEEDED", "SKIPPED_UNCHANGED"}
    BY <2>2, <2>3, DagCount DEF WInv, Complete, Delivered
  <2> QED BY <2>1, <2>3 DEF NoGap
<1> QED BY <1>1, BooksInitially, WStep, PTL DEF OpsSpec

-----------------------------------------------------------------------------
(* The step cache.                                                         *)

\* The cache key of a row that may be taken over covers all its document was made from.
KeyCovers == \A r \in 1..Len(runs) : \A k \in 1..18 :
  Dag[k].pure /\ Dag[k].id \in DOMAIN runs[r].row /\ runs[r].row[Dag[k].id].status = "SUCCEEDED" =>
    Material(runs[r].row[Dag[k].id].out) \subseteq runs[r].row[Dag[k].id].key

\* What a document of this execution may be made from.
Known == Ver(Inputs) \cup PreviousCases

\* Every document of this execution is made from what it read or took over; the canon
\* changes under it only while no document has read it.
Fresh == cur # 0 =>
  /\ \A s \in DOMAIN ctx.outs : Material(ctx.outs[s]) \subseteq Known
  /\ pc <= 3 => \A s \in DOMAIN ctx.outs :
       ctx.outs[s] \subseteq {<<"source_policy", ctx.ver["source_policy"]>>}

KInv == WInv /\ KeyCovers /\ Fresh

\* A set of runs has a latest one.
LEMMA HasLatest ==
  ASSUME NEW n \in Nat, NEW T \in SUBSET (1..n), T # {}
  PROVE  \E r \in T : \A q \in T : q <= r
<1> DEFINE left == {n - r : r \in T}
           R == {ss \in Nat \X Nat : ss[1] < ss[2]}
<1>1. left \subseteq Nat /\ left # {}
  <2>1. \A r \in T : n - r \in Nat
    OBVIOUS
  <2>2. PICK r : r \in T
    OBVIOUS
  <2>3. n - r \in left
    BY <2>2
  <2> QED BY <2>1, <2>3
<1>2. ASSUME NEW x \in Nat, NEW y \in Nat, y < x PROVE <<y, x>> \in R
  <2>1. <<y, x>> \in Nat \X Nat /\ <<y, x>>[1] < <<y, x>>[2]
    BY <1>2
  <2> QED BY <2>1, Zenon
<1>3. IsWellFoundedOn(R, Nat)
  BY NatLessThanWellFounded DEF OpToRel
<1> HIDE DEF left, R
<1>4. PICK x \in left : \A y \in left : ~(<<y, x>> \in R)
  BY <1>1, <1>3, WFMin
<1>5. \A y \in left : x <= y
  <2>1. \A y \in left : ~(y < x)
    BY <1>1, <1>2, <1>4, Zenon
  <2> QED BY <1>1, <2>1
<1>6. PICK r \in T : x = n - r
  BY DEF left
<1>7. \A q \in T : n - q \in left
  BY DEF left
<1> QED BY <1>5, <1>6, <1>7

Good == {r \in DOMAIN runs : runs[r].status = "SUCCEEDED"}
LatestOf(g) == IF g = {} THEN 0 ELSE CHOOSE r \in g : \A q \in g : q <= r

LEMMA LatestIsGood ==
  ASSUME IInv
  PROVE  LatestSuccess = LatestOf(Good) /\ (LatestOf(Good) = 0 \/ LatestOf(Good) \in Good)
<1>1. Good \in SUBSET (1..Len(runs)) /\ Len(runs) \in Nat
  BY DEF IInv, RunsShape, Good
<1>2. ASSUME Good # {} PROVE \E r \in Good : \A q \in Good : q <= r
  BY <1>1, <1>2, HasLatest
<1>3. LatestSuccess = LatestOf(Good)
  BY DEF LatestSuccess, LatestOf, Good
<1> QED BY <1>2, <1>3 DEF LatestOf

\* Writing a row of the run in execution moves neither the latest run that succeeded nor
\* its cases.
LEMMA PreviousKept ==
  ASSUME WInv, WInv', cur # 0, NEW s, NEW row, runs' = SetRow(s, row)
  PROVE  PreviousCases' = PreviousCases
<1>1. cur \in 1..Len(runs) /\ OneRow(s, row)
  BY RowSet DEF WInv
<1>2. DOMAIN runs = 1..Len(runs) /\ DOMAIN runs' = 1..Len(runs')
  BY DEF WInv, IInv, RunsShape
<1>3. runs[cur].status # "SUCCEEDED"
  BY DEF WInv, IInv, ExecutesUnfinished
<1>4. Good' = Good
  BY <1>1, <1>2 DEF Good, OneRow
<1>5. LatestOf(Good') = LatestOf(Good)
  BY <1>4
<1>6. LatestSuccess' = LatestSuccess
  <2>1. LatestSuccess' = LatestOf(Good')
    BY LatestIsGood DEF WInv, LatestSuccess, LatestOf, Good
  <2> QED BY <1>5, <2>1, LatestIsGood DEF WInv
<1>7. LatestSuccess # 0 => runs'[LatestSuccess] = runs[LatestSuccess]
  <2>1. LatestSuccess # 0 => LatestSuccess \in Good
    BY LatestIsGood DEF WInv
  <2>2. \A r \in Good : r \in 1..Len(runs) \ {cur}
    BY <1>2, <1>3 DEF Good
  <2> QED BY <1>1, <2>1, <2>2 DEF OneRow
<1> QED BY <1>6, <1>7 DEF PreviousCases

LEMMA OutsKnown ==
  ASSUME KInv, cur # 0, NEW steps
  PROVE  Material(OutsOf(steps)) \subseteq Known
<1>1. \A d \in DOMAIN ctx.outs : \A p \in ctx.outs[d] : p[1] # "cases" => p \in Known
  BY DEF KInv, Fresh, Material
<1>2. \A p \in OutsOf(steps) : \E d \in DOMAIN ctx.outs : p \in ctx.outs[d]
  BY DEF OutsOf
<1> QED BY <1>1, <1>2 DEF Material

\* What a step makes, and what its key is made of, is known to this execution.
LEMMA ComputeKnown ==
  ASSUME KInv, NEW s \in Current
  PROVE  Material(Compute(s)) \subseteq Known /\ Material(CacheKey(s)) \subseteq Known
<1>1. cur # 0 /\ pc \in 1..18 /\ s = Dag[pc]
  BY CurrentStep DEF KInv
<1>2. s.reads.inputs \subseteq Inputs /\ s.uses \subseteq Inputs
  BY <1>1, DagInputs
<1>3. Ver(s.reads.inputs) \subseteq Known /\ Ver(s.uses) \subseteq Known
  BY <1>2 DEF Ver, Known
<1>4. PreviousCases \subseteq Known
  BY DEF Known
<1>5. /\ Material(OutsOf(s.reads.steps)) \subseteq Known
      /\ Material(OutsOf(s.deps \ {"validate_inputs"})) \subseteq Known
  BY <1>1, OutsKnown
<1>6. \A p : p \in Compute(s) => \/ p \in Ver(s.reads.inputs) \/ p \in OutsOf(s.reads.steps)
                                 \/ p \in PreviousCases \/ p = <<"cases", cur>>
  BY DEF Compute
<1>7. \A p : p \in CacheKey(s) => \/ p \in Ver(s.uses) \/ p \in PreviousCases
                                  \/ p \in OutsOf(s.deps \ {"validate_inputs"})
  BY DEF CacheKey
<1>8. Material(Compute(s)) \subseteq Known
  BY <1>3, <1>4, <1>5, <1>6 DEF Material
<1>9. Material(CacheKey(s)) \subseteq Known
  BY <1>3, <1>4, <1>5, <1>7 DEF Material
<1> QED BY <1>8, <1>9

\* The key of a pure step covers what it makes (_cache_key): its declared inputs and
\* dependencies are all it reads.
LEMMA KeyIsEnough ==
  ASSUME WInv, NEW s \in Current, s.pure
  PROVE  Material(Compute(s)) \subseteq CacheKey(s)
<1>1. pc \in 1..18 /\ s = Dag[pc]
  BY CurrentStep
<1>2. s.reads.inputs \subseteq s.uses /\ s.reads.steps \subseteq s.deps \ {"validate_inputs"}
  BY <1>1, DagKeys
<1>3. Ver(s.reads.inputs) \subseteq CacheKey(s)
  BY <1>2 DEF Ver, CacheKey
<1>4. OutsOf(s.reads.steps) \subseteq CacheKey(s)
  BY <1>2 DEF OutsOf, CacheKey
<1>5. s.id = "exception_cases" => PreviousCases \subseteq CacheKey(s)
  BY DEF CacheKey
<1>6. \A p : p \in Compute(s) =>
        \/ p \in Ver(s.reads.inputs) \/ p \in OutsOf(s.reads.steps)
        \/ s.id = "exception_cases" /\ p \in PreviousCases
        \/ p = <<"cases", cur>>
  BY DEF Compute
<1> QED BY <1>3, <1>4, <1>5, <1>6 DEF Material

LEMMA KeysKept ==
  ASSUME KInv, NEW s \in Current, NEW row, runs' = SetRow(s.id, row),
         s.pure /\ row.status = "SUCCEEDED" => Material(row.out) \subseteq row.key
  PROVE  KeyCovers'
<1>1. cur # 0 /\ pc \in 1..18 /\ s = Dag[pc]
  BY CurrentStep DEF KInv
<1>2. cur \in 1..Len(runs) /\ OneRow(s.id, row)
  BY <1>1, RowSet DEF KInv, WInv
<1>3. SUFFICES ASSUME NEW r \in 1..Len(runs'), NEW k \in 1..18, Dag[k].pure,
                      Dag[k].id \in DOMAIN runs'[r].row,
                      runs'[r].row[Dag[k].id].status = "SUCCEEDED"
               PROVE  Material(runs'[r].row[Dag[k].id].out) \subseteq runs'[r].row[Dag[k].id].key
  BY DEF KeyCovers
<1>4. CASE r = cur /\ k = pc
  BY <1>1, <1>2, <1>3, <1>4 DEF OneRow
<1>5. CASE r # cur \/ k # pc
  <2>1. k # pc => Dag[k].id # s.id
    BY <1>1, DagDistinct
  <2>2. /\ Dag[k].id \in DOMAIN runs[r].row
        /\ runs'[r].row[Dag[k].id] = runs[r].row[Dag[k].id]
    BY <1>2, <1>3, <1>5, <2>1 DEF OneRow
  <2> QED BY <1>2, <1>3, <2>2 DEF KInv, KeyCovers, OneRow
<1> QED BY <1>4, <1>5

LEMMA FreshRefused ==
  ASSUME KInv, WInv', NEW s \in Current, Refuses(s)
  PROVE  Fresh'
<1>1. cur # 0 /\ pc \in 1..18
  BY CurrentStep DEF KInv
<1>2. PICK row : runs' = SetRow(s.id, row) /\ pc' = pc + 1 /\ cur' = cur /\ ctx' = ctx
  BY DEF Refuses
<1>3. PreviousCases' = PreviousCases
  BY <1>1, <1>2, PreviousKept DEF KInv
<1>4. Known' = Known
  BY <1>2, <1>3 DEF Known, Ver
<1>5. pc' <= 3 => pc <= 3
  BY <1>1, <1>2
<1> QED BY <1>1, <1>2, <1>4, <1>5 DEF KInv, Fresh

LEMMA FreshSkipped ==
  ASSUME KInv, WInv', NEW s \in Current, SkipStep(s)
  PROVE  Fresh'
<1>1. cur # 0 /\ pc \in 1..18 /\ s = Dag[pc]
  BY CurrentStep DEF KInv
<1>2. pc' = pc + 1 /\ cur' = cur /\ s.pure
  BY DEF SkipStep
<1>3. PICK r \in Donors(s) :
        /\ runs' = SetRow(s.id, Row("SKIPPED_UNCHANGED", CacheKey(s), runs[r].row[s.id].out, r))
        /\ ctx'.outs = Put(ctx.outs, s.id, runs[r].row[s.id].out)
  BY SkipTakesOver DEF KInv
<1>4. ctx'.ver = ctx.ver
  BY SkipTakesOver DEF KInv
<1>5. Known' = Known
  <2>1. PICK row : runs' = SetRow(s.id, row)
    BY <1>3
  <2>2. PreviousCases' = PreviousCases
    BY <1>1, <2>1, PreviousKept DEF KInv
  <2> QED BY <1>4, <2>2 DEF Known, Ver
<1>6. PICK out : out = runs[r].row[s.id].out
  OBVIOUS
<1>7. Material(out) \subseteq Known
  <2>1. /\ r \in DOMAIN runs /\ s.id \in DOMAIN runs[r].row
        /\ runs[r].row[s.id].status = "SUCCEEDED" /\ runs[r].row[s.id].key = CacheKey(s)
    BY DEF Donors
  <2>2. r \in 1..Len(runs)
    BY <2>1 DEF KInv, WInv, IInv, RunsShape
  <2>3. Material(out) \subseteq CacheKey(s)
    BY <1>1, <1>2, <1>6, <2>1, <2>2 DEF KInv, KeyCovers
  <2>4. Material(out) \subseteq Material(CacheKey(s))
    BY <2>3 DEF Material
  <2> QED BY <2>4, ComputeKnown
<1>8. ctx'.outs = Put(ctx.outs, s.id, out)
  BY <1>3, <1>6
<1>9. \A t \in DOMAIN ctx'.outs : \/ t = s.id /\ ctx'.outs[t] = out
                                  \/ t \in DOMAIN ctx.outs /\ ctx'.outs[t] = ctx.outs[t]
  BY <1>8, PutEffect
<1>10. \A t \in DOMAIN ctx'.outs : Material(ctx'.outs[t]) \subseteq Known
  BY <1>1, <1>7, <1>9 DEF KInv, Fresh
<1>11. ~(pc' <= 3)
  <2>1. pc # 1 /\ pc # 2
    BY <1>1, <1>2, DagStart
  <2> QED BY <1>1, <1>2, <2>1
<1> QED BY <1>5, <1>10, <1>11 DEF Fresh

LEMMA FreshFinished ==
  ASSUME KInv, WInv', NEW s \in Current, FinishStep(s)
  PROVE  Fresh'
<1>1. cur # 0 /\ pc \in 1..18 /\ s = Dag[pc]
  BY CurrentStep DEF KInv
<1>2. pc' = pc + 1 /\ cur' = cur /\ Done(s)
  BY DEF FinishStep
<1>3. /\ ctx'.outs = Put(ctx.outs, s.id, Compute(s))
      /\ \A i \in Inputs \ {"canon"} : ctx'.ver[i] = ctx.ver[i]
      /\ s.id # "canon_refresh" => ctx'.ver = ctx.ver
  BY <1>2, DoneDelivers DEF KInv
<1>4. PreviousCases' = PreviousCases
  <2>1. PICK row : runs' = SetRow(s.id, row)
    BY <1>2 DEF Done
  <2> QED BY <1>1, <2>1, PreviousKept DEF KInv
<1>5. PICK out : out = Compute(s)
  OBVIOUS
<1>6. \A t \in DOMAIN ctx'.outs : \/ t = s.id /\ ctx'.outs[t] = out
                                  \/ t \in DOMAIN ctx.outs /\ ctx'.outs[t] = ctx.outs[t]
  BY <1>3, <1>5, PutEffect
<1> DEFINE Policy == <<"source_policy", ctx.ver["source_policy"]>>
<1>7. "source_policy" \in Inputs \ {"canon"} /\ "evidence" \in Inputs \ {"canon"}
  BY DEF Inputs
<1>8. ASSUME NEW p, p \in out, pc <= 3
      PROVE  \/ p = Policy
             \/ pc = 3 /\ p = <<"evidence", ctx.ver["evidence"]>>
  <2>1. pc = 1 \/ pc = 2 \/ pc = 3
    BY <1>1, <1>8
  <2>2. s.reads.steps = {} /\ s.id # "exception_cases"
    BY <1>1, <2>1, DagStart, DagIds
  <2>3. p \in Ver(s.reads.inputs)
    BY <1>5, <1>8, <2>2 DEF Compute, OutsOf
  <2> QED BY <1>1, <2>1, <2>3, DagStart DEF Ver
<1>9. CASE s.id = "canon_refresh"
  <2>1. pc = 3
    BY <1>1, <1>9, DagIds, DagDistinct
  <2>2. \A t \in DOMAIN ctx.outs : ctx.outs[t] \subseteq {Policy}
    BY <1>1, <2>1 DEF KInv, Fresh
  <2>3. \A t \in DOMAIN ctx'.outs : \A p \in ctx'.outs[t] :
          p = Policy \/ p = <<"evidence", ctx.ver["evidence"]>>
    BY <1>6, <1>8, <2>1, <2>2
  <2>4. Policy \in Ver(Inputs)' /\ <<"evidence", ctx.ver["evidence"]>> \in Ver(Inputs)'
    BY <1>3, <1>7 DEF Ver
  <2>5. \A t \in DOMAIN ctx'.outs : Material(ctx'.outs[t]) \subseteq Known'
    BY <2>3, <2>4 DEF Material, Known
  <2>6. ~(pc' <= 3)
    BY <1>2, <2>1
  <2> QED BY <2>5, <2>6 DEF Fresh
<1>10. CASE s.id # "canon_refresh"
  <2>1. ctx'.ver = ctx.ver
    BY <1>3, <1>10
  <2>2. Known' = Known
    BY <1>4, <2>1 DEF Known, Ver
  <2>3. Material(out) \subseteq Known
    BY <1>5, ComputeKnown
  <2>4. \A t \in DOMAIN ctx'.outs : Material(ctx'.outs[t]) \subseteq Known
    BY <1>1, <1>6, <2>3 DEF KInv, Fresh
  <2>5. ASSUME pc' <= 3
        PROVE  \A t \in DOMAIN ctx'.outs : ctx'.outs[t] \subseteq {Policy}
    <3>1. pc <= 2
      BY <1>1, <1>2, <2>5
    <3>2. out \subseteq {Policy}
      BY <1>1, <1>8, <3>1
    <3>3. \A t \in DOMAIN ctx.outs : ctx.outs[t] \subseteq {Policy}
      BY <1>1, <3>1 DEF KInv, Fresh
    <3> QED BY <1>6, <3>2, <3>3
  <2> QED BY <2>1, <2>2, <2>4, <2>5 DEF Fresh
<1> QED BY <1>9, <1>10

LEMMA KStep == KInv /\ [OpsNext]_opsVars => KInv'
<1> SUFFICES ASSUME KInv, [OpsNext]_opsVars PROVE KInv'
  OBVIOUS
<1>1. WInv'
  BY WStep DEF KInv
<1>2. ASSUME runs' = runs, cur' = 0 PROVE KInv'
  BY <1>1, <1>2 DEF KInv, KeyCovers, Fresh
<1>3. CASE Change
  BY <1>2, <1>3 DEF Change
<1>4. CASE StartRun
  <2> DEFINE new == [status |-> "RUNNING", asOf |-> inputs["as_of"], row |-> <<>>]
  <2>1. PICK A : runs \in Seq(A)
    BY DEF KInv, WInv, IInv, RunsShape
  <2>2. runs' = Append(runs, new) /\ Enter(inputs["as_of"])
    BY <1>4 DEF StartRun
  <2>3. /\ Len(runs') = Len(runs) + 1 /\ Len(runs) \in Nat
        /\ runs'[Len(runs) + 1] = new
        /\ \A r \in 1..Len(runs) : runs'[r] = runs[r]
    <3>1. runs \in Seq(A \cup {new})
      BY <2>1
    <3> HIDE DEF new
    <3> QED BY <2>2, <3>1, AppendProperties
  <2>4. DOMAIN new.row = {}
    OBVIOUS
  <2> HIDE DEF new
  <2>5. \A r \in 1..Len(runs') : r \in 1..Len(runs) \/ r = Len(runs) + 1
    BY <2>3
  <2>6. KeyCovers'
    BY <2>3, <2>4, <2>5 DEF KInv, KeyCovers
  <2>7. DOMAIN ctx'.outs = {}
    BY <2>2, Entered DEF KInv, WInv
  <2> QED BY <1>1, <2>6, <2>7 DEF KInv, Fresh
<1>5. CASE ResumeRun
  <2>1. runs' = runs /\ \E asOf : Enter(asOf)
    BY <1>5 DEF ResumeRun
  <2>2. DOMAIN ctx'.outs = {}
    BY <2>1, Entered DEF KInv, WInv
  <2> QED BY <1>1, <2>1, <2>2 DEF KInv, KeyCovers, Fresh
<1>6. ASSUME NEW s \in Current, Refuses(s) PROVE KInv'
  <2>1. PICK row : runs' = SetRow(s.id, row) /\ row.status \in Refused
    BY <1>6 DEF Refuses
  <2>2. KeyCovers'
    BY <2>1, KeysKept DEF Refused
  <2> QED BY <1>1, <1>6, <2>2, FreshRefused DEF KInv
<1>7. ASSUME NEW s \in Current, SkipStep(s) PROVE KInv'
  <2>1. PICK row : runs' = SetRow(s.id, row) /\ row.status = "SKIPPED_UNCHANGED"
    BY <1>7 DEF SkipStep, Row
  <2>2. KeyCovers'
    BY <2>1, KeysKept
  <2> QED BY <1>1, <1>7, <2>2, FreshSkipped DEF KInv
<1>8. ASSUME NEW s \in Current, FinishStep(s) PROVE KInv'
  <2>1. PICK row : runs' = SetRow(s.id, row)
                   /\ (s.pure => row.out = Compute(s) /\ row.key = CacheKey(s))
    BY <1>8 DEF FinishStep, Done, Row
  <2>2. s.pure => Material(row.out) \subseteq row.key
    BY <2>1, KeyIsEnough DEF KInv
  <2>3. KeyCovers'
    BY <2>1, <2>2, KeysKept
  <2> QED BY <1>1, <1>8, <2>3, FreshFinished DEF KInv
<1>9. ASSUME NEW s \in Current, CrashInStep(s) PROVE KInv'
  <2>1. PICK row : runs' = SetRow(s.id, row) /\ row.status = "RUNNING" /\ cur' = 0
    BY <1>9 DEF CrashInStep, Row
  <2>2. KeyCovers'
    BY <2>1, KeysKept
  <2> QED BY <1>1, <2>1, <2>2 DEF KInv, Fresh
<1>10. CASE EndRun
  <2> DEFINE new == [runs[cur] EXCEPT !.status = Verdict]
  <2>1. runs' = [runs EXCEPT ![cur] = new] /\ cur' = 0 /\ cur # 0
    BY <1>10 DEF EndRun
  <2>2. PICK A : runs \in Seq(A)
    BY DEF KInv, WInv, IInv, RunsShape
  <2>3. cur \in 1..Len(runs)
    BY <2>1 DEF KInv, WInv, IInv, ExecutesUnfinished
  <2>4. new.row = runs[cur].row
    BY <2>3 DEF KInv, WInv, IInv, RunsShape, Fields
  <2>5. /\ Len(runs') = Len(runs) /\ runs'[cur] = new
        /\ \A r \in 1..Len(runs) \ {cur} : runs'[r] = runs[r]
    <3>1. runs \in Seq(A \cup {new})
      BY <2>2
    <3> HIDE DEF new
    <3> QED BY <2>1, <2>3, <3>1, ExceptSeq
  <2> HIDE DEF new
  <2>6. \A r \in 1..Len(runs) : runs'[r].row = runs[r].row
    BY <2>4, <2>5
  <2>7. KeyCovers'
    BY <2>5, <2>6 DEF KInv, KeyCovers
  <2> QED BY <1>1, <2>1, <2>7 DEF KInv, Fresh
<1>11. CASE CrashRun
  BY <1>2, <1>11 DEF CrashRun
<1>12. CASE UNCHANGED opsVars
  <2>1. Known' = Known
    BY <1>12 DEF opsVars, Known, Ver, PreviousCases, LatestSuccess
  <2> QED BY <1>1, <1>12, <2>1 DEF opsVars, KInv, KeyCovers, Fresh
<1> QED
  BY <1>3, <1>4, <1>5, <1>6, <1>7, <1>8, <1>9, <1>10, <1>11, <1>12, Blocks, Misses, Fails
     DEF OpsNext

\* A document the run holds, computed or taken over from an earlier run, is made from the
\* inputs, configuration and earlier cases of this very execution (CacheSound; _cache_key,
\* find_cached_step), whatever changed between two executions: every pure step declares all
\* it reads, and the canon is replaced before any step has read it.
THEOREM CacheIsSound == OpsSpec => []CacheSound
<1>1. OpsInit => KInv
  <2> SUFFICES ASSUME OpsInit PROVE KInv
    OBVIOUS
  <2>1. Len(runs) = 0 /\ cur = 0
    BY DEF OpsInit
  <2> QED BY <2>1, BooksInitially DEF KInv, KeyCovers, Fresh
<1>2. KInv => CacheSound
  BY DEF KInv, Fresh, Known, CacheSound
<1> QED BY <1>1, <1>2, KStep, PTL DEF OpsSpec

-----------------------------------------------------------------------------
(* The alerts of a run.                                                    *)

\* Once the outbox was written from all its sources, exactly the alerts of what is wrong
\* are open.
Told == cur # 0 /\ "alert_outbox" \in DOMAIN ctx.outs
        /\ (\A a \in Subjects : Sources(a) \subseteq DOMAIN ctx.outs) =>
  \A a \in Subjects : alert[a] = "OPEN" <=> a \in ctx.trouble

AInv == WInv /\ Told

LEMMA DagOutbox == ~Dag[16].pure
  BY DEF Dag, Step

\* Categories are shared both ways.
LEMMA SameCategory ==
  ASSUME NEW a \in Subjects, NEW b \in Subjects, a \in Category(b)
  PROVE  b \in Category(a)
  BY DEF Subjects, Category

LEMMA OwnCategory == ASSUME NEW a \in Subjects PROVE a \in Category(a)
  BY DEF Subjects, Category

\* The outbox, once all sources delivered, holds open what is wrong and nothing else
\* (_step_alert_outbox, apply_alerts).
LEMMA OutboxTells ==
  ASSUME WInv, cur # 0, \A a \in Subjects : Sources(a) \subseteq DOMAIN ctx.outs,
         NEW a \in Subjects
  PROVE  Outbox[a] = "OPEN" <=> a \in ctx.trouble
<1>1. \A b \in Subjects : Sources(b) \cap DOMAIN ctx.outs # {}
  BY DagSources
<1>2. Candidates = ctx.trouble
  BY <1>1 DEF Candidates, WInv, ContextShape
<1>3. a \in Evaluated
  BY <1>1, OwnCategory DEF Evaluated
<1>4. Outbox[a] = IF a \in ctx.trouble THEN "OPEN"
                  ELSE IF alert[a] = "OPEN" THEN "CLEARED" ELSE alert[a]
  BY <1>2, <1>3 DEF Outbox
<1> QED BY <1>4

\* A step other than the outbox leaves it told: none of its sources comes after it.
LEMMA ToldKept ==
  ASSUME AInv, NEW s \in Current, Delivers(s), s.id # "alert_outbox", alert' = alert
  PROVE  Told'
<1>1. cur # 0 /\ pc \in 1..18 /\ s = Dag[pc]
  BY CurrentStep DEF AInv
<1>2. /\ DOMAIN ctx'.outs = DOMAIN ctx.outs \cup {s.id}
      /\ ctx'.trouble = ctx.trouble /\ cur' = cur
  BY DEF Delivers, Put
<1>3. SUFFICES ASSUME "alert_outbox" \in DOMAIN ctx'.outs,
                      \A a \in Subjects : Sources(a) \subseteq DOMAIN ctx'.outs
               PROVE  \A a \in Subjects : alert'[a] = "OPEN" <=> a \in ctx'.trouble
  BY DEF Told
<1>4. "alert_outbox" \in DOMAIN ctx.outs
  BY <1>2, <1>3
<1>5. PICK j \in 1..(pc - 1) : "alert_outbox" = Dag[j].id
  BY <1>1, <1>4 DEF AInv, WInv, InTurn
<1>6. j = 16
  BY <1>1, <1>5, DagIds, DagDistinct
<1>7. \A a \in Subjects : s.id \notin Sources(a)
  <2>1. \A k \in 1..15 : Dag[k].id # s.id
    BY <1>1, <1>5, <1>6, DagDistinct
  <2> QED BY <2>1, DagSources
<1>8. \A a \in Subjects : Sources(a) \subseteq DOMAIN ctx.outs
  BY <1>2, <1>3, <1>7
<1> QED BY <1>1, <1>2, <1>4, <1>8 DEF AInv, Told

LEMMA ToldNow ==
  ASSUME AInv, NEW s \in Current, FinishStep(s), s.id = "alert_outbox"
  PROVE  Told'
<1>1. cur # 0 /\ pc \in 1..18 /\ s = Dag[pc]
  BY CurrentStep DEF AInv
<1>2. pc = 16
  BY <1>1, DagIds, DagDistinct
<1>3. alert' = Outbox
  BY DEF FinishStep, Done
<1>4. DOMAIN ctx'.outs = DOMAIN ctx.outs \cup {s.id} /\ ctx'.trouble = ctx.trouble
  BY Finishes DEF AInv, Delivers, Put
<1>5. ASSUME \A a \in Subjects : Sources(a) \subseteq DOMAIN ctx'.outs
      PROVE  \A a \in Subjects : alert'[a] = "OPEN" <=> a \in ctx'.trouble
  <2>1. \A a \in Subjects : s.id \notin Sources(a)
    <3>1. \A k \in 1..15 : Dag[k].id # s.id
      BY <1>1, <1>2, DagDistinct
    <3> QED BY <3>1, DagSources
  <2>2. \A a \in Subjects : Sources(a) \subseteq DOMAIN ctx.outs
    BY <1>4, <1>5, <2>1
  <2>3. \A a \in Subjects : Outbox[a] = "OPEN" <=> a \in ctx.trouble
    BY <1>1, <2>2, OutboxTells DEF AInv
  <2> QED BY <1>3, <1>4, <2>3
<1> QED BY <1>5 DEF Told

\* What a step does to the alerts.
Follows ==
  /\ \A a \in Subjects : alert[a] = "OPEN" /\ alert'[a] = "CLEARED" =>
       \E s \in UNION {Sources(b) : b \in Category(a)} :
         RowOf(s).status \in {"SUCCEEDED", "SKIPPED_UNCHANGED"}
  /\ cur # 0 /\ cur' = 0 /\ runs'[cur].status = "SUCCEEDED" =>
       \A a \in Subjects : alert[a] = "OPEN" <=> a \in ctx.trouble

\* An alert is cleared for a category of which a step delivered in this execution.
LEMMA ClearedBySource ==
  ASSUME WInv, cur # 0, NEW a \in Subjects, alert[a] = "OPEN", Outbox[a] = "CLEARED"
  PROVE  \E s \in UNION {Sources(b) : b \in Category(a)} :
           RowOf(s).status \in {"SUCCEEDED", "SKIPPED_UNCHANGED"}
<1>1. a \in Evaluated
  BY DEF Outbox
<1>2. PICK b \in Subjects : Sources(b) \cap DOMAIN ctx.outs # {} /\ a \in Category(b)
  BY <1>1 DEF Evaluated
<1>3. b \in Category(a)
  BY <1>2, SameCategory
<1>4. PICK s \in Sources(b) : s \in DOMAIN ctx.outs
  BY <1>2
<1>5. PICK k \in 1..(pc - 1) : s = Dag[k].id
  BY <1>4 DEF WInv, InTurn
<1>6. runs[cur].row[s].status \in Delivered
  BY <1>4, <1>5 DEF WInv, InTurn
<1> QED BY <1>3, <1>4, <1>6 DEF RowOf, Delivered

LEMMA AStep == AInv /\ [OpsNext]_opsVars => AInv' /\ (Follows \/ UNCHANGED opsVars)
<1> SUFFICES ASSUME AInv, [OpsNext]_opsVars PROVE AInv' /\ (Follows \/ UNCHANGED opsVars)
  OBVIOUS
<1>1. WInv'
  BY WStep DEF AInv
<1>2. ASSUME alert' = alert, cur' = 0, cur = 0 PROVE AInv' /\ Follows
  BY <1>1, <1>2 DEF AInv, Told, Follows
<1>3. CASE Change
  BY <1>2, <1>3 DEF Change
<1>4. ASSUME NEW asOf, Enter(asOf), alert' = alert, cur = 0 PROVE AInv' /\ Follows
  <2>1. DOMAIN ctx'.outs = {}
    BY <1>4, Entered DEF AInv, WInv
  <2> QED BY <1>1, <1>4, <2>1 DEF AInv, Told, Follows
<1>5. CASE StartRun
  BY <1>4, <1>5 DEF StartRun
<1>6. CASE ResumeRun
  BY <1>4, <1>6 DEF ResumeRun
<1>7. ASSUME NEW s \in Current, Refuses(s) PROVE AInv' /\ Follows
  BY <1>1, <1>7, CurrentStep DEF AInv, Told, Follows, Refuses
<1>8. ASSUME NEW s \in Current, SkipStep(s) PROVE AInv' /\ Follows
  <2>1. cur # 0 /\ pc \in 1..18 /\ s = Dag[pc] /\ s.pure /\ alert' = alert /\ cur' = cur
    BY <1>8, CurrentStep DEF AInv, SkipStep
  <2>2. s.id # "alert_outbox"
    BY <2>1, DagIds, DagDistinct, DagOutbox
  <2>3. Told'
    BY <1>8, <2>1, <2>2, Skips, ToldKept DEF AInv
  <2> QED BY <1>1, <2>1, <2>3 DEF AInv, Follows
<1>9. ASSUME NEW s \in Current, FinishStep(s) PROVE AInv' /\ Follows
  <2>1. cur # 0 /\ cur' = cur
    BY <1>9, CurrentStep DEF AInv, FinishStep
  <2>2. CASE s.id = "alert_outbox"
    <3>1. alert' = Outbox
      BY <1>9, <2>2 DEF FinishStep, Done
    <3>2. Told'
      BY <1>9, <2>2, ToldNow
    <3>3. Follows
      BY <2>1, <3>1, ClearedBySource DEF AInv, Follows
    <3> QED BY <1>1, <3>2, <3>3 DEF AInv
  <2>3. CASE s.id # "alert_outbox"
    <3>1. alert' = alert
      BY <1>9, <2>3 DEF FinishStep, Done
    <3>2. Told'
      BY <1>9, <2>3, <3>1, Finishes, ToldKept DEF AInv
    <3> QED BY <1>1, <2>1, <3>1, <3>2 DEF AInv, Follows
  <2> QED BY <2>2, <2>3
<1>10. ASSUME alert' = alert, cur # 0, cur' = 0,
              \A r \in 1..Len(runs) : runs'[r].status = runs[r].status
       PROVE  AInv' /\ Follows
  <2>1. cur \in 1..Len(runs) /\ runs[cur].status # "SUCCEEDED"
    BY <1>10 DEF AInv, WInv, IInv, ExecutesUnfinished
  <2> QED BY <1>1, <1>10, <2>1 DEF AInv, Told, Follows
<1>11. ASSUME NEW s \in Current, CrashInStep(s) PROVE AInv' /\ Follows
  <2>1. cur # 0 /\ cur' = 0 /\ alert' = alert
    BY <1>11, CurrentStep DEF AInv, CrashInStep
  <2>2. \A r \in 1..Len(runs) : runs'[r].status = runs[r].status
    BY <1>11, <2>1, RowSet DEF AInv, WInv, CrashInStep, OneRow
  <2> QED BY <1>10, <2>1, <2>2
<1>12. CASE EndRun
  <2>1. cur # 0 /\ cur' = 0 /\ pc = 19 /\ alert' = alert
    BY <1>12, DagSize DEF EndRun
  <2>2. runs'[cur].status = Verdict
    <3>1. cur \in 1..Len(runs) /\ runs' = [runs EXCEPT ![cur].status = Verdict]
      BY <1>12, <2>1 DEF EndRun, AInv, WInv, IInv, ExecutesUnfinished
    <3>2. DOMAIN runs = 1..Len(runs) /\ DOMAIN runs[cur] = Fields
      BY <3>1 DEF AInv, WInv, IInv, RunsShape
    <3> QED BY <3>1, <3>2 DEF Fields
  <2>3. ASSUME Verdict = "SUCCEEDED"
        PROVE  \A a \in Subjects : alert[a] = "OPEN" <=> a \in ctx.trouble
    <3>1. \A k \in 1..18 : Dag[k].id \in DOMAIN ctx.outs
      BY <2>1, <2>3, VerdictDelivered DEF AInv
    <3>2. "alert_outbox" \in DOMAIN ctx.outs
      BY <3>1, DagIds
    <3>3. \A a \in Subjects : Sources(a) \subseteq DOMAIN ctx.outs
      BY <3>1, DagSources
    <3> QED BY <2>1, <3>2, <3>3 DEF AInv, Told
  <2>4. Follows
    BY <2>1, <2>2, <2>3 DEF Follows
  <2> QED BY <1>1, <2>1, <2>4 DEF AInv, Told
<1>13. CASE CrashRun
  BY <1>10, <1>13 DEF CrashRun
<1>14. CASE UNCHANGED opsVars
  BY <1>1, <1>14 DEF opsVars, AInv, Told
<1> QED
  BY <1>3, <1>5, <1>6, <1>7, <1>8, <1>9, <1>11, <1>12, <1>13, <1>14, Blocks, Misses, Fails
     DEF OpsNext

\* The alerts follow the runs (AlertsFollowRuns; _step_alert_outbox, apply_alerts): an open
\* alert is cleared only in an execution in which a step that feeds its category delivered,
\* and a run succeeds, resumed or not, only when exactly the alerts of what is wrong are open.
THEOREM AlertsDoFollow == OpsSpec => AlertsFollowRuns
<1>1. OpsInit => AInv
  BY BooksInitially DEF OpsInit, AInv, Told
<1>2. AInv /\ [OpsNext]_opsVars => AInv'
  BY AStep
<1>3. AInv /\ [OpsNext]_opsVars => [Follows]_opsVars
  BY AStep
<1> QED BY <1>1, <1>2, <1>3, PTL DEF OpsSpec, AlertsFollowRuns, Follows

-----------------------------------------------------------------------------
(* The types.                                                              *)

\* Every run and every row has a status of its table.
Statuses ==
  \A r \in 1..Len(runs) :
    /\ runs[r].status \in RunStatus
    /\ \A s \in DOMAIN runs[r].row : runs[r].row[s].status \in StepStatus

WorldTyped ==
  /\ \A i \in Inputs : inputs[i] \in Versions(i)
  /\ alert \in [Subjects -> {"none", "OPEN", "CLEARED"}]
  /\ pc \in 1..19 /\ (cur = 0 => pc = 1)
  /\ resumes \in 0..MaxResumes /\ faults \in 0..OpsFaults /\ changes \in 0..MaxChanges

TInv == WInv /\ Statuses /\ WorldTyped

\* A row is written with a status of a step.
LEMMA StatusWritten ==
  ASSUME WInv, Statuses, cur # 0, NEW s, NEW row, row.status \in StepStatus, runs' = SetRow(s, row)
  PROVE  Statuses'
<1>1. cur \in 1..Len(runs) /\ OneRow(s, row)
  BY RowSet DEF WInv
<1> QED BY <1>1 DEF OneRow, Statuses

\* The counters of a step: a step fails or tries again within the bound.
LEMMA StepCounted ==
  ASSUME WorldTyped, NEW s, NEW n \in 0..1, RunStep(s, n)
  PROVE  faults' \in 0..OpsFaults
  BY OpsAssumption DEF WorldTyped, RunStep

LEMMA TypesStart == OpsInit => TInv
<1> SUFFICES ASSUME OpsInit PROVE TInv
  OBVIOUS
<1>1. Statuses
  BY DEF OpsInit, Statuses
<1>2. WorldTyped
  BY OpsAssumption DEF OpsInit, WorldTyped, Versions, MayLack
<1> QED BY <1>1, <1>2, BooksInitially DEF TInv

LEMMA TypesKept == TInv /\ [OpsNext]_opsVars => TInv'
<1> SUFFICES ASSUME TInv, [OpsNext]_opsVars PROVE TInv'
  OBVIOUS
<1>1. WInv'
  BY WStep DEF TInv
<1>2. CASE Change
  <2>1. Statuses'
    BY <1>2 DEF Change, TInv, Statuses
  <2>2. \A i \in Inputs : inputs'[i] \in Versions(i)
    BY <1>2 DEF Change, TInv, WInv, World, WorldTyped
  <2>3. WorldTyped'
    BY <1>2, <2>2, OpsAssumption DEF Change, TInv, WorldTyped
  <2> QED BY <1>1, <2>1, <2>3 DEF TInv
<1>3. CASE StartRun
  <2> DEFINE new == [status |-> "RUNNING", asOf |-> inputs["as_of"], row |-> <<>>]
  <2>1. PICK A : runs \in Seq(A)
    BY DEF TInv, WInv, IInv, RunsShape
  <2>2. /\ Len(runs') = Len(runs) + 1 /\ Len(runs) \in Nat
        /\ runs'[Len(runs) + 1] = new
        /\ \A r \in 1..Len(runs) : runs'[r] = runs[r]
    <3>1. runs \in Seq(A \cup {new}) /\ runs' = Append(runs, new)
      BY <1>3, <2>1 DEF StartRun
    <3> HIDE DEF new
    <3> QED BY <3>1, AppendProperties
  <2>3. new.status \in RunStatus /\ DOMAIN new.row = {}
    BY DEF RunStatus
  <2> HIDE DEF new
  <2>4. \A r \in 1..Len(runs') : r \in 1..Len(runs) \/ r = Len(runs) + 1
    BY <2>2
  <2>5. Statuses'
    BY <2>2, <2>3, <2>4 DEF TInv, Statuses
  <2>6. cur' # 0
    BY <1>3, <2>2 DEF StartRun
  <2>7. WorldTyped'
    BY <1>3, <2>6 DEF StartRun, Enter, TInv, WorldTyped
  <2> QED BY <1>1, <2>5, <2>7 DEF TInv
<1>4. CASE ResumeRun
  <2>1. Statuses'
    BY <1>4 DEF ResumeRun, TInv, Statuses
  <2>2. pc' = 1
    BY <1>4 DEF ResumeRun, Enter
  <2>3. WorldTyped'
    BY <1>4, <2>2, OpsAssumption DEF ResumeRun, TInv, WorldTyped
  <2> QED BY <1>1, <2>1, <2>3 DEF TInv
<1>5. ASSUME NEW s \in Current, Refuses(s), alert' = alert, UNCHANGED <<resumes, changes>>,
             faults' \in 0..OpsFaults
      PROVE  TInv'
  <2>1. cur # 0 /\ pc \in 1..18 /\ cur' = cur /\ pc' = pc + 1
    BY <1>5, CurrentStep DEF TInv, Refuses
  <2>2. PICK row : runs' = SetRow(s.id, row) /\ row.status \in Refused
    BY <1>5 DEF Refuses
  <2>3. Statuses'
    BY <2>1, <2>2, StatusWritten DEF TInv, Refused, StepStatus
  <2>4. WorldTyped'
    BY <1>5, <2>1 DEF Refuses, TInv, WorldTyped
  <2> QED BY <1>1, <2>3, <2>4 DEF TInv
<1>6. ASSUME NEW s \in Current, Delivers(s), alert' \in {alert, Outbox},
             UNCHANGED <<resumes, changes>>, faults' \in 0..OpsFaults
      PROVE  TInv'
  <2>1. cur # 0 /\ pc \in 1..18 /\ cur' = cur /\ pc' = pc + 1
    BY <1>6, CurrentStep DEF TInv, Delivers
  <2>2. PICK row : runs' = SetRow(s.id, row) /\ row.status \in Delivered
    BY <1>6 DEF Delivers
  <2>3. Statuses'
    BY <2>1, <2>2, StatusWritten DEF TInv, Delivered, StepStatus
  <2>4. alert' \in [Subjects -> {"none", "OPEN", "CLEARED"}]
    BY <1>6 DEF Outbox, TInv, WorldTyped
  <2>5. WorldTyped'
    BY <1>6, <2>1, <2>4 DEF Delivers, TInv, WorldTyped
  <2> QED BY <1>1, <2>3, <2>5 DEF TInv
<1>7. ASSUME NEW s \in Current, CrashInStep(s) PROVE TInv'
  <2>1. cur # 0
    BY CurrentStep DEF TInv
  <2>2. /\ runs' = SetRow(s.id, Row("RUNNING", {}, {}, 0)) /\ cur' = 0 /\ pc' = 1
        /\ UNCHANGED <<inputs, alert, resumes, changes>>
    BY <1>7 DEF CrashInStep, idle
  <2>3. Statuses'
    BY <2>1, <2>2, StatusWritten DEF TInv, Row, StepStatus
  <2>4. faults' \in 0..OpsFaults
    BY <1>7, StepCounted DEF CrashInStep, TInv
  <2>5. WorldTyped'
    BY <2>2, <2>4 DEF TInv, WorldTyped
  <2> QED BY <1>1, <2>3, <2>5 DEF TInv
<1>8. CASE EndRun
  <2>1. PICK outcome \in RunStatus : runs' = [runs EXCEPT ![cur].status = outcome]
    BY <1>8 DEF EndRun, Verdict, RunStatus
  <2>2. cur \in 1..Len(runs) /\ DOMAIN runs = 1..Len(runs) /\ DOMAIN runs[cur] = Fields
    BY <1>8 DEF EndRun, TInv, WInv, IInv, RunsShape, ExecutesUnfinished
  <2>3. /\ Len(runs') = Len(runs) /\ \A r \in 1..Len(runs) \ {cur} : runs'[r] = runs[r]
        /\ runs'[cur] = [runs[cur] EXCEPT !.status = outcome]
    BY <2>1, <2>2 DEF TInv, WInv, IInv, RunsShape
  <2>4. runs'[cur].status = outcome /\ runs'[cur].row = runs[cur].row
    BY <2>2, <2>3 DEF Fields
  <2>5. Statuses'
    BY <2>2, <2>3, <2>4 DEF TInv, Statuses
  <2>6. WorldTyped'
    BY <1>8 DEF EndRun, idle, TInv, WorldTyped
  <2> QED BY <1>1, <2>5, <2>6 DEF TInv
<1>9. CASE CrashRun
  <2>1. Statuses'
    BY <1>9 DEF CrashRun, TInv, Statuses
  <2>2. WorldTyped'
    BY <1>9, OpsAssumption DEF CrashRun, idle, TInv, WorldTyped
  <2> QED BY <1>1, <2>1, <2>2 DEF TInv
<1>10. CASE UNCHANGED opsVars
  BY <1>1, <1>10 DEF opsVars, TInv, Statuses, WorldTyped
<1>11. ASSUME NEW s \in Current,
              BlockStep(s) \/ SkipStep(s) \/ FinishStep(s) \/ MissingInputs(s) \/ FailStep(s)
       PROVE  /\ faults' \in 0..OpsFaults /\ UNCHANGED <<resumes, changes>>
              /\ alert' = alert \/ (FinishStep(s) /\ alert' = Outbox)
  <2>1. CASE BlockStep(s)
    BY <2>1 DEF BlockStep, idle, TInv, WorldTyped
  <2>2. CASE SkipStep(s)
    BY <2>2 DEF SkipStep, idle, TInv, WorldTyped
  <2>3. CASE FinishStep(s)
    BY <2>3, StepCounted DEF FinishStep, Done, idle, TInv
  <2>4. CASE MissingInputs(s)
    BY <2>4, StepCounted DEF MissingInputs, idle, TInv
  <2>5. CASE FailStep(s)
    BY <2>5, StepCounted DEF FailStep, idle, TInv
  <2> QED BY <1>11, <2>1, <2>2, <2>3, <2>4, <2>5
<1>12. ASSUME NEW s \in Current, BlockStep(s) \/ MissingInputs(s) \/ FailStep(s) PROVE TInv'
  <2>1. Refuses(s)
    BY <1>12, Blocks, Misses, Fails
  <2>2. alert' = alert
    BY <1>12 DEF BlockStep, MissingInputs, FailStep
  <2> QED BY <1>5, <1>11, <1>12, <2>1, <2>2
<1>13. ASSUME NEW s \in Current, SkipStep(s) \/ FinishStep(s) PROVE TInv'
  <2>1. Delivers(s)
    BY <1>13, Skips, Finishes DEF TInv
  <2> QED BY <1>6, <1>11, <1>13, <2>1
<1> QED
  BY <1>2, <1>3, <1>4, <1>7, <1>8, <1>9, <1>10, <1>12, <1>13 DEF OpsNext

\* What the tables of a run and the outbox may be (OpsTypeOK; ops_state.py).
LEMMA OpsTyped == OpsSpec => []OpsTypeOK
<1>1. TInv => OpsTypeOK
  <2> SUFFICES ASSUME TInv PROVE OpsTypeOK
    OBVIOUS
  <2>1. DOMAIN runs = 1..Len(runs) /\ cur \in 0..Len(runs)
    BY DEF TInv, WInv, IInv, RunsShape, ExecutesUnfinished
  <2>2. \A r \in DOMAIN runs :
          /\ runs[r].status \in RunStatus
          /\ {runs[r].row[s].status : s \in DOMAIN runs[r].row} \subseteq StepStatus
    BY <2>1 DEF TInv, Statuses
  <2> QED BY <2>1, <2>2, DagSize DEF TInv, WInv, World, WorldTyped, OpsTypeOK
<1> QED BY <1>1, TypesStart, TypesKept, PTL DEF OpsSpec

-----------------------------------------------------------------------------
(* The machines of the operation.                                          *)

\* Whichever machine a behaviour runs, of the variables of each it is a behaviour of that
\* machine: the others stand still (MCOperation).
THEOREM OperationIsItsParts ==
  OperationSpec => /\ SftpSpec /\ MqSpec /\ PollSpec /\ InboxSpec /\ SourcesSpec
                   /\ IdentitySpec /\ OpsSpec
<1>1. Init => /\ SftpInit /\ MqInit /\ PollInit /\ InboxInit /\ SourcesInit
              /\ IdentityInit /\ OpsInit
  BY DEF Init
<1>2. [Next]_operationVars =>
        /\ [SftpNext]_sftpVars /\ [MqNext]_mqVars /\ [PollNext]_pollVars
        /\ [InboxNext]_inboxVars /\ [SourcesNext]_sourceVars
        /\ [IdentityNext]_identityVars /\ [OpsNext]_opsVars
  BY Zenon DEF Next, operationVars
<1> QED
  BY <1>1, <1>2, PTL DEF OperationSpec, SftpSpec, MqSpec, PollSpec, InboxSpec, SourcesSpec,
     IdentitySpec, OpsSpec

\* Every variable of every machine keeps its type (TypeOK).
THEOREM OperationTyped == OperationSpec => []TypeOK
<1>1. SftpTypeOK /\ MqTypeOK /\ PollTypeOK /\ InboxTypeOK /\ SourcesTypeOK /\ IdentityTypeOK
        /\ OpsTypeOK => TypeOK
  BY DEF TypeOK
<1>2. OperationSpec => /\ []SftpTypeOK /\ []MqTypeOK /\ []PollTypeOK /\ []InboxTypeOK
                       /\ []SourcesTypeOK /\ []IdentityTypeOK /\ []OpsTypeOK
  BY OperationIsItsParts, EdgesAssumption, SftpTyped, MqTyped, PollTyped, InboxTyped,
     SourcesTyped, IdentityTyped, OpsTyped DEF EdgesAssumption
<1> QED BY <1>1, <1>2, PTL

\* All that is checked of the operation at once, for whichever machine runs.
THEOREM OperationStands ==
  OperationSpec => /\ []HandoffTruthful /\ []PollKeepsEvidence /\ []MeaningOnce
                   /\ []NoneLeftBehind /\ []CanonOfEvidence /\ []CacheSound /\ []NoGap
                   /\ SuccessStands /\ AlertsFollowRuns /\ IdentityStands
BY OperationIsItsParts, EdgesAssumption, LedgerTellsBoundary, NoReceiptIsLost,
   MeaningProcessedOnce, NothingIsLeftBehind, CanonIsOfEvidence, CacheIsSound, RunsHaveNoGap,
   SucceededRunsStand, AlertsDoFollow, EventsStand DEF EdgesAssumption
=============================================================================
