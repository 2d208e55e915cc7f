------------------------------- MODULE OpsRun -------------------------------
(***************************************************************************)
(* The operational run (src/ca_es/ops_dag.py): run_ops walks default_dag() *)
(* in order, skips a pure step whose cache key is known, executes the      *)
(* others, and commits one row per step.  A run that did not succeed can   *)
(* be resumed; the inputs may have changed by then.                        *)
(*                                                                         *)
(* A document is modelled by what it was made from: the set of             *)
(* <<input, version>> pairs it depends on.  Its semantic hash tells two    *)
(* documents apart exactly when these sets differ.                         *)
(***************************************************************************)
EXTENDS Naturals, Sequences, FiniteSets

CONSTANTS MaxRuns,     \* bound: runs
          MaxResumes,  \* bound: executions that resume a run
          OpsFaults,   \* bound: steps that raise, lost artifacts and crashes
          MaxChanges   \* bound: changes of the world between executions

ASSUME OpsAssumption ==
  /\ MaxRuns \in Nat \ {0} /\ MaxResumes \in Nat
  /\ OpsFaults \in Nat /\ MaxChanges \in Nat

----------------------------------------------------------------------------
(* What the steps read.                                                    *)

\* "deadlines" stands for deadline_rules and calendars, "queue" and "scope"
\* for the config sections action_queue and reconciliation, "evidence" for the
\* accumulated source evidence, "inbox" for the processed messages, "claims"
\* for the rules, profiles and transactions of the tax and claim branches.
Inputs == {"canon", "source_policy", "positions", "cash_movements", "deadlines",
           "queue", "scope", "as_of", "evidence", "inbox", "claims"}

\* Version 0 of an input that may be absent: not configured.
MayLack == {"positions", "cash_movements", "evidence"}
Versions(i) == IF i \in MayLack THEN 0..2 ELSE 1..2

\* A step's reads: inputs, outputs of other steps, and what it cannot do
\* without (it returns None: BLOCKED, MISSING_INPUTS).
Read(inputs, steps, needs) == [inputs |-> inputs, steps |-> steps, needs |-> needs]

ValidateInputs   == Read({}, {}, {})
SourceRefresh    == Read({"source_policy"}, {}, {})
CanonRefresh     == Read({"source_policy", "evidence"}, {}, {})
ProcessInbox     == Read({"inbox"}, {}, {})
Deadlines        == Read({"canon", "deadlines"}, {}, {})
ActionQueue      == Read({"queue", "as_of"}, {"compute_deadlines"}, {})
Brief            == Read({"canon", "source_policy", "as_of"}, {"build_action_queue"}, {})
Entitlements     == Read({"canon", "source_policy", "positions"}, {}, {"positions"})
TaxEvents        == Read({"canon", "source_policy", "inbox", "claims"}, {"entitlements"}, {})
CashRecon        == Read({"cash_movements", "scope"}, {"entitlements", "tax_events"},
                         {"cash_movements"})
TaxRecovery      == Read({"claims", "inbox", "cash_movements", "as_of"}, {"tax_events"}, {})
SettlementFeed   == Read({"inbox"}, {}, {})
MarketClaims     == Read({"canon", "inbox", "claims", "cash_movements", "as_of"},
                         {"entitlements", "settlement_feed"}, {})
ExceptionCases   == Read({}, {"cash_reconciliation"}, {})
SecuritiesEvents == Read({"canon", "positions", "inbox"}, {}, {"positions"})
AlertOutbox      == Read({}, {}, {})
HealthReport     == Read({}, {}, {})
LineageExport    == Read({}, {}, {})

\* The step's entry in default_dag(): declared dependencies and inputs.
Step(id, deps, pure, mandatory, uses, reads) ==
  [id |-> id, deps |-> deps, pure |-> pure, mandatory |-> mandatory,
   uses |-> uses, reads |-> reads]

Dag == <<
  Step("validate_inputs", {}, FALSE, TRUE, {}, ValidateInputs),
  Step("source_refresh", {"validate_inputs"}, FALSE, FALSE, {"source_policy"}, SourceRefresh),
  Step("canon_refresh", {"validate_inputs"}, FALSE, FALSE, {"source_policy"}, CanonRefresh),
  Step("process_inbox", {"validate_inputs"}, FALSE, FALSE, {}, ProcessInbox),
  Step("compute_deadlines", {"validate_inputs"}, TRUE, TRUE, {"canon", "deadlines"}, Deadlines),
  Step("build_action_queue", {"compute_deadlines"}, TRUE, TRUE, {"queue", "as_of"}, ActionQueue),
  Step("morning_brief_v2", {"build_action_queue"}, TRUE, TRUE,
       {"canon", "source_policy", "as_of"}, Brief),
  Step("entitlements", {"validate_inputs"}, TRUE, FALSE,
       {"canon", "positions", "source_policy"}, Entitlements),
  Step("tax_events", {"entitlements", "process_inbox"}, FALSE, FALSE,
       {"canon", "source_policy", "claims"}, TaxEvents),
  Step("cash_reconciliation", {"entitlements", "tax_events"}, TRUE, FALSE,
       {"scope", "cash_movements"}, CashRecon),
  Step("tax_recovery", {"tax_events", "cash_reconciliation"}, FALSE, FALSE,
       {"claims", "cash_movements", "as_of"}, TaxRecovery),
  Step("settlement_feed", {"process_inbox"}, FALSE, FALSE, {}, SettlementFeed),
  Step("market_claims", {"process_inbox", "entitlements", "tax_recovery", "settlement_feed"},
       FALSE, FALSE, {"canon", "claims", "cash_movements", "as_of"}, MarketClaims),
  Step("exception_cases", {"cash_reconciliation"}, TRUE, FALSE, {}, ExceptionCases),
  Step("securities_events", {"process_inbox"}, FALSE, FALSE,
       {"canon", "positions", "source_policy"}, SecuritiesEvents),
  Step("alert_outbox", {"morning_brief_v2"}, FALSE, TRUE, {}, AlertOutbox),
  Step("health_report", {"alert_outbox"}, FALSE, TRUE, {}, HealthReport),
  Step("lineage_export", {"health_report"}, FALSE, FALSE, {}, LineageExport) >>

\* What an alert is about, and the steps whose output it is derived from.
Subjects == {"deadline", "cash_case", "sec_case", "source"}
Sources(a) ==
  CASE a = "deadline"  -> {"build_action_queue"}
    [] a = "cash_case" -> {"exception_cases"}
    [] a = "sec_case"  -> {"securities_events"}
    [] a = "source"    -> {"source_refresh", "canon_refresh"}

\* Alerts are cleared by category; both kinds of case are EXCEPTION_CASE.
Category(a) == IF a \in {"cash_case", "sec_case"} THEN {"cash_case", "sec_case"} ELSE {a}

----------------------------------------------------------------------------
VARIABLES
  inputs,    \* version of each input now
  trouble,   \* subjects that give rise to an alert now
  runs,      \* the tables runs and run_steps
  alert,     \* the outbox, per subject
  cur,       \* the run being executed, 0: none
  pc,        \* its next step
  ctx,       \* RunContext: inputs read, outputs so far
  resumes, faults, changes  \* bookkeeping of the model

opsVars == <<inputs, trouble, runs, alert, cur, pc, ctx, resumes, faults, changes>>
idle    == <<inputs, trouble, resumes, changes>>

RunStatus  == {"RUNNING", "SUCCEEDED", "PARTIAL", "FAILED"}
StepStatus == {"RUNNING", "SUCCEEDED", "SKIPPED_UNCHANGED", "FAILED", "BLOCKED"}

\* A row of run_steps: status, cache key, output (of a pure step: nobody reads
\* the others from the table) and donor run.
Row(status, key, out, donor) == [status |-> status, key |-> key, out |-> out, donor |-> donor]

NoContext == [ver |-> <<>>, outs |-> <<>>, trouble |-> {}]

OpsInit ==
  /\ inputs = [i \in Inputs |-> IF i = "evidence" THEN 0 ELSE 1]
  /\ trouble = Subjects
  /\ runs = <<>>
  /\ alert = [a \in Subjects |-> "none"]
  /\ cur = 0 /\ pc = 1
  /\ ctx = NoContext
  /\ resumes = 0 /\ faults = 0 /\ changes = 0

OpsTypeOK ==
  /\ \A i \in Inputs : inputs[i] \in Versions(i)
  /\ trouble \subseteq Subjects
  /\ alert \in [Subjects -> {"none", "OPEN", "CLEARED"}]
  /\ cur \in 0..Len(runs) /\ pc \in 1..(Len(Dag) + 1)
  /\ \A r \in DOMAIN runs :
       /\ runs[r].status \in RunStatus
       /\ {runs[r].row[s].status : s \in DOMAIN runs[r].row} \subseteq StepStatus
  /\ resumes \in 0..MaxResumes /\ faults \in 0..OpsFaults /\ changes \in 0..MaxChanges

----------------------------------------------------------------------------
(* The world outside, between two executions.                              *)

Change ==
  /\ cur = 0 /\ changes < MaxChanges /\ runs # <<>>
  /\ changes' = changes + 1
  /\ \/ \E i \in Inputs : \E v \in Versions(i) \ {inputs[i]} :
          inputs' = [inputs EXCEPT ![i] = v] /\ UNCHANGED trouble
     \/ \E a \in Subjects : trouble' = trouble \ {a} /\ UNCHANGED inputs
  /\ UNCHANGED <<runs, alert, cur, pc, ctx, resumes, faults>>

----------------------------------------------------------------------------
(* Cache.                                                                  *)

RowOf(s) == runs[cur].row[s]
HasRow(s) == s \in DOMAIN runs[cur].row
Put(f, s, v) == [t \in DOMAIN f \cup {s} |-> IF t = s THEN v ELSE f[t]]
SetRow(s, row) == [runs EXCEPT ![cur].row = Put(@, s, row)]
SetOut(s, out) == [ctx EXCEPT !.outs = Put(@, s, out)]

Ver(names) == {<<i, ctx.ver[i]>> : i \in names}
OutsOf(steps) == UNION {ctx.outs[d] : d \in steps \cap DOMAIN ctx.outs}

LatestSuccess ==
  LET good == {r \in DOMAIN runs : runs[r].status = "SUCCEEDED"}
  IN  IF good = {} THEN 0 ELSE CHOOSE r \in good : \A q \in good : q <= r

\* The cases of the latest successful run, by the run that made them.
PreviousCases ==
  LET s == "exception_cases"
      r == LatestSuccess
  IN  IF r = 0 \/ s \notin DOMAIN runs[r].row THEN {}
      ELSE {<<"prev", p[2]>> : p \in {q \in runs[r].row[s].out : q[1] = "cases"}}

\* MUTANT of CacheKey: the outputs of the dependencies are left out.
CacheKeyInputsOnly(s) == Ver(s.uses)

\* The declared inputs, as_of and config sections, the outputs of the declared
\* dependencies but validate_inputs, and the previous cases.
CacheKey(s) ==
  Ver(s.uses) \cup OutsOf(s.deps \ {"validate_inputs"}) \cup
    (IF s.id = "exception_cases" THEN PreviousCases ELSE {})

\* What the function makes of what it reads.
Compute(s) ==
  Ver(s.reads.inputs) \cup OutsOf(s.reads.steps) \cup
    (IF s.id = "exception_cases" THEN PreviousCases \cup {<<"cases", cur>>} ELSE {})

\* Rows a step may be skipped for: succeeded with this key, in a run that
\* succeeded or partly did, or in this very run.
Donors(s) ==
  LET key == CacheKey(s)
  IN  {r \in DOMAIN runs :
         /\ s.id \in DOMAIN runs[r].row
         /\ runs[r].row[s.id].status = "SUCCEEDED"
         /\ runs[r].row[s.id].key = key
         /\ runs[r].status \in {"SUCCEEDED", "PARTIAL"} \/ r = cur}

----------------------------------------------------------------------------
(* run_ops.                                                                *)

\* The step whose turn it is, if a run is executed.
Current == IF cur # 0 /\ pc <= Len(Dag) THEN {Dag[pc]} ELSE {}

Enter(asOf) ==
  /\ pc' = 1
  /\ ctx' = [ver |-> [inputs EXCEPT !["as_of"] = asOf], outs |-> <<>>, trouble |-> trouble]

StartRun ==
  /\ cur = 0 /\ Len(runs) < MaxRuns
  /\ runs' = Append(runs, [status |-> "RUNNING", asOf |-> inputs["as_of"], row |-> <<>>])
  /\ cur' = Len(runs) + 1
  /\ Enter(inputs["as_of"])
  /\ UNCHANGED <<inputs, trouble, alert, resumes, faults, changes>>

\* MUTANT of ResumeRun: a run that succeeded may be resumed.
ResumeAny ==
  /\ cur = 0 /\ resumes < MaxResumes
  /\ resumes' = resumes + 1
  /\ \E r \in DOMAIN runs :
       /\ cur' = r
       /\ \E asOf \in {runs[r].asOf, inputs["as_of"]} : Enter(asOf)
  /\ UNCHANGED <<inputs, trouble, runs, alert, faults, changes>>

\* RUN_IMMUTABLE for a run that succeeded.  The status of the row is not
\* touched until the end.
ResumeRun ==
  /\ cur = 0 /\ resumes < MaxResumes
  /\ resumes' = resumes + 1
  /\ \E r \in DOMAIN runs :
       /\ runs[r].status # "SUCCEEDED"
       /\ cur' = r
       /\ \E asOf \in {runs[r].asOf, inputs["as_of"]} : Enter(asOf)
  /\ UNCHANGED <<inputs, trouble, runs, alert, faults, changes>>

\* MUTANT of DependencyBad: a blocked dependency does not block.
DependencyFailed(s) == \E d \in s.deps : HasRow(d) /\ RowOf(d).status = "FAILED"

DependencyBad(s) ==
  \E d \in s.deps : HasRow(d) /\ RowOf(d).status \in {"FAILED", "BLOCKED"}

BlockStep(s) ==
  /\ DependencyBad(s)
  /\ runs' = SetRow(s.id, Row("BLOCKED", {}, {}, 0))
  /\ pc' = pc + 1
  /\ UNCHANGED <<idle, alert, cur, ctx, faults>>

SkipStep(s) ==
  /\ s.pure /\ ~DependencyBad(s)
  /\ \E r \in Donors(s) :
       LET out == runs[r].row[s.id].out
       IN  /\ runs' = SetRow(s.id, Row("SKIPPED_UNCHANGED", CacheKey(s), out, r))
           /\ ctx' = SetOut(s.id, out)
  /\ pc' = pc + 1
  /\ UNCHANGED <<idle, alert, cur, faults>>

\* No cached step, or its artifact does not verify.  Nothing but a crash comes
\* between the row RUNNING and the outcome of the step.
RunStep(s, troubles) ==
  /\ faults + troubles <= OpsFaults
  /\ ~DependencyBad(s)
  /\ faults' = faults + troubles + (IF s.pure /\ Donors(s) # {} THEN 1 ELSE 0)
  /\ faults' <= OpsFaults

\* MUTANT of Evaluated: every category counts as evaluated.
EvaluatedAll == Subjects

\* The categories of which a source produced output this run.
Evaluated == UNION {Category(a) : a \in {b \in Subjects : Sources(b) \cap DOMAIN ctx.outs # {}}}

Candidates == {a \in ctx.trouble : Sources(a) \cap DOMAIN ctx.outs # {}}

\* apply_alerts: open or reopen the candidates, clear the other open alerts of
\* the categories evaluated.
Outbox ==
  [a \in Subjects |->
     IF a \in Candidates THEN "OPEN"
     ELSE IF alert[a] = "OPEN" /\ a \in Evaluated THEN "CLEARED"
     ELSE alert[a]]

\* canon_refresh puts the accumulated canon, unless empty, in place of the
\* configured one for the steps after it.
CanonNow(s) ==
  IF s.id = "canon_refresh" /\ ctx.ver["evidence"] > 0
  THEN [ctx EXCEPT !.ver["canon"] = 2 + ctx.ver["evidence"]] ELSE ctx

Done(s) ==
  LET c   == CanonNow(s)
      out == Compute(s)
  IN  /\ runs' = SetRow(s.id, IF s.pure THEN Row("SUCCEEDED", CacheKey(s), out, cur)
                              ELSE Row("SUCCEEDED", {}, {}, cur))
      /\ ctx' = [c EXCEPT !.outs = Put(@, s.id, out)]
      /\ alert' = IF s.id = "alert_outbox" THEN Outbox ELSE alert

Missing(s) == \E i \in s.reads.needs : ctx.ver[i] = 0

FinishStep(s) ==
  /\ RunStep(s, 0) /\ ~Missing(s)
  /\ Done(s)
  /\ pc' = pc + 1
  /\ UNCHANGED <<idle, cur>>

MissingInputs(s) ==
  /\ RunStep(s, 0) /\ Missing(s)
  /\ runs' = SetRow(s.id, Row("BLOCKED", {}, {}, 0))
  /\ pc' = pc + 1
  /\ UNCHANGED <<idle, alert, cur, ctx>>

\* The function raises, or its document has another schema.
FailStep(s) ==
  /\ RunStep(s, 1) /\ ~Missing(s)
  /\ runs' = SetRow(s.id, Row("FAILED", {}, {}, 0))
  /\ pc' = pc + 1
  /\ UNCHANGED <<idle, alert, cur, ctx>>

\* The process dies in the step's function: the row stays RUNNING.
CrashInStep(s) ==
  /\ RunStep(s, 1)
  /\ runs' = SetRow(s.id, Row("RUNNING", {}, {}, 0))
  /\ cur' = 0 /\ pc' = 1 /\ ctx' = NoContext
  /\ UNCHANGED <<idle, alert>>

\* Did a step of this kind fail or block in this execution?
Bad(mandatory) == \E k \in DOMAIN Dag :
  Dag[k].mandatory = mandatory /\ RowOf(Dag[k].id).status \in {"FAILED", "BLOCKED"}

\* MUTANT of Verdict: the run takes the status of its blocked steps.
VerdictBlocked == IF Bad(TRUE) THEN "FAILED" ELSE IF Bad(FALSE) THEN "BLOCKED" ELSE "SUCCEEDED"

Verdict == IF Bad(TRUE) THEN "FAILED" ELSE IF Bad(FALSE) THEN "PARTIAL" ELSE "SUCCEEDED"

EndRun ==
  /\ cur # 0 /\ pc = Len(Dag) + 1
  /\ runs' = [runs EXCEPT ![cur].status = Verdict]
  /\ cur' = 0 /\ pc' = 1 /\ ctx' = NoContext
  /\ UNCHANGED <<idle, alert, faults>>

\* The process dies between two steps: what was committed stays.
CrashRun ==
  /\ cur # 0 /\ faults < OpsFaults
  /\ faults' = faults + 1
  /\ cur' = 0 /\ pc' = 1 /\ ctx' = NoContext
  /\ UNCHANGED <<idle, runs, alert>>

OpsNext ==
  \/ Change \/ StartRun \/ ResumeRun
  \/ \E s \in Current :
       \/ BlockStep(s) \/ SkipStep(s) \/ FinishStep(s) \/ MissingInputs(s)
       \/ FailStep(s) \/ CrashInStep(s)
  \/ EndRun \/ CrashRun

OpsSpec == OpsInit /\ [][OpsNext]_opsVars

----------------------------------------------------------------------------
(* Properties.                                                             *)

\* The versions a document was made from, the run of the cases aside.
Material(out) == {p \in out : p[1] # "cases"}

\* Every output a run holds, taken over from an earlier run or computed, is
\* what the step would compute now from the inputs, as_of, configuration and
\* documents of this execution: the declared inputs of default_dag() cover all
\* that the steps read, also after a resume with changed inputs.
CacheSound ==
  cur # 0 /\ pc > 1 =>
    LET s == Dag[pc - 1]
    IN  s.id \in DOMAIN ctx.outs =>
          Material(ctx.outs[s.id]) \subseteq Ver(Inputs) \cup PreviousCases

\* No step delivers in an execution in which a step it depends on did not, and
\* a run that succeeded has an output of every step: no row left by an earlier
\* execution, interrupted or not, passes for this one's.
NoGap ==
  /\ cur # 0 /\ pc > 1 =>
       LET s == Dag[pc - 1] IN s.id \in DOMAIN ctx.outs => s.deps \subseteq DOMAIN ctx.outs
  /\ cur = 0 => \A r \in DOMAIN runs : runs[r].status = "SUCCEEDED" =>
       /\ Cardinality(DOMAIN runs[r].row) = Len(Dag)
       /\ \A s \in DOMAIN runs[r].row :
            runs[r].row[s].status \in {"SUCCEEDED", "SKIPPED_UNCHANGED"}

\* A run that succeeded is immutable.
SuccessStands ==
  [][\A r \in DOMAIN runs : runs[r].status = "SUCCEEDED" => runs'[r] = runs[r]]_opsVars

\* The alerts follow the runs: an open alert is cleared only by an execution in
\* which a step that feeds its category delivered, so a source that is blocked
\* or failed clears nothing; and when a run succeeds, resumed or not, exactly
\* the alerts of what is wrong now are open.
AlertsFollowRuns ==
  [][/\ \A a \in Subjects : alert[a] = "OPEN" /\ alert'[a] = "CLEARED" =>
          \E s \in UNION {Sources(b) : b \in Category(a)} :
            RowOf(s).status \in {"SUCCEEDED", "SKIPPED_UNCHANGED"}
     /\ cur # 0 /\ cur' = 0 /\ runs'[cur].status = "SUCCEEDED" =>
          \A a \in Subjects : alert[a] = "OPEN" <=> a \in ctx.trouble]_opsVars

\* An open alert of an exception case is cleared only by an execution in which
\* the step of that very case delivered (docs/p7/p74-alerts.md: open alerts of
\* a blocked source stay as they are).  Not kept: see README.
CaseAlertNeedsSource ==
  [][\A a \in {"cash_case", "sec_case"} : alert[a] = "OPEN" /\ alert'[a] = "CLEARED" =>
       Sources(a) \cap DOMAIN ctx.outs # {}]_opsVars
=============================================================================
