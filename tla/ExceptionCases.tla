---------------------------- MODULE ExceptionCases ----------------------------
(***************************************************************************)
(* Exception cases (src/ca_es/exceptions.py): what a reconciliation finds  *)
(* becomes cases with a workflow and an audit trail of their own.  Two     *)
(* chains use them: the file an operator keeps with the exceptions and     *)
(* case-transition commands (cli.py), and the documents of the daily run   *)
(* (ops_dag.py), whose previous cases are those of the latest run that     *)
(* succeeded.                                                              *)
(***************************************************************************)
EXTENDS Naturals, Sequences, FiniteSets

CONSTANTS Keys,       \* case keys: event and subject
          MaxRounds   \* bound: observations and transitions

ASSUME CasesAssumption == IsFiniteSet(Keys) /\ MaxRounds \in Nat

\* The steps that build case documents, and the step whose cases of the latest
\* successful run each takes for its previous ones.
Branches == {"cash", "tax", "settlement"}
PreviousOf(b) == IF b = "settlement" THEN "settlement" ELSE "cash"

Exceptional == {"MISSING", "MISMATCH"}   \* statuses that make a case
Silent      == {"MATCH", "PENDING"}      \* statuses that do not
ACTIVE_WORKFLOW == {"OPEN", "IN_REVIEW", "WAITING_EXTERNAL"}
CLOSED_WORKFLOW == {"RESOLVED", "DISMISSED"}

VARIABLES
  found,    \* what the reconciliation of each branch says of each subject
  filed,    \* the cases in the operator's file
  docs,    \* the case documents of the latest run, by branch
  previous,\* those of the latest run that succeeded
  rounds    \* bookkeeping of the model

casesVars == <<found, filed, docs, previous, rounds>>

NoCases == <<>>
Audit(type, to) == [type |-> type, to |-> to]
Workflow == ACTIVE_WORKFLOW \cup CLOSED_WORKFLOW
AuditEntry ==
  [type: {"CREATED", "FACT_UPDATED", "REOBSERVED", "NOT_OBSERVED", "REOPENED", "TRANSITION"},
   to: Workflow \cup Exceptional \cup {""}]
Case == [status: Exceptional, workflow: Workflow, observed: BOOLEAN, resolution: BOOLEAN,
         history: Seq(AuditEntry)]

CasesTypeOK ==
  /\ found \in [Branches -> [Keys -> Exceptional \cup Silent]]
  /\ \A doc \in {filed} \cup {docs[b] : b \in Branches} \cup {previous[b] : b \in Branches} :
       DOMAIN doc \subseteq Branches \X Keys /\ \A k \in DOMAIN doc : doc[k] \in Case
  /\ rounds \in 0..MaxRounds

CasesInit ==
  /\ found = [b \in Branches |-> [k \in Keys |-> "MATCH"]]
  /\ filed = NoCases
  /\ docs = [b \in Branches |-> NoCases]
  /\ previous = docs
  /\ rounds = 0

----------------------------------------------------------------------------
\* classify_cases: the case keys of the subjects with an exception; the key names
\* the reconciliation it comes from.
Classify(b, recon) == {<<b, k>> : k \in {s \in Keys : recon[s] \in Exceptional}}

Created(status) ==
  [status |-> status, workflow |-> "OPEN", observed |-> TRUE, resolution |-> FALSE,
   history |-> <<Audit("CREATED", "OPEN")>>]

\* The audit entries of an observation: the facts changed, the case was not
\* seen last time, it had been closed.
AuditEntries(case, status) ==
  (IF case.status # status THEN <<Audit("FACT_UPDATED", status)>> ELSE <<>>)
    \o (IF ~case.observed THEN <<Audit("REOBSERVED", "")>> ELSE <<>>)
    \o (IF case.workflow \in CLOSED_WORKFLOW THEN <<Audit("REOPENED", "OPEN")>> ELSE <<>>)

\* MUTANT of Observed: a case that reappears stays closed.
ObservedClosed(case, status) ==
  [case EXCEPT !.status = status, !.observed = TRUE, !.history = @ \o AuditEntries(case, status)]

Observed(case, status) ==
  [case EXCEPT !.status = status, !.observed = TRUE,
     !.workflow = IF @ \in CLOSED_WORKFLOW THEN "OPEN" ELSE @,
     !.resolution = IF case.workflow \in CLOSED_WORKFLOW THEN FALSE ELSE @,
     !.history = @ \o AuditEntries(case, status)]

\* A case that is not observed is kept as it is, and that is recorded once.
Unobserved(case) ==
  IF case.observed
  THEN [case EXCEPT !.observed = FALSE, !.history = Append(@, Audit("NOT_OBSERVED", ""))]
  ELSE case

\* merge_cases.
Merge(b, old, recon) ==
  [k \in DOMAIN old \cup Classify(b, recon) |->
     IF k \notin DOMAIN old THEN Created(recon[k[2]])
     ELSE IF k \in Classify(b, recon) THEN Observed(old[k], recon[k[2]])
     ELSE Unobserved(old[k])]

\* apply_transition; closing asks for a resolution code.
Transitioned(case, to) ==
  [case EXCEPT !.workflow = to, !.resolution = (to \in CLOSED_WORKFLOW),
               !.history = Append(@, Audit("TRANSITION", to))]

Queue(doc) == {k \in DOMAIN doc : doc[k].observed /\ doc[k].workflow \in ACTIVE_WORKFLOW}

----------------------------------------------------------------------------
Tick == rounds < MaxRounds /\ rounds' = rounds + 1

FactsChange ==
  /\ \E b \in Branches, k \in Keys, s \in Exceptional \cup Silent :
       s # found[b][k] /\ found' = [found EXCEPT ![b][k] = s]
  /\ Tick
  /\ UNCHANGED <<filed, docs, previous>>

\* The exceptions command over the cash reconciliation, with --cases or without
\* (the operator then starts a new file).
CliExceptions ==
  /\ \E kept \in {filed, NoCases} : filed' = Merge("cash", kept, found["cash"])
  /\ Tick
  /\ UNCHANGED <<found, docs, previous>>

CliTransition ==
  /\ \E k \in DOMAIN filed, to \in {"IN_REVIEW", "RESOLVED"} :
       filed' = [filed EXCEPT ![k] = Transitioned(@, to)]
  /\ Tick
  /\ UNCHANGED <<found, docs, previous>>

DailyRun ==
  /\ docs' = [b \in Branches |-> Merge(b, previous[PreviousOf(b)], found[b])]
  \* Some other step may fail: the run is PARTIAL then.
  /\ previous' \in {previous, docs'}
  /\ Tick
  /\ UNCHANGED <<found, filed>>

CasesNext == FactsChange \/ CliExceptions \/ CliTransition \/ DailyRun
CasesSpec == CasesInit /\ [][CasesNext]_casesVars

----------------------------------------------------------------------------
\* The last entry of a trail with one of these types.
LastOf(history, types) ==
  LET at == {n \in DOMAIN history : history[n].type \in types}
  IN  history[CHOOSE n \in at : \A m \in at : m <= n]

\* The audit trail alone tells the case, through gaps, reopenings and partial
\* runs: a case was created once, it is observed unless the last sighting says
\* otherwise, its workflow is where the last entry took it, and it is closed
\* exactly when it holds a resolution (merge_cases, apply_transition).
TrailTells(case) ==
  LET seen == LastOf(case.history, {"CREATED", "REOBSERVED", "NOT_OBSERVED"})
  IN  /\ Cardinality({n \in DOMAIN case.history : case.history[n].type = "CREATED"}) = 1
      /\ case.observed = (seen.type # "NOT_OBSERVED")
      /\ case.workflow = LastOf(case.history, {"CREATED", "REOPENED", "TRANSITION"}).to
      /\ case.resolution = (case.workflow \in CLOSED_WORKFLOW)

\* No exception waits unseen: after every run and every exceptions command the
\* queue is exactly what the reconciliation found, whatever had been closed.
QueueIsFindings ==
  [][/\ docs' # docs => \A b \in Branches : Queue(docs'[b]) = Classify(b, found[b])
     /\ CliExceptions => Queue(filed') = Classify("cash", found["cash"])]_casesVars

\* What the operator sees of the exceptions: in the file and in every document of
\* the daily run the trail tells the case, and the queue is what was found
\* (exceptions.py).
CasesStand ==
  /\ [](\A doc \in {filed} \cup {docs[b] : b \in Branches} : \A k \in DOMAIN doc : TrailTells(doc[k]))
  /\ QueueIsFindings

\* exceptions.py:28-29: an exception that is no longer found is recorded with
\* NOT_OBSERVED, never deleted: a case of the latest successful run is still
\* there after the next run.
CaseNeverDropped ==
  [][docs' # docs => \A b \in Branches : DOMAIN previous[b] \subseteq DOMAIN docs'[b]]_casesVars
=============================================================================
