---------------------------- MODULE TaxRecovery -----------------------------
(***************************************************************************)
(* Recovery of withholding tax for one account of one event.  The daily    *)
(* step (ops_dag.py, _step_tax_recovery) assesses the account against each *)
(* recovery rule, opens claims for what is ELIGIBLE, merges them with the  *)
(* claims of the last successful run, writes instructions, applies the     *)
(* deadline check and the provider's events in the order of their dates,   *)
(* and reconciles the refunds.  Beside it the operator keeps a claims file *)
(* with the recovery commands (cli.py), where document sets are known.     *)
(*                                                                         *)
(* A run that has no recovery rules, or no entry of the event among the    *)
(* tax events, succeeds with no claims, and the next run finds none.       *)
(*                                                                         *)
(* Two rules: relief at source and refund.  The rates are what is withheld *)
(* and what the rule entitles to, on a gross of 1.                         *)
(***************************************************************************)
EXTENDS Naturals, FiniteSets, FiniteSetsExt, Sequences, SequencesExt

CONSTANTS
  LastTaxDay,     \* bound: days
  Deadline(_),    \* the last day of each rule, for the payment date evidenced; 0 = unknown
  Expected,       \* the rate the tax entitlement expects to be withheld
  Entitled,       \* the rate the recovery rules entitle to
  EvidencedRates, \* the rates an actual evidence may show
  ProviderEvents, \* the provider's events: [no, claim, type, at]
  Credits,        \* the credits that may be booked: [claim, amount]
  MaxEdits        \* bound: changes of evidence, profile, documents and inputs

VARIABLES
  taxDay,    \* as_of of the day
  actual,    \* the rates the ACTUAL evidence of the event shows
  profile,   \* what the tax profile says of the account
  complete,  \* the required documents are present
  inputs,    \* what a run has: recovery rules, the event among the tax events
  told,      \* the provider's events declared so far, applied again by each run
  credits,   \* the credits observed
  edits,     \* changes so far
  runClaims, \* claims of the last successful run
  orders,    \* the instructions of the last successful run
  file       \* the operator's claims file

trVars == <<taxDay, actual, profile, complete, inputs, told, credits, edits, runClaims, orders, file>>

Recoveries == <<"RELIEF_AT_SOURCE", "STANDARD_RECLAIM">>
Methods == ToSet(Recoveries)
EventTypes == {"SUBMISSION_RECORDED", "RECEIPT", "ACCEPTANCE", "REJECTION", "APPLIED", "QUERY", "EXPIRY_CHECK"}

\* Days, numbers, rates and amounts are natural numbers; an event and a credit are about a
\* claim there may be.
RecoveryAssumption ==
  /\ \A e \in ProviderEvents : e.claim \in Methods /\ e.type \in EventTypes /\ e.at \in Nat /\ e.no \in Nat
  /\ \A v \in Credits : v.claim \in Methods /\ v.amount \in Nat
  /\ \A r \in Methods : Deadline(r) \in Nat
  /\ Entitled \in Nat /\ EvidencedRates \subseteq Nat
  /\ LastTaxDay \in Nat \ {0} /\ MaxEdits \in Nat

RunInputs == {"rules", "event"}
Profiles == {"none", "field_missing", "unmet", "met"}
TaxTerminal == {"REJECTED", "PAID", "APPLIED", "EXPIRED"}
Unsent == {"ASSESSED", "PENDING_DOCUMENTATION", "READY_TO_SUBMIT"}
Under == {"SUBMITTED", "ACKNOWLEDGED", "ACCEPTED", "PARTIALLY_PAID"}
Unopened == [status |-> "NONE", amount |-> 0, deadline |-> 0]
NoClaims == [r \in Methods |-> Unopened]
NoOrders == [r \in Methods |-> "NONE"]

TaxEdges == [s \in TaxTerminal \cup Unsent \cup Under |->
  CASE s = "ASSESSED" -> {"PENDING_DOCUMENTATION", "READY_TO_SUBMIT", "EXPIRED"}
    [] s = "PENDING_DOCUMENTATION" -> {"READY_TO_SUBMIT", "EXPIRED"}
    [] s = "READY_TO_SUBMIT" -> {"SUBMITTED", "EXPIRED"}
    [] s = "SUBMITTED" -> {"ACKNOWLEDGED", "REJECTED", "EXPIRED"}
    [] s = "ACKNOWLEDGED" -> {"ACCEPTED", "REJECTED", "PARTIALLY_PAID", "PAID", "APPLIED", "EXPIRED"}
    [] s = "ACCEPTED" -> {"PARTIALLY_PAID", "PAID", "APPLIED", "EXPIRED"}
    [] s = "PARTIALLY_PAID" -> {"PARTIALLY_PAID", "PAID", "EXPIRED"}
    [] OTHER -> {}]

Target(type) ==
  CASE type = "SUBMISSION_RECORDED" -> "SUBMITTED" [] type = "RECEIPT" -> "ACKNOWLEDGED"
    [] type = "ACCEPTANCE" -> "ACCEPTED" [] type = "REJECTION" -> "REJECTED"
    [] type = "APPLIED" -> "APPLIED"

-----------------------------------------------------------------------------
\* recovery_assessment of one rule, in the order of its conditions.
Assessed(r) ==
  CASE profile \in {"none", "field_missing"} -> "INDETERMINATE"
    [] profile = "unmet" -> "NOT_APPLICABLE"
    [] profile = "met" /\ r = "RELIEF_AT_SOURCE" /\ actual # {} -> "NOT_APPLICABLE"
    [] OTHER ->
         CASE Deadline(r) > 0 /\ taxDay > Deadline(r) -> "EXPIRED"
           [] Deadline(r) = 0 -> "INDETERMINATE"
           [] Deadline(r) > 0 /\ taxDay <= Deadline(r) ->
                IF r = "RELIEF_AT_SOURCE"
                THEN IF Entitled >= Expected THEN "NOT_APPLICABLE" ELSE "ELIGIBLE"
                ELSE IF Cardinality(actual) # 1 THEN "INDETERMINATE"
                     ELSE IF \E a \in actual : a <= Entitled THEN "NOT_APPLICABLE" ELSE "ELIGIBLE"

\* The refund of an ELIGIBLE rule; relief carries no amount to refund.
Recoverable(r) == IF r = "RELIEF_AT_SOURCE" THEN 0 ELSE (CHOOSE a \in actual : TRUE) - Entitled

\* open_claims: with a document set the claim opens ready or pending, otherwise assessed.
Opening(r, known) ==
  IF Assessed(r) # "ELIGIBLE" THEN Unopened
  ELSE [status |-> IF ~known THEN "ASSESSED"
                   ELSE IF complete THEN "READY_TO_SUBMIT" ELSE "PENDING_DOCUMENTATION",
        amount |-> Recoverable(r), deadline |-> Deadline(r)]

\* merge_claims: a living claim keeps its status; the assessment refreshes its facts.
MergedWith(prev, new) == [r \in Methods |->
  CASE new[r] = Unopened -> prev[r]
    [] new[r] # Unopened /\ prev[r] = Unopened -> new[r]
    [] OTHER -> [new[r] EXCEPT !.status = prev[r].status]]

\* build_instruction: nothing is sent for a claim that is not ready or lacks documents.
Order(c) == IF c.status = "READY_TO_SUBMIT" /\ complete THEN "SUBMIT" ELSE "BLOCKED"

\* MUTANT of Expires: the last day is already too late.
ExpiresOnTheDay(c, at) == c.status \notin TaxTerminal /\ c.deadline > 0 /\ at >= c.deadline

\* apply_status_events for one event.
Expires(c, at) == c.status \notin TaxTerminal /\ c.deadline > 0 /\ at > c.deadline
Apply(cs, e) ==
  LET c == cs[e.claim] IN
  CASE c = Unopened \/ e.type = "QUERY" -> cs
    [] c # Unopened /\ e.type = "EXPIRY_CHECK" ->
         IF Expires(c, e.at) THEN [cs EXCEPT ![e.claim].status = "EXPIRED"] ELSE cs
    [] OTHER -> IF Target(e.type) \in TaxEdges[c.status]
                THEN [cs EXCEPT ![e.claim].status = Target(e.type)] ELSE cs

\* The events by date; among equal dates the run's own deadline checks come first.
Rank(e) == <<e.at, IF e.type = "EXPIRY_CHECK" THEN 0 ELSE 1, e.no>>
Before3(a, b) == a[1] < b[1] \/ (a[1] = b[1] /\ (a[2] < b[2] \/ (a[2] = b[2] /\ a[3] < b[3])))
Latest(es) == CHOOSE e \in es : \A o \in es : ~Before3(Rank(e), Rank(o))
Checks(cs) == {[no |-> i, claim |-> Recoveries[i], type |-> "EXPIRY_CHECK", at |-> taxDay] :
                 i \in {j \in DOMAIN Recoveries : cs[Recoveries[j]] # Unopened}}
Answered(cs, es) == MapThenFoldSet(LAMBDA e, acc : Apply(acc, e), cs, LAMBDA e : e, Latest, es)

\* recovery_recon: what the credits bound by reference say of a claim.
Refunded(r) == MapThenSumSet(LAMBDA v : v.amount, {v \in credits : v.claim = r})

\* MUTANT of Recon: whatever is credited pays the claim.
ReconOfAnyCredit(c, r) ==
  IF r = "RELIEF_AT_SOURCE" \/ c = Unopened THEN "NOT_APPLICABLE"
  ELSE IF c.status \in Unsent THEN "NOT_SUBMITTED"
  ELSE IF c.status \in {"REJECTED", "EXPIRED"} THEN c.status
  ELSE IF Refunded(r) = 0 THEN "NO_REFUND_OBSERVED" ELSE "PAID"

Recon(c, r) ==
  IF r = "RELIEF_AT_SOURCE" \/ c = Unopened THEN "NOT_APPLICABLE"
  ELSE IF c.status \in Unsent THEN "NOT_SUBMITTED"
  ELSE IF c.status \in {"REJECTED", "EXPIRED"} THEN c.status
  ELSE IF Refunded(r) = 0 THEN "NO_REFUND_OBSERVED"
  ELSE IF Refunded(r) > c.amount THEN "OVERPAID"
  ELSE IF Refunded(r) = c.amount THEN "PAID" ELSE "PARTIALLY_PAID"

-----------------------------------------------------------------------------
TaxInit ==
  /\ taxDay = 1 /\ actual = {} /\ profile = "met" /\ complete = FALSE /\ inputs = RunInputs
  /\ told = {} /\ credits = {} /\ edits = 0 /\ runClaims = NoClaims /\ orders = NoOrders /\ file = NoClaims

\* The step of a daily run: no document set is known when the claims open, and the
\* instructions are written before the events are applied.  A run that does not succeed in
\* the end leaves what the one before it wrote.
Reckoned == inputs = RunInputs
RunRecovery(succeeds) ==
  LET merged == MergedWith(runClaims, [r \in Methods |-> Opening(r, FALSE)])
  IN  /\ runClaims' = IF ~succeeds THEN runClaims
                      ELSE IF Reckoned THEN Answered(merged, Checks(merged) \cup told) ELSE NoClaims
      /\ orders' = IF ~succeeds THEN orders
                   ELSE IF Reckoned THEN [r \in Methods |-> Order(merged[r])] ELSE NoOrders
      /\ UNCHANGED <<taxDay, actual, profile, complete, inputs, told, credits, edits, file>>

\* recovery-claims: the operator opens claims with document sets, from nothing or from
\* the claims of the file or of the last run.
OpenFile(prev) ==
  /\ file' = MergedWith(prev, [r \in Methods |-> Opening(r, prev[r] # Unopened)])
  /\ UNCHANGED <<taxDay, actual, profile, complete, inputs, told, credits, edits, runClaims, orders>>

\* recovery-claims with the document sets of claims opened before, without --previous-claims.
ReopenFile ==
  /\ file' = [r \in Methods |-> Opening(r, file[r] # Unopened)]
  /\ UNCHANGED <<taxDay, actual, profile, complete, inputs, told, credits, edits, runClaims, orders>>

\* recovery-status: the operator applies an event to the file.
FileEvent(e) ==
  /\ file' = Answered(file, {e})
  /\ UNCHANGED <<taxDay, actual, profile, complete, inputs, told, credits, edits, runClaims, orders>>

ProviderTells(e) ==
  /\ e \notin told /\ e.at <= taxDay /\ told' = told \cup {e}
  /\ UNCHANGED <<taxDay, actual, profile, complete, inputs, credits, edits, runClaims, orders, file>>

Credited(v) ==
  /\ v \notin credits /\ credits' = credits \cup {v}
  /\ UNCHANGED <<taxDay, actual, profile, complete, inputs, told, edits, runClaims, orders, file>>

\* A confirmation brings an actual rate; the profile, the documents and the configuration
\* are edited, and the event comes and goes among the tax events.
Edit ==
  /\ edits < MaxEdits /\ edits' = edits + 1
  /\ \/ \E a \in EvidencedRates \ actual : actual' = actual \cup {a} /\ UNCHANGED <<profile, complete, inputs>>
     \/ profile' \in Profiles \ {profile} /\ UNCHANGED <<actual, complete, inputs>>
     \/ complete' = ~complete /\ UNCHANGED <<actual, profile, inputs>>
     \/ \E i \in RunInputs : inputs' = SymDiff(inputs, {i}) /\ UNCHANGED <<actual, profile, complete>>
  /\ UNCHANGED <<taxDay, told, credits, runClaims, orders, file>>

TaxDay ==
  /\ taxDay < LastTaxDay /\ taxDay' = taxDay + 1
  /\ UNCHANGED <<actual, profile, complete, inputs, told, credits, edits, runClaims, orders, file>>

TaxNext ==
  \/ \E ok \in BOOLEAN : RunRecovery(ok)
  \/ OpenFile(file)
  \/ OpenFile(runClaims)
  \/ ReopenFile
  \/ \E e \in ProviderEvents : FileEvent(e)
  \/ \E e \in ProviderEvents : ProviderTells(e)
  \/ \E v \in Credits : Credited(v)
  \/ Edit
  \/ TaxDay

-----------------------------------------------------------------------------
ClaimsOK(cs) == \A r \in Methods : cs[r] = Unopened \/
  ( /\ cs[r].status \in TaxTerminal \cup Unsent \cup Under
    /\ cs[r].amount \in Nat /\ cs[r].deadline = Deadline(r) )
TaxTypeOK ==
  /\ taxDay \in 1..LastTaxDay /\ actual \subseteq EvidencedRates /\ profile \in Profiles
  /\ complete \in BOOLEAN /\ inputs \subseteq RunInputs
  /\ told \subseteq ProviderEvents /\ credits \subseteq Credits /\ edits \in 0..MaxEdits
  /\ ClaimsOK(runClaims) /\ ClaimsOK(file)
  /\ \A r \in Methods : orders[r] \in {"NONE", "SUBMIT", "BLOCKED"}

\* The excess of a rate that was evidenced.
Backed(c) == \E a \in actual : a > Entitled /\ c.amount = a - Entitled
\* What a refund claim was opened for, and what the reconciliation says of it, is backed by
\* one rate that was evidenced and by all credits that name the claim.
RefundBacked(c, r) == \E a \in actual :
  /\ a > Entitled /\ c.amount = a - Entitled
  /\ Recon(c, r) = "PAID" => Refunded(r) + Entitled = a
  /\ Recon(c, r) = "PARTIALLY_PAID" => Refunded(r) > 0 /\ Refunded(r) + Entitled < a
  /\ Recon(c, r) = "OVERPAID" => Refunded(r) + Entitled > a
RefundsBacked ==
  \A c \in {runClaims["STANDARD_RECLAIM"], file["STANDARD_RECLAIM"]} :
    c # Unopened => RefundBacked(c, "STANDARD_RECLAIM")

\* What a step may do to the claims and the instructions of the runs.
ClaimsMove ==
  \A r \in Methods :
    /\ (runClaims[r] # Unopened /\ runClaims'[r] = Unopened) => ~Reckoned
    /\ (runClaims[r].status \in TaxTerminal /\ runClaims'[r] # Unopened) =>
         runClaims'[r].status = runClaims[r].status
    /\ (runClaims'[r].status = "EXPIRED" /\ runClaims[r].status # "EXPIRED") => taxDay > Deadline(r)
    /\ orders'[r] # "SUBMIT"
RecoveryMoves == RefundsBacked' /\ ClaimsMove

(* The money of a claim: a refund claim asks for exactly the excess of a rate that was    *)
(* evidenced over the rate entitled, whatever evidence comes later, and the credits that  *)
(* name it, fewer or more than it asks for, are reported as a part, the whole or too much *)
(* of that excess.  In the claims of the runs a claim is lost only to a run that does not *)
(* reckon its event (see RecoveryKept), what is terminal stays so while it lives, and it  *)
(* expires only past its deadline; the daily run, which opens claims without document     *)
(* sets, leaves every instruction to the operator's file (tax_recovery_assessment.py,     *)
(* tax_recovery_case.py, tax_recovery_status.py, tax_recovery_recon.py).                  *)
RecoveryStands == [][RecoveryMoves]_trVars

(* tax_recovery_case.py:149-151: "claims previos por claim_id + nuevos ... el claim es    *)
(* una entidad viva"; docs/p15/p151-recovery-contracts.md:135: "Claims persisten via      *)
(* merge_claims contra el ultimo run exitoso".                                            *)
RecoveryKept == [][\A r \in Methods : runClaims[r] # Unopened => runClaims'[r] # Unopened]_trVars

(* tax_recovery_assessment.py: the ACTUAL evidence closes the way of relief, the excess   *)
(* belongs to the refund.                                                                 *)
ReliefCloses == [][RunRecovery(TRUE) /\ Reckoned /\ actual # {} =>
  runClaims'["RELIEF_AT_SOURCE"].status \notin Unsent]_trVars

=============================================================================
