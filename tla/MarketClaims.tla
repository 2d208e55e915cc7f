---------------------------- MODULE MarketClaims ----------------------------
(***************************************************************************)
(* Market claims of one transaction around one event: the daily step       *)
(* (ops_dag.py, _step_market_claims) assesses the transaction against the  *)
(* market rule of the day, opens the claim a PROVEN assessment justifies,  *)
(* merges it with the claims of the last successful run, applies every     *)
(* claim message of the inbox again (seev.050 to 053), reconciles the      *)
(* claims with the movements observed and settles what matches.            *)
(*                                                                         *)
(* A claim is identified by the rule that opened it.  References are the   *)
(* transaction's (Tx), the rule's for the claim itself, and the identifier *)
(* the counterparty brings (Cre); the quantity is 1, so that the expected  *)
(* amount is the rate of the entitlement.  The notice that ties the        *)
(* event's reference (Corp) to the event is in the inbox from the start.   *)
(*                                                                         *)
(* The claims of a run are written per event of the canon.  A run that     *)
(* does not visit the event, because the canon does not name it or because *)
(* neither rules nor transactions are declared, succeeds with no claims,   *)
(* and the next run finds none.                                            *)
(***************************************************************************)
EXTENDS Naturals, FiniteSets, FiniteSetsExt, Sequences, SequencesExt

CONSTANTS
  Rules,        \* the market rules, which identify claims
  RuleOn(_),    \* the rules effective on a day
  LastClaimDay, \* bound: days
  Notes,        \* the messages that may arrive: [no, name, facts], a fact [q, v] each
  Moves,        \* the movements that may be booked: [no, ref, amount, fx]
  Tx, Cre,      \* references of the transaction and of the counterparty
  Corp,         \* the event's reference in its notice
  NoAnswer,     \* a field that is absent, or given twice in different words
  MaxNotes,     \* bound: messages that arrive
  MaxShifts     \* bound: changes of the feed or the rate, losses of a document

VARIABLES
  notes,   \* the claim messages processed by the inbox
  moves,   \* the movements of the declared input
  declared, \* the documents a run has: market rules, transactions, a canon with the event
  trade,   \* what the transactions say of the transaction
  rate,    \* gross per share of the entitlement, 0 when it is not known
  today,   \* the as_of day
  shifts,  \* changes of trade and rate and losses of a document so far
  claims   \* the claims of the last successful run

mcVars == <<notes, moves, declared, trade, rate, today, shifts, claims>>

Documents == {"rules", "transactions", "event"}

Trades == {"absent", "unproven", "ineligible", "eligible"}
KindOrder == <<"CLAIM_CREATION", "CLAIM_STATUS", "CANCELLATION_REQUEST", "CANCELLATION_STATUS">>
ClaimTerminal == {"REJECTED", "CANCELLED", "SETTLED"}
Settleable == {"NOTIFIED", "PENDING", "MATCHING", "ACCEPTED", "PARTIALLY_SETTLED"}
Statuses == ClaimTerminal \cup Settleable \cup {"EXPECTED", "CANCELLATION_REQUESTED"}
NoteRefs == Rules \cup {Tx, Cre}
ReferenceFields == {"AcctSvcrTxId", "MktInfrstrctrTxId", "PrcrTxId", "MktClmCreId", "MktClmCxlReqId"}

\* The messages that may arrive have a number and one of four names, and their reference
\* fields carry references; the rules of a day are among finitely many.
ClaimAssumption ==
  /\ \A n \in Notes :
       /\ n.no \in Nat /\ n.name \in {"seev.050", "seev.051", "seev.052", "seev.053"}
       /\ \A i \in DOMAIN n.facts :
            n.facts[i].q \in ReferenceFields \cup {"RltdSttlmInstrId"} => n.facts[i].v \in NoteRefs
  /\ IsFiniteSet(Rules) /\ \A d \in 1..LastClaimDay : RuleOn(d) \subseteq Rules
  /\ LastClaimDay \in Nat \ {0} /\ MaxShifts \in Nat
NoClaim == [status |-> "NONE", pre |-> "NONE", seen |-> {}, refs |-> {}, amount |-> 0]

Edges == [s \in Statuses |->
  CASE s = "EXPECTED" -> {"NOTIFIED", "CANCELLED"}
    [] s = "NOTIFIED" -> Statuses \ {"EXPECTED", "NOTIFIED"}
    [] s = "PENDING"  -> Statuses \ {"EXPECTED", "NOTIFIED", "PENDING"}
    [] s = "MATCHING" -> Statuses \ {"EXPECTED", "NOTIFIED", "MATCHING"}
    [] s = "ACCEPTED" -> {"CANCELLATION_REQUESTED", "CANCELLED", "PARTIALLY_SETTLED", "SETTLED"}
    [] s = "CANCELLATION_REQUESTED" -> {"CANCELLED", "NOTIFIED", "PENDING", "MATCHING", "ACCEPTED"}
    [] s = "PARTIALLY_SETTLED" -> {"PARTIALLY_SETTLED", "SETTLED"}
    [] OTHER -> {}]

\* transition: the claim moves along an edge, or the event is rejected.
Transition(c, to) == IF to \in Edges[c.status] THEN [c EXCEPT !.status = to] ELSE c

ClaimInit ==
  /\ notes = {} /\ moves = {} /\ declared = Documents
  /\ trade = "eligible" /\ rate = 1 /\ today = 1 /\ shifts = 0
  /\ claims = [r \in Rules |-> NoClaim]

-----------------------------------------------------------------------------
\* What the documents of the day say, and whether the step comes to the event at all.
RulesNow == IF "rules" \in declared THEN RuleOn(today) ELSE {}
TradeNow == IF "transactions" \in declared THEN trade ELSE "absent"
Reached == "event" \in declared /\ declared \cap {"rules", "transactions"} # {}

\* MUTANT of Assessment: nobody asks whether the amount is known.
AssessmentWithoutRate ==
  CASE TradeNow \in {"absent", "unproven"} -> "INDETERMINATE"
    [] TradeNow = "ineligible" -> "NOT_APPLICABLE"
    [] OTHER -> "PROVEN"

\* The assessment of the transaction: only PROVEN opens a claim.
Assessment ==
  CASE TradeNow \in {"absent", "unproven"} \/ Cardinality(RulesNow) > 1 -> "INDETERMINATE"
    [] TradeNow \notin {"absent", "unproven"} /\ RulesNow = {} -> "MARKET_PRACTICE_REQUIRED"
    [] TradeNow = "ineligible" /\ Cardinality(RulesNow) = 1 -> "NOT_APPLICABLE"
    [] TradeNow = "eligible" /\ Cardinality(RulesNow) = 1 ->
         IF rate = 0 THEN "INDETERMINATE" ELSE "PROVEN"

Opened == IF Assessment = "PROVEN" THEN RulesNow ELSE {}
Fresh(r) == [NoClaim EXCEPT !.status = "EXPECTED", !.refs = {r, Tx}, !.amount = rate]

\* MUTANT of Merged: a claim takes the references of the day in place of its own.
MergedObserved == [r \in Rules |->
  CASE r \notin Opened -> NoClaim
    [] r \in Opened /\ claims[r] = NoClaim -> Fresh(r)
    [] OTHER -> [claims[r] EXCEPT !.amount = rate, !.refs = Fresh(r).refs]]

\* merge_claims: a claim that exists keeps its life; the assessment refreshes the amount
\* and the references.  A claim that is not assessed any more stays as it was.
Merged == [r \in Rules |->
  CASE r \notin Opened -> claims[r]
    [] r \in Opened /\ claims[r] = NoClaim -> Fresh(r)
    [] OTHER -> [claims[r] EXCEPT !.amount = rate, !.refs = Fresh(r).refs]]

-----------------------------------------------------------------------------
\* What a message says of a field, of the status it carries and of its references.
NoteKind(n) == CASE n.name = "seev.050" -> "CLAIM_CREATION"
               [] n.name = "seev.052" -> "CLAIM_STATUS"
               [] n.name = "seev.051" -> "CANCELLATION_REQUEST"
               [] n.name = "seev.053" -> "CANCELLATION_STATUS"

Vals(n, q) == {n.facts[i].v : i \in {j \in DOMAIN n.facts : n.facts[j].q = q}}
Val(n, q) == IF Cardinality(Vals(n, q)) = 1 THEN CHOOSE v \in Vals(n, q) : TRUE ELSE NoAnswer

Status052 == [AccptdForFrthrPrcg |-> "ACCEPTED", Pdg |-> "PENDING", MtchgSts |-> "MATCHING",
              Rjctd |-> "REJECTED", Canc |-> "CANCELLED", PrtrySts |-> "PROPRIETARY"]
Status053 == [CxlCmpltd |-> "CANCEL_COMPLETED", Accptd |-> "CANCEL_ACCEPTED",
              Rjctd |-> "CANCEL_REJECTED", PdgCxl |-> "CANCEL_PENDING", PrtrySts |-> "PROPRIETARY"]

\* _choice: the one element of the parent that the table knows.
Choice(tags, table) ==
  LET known == tags \cap DOMAIN table IN
  CASE known = {} -> "ABSENT"
    [] Cardinality(known) = 1 -> table[CHOOSE t \in known : TRUE]
    [] OTHER -> "CONFLICTING_CHOICE"

Creation(n) == [no |-> n.no, kind |-> NoteKind(n), says |-> "NOTIFIED",
                refs |-> {Val(n, q) : q \in ReferenceFields \cup {"RltdSttlmInstrId"}} \ {NoAnswer}]
StatusAdvice(n) == [no |-> n.no, kind |-> NoteKind(n), says |-> Choice(Vals(n, "MktClmPrcgSts"), Status052),
                    refs |-> {Val(n, q) : q \in ReferenceFields} \ {NoAnswer}]
Cancellation(n) == [no |-> n.no, kind |-> NoteKind(n), says |-> Choice(Vals(n, "MktClmCxlReqSts"), Status053),
                    refs |-> {Val(n, q) : q \in ReferenceFields} \ {NoAnswer}]

Projected(n) == CASE NoteKind(n) = "CLAIM_CREATION" -> Creation(n)
                  [] NoteKind(n) = "CLAIM_STATUS" -> StatusAdvice(n)
                  [] OTHER -> Cancellation(n)

\* The messages of the event, by the reference of the corporate action alone.
Addressed == {Projected(n) : n \in {m \in notes : Val(m, "CorpActnEvtId") = Corp}}

\* bind_claim: exactly one claim shares a reference with the message.
BoundTo(n, cs) == {r \in Rules : cs[r] # NoClaim /\ n.refs \cap (cs[r].refs \cup {r}) # {}}

\* The order they are applied in: by kind, then by number.
Turn(n) == CHOOSE i \in DOMAIN KindOrder : KindOrder[i] = n.kind
Earlier(a, b) == Turn(a) < Turn(b) \/ (Turn(a) = Turn(b) /\ a.no < b.no)
FinalNote(ns) == CHOOSE n \in ns : \A o \in ns : ~Earlier(n, o)

\* seev.050: the message is noted, its references with it; a conflicting amount is only audited.
Notification(c, n) ==
  LET noted == [c EXCEPT !.seen = @ \cup {n.no}, !.refs = @ \cup n.refs]
  IN  IF c.status = "EXPECTED" THEN Transition(noted, "NOTIFIED") ELSE noted

\* seev.051: the status to return to is written before the transition is tried.
CancelAsked(c) == Transition([c EXCEPT !.pre = c.status], "CANCELLATION_REQUESTED")

\* seev.053: the answer to the request.
Answer(c, n) ==
  CASE n.says \in {"CANCEL_ACCEPTED", "CANCEL_COMPLETED"} -> Transition(c, "CANCELLED")
    [] n.says = "CANCEL_REJECTED" /\ c.pre = "NONE" -> [c EXCEPT !.seen = @ \cup {n.no}]
    [] n.says = "CANCEL_REJECTED" /\ c.pre # "NONE" ->
         IF c.pre \in Edges[c.status] THEN [c EXCEPT !.status = c.pre, !.pre = "NONE"] ELSE c
    [] n.says = "CANCEL_PENDING" -> [c EXCEPT !.seen = @ \cup {n.no}]
    [] OTHER -> c

Heeded(c, n) ==
  CASE n.no \in c.seen -> c
    [] n.no \notin c.seen /\ n.kind = "CLAIM_CREATION" -> Notification(c, n)
    [] n.no \notin c.seen /\ n.kind = "CLAIM_STATUS" -> Transition(c, n.says)
    [] n.no \notin c.seen /\ n.kind = "CANCELLATION_REQUEST" -> CancelAsked(c)
    [] n.no \notin c.seen /\ n.kind = "CANCELLATION_STATUS" -> Answer(c, n)

\* Every message is bound before the first one is applied.
BoundNotes(cs) == {n \in Addressed : Cardinality(BoundTo(n, cs)) = 1}
HeedOne(cs, n, acc) == LET r == CHOOSE q \in BoundTo(n, cs) : TRUE
                       IN  [acc EXCEPT ![r] = Heeded(@, n)]
Applied(cs) == MapThenFoldSet(LAMBDA n, acc : HeedOne(cs, n, acc), cs, LAMBDA n : n, FinalNote, BoundNotes(cs))

-----------------------------------------------------------------------------
\* claim_recon binds movements by explicit reference only.
BoundMoves(c, r) == {v \in moves : v.ref \in c.refs \cup {r}}
Paid(vs) == MapThenSumSet(LAMBDA v : v.amount, vs)

ClaimRecon(c, r) ==
  LET vs == BoundMoves(c, r) IN
  CASE c = NoClaim \/ c.status \notin Settleable -> "NOT_SETTLEABLE"
    [] c.status \in Settleable /\ vs = {} -> "NO_SETTLEMENT_OBSERVED"
    [] c.status \in Settleable /\ \E v \in vs : v.fx -> "INDETERMINATE"
    [] OTHER -> IF Paid(vs) = c.amount THEN "MATCH" ELSE "AMOUNT_MISMATCH"

Settled(cs) == [r \in Rules |->
  CASE ClaimRecon(cs[r], r) = "MATCH" -> Transition(cs[r], "SETTLED")
    [] ClaimRecon(cs[r], r) = "AMOUNT_MISMATCH" -> Transition(cs[r], "PARTIALLY_SETTLED")
    [] OTHER -> cs[r]]

\* The step of a run.  A run that does not succeed in the end leaves the claims of the one
\* before it, and one that succeeds without a visit to the event leaves none.
RunClaims(succeeds) ==
  /\ claims' = IF ~succeeds THEN claims
               ELSE IF Reached THEN Settled(Applied(Merged)) ELSE [r \in Rules |-> NoClaim]
  /\ UNCHANGED <<notes, moves, declared, trade, rate, today, shifts>>

-----------------------------------------------------------------------------
\* What the inbox, the feeds, the configuration and the canon bring between runs.
NoteArrives(n) ==
  /\ Cardinality(notes) < MaxNotes /\ n \notin notes /\ notes' = notes \cup {n}
  /\ UNCHANGED <<moves, declared, trade, rate, today, shifts, claims>>

MoveBooked(v) ==
  /\ v \notin moves /\ moves' = moves \cup {v}
  /\ UNCHANGED <<notes, declared, trade, rate, today, shifts, claims>>

Shift ==
  /\ shifts < MaxShifts /\ shifts' = shifts + 1
  /\ \/ trade' \in Trades \ {trade} /\ UNCHANGED <<rate, declared>>
     \/ rate' \in (0..2) \ {rate} /\ UNCHANGED <<trade, declared>>
     \/ \E d \in declared : declared' = declared \ {d} /\ UNCHANGED <<trade, rate>>
  /\ UNCHANGED <<notes, moves, today, claims>>

\* A document that was missing is there again.
DocumentReturns ==
  /\ \E d \in Documents \ declared : declared' = declared \cup {d}
  /\ UNCHANGED <<notes, moves, trade, rate, today, shifts, claims>>

NextDay ==
  /\ today < LastClaimDay /\ today' = today + 1
  /\ UNCHANGED <<notes, moves, declared, trade, rate, shifts, claims>>

ClaimNext ==
  \/ \E ok \in BOOLEAN : RunClaims(ok)
  \/ \E n \in Notes : NoteArrives(n)
  \/ \E v \in Moves : MoveBooked(v)
  \/ Shift
  \/ DocumentReturns
  \/ NextDay

-----------------------------------------------------------------------------
ClaimTypeOK ==
  /\ notes \subseteq Notes /\ moves \subseteq Moves /\ declared \subseteq Documents /\ trade \in Trades
  /\ rate \in 0..2 /\ today \in 1..LastClaimDay /\ shifts \in 0..MaxShifts
  /\ \A r \in Rules : claims[r] = NoClaim \/
       ( /\ claims[r].status \in Statuses /\ claims[r].pre \in Statuses \cup {"NONE"}
         /\ claims[r].seen \subseteq {n.no : n \in Notes}
         /\ claims[r].refs \subseteq NoteRefs /\ claims[r].amount \in 1..2 )

Cancels(n) == (n.kind = "CLAIM_STATUS" /\ n.says = "CANCELLED")
              \/ (n.kind = "CANCELLATION_STATUS" /\ n.says \in {"CANCEL_ACCEPTED", "CANCEL_COMPLETED"})

(* A claim outlives its transaction, its rule and the loss of its rate: it is lost only *)
(* to a run that does not come to its event (see ClaimsKept), and while it lives its    *)
(* terminal status is final.  It becomes SETTLED only when the movements bound to it    *)
(* add up to what is expected that day, and CANCELLED only on a message that says so,   *)
(* a claim opened anew included (market_claim_case.py, market_claim_status.py,          *)
(* market_claim_recon.py).                                                              *)
ClaimStands(r) ==
  /\ (claims[r] # NoClaim /\ claims'[r] = NoClaim) => ~Reached
  /\ (claims[r].status \in ClaimTerminal /\ claims'[r] # NoClaim) => claims'[r].status = claims[r].status
  /\ (claims'[r].status = "SETTLED" /\ claims[r].status # "SETTLED") =>
        Paid(BoundMoves(claims'[r], r)) = claims'[r].amount
  /\ (claims'[r].status = "CANCELLED" /\ claims[r].status # "CANCELLED") =>
        \E n \in Addressed : Cancels(n)
ClaimsStep == \A r \in Rules : ClaimStands(r)
ClaimsStand == [][ClaimsStep]_mcVars

(* docs/p16/p162-conformance.md:79-80: "Claims previas se mergean sin borrar evidencia; *)
(* tx que desaparece del feed no elimina claims".                                       *)
ClaimsKept == [][\A r \in Rules : claims[r] # NoClaim => claims'[r] # NoClaim]_mcVars

(* docs/p16/p161-contracts.md: a merge keeps the binding references of the living claim, *)
(* those a seev.050 registered included.                                                 *)
BindingKept == [][\A r \in Rules : claims'[r] # NoClaim => claims[r].refs \subseteq claims'[r].refs]_mcVars

(* market_claim_status.py: a rejected cancellation restores the status before it, so that *)
(* no claim waits for an answer the inbox already holds.                                  *)
Rejected(n) == n.kind = "CANCELLATION_STATUS" /\ n.says = "CANCEL_REJECTED"
RejectionRestores == [][RunClaims(TRUE) /\ Reached =>
  \A r \in Rules : (\E n \in Addressed : Rejected(n) /\ BoundTo(n, claims) = {r}) =>
    claims'[r].status # "CANCELLATION_REQUESTED"]_mcVars

=============================================================================
