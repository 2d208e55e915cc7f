------------------------------- MODULE Election -------------------------------
(***************************************************************************)
(* Elective events, command by command (election.py, mx_ca.py,             *)
(* election_eligibility.py, election_instruction.py, mt565.py, seev033.py, *)
(* instruction_status.py, mx_status.py of src/ca_es, and bind_event of     *)
(* swift_ca.py): the options a notice offers, what each position may       *)
(* elect, the instruction, the message that carries it and the advice that *)
(* answers it.  Each command reads files that earlier commands wrote while *)
(* the canon, the notice, the positions and the rules are revised.         *)
(*                                                                         *)
(* A document names its inputs by hash; the model keeps the input itself,  *)
(* and of a notice what its projection reads: the fields, [q, v] each, and *)
(* the options in their order.                                             *)
(***************************************************************************)
EXTENDS Integers, Sequences, FiniteSets

CONSTANTS
  Canons,        \* what the canon may be: sets of events
  ElectNotices,  \* what the source may send: [no, standard, says, options]
  Positions,     \* what the positions document may be: sequences of lines
  RuleSets,      \* what the rules may be: sets of rules
  FirstCanon, FirstNotice, FirstPositions, FirstRuleSet,
  NoId, NoCanonEvent, NoDoc,
  NoField,       \* a field that is absent, or given twice in different words
  Requests,      \* instruction requests
  Advices,       \* status advices: references, the choices of a status block
  MaxRevisions,  \* bound: revisions of the inputs
  MaxWritten     \* bound: messages written

NoDate == 0
DatesDiffer == -1

ASSUME ElectionAssumption ==
  /\ \A c \in Canons :
       /\ IsFiniteSet(c)
       /\ \A e \in c : /\ DOMAIN e = {"id", "type", "isin", "dates"} /\ e.id # NoCanonEvent
                      /\ DOMAIN e.dates = {"ex", "rec"} /\ \A f \in c : f.id = e.id => f = e
  /\ \A n \in ElectNotices :
       DOMAIN n = {"no", "standard", "says", "options"} /\ IsFiniteSet(DOMAIN n.options)
  /\ \A d \in Positions :
       /\ IsFiniteSet(DOMAIN d)
       /\ \A k \in DOMAIN d : /\ DOMAIN d[k] = {"account", "isin", "quantity", "asOf"}
                              /\ d[k].quantity \in Int
  /\ \A rs \in RuleSets :
       /\ IsFiniteSet(rs)
       /\ \A r \in rs : DOMAIN r = {"id", "kinds", "field", "full"} /\ r.field \in {"ex", "rec"}
  /\ FirstCanon \in Canons /\ FirstNotice \in ElectNotices
  /\ FirstPositions \in Positions /\ FirstRuleSet \in RuleSets
  /\ \A q \in Requests : DOMAIN q = {"id", "account", "option", "quantity"} /\ q.quantity \in Int
  /\ MaxRevisions \in Nat /\ MaxWritten \in Nat

VARIABLES
  canonDoc, latestNotice, positionsDoc, rulesDoc,   \* the inputs now
  opportunity, eligibility, instruction,            \* the files of the commands
  written,      \* messages handed to the writer
  advice,       \* what the status document of the first advice says
  revisions     \* bookkeeping of the model

inputVars == <<canonDoc, latestNotice, positionsDoc, rulesDoc>>
electVars == <<inputVars, opportunity, eligibility, instruction, written, advice, revisions>>

-----------------------------------------------------------------------------
\* project_ca_message, project_mx_message: what a notice says.
FieldValues(n, q) == {n.says[i].v : i \in {j \in DOMAIN n.says : n.says[j].q = q}}
Field(n, q) == IF Cardinality(FieldValues(n, q)) = 1 THEN CHOOSE v \in FieldValues(n, q) : TRUE ELSE NoField
DateIn(n, q) == IF Field(n, q) = NoField THEN NoDate ELSE Field(n, q)

CaevMap == [DVCA |-> "CASH_DIVIDEND", SPLF |-> "SPLIT", SPLR |-> "SPLIT", RHDI |-> "RIGHTS_ISSUE",
            EXRI |-> "RIGHTS_ISSUE", DVSE |-> "STOCK_DIVIDEND", DVOP |-> "SCRIP_DIVIDEND",
            BONU |-> "CAPITAL_INCREASE"]
EventType(caev) == IF caev \in DOMAIN CaevMap THEN CaevMap[caev] ELSE NoField

MtMessage(n) ==
  [no |-> n.no, standard |-> "MT", type |-> EventType(Field(n, "22F:CAEV")), isin |-> Field(n, "35B"),
   dates |-> [ex |-> DateIn(n, "98A:XDTE"), rec |-> DateIn(n, "98A:RDTE")],
   options |-> n.options, corps |-> FieldValues(n, "20C:CORP")]
MxMessage(n) ==
  [no |-> n.no, standard |-> "MX", type |-> EventType(Field(n, "EvtTp")), isin |-> Field(n, "ISIN"),
   dates |-> [ex |-> DateIn(n, "ExDvddDt"), rec |-> DateIn(n, "RcrdDt")],
   options |-> n.options, corps |-> FieldValues(n, "CorpActnEvtId")]
CaMessage(n) == IF n.standard = "MT" THEN MtMessage(n) ELSE MxMessage(n)

ElectInit ==
  /\ canonDoc = FirstCanon /\ latestNotice = CaMessage(FirstNotice)
  /\ positionsDoc = FirstPositions /\ rulesDoc = FirstRuleSet
  /\ opportunity = NoDoc /\ eligibility = NoDoc /\ instruction = NoDoc
  /\ written = {} /\ advice = NoDoc /\ revisions = 0

-----------------------------------------------------------------------------
(* bind_event: the instrument and the type name the event; dates are asked *)
(* only where these name several.                                          *)

Named(n, canon) == {e \in canon : e.type = n.type /\ e.isin = n.isin}
Consistent(n, e) ==
  \A f \in DOMAIN n.dates : n.dates[f] = NoDate \/ e.dates[f] \in {NoDate, DatesDiffer, n.dates[f]}
Narrowed(n, canon) ==
  IF Cardinality(Named(n, canon)) <= 1 THEN Named(n, canon)
  ELSE {e \in Named(n, canon) : Consistent(n, e)}

Bound(n, canon) ==
  IF n.type # NoField /\ Cardinality(Narrowed(n, canon)) = 1
  THEN (CHOOSE e \in Narrowed(n, canon) : TRUE).id ELSE NoCanonEvent

\* project_election, project_mx_election: an option needs one identifier of its own.  In a
\* seev.031 an option without one is skipped and noted; in an MT564 its facts are orphans
\* before the first identifier and those of the option before it after that.
Identified(n) == {k \in DOMAIN n.options : n.type # NoField /\ n.options[k].id # NoId}
Twice(n) == \E i, j \in Identified(n) : i # j /\ n.options[i].id = n.options[j].id
Unidentified(n) ==
  \E k \in DOMAIN n.options :
    /\ n.options[k].id = NoId
    /\ (n.standard = "MT" /\ k > 1) => n.options[k].kind # n.options[k - 1].kind
Unclear(n) ==
  \/ Identified(n) = {} \/ Unidentified(n) \/ Twice(n)
  \/ \E k \in DOMAIN n.options : ~n.options[k].clear

\* The deadlines an action queue may add to the document are left out: nothing reads them.
Opportunity(n, canon) ==
  LET event == Bound(n, canon) IN
  [canon |-> canon, notice |-> n, event |-> event,
   options |-> {n.options[k] : k \in Identified(n)},
   projected |-> event # NoCanonEvent /\ ~Unclear(n)]

-----------------------------------------------------------------------------
(* compute_election_eligibility: a cell for each position and option; the  *)
(* first check that fails decides.                                         *)

EventOf(id, canon) == CHOOSE e \in canon : e.id = id
Duplicate(lines, k) ==
  \E j \in DOMAIN lines : /\ j # k /\ lines[j].account = lines[k].account
                          /\ lines[j].isin = lines[k].isin /\ lines[j].asOf = lines[k].asOf
Applicable(option, rules) == {r \in rules : option.kind \in r.kinds}
RuleOf(option, rules) == CHOOSE r \in Applicable(option, rules) : TRUE

\* The date on which the rule wants the position held.
BasisDay(option, rules, event) == event.dates[RuleOf(option, rules).field]

Snapshot(line, day) == day \notin {NoDate, DatesDiffer} /\ line.asOf = day

CellStatus(opp, lines, rules, k, option) ==
  IF ~opp.projected \/ ~(\E e \in opp.canon : e.id = opp.event) THEN "INDETERMINATE"
  ELSE IF option.kind = "UNSUPPORTED" THEN "UNSUPPORTED"
  ELSE IF Duplicate(lines, k) \/ lines[k].isin # EventOf(opp.event, opp.canon).isin THEN "INDETERMINATE"
  ELSE IF Cardinality(Applicable(option, rules)) # 1 THEN "INDETERMINATE"
  ELSE IF ~RuleOf(option, rules).full THEN "UNSUPPORTED"
  ELSE IF ~Snapshot(lines[k], BasisDay(option, rules, EventOf(opp.event, opp.canon))) THEN "INDETERMINATE"
  ELSE IF lines[k].quantity < 0 THEN "INDETERMINATE"
  ELSE IF lines[k].quantity = 0 THEN "NOT_ELIGIBLE"
  ELSE "ELIGIBLE"

Cells(opp, lines, rules) ==
  {[line |-> k, account |-> lines[k].account, isin |-> lines[k].isin, option |-> o.id,
    kind |-> o.kind, status |-> CellStatus(opp, lines, rules, k, o),
    quantity |-> lines[k].quantity] : k \in DOMAIN lines, o \in opp.options}

-----------------------------------------------------------------------------
(* build_instruction: only the whole of what is eligible may be elected.   *)

Mismatch(elig, opp) ==
  elig.canon # opp.canon \/ elig.notice # opp.notice \/ elig.event # opp.event
Matches(elig, q) == {c \in elig.cells : c.account = q.account /\ c.option = q.option}
Cell(elig, q) == CHOOSE c \in Matches(elig, q) : TRUE

InstructionStatus(elig, opp, q) ==
  IF Cardinality(Matches(elig, q)) # 1 THEN "INDETERMINATE"
  ELSE IF ~(\E o \in opp.options : o.id = q.option) THEN "INDETERMINATE"
  ELSE IF Cell(elig, q).kind = "UNSUPPORTED" THEN "UNSUPPORTED"
  ELSE IF Cell(elig, q).status # "ELIGIBLE" THEN "INDETERMINATE"
  ELSE IF q.quantity > Cell(elig, q).quantity THEN "INDETERMINATE"
  ELSE IF q.quantity < Cell(elig, q).quantity THEN "UNSUPPORTED"
  ELSE "READY"

Instruction(elig, opp, q) ==
  [request |-> q, status |-> InstructionStatus(elig, opp, q), event |-> elig.event,
   cell |-> IF Cardinality(Matches(elig, q)) = 1 THEN Cell(elig, q) ELSE NoDoc,
   canon |-> elig.canon, positions |-> elig.positions, notice |-> elig.notice]

-----------------------------------------------------------------------------
(* mt565_project and seev033_project: the instruction and the notice it    *)
(* answers; an MT565 answers an MT564.                                     *)

\* MUTANT of SameNotice: the facts are taken as they come.
AnyNotice(ins, n) == ins.notice.type = n.type
SameNotice(ins, n) == ins.notice = n

\* The message, where nothing it needs is missing or said twice.
Mt565(ins, n) ==
  [standard |-> "MT", id |-> ins.request.id, corps |-> n.corps, isin |-> ins.cell.isin,
   account |-> ins.request.account, option |-> ins.request.option, quantity |-> ins.request.quantity]
Seev033(ins, n) == [Mt565(ins, n) EXCEPT !.standard = "MX"]

MtSerializable(ins, n) == ins.status = "READY" /\ n.standard = "MT" /\ Cardinality(n.corps) = 1
MxSerializable(ins, n) == ins.status = "READY" /\ Cardinality(n.corps) = 1

\* bind_instruction_status, bind_mx_instruction_status: by the one reference alone.
AdviceBinding(ins, a) ==
  CASE a = {} -> "INSUFFICIENT_IDENTITY"
    [] a = {ins.request.id} -> "BOUND"
    [] ins.request.id \in a /\ Cardinality(a) > 1 -> "AMBIGUOUS"
    [] OTHER -> "NO_MATCH"

\* What one status block says, in the words of either standard.
Normalized(choices) ==
  CASE choices \in {{"PACK"}, {"AccptdForFrthrPrcg"}} -> "ACCEPTED"
    [] choices \in {{"REJT"}, {"Rjctd"}} -> "REJECTED"
    [] choices \in {{"PEND"}, {"Pdg"}} -> "PENDING"
    [] choices \in {{"DFLA"}, {"DfltActn"}} -> "DEFAULT_ACTION_APPLIED"
    [] OTHER -> "UNSUPPORTED"

-----------------------------------------------------------------------------
Revised == revisions < MaxRevisions /\ revisions' = revisions + 1
Files == <<opportunity, eligibility, instruction, written, advice>>

InputRevised ==
  /\ Revised
  /\ \/ /\ canonDoc' \in Canons \ {canonDoc}
        /\ UNCHANGED <<latestNotice, positionsDoc, rulesDoc>>
     \/ /\ \E n \in ElectNotices : n.no # latestNotice.no /\ latestNotice' = CaMessage(n)
        /\ UNCHANGED <<canonDoc, positionsDoc, rulesDoc>>
     \/ /\ positionsDoc' \in Positions \ {positionsDoc}
        /\ UNCHANGED <<canonDoc, latestNotice, rulesDoc>>
     \/ /\ rulesDoc' \in RuleSets \ {rulesDoc}
        /\ UNCHANGED <<canonDoc, latestNotice, positionsDoc>>
  /\ UNCHANGED Files

ProjectElection ==
  /\ opportunity' = Opportunity(latestNotice, canonDoc)
  /\ UNCHANGED <<inputVars, eligibility, instruction, written, advice, revisions>>

ComputeEligibility ==
  /\ opportunity # NoDoc /\ opportunity.canon = canonDoc
  /\ eligibility' = [canon |-> canonDoc, positions |-> positionsDoc, notice |-> opportunity.notice,
                     event |-> opportunity.event,
                     cells |-> Cells(opportunity, positionsDoc, rulesDoc)]
  /\ UNCHANGED <<inputVars, opportunity, instruction, written, advice, revisions>>

BuildInstruction ==
  /\ eligibility # NoDoc /\ opportunity # NoDoc /\ ~Mismatch(eligibility, opportunity)
  /\ \E q \in Requests : instruction' = Instruction(eligibility, opportunity, q)
  /\ UNCHANGED <<inputVars, opportunity, eligibility, written, advice, revisions>>

Handed(message) ==
  /\ Cardinality(written) < MaxWritten
  /\ written' = written \cup {[instruction |-> instruction, message |-> message]}
  /\ UNCHANGED <<inputVars, opportunity, eligibility, instruction, advice, revisions>>

WriteMt565 ==
  /\ instruction # NoDoc /\ SameNotice(instruction, latestNotice)
  /\ MtSerializable(instruction, latestNotice) /\ Handed(Mt565(instruction, latestNotice))

WriteSeev033 ==
  /\ instruction # NoDoc /\ SameNotice(instruction, latestNotice)
  /\ MxSerializable(instruction, latestNotice) /\ Handed(Seev033(instruction, latestNotice))

\* The counterparty answers what was sent; the operator binds the answer to the file at hand.
AdviceReceived ==
  /\ written # {} /\ advice = NoDoc
  /\ \E a \in Advices :
       advice' = [refs |-> a.refs, binding |-> AdviceBinding(instruction, a.refs),
                  status |-> Normalized(a.says),
                  event |-> IF AdviceBinding(instruction, a.refs) = "BOUND" THEN instruction.event
                            ELSE NoCanonEvent]
  /\ UNCHANGED <<inputVars, opportunity, eligibility, instruction, written, revisions>>

ElectNext ==
  InputRevised \/ ProjectElection \/ ComputeEligibility \/ BuildInstruction
    \/ WriteMt565 \/ WriteSeev033 \/ AdviceReceived
ElectSpec == ElectInit /\ [][ElectNext]_electVars

-----------------------------------------------------------------------------
ElectTypeOK ==
  /\ canonDoc \in Canons /\ (\E n \in ElectNotices : n.no = latestNotice.no) /\ positionsDoc \in Positions
  /\ rulesDoc \in RuleSets
  /\ opportunity = NoDoc \/ opportunity.event \in {e.id : e \in opportunity.canon} \cup {NoCanonEvent}
  /\ instruction = NoDoc \/ instruction.status \in {"READY", "INDETERMINATE", "UNSUPPORTED"}
  /\ Cardinality(written) <= MaxWritten /\ revisions \in 0..MaxRevisions
  /\ advice = NoDoc \/ advice.status \in {"ACCEPTED", "REJECTED", "PENDING", "DEFAULT_ACTION_APPLIED",
                                            "UNSUPPORTED"}

(* What was sent is what was held: whichever commands were run on files of whatever age, *)
(* a message that was written carries the reference of the notice whose option it        *)
(* elects; that notice names one event of the canon its lineage names, and the quantity  *)
(* is all the account holds of the event's instrument in the one line of the positions   *)
(* document of its lineage that is dated on a date of that event (mt565.py,              *)
(* INSTRUCTION_FACTS_MISMATCH; election_instruction.py, election_eligibility.py).        *)
ElectionBacked ==
  \A w \in written :
    LET i == w.instruction
        event == EventOf(i.event, i.canon)
        held == {k \in DOMAIN i.positions :
                   /\ i.positions[k].account = w.message.account
                   /\ i.positions[k].isin = w.message.isin /\ w.message.isin = event.isin
                   /\ \E f \in DOMAIN event.dates : i.positions[k].asOf = event.dates[f]}
    IN  /\ w.message.corps = i.notice.corps
        /\ \A e \in i.canon \ {event} : e \notin Named(i.notice, i.canon) \/ ~Consistent(i.notice, e)
        /\ Cardinality({n \in DOMAIN i.notice.options : i.notice.options[n].id = w.message.option}) = 1
        /\ \E k \in held : i.positions[k].quantity = w.message.quantity /\ held = {k}

(* docs/p5: the event a notice is bound to does not contradict its dates. *)
BindingAgrees ==
  opportunity # NoDoc /\ opportunity.projected =>
    Consistent(opportunity.notice, EventOf(opportunity.event, opportunity.canon))
=============================================================================
