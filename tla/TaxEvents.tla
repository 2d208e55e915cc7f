------------------------------ MODULE TaxEvents ------------------------------
(***************************************************************************)
(* Withholding tax (src/ca_es/tax_evidence.py, tax_rules.py,               *)
(* tax_profile.py, tax_entitlement.py, tax_recon.py; composed by           *)
(* _step_tax_events of ops_dag.py): what the messages of the inbox declare *)
(* about the tax of an event, the one rule and the one profile that apply  *)
(* to an account on the payment date, the net amount to expect, and the    *)
(* comparison with what the confirmations declare.                         *)
(*                                                                         *)
(* Every run derives everything anew while messages, configuration and     *)
(* facts change.  Rates are counted in halves of the basis and taxes in    *)
(* halves of the unit of currency.                                         *)
(***************************************************************************)
EXTENDS Integers, Sequences, FiniteSets, FiniteSetsExt, SequencesExt

CONSTANTS
  TaxMessages,   \* notices and confirmations that may be in the inbox
  TaxRules, TaxProfiles,
  FirstTaxRules, FirstProfiles, FirstGross,   \* the configuration at the start
  Owners,        \* accounts
  GrossAmounts,  \* what an account may be entitled to, 0 = not entitled
  TaxOptions,    \* options of the event
  TaxedEvent, NoBinding, NoOption, NoCurrency,
  MaxTaxChanges  \* bound: messages and changes, together

TaxAssumption ==
  /\ \A m \in TaxMessages :
       /\ DOMAIN m = {"no", "standard", "name", "event", "refs", "lines"}
       /\ m.lines \in Seq({m.lines[k] : k \in DOMAIN m.lines})
       /\ \A k \in DOMAIN m.lines : m.lines[k].kind \in {"rate", "amount"} /\ m.lines[k].value \in Int
  /\ \A r \in TaxRules :
       /\ DOMAIN r = {"id", "from", "to", "conds", "source", "rate", "basis", "round", "roundsIn"}
       /\ r.from \in Int /\ r.to \in Int /\ r.rate \in Int
       /\ r.source \in {"CONFIGURED", "SOURCE_DECLARED_RATE", "EXEMPT"}
  /\ \A p \in TaxProfiles : DOMAIN p = {"id", "account", "from", "to", "says"}
  /\ FirstTaxRules \subseteq TaxRules /\ FirstProfiles \subseteq TaxProfiles
  /\ FirstGross \in [Owners -> GrossAmounts] /\ GrossAmounts \subseteq Int
  /\ MaxTaxChanges \in Nat

VARIABLES
  taxInbox,  \* the messages, in the order of their rows
  ruleset,   \* rules of the tax_rules input
  owners,    \* profiles of the tax_profile input
  gross,     \* entitlement of each account
  payDay,    \* payment date of the event, 0 = unknown
  scope,     \* the option asked for, NoOption in a daily run
  taxChanges \* bookkeeping of the model

taxEventVars == <<taxInbox, ruleset, owners, gross, payDay, scope, taxChanges>>

TaxEventInit ==
  /\ taxInbox = <<>>
  /\ ruleset = FirstTaxRules
  /\ owners = FirstProfiles
  /\ gross = FirstGross
  /\ payDay = 1
  /\ scope = NoOption
  /\ taxChanges = 0

-----------------------------------------------------------------------------
(* The evidence: a notice is bound to its event by the identity it states; *)
(* any other message by the first reference a bound notice had before.     *)

Known(ref) == {n \in DOMAIN taxInbox : taxInbox[n].event # NoBinding /\ ref \in taxInbox[n].refs}
EventOfRef(ref) == taxInbox[Min(Known(ref))].event
Bindings(m) == {EventOfRef(ref) : ref \in {r \in m.refs : Known(r) # {}}}

\* The references of a message are of one event, or the order of its lines decides.
EventNamed(m) ==
  IF m.event # NoBinding THEN m.event
  ELSE IF Bindings(m) = {} THEN NoBinding ELSE CHOOSE e \in Bindings(m) : TRUE

\* The component that a qualifier or an element names; what is not listed is kept, unclassified.
TaxTypeOf(qualifier) ==
  CASE qualifier \in {"TAXR", "WTAX", "WHHO", "WhldgTaxRate", "WhldgTaxAmt"} -> "PRIMARY"
    [] qualifier \in {"WITL", "ScndLvlTax", "ScndLvlTaxAmt"} -> "SECOND"
    [] qualifier \in {"TAXB", "TaxblIncmPerDvddShr"} -> "BASIS"
    [] qualifier \in {"GRSS", "GrssAmt"} -> "GROSS"
    [] qualifier \in {"NETT", "NetAmt"} -> "NET"
    [] OTHER -> "UNCLASSIFIED"

\* An MT amount has the currency of its own field or none; an ISO 20022 amount without one
\* takes that of the first element of its kind in the message.
CurrencyOf(m, n) ==
  LET alike == {k \in DOMAIN m.lines : m.lines[k].qualifier = m.lines[n].qualifier
                                         /\ m.lines[k].currency # NoCurrency}
  IN  IF m.lines[n].kind # "amount" THEN NoCurrency
      ELSE IF m.standard = "MX" /\ m.lines[n].currency = NoCurrency /\ alike # {}
           THEN m.lines[Min(alike)].currency ELSE m.lines[n].currency

\* One item for a line, and its place: what is said of the event comes before what is
\* said of an option.
ItemsOf(n) ==
  LET m == taxInbox[n] IN
  {[at |-> <<n, IF m.lines[k].option = NoOption THEN 0 ELSE 1, k>>,
    type |-> TaxTypeOf(m.lines[k].qualifier), kind |-> m.lines[k].kind,
    option |-> m.lines[k].option, value |-> m.lines[k].value,
    currency |-> CurrencyOf(m, k)] : k \in DOMAIN m.lines}
SaidBefore(i, j) ==
  \E p \in 1..3 : i.at[p] < j.at[p] /\ \A q \in 1..(p - 1) : i.at[q] = j.at[q]
FirstSaid(items) == CHOOSE i \in items : \A j \in items : ~SaidBefore(j, i)

\* Notices announce, confirmations tell; no other message is evidence.
RoleOf(m) ==
  CASE m.name \in {"MT564", "seev.031"} -> "EXPECTED"
    [] m.name \in {"MT566", "seev.036"} -> "ACTUAL"
    [] OTHER -> "UNSUPPORTED"

\* What the messages of a role say of the event, item by item.
Telling(role) ==
  {n \in DOMAIN taxInbox : RoleOf(taxInbox[n]) = role /\ EventNamed(taxInbox[n]) = TaxedEvent}
Evidence(role) == UNION {ItemsOf(n) : n \in Telling(role)}

\* _tax_items: with an option asked for, what other options and the event say is left out.
InScope(item) == scope = NoOption \/ item.option = scope
Declared(type, kind) ==
  {i \in Evidence("EXPECTED") : i.type = type /\ i.kind \in kind /\ InScope(i)}

-----------------------------------------------------------------------------
(* The ruleset and the profile.                                            *)

InForce(w, day) == w.from <= day /\ day <= w.to
Touching(r, s) == r.from <= s.to /\ s.from <= r.to
Disjoint(r, s) == \E f \in DOMAIN r.conds \cap DOMAIN s.conds : r.conds[f] \cap s.conds[f] = {}

\* validate_ruleset: rules in force on one day have conditions no profile meets together.
Overlap(r, s) == Touching(r, s) /\ ~Disjoint(r, s)
ValidRules ==
  /\ ruleset # {}
  /\ \A r \in ruleset : r.from <= r.to
  /\ \A r, s \in ruleset : r # s => r.id # s.id /\ ~Overlap(r, s)

Active == {r \in ruleset : InForce(r, payDay)}
ProfilesOf(a) == {p \in owners : p.account = a /\ InForce(p, payDay)}
ProfileOf(a) == CHOOSE p \in ProfilesOf(a) : TRUE

\* conditions_satisfied: a field the profile lacks satisfies no condition.
Satisfies(p, r) == \A f \in DOMAIN r.conds : f \in DOMAIN p.says /\ p.says[f] \in r.conds[f]
Satisfied(a) == {r \in Active : Satisfies(ProfileOf(a), r)}
RuleFor(a) == CHOOSE r \in Satisfied(a) : TRUE

-----------------------------------------------------------------------------
(* tax_entitlement of one account: the first check that fails decides.     *)

ValuesOf(items) == {i.value : i \in items}

\* MUTANT of Rates: the first rate declared wins.
FirstRate == LET r == Declared("PRIMARY", {"rate"}) IN IF r = {} THEN {} ELSE {FirstSaid(r).value}
Rates == ValuesOf(Declared("PRIMARY", {"rate"}))

RateProblem(r) ==
  CASE r.source = "SOURCE_DECLARED_RATE" /\ Cardinality(Rates) > 1 -> "CONFLICTING"
    [] r.source = "SOURCE_DECLARED_RATE" /\ Rates = {} -> "INDETERMINATE"
    [] r.source = "CONFIGURED" /\ ~(Rates \subseteq {r.rate}) -> "CONFLICTING"
    [] OTHER -> "NONE"
RateOf(r) ==
  CASE r.source = "EXEMPT" -> 0
    [] r.source = "SOURCE_DECLARED_RATE" -> CHOOSE v \in Rates : TRUE
    [] OTHER -> r.rate

\* Entitlements and the event are in one currency.
LocalCurrency == "EUR"
Basis == Declared("BASIS", {"amount"})
BasisProblem(r) ==
  \/ r.basis = "EXPLICIT_BASIS"
       /\ (Cardinality(ValuesOf(Basis)) # 1 \/ FirstSaid(Basis).currency \notin {NoCurrency, LocalCurrency})
  \/ r.round # "NONE" /\ r.roundsIn # LocalCurrency

TaxStatus(a) ==
  IF ~ValidRules \/ gross[a] = 0 \/ payDay = 0 \/ Active = {} THEN "INDETERMINATE"
  ELSE IF Cardinality(ProfilesOf(a)) # 1 \/ Satisfied(a) = {} THEN "INDETERMINATE"
  ELSE IF Cardinality(Satisfied(a)) > 1 THEN "CONFLICTING"
  ELSE IF Declared("SECOND", {"rate", "amount"}) # {} THEN "UNSUPPORTED"
  ELSE IF RateProblem(RuleFor(a)) # "NONE" THEN RateProblem(RuleFor(a))
  ELSE IF BasisProblem(RuleFor(a)) THEN "INDETERMINATE"
  ELSE "CALCULATED"

BasisOf(a) ==
  IF RuleFor(a).basis = "EXPLICIT_BASIS" THEN CHOOSE v \in ValuesOf(Basis) : TRUE ELSE gross[a]
\* Down is toward zero and up away from it; a rate or an amount may be negative.
Rounded(raw, mode) ==
  CASE mode = "DOWN" -> IF raw < 0 THEN raw + (raw % 2) ELSE raw - (raw % 2)
    [] mode = "UP"   -> IF raw < 0 THEN raw - (raw % 2) ELSE raw + (raw % 2)
    [] OTHER -> raw
Withheld(a) == Rounded(BasisOf(a) * RateOf(RuleFor(a)), RuleFor(a).round)
ExpectedNet(a) == 2 * gross[a] - Withheld(a)

-----------------------------------------------------------------------------
(* tax_recon: each calculated tax against all the confirmations of the     *)
(* event; what no comparison used is unexpected.                           *)

Actual == Evidence("ACTUAL")
Withholdings(kind) ==
  {i \in Actual : /\ i.type = "PRIMARY" /\ i.kind = kind
                  /\ kind = "amount" => i.currency \in {NoCurrency, LocalCurrency}}

AmountStatus(a) ==
  IF Withholdings("amount") = {} THEN "MATCH"
  ELSE IF Cardinality(ValuesOf(Withholdings("amount"))) > 1 THEN "INDETERMINATE"
  ELSE IF ValuesOf(Withholdings("amount")) = {Withheld(a)} THEN "MATCH"
  ELSE "WITHHOLDING_AMOUNT_MISMATCH"
RateStatus(a) ==
  IF Withholdings("rate") = {} THEN "MATCH"
  ELSE IF Cardinality(ValuesOf(Withholdings("rate"))) > 1 THEN "INDETERMINATE"
  ELSE IF ValuesOf(Withholdings("rate")) = {RateOf(RuleFor(a))} THEN "MATCH"
  ELSE "WITHHOLDING_RATE_MISMATCH"

ComparedStatus(a) ==
  IF TaxStatus(a) # "CALCULATED" THEN "INDETERMINATE"
  ELSE IF Withholdings("amount") \cup Withholdings("rate") = {} THEN "MISSING_TAX_COMPONENT"
  ELSE IF AmountStatus(a) # "MATCH" THEN AmountStatus(a)
  ELSE RateStatus(a)

\* The confirmed components a comparison used up: the rates only when the amount agreed.
UsedBy(a) ==
  IF TaxStatus(a) # "CALCULATED" THEN {}
  ELSE Withholdings("amount") \cup (IF AmountStatus(a) = "MATCH" THEN Withholdings("rate") ELSE {})
Unexpected ==
  {i \in Actual \ UNION {UsedBy(a) : a \in Owners} : i.type \notin {"GROSS", "NET"}}

-----------------------------------------------------------------------------
Changed == taxChanges < MaxTaxChanges /\ taxChanges' = taxChanges + 1

MessageProcessed ==
  /\ Changed
  /\ \E m \in TaxMessages \ ToSet(taxInbox) : taxInbox' = Append(taxInbox, m)
  /\ UNCHANGED <<ruleset, owners, gross, payDay, scope>>

RulesEdited ==
  /\ Changed
  /\ \E r \in TaxRules : ruleset' = SymDiff(ruleset, {r})
  /\ UNCHANGED <<taxInbox, owners, gross, payDay, scope>>

ProfilesEdited ==
  /\ Changed
  /\ \E p \in TaxProfiles : owners' = SymDiff(owners, {p})
  /\ UNCHANGED <<taxInbox, ruleset, gross, payDay, scope>>

FactsMoved ==
  /\ Changed
  /\ \/ \E a \in Owners, v \in GrossAmounts : gross' = [gross EXCEPT ![a] = v] /\ UNCHANGED payDay
     \/ \E d \in 0..2 : payDay' = d /\ UNCHANGED gross
  /\ UNCHANGED <<taxInbox, ruleset, owners, scope>>

OptionAsked ==
  /\ Changed
  /\ \E o \in TaxOptions \cup {NoOption} : scope' = o
  /\ UNCHANGED <<taxInbox, ruleset, owners, gross, payDay>>

TaxEventNext ==
  MessageProcessed \/ RulesEdited \/ ProfilesEdited \/ FactsMoved \/ OptionAsked

-----------------------------------------------------------------------------
TaxEventTypeOK ==
  /\ taxInbox \in Seq(TaxMessages) /\ ruleset \subseteq TaxRules
  /\ owners \subseteq TaxProfiles /\ gross \in [Owners -> GrossAmounts] /\ payDay \in 0..2
  /\ scope \in TaxOptions \cup {NoOption} /\ taxChanges \in 0..MaxTaxChanges

(* A net amount is expected only where nothing contradicts it: whatever messages, rules, *)
(* profiles and facts came in whatever order, a calculated tax rests on the only rule of *)
(* a valid ruleset that the only profile in force meets on the payment date, no message  *)
(* of the event declares another rate for it or a second tax (but for an exempt rule,    *)
(* with which no declared rate is compared: tax_entitlement.py:296-297), a rate that is  *)
(* not negative never withholds less than nothing, and tax and net make up the gross;    *)
(* and no profile meets two rules of a ruleset that was found valid (tax_entitlement.py, *)
(* tax_rules.py, validate_ruleset).                                                      *)
NetIsBacked ==
  \A a \in Owners :
    /\ (ValidRules /\ ProfilesOf(a) # {} /\ payDay # 0) =>
         \A p \in ProfilesOf(a) : Cardinality({r \in Active : Satisfies(p, r)}) <= 1
    /\ TaxStatus(a) = "CALCULATED" =>
         LET mine == {i \in Evidence("EXPECTED") : InScope(i)} IN
         /\ ~\E i \in mine : i.type = "SECOND"
         /\ RuleFor(a).source # "EXEMPT" =>
              \A i \in mine : (i.type = "PRIMARY" /\ i.kind = "rate") => i.value = RateOf(RuleFor(a))
         /\ BasisOf(a) >= 0 /\ RateOf(RuleFor(a)) >= 0 => Withheld(a) >= 0
         /\ Withheld(a) + ExpectedNet(a) = 2 * gross[a]

(* A confirmation is heard: a tax that matches agrees with every confirmation of the     *)
(* event in its currency, and every component a confirmation declares is either compared *)
(* in an item or listed as unexpected (tax_recon.py, used).                              *)
ConfirmationHeard ==
  /\ \A a \in Owners : ComparedStatus(a) = "MATCH" =>
       /\ ValuesOf(Withholdings("amount")) \subseteq {Withheld(a)}
       /\ ValuesOf(Withholdings("rate")) \subseteq {RateOf(RuleFor(a))}
  /\ \A i \in Actual : i.type \in {"GROSS", "NET"} \/ i \in Unexpected
       \/ \E a \in Owners : /\ TaxStatus(a) = "CALCULATED"
                            /\ i \in Withholdings("amount")
                                 \/ (i \in Withholdings("rate") /\ AmountStatus(a) = "MATCH")

\* No net is expected without grounds, where a rate that a message declares against an
\* exempt rule is no ground, and no confirmation goes unheard.
TaxAccounted == NetIsBacked /\ ConfirmationHeard

(* tax_entitlement.py, header: a rate that the source declares and that differs from the *)
(* configured rule is CONFLICTING; there is no arbitrary winner.                          *)
DeclaredRateHeeded ==
  \A a \in Owners : TaxStatus(a) = "CALCULATED" => Rates \subseteq {RateOf(RuleFor(a))}
=============================================================================
