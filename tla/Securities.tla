------------------------------ MODULE Securities ------------------------------
(***************************************************************************)
(* Securities events, from the notice to the reconciliation (event_terms,  *)
(* securities_entitlement, security_impact, projected_positions and        *)
(* security_recon of src/ca_es; composed by _step_securities_events of     *)
(* ops_dag.py): what each position delivers and receives, the positions    *)
(* that leaves, and the movements the custodian reports.  Quantities are   *)
(* counted in halves of a share, so that a fraction is an odd number.      *)
(***************************************************************************)
EXTENDS Integers, Sequences, FiniteSets, SequencesExt, FiniteSetsExt

CONSTANTS
  Notices,    \* the MT564s that may arrive for the event
  Custody,    \* the lines a positions document may hold
  Elections,  \* what an account may elect: quantities and options
  Observable, \* the movements of MT566s
  SourceIsin, TargetIsin,
  RecordDate,
  MaxCustody, MaxObserved   \* bounds: lines, movements

\* An election is a quantity or an option.
NoElection == -1
CASH == -2
SECU == -3

SecuritiesAssumption ==
  /\ \A n \in Notices :
       /\ DOMAIN n = {"mechanism", "camv", "ok", "lacks", "new", "old", "disf"}
       /\ n.new \in Nat \ {0} /\ n.old \in Nat \ {0}
  /\ \A l \in Custody :
       DOMAIN l = {"account", "isin", "quantity", "asOf"} /\ l.quantity \in Int
  /\ Elections \subseteq Nat \cup {CASH, SECU}
  /\ \A m \in Observable :
       /\ DOMAIN m = {"account", "isin", "direction", "quantity"}
       /\ m.direction \in {"DELIVERY", "RECEIPT"} /\ m.quantity \in Int
  /\ MaxCustody \in Nat /\ MaxObserved \in Nat

VARIABLES
  notice,   \* the latest MT564
  lines,    \* the positions document, in order
  elected,  \* the election of each account
  observed  \* the movements of the MT566 candidates, in the order of the inbox

secVars == <<notice, lines, elected, observed>>
Holders == {l.account : l \in Custody}

SecInit ==
  /\ notice \in Notices
  /\ lines = <<>>
  /\ elected = [h \in Holders |-> NoElection]
  /\ observed = <<>>

----------------------------------------------------------------------------
\* build_event_terms.
ReceiptOnly == {"RIGHTS_DISTRIBUTION", "STOCK_DIVIDEND", "BONUS_ISSUE"}
Elective    == {"RIGHTS_EXERCISE", "SCRIP_DIVIDEND"}
MechanismCamv(mechanism) == IF mechanism \in Elective THEN {"CHOS", "VOLU"} ELSE {"MAND"}

Required(mechanism) ==
  {"record_date", "ratio", "isin", "target_isin"}
    \cup (IF mechanism = "RIGHTS_EXERCISE" THEN {"subscription_price"} ELSE {})
    \cup (IF mechanism = "SCRIP_DIVIDEND" THEN {"gross_per_share", "currency"} ELSE {})

TermsStatus ==
  IF ~notice.ok \/ notice.camv \notin MechanismCamv(notice.mechanism) THEN "UNSUPPORTED"
  ELSE IF notice.lacks \cap Required(notice.mechanism) # {} THEN "INCOMPLETE"
  ELSE "PROVEN"

----------------------------------------------------------------------------
\* _apply_disf: what the disposition makes of a fraction.  The dispositions that
\* ask for a cash leg need a price the terms never carry.
NoQuantity == -1
Resolved(raw, disf) ==
  IF raw % 2 = 0 THEN raw
  ELSE IF disf \in {"SECU", "DIST"} THEN raw
  ELSE IF disf = "RDDN" THEN raw - 1
  ELSE IF disf \in {"RDUP", "STAN"} THEN raw + 1
  ELSE NoQuantity

\* compute_securities_entitlements: the first check that fails decides; an
\* entitlement delivers and receives quantities.
Grant(status, out, in) == [status |-> status, out |-> out, in |-> in]
Received(base) == Resolved((base * notice.new) \div notice.old, notice.disf)

Receives(out, base) ==
  IF Received(base) = NoQuantity THEN Grant("INDETERMINATE", 0, 0)
  ELSE Grant("ENTITLED", out, Received(base))

Exercise(l) ==
  LET e == elected[l.account] IN
  CASE e < 0 \/ e > l.quantity -> Grant("INDETERMINATE", 0, 0)
    [] e = 0 -> Grant("NOT_ENTITLED", 0, 0)
    [] OTHER -> Receives(l.quantity, e)

Scrip(l) ==
  CASE elected[l.account] = SECU -> Receives(0, l.quantity)
    [] elected[l.account] = CASH -> Grant("ENTITLED", 0, 0)
    [] OTHER -> Grant("INDETERMINATE", 0, 0)

Entitlement(l) ==
  IF TermsStatus # "PROVEN" THEN Grant("UNSUPPORTED", 0, 0)
  ELSE IF l.quantity < 0 \/ l.isin # SourceIsin THEN Grant("INDETERMINATE", 0, 0)
  ELSE IF l.quantity = 0 THEN Grant("NOT_ENTITLED", 0, 0)
  ELSE IF l.asOf # RecordDate THEN Grant("INDETERMINATE", 0, 0)
  ELSE IF notice.mechanism \in ReceiptOnly THEN Receives(0, l.quantity)
  ELSE IF notice.mechanism = "RIGHTS_EXERCISE" THEN Exercise(l)
  ELSE IF notice.mechanism = "SCRIP_DIVIDEND" THEN Scrip(l)
  ELSE Receives(l.quantity, l.quantity)

----------------------------------------------------------------------------
\* compute_security_impact: the items of a position.  Two equal positions have
\* two equal cells, and neither can be told from the other.
Impact(n, kind, isin, delta) ==
  [line |-> n, kind |-> kind, account |-> lines[n].account, isin |-> isin, delta |-> delta,
   status |-> "PROJECTED"]
Undecided(n, status) == [Impact(n, "NONE", lines[n].isin, 0) EXCEPT !.status = status]
Ambiguous(n) == \E k \in DOMAIN lines : k # n /\ lines[k] = lines[n]

ImpactsOf(n) ==
  LET cell == Entitlement(lines[n]) IN
  IF Ambiguous(n) THEN {Undecided(n, "INDETERMINATE")}
  ELSE IF cell.status \in {"INDETERMINATE", "UNSUPPORTED"} THEN {Undecided(n, cell.status)}
  ELSE
         {IF cell.out > 0 THEN Impact(n, "DELIVERY", lines[n].isin, -cell.out)
          ELSE Impact(n, "UNCHANGED", lines[n].isin, 0)}
         \cup (IF cell.in > 0 THEN {Impact(n, "RECEIPT", TargetIsin, cell.in)} ELSE {})

Impacts == UNION {ImpactsOf(n) : n \in DOMAIN lines}
DeltaOf(items) == MapThenSumSet(LAMBDA i : i.delta, items)

\* MUTANT of ItemsFor: items are grouped by instrument alone.
ItemsForIsin(account, isin) == {i \in Impacts : i.isin = isin}

\* project_positions: a line takes the items of its account and instrument; the
\* least decided of them is the status of the line.
ItemsFor(account, isin) == {i \in Impacts : i.account = account /\ i.isin = isin}

LineStatus(n) ==
  LET statuses == {i.status : i \in ItemsFor(lines[n].account, lines[n].isin)}
  IN  IF "INDETERMINATE" \in statuses \/ statuses = {} THEN "INDETERMINATE"
      ELSE IF "UNSUPPORTED" \in statuses THEN "UNSUPPORTED"
      ELSE "PROJECTED"
ProjectedLine(n) ==
  lines[n].quantity + DeltaOf(ItemsFor(lines[n].account, lines[n].isin))

\* An instrument without a position is a new line.
Matched == {<<lines[n].account, lines[n].isin>> : n \in DOMAIN lines}
NewLine(account) == DeltaOf({i \in ItemsFor(account, TargetIsin) : i.status = "PROJECTED"})

----------------------------------------------------------------------------
\* reconcile_security_movements, by account, instrument and direction.
Authoritative == \A i \in Impacts : i.status = "PROJECTED"
Expectations(k) ==
  {i \in Impacts : i.status = "PROJECTED" /\ i.delta # 0 /\ <<i.account, i.isin, i.kind>> = k}
Reported(k) ==
  {n \in DOMAIN observed :
     <<observed[n].account, observed[n].isin, observed[n].direction>> = k}
ReconKeys ==
  {k \in Holders \X {SourceIsin, TargetIsin} \X {"DELIVERY", "RECEIPT"} :
     Expectations(k) # {} \/ Reported(k) # {}}
Magnitude(i) == IF i.delta < 0 THEN -i.delta ELSE i.delta

MovementStatus(k) ==
  LET exps == Expectations(k)
      acts == Reported(k)
  IN  IF Cardinality(exps) > 1 \/ Cardinality(acts) > 1 THEN "INDETERMINATE"
      ELSE IF acts = {} THEN "MISSING_SECURITY_MOVEMENT"
      ELSE IF exps = {} THEN IF Authoritative THEN "UNEXPECTED_SECURITY_MOVEMENT" ELSE "INDETERMINATE"
      ELSE IF \A i \in exps, n \in acts : observed[n].quantity = Magnitude(i) THEN "MATCH"
      ELSE "QUANTITY_MISMATCH"

----------------------------------------------------------------------------
NoticeReplaced ==
  /\ \E n \in Notices : notice' = n
  /\ UNCHANGED <<lines, elected, observed>>

PositionReported ==
  /\ Len(lines) < MaxCustody
  /\ \E l \in Custody : lines' = Append(lines, l)
  /\ UNCHANGED <<notice, elected, observed>>

Elected ==
  /\ \E h \in Holders, e \in Elections : elected' = [elected EXCEPT ![h] = e]
  /\ UNCHANGED <<notice, lines, observed>>

MovementObserved ==
  /\ Len(observed) < MaxObserved
  /\ \E m \in Observable : observed' = Append(observed, m)
  /\ UNCHANGED <<notice, lines, elected>>

SecNext == NoticeReplaced \/ PositionReported \/ Elected \/ MovementObserved

----------------------------------------------------------------------------
SecTypeOK ==
  /\ notice \in Notices
  /\ lines \in Seq(Custody) /\ Len(lines) <= MaxCustody
  /\ elected \in [Holders -> Elections \cup {NoElection}]
  /\ observed \in Seq(Observable) /\ Len(observed) <= MaxObserved

\* What an account holds of an instrument once the observed movements are booked.
HeldLine(n) == [line |-> n, delta |-> lines[n].quantity]
Moved(n) ==
  [movement |-> n,
   delta |-> IF observed[n].direction = "RECEIPT" THEN observed[n].quantity
             ELSE -observed[n].quantity]
LinesFor(account, isin) ==
  {n \in DOMAIN lines : lines[n].account = account /\ lines[n].isin = isin}
MovedFor(account, isin) ==
  {n \in DOMAIN observed : observed[n].account = account /\ observed[n].isin = isin}
HeldAfter(account, isin) ==
  DeltaOf({HeldLine(n) : n \in LinesFor(account, isin)})
    + DeltaOf({Moved(n) : n \in MovedFor(account, isin)})

\* The two readings of an event agree: when every position is decided and every
\* movement matches, booking the movements on the positions gives the projected
\* positions, line by line and for every new instrument (security_recon.py,
\* projected_positions.py).
MatchGivesProjection ==
  (Authoritative /\ \A k \in ReconKeys : MovementStatus(k) = "MATCH") =>
    /\ \A n \in DOMAIN lines :
         (\A k \in DOMAIN lines : k # n =>
             <<lines[k].account, lines[k].isin>> # <<lines[n].account, lines[n].isin>>)
         => ProjectedLine(n) = HeldAfter(lines[n].account, lines[n].isin)
    /\ \A h \in Holders : <<h, TargetIsin>> \notin Matched =>
         NewLine(h) = HeldAfter(h, TargetIsin)

\* projected_positions.py: one projected line for each position, with no
\* aggregation: a line moves by what its own position delivers and receives.
LineOfItsOwn ==
  \A n \in DOMAIN lines : LineStatus(n) = "PROJECTED" =>
    ProjectedLine(n) = lines[n].quantity
      + DeltaOf({i \in Impacts : i.line = n /\ i.isin = lines[n].isin})

\* securities_entitlement.py, _rights_exercise: rights that are not exercised
\* lapse: they are delivered and nothing is received.
UnexercisedLapse ==
  \A n \in DOMAIN lines :
    (notice.mechanism = "RIGHTS_EXERCISE" /\ TermsStatus = "PROVEN" /\ ~Ambiguous(n)
       /\ lines[n].isin = SourceIsin /\ lines[n].asOf = RecordDate
       /\ lines[n].quantity > 0 /\ elected[lines[n].account] = 0)
    => \E i \in ImpactsOf(n) : i.kind = "DELIVERY" /\ i.delta = -lines[n].quantity
=============================================================================
