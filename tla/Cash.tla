--------------------------------- MODULE Cash ---------------------------------
(***************************************************************************)
(* Cash dividends: the entitlement of each position                        *)
(* (src/ca_es/entitlement_engine.py) and the reconciliation of the cash    *)
(* that was booked against them (src/ca_es/reconciliation.py), for one     *)
(* event whose facts the sources revise while positions and movements are  *)
(* delivered.  Amounts are small integers: the code compares exact         *)
(* decimals.                                                               *)
(***************************************************************************)
EXTENDS Integers, Sequences, FiniteSets, SequencesExt

CONSTANTS
  Lines,       \* the lines a positions document may hold
  Bookings,    \* the movements a custodian may book
  EventIsins,  \* instruments of the event
  RecordDays,  \* record dates the sources may state
  MaxDelivered \* bound: lines and movements of the two documents, together

Absent == 0        \* no value; also a field with no source
Conflicting == -1  \* two sources, two values
RATE == 1          \* gross amount per share; the revised one is twice that

CashAssumption ==
  /\ \A l \in Lines : {"account", "isin", "quantity", "asOf"} = DOMAIN l
  /\ \A m \in Bookings :
       {"no", "account", "event", "isin", "currency", "amount", "basis"} = DOMAIN m
  /\ RecordDays \subseteq Nat \ {0}
  /\ MaxDelivered \in Nat

VARIABLES
  perShare,  \* current state of amount.gross_per_share
  recordDay, \* current state of date.record_date
  held,      \* the positions document, in order
  booked,    \* the movements document
  netKnown   \* accounts whose expected net amount the tax engine knows

cashVars == <<perShare, recordDay, held, booked, netKnown>>
Accounts == {l.account : l \in Lines}

CashInit ==
  /\ perShare = Absent
  /\ recordDay = Absent
  /\ held = <<>>
  /\ booked = {}
  /\ netKnown = {}

----------------------------------------------------------------------------
\* _entitlement: the first check that fails decides.
Refusal(l) ==
  IF l.quantity < 0 THEN "NEGATIVE_QUANTITY_UNSUPPORTED"
  ELSE IF perShare \in {Absent, Conflicting} THEN "GROSS_AMOUNT"
  ELSE IF recordDay \in {Absent, Conflicting} THEN "RECORD_DATE"
  ELSE IF l.isin \notin EventIsins THEN "NO_POSITION_FOR_INSTRUMENT"
  ELSE IF l.quantity = 0 THEN "ZERO_QUANTITY"
  ELSE IF l.asOf # recordDay THEN "POSITION_SNAPSHOT"
  ELSE "NONE"

IsEntitled(l) == Refusal(l) = "NONE"
GrossCash(l) == perShare * l.quantity

\* Every expected amount is in the currency of the event.  The net amount is the
\* gross one less one unit.
Currency == "EUR"
NetCash(l) == GrossCash(l) - 1

\* A movement names the event, or else an instrument.
ReferencesEvent(m, l) == IF m.event THEN TRUE ELSE m.isin = l.isin
Linked(m, l)   == m.account = l.account /\ ReferencesEvent(m, l)
KeyMatch(m, l) == Linked(m, l) /\ m.currency = Currency

ValidMovements == {m \in booked : m.event \/ m.isin # Absent}

\* Entitlements of one account and currency cannot share the cash out.
Twinned(n) ==
  \E k \in DOMAIN held : k # n /\ held[k].account = held[n].account /\ IsEntitled(held[k])

Compared(actual, expected) == IF actual = expected THEN "MATCH" ELSE "AMOUNT_MISMATCH"

\* The status of an entitlement with one movement.
OnlyMatch(l, m) ==
  CASE m.basis = "GROSS" -> Compared(m.amount, GrossCash(l))
    [] m.basis = "NET" /\ l.account \in netKnown -> Compared(m.amount, NetCash(l))
    [] OTHER -> "INDETERMINATE"

\* MUTANT of Taken: what an earlier item took is looked at again.
TakenAgain(n, used) ==
  LET l == held[n] IN
  IF IsEntitled(l) THEN {m \in ValidMovements : KeyMatch(m, l)}
  ELSE {m \in ValidMovements : Linked(m, l)}

\* The movements an entitlement takes, of those no earlier one took.
Taken(n, used) ==
  LET l == held[n] IN
  IF ~IsEntitled(l) THEN {m \in ValidMovements \ used : Linked(m, l)}
  ELSE IF Twinned(n) THEN {m \in ValidMovements : KeyMatch(m, l)}
  ELSE {m \in ValidMovements \ used : KeyMatch(m, l)}

CashStatus(n, took) ==
  IF ~IsEntitled(held[n]) \/ Twinned(n) \/ Cardinality(took) > 1 THEN "INDETERMINATE"
  ELSE IF took = {} THEN "MISSING_CASH"
  ELSE OnlyMatch(held[n], CHOOSE m \in took : TRUE)

Item(n, status, took) == [line |-> n, status |-> status, movements |-> took]

\* reconcile: the entitlements in the order of the document, then the cash that
\* nobody expects.
Visit(done, n) ==
  LET took == Taken(n, done.used)
  IN  [used |-> done.used \cup took,
       items |-> done.items \cup {Item(n, CashStatus(n, took), took)}]
Visited == FoldLeft(Visit, [used |-> {}, items |-> {}], [n \in DOMAIN held |-> n])
Reconciled ==
  Visited.items
    \cup {Item(Absent, "UNEXPECTED_CASH", {m}) : m \in ValidMovements \ Visited.used}

----------------------------------------------------------------------------
FactsRevised ==
  /\ perShare' \in {Absent, Conflicting, RATE, 2 * RATE}
  /\ recordDay' \in {Absent, Conflicting} \cup RecordDays
  /\ UNCHANGED <<held, booked, netKnown>>

LineDelivered ==
  /\ Len(held) + Cardinality(booked) < MaxDelivered
  /\ \E l \in Lines : held' = Append(held, l)
  /\ UNCHANGED <<perShare, recordDay, booked, netKnown>>

CashBooked ==
  /\ Len(held) + Cardinality(booked) < MaxDelivered
  /\ \E m \in Bookings \ booked : booked' = booked \cup {m}
  /\ UNCHANGED <<perShare, recordDay, held, netKnown>>

NetComputed ==
  /\ \E a \in Accounts \ netKnown : netKnown' = netKnown \cup {a}
  /\ UNCHANGED <<perShare, recordDay, held, booked>>

CashNext == FactsRevised \/ LineDelivered \/ CashBooked \/ NetComputed

----------------------------------------------------------------------------
CashTypeOK ==
  /\ perShare \in {Absent, Conflicting, RATE, 2 * RATE}
  /\ recordDay \in {Absent, Conflicting} \cup RecordDays
  /\ held \in Seq(Lines) /\ booked \subseteq Bookings /\ netKnown \subseteq Accounts

\* The items of a reconciliation that mention a movement.
Mentions(items, m) == {i \in items : m \in i.movements}

\* No cash is lost and none counts twice: whatever was delivered and revised,
\* every valid movement is in exactly one item of the reconciliation, but for
\* those of twinned entitlements, and a MATCH rests on one movement that no other
\* item explains (reconcile's used).
CashCountedOnce ==
  LET items == Reconciled IN
  \A m \in ValidMovements :
    LET at == {i \in items : m \in i.movements} IN
    /\ at # {}
    /\ Cardinality(at) > 1 => \E i \in at : i.line # Absent /\ Twinned(i.line)
    /\ \A i \in at : i.status = "MATCH" => at = {i} /\ i.movements = {m}

\* reconciliation.py, _movement_linked: a link to an entitlement without amount
\* is informative and never produces an exception: cash that has the key of an
\* entitlement is not missing there.
LinkNoException ==
  \A i \in Reconciled : i.status = "MISSING_CASH" =>
    ~\E m \in ValidMovements : KeyMatch(m, held[i.line])
=============================================================================
