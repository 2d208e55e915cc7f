----------------------------- MODULE Settlement -----------------------------
(***************************************************************************)
(* The settlement feed: the messages of the inbox about securities         *)
(* transactions (MT540-548, sese.023-025) become observations, and the     *)
(* observations a ledger of transactions, built on the ledger of the last  *)
(* successful run.  Each run observes the whole inbox again.               *)
(*                                                                         *)
(* A transaction is identified by references alone.  Two kinds stand for   *)
(* the priority list of the code: own (the higher one) and market.         *)
(***************************************************************************)
EXTENDS Naturals, FiniteSets, FiniteSetsExt, Sequences, SequencesExt

CONSTANTS
  Mails,    \* messages that may arrive: number, name and the facts they state, in order
  Refs,     \* references
  NoRef,    \* no reference of that kind
  MaxMails  \* bound: messages that arrive

\* Every message has its number; quantities are numbers, references references.
FeedAssumption ==
  /\ \A m, n \in Mails : m.no = n.no => m = n
  /\ \A m \in Mails : \A f \in ToSet(m.facts) :
       /\ f.q \in {"36B:SETT", "36B:ESTT", "36B:PSTA", "SttlmQty", "SttldQty", "PrevslySttldQty"} =>
            f.v \in Nat
       /\ f.q \in {"20C:SEME", "20C:MITI", "AcctSvcrTxId", "TxId", "MktInfrstrctrTxId"} => f.v \in Refs
  /\ \A m \in Mails : m.facts \in Seq(ToSet(m.facts))
  /\ NoRef \notin Refs
  /\ MaxMails \in Nat

VARIABLES
  box,     \* the messages of the inbox, in the order of their rows
  ledger,  \* transactions of the last successful run, by identity
  orphans  \* observations no transaction takes, as the ledger lists them

stVars == <<box, ledger, orphans>>

-----------------------------------------------------------------------------
(* observe_message: what a message says.  A fact is a qualifier and its value; *)
(* a message says a thing as it says it first.                                 *)

KindOf(name) ==
  CASE name \in {"MT540", "MT541", "MT542", "MT543", "sese.023"} -> "INSTRUCTION"
    [] name \in {"MT544", "MT545", "MT546", "MT547", "sese.025"} -> "CONFIRMATION"
    [] name \in {"MT548", "sese.024"} -> "STATUS"
    [] OTHER -> "UNSUPPORTED"

Facts(m, qualifiers) == {n \in DOMAIN m.facts : m.facts[n].q \in qualifiers}
First(m, qualifiers) == m.facts[Min(Facts(m, qualifiers))]
Says(m, qualifiers, nothing) ==
  IF Facts(m, qualifiers) = {} THEN nothing ELSE First(m, qualifiers).v

Processing(f) ==
  CASE <<f.q, f.v>> \in {"25D:IPRC"} \X {"CANC", "CGEN", "PRCX"} -> "CANCELLED"
    [] <<f.q, f.v>> \in {"25D:CPRC"} \X {"CAND", "CANP"} -> "CANCELLED"
    [] <<f.q, f.v>> = <<"PrcgSts", "Canc">> -> "CANCELLED"
    [] <<f.q, f.v>> \in {<<"25D:IPRC", "DENR">>, <<"PrcgSts", "Rjctd">>} -> "REJECTED"
    [] OTHER -> "OTHER"
Matching(f) == IF f.v \in {"MACH", "Mtchd"} THEN "MATCHED" ELSE "UNMATCHED"

\* settles: quantity settled by the message, 0 = none; before: quantity the message says was
\* settled before it, 0 = it does not say; asks: quantity instructed, 0 = none.
Observation(m, asks, settles, before, process, matching, own, market) ==
  [no |-> m.no, name |-> m.name, kind |-> KindOf(m.name), own |-> own, market |-> market,
   asks |-> asks, settles |-> settles, before |-> before, process |-> process,
   matching |-> matching,
   cancels |-> Says(m, {"23G"}, "NEWM") \in {"CANC", "CANP"}]

\* _mt_obs: 36B::SETT is what a confirmation settled and what another message instructs.
MtObservation(m) ==
  LET confirms == KindOf(m.name) = "CONFIRMATION"
      told(qs, reading(_)) == IF Facts(m, qs) = {} THEN "NONE" ELSE reading(First(m, qs))
  IN  Observation(m, IF confirms THEN 0 ELSE Says(m, {"36B:SETT"}, 0),
                  Says(m, {"36B:ESTT"} \cup (IF confirms THEN {"36B:SETT"} ELSE {}), 0),
                  Says(m, {"36B:PSTA"}, 0),
                  told({"25D:IPRC", "25D:CPRC"}, Processing), told({"25D:MTCH"}, Matching),
                  Says(m, {"20C:SEME"}, NoRef), Says(m, {"20C:MITI"}, NoRef))

\* _mx_obs: statuses are read of a status advice alone; two choices of one kind conflict, and
\* the inferred matching status counts where the other is missing.
MxObservation(m) ==
  LET kind == KindOf(m.name)
      choice(q, reading(_)) ==
        IF kind # "STATUS" \/ Facts(m, {q}) = {} THEN "NONE"
        ELSE IF Cardinality(Facts(m, {q})) > 1 THEN "CONFLICTING_CHOICE" ELSE reading(First(m, {q}))
      matching == choice("MtchgSts", Matching)
  IN  Observation(m, IF kind = "CONFIRMATION" THEN 0 ELSE Says(m, {"SttlmQty"}, 0),
                  IF kind = "INSTRUCTION" THEN 0 ELSE Says(m, {"SttldQty"}, 0),
                  IF kind = "INSTRUCTION" THEN 0 ELSE Says(m, {"PrevslySttldQty"}, 0),
                  choice("PrcgSts", Processing),
                  IF matching = "NONE" THEN choice("IfrdMtchgSts", Matching) ELSE matching,
                  Says(m, {"AcctSvcrTxId", "TxId"}, NoRef), Says(m, {"MktInfrstrctrTxId"}, NoRef))

Observe(m) == IF m.name \in {"sese.023", "sese.024", "sese.025"} THEN MxObservation(m) ELSE MtObservation(m)
Observations == [n \in DOMAIN box |-> Observe(box[n])]

-----------------------------------------------------------------------------
RefsOf(x) == {x.own, x.market} \ {NoRef}
Primary(x) == IF x.own # NoRef THEN <<"own", x.own>> ELSE <<"market", x.market>>

NoTx == [own |-> NoRef, market |-> NoRef, obs |-> {}, contents |-> {}, asks |-> 0, settled |-> 0,
         instructed |-> FALSE, advised |-> FALSE, confirmed |-> FALSE, process |-> "NONE",
         matching |-> "NONE", cancelled |-> FALSE, conflict |-> FALSE]

FeedInit == box = <<>> /\ ledger = [id \in Refs |-> NoTx] /\ orphans = <<>>

-----------------------------------------------------------------------------
\* status_semantics of an observation.
Cumulative(m) == m.before > 0

\* _apply_confirmation: a cumulative message states the total, another adds its part.
Consolidated(t, m) ==
  IF m.settles = 0 THEN t
  ELSE IF Cumulative(m) THEN [t EXCEPT !.settled = Max({@, m.settles + m.before})]
  ELSE [t EXCEPT !.settled = @ + m.settles]

\* _apply_observation.
Noted(t, m) ==
  CASE m.kind = "INSTRUCTION" ->
         [t EXCEPT !.instructed = TRUE,
                   !.conflict = @ \/ (t.asks > 0 /\ m.asks > 0 /\ t.asks # m.asks),
                   !.asks = IF @ = 0 THEN m.asks ELSE @,
                   !.cancelled = @ \/ m.cancels]
    [] m.kind = "STATUS" ->
         Consolidated([t EXCEPT !.advised = TRUE,
                                !.matching = IF m.matching = "NONE" THEN @ ELSE m.matching,
                                !.process = IF m.process = "NONE" THEN @ ELSE m.process], m)
    [] m.kind = "CONFIRMATION" -> Consolidated([t EXCEPT !.confirmed = TRUE], m)

\* _obs_hash: what the message says, whatever its bytes.
Meaning(m) == [m EXCEPT !.no = 0]

\* _new_tx, _merge_refs and the trace of the message in the transaction.
Bind(t, m) ==
  LET named == [t EXCEPT !.own = IF @ = NoRef THEN m.own ELSE @,
                         !.market = IF @ = NoRef THEN m.market ELSE @,
                         !.asks = IF t = NoTx THEN m.asks ELSE @]
  IN  [Noted(named, m) EXCEPT !.obs = @ \cup {m.no}, !.contents = @ \cup {Meaning(m)}]

\* MUTANT of Exact: a message that came before is taken for new.
NeverExact(l, m) == FALSE /\ \E id \in Refs : m.no \in l[id].obs

\* build_ledger for one observation of the feed; observations_doc leaves messages of
\* another kind out.
Exact(l, m) == \E id \in Refs : m.no \in l[id].obs
Alike(l, m) == {id \in Refs : l[id] # NoTx /\ Primary(l[id]) = Primary(m) /\ Meaning(m) \in l[id].contents}
Candidates(l, m) == {id \in Refs : l[id] # NoTx /\ RefsOf(l[id]) \cap RefsOf(m) # {}}

Orphan(acc, m) == [acc EXCEPT !.orphans = Append(@, m.no)]
Booked(acc, m) ==
  LET l == acc.ledger
      near == Candidates(l, m)
  IN  IF m.kind = "UNSUPPORTED" \/ Exact(l, m) THEN acc
      ELSE IF RefsOf(m) = {} THEN Orphan(acc, m)
      ELSE IF Alike(l, m) # {}
           THEN [acc EXCEPT !.ledger[CHOOSE id \in Alike(l, m) : TRUE].obs = @ \cup {m.no}]
      ELSE IF Cardinality(near) > 1 THEN Orphan(acc, m)
      ELSE LET id == IF near = {} THEN Primary(m)[2] ELSE CHOOSE x \in near : TRUE
           IN  [acc EXCEPT !.ledger[id] = Bind(@, m)]

\* _derive_status.
TxStatus(t) ==
  CASE t.process = "CANCELLED" \/ t.cancelled -> "CANCELLED"
    [] t.process = "REJECTED" /\ ~t.cancelled -> "FAILED"
    [] OTHER ->
         CASE t.confirmed /\ t.settled >= t.asks /\ (t.asks > 0 \/ t.settled > 0) -> "SETTLED"
           [] t.confirmed /\ t.settled < t.asks /\ t.settled > 0 -> "PARTIALLY_SETTLED"
           [] OTHER -> IF t.matching = "MATCHED" THEN "MATCHED" ELSE IF t.advised THEN "PENDING" ELSE "INSTRUCTED"

\* settlement_recon of one transaction.
Verdict(t) ==
  CASE t.conflict -> "QUANTITY_CONFLICT"
    [] ~t.conflict /\ TxStatus(t) \in {"CANCELLED", "FAILED"} -> TxStatus(t)
    [] ~t.conflict /\ TxStatus(t) \notin {"CANCELLED", "FAILED"} /\ (~t.instructed \/ t.asks = 0) ->
         "NO_INSTRUCTION_BASIS"
    [] OTHER -> IF ~t.confirmed /\ t.settled = 0 THEN "NO_SETTLEMENT_OBSERVED"
                ELSE IF t.settled = t.asks THEN "MATCH"
                ELSE IF t.settled > t.asks THEN "OVER_SETTLED" ELSE "PARTIALLY_SETTLED"

\* export_transactions: what the market claims read of a transaction.
Exported(t) == IF TxStatus(t) \in {"SETTLED", "CANCELLED", "FAILED"} THEN TxStatus(t) ELSE "PENDING"

-----------------------------------------------------------------------------
MailArrives(m) ==
  /\ Len(box) < MaxMails /\ m \notin ToSet(box) /\ box' = Append(box, m)
  /\ UNCHANGED <<ledger, orphans>>

RunFeed(succeeds) ==
  LET built == FoldLeft(Booked, [ledger |-> ledger, orphans |-> orphans], Observations)
  IN  /\ Len(orphans) < Cardinality(Mails)
      /\ ledger' = IF succeeds THEN built.ledger ELSE ledger
      /\ orphans' = IF succeeds THEN built.orphans ELSE orphans
      /\ UNCHANGED box

FeedNext == (\E m \in Mails : MailArrives(m)) \/ (\E ok \in BOOLEAN : RunFeed(ok))

-----------------------------------------------------------------------------
MailNumbers == {m.no : m \in Mails}
FeedTypeOK ==
  /\ ToSet(box) \subseteq Mails
  /\ \A id \in Refs : /\ ledger[id].obs \subseteq MailNumbers /\ ledger[id].settled \in Nat
                      /\ {ledger[id].own, ledger[id].market} \subseteq Refs \cup {NoRef}
  /\ ToSet(orphans) \subseteq MailNumbers

Of(t) == {m \in ToSet(Observations) : m.no \in t.obs}
Parts(t) == {m \in Of(t) : m.kind # "INSTRUCTION" /\ m.settles > 0}
\* One message for each content: the copy that came first.
Firsts(t) == {m \in Parts(t) : \A n \in Parts(t) : Meaning(n) = Meaning(m) =>
                \E i, j \in DOMAIN box : i <= j /\ box[i].no = m.no /\ box[j].no = n.no}

OncePlaced ==
  \A n \in MailNumbers :
    /\ Cardinality({id \in Refs : n \in ledger[id].obs}) <= 1
    /\ n \in ToSet(orphans) => \A id \in Refs : n \notin ledger[id].obs
ReadersAgree ==
  \A id \in Refs : LET t == ledger[id] IN
    (Exported(t) = "SETTLED" /\ t.instructed /\ t.asks > 0 /\ ~t.conflict) =>
      Verdict(t) \in {"MATCH", "OVER_SETTLED"}
SumOf(parts) == MapThenSumSet(LAMBDA m : m.settles, parts)
SumsUp(t) == t.settled = SumOf(Firsts(t))

(* However often the inbox is observed again, each message counts once: it is in at most *)
(* one transaction and never also an orphan, and where every part settled is stated as   *)
(* such, under the first reference of its transaction, the settled quantity is the sum   *)
(* of the different parts observed; and the two readers of a transaction agree: what the *)
(* market claims read as SETTLED of an instructed quantity, the reconciliation does not  *)
(* miss (settlement_transaction.py, build_ledger; settlement_recon.py;                   *)
(* settlement_export.py).                                                                *)
CountedOnce ==
  /\ OncePlaced
  /\ ReadersAgree
  /\ \A id \in Refs : LET t == ledger[id] IN
       (\A m \in Parts(t) : ~Cumulative(m) /\ Primary(m) = Primary(t)) => SumsUp(t)

(* settlement_transaction.py, docstring of _obs_hash: two messages of different bytes    *)
(* and the same content are the same fact; so the sum is of the different parts also     *)
(* where a part came before the transaction got the reference it goes by.                *)
SameFactOnce ==
  \A id \in Refs : (\A m \in Parts(ledger[id]) : ~Cumulative(m)) => SumsUp(ledger[id])

(* settlement_transaction.py: a message observed before is an EXACT_DUPLICATE and ignored; *)
(* so an orphan is listed once.                                                            *)
OrphanListedOnce == \A i, j \in DOMAIN orphans : orphans[i] = orphans[j] => i = j

=============================================================================
