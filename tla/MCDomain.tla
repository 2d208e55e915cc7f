------------------------------ MODULE MCDomain ------------------------------
(***************************************************************************)
(* The business engines, each on its own: a behaviour chooses one of them  *)
(* and runs it.  In the program they meet only through the documents a     *)
(* daily run hands from one step to the next (see OpsRun).                 *)
(***************************************************************************)
EXTENDS ExceptionCases, Custody, Election, Cash, Settlement, TaxRecovery,
        MarketClaims, Securities, TaxEvents

CONSTANTS Machines,
          A, B, X, Y,        \* accounts, instruments
          i1, i2, market,
          r1, r2, e1, e2

VARIABLE machine

-----------------------------------------------------------------------------
\* Market claims: a rule for each of two days.
ClaimRuleOn(d) == Rules \cap {d}
Fact(q, v) == [q |-> q, v |-> v]
Note(n, name, facts) == [no |-> n, name |-> name, facts |-> <<Fact("CorpActnEvtId", Corp)>> \o facts]
ClaimNotes == { Note(1, "seev.050", <<Fact("AcctSvcrTxId", Tx), Fact("RltdSttlmInstrId", Cre)>>),
           Note(2, "seev.052", <<Fact("MktClmCreId", Cre), Fact("MktClmPrcgSts", "Pdg")>>),
           Note(3, "seev.052", <<Fact("PrcrTxId", Tx), Fact("MktClmPrcgSts", "Canc")>>),
           Note(4, "seev.051", <<Fact("AcctSvcrTxId", Tx)>>),
           Note(5, "seev.053", <<Fact("AcctSvcrTxId", Tx), Fact("MktClmCxlReqSts", "Rjctd")>>),
           Note(6, "seev.052", <<Fact("PrcrTxId", Tx), Fact("MktClmPrcgSts", "Canc"),
                                 Fact("MktClmPrcgSts", "Pdg")>>) }
ClaimMoves == { [no |-> 1, ref |-> Tx, amount |-> 1, fx |-> FALSE],
                [no |-> 2, ref |-> Cre, amount |-> 1, fx |-> FALSE] }

\* Tax recovery: relief ends on day 1, a refund may be claimed to day 2.
TaxDeadline(r) == IF r = "RELIEF_AT_SOURCE" THEN 1 ELSE 2
TaxAnswer(n, type, at) == [no |-> n, claim |-> "STANDARD_RECLAIM", type |-> type, at |-> at]
TaxAnswers == { TaxAnswer(1, "SUBMISSION_RECORDED", 1), TaxAnswer(2, "REJECTION", 2),
                TaxAnswer(3, "RECEIPT", 3) }
TaxCredits == { [claim |-> "STANDARD_RECLAIM", amount |-> 1], [claim |-> "STANDARD_RECLAIM", amount |-> 2] }

\* Settlement: own and market references, an echo, a cumulative part, an orphan,
\* a message of another kind.
Mail(n, name, facts) == [no |-> n, name |-> name, facts |-> facts]
FeedMails ==
         { Mail(1, "MT541", <<Fact("20C:SEME", i1), Fact("36B:SETT", 3)>>),
           Mail(2, "sese.023", <<Fact("TxId", i2), Fact("MktInfrstrctrTxId", market), Fact("SttlmQty", 3)>>),
           Mail(3, "MT545", <<Fact("20C:SEME", i1), Fact("36B:ESTT", 1)>>),
           Mail(4, "MT545", <<Fact("20C:SEME", i1), Fact("36B:ESTT", 1)>>),
           Mail(5, "sese.024", <<Fact("AcctSvcrTxId", i1), Fact("MktInfrstrctrTxId", market),
                                 Fact("SttldQty", 2), Fact("IfrdMtchgSts", "Mtchd")>>),
           Mail(6, "MT548", <<Fact("25D:IPRC", "DENR")>>),
           Mail(7, "sese.025", <<Fact("MktInfrstrctrTxId", market), Fact("SttldQty", 2),
                                 Fact("PrevslySttldQty", 1)>>),
           Mail(8, "MT578", <<Fact("20C:SEME", i2)>>),
           Mail(9, "sese.025", <<Fact("MktInfrstrctrTxId", market), Fact("SttldQty", 1)>>),
           Mail(10, "sese.025", <<Fact("MktInfrstrctrTxId", market), Fact("SttldQty", 1)>>) }

\* Cash: two positions of A in the event's instrument, one dated otherwise.
Line(a, i, q, d) == [account |-> a, isin |-> i, quantity |-> q, asOf |-> d]
CashLines == { Line(A, X, 2, 1), Line(A, X, 2, 2), Line(A, Y, 2, 1), Line(B, X, 1, 1) }
Booking(n, a, e, i, c, v, basis) ==
  [no |-> n, account |-> a, event |-> e, isin |-> i, currency |-> c, amount |-> v, basis |-> basis]
CashBookings ==
            { Booking(1, A, TRUE, X, "EUR", 2, "GROSS"), Booking(2, A, FALSE, X, "EUR", 1, "NET"),
              Booking(3, B, FALSE, X, "USD", 1, "GROSS"), Booking(4, A, FALSE, Y, "EUR", 4, "GROSS") }

\* Securities: from X into Y; record date 1.
Notice(m, camv, lacks, new, old, disf) ==
  [mechanism |-> m, camv |-> camv, ok |-> TRUE, lacks |-> lacks, new |-> new, old |-> old, disf |-> disf]
Split == Notice("SPLIT", "MAND", {}, 1, 2, "RDDN")
SecNotices == { Split, Notice("RIGHTS_DISTRIBUTION", "MAND", {}, 1, 1, "NONE"),
             Notice("RIGHTS_EXERCISE", "CHOS", {}, 1, 2, "STAN"),
             Notice("SCRIP_DIVIDEND", "CHOS", {}, 1, 1, "NONE"),
             Notice("SPLIT", "VOLU", {}, 1, 1, "NONE"), Notice("SPLIT", "MAND", {"ratio"}, 1, 1, "NONE") }
SecLines == { Line(A, X, 2, 1), Line(A, X, 4, 1), Line(A, Y, 2, 1), Line(B, X, 2, 1), Line(B, X, 4, 2) }
Movement(a, i, d, q) == [account |-> a, isin |-> i, direction |-> d, quantity |-> q]
SecElections == {0, 2, CASH, SECU}
SecMovements ==
  { Movement(A, X, "DELIVERY", 2), Movement(A, Y, "RECEIPT", 2), Movement(B, Y, "RECEIPT", 2) }

\* Custody: a statement of two pages, repeated and corrected; one of one page; another account.
Amount(i, q) == [isin |-> i, kind |-> "AGGR", quantity |-> q]
Mt535Page(n, r, p, mark, balances) ==
  [no |-> n, name |-> "MT535", balances |-> balances,
   says |-> <<Fact("97A:SAFE", A), Fact("20C:SEME", r), Fact("98A:STAT", 1), Fact("28E:PAGE", p),
              Fact("28E:CONT", mark)>>]
Semt002Page(n, a, r, d, more, balances) ==
  [no |-> n, name |-> "semt.002", balances |-> balances,
   says |-> <<Fact("SfkpgAcct", a), Fact("StmtId", r), Fact("StmtDtTm", d), Fact("PgNb", 1)>> \o more]
LastPage == Fact("LastPgInd", "true")
CustodyPages == { Mt535Page(1, r1, 1, "MORE", <<Amount(X, 1)>>), Mt535Page(2, r1, 2, "LAST", <<Amount(Y, 1)>>),
           Mt535Page(3, r1, 1, "MORE", <<Amount(X, 1)>>), Mt535Page(4, r1, 1, "MORE", <<Amount(X, 2)>>),
           Semt002Page(5, A, r2, 1, <<LastPage>>, <<Amount(X, 1), Amount(X, 1), Amount(Y, 1)>>),
           Mt535Page(6, r2, 1, "ONLY", <<Amount(X, 2), Amount(Y, 1), Amount(Y, 1)>>),
           Semt002Page(7, B, r1, 2, <<LastPage, Fact("UpdTp", "DELT")>>, <<Amount(X, 1)>>),
           Semt002Page(8, B, r2, 3, <<LastPage>>, <<Amount(X, 1)>>) }
Entry(n, a, name, v, says) == [no |-> n, account |-> a, name |-> name, amount |-> v, says |-> says]
CashEntries == { Entry(1, A, "MT940", 1, <<Fact("61:SERVICER", r1)>>),
             Entry(2, A, "camt.053", 1, <<Fact("EndToEndId", r2), Fact("TxId", r1)>>),
             Entry(3, B, "camt.054", 2, <<>>) }
CustodyRefs == {r1, r2}
CustodyEvents == {e1, e2}
CustodyAccounts == {A, B}
OurPositions == [at \in {<<A, X>>, <<A, Y>>} |-> 1]

\* Tax: two notices of one event and a third bound by reference, three confirmations; a rule
\* for residents, one for the others, one that overlaps on a day; rates in halves.
Said(q, kind, opt, v, c) ==
  [qualifier |-> q, kind |-> kind, option |-> opt, value |-> v, currency |-> c]
Message(n, name, event, refs, facts) ==
  [no |-> n, standard |-> IF name \in {"MT564", "MT566"} THEN "MT" ELSE "MX", name |-> name,
   event |-> event, refs |-> refs, lines |-> facts]
TaxMails ==
  { Message(1, "MT564", e1, {r1}, <<Said("TAXR", "rate", NoOption, 1, NoCurrency)>>),
    Message(2, "seev.031", NoBinding, {r1, r2},
            <<Said("WhldgTaxRate", "rate", i1, 2, NoCurrency),
              Said("TaxblIncmPerDvddShr", "amount", i1, 1, NoCurrency)>>),
    Message(3, "MT564", e2, {r2}, <<Said("WITL", "rate", NoOption, 1, NoCurrency)>>),
    Message(4, "MT566", NoBinding, {r1}, <<Said("TAXR", "amount", NoOption, 2, "EUR"),
                                           Said("TAXR", "rate", NoOption, 1, NoCurrency)>>),
    Message(5, "seev.036", NoBinding, {r1}, <<Said("WhldgTaxAmt", "amount", i1, 1, NoCurrency),
                                              Said("WhldgTaxAmt", "amount", NoOption, 2, "USD"),
                                              Said("GrssAmt", "amount", NoOption, 2, "EUR")>>),
    Message(6, "MT566", NoBinding, {r2}, <<Said("LEVY", "amount", NoOption, 1, "EUR")>>),
    Message(7, "MT564", e1, {}, <<Said("TAXR", "rate", NoOption, -1, NoCurrency)>>) }
TaxRule(n, from, to, conds, source, v, basis, round) ==
  [id |-> n, from |-> from, to |-> to, conds |-> conds, source |-> source, rate |-> v,
   basis |-> basis, round |-> round, roundsIn |-> "EUR"]
Resident == TaxRule(1, 1, 1, [residency |-> {"ES"}], "CONFIGURED", 1, "GROSS", "NONE")
TaxRuleBook ==
  { Resident,
    TaxRule(2, 1, 2, [residency |-> {"FR"}, treaty |-> {"T"}], "SOURCE_DECLARED_RATE", 0, "EXPLICIT_BASIS", "DOWN"),
    TaxRule(3, 1, 2, [treaty |-> {"T"}], "EXEMPT", 0, "GROSS", "NONE"),
    TaxRule(4, 2, 2, [residency |-> {"ES"}], "SOURCE_DECLARED_RATE", 0, "GROSS", "UP") }
Owner(n, a, from, says) == [id |-> n, account |-> a, from |-> from, to |-> 2, says |-> says]
OwnerOfA == Owner(1, A, 1, [residency |-> "ES"])
OwnerOfB == Owner(2, B, 1, [residency |-> "FR", treaty |-> "T"])
FirstTaxRule == {Resident}
FirstOwners == {OwnerOfA, OwnerOfB}
FirstGrossOf == [a \in {A, B} |-> IF a = A THEN 2 ELSE 1]
TaxOwners == { OwnerOfA, OwnerOfB, Owner(3, A, 1, [residency |-> "ES", treaty |-> "T"]) }

\* Election: two events of one instrument and type; MT and MX notices; two requests.
Dates(ex, rec) == [ex |-> ex, rec |-> rec]
CanonEvent(id, ex, rec) == [id |-> id, type |-> "SCRIP_DIVIDEND", isin |-> X, dates |-> Dates(ex, rec)]
FirstCanonDoc == {CanonEvent(e1, 1, 2)}
CanonDocs == { {CanonEvent(e1, 1, 2)}, {CanonEvent(e1, 1, 2), CanonEvent(e2, 3, 0)},
            {CanonEvent(e1, 1, 2), CanonEvent(e2, 1, -1)} }
Option(id, kind) == [id |-> id, kind |-> kind, clear |-> TRUE]
Corps(q, refs) == [i \in 1..Len(refs) |-> Fact(q, refs[i])]
MtOffer(n, caev, dates, options, refs) ==
  [no |-> n, standard |-> "MT", options |-> options,
   says |-> <<Fact("22F:CAEV", caev), Fact("35B", X)>> \o dates \o Corps("20C:CORP", refs)]
MxOffer(n, dates, options, refs) ==
  [no |-> n, standard |-> "MX", options |-> options,
   says |-> <<Fact("EvtTp", "DVOP"), Fact("ISIN", X)>> \o dates \o Corps("CorpActnEvtId", refs)]
FirstOffer == MtOffer(1, "DVOP", <<Fact("98A:XDTE", 1)>>, <<Option(i1, "CASH"), Option(i2, "SECURITIES")>>, <<r1>>)
Offers == { FirstOffer,
            MxOffer(2, <<Fact("ExDvddDt", 1)>>, <<Option(i1, "SECURITIES")>>, <<r2>>),
            MxOffer(3, <<>>, <<Option(i1, "CASH"), Option(NoId, "CASH")>>, <<r2>>),
            MtOffer(4, "DVOP", <<Fact("98A:XDTE", 3)>>, <<Option(i1, "CASH"), Option(i2, "UNSUPPORTED")>>, <<r1, r2>>),
            MtOffer(5, "RHTS", <<Fact("98A:XDTE", 1)>>, <<Option(i1, "CASH")>>, <<r1>>) }
ElectRule(n, kinds, field) == [id |-> n, kinds |-> kinds, field |-> field, full |-> TRUE]
BothKinds == ElectRule(1, {"CASH", "SECURITIES"}, "rec")
FirstRules == {BothKinds}
RuleDocs == { {BothKinds}, {BothKinds, ElectRule(2, {"SECURITIES"}, "ex")},
              {[BothKinds EXCEPT !.full = FALSE]} }
HeldByA == <<Line(A, X, 2, 2)>>
PositionDocs == { HeldByA, <<Line(A, X, 2, 2), Line(A, X, 1, 1)>>, <<Line(A, X, 2, 1), Line(B, X, 1, 2)>>,
               <<Line(A, X, 2, 2), Line(A, X, 1, 2)>> }
Advice(refs, says) == [refs |-> refs, says |-> says]
ElectAdvices == { Advice({}, {"PACK"}), Advice({1}, {"Rjctd"}), Advice({1, 2}, {"PEND"}),
             Advice({2}, {"Pdg", "Canc"}) }
Request(id, a, option, q) == [id |-> id, account |-> a, option |-> option, quantity |-> q]
ElectRequests == { Request(1, A, i1, 2), Request(1, A, i2, 2), Request(2, B, i1, 1), Request(2, A, i1, 1) }

-----------------------------------------------------------------------------
ASSUME EnginesAssumption ==
  /\ CashAssumption /\ FeedAssumption /\ RecoveryAssumption /\ ClaimAssumption
  /\ SecuritiesAssumption /\ TaxAssumption

Init ==
  /\ machine \in Machines
  /\ ClaimInit /\ TaxInit /\ FeedInit /\ CasesInit /\ CashInit
  /\ SecInit /\ CustodyInit /\ TaxEventInit /\ ElectInit
  /\ machine # "securities" => notice = Split

Next ==
  \/ /\ machine = "claims" /\ ClaimNext
     /\ UNCHANGED <<trVars, stVars, casesVars, cashVars, secVars, custodyVars, taxEventVars, electVars, machine>>
  \/ /\ machine = "recovery" /\ TaxNext
     /\ UNCHANGED <<mcVars, stVars, casesVars, cashVars, secVars, custodyVars, taxEventVars, electVars, machine>>
  \/ /\ machine = "settlement" /\ FeedNext
     /\ UNCHANGED <<mcVars, trVars, casesVars, cashVars, secVars, custodyVars, taxEventVars, electVars, machine>>
  \/ /\ machine = "cases" /\ CasesNext
     /\ UNCHANGED <<mcVars, trVars, stVars, cashVars, secVars, custodyVars, taxEventVars, electVars, machine>>
  \/ /\ machine = "cash" /\ CashNext
     /\ UNCHANGED <<mcVars, trVars, stVars, casesVars, secVars, custodyVars, taxEventVars, electVars, machine>>
  \/ /\ machine = "securities" /\ SecNext
     /\ UNCHANGED <<mcVars, trVars, stVars, casesVars, cashVars, custodyVars, taxEventVars, electVars, machine>>
  \/ /\ machine = "custody" /\ CustodyNext
     /\ UNCHANGED <<mcVars, trVars, stVars, casesVars, cashVars, secVars, taxEventVars, electVars, machine>>
  \/ /\ machine = "taxes" /\ TaxEventNext
     /\ UNCHANGED <<mcVars, trVars, stVars, casesVars, cashVars, secVars, custodyVars, electVars, machine>>
  \/ /\ machine = "election" /\ ElectNext
     /\ UNCHANGED <<mcVars, trVars, stVars, casesVars, cashVars, secVars, custodyVars, taxEventVars, machine>>

domainVars == <<mcVars, trVars, stVars, casesVars, cashVars, secVars, custodyVars, taxEventVars,
                electVars, machine>>
DomainSpec == Init /\ [][Next]_domainVars

-----------------------------------------------------------------------------
\* Every variable of the chosen engine keeps its type; the others stay as they began.
TypeOK ==
  /\ machine = "claims" => ClaimTypeOK
  /\ machine = "recovery" => TaxTypeOK
  /\ machine = "settlement" => FeedTypeOK
  /\ machine = "cases" => CasesTypeOK
  /\ machine = "cash" => CashTypeOK
  /\ machine = "securities" => SecTypeOK
  /\ machine = "custody" => CustodyTypeOK
  /\ machine = "taxes" => TaxEventTypeOK
  /\ machine = "election" => ElectTypeOK
=============================================================================
