\* The business engines one by one: a behaviour chooses one of them and runs it.
CONSTANTS
  Machines = {"claims", "recovery", "settlement", "cases", "cash", "securities", "custody", "taxes", "election"}
  A = A
  B = B
  X = X
  Y = Y
  Tx = Tx
  Cre = Cre
  Corp = Corp
  NoValue = NoValue
  NoField = NoField
  MaxNotes = 3
  Rules = {1, 2}
  RuleOn <- ClaimRuleOn
  Notes <- ClaimNotes
  Moves <- ClaimMoves
  NoAnswer = NoAnswer
  LastClaimDay = 2
  MaxShifts = 1
  LastTaxDay = 3
  Expected = 2
  Entitled = 1
  EvidencedRates = {1, 3}
  Deadline <- TaxDeadline
  ProviderEvents <- TaxAnswers
  Credits <- TaxCredits
  MaxEdits = 2
  NoRef = NoRef
  i1 = i1
  i2 = i2
  market = market
  MaxMails = 4
  Keys = {k1, k2}
  MaxRounds = 4
  MaxDelivered = 3
  Notices <- SecNotices
  Custody <- SecLines
  Elections <- SecElections
  Observable <- SecMovements
  SourceIsin = X
  TargetIsin = Y
  RecordDate = 1
  MaxCustody = 2
  MaxObserved = 2
  r1 = r1
  r2 = r2
  e1 = e1
  e2 = e2
  NoEvent = NoEvent
  MaxAge = 1
  LastCustodyDay = 1
  NoBinding = NoBinding
  NoOption = NoOption
  NoCurrency = NoCurrency
  MaxTaxChanges = 4
  TaxMessages <- TaxMails
  TaxRules <- TaxRuleBook
  TaxProfiles <- TaxOwners
  FirstTaxRules <- FirstTaxRule
  FirstProfiles <- FirstOwners
  FirstGross <- FirstGrossOf
  Owners = {A, B}
  GrossAmounts = {0, 1, 2}
  TaxOptions = {i1}
  TaxedEvent = e1
  NoId = NoId
  NoCanonEvent = NoCanonEvent
  NoDoc = NoDoc
  MaxRevisions = 2
  MaxWritten = 1
  Mails <- FeedMails
  Refs = {i1, i2, market}
  Lines <- CashLines
  Bookings <- CashBookings
  EventIsins = {X}
  RecordDays = {1, 2}
  Pages <- CustodyPages
  Entries <- CashEntries
  References <- CustodyRefs
  Events <- CustodyEvents
  Mapped <- CustodyAccounts
  Internal <- OurPositions
  Canons <- CanonDocs
  ElectNotices <- Offers
  Positions <- PositionDocs
  RuleSets <- RuleDocs
  FirstCanon <- FirstCanonDoc
  FirstNotice <- FirstOffer
  FirstPositions <- HeldByA
  FirstRuleSet <- FirstRules
  Requests <- ElectRequests
  Advices <- ElectAdvices
SPECIFICATION DomainSpec
CHECK_DEADLOCK FALSE
INVARIANTS TypeOK CountedOnce CashCountedOnce MatchGivesProjection TaxAccounted ElectionBacked
PROPERTIES CasesStand FeedIsTrue ClaimsStand 
