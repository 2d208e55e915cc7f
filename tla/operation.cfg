\* The machines of the operation one by one: a behaviour chooses one of them and runs it.
CONSTANTS
  Machines = {"sftp", "mq", "receipts", "inbox", "sources", "identity", "run"}
  ack1 = ack1
  ack2 = ack2
  bad1 = bad1
  bad2 = bad2
  NoFile = NoFile
  Valid = {ack1, ack2}
  Invalid = {bad1, bad2}
  m1 = m1
  m2 = m2
  m3 = m3
  m4 = m4
  same = same
  other = other
  Unknown = Unknown
  SftpFaults = 2
  SftpRetries = 1
  MqFaults = 2
  MqRetries = 1
  PollFaults = 1
  MaxDrops = 3
  Messages = {m1, m2, m3, m4}
  Meaning <- Reading
  Garbled = {m3}
  Blank = {m4}
  MaxFiles = 5
  InboxFaults = 1
  Docs = {1, 2, 3}
  Published <- Numbered
  LastDay = 5
  Overlap = 1
  Lag = 1
  Unparseable = {2}
  Refetch = TRUE
  MaxFetchFaults = 2
  MaxAmends = 2
  CandidateIds <- Trio
  DocumentOrder <- TrioOrder
  Citations <- TrioCites
  Rulings <- TrioRulings
  MaxEditions = 4
  MaxRuns = 2
  MaxResumes = 1
  OpsFaults = 1
  MaxChanges = 1
SPECIFICATION OperationSpec
CHECK_DEADLOCK FALSE
INVARIANTS TypeOK HandoffTruthful PollKeepsEvidence MeaningOnce NoneLeftBehind CanonOfEvidence CacheSound NoGap
PROPERTIES SuccessStands AlertsFollowRuns IdentityStands
