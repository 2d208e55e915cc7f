------------------------------- MODULE EdgeProofs -------------------------------
(***************************************************************************)
(* What leaves and what comes in.                                          *)
(*                                                                         *)
(* The ledger tells the truth about the remote outbox and about the        *)
(* request queue, for any number of crashes and forced retries, whether    *)
(* digests or sizes are compared; and polling for receipts loses no        *)
(* evidence, for any receipts, drops, partial downloads and failed         *)
(* archives.                                                               *)
(*                                                                         *)
(* What several messages of the inbox say alike is processed exactly once, *)
(* for any set of messages, any number of copies and crashes, and every    *)
(* order in which the files are read.  The refresh of a source leaves no   *)
(* document behind its checkpoint but those a complete listing left out,   *)
(* and the canon is that of the recorded evidence, for any documents,      *)
(* days, failures and amendments.                                          *)
(***************************************************************************)
EXTENDS Boundary, SftpReceipts, Inbox, Sources, FiniteSetTheorems, WellFoundedInduction, TLAPS

-----------------------------------------------------------------------------
(* The remote outbox.                                                      *)

Types ==
  /\ readBack \in BOOLEAN
  /\ remote \in Remote
  /\ stage \in Stages
  /\ retried \in Nat

\* An attempt runs under a durable STARTED.
UnderStarted == stage # "idle" => sent = "STARTED"

\* The marker is written last, and stands beside no message but ours.
MarkerLast ==
  /\ stage = "commit" => Matches(remote.msg)
  /\ remote.meta = "own" => remote.msg = "absent" \/ Matches(remote.msg)

\* Until an operator forces a retry or a handoff is overlooked, a marker proves the
\* handoff, and neither an attempt under way nor a failure has one.
Unharmed == retried = 0 /\ ~overlooked
MarkerProves ==
  Unharmed /\ remote.meta = "own"
    => /\ Matches(remote.msg)
       /\ stage = "idle" /\ sent \notin {"PREPARED", "RETRY", "PERMANENT"}

SpooledIsCommitted == sent = "SPOOLED" => Committed(remote)

OutboxInv == Types /\ UnderStarted /\ MarkerLast /\ MarkerProves /\ SpooledIsCommitted

-----------------------------------------------------------------------------
\* What a put leaves, whole or half done, is an entry with nothing else changed.
LEMMA PutChangesOneFile ==
  ASSUME NEW r \in Remote, NEW file \in {"msg", "meta"}, NEW q \in HalfPut(r, file) \cup {PutFile(r, file)}
  PROVE  /\ q \in Remote
         /\ q[file] \in {"absent", "own", r[file]}
         /\ file = "msg" => q.meta = r.meta
         /\ file = "meta" => q.msg = r.msg
<1>1. PICK b \in {"absent", "own", r[file]}, t \in SUBSET {"msg", "meta"} : q = Left(r, file, b, t)
  <2>1. r.tmps \in SUBSET {"msg", "meta"}
    BY DEF Remote
  <2> QED BY <2>1 DEF HalfPut, PutFile
<1> USE DEF Left
<1>2. CASE file = "msg"
  <2>1. r["msg"] \in Bytes
    BY DEF Remote
  <2> QED BY <1>1, <1>2, <2>1 DEF Remote, Bytes
<1>3. CASE file = "meta"
  <2>1. r["meta"] \in Metas
    BY DEF Remote
  <2> QED BY <1>1, <1>3, <2>1 DEF Remote, Metas
<1> QED BY <1>2, <1>3

\* Sweeping takes a .tmp away at most.
LEMMA SweepKeepsFiles ==
  ASSUME NEW r \in Remote, NEW view, NEW q \in Sweeps(r, view)
  PROVE  q \in Remote /\ q.msg = r.msg /\ q.meta = r.meta
BY DEF Sweeps, Remote

\* An inspection may miss a file or find it wrong, but it finds none right that is not.
LEMMA ViewsMissAtMost ==
  ASSUME readBack \in BOOLEAN, NEW r \in Remote, NEW view \in Views(r)
  PROVE  /\ Inspect(view) \in {"COMMITTED", "COLLISION", "ABSENT", "ORPHAN_MSG"}
         /\ Inspect(view) = "COMMITTED" <=> Committed(view)
         /\ Inspect(view) = "ORPHAN_MSG" => Matches(view.msg)
         /\ Matches(view.msg) => Matches(r.msg)
         /\ Committed(view) => Committed(r)
<1>1. PICK m \in Seen(r.meta, {"corrupt"}), b \in Seen(r.msg, IF readBack THEN {} ELSE {"foreign"}) :
        view = View(r, m, b)
  BY DEF Views
<1>2. view.meta = m /\ view.msg = b
  BY <1>1 DEF View, Remote
<1>3. (m = "own" => r.meta = "own") /\ (Matches(b) => b = r.msg)
  BY DEF Seen, Matches
<1> QED BY <1>2, <1>3 DEF Inspect, Committed, Matches

LEMMA OutboxStarts == SftpInit => OutboxInv
BY DEF SftpInit, OutboxInv, Types, UnderStarted, MarkerLast, MarkerProves, SpooledIsCommitted,
       Committed, Remote, Bytes, Metas, Stages

LEMMA OutboxStep ==
  ASSUME OutboxInv, [SftpNext]_sftpVars
  PROVE  OutboxInv'
<1> USE DEF OutboxInv, Types, UnderStarted, MarkerLast, MarkerProves, Unharmed, SpooledIsCommitted,
            Committed, Matches, Stages
<1>1. CASE StartSend
  BY <1>1 DEF StartSend
<1>2. CASE Connect
  BY <1>2 DEF Connect, Reply
<1>3. CASE InspectFirst
  <2>1. PICK view \in Views(remote) : InspectFirst!2!(view)
    BY <1>3 DEF InspectFirst
  <2>2. remote' \in Remote /\ remote'.msg = remote.msg /\ remote'.meta = remote.meta
    BY <2>1, SweepKeepsFiles
  <2>3. /\ Committed(view) => Committed(remote)
        /\ Inspect(view) = "COMMITTED" <=> Committed(view)
        /\ Inspect(view) = "ORPHAN_MSG" => Matches(remote.msg)
    BY ViewsMissAtMost
  <2>4. UNCHANGED <<readBack, retried>> /\ stage = "inspect"
    BY <1>3 DEF InspectFirst
  <2>5. CASE Reply("RETRY") /\ UNCHANGED overlooked
    BY <2>2, <2>4, <2>5 DEF Reply
  <2>6. CASE Inspect(view) = "COMMITTED" /\ (Reply("SPOOLED") \/ Reply("PERMANENT"))
    BY <2>1, <2>2, <2>3, <2>4, <2>6 DEF Reply
  <2>7. CASE Reply("PERMANENT") /\ Overlooks(view)
    BY <2>2, <2>4, <2>7 DEF Reply, Overlooks
  <2>8. CASE stage' = "commit" /\ UNCHANGED sent /\ Matches(remote.msg) /\ Overlooks(view)
    BY <2>2, <2>4, <2>8 DEF Overlooks
  <2>9. CASE stage' = "upload" /\ UNCHANGED sent /\ Overlooks(view)
    BY <2>2, <2>4, <2>9 DEF Overlooks
  <2> QED BY <2>1, <2>3, <2>5, <2>6, <2>7, <2>8, <2>9 DEF Reply
<1>4. CASE Upload
  <2>1. remote' \in HalfPut(remote, "msg") \cup {PutFile(remote, "msg")}
    BY <1>4 DEF Upload
  <2>2. remote' \in Remote /\ remote'.meta = remote.meta /\ remote'.msg \in {"absent", "own", remote.msg}
    BY <2>1, PutChangesOneFile
  <2> QED BY <1>4, <2>2 DEF Upload, Reply
<1>5. CASE CheckUpload
  BY <1>5 DEF CheckUpload, Reply
<1>6. CASE PutMeta
  <2>1. remote' \in HalfPut(remote, "meta") \cup {PutFile(remote, "meta")}
    BY <1>6 DEF PutMeta
  <2>2. remote' \in Remote /\ remote'.msg = remote.msg
    BY <2>1, PutChangesOneFile
  <2>3. CASE sent' = "SPOOLED"
    <3>1. remote' = PutFile(remote, "meta")
      BY <1>6, <2>3 DEF PutMeta, Reply
    <3>2. remote'.meta = "own"
      BY <3>1 DEF PutFile, Left, Remote
    <3> QED BY <1>6, <2>2, <2>3, <3>2 DEF PutMeta, Reply
  <2>4. CASE sent' # "SPOOLED"
    BY <1>6, <2>2, <2>4 DEF PutMeta, Reply
  <2> QED BY <2>3, <2>4
<1>7. CASE Die
  <2>1. CASE remote' = remote
    BY <1>7, <2>1 DEF Die
  <2>2. CASE stage = "upload" /\ remote' \in HalfPut(remote, "msg")
    <3>1. remote' \in Remote /\ remote'.meta = remote.meta /\ remote'.msg \in {"absent", "own", remote.msg}
      BY <2>2, PutChangesOneFile
    <3> QED BY <1>7, <2>2, <3>1 DEF Die
  <2>3. CASE stage = "commit" /\ remote' \in HalfPut(remote, "meta")
    <3>1. remote' \in Remote /\ remote'.msg = remote.msg
      BY <2>3, PutChangesOneFile
    <3> QED BY <1>7, <2>3, <3>1 DEF Die
  <2> QED BY <1>7, <2>1, <2>2, <2>3 DEF Die
<1>8. CASE RecoverOrphan
  <2>1. PICK view \in Views(remote) : RecoverOrphan!3!(view)
    BY <1>8 DEF RecoverOrphan
  <2>2. remote' \in Remote /\ remote'.msg = remote.msg /\ remote'.meta = remote.meta
    BY <2>1, SweepKeepsFiles
  <2>3. /\ Committed(view) => Committed(remote)
        /\ Inspect(view) = "COMMITTED" <=> Committed(view)
    BY ViewsMissAtMost
  <2> QED BY <1>8, <2>1, <2>2, <2>3 DEF RecoverOrphan, InspectVerdict, Overlooks
<1>9. CASE ForceRetry
  BY <1>9 DEF ForceRetry
<1>10. CASE SquatOutbox
  BY <1>10 DEF SquatOutbox, Remote, Bytes, Metas
<1>11. CASE UNCHANGED sftpVars
  BY <1>11 DEF sftpVars
<1> QED
  BY <1>1, <1>2, <1>3, <1>4, <1>5, <1>6, <1>7, <1>8, <1>9, <1>10, <1>11 DEF SftpNext

\* SPOOLED means that message and marker are there, the marker stands beside no bytes but the
\* ledger's, and a failure hides a committed handoff only after a forced retry or after one was
\* overlooked (SftpTruthful; deliver, verify and _inspect_remote of transport/sftp.py).
THEOREM LedgerTellsOutbox == SftpSpec => []SftpTruthful
<1>1. OutboxInv /\ [SftpNext]_sftpVars => OutboxInv'
  BY OutboxStep
<1>2. OutboxInv => SftpTruthful
  BY DEF OutboxInv, MarkerLast, MarkerProves, Unharmed, SpooledIsCommitted, SftpTruthful, Committed
<1> QED BY <1>1, <1>2, OutboxStarts, PTL DEF SftpSpec

-----------------------------------------------------------------------------
(* The request queue.                                                      *)

QueueTypes ==
  /\ waiting \in Nat /\ taken \in Nat /\ died \in Nat /\ forced \in Nat
  /\ at \in {"idle", "connect", "browse", "put", "commit"}

\* Only a put opens a unit of work.
UnitOfPut == unit => at = "commit"

\* An attempt runs under a durable STARTED.
PutUnderStarted == at # "idle" => entry = "STARTED"

\* A put finds no message of ours in the queue: the browse before it looked.
PutsIntoEmpty ==
  /\ waiting <= 1
  /\ at \in {"put", "commit"} => waiting = 0

\* Until an operator forces a retry, whoever may try again left nothing behind.
NothingLeft ==
  forced = 0 /\ (at # "idle" \/ entry \in {"PREPARED", "RETRY"}) => waiting = 0

\* A success was a message in the queue.
SpooledWasPut == entry = "SPOOLED" => waiting + taken > 0

QueueInv == QueueTypes /\ UnitOfPut /\ PutUnderStarted /\ PutsIntoEmpty /\ NothingLeft /\ SpooledWasPut

-----------------------------------------------------------------------------
LEMMA QueueStarts == MqInit => QueueInv
<1> SUFFICES ASSUME MqInit PROVE QueueInv
  OBVIOUS
<1>1. UnitOfPut
  BY DEF MqInit, UnitOfPut
<1>2. QueueTypes /\ PutUnderStarted /\ PutsIntoEmpty /\ NothingLeft /\ SpooledWasPut
  BY DEF MqInit, QueueTypes, PutUnderStarted, PutsIntoEmpty, NothingLeft, SpooledWasPut
<1> QED BY <1>1, <1>2 DEF QueueInv

\* A unit of work is open between the put and the commit at most.
LEMMA UnitKept == ASSUME UnitOfPut, [MqNext]_mqVars PROVE UnitOfPut'
<1> USE DEF UnitOfPut
<1>1. CASE unit' = FALSE
  BY <1>1
<1>2. CASE unit' = unit /\ (at' = at \/ at # "commit")
  BY <1>2
<1>3. CASE at' = "commit"
  BY <1>3
<1>4. CASE StartPut
  BY <1>4, <1>2 DEF StartPut
<1>5. CASE ConnectQmgr
  BY <1>5, <1>2 DEF ConnectQmgr
<1>6. CASE Browse
  BY <1>6, <1>2 DEF Browse
<1>7. CASE PutMessage
  BY <1>7, <1>2, <1>3 DEF PutMessage
<1>8. CASE CommitPut
  BY <1>8, <1>1 DEF CommitPut
<1>9. CASE DieInPut
  BY <1>9, <1>1 DEF DieInPut
<1>10. CASE VerifyOrphan
  BY <1>10, <1>2 DEF VerifyOrphan
<1>11. CASE ForcePut
  BY <1>11, <1>2 DEF ForcePut
<1>12. CASE GatewayTakes
  BY <1>12, <1>2 DEF GatewayTakes
<1>13. CASE AlienMessage
  BY <1>13, <1>2 DEF AlienMessage
<1>14. CASE UNCHANGED mqVars
  BY <1>14, <1>2 DEF mqVars
<1> QED
  BY <1>4, <1>5, <1>6, <1>7, <1>8, <1>9, <1>10, <1>11, <1>12, <1>13, <1>14 DEF MqNext

LEMMA QueueStep ==
  ASSUME QueueInv, [MqNext]_mqVars
  PROVE  QueueInv'
<1> DEFINE Rest == QueueTypes /\ PutUnderStarted /\ PutsIntoEmpty /\ NothingLeft /\ SpooledWasPut
<1>0. Rest
  BY DEF QueueInv
<1> SUFFICES Rest'
  BY UnitKept DEF QueueInv
<1> USE <1>0 DEF QueueTypes, PutUnderStarted, PutsIntoEmpty, NothingLeft, SpooledWasPut
<1>1. CASE StartPut
  BY <1>1 DEF StartPut, queueVars, bounds
<1>2. CASE ConnectQmgr
  BY <1>2 DEF ConnectQmgr, Answer, Refusals, queueVars, bounds
<1>3. CASE Browse
  BY <1>3 DEF Browse, Answer, Refusals, queueVars, bounds
<1>4. CASE PutMessage
  <2>1. /\ waiting' = waiting /\ taken' = taken /\ died' = died /\ forced' = forced
        /\ \/ at' = "commit" /\ entry' = entry
           \/ at' = "idle" /\ entry' \in {"RETRY", "PERMANENT", "UNKNOWN"}
    BY <1>4 DEF PutMessage, Answer, Refusals, queueVars, bounds
  <2> QED BY <1>4, <2>1 DEF PutMessage
<1>5. CASE CommitPut
  <2>1. /\ taken' = taken /\ died' = died /\ forced' = forced
        /\ at' = "idle"
        /\ \/ waiting' = waiting + 1 /\ entry' \in {"SPOOLED", "UNKNOWN"}
           \/ waiting' = waiting /\ entry' = "UNKNOWN"
    BY <1>5 DEF CommitPut, Answer, bounds
  <2> QED BY <1>5, <2>1 DEF CommitPut
<1>6. CASE DieInPut
  <2>1. waiting' = waiting \/ (waiting' = waiting + 1 /\ at = "commit")
    BY <1>6 DEF DieInPut, QueueInv, UnitOfPut
  <2>2. /\ taken' = taken /\ died' = died + 1 /\ forced' = forced
        /\ entry' = entry /\ at' = "idle" /\ at # "idle"
    BY <1>6 DEF DieInPut
  <2> QED BY <2>1, <2>2
<1>7. CASE VerifyOrphan
  BY <1>7 DEF VerifyOrphan, queueVars, bounds
<1>8. CASE ForcePut
  BY <1>8 DEF ForcePut, queueVars
<1>9. CASE GatewayTakes
  BY <1>9 DEF GatewayTakes, bounds
<1>10. CASE AlienMessage
  BY <1>10 DEF AlienMessage, bounds
<1>11. CASE UNCHANGED mqVars
  BY <1>11 DEF mqVars
<1> QED
  BY <1>1, <1>2, <1>3, <1>4, <1>5, <1>6, <1>7, <1>8, <1>9, <1>10, <1>11 DEF MqNext

\* SPOOLED means that a put was confirmed, no second message joins one that waits, and a
\* failure nobody forced hides none (MqTruthful; deliver and verify of transport/mq.py).
THEOREM LedgerTellsQueue == MqSpec => []MqTruthful
<1>1. QueueInv /\ [MqNext]_mqVars => QueueInv'
  BY QueueStep
<1>2. QueueInv => MqTruthful
  BY DEF QueueInv, QueueTypes, PutsIntoEmpty, NothingLeft, SpooledWasPut, MqTruthful
<1> QED BY <1>1, <1>2, QueueStarts, PTL DEF MqSpec

\* At either boundary the ledger tells the truth (HandoffTruthful; deliver and verify of both
\* transports): whichever call breaks and wherever the sender dies.
THEOREM LedgerTellsBoundary == SftpSpec /\ MqSpec => []HandoffTruthful
<1>1. SftpTruthful /\ MqTruthful => HandoffTruthful
  BY DEF HandoffTruthful
<1> QED BY <1>1, LedgerTellsOutbox, LedgerTellsQueue, PTL

-----------------------------------------------------------------------------
(* The receipts.                                                           *)

Decision == [state: {"SPOOLED", "GATEWAY_ACCEPTED", "GATEWAY_REJECTED"}, by: Valid \cup {NoFile}]

PTypes ==
  /\ offered \in Folder /\ archived \in Folder /\ staged \in Folder /\ processed \in Folder
  /\ verdict \in Decision /\ pending \in Decision
  /\ polled \subseteq Names /\ phase \in {"idle", "ingest", "archive"}
  /\ drops \subseteq Names \X Receipt
  /\ failures \in Nat

\* A local copy is of the file that is offered, also the one a failed pass left.
CopyIsOffered ==
  /\ \A n \in Names : staged[n] # NoFile => staged[n] = offered[n]
  /\ phase = "ingest" => /\ \E n \in Names : staged[n] # NoFile
                         /\ \A n \in polled : staged[n] # NoFile
  /\ phase = "archive" => staged = Empty

\* What a pass may archive has been quarantined or processed by it.
Secured ==
  phase = "archive" =>
    \A n \in polled : /\ offered[n] # NoFile
                      /\ <<n, offered[n]>> \in quarantine \/ processed[n] = offered[n]

KeptFile(d) == d \in quarantine \/ offered[d[1]] = d[2] \/ processed[d[1]] = d[2]

\* processed/ holds the receipt that decided, and nothing before one did.
DecidedByFile ==
  /\ phase # "archive" \/ verdict.state # "SPOOLED" => pending = verdict
  /\ pending.state = "SPOOLED" => processed = Empty
  /\ \A n \in Names : pending.state = Of(n) => processed[n] = pending.by

PInv ==
  /\ PTypes /\ CopyIsOffered /\ Secured
  /\ failures = 0 => DecidedByFile /\ \A d \in drops : KeptFile(d)

-----------------------------------------------------------------------------
LEMMA NothingPolled == PollInit => PInv
<1> SUFFICES ASSUME PollInit PROVE PInv
  OBVIOUS
<1>1. Empty \in Folder /\ Undecided \in Decision
  BY DEF Empty, Folder, Undecided, Decision
<1>2. \A n \in Names : Empty[n] = NoFile /\ Of(n) # "SPOOLED"
  BY DEF Empty, Of
<1>3. PTypes
  BY <1>1 DEF PollInit, PTypes
<1> QED BY <1>2, <1>3 DEF PollInit, PInv, CopyIsOffered, Secured, DecidedByFile, Undecided

\* A pass finds one of the two names staged, or both.
LEMMA StagedNames ==
  ASSUME PTypes, There(staged) # {}
  PROVE  \/ There(staged) = Names /\ Cardinality(There(staged)) = 2
         \/ \E n \in Names : There(staged) = {n} /\ Cardinality(There(staged)) # 2
<1>1. CASE There(staged) = {"ack", "nak"}
  <2>1. IsFiniteSet({"ack"}) /\ Cardinality({"ack"}) = 1
    BY FS_Singleton
  <2>2. {"ack"} \cup {"nak"} = {"ack", "nak"} /\ "nak" \notin {"ack"}
    OBVIOUS
  <2>3. Cardinality({"ack"} \cup {"nak"}) = 2
    BY <2>1, <2>2, FS_AddElement
  <2> QED BY <1>1, <2>2, <2>3 DEF Names
<1>2. CASE There(staged) # {"ack", "nak"}
  <2>1. PICK n \in Names : There(staged) = {n}
    BY <1>2 DEF There, Names
  <2>2. Cardinality({n}) = 1
    BY FS_Singleton
  <2> QED BY <2>1, <2>2
<1> QED BY <1>1, <1>2

\* What the rules of the local receipts do with what is staged: all of it is quarantined, or
\* the only file is processed and is the one that decides, now or before (_ingest_receipts).
LEMMA Ingested ==
  ASSUME PInv, IngestStaged
  PROVE  \/ /\ quarantine' = quarantine \cup {<<n, staged[n]>> : n \in There(staged)}
            /\ processed' = processed /\ pending' = pending
         \/ \E n \in Names :
              /\ There(staged) = {n} /\ processed' = [processed EXCEPT ![n] = staged[n]]
              /\ quarantine' = quarantine
              /\ pending' = [state |-> Of(n), by |-> staged[n]]
              /\ staged[n] \in Valid
              /\ pending.state = "SPOOLED" \/ pending' = pending
<1> DEFINE here == There(staged)
           n == CHOOSE m \in here : TRUE
<1>1. here # {} /\ PTypes
  BY DEF PInv, CopyIsOffered, IngestStaged, There
<1>2. CASE Cardinality(here) = 2
  BY <1>2 DEF IngestStaged, Quarantine
<1>3. CASE Cardinality(here) # 2
  <2>1. PICK k \in Names : here = {k}
    BY <1>1, <1>3, StagedNames
  <2>2. n = k
    BY <2>1
  <2> HIDE DEF n
  <2>3. CASE staged[n] \in Valid /\ pending.state = "SPOOLED"
    BY <1>3, <2>1, <2>2, <2>3 DEF IngestStaged, Process, n
  <2>4. CASE /\ ~(staged[n] \in Valid /\ pending.state = "SPOOLED")
             /\ pending = [state |-> Of(n), by |-> staged[n]]
    <3>1. staged[n] # NoFile /\ staged[n] = pending.by
      BY <2>1, <2>2, <2>4 DEF There
    <3>2. staged[n] \in Valid
      BY <1>1, <3>1 DEF PTypes, Decision
    <3>3. Process(n) /\ pending' = pending
      BY <1>3, <2>4 DEF IngestStaged, n
    <3> QED BY <2>1, <2>2, <2>4, <3>2, <3>3 DEF Process
  <2>5. CASE /\ ~(staged[n] \in Valid /\ pending.state = "SPOOLED")
             /\ pending # [state |-> Of(n), by |-> staged[n]]
    BY <1>3, <2>5 DEF IngestStaged, Quarantine, n
  <2> QED BY <2>3, <2>4, <2>5
<1> QED BY <1>2, <1>3

LEMMA IngestKeeps == ASSUME PInv, IngestStaged PROVE PInv'
<1>1. /\ phase = "ingest" /\ phase' = "archive" /\ staged' = Empty
      /\ UNCHANGED <<offered, archived, verdict, polled, drops, failures>>
  BY DEF IngestStaged
<1>2. /\ PTypes /\ Empty \in Folder /\ \A n \in Names : Empty[n] = NoFile
      /\ \A n \in Names : Of(n) \in {"GATEWAY_ACCEPTED", "GATEWAY_REJECTED"}
      /\ \A m, n \in Names : Of(m) = Of(n) => m = n
  BY DEF PInv, Empty, Folder, Of, Names
<1>3. /\ \A n \in Names : staged[n] # NoFile => staged[n] = offered[n]
      /\ \A n \in polled : staged[n] # NoFile
  BY <1>1 DEF PInv, CopyIsOffered
<1>4. CopyIsOffered'
  BY <1>1, <1>2 DEF CopyIsOffered
<1>5. CASE /\ quarantine' = quarantine \cup {<<n, staged[n]>> : n \in There(staged)}
           /\ processed' = processed /\ pending' = pending
  <2>1. PTypes'
    BY <1>1, <1>2, <1>5 DEF PTypes
  <2>2. Secured'
    <3> SUFFICES ASSUME NEW n \in polled PROVE offered[n] # NoFile /\ <<n, offered[n]>> \in quarantine'
      BY <1>1 DEF Secured
    <3>1. n \in Names /\ staged[n] = offered[n] /\ staged[n] # NoFile
      BY <1>2, <1>3 DEF PTypes
    <3>2. n \in There(staged)
      BY <3>1 DEF There
    <3>3. <<n, staged[n]>> \in quarantine'
      BY <1>5, <3>2, Zenon
    <3> QED BY <3>1, <3>3
  <2>3. ASSUME failures = 0 PROVE DecidedByFile' /\ \A d \in drops : KeptFile(d)'
    BY <1>1, <1>5, <2>3 DEF PInv, DecidedByFile, KeptFile
  <2> QED BY <1>1, <1>4, <2>1, <2>2, <2>3 DEF PInv
<1>6. CASE \E n \in Names :
             /\ There(staged) = {n} /\ processed' = [processed EXCEPT ![n] = staged[n]]
             /\ quarantine' = quarantine
             /\ pending' = [state |-> Of(n), by |-> staged[n]]
             /\ staged[n] \in Valid
             /\ pending.state = "SPOOLED" \/ pending' = pending
  <2>1. PICK n \in Names :
             /\ There(staged) = {n} /\ processed' = [processed EXCEPT ![n] = staged[n]]
             /\ quarantine' = quarantine
             /\ pending' = [state |-> Of(n), by |-> staged[n]]
             /\ staged[n] \in Valid
             /\ pending.state = "SPOOLED" \/ pending' = pending
    BY <1>6
  <2>2. processed'[n] = staged[n] /\ \A m \in Names \ {n} : processed'[m] = processed[m]
    BY <1>2, <2>1 DEF PTypes, Folder
  <2>3. processed' \in Folder /\ pending' \in Decision
    BY <1>2, <2>1 DEF PTypes, Folder, Decision, Receipt
  <2>4. PTypes'
    BY <1>1, <1>2, <2>3 DEF PTypes
  <2>5. Secured'
    <3> SUFFICES ASSUME NEW m \in polled PROVE offered[m] # NoFile /\ processed'[m] = offered[m]
      BY <1>1 DEF Secured
    <3>1. m \in Names /\ staged[m] = offered[m] /\ staged[m] # NoFile
      BY <1>2, <1>3 DEF PTypes
    <3>2. m = n
      BY <2>1, <3>1 DEF There
    <3> QED BY <2>2, <3>1, <3>2
  <2>6. ASSUME failures = 0 PROVE DecidedByFile' /\ \A d \in drops : KeptFile(d)'
    <3>1. DecidedByFile /\ \A d \in drops : KeptFile(d)
      BY <2>6 DEF PInv
    <3>2. pending'.state = Of(n) /\ pending'.by = staged[n]
      BY <2>1
    <3>3. DecidedByFile'
      <4>1. verdict.state # "SPOOLED" => pending' = verdict
        BY <1>1, <2>1, <3>1 DEF DecidedByFile
      <4>2. \A m \in Names : pending'.state = Of(m) => processed'[m] = pending'.by
        BY <1>2, <2>2, <3>2
      <4> QED BY <1>1, <1>2, <3>2, <4>1, <4>2 DEF DecidedByFile
    <3>4. processed[n] = NoFile \/ processed[n] = staged[n]
      BY <1>2, <2>1, <3>1, <3>2 DEF DecidedByFile
    <3>5. ASSUME NEW d \in drops PROVE KeptFile(d)'
      <4>1. d[1] \in Names /\ d[2] \in Receipt
        BY <1>2 DEF PTypes
      <4>2. d[2] # NoFile
        BY <4>1, PollAssumption
      <4> QED BY <1>1, <2>1, <2>2, <3>1, <3>4, <4>1, <4>2 DEF KeptFile
    <3> QED BY <3>3, <3>5
  <2> QED BY <1>1, <1>4, <2>4, <2>5, <2>6 DEF PInv
<1> QED BY <1>5, <1>6, Ingested

LEMMA PollStep == PInv /\ [PollNext]_pollVars => PInv'
<1> SUFFICES ASSUME PInv, [PollNext]_pollVars PROVE PInv'
  OBVIOUS
<1>0. PTypes /\ CopyIsOffered /\ Secured
  BY DEF PInv
<1>1. CASE Poll
  <2>1. PICK read \in SUBSET There(offered) :
          /\ staged' = [n \in Names |-> IF n \in read THEN offered[n] ELSE staged[n]]
          /\ \/ read # {} /\ polled' = read /\ phase' = "ingest"
             \/ UNCHANGED <<polled, phase>>
    BY <1>1 DEF Poll
  <2>2. phase = "idle" /\ UNCHANGED <<offered, archived, processed, quarantine, verdict,
                                      pending, drops, failures>>
    BY <1>1 DEF Poll
  <2>3. read \subseteq Names /\ \A n \in read : offered[n] # NoFile
    BY DEF There
  <2>4. PTypes'
    BY <1>0, <2>1, <2>2, <2>3 DEF PTypes, Folder
  <2>5. CopyIsOffered'
    BY <1>0, <2>1, <2>2, <2>3 DEF CopyIsOffered
  <2>6. Secured' /\ phase' # "archive"
    BY <2>1, <2>2 DEF Secured
  <2>7. failures = 0 => DecidedByFile' /\ \A d \in drops : KeptFile(d)'
    BY <2>2, <2>6 DEF PInv, DecidedByFile, KeptFile
  <2> QED BY <2>2, <2>4, <2>5, <2>6, <2>7 DEF PInv
<1>2. CASE IngestStaged
  BY <1>2, IngestKeeps
<1>3. CASE CommitPoll
  <2>1. /\ phase' = "idle" /\ polled' = {} /\ verdict' = pending /\ phase = "archive"
        /\ UNCHANGED <<offered, archived, staged, processed, quarantine, pending, drops, failures>>
    BY <1>3 DEF CommitPoll, EndPass
  <2> QED BY <1>0, <2>1 DEF PInv, PTypes, CopyIsOffered, Secured, DecidedByFile, KeptFile
<1>4. CASE PollerDies
  <2>1. /\ phase' = "idle" /\ polled' = {} /\ pending' = verdict /\ failures' = failures + 1
        /\ UNCHANGED <<offered, archived, staged, processed, quarantine, verdict, drops>>
    BY <1>4 DEF PollerDies, EndPass
  <2>2. PTypes' /\ failures' # 0
    BY <1>0, <2>1 DEF PTypes
  <2> QED BY <1>0, <2>1, <2>2 DEF PInv, CopyIsOffered, Secured
<1>5. ASSUME NEW n \in Names, Archive(n) PROVE PInv'
  <2>1. /\ phase = "archive" /\ n \in polled /\ polled' = polled \ {n}
        /\ UNCHANGED <<staged, processed, quarantine, verdict, pending, phase, drops, failures>>
    BY <1>5 DEF Archive
  <2>2. CASE UNCHANGED <<archived, offered>>
    BY <1>0, <2>1, <2>2 DEF PInv, PTypes, CopyIsOffered, Secured, DecidedByFile, KeptFile
  <2>3. CASE /\ archived' = [archived EXCEPT ![n] = offered[n]]
             /\ offered' = [offered EXCEPT ![n] = NoFile]
    <3>1. /\ offered'[n] = NoFile /\ \A m \in Names \ {n} : offered'[m] = offered[m]
          /\ offered' \in Folder /\ archived' \in Folder
      BY <1>0, <2>3 DEF PTypes, Folder
    <3>2. PTypes'
      BY <1>0, <2>1, <3>1 DEF PTypes
    <3>3. CopyIsOffered'
      BY <1>0, <2>1 DEF CopyIsOffered, Empty
    <3>4. Secured'
      BY <1>0, <2>1, <3>1 DEF Secured, PTypes
    <3>5. ASSUME failures = 0 PROVE DecidedByFile' /\ \A d \in drops : KeptFile(d)'
      <4>1. DecidedByFile'
        BY <2>1, <3>5 DEF PInv, DecidedByFile
      <4>2. ASSUME NEW d \in drops PROVE KeptFile(d)'
        <5>1. KeptFile(d) /\ d[1] \in Names /\ d = <<d[1], d[2]>>
          BY <1>0, <3>5 DEF PInv, PTypes
        <5>2. CASE d[1] = n /\ offered[n] = d[2]
          <6>1. <<n, offered[n]>> \in quarantine \/ processed[n] = offered[n]
            BY <1>0, <2>1 DEF Secured
          <6> QED BY <2>1, <5>1, <5>2, <6>1 DEF KeptFile
        <5>3. CASE ~(d[1] = n /\ offered[n] = d[2])
          BY <2>1, <3>1, <5>1, <5>3 DEF KeptFile
        <5> QED BY <5>2, <5>3
      <4> QED BY <4>1, <4>2
    <3> QED BY <2>1, <3>2, <3>3, <3>4, <3>5 DEF PInv
  <2> QED BY <1>5, <2>2, <2>3 DEF Archive
<1>6. ASSUME NEW n \in Names, NEW r \in Receipt, GatewayDrops(n, r) PROVE PInv'
  <2>1. /\ offered[n] = NoFile /\ offered' = [offered EXCEPT ![n] = r]
        /\ drops' = drops \cup {<<n, r>>}
        /\ UNCHANGED <<archived, staged, processed, quarantine, verdict, pending, polled,
                       phase, failures>>
    BY <1>6 DEF GatewayDrops
  <2>2. /\ offered'[n] = r /\ \A m \in Names \ {n} : offered'[m] = offered[m]
        /\ offered' \in Folder
    BY <1>0, <2>1 DEF PTypes, Folder
  <2>3. PTypes'
    BY <1>0, <2>1, <2>2 DEF PTypes
  <2>4. CopyIsOffered'
    BY <1>0, <2>1, <2>2 DEF CopyIsOffered
  <2>5. Secured'
    <3> SUFFICES ASSUME phase = "archive", NEW m \in polled
                 PROVE  /\ offered'[m] # NoFile
                        /\ <<m, offered'[m]>> \in quarantine \/ processed[m] = offered'[m]
      BY <2>1 DEF Secured
    <3>1. m \in Names /\ offered[m] # NoFile
      BY <1>0 DEF Secured, PTypes
    <3>2. m # n
      BY <2>1, <3>1
    <3>3. offered'[m] = offered[m]
      BY <2>2, <3>1, <3>2
    <3> QED BY <1>0, <3>3 DEF Secured
  <2>6. ASSUME failures = 0 PROVE DecidedByFile' /\ \A d \in drops' : KeptFile(d)'
    <3>1. DecidedByFile'
      BY <2>1, <2>6 DEF PInv, DecidedByFile
    <3>2. ASSUME NEW d \in drops PROVE KeptFile(d)'
      <4>1. KeptFile(d) /\ d[1] \in Names /\ d[2] # NoFile
        BY <1>0, <2>6, PollAssumption DEF PInv, PTypes
      <4> QED BY <2>1, <2>2, <4>1 DEF KeptFile
    <3>3. KeptFile(<<n, r>>)'
      BY <2>2 DEF KeptFile
    <3> QED BY <2>1, <3>1, <3>2, <3>3
  <2> QED BY <2>1, <2>3, <2>4, <2>5, <2>6 DEF PInv
<1>7. CASE UNCHANGED pollVars
  BY <1>0, <1>7 DEF pollVars, PInv, PTypes, CopyIsOffered, Secured, DecidedByFile, KeptFile
<1> QED BY <1>1, <1>2, <1>3, <1>4, <1>5, <1>6, <1>7 DEF PollNext

\* As long as no poller dies, every file the gateway drops stays somewhere, and the receipt
\* that decided the send is in processed/ (PollKeepsEvidence; poll_receipts,
\* archive_remote_receipt, _ingest_sftp_receipts): no order of drops, partial downloads,
\* failed passes and best-effort archives loses one.
THEOREM NoReceiptIsLost == PollSpec => []PollKeepsEvidence
<1>1. PInv => PollKeepsEvidence
  <2> SUFFICES ASSUME PInv, failures = 0 PROVE
        /\ \A d \in drops :
             \/ d \in quarantine
             \/ \E f \in {offered, archived, staged, processed} : f[d[1]] = d[2]
        /\ verdict.state # "SPOOLED" =>
             \E n \in Names : verdict.state = Of(n) /\ processed[n] = verdict.by
    BY DEF PollKeepsEvidence
  <2>1. DecidedByFile /\ \A d \in drops : KeptFile(d)
    BY DEF PInv
  <2>2. ASSUME verdict.state # "SPOOLED"
        PROVE  \E n \in Names : verdict.state = Of(n) /\ processed[n] = verdict.by
    <3>1. pending = verdict /\ verdict.state \in {"GATEWAY_ACCEPTED", "GATEWAY_REJECTED"}
      BY <2>1, <2>2 DEF DecidedByFile, PInv, PTypes, Decision
    <3>2. PICK n \in Names : verdict.state = Of(n)
      BY <3>1 DEF Of, Names
    <3> QED BY <2>1, <3>1, <3>2 DEF DecidedByFile
  <2> QED BY <2>1, <2>2 DEF KeptFile
<1> QED BY <1>1, NothingPolled, PollStep, PTL DEF PollSpec
-----------------------------------------------------------------------------
(* The inbox.                                                              *)

Meanings == {Meaning(m) : m \in Messages} \cup {Unknown}
MessageRow == [status : Outcomes, meaning : Meanings]

\* Of a table of messages: every meaning it knows has one processed message.
ProcessedAs(t, meaning) == {o \in Messages : t[o].meaning = meaning /\ t[o].status = "PROCESSED"}
Once(t) ==
  \A m \in Messages : t[m].meaning # Unknown => \E o \in Messages : ProcessedAs(t, t[m].meaning) = {o}

InboxInv ==
  /\ rows \in [Messages -> MessageRow] /\ durable \in [Messages -> MessageRow]
  /\ Once(rows) /\ Once(durable)

-----------------------------------------------------------------------------
LEMMA OnceIsExactlyOnce == InboxInv => MeaningOnce
<1> SUFFICES ASSUME InboxInv, NEW t \in {rows, durable}, NEW m \in Messages, t[m].meaning # Unknown
             PROVE  Cardinality(ProcessedAs(t, t[m].meaning)) = 1
  BY DEF MeaningOnce, ProcessedAs
<1>1. PICK o \in Messages : ProcessedAs(t, t[m].meaning) = {o}
  BY DEF InboxInv, Once
<1> QED BY <1>1, FS_Singleton

\* A message that was unknown is recorded: as processed where nothing says the same, as a
\* duplicate where something does, as failed without a meaning (process_inbox).
LEMMA RecordedOnce ==
  ASSUME NEW t \in [Messages -> MessageRow], Once(t), NEW m \in Messages, t[m] = None,
         NEW row \in MessageRow,
         \/ row.meaning = Unknown
         \/ /\ row.status = "DUPLICATE_SEMANTIC"
            /\ \E o \in Messages \ {m} : t[o].meaning = row.meaning
         \/ /\ row.status = "PROCESSED"
            /\ \A o \in Messages \ {m} : t[o].meaning # row.meaning
  PROVE  Once([t EXCEPT ![m] = row])
<1> DEFINE u == [t EXCEPT ![m] = row]
<1>1. u[m] = row /\ \A o \in Messages \ {m} : u[o] = t[o]
  OBVIOUS
<1>2. t[m].meaning = Unknown /\ t[m].status = "none"
  BY DEF None
<1> HIDE DEF u
<1> SUFFICES ASSUME NEW n \in Messages, u[n].meaning # Unknown
             PROVE  \E o \in Messages : ProcessedAs(u, u[n].meaning) = {o}
  BY DEF u, Once
<1>3. CASE row.status = "PROCESSED" /\ u[n].meaning = row.meaning
  <2>1. \A o \in Messages \ {m} : t[o].meaning # row.meaning
    BY <1>1, <1>3
  <2>2. ProcessedAs(u, u[n].meaning) = {m}
    BY <1>1, <1>3, <2>1 DEF ProcessedAs
  <2> QED BY <2>2
<1>4. CASE ~(row.status = "PROCESSED" /\ u[n].meaning = row.meaning)
  <2>1. ProcessedAs(u, u[n].meaning) = ProcessedAs(t, u[n].meaning)
    BY <1>1, <1>2, <1>4 DEF ProcessedAs
  <2>2. \E k \in Messages : t[k].meaning = u[n].meaning
    <3>1. CASE n # m
      BY <1>1, <3>1
    <3>2. CASE n = m
      BY <1>1, <1>4, <3>2
    <3> QED BY <3>1, <3>2
  <2> QED BY <2>1, <2>2 DEF Once
<1> QED BY <1>3, <1>4

LEMMA InboxInitially == InboxInit => InboxInv
<1> SUFFICES ASSUME InboxInit PROVE InboxInv
  OBVIOUS
<1>1. None \in MessageRow
  BY DEF None, MessageRow, Meanings, Outcomes
<1>2. rows = [m \in Messages |-> None] /\ durable = rows
  BY DEF InboxInit
<1>3. \A m \in Messages : rows[m].meaning = Unknown
  BY <1>2 DEF None
<1> QED BY <1>1, <1>2, <1>3 DEF InboxInv, Once

LEMMA FileRead == ASSUME InboxInv, ReadFile PROVE InboxInv'
<1>1. durable' = durable
  BY DEF ReadFile
<1>2. CASE rows' = rows
  BY <1>1, <1>2 DEF InboxInv, Once, ProcessedAs
<1>3. CASE rows' # rows
  <2>0. PICK m \in Messages :
          /\ rows[m] = None
          /\ \E v \in Verdicts(m) :
               CASE v = "FAILED" -> Record(m, "FAILED", Unknown)
                 [] v = "OK" /\ SemanticDup(m) -> Record(m, "DUPLICATE_SEMANTIC", Meaning(m))
                 [] OTHER -> Record(m, "PROCESSED", Meaning(m))
    BY <1>3 DEF ReadFile
  <2>1. PICK v \in Verdicts(m) :
          CASE v = "FAILED" -> Record(m, "FAILED", Unknown)
            [] v = "OK" /\ SemanticDup(m) -> Record(m, "DUPLICATE_SEMANTIC", Meaning(m))
            [] OTHER -> Record(m, "PROCESSED", Meaning(m))
    BY <2>0
  <2>2. v \in {"OK", "FAILED"}
    BY DEF Verdicts
  <2>3. PICK row \in MessageRow :
          /\ rows' = [rows EXCEPT ![m] = row]
          /\ \/ row.meaning = Unknown
             \/ /\ row.status = "DUPLICATE_SEMANTIC"
                /\ \E o \in Messages \ {m} : rows[o].meaning = row.meaning
             \/ /\ row.status = "PROCESSED"
                /\ \A o \in Messages \ {m} : rows[o].meaning # row.meaning
    <3>1. CASE v = "FAILED"
      <4> DEFINE row == [status |-> "FAILED", meaning |-> Unknown]
      <4>1. rows' = [rows EXCEPT ![m] = row]
        BY <2>1, <3>1 DEF Record
      <4>2. row \in MessageRow /\ row.status = "FAILED" /\ row.meaning = Unknown
        BY DEF MessageRow, Meanings, Outcomes
      <4> HIDE DEF row
      <4> QED BY <4>1, <4>2
    <3>2. CASE v = "OK" /\ SemanticDup(m)
      <4> DEFINE row == [status |-> "DUPLICATE_SEMANTIC", meaning |-> Meaning(m)]
      <4>1. rows' = [rows EXCEPT ![m] = row]
        BY <2>1, <3>2 DEF Record
      <4>2. row \in MessageRow /\ row.status = "DUPLICATE_SEMANTIC" /\ row.meaning = Meaning(m)
        BY DEF MessageRow, Meanings, Outcomes
      <4> HIDE DEF row
      <4> QED BY <3>2, <4>1, <4>2 DEF SemanticDup
    <3>3. CASE v = "OK" /\ ~SemanticDup(m)
      <4> DEFINE row == [status |-> "PROCESSED", meaning |-> Meaning(m)]
      <4>1. rows' = [rows EXCEPT ![m] = row]
        BY <2>1, <3>3 DEF Record
      <4>2. row \in MessageRow /\ row.status = "PROCESSED" /\ row.meaning = Meaning(m)
        BY DEF MessageRow, Meanings, Outcomes
      <4> HIDE DEF row
      <4> QED BY <3>3, <4>1, <4>2 DEF SemanticDup
    <3> QED BY <2>2, <3>1, <3>2, <3>3
  <2>4. Once([rows EXCEPT ![m] = row])
    BY <2>0, <2>3, RecordedOnce DEF InboxInv
  <2>5. rows' \in [Messages -> MessageRow]
    BY <2>3 DEF InboxInv
  <2> QED BY <1>1, <2>3, <2>4, <2>5 DEF InboxInv, Once, ProcessedAs
<1> QED BY <1>2, <1>3

\* A step that takes one table for the other, or neither.
LEMMA TableTaken ==
  ASSUME InboxInv, rows' \in {rows, durable}, durable' \in {rows, durable}
  PROVE  InboxInv'
BY DEF InboxInv, Once, ProcessedAs

LEMMA InboxStepKeeps == InboxInv /\ [InboxNext]_inboxVars => InboxInv'
<1> SUFFICES ASSUME InboxInv, [InboxNext]_inboxVars PROVE InboxInv'
  OBVIOUS
<1>1. CASE DeliverMessage
  BY <1>1, TableTaken DEF DeliverMessage
<1>2. CASE StartScan
  BY <1>2, TableTaken DEF StartScan
<1>3. CASE ReadFile
  BY <1>3, FileRead
<1>4. CASE EndScan
  BY <1>4, TableTaken DEF EndScan
<1>5. CASE CrashInScan
  BY <1>5, TableTaken DEF CrashInScan
<1>6. CASE UNCHANGED inboxVars
  BY <1>6, TableTaken DEF inboxVars
<1> QED BY <1>1, <1>2, <1>3, <1>4, <1>5, <1>6 DEF InboxNext

\* A meaning counts exactly once (MeaningOnce; process_inbox), committed and in the run under
\* way, in every order of files and whatever scans die.
THEOREM MeaningProcessedOnce == InboxSpec => []MeaningOnce
<1>1. InboxInv /\ [InboxNext]_inboxVars => InboxInv'
  BY InboxStepKeeps
<1> QED BY <1>1, InboxInitially, OnceIsExactlyOnce, PTL DEF InboxSpec
-----------------------------------------------------------------------------
(* The sources.                                                            *)

\* A document is listed once it is published, and the checkpoint is not ahead of today.
Timely ==
  /\ day \in Nat /\ ckpt \in Nat /\ ckpt <= day
  /\ \A d \in Docs : portal[d] # 0 => Published(d) <= day

\* What the portal and the ledger say of each document.
Contents ==
  /\ portal \in [Docs -> 0..2] /\ latest \in [Docs -> 0..2] /\ chosen \in [Docs -> 0..2]

\* A content that is chosen parses; the canon holds such contents and is that of the
\* recorded evidence; and it is that of the choice when a pass ended well.
Sound == Docs \X ((1..2) \ Unparseable)
CanonOfChoice ==
  /\ \A d \in Docs : chosen[d] # 0 => chosen[d] \notin Unparseable
  /\ canon \subseteq Sound /\ canon = evidence
  /\ passed => built /\ canon = EvidenceSet(chosen)

SInv == Timely /\ Contents /\ CanonOfChoice

\* A non-empty set of days up to today has a last one.
LEMMA HasLast ==
  ASSUME NEW n \in Nat, NEW T \in SUBSET (0..n), T # {}
  PROVE  \E r \in T : \A q \in T : q <= r
<1> DEFINE left == {n - r : r \in T}
           R == {ss \in Nat \X Nat : ss[1] < ss[2]}
<1>1. left \subseteq Nat /\ left # {}
  <2>1. \A r \in T : n - r \in Nat
    OBVIOUS
  <2>2. PICK r : r \in T
    OBVIOUS
  <2>3. n - r \in left
    BY <2>2
  <2> QED BY <2>1, <2>3
<1>2. ASSUME NEW x \in Nat, NEW y \in Nat, y < x PROVE <<y, x>> \in R
  <2>1. <<y, x>> \in Nat \X Nat /\ <<y, x>>[1] < <<y, x>>[2]
    BY <1>2
  <2> QED BY <2>1, Zenon
<1>3. IsWellFoundedOn(R, Nat)
  BY NatLessThanWellFounded DEF OpToRel
<1> HIDE DEF left, R
<1>4. PICK x \in left : \A y \in left : ~(<<y, x>> \in R)
  BY <1>1, <1>3, WFMin
<1>5. \A y \in left : x <= y
  <2>1. \A y \in left : ~(y < x)
    BY <1>1, <1>2, <1>4, Zenon
  <2> QED BY <1>1, <2>1
<1>6. PICK r \in T : x = n - r
  BY DEF left
<1>7. \A q \in T : n - q \in left
  BY DEF left
<1> QED BY <1>5, <1>6, <1>7

\* The window never starts before the first day.
LEMMA WindowStarts == ASSUME SInv PROVE WindowStart \in Nat
  BY SourcesAssumption DEF SInv, Timely, WindowStart

\* What a refresh yields: a part of what is listed in the window (CnmvAdapter.discover).
LEMMA Discovered ==
  ASSUME NEW found \in Discoveries
  PROVE  found.docs \subseteq Listed /\ found.fault \in Nat
<1>1. ASSUME NEW lost \in SUBSET Listed,
             found = [docs |-> Listed \ lost, complete |-> TRUE, fault |-> Short(lost, 0)]
      PROVE  found.docs \subseteq Listed /\ found.fault \in Nat
  BY <1>1 DEF Short
<1>2. ASSUME NEW n \in WindowStart..day, NEW lost \in SUBSET Before(n),
             found = [docs |-> Before(n) \ lost, complete |-> FALSE, fault |-> Short(lost, 1)]
      PROVE  found.docs \subseteq Listed /\ found.fault \in Nat
  BY <1>2 DEF Before, Short
<1> QED BY <1>1, <1>2 DEF Discoveries

\* The checkpoint moves to a publication date of the window, or stays.
LEMMA CheckpointTimely ==
  ASSUME SInv, NEW docs \in SUBSET Listed,
         NEW c, c = Latest({ckpt} \cup {Published(d) : d \in docs})
  PROVE  c \in Nat /\ c <= day
<1> DEFINE days == {ckpt} \cup {Published(d) : d \in docs}
<1>1. \A d \in docs : Published(d) \in Nat /\ Published(d) <= day
  BY SourcesAssumption DEF Listed, SInv, Timely
<1>2. days \in SUBSET (0..day) /\ days # {} /\ day \in Nat
  BY <1>1 DEF SInv, Timely
<1> HIDE DEF days
<1>3. \E r \in days : \A q \in days : q <= r
  BY <1>2, HasLast
<1>4. Latest(days) \in days
  BY <1>2, <1>3 DEF Latest
<1>5. c \in days
  BY <1>4 DEF days
<1> QED BY <1>2, <1>5

LEMMA SInitially == SourcesInit => SInv /\ NoneLeftBehind
<1> SUFFICES ASSUME SourcesInit PROVE SInv /\ NoneLeftBehind
  OBVIOUS
<1>1. /\ portal = [d \in Docs |-> 0] /\ latest = portal /\ chosen = portal
      /\ day = 1 /\ ckpt = 0 /\ canon = {} /\ evidence = {} /\ passed = FALSE
  BY DEF SourcesInit
<1> QED BY <1>1 DEF SInv, Timely, Contents, CanonOfChoice, NoneLeftBehind

\* A document that is listed late is still ahead of the window, which overlaps the checkpoint
\* by more than the portal's lag.
LEMMA ListedInWindow ==
  ASSUME SInv, NEW d \in Docs, day \in Published(d)..(Published(d) + Lag)
  PROVE  WindowStart <= Published(d)
<1>1. Published(d) \in Nat \ {0} /\ Overlap \in Nat /\ Lag \in 0..Overlap
  BY SourcesAssumption
<1>2. day \in Nat /\ ckpt \in Nat /\ ckpt <= day /\ day <= Published(d) + Lag
  BY <1>1 DEF SInv, Timely
<1> QED BY <1>1, <1>2 DEF WindowStart

LEMMA RefreshKeeps ==
  ASSUME SInv, Refresh
  PROVE  SInv' /\ (NoneLeftBehind => NoneLeftBehind')
<1> DEFINE Outcome(found, failed) ==
             /\ latest' = [d \in Docs |-> IF d \in Wanted(found.docs) \ failed
                                          THEN portal[d] ELSE latest[d]]
             /\ ckpt' = IF MovesCheckpoint(found, failed)
                        THEN Latest({ckpt} \cup {Published(d) : d \in found.docs}) ELSE ckpt
             /\ omitted' = IF found.complete THEN omitted \cup (Listed \ found.docs) ELSE omitted
<1>0. PICK found \in Discoveries : \E failed \in SUBSET Wanted(found.docs) : Outcome(found, failed)
  BY DEF Refresh
<1>1. PICK failed \in SUBSET Wanted(found.docs) : Outcome(found, failed)
  BY <1>0
<1>2. UNCHANGED <<portal, day, chosen, canon, evidence, built, passed>>
  BY DEF Refresh, canonVars
<1>3. found.docs \subseteq Listed
  BY Discovered
<1>4. \A d \in Wanted(found.docs) : d \in Docs /\ portal[d] # 0
  BY <1>3 DEF Wanted, Listed
<1>5. ckpt' \in Nat /\ ckpt' <= day
  BY <1>1, <1>3, CheckpointTimely DEF SInv, Timely
<1>6. SInv'
  <2>1. latest' \in [Docs -> 0..2]
    BY <1>1 DEF SInv, Contents
  <2>2. CanonOfChoice'
    BY <1>2 DEF SInv, CanonOfChoice, EvidenceSet
  <2> QED BY <1>2, <1>5, <2>1, <2>2 DEF SInv, Timely, Contents
<1>7. /\ \A d \in Docs : latest[d] # 0 => latest'[d] # 0
      /\ omitted \subseteq omitted'
  BY <1>1, <1>4
<1>8. ASSUME NoneLeftBehind, MovesCheckpoint(found, failed)
      PROVE  NoneLeftBehind'
  <2>1. found.complete /\ failed = {}
    BY <1>8 DEF MovesCheckpoint
  <2>2. ASSUME NEW d \in Listed PROVE latest'[d] # 0 \/ d \in omitted'
    <3>1. CASE d \in found.docs
      BY <1>1, <1>4, <2>1, <3>1 DEF Wanted, Listed
    <3>2. CASE d \notin found.docs
      BY <1>1, <2>1, <2>2, <3>2
    <3> QED BY <3>1, <3>2
  <2>3. ASSUME NEW d \in Docs, portal[d] # 0 PROVE latest'[d] # 0 \/ d \in omitted'
    <3>1. Published(d) \in Nat /\ Published(d) <= day /\ WindowStart \in Nat
      BY <2>3, SourcesAssumption, WindowStarts DEF SInv, Timely
    <3>2. CASE Published(d) < WindowStart
      BY <1>7, <1>8, <2>3, <3>2 DEF NoneLeftBehind
    <3>3. CASE ~(Published(d) < WindowStart)
      <4>1. Published(d) \in WindowStart..day
        BY <3>1, <3>3 DEF SInv, Timely
      <4> QED BY <2>2, <2>3, <4>1 DEF Listed
    <3> QED BY <3>2, <3>3
  <2> QED BY <1>2, <2>3 DEF NoneLeftBehind
<1>9. ASSUME NoneLeftBehind, ~MovesCheckpoint(found, failed)
      PROVE  NoneLeftBehind'
  <2>1. WindowStart' = WindowStart
    BY <1>1, <1>9 DEF WindowStart
  <2> QED BY <1>2, <1>7, <1>9, <2>1 DEF NoneLeftBehind
<1> QED BY <1>6, <1>8, <1>9

\* What is chosen and parses makes sound evidence.
LEMMA EvidenceIsSound ==
  ASSUME NEW c \in [Docs -> 0..2], \A d \in Docs : c[d] # 0 => c[d] \notin Unparseable
  PROVE  EvidenceSet(c) \subseteq Sound
BY DEF EvidenceSet, Sound

\* A rebuild that raises leaves the canon and its evidence; one that is skipped finds the
\* evidence of the canon there is, which is then that of the choice.
LEMMA CanonPassKeeps ==
  ASSUME SInv, CanonPass
  PROVE  SInv'
<1>1. /\ chosen' = [d \in Docs |-> Promote(d)]
      /\ UNCHANGED <<portal, day, latest, ckpt>>
  BY DEF CanonPass, refreshVars
<1>2. chosen' \in [Docs -> 0..2]
  BY <1>1 DEF Promote, SInv, Contents
<1>3. \A d \in Docs : chosen'[d] # 0 => chosen'[d] \notin Unparseable
  BY <1>1 DEF Promote, SInv, CanonOfChoice
<1>4. /\ canon' \subseteq Sound /\ canon' = evidence'
      /\ passed' => built' /\ canon' = EvidenceSet(chosen')
  <2>1. EvidenceSet(chosen') \subseteq Sound
    BY <1>2, <1>3, EvidenceIsSound
  <2>2. CASE built /\ EvidenceSet(chosen') = evidence /\ UNCHANGED <<canon, evidence, built>>
    BY <2>2 DEF SInv, CanonOfChoice
  <2>3. CASE Rebuilt(chosen')
    BY <2>1, <2>3 DEF Rebuilt
  <2>4. CASE passed' = FALSE /\ Raised(chosen')
    BY <2>4 DEF Raised, SInv, CanonOfChoice
  <2> QED BY <2>2, <2>3, <2>4 DEF CanonPass
<1>5. CanonOfChoice'
  BY <1>3, <1>4 DEF CanonOfChoice, Sound, EvidenceSet
<1>6. Timely' /\ Contents'
  BY <1>1, <1>2 DEF SInv, Timely, Contents
<1> QED BY <1>5, <1>6 DEF SInv

LEMMA SourcesStep ==
  ASSUME SInv, [SourcesNext]_sourceVars
  PROVE  SInv' /\ (NoneLeftBehind => NoneLeftBehind')
<1>1. CASE NextDay
  <2>1. day' = day + 1 /\ UNCHANGED <<portal, latest, chosen, ckpt, omitted, canon, evidence, built, passed>>
    BY <1>1 DEF NextDay, refreshVars, canonVars
  <2>2. Timely'
    BY <2>1, SourcesAssumption DEF SInv, Timely
  <2> QED BY <2>1, <2>2 DEF SInv, Contents, CanonOfChoice, EvidenceSet, NoneLeftBehind, WindowStart
<1>2. CASE List
  <2>1. PICK e \in Docs : /\ portal[e] = 0 /\ day \in Published(e)..(Published(e) + Lag)
                          /\ portal' = [portal EXCEPT ![e] = 1]
    BY <1>2 DEF List
  <2>2. UNCHANGED <<day, latest, chosen, ckpt, omitted, canon, evidence, built, passed>>
    BY <1>2 DEF List, refreshVars, canonVars
  <2>3. WindowStart <= Published(e) /\ WindowStart \in Nat /\ Published(e) \in Nat
    BY <2>1, ListedInWindow, WindowStarts, SourcesAssumption
  <2>4. portal' \in [Docs -> 0..2] /\ \A d \in Docs \ {e} : portal'[d] = portal[d]
    BY <2>1 DEF SInv, Contents
  <2>5. Timely'
    BY <2>1, <2>2, <2>4, SourcesAssumption DEF SInv, Timely
  <2>6. NoneLeftBehind => NoneLeftBehind'
    BY <2>2, <2>3, <2>4 DEF NoneLeftBehind, WindowStart
  <2> QED BY <2>2, <2>4, <2>5, <2>6 DEF SInv, Contents, CanonOfChoice, EvidenceSet
<1>3. CASE Amend
  <2>1. PICK e \in Docs : portal[e] # 0 /\ portal' = [portal EXCEPT ![e] = 3 - @]
    BY <1>3 DEF Amend
  <2>2. UNCHANGED <<day, latest, chosen, ckpt, omitted, canon, evidence, built, passed>>
    BY <1>3 DEF Amend, refreshVars, canonVars
  <2>3. /\ portal' \in [Docs -> 0..2]
        /\ \A d \in Docs : portal'[d] # 0 => portal[d] # 0
    BY <2>1 DEF SInv, Contents
  <2>4. NoneLeftBehind => NoneLeftBehind'
    BY <2>2, <2>3 DEF NoneLeftBehind, WindowStart
  <2>5. Timely' /\ Contents'
    BY <2>2, <2>3 DEF SInv, Timely, Contents
  <2> QED BY <2>2, <2>4, <2>5 DEF SInv, CanonOfChoice, EvidenceSet
<1>4. CASE Refresh
  BY <1>4, RefreshKeeps
<1>5. CASE CanonPass
  <2>1. UNCHANGED <<portal, latest, ckpt, omitted>>
    BY <1>5 DEF CanonPass, refreshVars
  <2> QED BY <1>5, <2>1, CanonPassKeeps DEF NoneLeftBehind, WindowStart
<1>6. CASE UNCHANGED sourceVars
  BY <1>6 DEF sourceVars, refreshVars, canonVars, SInv, Timely, Contents, CanonOfChoice, EvidenceSet, NoneLeftBehind,
     WindowStart
<1> QED BY <1>1, <1>2, <1>3, <1>4, <1>5, <1>6 DEF SourcesNext

\* The checkpoint of a source leaves no listed document behind (NoneLeftBehind;
\* _run_one_source, CnmvAdapter.discover): however late a document is listed, whatever
\* raises or fails to download, what lies before the next window has been retrieved, or
\* was left out of a listing that counted as complete.
THEOREM NothingIsLeftBehind == SourcesSpec => []NoneLeftBehind
<1>1. SourcesInit => SInv /\ NoneLeftBehind
  BY SInitially
<1>2. (SInv /\ NoneLeftBehind) /\ [SourcesNext]_sourceVars => (SInv /\ NoneLeftBehind)'
  BY SourcesStep
<1>3. SInv /\ NoneLeftBehind => NoneLeftBehind
  OBVIOUS
<1> QED BY <1>1, <1>2, <1>3, PTL DEF SourcesSpec

\* The canon is that of the recorded evidence, made from content that parses, although
\* promotions outlive a rebuild that raises; and after a pass that ended well it is that
\* of all that is chosen (CanonOfEvidence; run_canon_refresh).
THEOREM CanonIsOfEvidence == SourcesSpec => []CanonOfEvidence
<1>1. SInv => CanonOfEvidence
  <2> SUFFICES ASSUME SInv PROVE CanonOfEvidence
    OBVIOUS
  <2>1. \A p \in Sound : p[2] \notin Unparseable
    BY DEF Sound
  <2> QED BY <2>1 DEF SInv, CanonOfChoice, CanonOfEvidence
<1> QED BY <1>1, SInitially, SourcesStep, PTL DEF SourcesSpec

-----------------------------------------------------------------------------
(* The types.                                                              *)

\* What the outbox and the ledger's entry may be (SftpTypeOK).
LEMMA SftpTyped == SftpSpec => []SftpTypeOK
<1>1. ASSUME SftpInit PROVE OutboxInv /\ SftpTypeOK
  <2>1. overlooked \in BOOLEAN
    BY <1>1 DEF SftpInit
  <2>2. crashes \in 0..SftpFaults /\ retried \in 0..SftpRetries
    BY <1>1, SftpAssumption DEF SftpInit
  <2> QED BY <1>1, <2>1, <2>2, OutboxStarts DEF SftpInit, SftpTypeOK, OutboxInv, Types, Status
<1>2. ASSUME OutboxInv, SftpTypeOK, [SftpNext]_sftpVars PROVE OutboxInv' /\ SftpTypeOK'
  <2>1. OutboxInv' /\ readBack' \in BOOLEAN /\ remote' \in Remote /\ stage' \in Stages
    BY <1>2, OutboxStep DEF OutboxInv, Types
  <2>2. sent' \in Status /\ overlooked' \in BOOLEAN
    <3>1. readBack \in BOOLEAN /\ remote \in Remote
      BY <1>2 DEF SftpTypeOK
    <3>2. CASE InspectFirst
      BY <1>2, <3>1, <3>2 DEF InspectFirst, Reply, Overlooks, SftpTypeOK, Status
    <3>3. CASE RecoverOrphan
      BY <1>2, <3>3 DEF RecoverOrphan, InspectVerdict, Overlooks, SftpTypeOK, Status
    <3>4. CASE Connect \/ Upload \/ CheckUpload \/ PutMeta
      BY <1>2, <3>4 DEF SftpTypeOK, Connect, Upload, CheckUpload, PutMeta, Reply, Status
    <3>5. CASE StartSend \/ Die \/ ForceRetry \/ SquatOutbox \/ UNCHANGED sftpVars
      BY <1>2, <3>5 DEF SftpTypeOK, StartSend, Die, ForceRetry, SquatOutbox, sftpVars, Status
    <3> QED BY <1>2, <3>2, <3>3, <3>4, <3>5 DEF SftpNext
  <2>3. crashes' \in 0..SftpFaults /\ retried' \in 0..SftpRetries
    <3>1. \/ UNCHANGED <<crashes, retried>>
          \/ crashes < SftpFaults /\ crashes' = crashes + 1 /\ retried' = retried
          \/ retried < SftpRetries /\ retried' = retried + 1 /\ crashes' = crashes
      BY <1>2, Zenon DEF SftpNext, StartSend, Connect, InspectFirst, Upload, CheckUpload,
         PutMeta, Die, RecoverOrphan, ForceRetry, SquatOutbox, sftpVars
    <3> QED BY <1>2, <3>1, SftpAssumption DEF SftpTypeOK
  <2> QED BY <2>1, <2>2, <2>3 DEF SftpTypeOK
<1> QED BY <1>1, <1>2, PTL DEF SftpSpec

\* What the queue and the ledger's entry may be (MqTypeOK).
LEMMA MqTyped == MqSpec => []MqTypeOK
<1>1. MqInit => QueueInv /\ MqTypeOK
  <2> SUFFICES ASSUME MqInit PROVE MqTypeOK
    BY QueueStarts
  <2>1. unit \in BOOLEAN /\ alien \in BOOLEAN
    BY Zenon DEF MqInit
  <2>2. /\ waiting \in Nat /\ taken \in Nat /\ entry \in Entries /\ at = "idle"
        /\ died \in 0..MqFaults /\ forced \in 0..MqRetries
    BY MqAssumption DEF MqInit, Entries
  <2> QED BY <2>1, <2>2 DEF MqTypeOK
<1>2. ASSUME QueueInv, MqTypeOK, [MqNext]_mqVars PROVE QueueInv' /\ MqTypeOK'
  <2>1. QueueInv' /\ waiting' \in Nat /\ taken' \in Nat
        /\ at' \in {"idle", "connect", "browse", "put", "commit"}
    BY <1>2, QueueStep DEF QueueInv, QueueTypes
  <2>2. entry' \in Entries /\ unit' \in BOOLEAN /\ alien' \in BOOLEAN
    BY <1>2 DEF MqNext, MqTypeOK, Entries, StartPut, ConnectQmgr, Browse, PutMessage,
       CommitPut, DieInPut, VerifyOrphan, ForcePut, GatewayTakes, AlienMessage, Answer,
       Refusals, queueVars, mqVars
  <2>3. died' \in 0..MqFaults /\ forced' \in 0..MqRetries
    BY <1>2, MqAssumption DEF MqNext, MqTypeOK, StartPut, ConnectQmgr, Browse, PutMessage,
       CommitPut, DieInPut, VerifyOrphan, ForcePut, GatewayTakes, AlienMessage, bounds, mqVars
  <2> QED BY <2>1, <2>2, <2>3 DEF MqTypeOK
<1> QED BY <1>1, <1>2, PTL DEF MqSpec

\* What the folders and the open transaction may be (PollTypeOK): what is quarantined are
\* receipts, never the absence of one.
LEMMA PollTyped == PollSpec => []PollTypeOK
<1> DEFINE I == PInv /\ PollTypeOK
<1>1. PollInit => I
  BY NothingPolled, PollAssumption DEF PollInit, PollTypeOK, PInv, PTypes, Decision
<1>2. ASSUME I, [PollNext]_pollVars PROVE I'
  <2>1. PInv'
    BY <1>2, PollStep
  <2>2. quarantine' \subseteq Names \X Receipt
    <3>1. CASE IngestStaged
      <4>1. \A n \in There(staged) : <<n, staged[n]>> \in Names \X Receipt
        BY <1>2 DEF There, PInv, PTypes, Folder
      <4>2. PICK here, n : here = There(staged) /\ n = (CHOOSE m \in here : TRUE)
        OBVIOUS
      <4>3. quarantine' = quarantine \/ quarantine' = quarantine \cup {<<m, staged[m]>> : m \in There(staged)}
        BY <3>1, <4>2 DEF IngestStaged, Quarantine, Process
      <4> QED BY <1>2, <4>1, <4>3 DEF PollTypeOK
    <3>2. CASE ~IngestStaged
      <4>1. quarantine' = quarantine
        BY <1>2, <3>2 DEF PollNext, Poll, CommitPoll, PollerDies, Archive, GatewayDrops, pollVars
      <4> QED BY <1>2, <4>1 DEF PollTypeOK
    <3> QED BY <3>1, <3>2
  <2>3. failures' \in 0..PollFaults
    <3>1. failures' = failures \/ (failures < PollFaults /\ failures' = failures + 1)
      BY <1>2, Zenon DEF PollNext, Poll, IngestStaged, CommitPoll, PollerDies, Archive,
         GatewayDrops, pollVars
    <3> QED BY <1>2, <3>1, PollAssumption DEF PollTypeOK
  <2> QED BY <2>1, <2>2, <2>3 DEF PInv, PTypes, PollTypeOK, Decision
<1> QED BY <1>1, <1>2, PTL DEF PollSpec

\* A message has no more files than were delivered, and no more to read than there are.
FilesCounted ==
  /\ incoming \in [Messages -> Nat] /\ queue \in [Messages -> Nat]
  /\ delivered \in 0..MaxFiles
  /\ \A m \in Messages : queue[m] <= incoming[m] /\ incoming[m] <= delivered

\* What the tables, the folders and the scan may be (InboxTypeOK).
LEMMA InboxTyped == ASSUME InboxAssumption PROVE InboxSpec => []InboxTypeOK
<1> DEFINE I == /\ InboxInv /\ FilesCounted
                /\ bucket \in [Messages -> SUBSET {"processed", "failed"}]
                /\ scanning \in BOOLEAN /\ killed \in 0..InboxFaults
<1>1. InboxInit => I
  <2> SUFFICES ASSUME InboxInit PROVE I
    OBVIOUS
  <2>1. scanning \in BOOLEAN
    BY Zenon DEF InboxInit
  <2>2. FilesCounted /\ killed \in 0..InboxFaults
    BY DEF InboxInit, InboxAssumption, FilesCounted
  <2>3. bucket \in [Messages -> SUBSET {"processed", "failed"}]
    BY DEF InboxInit
  <2> QED BY InboxInitially, <2>1, <2>2, <2>3
<1>2. ASSUME I, [InboxNext]_inboxVars PROVE I'
  <2>1. InboxInv'
    BY <1>2, InboxStepKeeps
  <2>2. CASE DeliverMessage
    <3>1. FilesCounted'
      BY <1>2, <2>2 DEF DeliverMessage, FilesCounted, InboxAssumption
    <3> QED BY <1>2, <2>1, <2>2, <3>1 DEF DeliverMessage
  <2>3. CASE StartScan
    <3>1. FilesCounted'
      BY <1>2, <2>3 DEF StartScan, FilesCounted
    <3> QED BY <1>2, <2>1, <2>3, <3>1 DEF StartScan
  <2>4. CASE ReadFile
    <3>1. PICK m \in Messages, to \in {"processed", "failed"} :
            /\ queue[m] > 0 /\ queue' = [queue EXCEPT ![m] = @ - 1]
            /\ Move(m, to)
      BY <2>4 DEF ReadFile
    <3>2. FilesCounted'
      BY <1>2, <2>4, <3>1 DEF ReadFile, Move, FilesCounted
    <3>3. bucket' \in [Messages -> SUBSET {"processed", "failed"}]
      BY <1>2, <3>1 DEF Move
    <3> QED BY <1>2, <2>1, <2>4, <3>2, <3>3 DEF ReadFile
  <2>5. CASE EndScan
    <3>1. FilesCounted'
      BY <1>2, <2>5 DEF EndScan, FilesCounted
    <3>2. scanning' \in BOOLEAN
      BY <2>5, Zenon DEF EndScan
    <3> QED BY <1>2, <2>1, <2>5, <3>1, <3>2 DEF EndScan
  <2>6. CASE CrashInScan
    <3>1. FilesCounted'
      BY <1>2, <2>6 DEF CrashInScan, FilesCounted
    <3>2. scanning' \in BOOLEAN
      BY <2>6, Zenon DEF CrashInScan
    <3>3. killed' \in 0..InboxFaults
      BY <1>2, <2>6 DEF CrashInScan, InboxAssumption
    <3> QED BY <1>2, <2>1, <2>6, <3>1, <3>2, <3>3 DEF CrashInScan
  <2>7. CASE UNCHANGED inboxVars
    <3>1. FilesCounted'
      BY <1>2, <2>7 DEF inboxVars, FilesCounted
    <3> QED BY <1>2, <2>1, <2>7, <3>1 DEF inboxVars
  <2> QED BY <1>2, <2>2, <2>3, <2>4, <2>5, <2>6, <2>7 DEF InboxNext
<1>3. I => InboxTypeOK
  <2> SUFFICES ASSUME I PROVE InboxTypeOK
    OBVIOUS
  <2>1. incoming \in [Messages -> 0..MaxFiles] /\ queue \in [Messages -> 0..MaxFiles]
    BY DEF FilesCounted, InboxAssumption
  <2>2. \A m \in Messages : {rows[m].status, durable[m].status} \subseteq Outcomes
    BY DEF InboxInv, MessageRow
  <2> QED BY <2>1, <2>2 DEF InboxTypeOK, FilesCounted
<1> QED BY <1>1, <1>2, <1>3, PTL DEF InboxSpec

\* What is listed, retrieved, chosen and built, and the days (SourcesTypeOK).
LEMMA SourcesTyped == SourcesSpec => []SourcesTypeOK
<1> DEFINE I == /\ SInv /\ day \in 1..LastDay /\ omitted \subseteq Docs
                /\ built \in BOOLEAN /\ passed \in BOOLEAN
                /\ fetchFaults \in 0..MaxFetchFaults /\ amends \in 0..MaxAmends
<1>1. SourcesInit => I
  <2> SUFFICES ASSUME SourcesInit PROVE I
    OBVIOUS
  <2>1. built \in BOOLEAN /\ passed \in BOOLEAN
    BY Zenon DEF SourcesInit
  <2>2. omitted = {} /\ day \in 1..LastDay /\ fetchFaults \in 0..MaxFetchFaults /\ amends \in 0..MaxAmends
    BY SourcesAssumption DEF SourcesInit
  <2> QED BY SInitially, <2>1, <2>2
<1>2. ASSUME I, [SourcesNext]_sourceVars PROVE I'
  <2>1. SInv'
    BY <1>2, SourcesStep
  <2>2. CASE NextDay
    BY <1>2, <2>1, <2>2, SourcesAssumption DEF NextDay, refreshVars, canonVars
  <2>3. CASE List
    BY <1>2, <2>1, <2>3 DEF List, refreshVars, canonVars
  <2>4. CASE Amend
    BY <1>2, <2>1, <2>4, SourcesAssumption DEF Amend, refreshVars, canonVars
  <2>5. CASE Refresh
    <3>1. PICK found \in Discoveries : \E failed \in SUBSET Wanted(found.docs) :
            /\ fetchFaults' = fetchFaults + found.fault + Cardinality(failed)
            /\ fetchFaults' <= MaxFetchFaults
      BY <2>5 DEF Refresh
    <3>2. PICK failed \in SUBSET Wanted(found.docs) :
            /\ fetchFaults' = fetchFaults + found.fault + Cardinality(failed)
            /\ fetchFaults' <= MaxFetchFaults
      BY <3>1
    <3>3. found.fault \in Nat /\ found.docs \subseteq Docs
      BY <3>2, Discovered DEF Listed
    <3>4. Cardinality(failed) \in Nat
      <4>1. failed \subseteq Docs
        BY <3>2, <3>3 DEF Wanted
      <4> QED BY <4>1, SourcesAssumption, FS_Subset, FS_CardinalityType
    <3>5. fetchFaults' \in 0..MaxFetchFaults
      BY <1>2, <3>2, <3>3, <3>4, SourcesAssumption
    <3>6. omitted' \subseteq Docs
      BY <1>2, <2>5 DEF Refresh, Listed
    <3> QED BY <1>2, <2>1, <2>5, <3>5, <3>6 DEF Refresh, canonVars
  <2>6. CASE CanonPass
    <3>1. built' \in BOOLEAN /\ passed' \in BOOLEAN
      BY <1>2, <2>6, Zenon DEF CanonPass, Rebuilt, Raised
    <3> QED BY <1>2, <2>1, <2>6, <3>1 DEF CanonPass, refreshVars
  <2>7. CASE UNCHANGED sourceVars
    BY <1>2, <2>1, <2>7 DEF sourceVars, refreshVars, canonVars
  <2> QED BY <1>2, <2>2, <2>3, <2>4, <2>5, <2>6, <2>7 DEF SourcesNext
<1>3. I => SourcesTypeOK
  <2> SUFFICES ASSUME I PROVE SourcesTypeOK
    OBVIOUS
  <2>1. canon \subseteq Docs \X (1..2)
    BY DEF SInv, CanonOfChoice, Sound
  <2>2. ckpt \in 0..LastDay
    BY SourcesAssumption DEF SInv, Timely
  <2> QED BY <2>1, <2>2 DEF SInv, Contents, CanonOfChoice, SourcesTypeOK
<1> QED BY <1>1, <1>2, <1>3, PTL DEF SourcesSpec
=============================================================================
