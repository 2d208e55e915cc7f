---------------------------- MODULE MCOperation ----------------------------
(***************************************************************************)
(* The machines of the operation, each on its own: a behaviour chooses one *)
(* of them and runs it.  They are the daily run with its cache and its     *)
(* resumption, what stands at the edges (a remote outbox, a queue, a       *)
(* receipts folder, the inbox, the sources), and the identity of what the  *)
(* sources publish.                                                        *)
(***************************************************************************)
EXTENDS OpsRun, Inbox, Sources, Boundary, SftpReceipts, Identity

CONSTANTS Machines, ack1, ack2, bad1, bad2, m1, m2, m3, m4, same, other

\* m1 and m2 say the same in other bytes.
Reading(m) == IF m \in {m1, m2} THEN same ELSE other
\* Documents are numbered by their publication date.
Numbered(d) == d
\* Three candidates: a document may amend the second, or the first and then the
\* second with a reference to the third.  A reviewer joins, separates, or errs.
Trio          == 1..3
TrioOrder     == <<3, 1, 2>>
Replaces(c)   == [rel |-> "PREDECESSOR", target |-> c, sourced |-> TRUE]
Crossing(c)   == [rel |-> "CROSS", target |-> c, sourced |-> FALSE]
TrioCites     == {<<>>, <<Replaces(2)>>, <<Replaces(1), Replaces(2), Crossing(3)>>}
Ruled(rel, p, q) == [rel |-> rel, a |-> p, b |-> q]
TrioRulings   == {Ruled("SAME", 1, 3), Ruled("DISTINCT", 1, 2), Ruled("SAME", 2, 2)}

VARIABLE machine

ASSUME EdgesAssumption == InboxAssumption /\ IdentityAssumption

Init ==
  /\ machine \in Machines
  /\ OpsInit /\ SftpInit /\ MqInit /\ PollInit /\ InboxInit /\ SourcesInit
  /\ IdentityInit /\ (byLedger => machine = "identity") /\ (~readBack => machine = "sftp")

Next ==
  \/ /\ machine = "sftp" /\ SftpNext
     /\ UNCHANGED <<mqVars, pollVars, inboxVars, sourceVars, identityVars, opsVars, machine>>
  \/ /\ machine = "mq" /\ MqNext
     /\ UNCHANGED <<sftpVars, pollVars, inboxVars, sourceVars, identityVars, opsVars, machine>>
  \/ /\ machine = "receipts" /\ PollNext
     /\ UNCHANGED <<sftpVars, mqVars, inboxVars, sourceVars, identityVars, opsVars, machine>>
  \/ /\ machine = "inbox" /\ InboxNext
     /\ UNCHANGED <<sftpVars, mqVars, pollVars, sourceVars, identityVars, opsVars, machine>>
  \/ /\ machine = "sources" /\ SourcesNext
     /\ UNCHANGED <<sftpVars, mqVars, pollVars, inboxVars, identityVars, opsVars, machine>>
  \/ /\ machine = "identity" /\ IdentityNext
     /\ UNCHANGED <<sftpVars, mqVars, pollVars, inboxVars, sourceVars, opsVars, machine>>
  \/ /\ machine = "run" /\ OpsNext
     /\ UNCHANGED <<sftpVars, mqVars, pollVars, inboxVars, sourceVars, identityVars, machine>>

operationVars == <<sftpVars, mqVars, pollVars, inboxVars, sourceVars, identityVars, opsVars, machine>>
OperationSpec == Init /\ [][Next]_operationVars

\* Every variable of the chosen machine keeps its type; the others stay as they began.
TypeOK ==
  /\ machine = "sftp" => SftpTypeOK
  /\ machine = "mq" => MqTypeOK
  /\ machine = "receipts" => PollTypeOK
  /\ machine = "inbox" => InboxTypeOK
  /\ machine = "sources" => SourcesTypeOK
  /\ machine = "identity" => IdentityTypeOK
  /\ machine = "run" => OpsTypeOK
=============================================================================
