------------------------------ MODULE FileSpool ------------------------------
(***************************************************************************)
(* The filespool transport (src/ca_es/transport/filespool.py): what one    *)
(* delivery id has in the outbox, what verify() says of it after a crash,  *)
(* and the file system steps of deliver().  A delivery is handed over by   *)
(* two atomic renames, first <id>.msg and then <id>.meta.json, so a        *)
(* process can die between them.  File contents are abstracted to whether  *)
(* their digest is the one the ledger holds ("own") or not ("foreign").    *)
(***************************************************************************)

MsgFile  == {"absent", "own", "foreign"}
MetaFile == MsgFile \cup {"unreadable"}
Entry    == [msg: MsgFile, meta: MetaFile]

EmptyEntry == [msg |-> "absent", meta |-> "absent"]

\* Both files are in place and both carry the ledger's digest.
Handed(e) == e.msg = "own" /\ e.meta = "own"

Verdicts == {"SPOOLED", "NOT_SPOOLED", "COLLISION", "UNKNOWN"}
Outcomes == {"SPOOLED", "FAILED_RETRYABLE", "FAILED_PERMANENT", "UNKNOWN"}

\* MUTANT of Verify: the .msg alone counts as a handoff.
VerifyMsgOnly(e) ==
  CASE e.msg = "own"                 -> "SPOOLED"
    [] e.msg # "own" /\ e.meta = "unreadable" -> "UNKNOWN"
    [] e = EmptyEntry                -> "NOT_SPOOLED"
    [] OTHER                         -> "COLLISION"

\* verify(): the evidence a later pass finds for an orphaned attempt.
Verify(e) ==
  CASE Handed(e)                                   -> "SPOOLED"
    [] e.meta = "unreadable"                       -> "UNKNOWN"
    [] e.meta = "own" /\ e.msg = "absent"          -> "UNKNOWN"
    [] e.meta = "absent" /\ e.msg \in {"absent", "own"} -> "NOT_SPOOLED"
    [] OTHER                                       -> "COLLISION"

\* A step of deliver(): the entry it leaves and the outcome it reports, or
\* MsgWritten when the second rename is still to come.
MsgWritten == "MSG_WRITTEN"
Reply(e, o) == [entry |-> e, outcome |-> o]

\* MUTANT of DeliverSteps: bytes in the way are replaced.
DeliverStepsReplacing(e) ==
  {Reply([e EXCEPT !.msg = "own"], MsgWritten), Reply(e, "FAILED_RETRYABLE")}

\* deliver() up to its first write.  An entry that is already there is
\* replayed or refused, never rewritten; an orphan .msg gets its .meta; only
\* an empty entry is written from scratch.  The directories may not be
\* creatable and the adapter may raise, whatever the entry.
DeliverSteps(e) ==
  {Reply(e, "FAILED_PERMANENT")} \cup
  CASE Handed(e) ->
         {Reply(e, "SPOOLED")}
    [] e.meta = "absent" /\ e.msg = "own" ->
         {Reply([e EXCEPT !.meta = "own"], "SPOOLED"),
          Reply(e, "FAILED_RETRYABLE")}
    [] e = EmptyEntry ->
         {Reply([e EXCEPT !.msg = "own"], MsgWritten),
          Reply(e, "FAILED_RETRYABLE")}
    [] OTHER -> {}

\* The second rename of a fresh handoff: an I/O error here leaves the .msg
\* without its .meta and the outcome unknown.
MetaSteps(e) ==
  {Reply([e EXCEPT !.meta = "own"], "SPOOLED"), Reply(e, "UNKNOWN")}

==============================================================================
