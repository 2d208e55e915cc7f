----------------------------- MODULE SftpHandoff -----------------------------
(***************************************************************************)
(* The SFTP transport (src/ca_es/transport/sftp.py): one delivery, its     *)
(* entry in the remote outbox, and the send ledger's view of it.           *)
(*                                                                         *)
(* An upload is <id>.msg.tmp, renamed to <id>.msg, then <id>.meta.json by  *)
(* the same two steps; the second file commits the handoff.  The           *)
(* connection can break in any call, before or after the server carried    *)
(* it out, and the process can die between two calls.  A stat that fails   *)
(* says that there is no file, and a marker that cannot be read counts as  *)
(* somebody else's: an inspection may overlook what is there.              *)
(***************************************************************************)
EXTENDS Naturals

CONSTANTS SftpFaults,   \* bound: crashes
          SftpRetries   \* bound: send-retry commands

ASSUME SftpAssumption == SftpFaults \in Nat /\ SftpRetries \in Nat

VARIABLES
  readBack,   \* read_back_verify: digests are compared, else sizes
  remote,     \* the entry of the delivery in the remote outbox
  sent,       \* what the send ledger holds, committed
  stage,      \* where the sender stands
  crashes,    \* bookkeeping of the model: crashes so far
  retried,    \* bookkeeping of the model: retries the operator ordered
  overlooked  \* bookkeeping of the model: a committed handoff was taken for none

sftpVars == <<readBack, remote, sent, stage, crashes, retried, overlooked>>

\* Somebody else's bytes under the same name have our size ("twin") or not.
Bytes  == {"absent", "own", "twin", "foreign"}
Metas  == {"absent", "own", "foreign", "corrupt"}
Remote == [tmps: SUBSET {"msg", "meta"}, msg: Bytes, meta: Metas]
Status == {"PREPARED", "STARTED", "SPOOLED", "RETRY", "PERMANENT", "UNKNOWN"}
Stages == {"idle", "connect", "inspect", "upload", "check", "commit"}

SftpTypeOK ==
  /\ readBack \in BOOLEAN
  /\ remote \in Remote
  /\ sent \in Status
  /\ stage \in Stages
  /\ crashes \in 0..SftpFaults
  /\ retried \in 0..SftpRetries
  /\ overlooked \in BOOLEAN

SftpInit ==
  /\ readBack \in BOOLEAN
  /\ remote = [tmps |-> {}, msg |-> "absent", meta |-> "absent"]
  /\ sent = "PREPARED"
  /\ stage = "idle"
  /\ crashes = 0
  /\ retried = 0
  /\ overlooked = FALSE

\* Do these remote bytes pass for the ledger's?
Matches(b) == b = "own" \/ (~readBack /\ b = "twin")

\* The .msg and its commit marker are there.
Committed(r) == Matches(r.msg) /\ r.meta = "own"

\* MUTANT of Inspect: the marker alone proves the handoff.
InspectMarker(r) ==
  IF r.meta = "own" THEN "COMMITTED"
  ELSE IF r.meta = "absent" /\ r.msg = "absent" THEN "ABSENT"
  ELSE IF r.meta = "absent" /\ Matches(r.msg) THEN "ORPHAN_MSG"
  ELSE "COLLISION"

\* _inspect_remote, of an entry as it is seen.
Inspect(r) ==
  IF Committed(r) THEN "COMMITTED"
  ELSE IF r.meta = "absent" /\ r.msg = "absent" THEN "ABSENT"
  ELSE IF r.meta = "absent" /\ Matches(r.msg) THEN "ORPHAN_MSG"
  ELSE "COLLISION"

\* How an inspection may see the entry: a stat that fails says "absent" of a
\* file that is there; a marker that cannot be read is corrupt; and where sizes
\* are compared a stat that fails in between says that they differ.
Seen(file, misread) == IF file = "absent" THEN {file} ELSE {file, "absent"} \cup misread
View(r, m, b) == [r EXCEPT !.meta = m, !.msg = b]
Views(r) ==
  {View(r, m, b) :
     m \in Seen(r.meta, {"corrupt"}),
     b \in Seen(r.msg, IF readBack THEN {} ELSE {"foreign"})}

\* An inspection that sees nothing clears the .msg.tmp left behind, if it can.
Sweeps(r, view) ==
  IF Inspect(view) = "ABSENT" THEN {r, [r EXCEPT !.tmps = @ \ {"msg"}]} ELSE {r}

\* The answer overlooks a handoff that is committed.
Overlooks(view) ==
  overlooked' = IF Committed(remote) /\ ~Committed(view) THEN TRUE ELSE overlooked

\* What a put and rename of one file makes of the entry.
Left(r, file, bytes, tmps) == [r EXCEPT !.tmps = tmps, ![file] = bytes]
PutFile(r, file) == Left(r, file, "own", r.tmps \ {file})

\* What it leaves when it raises or is cut short: no change, a .tmp, the file after
\* all (the answer was lost), or no file (the fallback for servers without
\* posix-rename removes it first).
HalfPut(r, file) ==
  {Left(r, file, bytes, tmps) :
     bytes \in {"absent", r[file]}, tmps \in {r.tmps \cup {file}, r.tmps \ {file}}}
    \cup {PutFile(r, file)}

----------------------------------------------------------------------------
(* The sender: STARTED is durable before the adapter runs.                 *)

Reply(outcome) == sent' = outcome /\ stage' = "idle"

StartSend ==
  /\ stage = "idle"
  /\ sent \in {"PREPARED", "RETRY"}
  /\ sent' = "STARTED"
  /\ stage' = "connect"
  /\ UNCHANGED <<readBack, remote, crashes, retried, overlooked>>

\* Authentication and host keys are final, a missing library and loose key
\* permissions too; the network and the remote directories are not.
Connect ==
  /\ stage = "connect"
  /\ \/ stage' = "inspect" /\ UNCHANGED sent
     \/ Reply("PERMANENT")
     \/ Reply("RETRY")
  /\ UNCHANGED <<readBack, remote, crashes, retried, overlooked>>

\* An error of the inspection is retried; one of the calls that follow a COMMITTED
\* leaves the adapter, which is final.
InspectFirst ==
  /\ stage = "inspect"
  /\ \E view \in Views(remote) :
       /\ remote' \in Sweeps(remote, view)
       /\ \/ Reply("RETRY") /\ UNCHANGED overlooked
          \/ Inspect(view) = "COLLISION"  /\ Reply("PERMANENT") /\ Overlooks(view)
          \/ Inspect(view) = "COMMITTED"  /\ Reply("SPOOLED") /\ UNCHANGED overlooked
          \/ Inspect(view) = "COMMITTED"  /\ Reply("PERMANENT") /\ overlooked' = TRUE
          \/ Inspect(view) = "ORPHAN_MSG" /\ stage' = "commit" /\ UNCHANGED sent /\ Overlooks(view)
          \/ Inspect(view) = "ABSENT"     /\ stage' = "upload" /\ UNCHANGED sent /\ Overlooks(view)
  /\ UNCHANGED <<readBack, crashes, retried>>

Upload ==
  /\ stage = "upload"
  /\ \/ remote' = PutFile(remote, "msg") /\ stage' = "check" /\ UNCHANGED sent
     \/ remote' \in HalfPut(remote, "msg") /\ Reply("RETRY")
  /\ UNCHANGED <<readBack, crashes, retried, overlooked>>

\* A digest that cannot be read back leaves the outcome unknown; a size that
\* cannot be had is a size that differs.
CheckUpload ==
  /\ stage = "check"
  /\ \/ Matches(remote.msg) /\ stage' = "commit" /\ UNCHANGED sent
     \/ readBack /\ Reply("UNKNOWN")
     \/ (~readBack \/ ~Matches(remote.msg)) /\ Reply("PERMANENT")
  /\ UNCHANGED <<readBack, remote, crashes, retried, overlooked>>

\* The commit marker; an error of its put leaves the outcome unknown, and one of
\* the stat that follows leaves the adapter, which is final.
PutMeta ==
  /\ stage = "commit"
  /\ \/ remote' = PutFile(remote, "meta") /\ Reply("SPOOLED") /\ UNCHANGED overlooked
     \/ remote' = PutFile(remote, "meta") /\ Reply("PERMANENT") /\ overlooked' = TRUE
     \/ remote' \in HalfPut(remote, "meta") /\ Reply("UNKNOWN") /\ UNCHANGED overlooked
  /\ UNCHANGED <<readBack, crashes, retried>>

\* The process dies; a put in progress is left half done.
Die ==
  /\ stage # "idle"
  /\ crashes < SftpFaults
  /\ crashes' = crashes + 1
  /\ stage' = "idle"
  /\ remote' \in {remote}
       \cup (IF stage = "upload" THEN HalfPut(remote, "msg") ELSE {})
       \cup (IF stage = "commit" THEN HalfPut(remote, "meta") ELSE {})
  /\ UNCHANGED <<readBack, sent, retried, overlooked>>

----------------------------------------------------------------------------
(* A later pass finds the STARTED attempt; the operator; somebody else.    *)

InspectVerdict(i) ==
  CASE i = "COMMITTED" -> "SPOOLED"
    [] i = "COLLISION" -> "PERMANENT"
    [] OTHER           -> "RETRY"

\* verify(): without a connection the outcome is unknown, never "not there"; but
\* an inspection may overlook what is there.
RecoverOrphan ==
  /\ stage = "idle"
  /\ sent = "STARTED"
  /\ \E view \in Views(remote) :
       /\ remote' \in Sweeps(remote, view)
       /\ \/ sent' = "UNKNOWN" /\ UNCHANGED overlooked
          \/ sent' = InspectVerdict(Inspect(view)) /\ Overlooks(view)
  /\ UNCHANGED <<readBack, stage, crashes, retried>>

ForceRetry ==
  /\ stage = "idle"
  /\ sent \in {"UNKNOWN", "PERMANENT"}
  /\ retried < SftpRetries
  /\ sent' = "PREPARED"
  /\ retried' = retried + 1
  /\ UNCHANGED <<readBack, remote, stage, crashes, overlooked>>

\* Before the first attempt the outbox may hold files of another sender.
SquatOutbox ==
  /\ sent = "PREPARED"
  /\ stage = "idle"
  /\ retried = 0
  /\ remote.msg = "absent" /\ remote.meta = "absent"
  /\ \E b \in {"twin", "foreign"}, m \in {"absent", "foreign", "corrupt"} :
       remote' = [remote EXCEPT !.msg = b, !.meta = m]
  /\ UNCHANGED <<readBack, sent, stage, crashes, retried, overlooked>>

SftpNext ==
  \/ StartSend \/ Connect \/ InspectFirst \/ Upload \/ CheckUpload \/ PutMeta
  \/ Die \/ RecoverOrphan \/ ForceRetry \/ SquatOutbox

SftpSpec == SftpInit /\ [][SftpNext]_sftpVars

----------------------------------------------------------------------------
\* The ledger tells what there is to tell about the remote outbox, whichever call
\* broke and wherever the sender died: SPOOLED means that message and marker are
\* there, even when files that were there had been taken for missing; the marker
\* stands beside no bytes but the ledger's; and a failure hides a committed handoff
\* only after a forced retry or after an inspection, or an error past the marker,
\* that overlooked it (deliver, verify, _recover_orphans).
SftpTruthful ==
  /\ sent = "SPOOLED" => Committed(remote)
  /\ remote.meta = "own" => remote.msg = "absent" \/ Matches(remote.msg)
  /\ sent \in {"RETRY", "PERMANENT"} /\ retried = 0 /\ ~overlooked => ~Committed(remote)

\* NOT what the code does.  sftp.py:464-465 says of verify() that a connection that
\* fails is UNKNOWN, "nunca NOT_SPOOLED (podria ya estar comprometido)", and line 266
\* that nothing is committed where it answers ABSENT ("reintento seguro").
RetryIsSafe == sent = "RETRY" /\ retried = 0 => ~Committed(remote)

\* NOT what the code does.  sftp.py:321 says of deliver() that what fails past the .msg
\* is UNKNOWN and left to verify(); docs/p12/p122-sftp-adapter.md:58 says the same.
MarkerIsNoFailure ==
  [][stage = "commit" /\ stage' = "idle" => sent' \in {"STARTED", "SPOOLED", "UNKNOWN"}]_sftpVars

==============================================================================
