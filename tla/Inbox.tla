-------------------------------- MODULE Inbox --------------------------------
(***************************************************************************)
(* The MT/MX inbox (src/ca_es/ops_inbox.py): process_inbox scans incoming/,*)
(* records each message once by its bytes and once by its meaning, and     *)
(* moves the file to processed/ or failed/.  The rows belong to the        *)
(* transaction of the run and become durable when the step ends; the moves *)
(* are durable at once.                                                    *)
(***************************************************************************)
EXTENDS Naturals, FiniteSets

CONSTANTS Messages,    \* byte contents (input_sha256)
          Meaning(_),  \* their semantic fingerprint
          Garbled,     \* messages no parser accepts
          Blank,       \* messages without a family: blank bytes
          Unknown,     \* not a message: no fingerprint
          MaxFiles,    \* bound: files delivered
          InboxFaults  \* bound: crashes

InboxAssumption ==
  /\ Garbled \subseteq Messages /\ Blank \subseteq Messages
  /\ MaxFiles \in Nat /\ InboxFaults \in Nat

VARIABLES
  incoming,  \* files in incoming/: copies of each message
  bucket,    \* where files of each message were moved
  rows,      \* inbox_messages as the run sees it
  durable,   \* inbox_messages committed
  queue,     \* files of the scan under way still to be read
  scanning,
  delivered, killed  \* bookkeeping of the model

inboxVars == <<incoming, bucket, rows, durable, queue, scanning, delivered, killed>>

None == [status |-> "none", meaning |-> Unknown]
Outcomes == {"none", "PROCESSED", "DUPLICATE_SEMANTIC", "FAILED"}

InboxTypeOK ==
  /\ incoming \in [Messages -> 0..MaxFiles]
  /\ bucket \in [Messages -> SUBSET {"processed", "failed"}]
  /\ \A m \in Messages : {rows[m].status, durable[m].status} \subseteq Outcomes
  /\ queue \in [Messages -> 0..MaxFiles]
  /\ scanning \in BOOLEAN
  /\ delivered \in 0..MaxFiles /\ killed \in 0..InboxFaults

InboxInit ==
  /\ incoming = [m \in Messages |-> 0]
  /\ bucket = [m \in Messages |-> {}]
  /\ rows = [m \in Messages |-> None]
  /\ durable = rows
  /\ queue = incoming
  /\ scanning = FALSE
  /\ delivered = 0
  /\ killed = 0

DeliverMessage ==
  /\ delivered < MaxFiles
  /\ delivered' = delivered + 1
  /\ \E m \in Messages :
       incoming' = [incoming EXCEPT ![m] = @ + 1]
  /\ UNCHANGED <<bucket, rows, durable, queue, scanning, killed>>

StartScan ==
  /\ ~scanning
  /\ scanning' = TRUE
  /\ queue' = incoming
  /\ UNCHANGED <<incoming, bucket, rows, durable, delivered, killed>>

\* What the boundary parser says of the message; it may also just not answer.
Verdicts(m) ==
  IF m \in Blank \cup Garbled THEN {"FAILED"} ELSE {"OK", "FAILED"}

\* MUTANT of SemanticDup: only what earlier runs committed is looked at.
SemanticDupDurable(m) ==
  \E o \in Messages \ {m} : durable[o].meaning = Meaning(m)

SemanticDup(m) == \E o \in Messages \ {m} : rows[o].meaning = Meaning(m)

Record(m, status, meaning) ==
  rows' = [rows EXCEPT ![m] = [status |-> status, meaning |-> meaning]]

Move(m, to) ==
  /\ incoming' = [incoming EXCEPT ![m] = @ - 1]
  /\ bucket' = [bucket EXCEPT ![m] = @ \cup {to}]

\* Known bytes are an exact duplicate, whatever became of the first copy.
ReadFile ==
  /\ scanning
  /\ \E m \in Messages :
       /\ queue[m] > 0
       /\ queue' = [queue EXCEPT ![m] = @ - 1]
       /\ \/ rows[m] # None /\ Move(m, "processed") /\ UNCHANGED rows
          \/ /\ rows[m] = None
             /\ \E v \in Verdicts(m) :
                  CASE v = "FAILED" -> Record(m, "FAILED", Unknown) /\ Move(m, "failed")
                    [] v = "OK" /\ SemanticDup(m) ->
                         Record(m, "DUPLICATE_SEMANTIC", Meaning(m)) /\ Move(m, "processed")
                    [] OTHER ->
                         Record(m, "PROCESSED", Meaning(m)) /\ Move(m, "processed")
  /\ UNCHANGED <<durable, scanning, delivered, killed>>

\* The step is over: its checkpoint makes the rows durable.
EndScan ==
  /\ scanning
  /\ \A m \in Messages : queue[m] = 0
  /\ scanning' = FALSE
  /\ durable' = rows
  /\ UNCHANGED <<incoming, bucket, rows, queue, delivered, killed>>

CrashInScan ==
  /\ scanning /\ killed < InboxFaults
  /\ killed' = killed + 1
  /\ scanning' = FALSE
  /\ rows' = durable
  /\ queue' = [m \in Messages |-> 0]
  /\ UNCHANGED <<incoming, bucket, durable, delivered>>

InboxNext == DeliverMessage \/ StartScan \/ ReadFile \/ EndScan \/ CrashInScan

InboxSpec == InboxInit /\ [][InboxNext]_inboxVars

\* A meaning counts exactly once: of the messages that say the same, one is
\* PROCESSED and the others are duplicates, in every order of files, within a
\* scan and across scans and crashes.
MeaningOnce ==
  \A t \in {rows, durable} : \A m \in Messages :
    t[m].meaning # Unknown =>
      Cardinality({o \in Messages : t[o].meaning = t[m].meaning
                                      /\ t[o].status = "PROCESSED"}) = 1

\* A message that left incoming/ has its row (docs/p7/p73-inbox.md: the row is
\* committed, then the file moves; nothing is lost).
MovedIsRecorded == \A m \in Messages : bucket[m] # {} => rows[m] # None
=============================================================================
