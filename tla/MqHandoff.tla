------------------------------ MODULE MqHandoff ------------------------------
(***************************************************************************)
(* The IBM MQ transport (src/ca_es/transport/mq.py): one delivery, the     *)
(* request queue, and the send ledger's view of it.                        *)
(*                                                                         *)
(* The correlation id is a digest of the delivery id, so a browse finds    *)
(* what an earlier attempt put.  The put runs under a syncpoint; only the  *)
(* commit makes it visible, and the answer to the commit can be lost.  The *)
(* gateway takes messages from the queue at any time.                      *)
(***************************************************************************)
EXTENDS Naturals

CONSTANTS MqFaults,    \* bound: crashes
          MqRetries    \* bound: send-retry commands

ASSUME MqAssumption == MqFaults \in Nat /\ MqRetries \in Nat

VARIABLES
  waiting,   \* messages of ours in the queue, committed and not yet taken
  taken,     \* bookkeeping of the model: how many the gateway took
  unit,      \* the uncommitted put of the connection
  alien,     \* a message with our correlation id and another payload waits
  entry,     \* what the send ledger holds, committed
  at,        \* where the sender stands
  died,      \* bookkeeping of the model: crashes so far
  forced     \* bookkeeping of the model: retries the operator ordered

mqVars == <<waiting, taken, unit, alien, entry, at, died, forced>>

Entries == {"PREPARED", "STARTED", "SPOOLED", "RETRY", "PERMANENT", "UNKNOWN"}

MqTypeOK ==
  /\ waiting \in Nat /\ taken \in Nat
  /\ unit \in BOOLEAN /\ alien \in BOOLEAN
  /\ entry \in Entries
  /\ at \in {"idle", "connect", "browse", "put", "commit"}
  /\ died \in 0..MqFaults
  /\ forced \in 0..MqRetries

MqInit ==
  /\ waiting = 0 /\ taken = 0
  /\ unit = FALSE /\ alien = FALSE
  /\ entry = "PREPARED"
  /\ at = "idle"
  /\ died = 0 /\ forced = 0

queueVars == <<waiting, taken, alien>>
bounds    == <<died, forced>>

\* The reason codes: transient ones are retried, all the others are final.
Refusals == {"RETRY", "PERMANENT"}
Answer(outcome) == entry' = outcome /\ at' = "idle"

StartPut ==
  /\ at = "idle"
  /\ entry \in {"PREPARED", "RETRY"}
  /\ entry' = "STARTED"
  /\ at' = "connect"
  /\ UNCHANGED <<queueVars, unit, bounds>>

ConnectQmgr ==
  /\ at = "connect"
  /\ \/ at' = "browse" /\ UNCHANGED entry
     \/ \E r \in Refusals : Answer(r)
  /\ UNCHANGED <<queueVars, unit, bounds>>

\* An earlier attempt's message is replayed, another payload is a collision.
\* Which of two waiting messages the browse meets first is the queue's order.
Browse ==
  /\ at = "browse"
  /\ \/ \E r \in Refusals : Answer(r)
     \/ waiting > 0 /\ Answer("SPOOLED")
     \/ alien /\ Answer("PERMANENT")
     \/ waiting = 0 /\ ~alien /\ at' = "put" /\ UNCHANGED entry
  /\ UNCHANGED <<queueVars, unit, bounds>>

\* A put that raises is backed out; a broken connection leaves it open whether
\* the queue manager kept it.
PutMessage ==
  /\ at = "put"
  /\ \/ unit' = TRUE /\ at' = "commit" /\ UNCHANGED entry
     \/ \E r \in Refusals \cup {"UNKNOWN"} : Answer(r) /\ UNCHANGED unit
  /\ UNCHANGED <<queueVars, bounds>>

CommitPut ==
  /\ at = "commit"
  /\ unit' = FALSE
  /\ \/ waiting' = waiting + 1 /\ \E o \in {"SPOOLED", "UNKNOWN"} : Answer(o)
     \/ Answer("UNKNOWN") /\ UNCHANGED waiting
  /\ UNCHANGED <<taken, alien, bounds>>

\* The process dies; the queue manager backs an open unit of work out, or had
\* the commit already.
DieInPut ==
  /\ at # "idle"
  /\ died < MqFaults
  /\ died' = died + 1
  /\ at' = "idle"
  /\ unit' = FALSE
  /\ waiting' \in {waiting} \cup (IF unit THEN {waiting + 1} ELSE {})
  /\ UNCHANGED <<taken, alien, entry, forced>>

\* MUTANT of VerifyOrphan: a failed browse is taken for an empty queue.
VerifyOrphanBlind ==
  /\ at = "idle"
  /\ entry = "STARTED"
  /\ entry' \in {"RETRY", IF waiting > 0 THEN "SPOOLED" ELSE "RETRY"}
  /\ UNCHANGED <<queueVars, unit, at, bounds>>

\* verify() for the STARTED attempt a later pass finds.
VerifyOrphan ==
  /\ at = "idle"
  /\ entry = "STARTED"
  /\ entry' \in {"UNKNOWN"}
       \cup (IF waiting > 0 THEN {"SPOOLED"} ELSE {})
       \cup (IF alien THEN {"PERMANENT"} ELSE {})
       \cup (IF waiting = 0 /\ ~alien THEN {"RETRY"} ELSE {})
  /\ UNCHANGED <<queueVars, unit, at, bounds>>

ForcePut ==
  /\ at = "idle"
  /\ entry \in {"UNKNOWN", "PERMANENT"}
  /\ forced < MqRetries
  /\ entry' = "PREPARED"
  /\ forced' = forced + 1
  /\ UNCHANGED <<queueVars, unit, at, died>>

\* The gateway reads destructively; somebody else may use the correlation id.
GatewayTakes ==
  /\ waiting > 0
  /\ waiting' = waiting - 1
  /\ taken' = taken + 1
  /\ UNCHANGED <<unit, alien, entry, at, bounds>>

AlienMessage ==
  /\ at = "idle"
  /\ alien' = ~alien
  /\ UNCHANGED <<waiting, taken, unit, entry, at, bounds>>

MqNext ==
  \/ StartPut \/ ConnectQmgr \/ Browse \/ PutMessage \/ CommitPut
  \/ DieInPut \/ VerifyOrphan \/ ForcePut \/ GatewayTakes \/ AlienMessage

MqSpec == MqInit /\ [][MqNext]_mqVars

----------------------------------------------------------------------------
\* At least once, and twice only when nothing could tell: SPOOLED means that
\* the queue manager confirmed a put; a second message never joins one that
\* still waits; and a failure the operator did not force hides no waiting
\* message (deliver, verify).
MqTruthful ==
  /\ entry = "SPOOLED" => waiting + taken > 0
  /\ waiting <= 1
  /\ entry = "RETRY" /\ forced = 0 /\ ~alien => waiting = 0

==============================================================================
