----------------------------- MODULE SftpReceipts -----------------------------
(***************************************************************************)
(* Polling an SFTP gateway for the receipts of one send: poll_receipts and *)
(* archive_remote_receipt of src/ca_es/transport/sftp.py, driven by        *)
(* _ingest_sftp_receipts of src/ca_es/ops_send.py.                         *)
(*                                                                         *)
(* A pass downloads, moves the local copies by the rules of the local      *)
(* receipts, archives in remote what it finds in the local processed/ and  *)
(* commits its rows.  Names are <id>.ack.json and <id>.nak.json; a file is *)
(* told from another of the same name by its bytes.                        *)
(***************************************************************************)
EXTENDS FiniteSets, Naturals

CONSTANTS Valid,        \* receipts that pass validation, by their bytes
          Invalid,      \* files that do not
          NoFile,
          PollFaults,   \* bound: crashes
          MaxDrops      \* bound: files the gateway drops

Names   == {"ack", "nak"}
Receipt == Valid \cup Invalid
Folder  == [Names -> Receipt \cup {NoFile}]

ASSUME PollAssumption ==
  /\ IsFiniteSet(Receipt)
  /\ NoFile \notin Receipt
  /\ PollFaults \in Nat /\ MaxDrops \in Nat

VARIABLES
  offered,    \* remote_receipts/
  archived,   \* remote_receipts/processed/
  staged,     \* <staging>/receipts/
  processed,  \* <staging>/receipts/processed/
  quarantine, \* <staging>/quarantine/, names made unique by digest
  verdict,    \* status of the send and the receipt that decided it, committed
  pending,    \* the same in the open transaction
  polled,     \* the names this pass downloaded
  phase, drops, failures

pollVars == <<offered, archived, staged, processed, quarantine, verdict,
              pending, polled, phase, drops, failures>>

Empty     == [n \in Names |-> NoFile]
Undecided == [state |-> "SPOOLED", by |-> NoFile]
Of(n)     == IF n = "ack" THEN "GATEWAY_ACCEPTED" ELSE "GATEWAY_REJECTED"

PollTypeOK ==
  /\ {offered, archived, staged, processed} \subseteq Folder
  /\ quarantine \subseteq Names \X Receipt
  /\ {verdict, pending} \subseteq
       [state: {"SPOOLED", "GATEWAY_ACCEPTED", "GATEWAY_REJECTED"}, by: Valid \cup {NoFile}]
  /\ polled \subseteq Names
  /\ phase \in {"idle", "ingest", "archive"}
  /\ drops \subseteq Names \X Receipt
  /\ failures \in 0..PollFaults

PollInit ==
  /\ offered = Empty /\ archived = Empty /\ staged = Empty /\ processed = Empty
  /\ quarantine = {}
  /\ verdict = Undecided /\ pending = Undecided
  /\ polled = {}
  /\ phase = "idle"
  /\ drops = {}
  /\ failures = 0

There(folder) == {n \in Names : folder[n] # NoFile}
EndPass == phase' = "idle" /\ polled' = {}

----------------------------------------------------------------------------
\* Download what can be read, over what a failed pass left.  With nothing
\* downloaded, or when the connection breaks, the pass ends there.
Poll ==
  /\ phase = "idle"
  /\ \E read \in SUBSET There(offered) :
       /\ staged' = [n \in Names |-> IF n \in read THEN offered[n] ELSE staged[n]]
       /\ \/ read # {} /\ polled' = read /\ phase' = "ingest"
          \/ UNCHANGED <<polled, phase>>
  /\ UNCHANGED <<offered, archived, processed, quarantine, verdict, pending,
                 drops, failures>>

\* MUTANT of Quarantine: a second file of that name replaces the first.
QuarantineReplacing(ns) ==
  /\ quarantine' = {q \in quarantine : q[1] \notin ns} \cup {<<n, staged[n]>> : n \in ns}
  /\ UNCHANGED <<processed, pending>>

Quarantine(ns) ==
  /\ quarantine' = quarantine \cup {<<n, staged[n]>> : n \in ns}
  /\ UNCHANGED <<processed, pending>>

Process(n) ==
  /\ processed' = [processed EXCEPT ![n] = staged[n]]
  /\ UNCHANGED quarantine

\* The rules of the local receipts over all that is staged: a pair conflicts;
\* a valid file decides a send that is SPOOLED, and is consumed when it is the
\* one that decided; everything else is quarantined.
IngestStaged ==
  /\ phase = "ingest"
  /\ LET here == There(staged)
         n    == CHOOSE m \in here : TRUE
     IN  CASE Cardinality(here) = 2 -> Quarantine(here)
           [] OTHER ->
                CASE staged[n] \in Valid /\ pending.state = "SPOOLED" ->
                       /\ Process(n)
                       /\ pending' = [state |-> Of(n), by |-> staged[n]]
                  [] pending = [state |-> Of(n), by |-> staged[n]] ->
                       Process(n) /\ UNCHANGED pending
                  [] OTHER -> Quarantine(here)
  /\ staged' = Empty
  /\ phase' = "archive"
  /\ UNCHANGED <<offered, archived, verdict, polled, drops, failures>>

\* Archive one name of this pass that has a file in the local processed/,
\* whether or not this pass put it there; best effort.
Archive(n) ==
  /\ phase = "archive"
  /\ n \in polled
  /\ polled' = polled \ {n}
  /\ \/ /\ processed[n] # NoFile /\ offered[n] # NoFile
        /\ archived' = [archived EXCEPT ![n] = offered[n]]
        /\ offered' = [offered EXCEPT ![n] = NoFile]
     \/ UNCHANGED <<archived, offered>>
  /\ UNCHANGED <<staged, processed, quarantine, verdict, pending, phase, drops, failures>>

CommitPoll ==
  /\ phase = "archive"
  /\ polled = {}
  /\ verdict' = pending
  /\ EndPass
  /\ UNCHANGED <<offered, archived, staged, processed, quarantine, pending, drops, failures>>

PollerDies ==
  /\ phase # "idle"
  /\ failures < PollFaults
  /\ failures' = failures + 1
  /\ pending' = verdict
  /\ EndPass
  /\ UNCHANGED <<offered, archived, staged, processed, quarantine, verdict, drops>>

\* The gateway writes a file under a name that is free.
GatewayDrops(n, r) ==
  /\ offered[n] = NoFile
  /\ <<n, r>> \in drops \/ Cardinality(drops) < MaxDrops
  /\ offered' = [offered EXCEPT ![n] = r]
  /\ drops' = drops \cup {<<n, r>>}
  /\ UNCHANGED <<archived, staged, processed, quarantine, verdict, pending, polled,
                 phase, failures>>

PollNext ==
  \/ Poll \/ IngestStaged \/ CommitPoll \/ PollerDies
  \/ \E n \in Names : Archive(n) \/ \E r \in Receipt : GatewayDrops(n, r)

PollSpec == PollInit /\ [][PollNext]_pollVars

----------------------------------------------------------------------------
\* As long as no poller died, every file the gateway ever dropped is still
\* somewhere, and what decided the send is the valid file in processed/: no
\* order of drops, partial downloads and failed archives loses evidence
\* (poll_receipts, _quarantine_file, archive_remote_receipt).
PollKeepsEvidence ==
  failures = 0 =>
    /\ \A d \in drops :
         \/ d \in quarantine
         \/ \E f \in {offered, archived, staged, processed} : f[d[1]] = d[2]
    /\ verdict.state # "SPOOLED" =>
         \E n \in Names : verdict.state = Of(n) /\ processed[n] = verdict.by

\* "invalido: quarantine local; remoto se conserva (nunca se borra evidencia
\* remota)" (docs/p12/p122-sftp-adapter.md): without crashes, every file
\* dropped at the gateway is still there, as offered or as archived.
RemoteEvidenceKept ==
  failures = 0 => \A d \in drops : offered[d[1]] = d[2] \/ archived[d[1]] = d[2]

==============================================================================
