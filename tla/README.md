# Verification of corporate_actions in TLA+

`ca_es` (Python, `src/src/ca_es`) follows corporate actions of Spanish issuers:
it refreshes sources and inboxes into a canonical event history, computes
entitlements, claims and reconciliations from it, raises alerts, and sends
instructions to a SWIFT gateway. Most of it is deterministic computation over
files. What is hard to test is the operational part: several processes (a
scheduler's passes and an operator's commands) work on one SQLite file, one
outbox and one receipts directory, commit in the middle of a pass, and may die
at any point between a file system step and the commit that records it.

This directory holds TLA+ modules translated from that code, the TLC
configurations that check them on small instances, and TLAPS proofs about them.
`PROJECT.json` lists components, runs, mutants, findings, hazards and theorems,
and maps every definition to the source lines it stands for.

Run `tlc -workers 2 -config <run>.cfg <MC module>` and `tlapm <Proofs module>`.

## 1. Inventory

Per component: state, operations, who it talks to, what makes it correct. The
status of each is in `PROJECT.json`.

### Operational core

| component | state | operations | interacts with | correct when |
|---|---|---|---|---|
| State store, run lock (`ops_state.py`) | one SQLite file: runs, step runs, artifacts, sources, alerts, deliveries, sends, receipts; the open write transaction *is* the run lock | acquire, checkpoint (COMMIT + BEGIN), release (COMMIT), readers | everything below | never two writers; what a pass has done is durable before its side effects |
| Send ledger (`ops_send.py`) | `sends`, `send_attempts`, `send_receipts` | prepare, dispatch (recover, ingest, attempt), poll, retry, abandon | transports, receipts directory, FIN documents, operator | no handoff is claimed that did not happen, none is made twice, verdicts are backed and final |
| Transports (`transport/filespool.py`, `sftp.py`, `mq.py`) | files `<id>.msg`, `<id>.meta.json`; remote files; a queue | deliver, verify, poll receipts | dispatcher, gateway | verify tells a crash's handoff from none; nothing that is there is overwritten |
| FIN acknowledgements (`ops_fin.py`) | rows in `send_receipts`, the send's status | ingest one service message | send ledger, Java parser | the network's first verdict stays |
| Alert outbox (`ops_alerts.py`) | `outbox` | apply the derived alerts: open, reopen, change, clear | DAG step, deliveries | an alert is open while its cause is there |
| Alert delivery (`ops_delivery.py`, `delivery/*`) | `deliveries`, `delivery_attempts`, `outbox.delivery_state` | derive, deliver, retry, abandon | alert outbox, SMTP, webhook, file adapters | each version of an alert is notified once per destination, or somebody is told |
| DAG, cache, resume (`ops_dag.py`) | `ops_runs`, `step_runs`, artifacts | run, resume, reuse a step | all steps | a cached step is the one that would have been computed; a resumed run ends like an uninterrupted one |
| Inbox (`ops_inbox.py`) | claimed, processed and quarantined files, message rows | claim, normalise, record | Java adapter, DAG | each message is recorded once |
| Source and canon refresh (`ops_sources.py`, `ops_canon.py`) | documents, discovery checkpoints, promoted content | discover, fetch, promote | live adapters, DAG | the checkpoint never passes a document that failed |
| Custody feed (`ops_custody.py`, `custody_*.py`) | snapshots by page, bound cash | ingest a statement | inbox | a snapshot is used only when all its pages are there |
| Exceptions (`exceptions.py`) | exception cases and their events | open, re-detect, clear, reopen, operator moves | reconciliations | a case follows its cause through successive runs |

### Domain engines

| component | nature | correct when |
|---|---|---|
| Entitlement and impact engines | pure, over decimals and positions | quantities follow the event's terms and the record-date position |
| Reconciliations (cash, securities, tax, settlement, claims, recovery) | pure matching of expected and observed | each movement is used at most once; every break is reported |
| Market claims | a claim per transaction and rule, carried from run to run | a claim outlives the facts that opened it; messages and cancellations that bind to it are applied once |
| Settlement ledger | merge of observations into transactions | each confirmed quantity counts once, in every order of arrival |
| Tax entitlement and recovery | rules over profiles and evidence; claims with deadlines | a net amount rests on one rule and one profile nothing contradicts; money and life of a claim agree |
| Election chain | opportunity, eligibility, instruction, MT565/seev.033, advice | what is sent is what is held, whatever the age of the files |
| Identity, revisions, pipeline | ledger of relations and bindings; generations of documents | an event keeps its id whatever arrives; its documents are those the relations join |
| SWIFT, ISO 20022 projections; parsers; reference data; read side; configuration; CLI; Java adapter; evaluation scripts | conversion, queries, rendering | see `PROJECT.json` for why each is left out |

### How they interact

The scheduler (external: cron or a service manager, `docs/ops`) starts one
process per command. Each command opens `ops.db` with `BEGIN IMMEDIATE`; the
write transaction is the lock. A dispatcher or poller pass commits several times
(`checkpoint()`), and between COMMIT and BEGIN any other command may get in.
Adapters act on the file system or the network at once, outside the
transaction. The gateway and the network answer through files that arrive at
any moment. There are no threads and no callbacks inside a process.

The hard behaviours are therefore: a crash between a side effect and its
record; a pass that goes on with a snapshot another process has outrun; the
checkpoint gap; evidence that arrives early, late, twice or in contradiction;
operator decisions during a pass. `PROJECT.json` lists them under `hazards`,
each at its line.

## 2. Modules

The send ledger and the alert outbox are modelled process by process. Everything
else works on documents or on one table, one command at a time, and each such
part is a machine of its own.

| module | models | kind |
|---|---|---|
| `RunLock` | acquire, checkpoint, release of `ops_state.py`; death of a process | actions over the lock's variables |
| `FileSpool` | `transport/filespool.py`: what an outbox entry is, `verify()`, the file system steps of `deliver()` | operators |
| `SendTables` | the send tables and what each ledger function of `ops_send.py` and `ops_fin.py` makes of them in one transaction | operators |
| `SendLedger` | the processes: passes, checkpoints, run lock, crashes, operator commands, gateway | state machine |
| `Handoff` | what the ledger promises its reader | abstract specification |
| `AlertAdapters` | `delivery/*_adapter.py`: how an attempt may end, and whether a copy arrived | operators |
| `AlertTables` | `outbox`, `deliveries`, `delivery_attempts` and what `apply_alerts` and the functions of `ops_delivery.py` make of them in one transaction | operators |
| `AlertDelivery` | the processes: dispatcher passes, runs that apply alerts, operator commands | state machine |
| `Notice` | what the outbox promises its reader | abstract specification |
| `SftpHandoff` | `transport/sftp.py`, sending: inspect, upload, marker, verify | state machine |
| `MqHandoff` | `transport/mq.py`: browse, put under syncpoint, commit, verify | state machine |
| `SftpReceipts` | `transport/sftp.py` and `ops_send.py`: download, ingest, archive of remote receipts | state machine |
| `Inbox` | `ops_inbox.py`: scan, record by bytes and by meaning, move | state machine |
| `Sources` | `ops_sources.py`, `ops_canon.py`, `sources/live/cnmv.py`: window, checkpoint, promotion, rebuild | state machine |
| `Identity` | `identity/`, `revisions.py`, `build_identity` of `pipeline.py` | state machine |
| `OpsRun` | `ops_dag.py`: every step with its dependencies and declared inputs, cache, alerts, resume | state machine |
| `MarketClaims` | `market_claim_*.py` | state machine |
| `TaxRecovery` | `tax_recovery_*.py` and its commands | state machine |
| `Settlement` | `settlement_*.py` | state machine |
| `ExceptionCases` | `exceptions.py`, in the daily run and in the operator's file | state machine |
| `Cash` | `entitlement_engine.py`, `reconciliation.py` | state machine |
| `Securities` | `event_terms.py`, `securities_entitlement.py`, `security_impact.py`, `projected_positions.py`, `security_recon.py` | state machine |
| `Custody` | `ops_custody.py`, `custody_*.py` | state machine |
| `TaxEvents` | `tax_evidence.py`, `tax_rules.py`, `tax_profile.py`, `tax_entitlement.py`, `tax_recon.py` | state machine |
| `Election` | `election*.py`, `mt565.py`, `seev033.py`, `instruction_status.py` | state machine |
| `MCSendLedger`, `MCAlertDelivery` | instances for TLC | |
| `Boundary` | what the two transports tell the ledger, in one property | property |
| `MCOperation` | the machines `SftpHandoff` to `OpsRun` for TLC | composition by choice |
| `MCDomain` | the machines `MarketClaims` to `Election` for TLC | composition by choice |
| `SendLedgerProofs`, `AlertDeliveryProofs`, `EdgeProofs`, `IdentityProofs`, `OpsRunProofs`, `DomainProofs`, `ReckoningProofs` | the theorems | proofs |
| `FoldFacts` | folds over finite sets: that they exist, and induction over them | lemmas |

`SendLedger` extends `SendTables` (which extends `FileSpool`) and `RunLock`; it
instantiates `Handoff` with a refinement mapping (`Promise`). `AlertDelivery`
extends `AlertTables`, `AlertAdapters` and the same `RunLock`, and instantiates
`Notice`. The two ledgers live in one database under one lock but share no
table, so each is checked with the other's passes as stutters.

`MCOperation` and `MCDomain` choose one machine in the initial state and run it;
the variables of the others stay as they began. The program composes these parts
only through documents that one step of the daily run hands to the next. What a
product of the engines would add to the engines side by side is that hand-over,
and `OpsRun` models it for every step.

### State and actions of SendLedger

* `db` is the committed database, `txn` what the lock holder sees. `Checkpoint`
  and `Release` make `txn` durable; `Crash` drops it. `holder` is the run lock.
* `spool`, `box`, `archive` are outbox, `receipts/`, and `processed/` with
  `quarantine/`; they change at once, whatever becomes of the transaction.
* `pc` says where a pass is; `"gap"` is between COMMIT and BEGIN, and `resume`
  is where it goes on. `queue` and `base` are the pass's `list_sends()`
  snapshot, `cur` and `out` the delivery in hand and the adapter's answer.
* A dispatcher pass is `Start`, `Recover` (`_recover_orphans`), `Ingest` /
  `QuarantineAck` / `QuarantineNak` (`_ingest_receipts_for_dest`),
  `EndReceipts`, `Scan`, then per delivery `StartAttempt`, `Deliver`,
  `WriteMeta`, `Record`, and `Finish`. A poller pass is `Start`, the receipts,
  `EndReceipts`, `Finish`. `AttemptTaken` is the primary key violation that ends
  a pass whose snapshot was outrun.
* The commands are `SendPrepare`, `SendRetry`, `SendAbandon`, `SendIngestFin`,
  each one transaction. The gateway is `ReceiptArrives`: valid receipts only for
  what is in the outbox, invalid ones for anything.
* Undefined or environmental outcomes are choices: which destinations fail
  verification (`blind`), which I/O step of the adapter fails, which backoffs
  are over (`elapsed`), whether BEGIN gets the lock in time.

### State and actions of AlertDelivery

* `db`, `txn`, `holder`, `pc`, `resume` as above. `copies` counts what each
  destination got of each delivery; it changes at once.
* `on` are the destinations the pass found enabled, `touched` the alerts it will
  aggregate, `seen` its `alert_cache`, `queue` and `base` its
  `list_deliveries()` snapshot, `cur` and `end` the delivery in hand and the
  adapter's result.
* A pass is `Start`, `MarkOrphans`, `Derive` (or `DeriveRaises`, for a payload
  over the limit), `Scan`, per delivery `StartAttempt`, `Deliver`, `Record`, and
  `Conclude` (`_recompute_aggregate`), `Finish`. `AttemptTaken` as above.
* `ApplyAlerts` is the transaction of a DAG run that evaluates some categories:
  any alerts of these, with any facts, are its candidates. `DeliveryRetry` and
  `DeliveryAbandon` are the operator's commands.
* A delivery key is the record of what is hashed: alert, state, facts,
  destination. An adapter's attempt is one step whose end is chosen among those
  its phases allow (`AttemptEnds`).

### The machines at the edges

* `SftpHandoff`: `remote` is the entry of one delivery with its temporary files,
  `sent` the ledger's committed status, `stage` the call the sender is in. A call
  of the connection may break before or after the server carried it out
  (`HalfPut`), and `Die` may end the process between two calls; `RecoverOrphan`
  is the next pass. An inspection works on a view of the entry (`Views`): a stat
  that fails says that there is no file (`sftp.py:189-193`), a marker that cannot be
  read counts as corrupt. After the marker is in place an exception may still leave
  the adapter (`PutMeta`). `overlooked` remembers that a committed handoff was
  answered for by one or the other. `readBack` is `read_back_verify`, both ways.
  `SquatOutbox` is another writer of the outbox.
* `MqHandoff`: `waiting` counts our messages in the queue, `unit` is the
  uncommitted put. `CommitPut` may succeed, fail, or lose its answer;
  `GatewayTakes` empties the queue at any time; `AlienMessage` is a message with
  our correlation id and other bytes.
* `SftpReceipts`: `offered`, `archived` are remote directories, `staged`,
  `processed`, `quarantine` local ones. `Poll`, `IngestStaged`, `Archive`,
  `CommitPoll` are the phases of `_ingest_sftp_receipts`.
* `Inbox`: `rows` is `inbox_messages` as the run sees it, `durable` the committed
  table, `bucket` where files went. `ReadFile` records and moves one file; only
  `EndScan` commits.
* `Sources`: a portal lists, and lists again with other contents, documents by
  publication date; `Refresh` is a whole `_run_one_source`, `CanonPass` a whole
  `run_canon_refresh`. An enumeration may stop at a chunk that raises, and it may
  leave rows and pages out and still count as complete (`Discoveries`; `omitted`
  remembers them). A rebuild that raises leaves the promotions before it
  (`Raised`; `passed` says whether the last pass ended well).
* `Identity`: `corpus` is what each document cites; `IdentityPass` is one
  `build_identity` and `build_revisions`, either with a ledger that is kept from
  pass to pass or, as the canon refresh does it, without.
* `OpsRun`: `runs` are `ops_runs` and `step_runs`, `ctx` the `RunContext` of the
  run in execution. Each of the steps of `default_dag()` is an element of `Dag`
  with its dependencies, inputs and whether it is pure. A step is blocked,
  skipped, finished or failed, or the process dies in it and leaves its row
  RUNNING. A document is the set of `<<input, version>>` pairs it was made from,
  so two documents have one hash exactly when they were made from the same.

### The engines

* `MarketClaims`, `TaxRecovery`, `Settlement`, `ExceptionCases` carry state from
  one successful run to the next: `claims`, `runClaims`, `ledger`, `previous`. One
  action is the whole daily step (`RunClaims`, `RunRecovery`, `RunFeed`,
  `DailyRun`), with a flag that says whether the run it belongs to succeeded;
  the others change its inputs (messages, movements, facts, the day) or are
  operator commands (`CliTransition`, `OpenFile`, `FileEvent`). A run of the claims
  or of the recovery writes what it visited and nothing else: which documents it
  has and whether they name the event is `declared` and `inputs`, and a run that
  does not come to the event (`~Reached`, `~Reckoned`) succeeds with no claims.
* `Cash`, `Securities`, `TaxEvents`, `Custody` keep nothing: their state is their
  inputs, which arrive in any order and are revised, and the engine is a
  function of it. What a reconciliation or a snapshot says is an operator, and
  the invariants compare two such readings.
* `Election` is a chain of commands over files: each reads files that others
  wrote at other times, while canon, notice, positions and rules are replaced.

### Abstractions

* One instruction. A delivery id is then the pair of content and destination.
* A file's bytes are "own" when their digest is the ledger's, else "foreign".
* Times are gone: `wait[d]` says that `next_attempt_after` was set, and a scan
  may find it over or not.
* The receipts directory is read file by file; the code lists it first. A file
  that arrives during the listing is then left for the next pass, which in the
  model is the same file arriving later: both commute with the pass.
* The order in which a pass takes its deliveries and receipts is free.
* Bookkeeping of the model, read by no action of the program: `faults`, `runs`
  of the alerts, `manual` and the like count towards bounds, `borne` remembers.
* Of an alert's payload only the facts are kept (its `semantic_sha256`), and of
  these whether the outbound payload is too large. An alert is a category of its
  own unless the instance says otherwise.
* A pass finds `delivery.enabled` set; without it, it does nothing.
* Raw messages are read on arrival: a message in a model is the record of the
  fields that decide, not of those that are only copied.
* Amounts and quantities are small integers, halves where a fraction matters.
  The code computes with exact decimals, so no width is involved.
* A digest is what it identifies.
* `Identity` leaves out the evidence a relation carries: it tells two relations
  of the same pair apart, and the second of a pair changes nothing.
* `TaxEvents` has no PENDING_ELECTION (an amount that waits for a choice of option),
  one rounding mode, and no declared rate without a value (`NotSpcfdRate`): a message
  states a rate or an amount.
* `Election` takes a quantity of 0 or less for one more UNSUPPORTED case, and joins the
  two commands that project an instruction and write it; what is written is checked
  again from the files at that moment.
* `Securities` knows one event: two events that move one position line in one run are
  not compared.
* `Settlement` takes a quantity settled before of 0 for one that is not stated; the
  code keeps a message that states it as cumulative.
* `MarketClaims` and `TaxRecovery` know one event. Whether a run comes to it is one
  choice; how the documents are read that decide it is left out.
* Not modelled: several instructions in one ledger, disabled or unrouted
  destinations, SFTP receipts inside the interleaved dispatcher pass (they are
  `SftpReceipts`, one pass at a time).

## 3. Runs

The instances are in the `MC*` modules. Each run but the three `bad_*` passes; each
`bad_*` run shows one finding.

| run | instance | question |
|---|---|---|
| `send_poll` | 1 dispatcher, 1 poller, operator, 1 crash; valid, contradictory and invalid receipts, a damaged outbox entry | What do the lock, the durable STARTED and `verify()` guarantee together? At most one open attempt, the side effect only under a durable STARTED, no more attempts than `max_attempts` plus operator retries (`AttemptDiscipline`). Are gateway verdicts backed? Does the ledger implement `Handoff`: no verdict without a handoff claimed before, the network's word last, no way out of UNKNOWN_OUTCOME but the operator's? |
| `send_overlap` | 2 dispatchers interleaved in their checkpoint gaps, stale snapshots, an outbox that may hold foreign bytes | What holds without relying on one pass at a time? |
| `send_fin` | gateway receipts and FIN messages in every order, for two sends under one MIR | Does the first verdict of the network stay when one message may fit both sends? |
| `send_live` | dispatcher, poller, operator, 1 crash; FIN messages that belong to no send | Is every prepared send attempted or given up? Do retries end? Does the receipt of a SPOOLED send take effect? |
| `alert_pass` | 1 dispatcher, 1 crash, runs that open, change and clear, operator, SMTP | Is mail never repeated unless the operator asks (`NoSilentDuplicate`)? Is what a crash left STARTED closed before the next attempt? Does the outbox implement `Notice` (`KeepsNotice`)? |
| `alert_overlap` | 2 dispatchers interleaved in their checkpoint gaps, an alert that changes, a destination that comes and goes, the file adapter, an oversized payload | Is `delivery_state` DELIVERED only when every destination of some configuration got the alert as it is now, whatever passes overlap, and do settled deliveries stay? |
| `alert_live` | 1 crash, facts that change, clear notices on, a webhook | Is every open alert settled, or its delivery in doubt? |
| `operation` | the seven machines of `MCOperation`, each with faults and deaths at every step | see below |
| `domain` | the nine machines of `MCDomain` | see below |
| `bad_*` | the smallest instance of each | see section 5 |

`operation`, property by property:

| property | machine | it says |
|---|---|---|
| `HandoffTruthful` | `SftpHandoff`, `MqHandoff` | whichever call breaks and wherever the sender dies, SPOOLED means handed over, also after files that were there were taken for missing; a marker stands beside no bytes but ours; a failure hides a handoff only after a forced retry, an inspection that overlooked it or an error past the marker (`RetryIsSafe`, `MarkerIsNoFailure` in section 5); and a second message never joins one that waits in the queue |
| `PollKeepsEvidence` | `SftpReceipts` | unless a poller died, every file a gateway dropped is somewhere, and the file that decided is in `processed/` |
| `MeaningOnce` | `Inbox` | of the messages that say the same, exactly one is PROCESSED, in every order, across scans and crashes |
| `NoneLeftBehind` | `Sources` | no listed document before the next window is left unretrieved, however late it was listed, whatever raised and whatever download failed, unless a listing that counted as complete left it out (`EveryListedIsKept` in section 5) |
| `CanonOfEvidence` | `Sources` | the canon is built from contents that parse and is that of the recorded evidence at all times, also when a rebuild raised after the promotions; and whenever a pass ends well, skipped or not, it is that of the chosen contents |
| `IdentityStands` | `Identity` | two documents are of one event exactly when relations join them; with a kept ledger an event goes only by a name it, or an event joined to it, has borne, and every such name still leads to it |
| `CacheSound` | `OpsRun` | an output a run holds, reused or computed, is what its step would compute now: the declared inputs of `default_dag()` cover all a step reads |
| `NoGap` | `OpsRun` | no step delivers in an execution in which one it depends on did not; a run that succeeded has every output |
| `SuccessStands` | `OpsRun` | a run that succeeded is never written to again |
| `AlertsFollowRuns` | `OpsRun` | an alert clears only when a step that feeds its category delivered; after a success exactly what is wrong is open |

`domain`, property by property:

| property | machine | it says |
|---|---|---|
| `ClaimsStand` | `MarketClaims` | a claim outlives its transaction, its rule and its rate, and is lost only to a run that does not come to its event (`ClaimsKept` in section 5); what is terminal stays so while the claim lives; it settles only on the movements bound to it, in full, and is cancelled only on a message that says so |
| `RecoveryStands` | `TaxRecovery` | a refund claim, of the runs or of the operator's file, asks for the excess of an evidenced rate, and the credits that name it are reported as a part, the whole or too much of exactly that excess; a claim of the runs is lost only to a run that does not reckon its event (`RecoveryKept` in section 5), expires only past its deadline, and no run submits anything |
| `CountedOnce` | `Settlement` | each message counts in one transaction or as an orphan, however often it is observed; the settled quantity is the sum of the different parts, whatever the order, where each is stated as a part and under the first reference of its transaction (`bad_copy` shows why); the two readers of a transaction agree |
| `CasesStand` | `ExceptionCases` | the audit trail alone tells every case, and a run leaves open exactly what the reconciliation found, whatever the operator had closed |
| `CashCountedOnce` | `Cash` | every movement is in exactly one item, and a MATCH rests on one movement no other item explains |
| `MatchGivesProjection` | `Securities` | booking the movements that match gives the projected positions |
| `FeedIsTrue` | `Custody` | one account and day has one truth in every order of pages; a redelivery changes nothing |
| `TaxAccounted` | `TaxEvents` | a net amount rests on one rule and one profile that no message contradicts; every declared tax is compared or listed |
| `ElectionBacked` | `Election` | a written instruction elects an option of its own notice for all the account holds on a date of that event, whatever the age of the files |

The two runs have no fairness and no liveness. Their behaviours end when the
bounds are used up, so deadlock is not checked there; it is in all the others.

### Bounds, and why they are enough

* `MaxAttempts = 2`: a first attempt, a last one, and the boundary between them.
* `MaxRows` bounds the attempt rows of a send. It is at least `MaxAttempts` plus
  the retries an operator may order plus the attempts a crash may add, so that
  the guard `base < MaxRows` does not hide an attempt the properties forbid:
  the mutants that exceed `max_attempts` do so below it.
* `MaxFaults = 1`: a fault, the recovery by the next pass, and whatever that
  leaves behind; none where the question is one of order alone. The theorems hold
  for every number.
* `MaxRetries = 1` per send: a forced retry, then the state it leads to.
* Two contents where FIN candidates matter, two destinations
  where the queue of a pass matters, one receipt tag: replays need only one.
* `send_overlap` and `alert_overlap` are symmetric in their dispatchers; no
  liveness is checked there. `alert_overlap` needs two deliveries: only while a
  pass is busy with one can its snapshot of the other grow old. Its alert is of
  one category, which both destinations take; other routings are left to the
  theorem `OpenAlertsAreTold`, which holds for all of them.
* `MaxRuns = 2`: an alert is opened and then changed, cleared or left.
* Two facts where an alert changes; one where only its state matters.
* `MaxAttempts = 1` in `alert_overlap`, whose questions do not depend on retries.
* `SftpFaults = MqFaults = 2`, one forced retry: the recovery of a recovery. The
  theorems hold for every number.
* `MaxDrops = 3`, `PollFaults = 1`: a receipt, its contradiction, and one of the
  same name with other bytes; one pass that fails between.
* `MaxFiles = 5`, `InboxFaults = 1`: four messages, two of which say the same in
  other bytes, one that cannot be read and one that is empty, and a redelivery.
* `Docs = 1..3`, `LastDay = 5`, `Overlap = Lag = 1`: a document inside, on the edge
  of, and past the window that overlaps the last one; one never parses.
  `MaxFetchFaults = 2`: a listing that leaves documents out, raises in a chunk or
  meets a failed download, and one more of these. `MaxAmends = 2`.
* `MaxEditions = 4`: three documents and a link or ruling that changes, in every
  order; three candidates are the fewest with a merger of two established events.
* `MaxRuns = 2`, `MaxResumes = OpsFaults = MaxChanges = 1`: a run, a change of any
  input, a run that fails or dies at any step, and its resumption.
* `MaxNotes = 3` and two rules: a claim, its answer, its cancellation. `LastClaimDay =
  2`: the rule of one day and that of the next; a day without a rule is one on which
  the rules are not declared. `MaxShifts = 1`: a fact of the feed that changes or a
  document that goes missing; its return is free, so that a run without it and runs
  before and after are all there.
* `LastTaxDay = 3`: before, on and after a deadline. `MaxEdits = 2`: two of a second
  rate evidenced, a changed profile, and a document that goes or comes back. Rates 1
  and 3 around the entitled 1: no excess, and an excess of 2 that the credits of 1 and
  2 pay in part, in whole or too much. Three answers: sent, refused, and a receipt
  dated past the deadline.
* `MaxMails = 4`: an instruction, two confirmations, a repetition in any order.
* `Keys = {k1, k2}`, `MaxRounds = 4`: a case seen, gone or closed, and seen again,
  next to another.
* `MaxDelivered = 3`, `MaxCustody = MaxObserved = 2`: the least number of positions
  and movements that can be mistaken for each other, plus one for cash.
* `MaxTaxChanges = 4`: a notice, its amendment, a confirmation, a change of rules or
  profile, in every order.
* `MaxRevisions = 2`, `MaxWritten = 1`: two of the files are of another age than the
  rest when a message is written.

`AttemptDiscipline`, `Handoff`, `NoSilentDuplicate` and `Notice` are stated for one
dispatcher at a time because the code does not keep them with two: a dispatcher
that starts in another's gap takes its live attempt for an orphan.
`send_overlap` and `alert_overlap` check what is left then. `VerdictFinal` is
broken with two as well, by the route of `bad_abandon`.

### Fairness

The progress runs use `FairSpec`: strong fairness of `Step(p)`, `FullScan(p)`
and, for sends, `EndReceipts(p)`. It says what the deployment says: passes are
scheduled again and again (`run_send_poll`: "el scheduler externo lo encadena"),
a process that is not killed goes on, BEGIN gets the lock in the
end, receipts do not pour in faster than a pass reads them, and not every pass is
restricted by `--delivery-id` or `--delivery-key` nor always too early for a backoff. Strong
rather than weak, because the lock is taken and freed by others in between.
Nothing is assumed of operators, of the gateway, or of the adapter's success.

## 4. Proofs

TLC checks each theorem's property on the instance of its run; the theorem holds
for every value of the constants that satisfies the assumptions of its module and
the hypothesis in the third column. What each hypothesis says, and why it is
there, follows the tables.

The send ledger, for every set of contents, destinations, dispatchers and
pollers, every number of attempts, retries and faults, and every outbox to start
with:

| `SendLedgerProofs` | statement | hypothesis |
|---|---|---|
| `Invariance` | the inductive invariant `IInv` | |
| `TypeCorrect` | every variable keeps its type | |
| `ClaimsAreBacked` | `HandoffBacked`: no handoff is claimed that is not in the outbox | |
| `AttemptsAreNumbered` | `AttemptsNumbered`: attempts are 1..`attempt_count`, each once, in spite of stale snapshots | |
| `VerdictsAreBacked` | `VerdictBacked`: every verdict has its receipt or service message | |
| `OutboxIsAppendOnly` | `SpoolNeverOverwritten`: no step replaces an outbox file | |
| `Discipline` | the inductive invariant `IInv /\ SInv` | `OneDispatcher` |
| `AttemptsAreInOrder` | `AttemptDiscipline`: one open attempt, a side effect under a durable STARTED, no more attempts than the budget | `OneDispatcher` |
| `VerdictsAreFinal` | `VerdictFinal` | `OneDispatcher` |
| `PromiseIsKept` | `KeepsPromise`: the ledger implements `Handoff` | `OneDispatcher`, no whole entry of ours in the outbox at the start |

The alert outbox, for every set of alerts, facts and destinations, every routing,
every mix of adapters and of limits to payloads, every number of dispatchers,
runs, attempts, retries and faults:

| `AlertDeliveryProofs` | statement | hypothesis |
|---|---|---|
| `Invariance`, `TypeCorrect` | the inductive invariant, the types | |
| `DeliveriesAreBacked` | `DeliveredBacked`: no delivery is DELIVERED unless its destination got a copy | |
| `AttemptsAreNumbered` | `AttemptsNumbered` | |
| `DriftIsBounded`, `PassesCommitWhatTheyDo` | what a transaction may be ahead of the committed ledger; `WInv` | |
| `SettledDeliveriesStay` | `SettledStays`: what is delivered or abandoned changes only in the hands of a pass or an operator | |
| `OpenAlertsAreTold` | `OpenDeliveredIsTold`: a DELIVERED alert has been told, as it is now, to everybody of some configuration | `Nested`, OPEN and CHANGE notices on |
| `AttemptsAreInOrder` | `AttemptDiscipline` | `OneProcess` |
| `NoticesAreNotRepeated` | `NoSilentDuplicate` | `OneProcess` |
| `OutboxKeepsNotice` | `KeepsNotice`: the outbox implements `Notice` | `OneProcess`, `AllEnabled` |

The machines at the edges, for every number of deaths, retries, messages, files,
documents, days, runs, steps, changes and resumptions:

| module: theorem | statement | hypothesis |
|---|---|---|
| `EdgeProofs`: `LedgerTellsOutbox`, `LedgerTellsQueue` | `SftpTruthful`, `MqTruthful` | |
| `EdgeProofs`: `LedgerTellsBoundary` | `HandoffTruthful`, of both | |
| `EdgeProofs`: `NoReceiptIsLost` | `PollKeepsEvidence` | |
| `EdgeProofs`: `MeaningProcessedOnce` | `MeaningOnce` | |
| `EdgeProofs`: `NothingIsLeftBehind` | `NoneLeftBehind` | |
| `EdgeProofs`: `CanonIsOfEvidence` | `CanonOfEvidence` | |
| `OpsRunProofs`: `SucceededRunsStand` | `SuccessStands` | |
| `OpsRunProofs`: `RunsHaveNoGap` | `NoGap` | |
| `OpsRunProofs`: `CacheIsSound` | `CacheSound` | |
| `OpsRunProofs`: `AlertsDoFollow` | `AlertsFollowRuns` | |
| `IdentityProofs`: `EventsStand` | `IdentityStands` | `IdentityAssumption` |
| `OpsRunProofs`: `OperationIsItsParts` | a behaviour of `MCOperation` is one of each machine | |
| `OpsRunProofs`: `OperationTyped` | `TypeOK` of `MCOperation`: every variable of the seven machines keeps its type | |
| `OpsRunProofs`: `OperationStands` | all ten properties of the run `operation` at once | |

All nine engines, for every set of subjects, pages, entries, references, events,
notices, positions, rules, requests, movements, messages, elections, facts and rates:

| `DomainProofs`, `ReckoningProofs` | statement | hypothesis |
|---|---|---|
| `CasesAreTold` | `CasesStand` and the types of the cases | |
| `OneTruth` | `OneTruthPerSlot` and `MovementsAgree`, the half of `FeedIsTrue` on states | |
| `FeedIsTold` | `FeedIsTrue` | `PagesAgree` |
| `WrittenIsBacked` | `ElectionBacked` | |
| `CashIsCounted` | `CashCountedOnce` | |
| `FeedIsCounted` | `CountedOnce` | `FeedAssumption` |
| `RecoveryKeepsClaims` | `RecoveryStands` | `RecoveryAssumption` |
| `ClaimsOutlive` | `ClaimsStand` | `ClaimAssumption` |
| `MatchedIsProjected` | `MatchGivesProjection` | `SecuritiesAssumption` |
| `TaxStandsOnEvidence` | `TaxAccounted` | `TaxAssumption` |
| `ElectionTyped` | `ElectTypeOK`: the files of the election chain keep their form | |
| `DomainIsItsParts` | a behaviour of `MCDomain` is one of each engine | |
| `DomainTyped` | `TypeOK` of `MCDomain`: every variable of the nine engines keeps its type | |
| `DomainStands` | all nine properties of the run `domain` at once | `PagesAgree` |

`FeedIsCounted`, `CashIsCounted`, `RecoveryKeepsClaims`, `ClaimsOutlive`, `MatchedIsProjected`,
`OneTruth` and `TaxStandsOnEvidence` give the types of their engine with the property.

### The hypotheses

* `OneDispatcher`, `OneProcess`: two passes of one kind do not interleave. The
  scheduler of the deployment starts one at a time, the code does not enforce it.
  TLC refutes the properties with two: a dispatcher that starts in another's gap
  takes its live attempt for an orphan. What is left then needs no hypothesis
  (`AttemptsAreNumbered`, `ClaimsAreBacked`, `SettledDeliveriesStay` and the like).
* No whole entry of ours at the start (`PromiseIsKept`): `Handoff` begins with
  nothing handed over. Foreign and half entries may be there.
* `Nested`: of two sets of enabled destinations one holds the other, as when a
  destination is switched off and on again. With two that each lack one of the
  other's, an alert becomes DELIVERED on the deliveries of both together though
  neither has been told in full; TLC has the behaviour.
* Notices of OPEN and CHANGE on: without CHANGE nobody is to hear of new facts.
* `AllEnabled`: `Notice` has a fixed audience.
* `PagesAgree`: pages of one number and one content bear the same mark (last, more)
  and update type. The content the code compares leaves these out, and of
  pages it holds for the same it keeps the first row (`custody_snapshot.py:87-90`);
  the model leaves open which row is first. The run `domain` has such pages.

* `FeedAssumption`: messages have numbers of their own, and quantities are numbers.
* `RecoveryAssumption`: days, numbers, rates and credited amounts are natural numbers,
  and an event is of one of the seven types and about a claim there may be, as is a
  credit; there is a last day and a bound to edits. `ClaimAssumption`: the messages have
  numbers and one of the four names, their reference fields carry references, the rules
  are finitely many and the one in force on a day is one of them.
  `SecuritiesAssumption`: ratios are positive, quantities are integers and movements go
  in or out.
  `TaxAssumption`: a line states a rate or an amount, as an integer, and a rule has
  one of three sources. Neither says that an amount is not negative.
  `IdentityAssumption`: the candidates are finitely many numbers, the order of the
  documents names each once, and citations and rulings are of candidates.
  `SourcesAssumption`: the documents are finitely many and published on days counted
  from 1, and the lag of the listing is not more than the overlap of two windows.

Beside these, the proofs use the named assumption of each module:
finite sets of contents, destinations, alerts and facts, positive bounds, distinct
names for processes, well-formed entries in the outbox, an adapter type for every
destination, a finite canon whose events have ids of their own. TLC evaluates
them in the runs.

### The arguments

None of the properties is inductive alone.

`HandoffBacked` survives `Record` only if SPOOLED was answered for a whole entry;
that is `AdapterProgress`, which survives another process only because that
process would need the lock, `LockHeld`. `AttemptsNumbered` survives
`StartAttempt`, whose number comes from an old snapshot, because a snapshot is
never ahead of the ledger (`SnapshotBehind`) and a number behind it is taken.
`IInv` is the conjunction. For alerts the same argument runs over copies:
`DeliveredBacked` survives `Record` because a success that waits to be recorded has
left a copy or was the replay of one (`EndBacked`, from the lemma
`AttemptEndsType` about the phases of the three adapters), and copies are never
taken back (`CopiesKept`).

With one dispatcher more is true between two checkpoints. `SInv` says which
attempts may be open at each place of a pass (`PassRows`) and that what is left of
its snapshot still waits and has a budget (`PassQueue`); a poller in the gap may
only answer what is SPOOLED (`Drift`). `KeepsPromise` follows step by step from it:
`Handoff`'s `handed` is the set of deliveries whose entry is whole, and each step
is a handing over, a claim or a stutter. The chain for alerts is
`IInv`, `WInv` (the transaction and what a pass has in hand), `RInv` (one open
attempt) and then `SInv` (no more copies than were asked for) or `NInv` (an open
alert and its deliveries go together), which maps the outbox to `Notice`.

`SftpTruthful` rests on the order of the two files: the marker is put last and beside
no bytes but ours (`MarkerLast`), and a put changes one file (`PutChangesOneFile`). An
inspection may miss files but shows none that is not there (`ViewsMissAtMost`), so
what is found committed is (`SpooledIsCommitted`). As long as nothing was overlooked
and no retry forced, our marker means a handoff, and no attempt under way and no
failure has one (`MarkerProves`). `MqTruthful`
rests on the syncpoint: only a put opens a unit of work (`UnitOfPut`), and a put
follows a browse that found none of ours (`PutsIntoEmpty`). `PollKeepsEvidence`
needs that a local copy is of the file that is offered (`CopyIsOffered`), that
nothing is archived before it is secured (`Secured`), and, for a poller that never
died, that the verdict has its file (`DecidedByFile`).

`MeaningOnce` needs its converse, that a meaning is known only with a processed
message, of both tables, the committed one and the open one (`Once`).
`NoneLeftBehind` needs that a document is listed after it is published and the
checkpoint is not ahead of today (`Timely`), so the overlap of two windows covers
the lag of the listing; what a complete listing does not show is in `omitted`
(`RefreshKeeps`). `CanonOfEvidence` needs that chosen contents and canon parse, and that
canon and evidence are written together, so that a pass which finds the recorded
evidence unchanged has the canon of its choice whatever raised before it
(`CanonOfChoice`, `CanonPassKeeps`).

The rows of a run are written long after its status was read, so `SuccessStands`
needs that the run in execution is never one that succeeded
(`ExecutesUnfinished`). `NoGap` and `CacheSound` follow the position of the run in
the DAG: what is in hand is what the steps before it delivered, and of every row of
every run the hash of its inputs and the document belong together.

`IdentityStands` follows a pass through its union-find: first the bindings of the
ledger (`PinsHold`), then the relations (`JoinsHold`). That two candidates end in one
event exactly when relations join them (`LinkedTo`) is said without paths: no set of
candidates that every SAME relation stays within separates them, so what a merger
adds is checked one relation at a time. That a name never gives way to a
newcomer's rests on the order in which names are established: the bound ones come
first (`BoundFirst`), and a merged event takes the name established earlier.
From one pass to the next it rests on the ledger (`LedgerTells`): it keeps the
relations of the pass before, so what was together stays linked, and binds every
candidate to a name its event has borne. The relations are a list with no repetition,
filled by two folds and only ever longer (`RelationsGrown`).

`OperationIsItsParts` and `DomainIsItsParts` carry the theorems of the machines to
their composition: each step of the whole is a step of one machine and a stutter of
every other, so a behaviour of the whole is a behaviour of each. `OperationTyped` and
`DomainTyped` are then the types of the parts. Some of these needed more than the
types: the amount of a claim is a number because its rate was known when it was
opened (`ClaimInv`), a claim of the operator's file keeps the fields it was
filed with (`FileInv`), and the bindings of the identity ledger are of candidates
because those of the pass before were (`IdInv`).

`CasesStand` follows the last entry of each kind through the operators that append
to a trail (`Told`). `OneTruthPerSlot` is short because a published statement is
whole and undisputed, and a dispute is symmetric (`OneDocument`); a redelivery
leaves for every statement a set of picked pages that reads alike
(`PicksReadAlike`, `AlikeReads`). `ElectionBacked` holds across files of any age
because every document keeps the documents it was made from (`ElectInv`); what a
ready instruction says of these is then a fact of the operators (`ReadyIsBacked`).

The cash reconciliation and the settlement ledger are folds over a list, the
claims of a tax recovery over a set of dated events, the market claims over the
messages of the inbox, the deltas of the securities over the items of a key. The
community modules define a fold by recursion over the subsets of a set;
`FoldFacts` proves, for any step, that such a function exists, that what survives
a step holds of its value (`FoldInduction`), and that the order does not matter
where two steps commute (`FoldAnyLast`). `ReckoningProofs` instantiates it with
the steps of the engines and with addition.

`CashCountedOnce` goes through the positions: what was visited has used up exactly
the movements of its items, and two items share one only if they are twins
(`ReckonedUpTo`). `CountedOnce` goes through the inbox on top of the book of the
last run (`BookInv`, of the first p messages): each of these is in a transaction or
an orphan, an orphan remains without a place because its candidates remain and no
copy of it is ever taken (`TakeOrphans`), and a transaction has the references of
all its messages, so that its first reference can only go from market to own
(`PrimaryKept`). Then observing again books nothing twice, and a new part is either
a copy, which adds nothing, or of a content the transaction does not have, which
adds its quantity (`TakeCounts`).

`RecoveryStands` needs to know which claims a run can hold (`TaxInv`): a run opens
claims without document sets, so what it opens is ASSESSED, and of the provider's
events only a deadline check has an edge from there. So a claim of the runs is
ASSESSED or EXPIRED, no event is an answer to it, no refund is reported for it and
no instruction submits it; the operator's file, where all statuses occur, keeps
the evidenced amount of every claim through any event (`FileMoves`). What the
reconciliation says of it then compares one sum, that of the credits that name it
(`RefundedIsNumber`), with one evidenced excess (`RefundsAreBacked`).

`ClaimsStand` needs one fact of the request to cancel (`Living`): the status it notes
to return to is terminal only if the claim is. A refused cancellation restores what
was noted, so without this it could settle or cancel a claim that no movement and no
message did. With it, a message moves a claim along an edge of the table
(`HeededOutlives`), terminal statuses have none, and of all messages only a
cancellation leads to CANCELLED; the movements settle afterwards. All this is of a run
that comes to the event; one that does not has no claim at all, and one opened anew
starts over (`RunStandsBy`).

`MatchGivesProjection` needs no invariant but the types. The work is in the sum: items
without a delta do not count (`OnlyMovingCount`), and of one account, instrument
and direction there is at most one item with a delta and one movement, of the same
signed quantity (`KeysAgree`); so the sums of both sides have the same two terms at
most. That the positions are all decided is what makes every line one of the
event's instrument (`ImpactsAre`).

`TaxAccounted` needs the types too, and then that each check which is passed speaks of
all that was declared: one rate at most if the rule follows the source, that of the
rule if it is configured (`CalculatedIsBacked`). Two rules that one profile meets
on one day have windows that touch and no field where they are disjoint, so a
ruleset that holds both is not valid (`OneRuleAtMost`).

The search for the invariant of `CountedOnce` found the disagreement of `bad_copy`: without the
condition on references the sum is not what was observed.

Some of these proofs found flaws of the models, not of the code: CASE
expressions with overlapping arms in `Merge` and `ClaimRecon`, where the code has an
`if` ladder, and in `TaxEvents` the rounding of a negative tax and the duplicate
identifier of a rule, which the code refuses. They say what the code does now.

### Only model-checked

* The progress properties `PreparedIsAttempted`, `RetriesEnd`,
  `ReceiptTakesEffect` and `OpenIsSettled`: liveness and ENABLED are outside TLAPS.

Every invariant and every action property of a passing run is stated by a theorem.

## 5. Findings

Each is the shortest behaviour TLC found, and read again in the code.

* `bad_abandon`: `_record_attempt` and `_recover_orphans` write the status
  without looking at it, so ABANDONED, "terminal", becomes SPOOLED or FAILED when
  an attempt was in flight.
* `bad_oversized`: the row for a payload over `max_payload_bytes` is inserted
  with 12 values for 13 columns. SQLite refuses it, the pass dies, and so does
  every later one: no alert is delivered while one open alert is oversized.

* `bad_copy`: two confirmations of different bytes and one content count twice when
  they name their transaction by a lower reference than the one it goes by: the
  search for a copy asks for equal first references
  (`settlement_transaction.py:343`), while `_obs_hash` has it that they "son el mismo
  hecho". An instruction over 10 with two copies of one confirmation of 5 is SETTLED.

### Further disagreements

The modules say what the code does. Where they state what a document says of it
as a definition, the definition is named; it is not part of a run, and TLC
refutes it when it is added to the run of its machine.

Transports and ledgers:

* `ReceiptAccounted` (`SendLedger`): a receipt is moved before its row is committed
  (`ops_send.py:733`, against its docstring at 618), and a crash in between loses it
  for the ledger.
* `DeliveredNotResent` (`AlertDelivery`): a pass that scans while another stands at
  the checkpoint after STARTED sees the delivery PENDING and sends it a second time
  (`ops_delivery.py:651`; `docs/p10/p100-delivery-architecture.md:51`).
* `RemoteEvidenceKept` (`SftpReceipts`): archiving replaces, and when the rename is
  refused removes, an archived receipt of the same name (`sftp.py:530-554`;
  `docs/p12/p122-sftp-adapter.md:85-87`).
* `RetryIsSafe` (`SftpHandoff`): `_remote_stat` answers "no such file" to every I/O
  error, so `verify()` may call a committed handoff NOT_SPOOLED, and the send is retried
  without force (`sftp.py:189`; docstrings at 464-465 "nunca NOT_SPOOLED" and 266).
* `MarkerIsNoFailure` (`SftpHandoff`): the stat after the commit marker catches I/O
  errors only. An `SSHException` leaves `deliver()`, and the ledger says FAILED_PERMANENT
  of a handoff that is committed (`sftp.py:452`, 404, 382, `ops_send.py:852-856`;
  docstring at `sftp.py:321` "post .msg -> UNKNOWN").
* `ops_state.py:437` has it that a writer in the gap between COMMIT and BEGIN
  ends the pass. `checkpoint` only notices one that is still there (`Regain`),
  and the pass goes on with its stale snapshot.
* `ops_delivery.py:339`: "todo STARTED presente al inicio es huerfano por
  definicion". For the same reason it may be under way in a pass that lives.
* `docs/ops/instruction-send.md:170` makes a send permanent when its attempts are
  used up. A crash in the last attempt leaves it retryable and never eligible
  (`ops_send.py:558`), so `RetriesEnd` speaks of sends with an attempt left.
* `docs/p12/p125-fin-ack-nak.md:76` tells two candidates apart by
  `block4_sha256`; the code has no such step (`ops_fin.py:179`) and files the
  message as ambiguous.
* `docs/p10/p108-retry.md:50` calls ABANDONED terminal for alert deliveries; the
  status is overwritten as in `bad_abandon` (`ops_delivery.py:347`).
* `docs/p10/p103-delivery-policy.md:111` promises a notice for changed facts.
  Facts that change and change back meet their own delivery, which is DELIVERED
  (`ops_delivery.py:366`): the receiver is left with the facts in between.
* `docs/p10/p106-smtp-adapter.md:33` and `p104-file-adapter.md:52` give the other
  outcome for a TLS failure while connecting (`smtp_adapter.py:121` catches its
  base class first) and for an I/O error of a write (`file_adapter.py:67`).


Operation:

* `CaseAlertNeedsSource` (`OpsRun`): the alert of an exception case clears although
  the step of that case was blocked, because the category is evaluated when any of
  its steps delivered (`ops_dag.py:1295-1322`; `docs/p7/p74-alerts.md`).
* `EveryListedIsKept` (`Sources`): a page without readable rows ends the pages of its
  month, and the listing counts as complete, so the checkpoint moves past what was never
  shown (`cnmv.py:229`; `docs/p9/source-coverage.md:26-27`,
  `p92-discovery-state.md:64-66`). Rows without a registration number are dropped too
  (`cnmv.py:233-236`), as `source-coverage.md:28-30` says.
* `MovedIsRecorded` (`Inbox`): a file is moved before its row is committed
  (`ops_inbox.py:138-143` and `docs/p7/p73-inbox.md` say after).
* `CanonicalStable` (`Identity`): the canon refresh passes neither ledger nor
  adjudications (`ops_dag.py:197`, `cli.py:1377`), so a newcomer with a smaller id
  renames an event (`docs/decisions/ADR-012-stable-persisted-canonical-identity.md`).
  With a kept ledger a newcomer never does, but after two named events merged, the
  name may pass from one of the two to the other in a later pass with nothing new:
  `with_bindings` keeps the loser's binding and the pins are set in their order
  (`engine.py:62-68`).
* `LaterThanAmended` (`Identity`): of several documents that one amends only the last
  cited counts (`revisions.py:87`), so it may fall in the generation of another that
  it supersedes; the header says longest path.
* Notes on the run: a resumption with another `as_of` mixes the two; a resumed
  SKIPPED row replaces the SUCCEEDED one; what a failing step wrote before it failed
  is committed; the alert on a processing failure clears although the row stays
  FAILED, that on a failed run never does; a death after `process_inbox` and a
  resumption leave the alerts of these messages underived; the digest of the
  evidence has no parser version; without its artifact the current canon can never
  be refreshed again; two documents of one kind, ISIN and day at BME are one.

Engines:

* `ClaimsKept` (`MarketClaims`): a run that has neither market rules nor transactions, or
  whose canon does not name the event, succeeds without its claims, terminal ones
  included, and the next run looks no further back (`ops_dag.py:828`, 899, 761-783;
  `docs/p16/p162-conformance.md:79-80`).
* `RecoveryKept` (`TaxRecovery`): the same of recovery claims where there are no recovery
  rules or the event is not among the tax events (`ops_dag.py:541`, 566, 496-519;
  `tax_recovery_case.py:149-151`, `docs/p15/p151-recovery-contracts.md:135`).
* `BindingKept` (`MarketClaims`): a merge takes the references of the new claim and
  drops those a message bound (`market_claim_case.py:163-169`;
  `docs/p16/p161-contracts.md:56-58`). `RejectionRestores`: every run applies the
  request again, the status to return to is written before the transition is tried
  (`market_claim_status.py:182`), and becomes CANCELLATION_REQUESTED itself: an answer
  CANCEL_REJECTED of a later run restores nothing (header, lines 14-18).
* `ReliefCloses` (`TaxRecovery`): a relief claim opened before the evidence of the
  actual rate stays open after it (`tax_recovery_assessment.py:16-18`).
* `OrphanListedOnce` (`Settlement`): every run observes the inbox again and lists the
  same orphan once more (docstring of `settlement_transaction.py`). A status message with a settled
  quantity gives MATCH while the export says PENDING. Where one confirmation states a
  part and another the sum so far, the settled quantity depends on the order in which
  they are read, and nothing becomes INDETERMINATE (header, lines 21-24).
* `CaseNeverDropped` (`ExceptionCases`): the tax branch of the chain takes the cases
  of the cash branch for its previous ones, so a tax case of the last successful run
  that is not observed any more is gone (`exceptions.py:28-29`).
* `LineOfItsOwn`, `UnexercisedLapse` (`Securities`): two position lines of one account
  and instrument are each moved by the impacts of both; an election of none of the
  rights gives NOT_ENTITLED, and the rights stay in the projection
  (`securities_entitlement.py:379`; docstrings of `projected_positions.py` and 365).
  The daily configuration has no input for elections at all.
* `LinkNoException` (`Cash`): the informative link of an entitlement without amount
  uses a movement up, and the entitlement with the amount that pays becomes
  MISSING_CASH (`reconciliation.py:130-138`).
* `PageIsNotStatement`, `HealthyIsFresh` (`Custody`): an MT535 page marked LAST is a
  complete statement although the pages before it are missing; the age of the feed is
  that of the freshest account, so a stale one is HEALTHY, which takes
  `LastCustodyDay` = 3 to see (`custody_snapshot.py:9`, `custody_health.py:6-11`). Of two equal aggregate
  balances MT535 drops one and semt.002 keeps both.
* `DeclaredRateHeeded` (`TaxEvents`): an EXEMPT rule ignores the rate a message
  declares (`tax_entitlement.py:297`, header 19-20).
* `BindingAgrees` (`Election`): a single candidate event is bound although the dates
  of the notice contradict it.
* Notes: the daily recovery never leaves ASSESSED; a paid claim can expire, because
  nothing in the daily chain records a payment; quick refund and standard reclaim may
  both be open for one excess; a second line of an account makes eligibility
  ambiguous; two READY instructions of one election are not told apart; the notice
  that was amended keeps its rate, and the event is CONFLICTING for ever; human
  transitions of exception cases do not reach the daily chain.

## 6. Not modelled, and why

* Source parsers, the Java adapter, canonical form and hashing: conversion without
  state, and the corpus tests are the better tool. What a parsed message decides is
  in the module of the engine that reads it.
* Facts, conflicts and temporal statements of the pipeline, reference data: pure
  functions of immutable documents.
* Deadlines and action queue: calendar arithmetic. `OpsRun` takes their documents as
  outputs of their steps; that no deadline is dropped between two briefs is not
  stated.
* Read side, configuration, evaluation scripts: they change no state, or none of
  the operation's.
* Partly: the command line (the commands that change state are actions of the
  machine they change), the projections (the fields that carry a decision), the live
  adapters (discovery; HTTP is an input), the state store (each table is in its
  machine), entitlement engines and reconciliations (the claims and recovery
  reconciliations are part of their machines; scrip and spin-off terms are the cases
  of `Securities`).

`PROJECT.json` says it per component.

## 7. What is left

1. The SFTP poll and several instructions inside the interleaved dispatcher pass.
2. Deadlines and action queue against a reference definition.
3. Two engines in one behaviour where one's documents age while the other runs:
   tax events and cash reconciliation first.
