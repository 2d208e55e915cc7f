------------------------------- MODULE RunLock -------------------------------
(***************************************************************************)
(* The run lock of ops.db (src/ca_es/ops_state.py): acquire_run_lock,      *)
(* checkpoint and release_run_lock, as every pass uses them.               *)
(*                                                                         *)
(* The lock is SQLite's open write transaction.  db is the committed       *)
(* database, txn what the lock holder sees; with no holder they are equal. *)
(* checkpoint() is COMMIT followed by BEGIN IMMEDIATE: in between (pc =    *)
(* "gap") the lock is free.                                                *)
(***************************************************************************)
EXTENDS Naturals

CONSTANTS Procs,     \* processes that run passes, again and again
          Nobody,
          MaxFaults  \* bound: crashes and lost locks

ASSUME LockAssumption == Nobody \notin Procs /\ MaxFaults \in Nat

VARIABLES db, txn,    \* the committed tables and the holder's view of them
          holder,     \* who holds the run lock
          pc, resume, \* where a pass is; where it goes on after its checkpoint
          \* Bookkeeping of the model, read by no action of the program:
          faults      \* crashes and lost locks so far

At(p, phase) == pc[p] = phase /\ (phase \in {"idle", "gap"} \/ holder = p)

Goto(p, phase) == pc' = [pc EXCEPT ![p] = phase]

\* A pass is over, in whatever way.
Leave(p) == /\ pc' = [pc EXCEPT ![p] = "idle"]
            /\ resume' = [resume EXCEPT ![p] = "idle"]

Commit(l) == db' = l /\ txn' = l

\* acquire_run_lock(); the pass begins with its first phase.
Acquire(p, first) ==
  /\ At(p, "idle")
  /\ holder = Nobody
  /\ holder' = p
  /\ Goto(p, first)
  /\ UNCHANGED <<db, txn, resume, faults>>

\* checkpoint(), first half: the transaction is durable, the lock is free.
Checkpoint(p, l, next) ==
  /\ Commit(l)
  /\ holder' = Nobody
  /\ Goto(p, "gap")
  /\ resume' = [resume EXCEPT ![p] = next]

\* checkpoint(), second half: BEGIN IMMEDIATE succeeds when the lock is free
\* within the second it waits, whoever held it meanwhile ...
Regain(p) ==
  /\ At(p, "gap")
  /\ holder = Nobody
  /\ holder' = p
  /\ Goto(p, resume[p])
  /\ resume' = [resume EXCEPT ![p] = "idle"]
  /\ UNCHANGED <<db, txn, faults>>

\* ... and fails when it is not: OPS_RUN_LOCK_LOST ends the pass.
Lose(p) ==
  /\ At(p, "gap")
  /\ faults < MaxFaults
  /\ faults' = faults + 1
  /\ Leave(p)
  /\ UNCHANGED <<db, txn, holder>>

\* release_run_lock(): it commits what the transaction holds, also when the
\* pass failed.
Yield(p) ==
  /\ Commit(txn)
  /\ holder' = Nobody
  /\ Leave(p)

\* The process dies: its transaction is rolled back.
Die(p) ==
  /\ pc[p] # "idle"
  /\ faults < MaxFaults
  /\ faults' = faults + 1
  /\ Leave(p)
  /\ IF holder = p THEN holder' = Nobody /\ txn' = db
                   ELSE UNCHANGED <<holder, txn>>
  /\ UNCHANGED db

==============================================================================
