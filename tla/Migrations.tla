------------------------------ MODULE Migrations ------------------------------
(***************************************************************************)
(* The migration runner that every cold start runs: runMigrations over a   *)
(* PostgreSQL session, under an advisory lock, with the bookkeeping rows   *)
(* of _prisma_migrations written outside the transaction of each file.     *)
(*                                                                         *)
(* PostgreSQL is modelled as the runner uses it: a session lock is held    *)
(* until it is released or the session ends; a file sent as                *)
(* BEGIN; ...; COMMIT; commits as a whole, is refused as a whole by the    *)
(* parser, or fails in the middle and leaves the session in an aborted     *)
(* transaction, in which every later statement is refused.                 *)
(*                                                                         *)
(* Left out: finding the files and the connection string, and the report.  *)
(***************************************************************************)
EXTENDS Integers, FiniteSets

CONSTANTS
  Starts,        \* the cold starts that may run at the same time
  Files,         \* the migrations, numbered in the order of their names
  Checksums,     \* the versions of a file
  MaxRuns,       \* bound on the runs
  Crashes,       \* TRUE: a process may end anywhere
  Aborts,        \* TRUE: a statement of a file may fail when it is executed
  Nil            \* no row, no holder

Row == [checksum: Checksums, rolledBack: BOOLEAN, finished: BOOLEAN]

ASSUME MigrationsAssumption ==
  /\ Files \subseteq Nat
  /\ MaxRuns \in Nat
  /\ Crashes \in BOOLEAN
  /\ Aborts \in BOOLEAN
  /\ Nil \notin Row \union Starts

VARIABLES
  rows,    \* rows[f]: the row of _prisma_migrations named f
  ran,     \* ran[f]: how often file f was committed
  lock,    \* the holder of the advisory lock
  run,     \* run[s]: the run of the process s
  runs,    \* how many runs began
  cut      \* history: the files a start ended on, or whose statement failed

migVars == <<rows, ran, lock, run, runs, cut>>

RunPc == {"idle", "lock", "read", "start", "exec", "finish", "failure", "unlock"}

Run == [pc: RunPc,
        catalog: [Files -> Checksums],  \* the files this deployment ships
        pending: SUBSET Files,          \* those it has still to apply
        aborted: BOOLEAN]               \* its session is in an aborted transaction

MigTypeOK ==
  /\ rows \in [Files -> Row \union {Nil}]
  /\ ran \in [Files -> Nat]
  /\ lock \in Starts \union {Nil}
  /\ run \in [Starts -> Run]
  /\ runs \in 0..MaxRuns
  /\ cut \subseteq Files

MigInit ==
  /\ rows = [f \in Files |-> Nil]
  /\ ran = [f \in Files |-> 0]
  /\ lock = Nil
  /\ \E catalog \in [Files -> Checksums] :
       run = [s \in Starts |-> [pc |-> "idle", catalog |-> catalog, pending |-> {},
                                aborted |-> FALSE]]
  /\ runs = 0
  /\ cut = {}

-----------------------------------------------------------------------------

Goto(s, pc) == run' = [run EXCEPT ![s].pc = pc]

\* A cold start ships the files of its deployment.
Boot(s, catalog) ==
  /\ run[s].pc = "idle"
  /\ runs < MaxRuns
  /\ runs' = runs + 1
  /\ run' = [run EXCEPT ![s] = [pc |-> "lock", catalog |-> catalog, pending |-> {},
                                aborted |-> FALSE]]
  /\ UNCHANGED <<rows, ran, lock, cut>>

\* pg_advisory_lock waits until nobody holds it.
Lock(s) ==
  /\ run[s].pc = "lock"
  /\ lock = Nil
  /\ lock' = s
  /\ Goto(s, "read")
  /\ UNCHANGED <<rows, ran, runs, cut>>

\* Mutant: a row that never finished is not taken for applied.
FinishedOnly(row) == row # Nil /\ ~row.rolledBack /\ row.finished
\* readAppliedMigrations: whatever was not rolled back counts as applied.
Applied(row) == row # Nil /\ ~row.rolledBack

\* The table is created if it is missing, and the rows are read.
ReadRows(s) ==
  LET pending == {f \in Files : ~Applied(rows[f])} IN
  /\ run[s].pc = "read"
  /\ run' = [run EXCEPT ![s].pc = IF pending = {} THEN "unlock" ELSE "start",
                        ![s].pending = pending]
  /\ UNCHANGED <<rows, ran, lock, runs, cut>>

\* Files are applied in the order of their names.
Upcoming(s, f) == f \in run[s].pending /\ \A g \in run[s].pending : f <= g

\* The file whose row is written and neither finished nor recorded as failed.
Underway(s) == {f \in Files : run[s].pc \in {"exec", "failure"} /\ Upcoming(s, f)}

\* A new row, or the failed one reset: under the lock, the row is as it was read.
StartFile(s, f) ==
  /\ run[s].pc = "start"
  /\ Upcoming(s, f)
  /\ rows' = [rows EXCEPT ![f] = [checksum |-> run[s].catalog[f], rolledBack |-> FALSE,
                                  finished |-> FALSE]]
  /\ Goto(s, "exec")
  /\ UNCHANGED <<ran, lock, runs, cut>>

CommitFile(s, f) ==
  /\ run[s].pc = "exec"
  /\ Upcoming(s, f)
  /\ ran' = [ran EXCEPT ![f] = @ + 1]
  /\ Goto(s, "finish")
  /\ UNCHANGED <<rows, lock, runs, cut>>

\* The parser refuses the file before any of it is executed.
RefuseFile(s) ==
  /\ run[s].pc = "exec"
  /\ Goto(s, "failure")
  /\ UNCHANGED <<rows, ran, lock, runs, cut>>

\* A statement fails: the transaction is aborted and left open.
AbortFile(s) ==
  /\ Aborts
  /\ run[s].pc = "exec"
  /\ run' = [run EXCEPT ![s].pc = "failure", ![s].aborted = TRUE]
  /\ cut' = cut \union Underway(s)
  /\ UNCHANGED <<rows, ran, lock, runs>>

FinishFile(s, f) ==
  LET left == run[s].pending \ {f} IN
  /\ run[s].pc = "finish"
  /\ Upcoming(s, f)
  /\ rows' = [rows EXCEPT ![f].finished = TRUE]
  /\ run' = [run EXCEPT ![s].pc = IF left = {} THEN "unlock" ELSE "start",
                        ![s].pending = left]
  /\ UNCHANGED <<ran, lock, runs, cut>>

\* Mutant: the row is not marked as rolled back.
RecordNothing(s, f) ==
  /\ run[s].pc = "failure"
  /\ Upcoming(s, f)
  /\ Goto(s, "unlock")
  /\ UNCHANGED <<rows, ran, lock, runs, cut>>

\* recordFailure, whose own failure is ignored: an aborted transaction
\* refuses it.  The run then ends with the error of the file.
RecordFailure(s, f) ==
  /\ run[s].pc = "failure"
  /\ Upcoming(s, f)
  /\ rows' = IF run[s].aborted THEN rows
             ELSE [rows EXCEPT ![f].rolledBack = TRUE, ![f].finished = TRUE]
  /\ Goto(s, "unlock")
  /\ UNCHANGED <<ran, lock, runs, cut>>

\* The lock is released, at the latest when the pool ends the session.
Unlock(s) ==
  /\ run[s].pc = "unlock"
  /\ lock' = Nil
  /\ Goto(s, "idle")
  /\ UNCHANGED <<rows, ran, runs, cut>>

\* The process ends: its session ends with it, and with that its lock and its
\* open transaction.
Crash(s) ==
  /\ Crashes
  /\ run[s].pc # "idle"
  /\ lock' = IF lock = s THEN Nil ELSE lock
  /\ Goto(s, "idle")
  /\ cut' = cut \union Underway(s)
  /\ UNCHANGED <<rows, ran, runs>>

Step(s) ==
  \/ Lock(s)
  \/ ReadRows(s)
  \/ \E f \in Files : StartFile(s, f) \/ CommitFile(s, f) \/ FinishFile(s, f)
                        \/ RecordFailure(s, f)
  \/ RefuseFile(s)
  \/ AbortFile(s)
  \/ Unlock(s)

MigNext ==
  \E s \in Starts :
    \/ \E catalog \in [Files -> Checksums] : Boot(s, catalog)
    \/ Step(s)
    \/ Crash(s)

MigSpec == MigInit /\ [][MigNext]_migVars

-----------------------------------------------------------------------------
(* Properties                                                              *)

\* Concurrent cold starts apply each migration exactly once instead of racing
\* (the deployment guide), and no start runs again what an earlier one, cut
\* off before it recorded so, had committed.
AppliedOnce == \A f \in Files : ran[f] <= 1

\* The bookkeeping never lags behind: what was committed has a row, so that
\* prisma migrate deploy, or the next start, sees it as applied.
CommittedIsRecorded ==
  \A f \in Files : ran[f] > 0 => rows[f] # Nil /\ ~rows[f].rolledBack

\* A file that failed is retried by the next run instead of being skipped (the
\* doc of runMigrations): with no run in progress, what counts as applied was
\* committed.
AppliedWasCommitted ==
  (\A s \in Starts : run[s].pc = "idle") =>
    \A f \in Files : rows[f] # Nil /\ ~rows[f].rolledBack => ran[f] > 0

\* The only files that are skipped, their row counting as applied though they
\* never ran, are those a start ended on or of which a statement failed.
SkippedWereCut ==
  (\A s \in Starts : run[s].pc = "idle") =>
    \A f \in Files : Applied(rows[f]) => ran[f] > 0 \/ f \in cut

\* A file is committed on top of all the earlier ones, never of a schema that
\* lacks one of them, unless that one was skipped.
AppliedInOrder ==
  \A f, g \in Files : f < g /\ ran[g] > 0 => ran[f] > 0 \/ f \in cut
=============================================================================
