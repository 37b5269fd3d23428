--------------------------- MODULE ColdStartProofs ---------------------------
(***************************************************************************)
(* Proofs about the start of the API: the migration runner, for any number *)
(* of runs, files and failures, and the starts around it, for any number   *)
(* of processes, over the database or memory stores, with steps that fail  *)
(* and processes that end anywhere.                                        *)
(*                                                                         *)
(* The runs that are past the lock exclude each other, so what a run read  *)
(* stays true while it holds the lock: the files it has still to apply     *)
(* were never committed, and the one it is applying has its row.           *)
(*                                                                         *)
(* These invariants survive the end of a process, which takes several runs *)
(* with it.  The seed of a start that has not failed has installed what it *)
(* is past, as the rows of a store only grow while somebody looks at it; a *)
(* process that has seeded therefore finds its rows, over memory stores as *)
(* long as it started one server at a time.                                *)
(***************************************************************************)
EXTENDS ColdStart, TLAPS

-----------------------------------------------------------------------------
(* The migration runner                                                    *)

Inside(s) == run[s].pc \notin {"idle", "lock"}

\* Only the holder of the lock is past it.
Exclusive == \A s \in Starts : Inside(s) => lock = s

\* The files a run has still to apply were never committed, but for the one
\* whose row it is about to finish.
PendingIsFresh ==
  \A s \in Starts : run[s].pc \in {"start", "exec", "finish", "failure"} =>
    \A f \in run[s].pending :
      ran[f] = 0 \/ (run[s].pc = "finish" /\ Upcoming(s, f) /\ ran[f] = 1)

\* A file has its row before it is executed.
RowFirst ==
  \A s \in Starts : run[s].pc \in {"exec", "finish", "failure"} =>
    \A f \in run[s].pending : Upcoming(s, f) => rows[f] # Nil /\ ~rows[f].rolledBack

MigInv ==
  /\ MigTypeOK
  /\ Exclusive
  /\ PendingIsFresh
  /\ RowFirst
  /\ AppliedOnce
  /\ CommittedIsRecorded

\* The initial states satisfy the invariant.
LEMMA MigInitInv == MigInit => MigInv
<1> SUFFICES ASSUME MigInit PROVE MigInv OBVIOUS
<1> USE MigrationsAssumption
<1>1. MigTypeOK
  BY SMTT(30) DEF MigInit, MigTypeOK, Run, RunPc
<1>2. \A s \in Starts : run[s].pc = "idle"
  BY DEF MigInit
<1>3. \A f \in Files : ran[f] = 0
  BY DEF MigInit
<1> QED BY <1>1, <1>2, <1>3 DEF MigInv, Exclusive, Inside, PendingIsFresh, RowFirst,
                               AppliedOnce, CommittedIsRecorded

\* What a step does to the run of s, when it changes nothing but that run.
LEMMA OneRun ==
  ASSUME MigTypeOK, NEW s \in Starts, NEW q \in Run, run' = [run EXCEPT ![s] = q]
  PROVE  run' \in [Starts -> Run] /\ run'[s] = q /\ \A o \in Starts \ {s} : run'[o] = run[o]
BY DEF MigTypeOK

LEMMA GotoRun ==
  ASSUME MigTypeOK, NEW s \in Starts, NEW pc \in RunPc, Goto(s, pc)
  PROVE  /\ run' \in [Starts -> Run]
         /\ run'[s].pc = pc /\ run'[s].pending = run[s].pending
         /\ run'[s].aborted = run[s].aborted
         /\ \A o \in Starts \ {s} : run'[o] = run[o]
<1> DEFINE q == [run[s] EXCEPT !.pc = pc]
<1>1. run[s] \in Run BY DEF MigTypeOK
<1>2. q \in Run /\ q.pc = pc /\ q.pending = run[s].pending /\ q.aborted = run[s].aborted
  BY <1>1 DEF Run
<1>3. run' = [run EXCEPT ![s] = q] BY DEF Goto
<1> HIDE DEF q
<1> QED BY <1>2, <1>3, OneRun

\* A step outside the lock that changes neither rows nor counts, and lets no
\* other run in, preserves the invariant.
LEMMA OutsideStep ==
  ASSUME MigInv, NEW s \in Starts, run' \in [Starts -> Run],
         run'[s].pc \in {"idle", "lock"},
         \A o \in Starts \ {s} : run'[o] = run[o],
         lock' \in Starts \union {Nil},
         lock' = lock \/ lock = s,
         runs' \in 0..MaxRuns, cut' \subseteq Files, UNCHANGED <<rows, ran>>
  PROVE  MigInv'
<1> USE DEF MigInv
<1>1. MigTypeOK' BY DEF MigTypeOK
<1>2. \A o \in Starts : Inside(o)' => o # s /\ Inside(o) /\ run'[o] = run[o]
  BY DEF Inside
<1>3. Exclusive'
  BY <1>2, MigrationsAssumption DEF Exclusive
<1>4. PendingIsFresh'
  BY <1>2 DEF PendingIsFresh, Inside, Upcoming
<1>5. RowFirst'
  BY <1>2 DEF RowFirst, Inside, Upcoming
<1>6. AppliedOnce' /\ CommittedIsRecorded'
  BY DEF AppliedOnce, CommittedIsRecorded
<1> QED BY <1>1, <1>3, <1>4, <1>5, <1>6

\* A step of the holder of the lock: the others are outside, before and after.
LEMMA InsideStep ==
  ASSUME MigInv, NEW s \in Starts, MigTypeOK', lock' = s,
         lock = s \/ lock = Nil,
         \A o \in Starts \ {s} : run'[o] = run[o],
         run'[s].pc \in {"start", "exec", "finish", "failure"} =>
           \A f \in run'[s].pending :
             ran'[f] = 0 \/ (run'[s].pc = "finish" /\ Upcoming(s, f)' /\ ran'[f] = 1),
         run'[s].pc \in {"exec", "finish", "failure"} =>
           \A f \in run'[s].pending :
             Upcoming(s, f)' => rows'[f] # Nil /\ ~rows'[f].rolledBack,
         AppliedOnce', CommittedIsRecorded'
  PROVE  MigInv'
<1>1. \A o \in Starts \ {s} : ~Inside(o)
  BY MigrationsAssumption DEF MigInv, Exclusive
<1>2. \A o \in Starts \ {s} : ~Inside(o)'
  BY <1>1 DEF Inside
<1>3. Exclusive' BY <1>2 DEF Exclusive
<1>4. PendingIsFresh' BY <1>2 DEF PendingIsFresh, Inside
<1>5. RowFirst' BY <1>2 DEF RowFirst, Inside
<1> QED BY <1>3, <1>4, <1>5 DEF MigInv

\* Every step preserves the invariant.
LEMMA MigNextInv == MigInv /\ [MigNext]_migVars => MigInv'
<1> SUFFICES ASSUME MigInv, [MigNext]_migVars PROVE MigInv' OBVIOUS
<1> USE MigrationsAssumption
<1>1. ASSUME NEW s \in Starts, NEW catalog \in [Files -> Checksums], Boot(s, catalog)
      PROVE  MigInv'
  <2>1. run' \in [Starts -> Run] /\ run'[s].pc = "lock"
    BY <1>1 DEF Boot, MigInv, MigTypeOK, Run, RunPc
  <2>2. \A o \in Starts \ {s} : run'[o] = run[o]
    BY <1>1 DEF Boot, MigInv, MigTypeOK
  <2>3. runs' \in 0..MaxRuns
    BY <1>1 DEF Boot, MigInv, MigTypeOK
  <2> QED BY <1>1, <2>1, <2>2, <2>3, OutsideStep DEF Boot, MigInv, MigTypeOK
<1>2. ASSUME NEW s \in Starts, Lock(s) PROVE MigInv'
  <2>1. MigTypeOK' /\ run'[s].pc = "read" /\ \A o \in Starts \ {s} : run'[o] = run[o]
    <3>1. "read" \in RunPc BY DEF RunPc
    <3> QED BY <1>2, <3>1, GotoRun DEF Lock, MigInv, MigTypeOK
  <2>2. AppliedOnce' /\ CommittedIsRecorded'
    BY <1>2 DEF Lock, MigInv, AppliedOnce, CommittedIsRecorded
  <2> QED BY <1>2, <2>1, <2>2, InsideStep DEF Lock
<1>3. ASSUME NEW s \in Starts, ReadRows(s) PROVE MigInv'
  <2> DEFINE pending == {f \in Files : ~Applied(rows[f])}
  <2>1. lock = s /\ lock' = s
    BY <1>3 DEF ReadRows, MigInv, Exclusive, Inside
  <2>2. /\ MigTypeOK' /\ \A o \in Starts \ {s} : run'[o] = run[o]
        /\ run'[s].pending = pending /\ run'[s].pc \in {"start", "unlock"}
    <3> DEFINE q == [run[s] EXCEPT !.pc = IF pending = {} THEN "unlock" ELSE "start",
                                   !.pending = pending]
    <3>1. run[s] \in Run BY DEF MigInv, MigTypeOK
    <3>2. q \in Run /\ q.pending = pending /\ q.pc \in {"start", "unlock"}
      BY <3>1 DEF Run, RunPc
    <3>3. run' = [run EXCEPT ![s] = q] BY <1>3 DEF ReadRows
    <3> HIDE DEF q
    <3> QED BY <1>3, <3>2, <3>3, OneRun DEF ReadRows, MigInv, MigTypeOK
  <2>4. \A f \in pending : ran'[f] = 0
    BY <1>3 DEF ReadRows, MigInv, MigTypeOK, CommittedIsRecorded, Applied
  <2>5. AppliedOnce' /\ CommittedIsRecorded'
    BY <1>3 DEF ReadRows, MigInv, AppliedOnce, CommittedIsRecorded
  <2> HIDE DEF pending
  <2>6. \A f \in run'[s].pending : ran'[f] = 0
    BY <2>2, <2>4
  <2>7. run'[s].pc \notin {"exec", "finish", "failure"}
    BY <2>2
  <2> QED BY <2>1, <2>2, <2>5, <2>6, <2>7, InsideStep
<1>4. ASSUME NEW s \in Starts, NEW f \in Files, StartFile(s, f) PROVE MigInv'
  <2>1. lock = s /\ lock' = s
    BY <1>4 DEF StartFile, MigInv, Exclusive, Inside
  <2>2. /\ run' \in [Starts -> Run] /\ \A o \in Starts \ {s} : run'[o] = run[o]
        /\ run'[s].pc = "exec" /\ run'[s].pending = run[s].pending
    <3>1. "exec" \in RunPc BY DEF RunPc
    <3> QED BY <1>4, <3>1, GotoRun DEF StartFile, MigInv
  <2>3. /\ rows' \in [Files -> Row \union {Nil}]
        /\ rows'[f] # Nil /\ ~rows'[f].rolledBack
        /\ \A g \in Files \ {f} : rows'[g] = rows[g]
    <3> DEFINE row == [checksum |-> run[s].catalog[f], rolledBack |-> FALSE, finished |-> FALSE]
    <3>1. run[s].catalog[f] \in Checksums
      BY DEF MigInv, MigTypeOK, Run
    <3>2. row \in Row /\ ~row.rolledBack
      BY <3>1 DEF Row
    <3>3. row # Nil
      <4> HIDE DEF row
      <4> QED BY <3>2, MigrationsAssumption
    <3>4. rows' = [rows EXCEPT ![f] = row] BY <1>4 DEF StartFile
    <3> HIDE DEF row
    <3> QED BY <3>2, <3>3, <3>4 DEF MigInv, MigTypeOK
  <2>4. \A g \in run[s].pending : ran'[g] = 0
    BY <1>4 DEF StartFile, MigInv, PendingIsFresh
  <2>5. \A g \in run'[s].pending : Upcoming(s, g)' => g = f
    <3>1. run[s].pending \subseteq Files /\ Files \subseteq Nat
      BY DEF MigInv, MigTypeOK, Run
    <3>2. f \in run[s].pending /\ \A g \in run[s].pending : f <= g
      BY <1>4 DEF StartFile, Upcoming
    <3>3. \A g : Upcoming(s, g)' => g \in run[s].pending /\ g <= f
      BY <2>2, <3>2 DEF Upcoming
    <3>4. ASSUME NEW g \in run[s].pending, f <= g, g <= f PROVE g = f
      <4>1. f \in Nat /\ g \in Nat BY <3>1, <3>2
      <4> QED BY <3>4, <4>1
    <3> QED BY <3>2, <3>3, <3>4
  <2>6. AppliedOnce' /\ CommittedIsRecorded'
    BY <1>4, <2>3 DEF StartFile, MigInv, AppliedOnce, CommittedIsRecorded
  <2>7. MigTypeOK'
    BY <1>4, <2>2, <2>3 DEF StartFile, MigInv, MigTypeOK
  <2> QED BY <2>1, <2>2, <2>3, <2>4, <2>5, <2>6, <2>7, InsideStep
<1>5. ASSUME NEW s \in Starts, NEW f \in Files, CommitFile(s, f) PROVE MigInv'
  <2>1. lock = s /\ lock' = s
    BY <1>5 DEF CommitFile, MigInv, Exclusive, Inside
  <2>2. /\ run' \in [Starts -> Run] /\ \A o \in Starts \ {s} : run'[o] = run[o]
        /\ run'[s].pc = "finish" /\ run'[s].pending = run[s].pending
    <3>1. "finish" \in RunPc BY DEF RunPc
    <3> QED BY <1>5, <3>1, GotoRun DEF CommitFile, MigInv
  <2>3. MigTypeOK'
    BY <1>5, <2>2 DEF CommitFile, MigInv, MigTypeOK
  <2>4. /\ f \in run[s].pending /\ Upcoming(s, f) /\ ran[f] = 0
        /\ rows[f] # Nil /\ ~rows[f].rolledBack
    BY <1>5 DEF CommitFile, MigInv, PendingIsFresh, RowFirst, Upcoming
  <2>5. \A g \in Files : ran'[g] = IF g = f THEN 1 ELSE ran[g]
    BY <1>5, <2>4 DEF CommitFile, MigInv, MigTypeOK
  <2>6. \A g \in run[s].pending : ran[g] = 0
    BY <1>5 DEF CommitFile, MigInv, PendingIsFresh
  <2>7. Upcoming(s, f)' /\ \A g : Upcoming(s, g)' => Upcoming(s, g)
    BY <2>2, <2>4 DEF Upcoming
  <2>8. \A g \in run[s].pending : Upcoming(s, g) => rows[g] # Nil /\ ~rows[g].rolledBack
    BY <1>5 DEF CommitFile, MigInv, RowFirst
  <2>9. run[s].pending \subseteq Files
    BY DEF MigInv, MigTypeOK, Run
  <2>10. AppliedOnce' /\ CommittedIsRecorded'
    BY <1>5, <2>4, <2>5 DEF CommitFile, MigInv, AppliedOnce, CommittedIsRecorded
  <2>11. \A g \in run'[s].pending :
           ran'[g] = 0 \/ (run'[s].pc = "finish" /\ Upcoming(s, g)' /\ ran'[g] = 1)
    BY <2>2, <2>5, <2>6, <2>7, <2>9
  <2>12. \A g \in run'[s].pending :
           Upcoming(s, g)' => rows'[g] # Nil /\ ~rows'[g].rolledBack
    BY <1>5, <2>2, <2>7, <2>8 DEF CommitFile
  <2> QED BY <2>1, <2>2, <2>3, <2>10, <2>11, <2>12, InsideStep
<1>6. ASSUME NEW s \in Starts, RefuseFile(s) \/ AbortFile(s) PROVE MigInv'
  <2>1. lock = s /\ lock' = s
    BY <1>6 DEF RefuseFile, AbortFile, MigInv, Exclusive, Inside
  <2>2. /\ run' \in [Starts -> Run] /\ \A o \in Starts \ {s} : run'[o] = run[o]
        /\ run'[s].pc = "failure" /\ run'[s].pending = run[s].pending
    <3>1. CASE RefuseFile(s)
      <4>1. "failure" \in RunPc BY DEF RunPc
      <4> QED BY <3>1, <4>1, GotoRun DEF RefuseFile, MigInv
    <3>2. CASE AbortFile(s)
      <4> DEFINE q == [run[s] EXCEPT !.pc = "failure", !.aborted = TRUE]
      <4>1. run[s] \in Run BY DEF MigInv, MigTypeOK
      <4>2. q \in Run /\ q.pc = "failure" /\ q.pending = run[s].pending
        BY <4>1 DEF Run, RunPc
      <4>3. run' = [run EXCEPT ![s] = q] BY <3>2 DEF AbortFile
      <4> HIDE DEF q
      <4> QED BY <4>2, <4>3, OneRun DEF MigInv
    <3> QED BY <1>6, <3>1, <3>2
  <2>3. MigTypeOK'
    BY <1>6, <2>2 DEF RefuseFile, AbortFile, Underway, MigInv, MigTypeOK
  <2>4. \A g \in run[s].pending : ran'[g] = 0
    BY <1>6 DEF RefuseFile, AbortFile, MigInv, PendingIsFresh
  <2>5. AppliedOnce' /\ CommittedIsRecorded'
    BY <1>6 DEF RefuseFile, AbortFile, MigInv, AppliedOnce, CommittedIsRecorded
  <2>6. \A g \in run'[s].pending :
          Upcoming(s, g)' => rows'[g] # Nil /\ ~rows'[g].rolledBack
    BY <1>6, <2>2 DEF RefuseFile, AbortFile, Upcoming, MigInv, RowFirst
  <2> QED BY <2>1, <2>2, <2>3, <2>4, <2>5, <2>6, InsideStep
<1>7. ASSUME NEW s \in Starts, NEW f \in Files, FinishFile(s, f) PROVE MigInv'
  <2>1. lock = s /\ lock' = s
    BY <1>7 DEF FinishFile, MigInv, Exclusive, Inside
  <2>2. f \in run[s].pending /\ Upcoming(s, f) /\ rows[f] # Nil /\ ~rows[f].rolledBack
    BY <1>7 DEF FinishFile, MigInv, RowFirst, Upcoming
  <2>3. /\ run' \in [Starts -> Run] /\ \A o \in Starts \ {s} : run'[o] = run[o]
        /\ run'[s].pc \in {"unlock", "start"} /\ run'[s].pending = run[s].pending \ {f}
    <3> DEFINE left == run[s].pending \ {f}
               q == [run[s] EXCEPT !.pc = IF left = {} THEN "unlock" ELSE "start",
                                   !.pending = left]
    <3>1. run[s] \in Run BY DEF MigInv, MigTypeOK
    <3>2. q \in Run /\ q.pc \in {"unlock", "start"} /\ q.pending = left
      BY <3>1 DEF Run, RunPc
    <3>3. run' = [run EXCEPT ![s] = q] BY <1>7 DEF FinishFile
    <3> HIDE DEF q
    <3> QED BY <3>2, <3>3, OneRun DEF MigInv
  <2>4. /\ rows' \in [Files -> Row \union {Nil}]
        /\ rows'[f] # Nil /\ ~rows'[f].rolledBack
        /\ \A g \in Files \ {f} : rows'[g] = rows[g]
    <3> DEFINE row == [rows[f] EXCEPT !.finished = TRUE]
    <3>1. rows[f] \in Row BY <2>2 DEF MigInv, MigTypeOK
    <3>2. row \in Row /\ row # Nil /\ ~row.rolledBack BY <2>2, <3>1 DEF Row
    <3>3. rows' = [rows EXCEPT ![f] = row] BY <1>7 DEF FinishFile
    <3> HIDE DEF row
    <3> QED BY <3>2, <3>3 DEF MigInv, MigTypeOK
  <2>5. \A g \in run[s].pending : Upcoming(s, g) => g = f
    BY <2>2 DEF Upcoming, MigInv, MigTypeOK, Run
  <2>6. \A g \in run[s].pending \ {f} : ran'[g] = 0
    BY <1>7, <2>5 DEF FinishFile, MigInv, PendingIsFresh
  <2>7. \A g \in Files : rows[g] # Nil /\ ~rows[g].rolledBack =>
                          rows'[g] # Nil /\ ~rows'[g].rolledBack
    BY <2>4
  <2>8. AppliedOnce' /\ CommittedIsRecorded'
    BY <1>7, <2>7 DEF FinishFile, MigInv, AppliedOnce, CommittedIsRecorded
  <2>9. MigTypeOK' BY <1>7, <2>3, <2>4 DEF FinishFile, MigInv, MigTypeOK
  <2> QED BY <2>1, <2>3, <2>6, <2>8, <2>9, InsideStep
<1>8. ASSUME NEW s \in Starts, NEW f \in Files, RecordFailure(s, f) PROVE MigInv'
  <2>1. lock = s /\ lock' = s
    BY <1>8 DEF RecordFailure, MigInv, Exclusive, Inside
  <2>2. f \in run[s].pending /\ ran[f] = 0 /\ rows[f] # Nil
    BY <1>8 DEF RecordFailure, Upcoming, MigInv, PendingIsFresh, RowFirst
  <2>3. rows' \in [Files -> Row \union {Nil}] /\ \A g \in Files \ {f} : rows'[g] = rows[g]
    <3> DEFINE row == [rows[f] EXCEPT !.rolledBack = TRUE, !.finished = TRUE]
    <3>1. rows[f] \in Row BY <2>2 DEF MigInv, MigTypeOK
    <3>2. row \in Row BY <3>1 DEF Row
    <3>3. rows' = rows \/ rows' = [rows EXCEPT ![f] = row] BY <1>8 DEF RecordFailure
    <3> HIDE DEF row
    <3> QED BY <3>2, <3>3 DEF MigInv, MigTypeOK
  <2>4. /\ run' \in [Starts -> Run] /\ \A o \in Starts \ {s} : run'[o] = run[o]
        /\ run'[s].pc = "unlock"
    <3>1. "unlock" \in RunPc BY DEF RunPc
    <3> QED BY <1>8, <3>1, GotoRun DEF RecordFailure, MigInv
  <2>5. MigTypeOK'
    BY <1>8, <2>3, <2>4 DEF RecordFailure, MigInv, MigTypeOK
  <2>6. \A g \in Files : ran'[g] = ran[g]
    BY <1>8 DEF RecordFailure
  <2>7. AppliedOnce' /\ CommittedIsRecorded'
    BY <2>2, <2>3, <2>6 DEF MigInv, AppliedOnce, CommittedIsRecorded
  <2> QED BY <2>1, <2>4, <2>5, <2>7, InsideStep
<1>9. ASSUME NEW s \in Starts, Unlock(s) \/ Crash(s) PROVE MigInv'
  <2>1. /\ run' \in [Starts -> Run] /\ run'[s].pc = "idle"
        /\ \A o \in Starts \ {s} : run'[o] = run[o]
    <3>1. "idle" \in RunPc BY DEF RunPc
    <3> QED BY <1>9, <3>1, GotoRun DEF Unlock, Crash, MigInv
  <2>3. lock' = lock \/ lock = s
    BY <1>9 DEF Unlock, Crash, MigInv, Exclusive, Inside
  <2>4. lock' \in Starts \union {Nil}
    BY <1>9 DEF Unlock, Crash, MigInv, MigTypeOK
  <2>5. cut' \subseteq Files
    BY <1>9 DEF Unlock, Crash, Underway, MigInv, MigTypeOK
  <2> QED BY <1>9, <2>1, <2>3, <2>4, <2>5, OutsideStep DEF Unlock, Crash, MigInv, MigTypeOK
<1>10. CASE UNCHANGED migVars
  BY <1>10 DEF migVars, MigInv, MigTypeOK, Exclusive, Inside, PendingIsFresh, RowFirst,
               Upcoming, AppliedOnce, CommittedIsRecorded
<1> QED BY <1>1, <1>2, <1>3, <1>4, <1>5, <1>6, <1>7, <1>8, <1>9, <1>10 DEF MigNext, Step

LEMMA MigInvariant == MigSpec => []MigInv
BY MigInitInv, MigNextInv, PTL DEF MigSpec

\* However many cold starts run, crash and fail, no migration is committed
\* twice (AppliedOnce): the advisory lock and the rows written before each
\* file are enough.
THEOREM MigrationsAppliedOnce == MigSpec => []AppliedOnce
<1>1. MigInv => AppliedOnce BY DEF MigInv
<1> QED BY <1>1, MigInvariant, PTL

\* Whatever was committed is recorded as applied (CommittedIsRecorded), so
\* that no later start, and not the Prisma CLI either, runs it again.
THEOREM MigrationsRecorded == MigSpec => []CommittedIsRecorded
<1>1. MigInv => CommittedIsRecorded BY DEF MigInv
<1> QED BY <1>1, MigInvariant, PTL

\* The state of the runner stays in its types.
THEOREM MigTypeCorrect == MigSpec => []MigTypeOK
<1>1. MigInv => MigTypeOK BY DEF MigInv
<1> QED BY <1>1, MigInvariant, PTL

-----------------------------------------------------------------------------
(* What is skipped, and the order of the files                             *)

\* A run is past the files it has not to apply: they were committed, or cut
\* off.  The file it finishes was committed, and one whose statement failed is
\* among those cut off.
RestOK(s) ==
  /\ run[s].pc \in {"start", "exec", "finish", "failure"} =>
       \A f \in Files \ run[s].pending : ran[f] > 0 \/ f \in cut
  /\ run[s].pc = "finish" => \A f \in Files : Upcoming(s, f) => ran[f] > 0
  /\ run[s].pc \in {"lock", "read", "start", "exec", "finish"} => ~run[s].aborted
  /\ run[s].pc = "failure" /\ run[s].aborted => Underway(s) \subseteq cut

SkippedOrUnderway ==
  \A f \in Files : Applied(rows[f]) =>
    ran[f] > 0 \/ f \in cut \/ \E s \in Starts : f \in Underway(s)

OrderInv == SkippedOrUnderway /\ AppliedInOrder /\ \A s \in Starts : RestOK(s)

\* The counts of commits only grow.
Advances == (\A f \in Files : ran[f] > 0 => ran'[f] > 0) /\ cut \subseteq cut'

LEMMA OthersRest ==
  ASSUME OrderInv, NEW s \in Starts, \A o \in Starts \ {s} : run'[o] = run[o], Advances
  PROVE  /\ \A o \in Starts \ {s} : RestOK(o)'
         /\ \A o \in Starts \ {s} : Underway(o)' = Underway(o)
BY DEF OrderInv, RestOK, Upcoming, Underway, Advances

\* A step that commits nothing and writes no row.
LEMMA QuietOrder ==
  ASSUME OrderInv, NEW s \in Starts, \A o \in Starts \ {s} : run'[o] = run[o],
         UNCHANGED <<rows, ran>>, cut \subseteq cut',
         Underway(s) \subseteq Underway(s)' \union cut', RestOK(s)'
  PROVE  OrderInv'
<1>1. Advances
  BY DEF Advances
<1>2. SkippedOrUnderway'
  BY <1>1, OthersRest DEF OrderInv, SkippedOrUnderway
<1>3. AppliedInOrder'
  BY DEF OrderInv, AppliedInOrder
<1> QED BY <1>1, <1>2, <1>3, OthersRest DEF OrderInv

\* While a run holds the lock, no other has a file under way.
LEMMA OthersIdle ==
  ASSUME MigInv, NEW s \in Starts, Inside(s), NEW o \in Starts \ {s}
  PROVE  Underway(o) = {}
BY MigrationsAssumption DEF MigInv, Exclusive, Inside, Underway

LEMMA OneUpcoming ==
  ASSUME MigTypeOK, NEW s \in Starts, NEW f \in Files, Upcoming(s, f),
         NEW g \in Files, Upcoming(s, g)
  PROVE  g = f
<1>1. f \in Nat /\ g \in Nat
  BY MigrationsAssumption
<1>2. f <= g /\ g <= f
  BY DEF Upcoming
<1> QED BY <1>1, <1>2

LEMMA OrderInit == MigInit => OrderInv
BY DEF MigInit, OrderInv, SkippedOrUnderway, AppliedInOrder, RestOK, Applied

LEMMA OrderNext == MigInv /\ OrderInv /\ [MigNext]_migVars => OrderInv'
<1> SUFFICES ASSUME MigInv, OrderInv, [MigNext]_migVars PROVE OrderInv' OBVIOUS
<1> USE MigrationsAssumption
<1>0. MigTypeOK BY DEF MigInv
<1>1. ASSUME NEW s \in Starts, NEW catalog \in [Files -> Checksums], Boot(s, catalog)
      PROVE  OrderInv'
  <2>1. run'[s].pc = "lock" /\ ~run'[s].aborted /\ \A o \in Starts \ {s} : run'[o] = run[o]
    BY <1>0, <1>1 DEF Boot, MigTypeOK
  <2>2. Underway(s) = {} /\ RestOK(s)'
    BY <1>1, <2>1 DEF Boot, Underway, RestOK
  <2> QED BY <1>1, <2>1, <2>2, QuietOrder DEF Boot
<1>2. ASSUME NEW s \in Starts, Lock(s) \/ Unlock(s) PROVE OrderInv'
  <2>1. /\ \A o \in Starts \ {s} : run'[o] = run[o]
        /\ run'[s].aborted = run[s].aborted
        /\ (run'[s].pc = "read" /\ run[s].pc = "lock") \/ run'[s].pc = "idle"
    <3>1. "read" \in RunPc /\ "idle" \in RunPc BY DEF RunPc
    <3> QED BY <1>0, <1>2, <3>1, GotoRun DEF Lock, Unlock
  <2>2. Underway(s) = {} /\ RestOK(s)'
    BY <1>2, <2>1 DEF Lock, Unlock, Underway, OrderInv, RestOK
  <2> QED BY <1>2, <2>1, <2>2, QuietOrder DEF Lock, Unlock
<1>3. ASSUME NEW s \in Starts, ReadRows(s) PROVE OrderInv'
  <2> DEFINE pending == {f \in Files : ~Applied(rows[f])}
  <2>1. /\ \A o \in Starts \ {s} : run'[o] = run[o]
        /\ run'[s].pending = pending /\ run'[s].pc \in {"start", "unlock"}
        /\ run'[s].aborted = run[s].aborted
    BY <1>0, <1>3 DEF ReadRows, MigTypeOK, Run
  <2>2. Underway(s) = {} /\ \A o \in Starts \ {s} : Underway(o) = {}
    BY <1>3, OthersIdle DEF ReadRows, Inside, Underway
  <2>3. \A f \in Files \ pending : ran[f] > 0 \/ f \in cut
    BY <2>2 DEF OrderInv, SkippedOrUnderway
  <2> HIDE DEF pending
  <2>4. RestOK(s)'
    BY <1>3, <2>1, <2>3 DEF ReadRows, OrderInv, RestOK
  <2> QED BY <1>3, <2>1, <2>2, <2>4, QuietOrder DEF ReadRows
<1>4. ASSUME NEW s \in Starts, NEW f \in Files, StartFile(s, f) PROVE OrderInv'
  <2>1. /\ \A o \in Starts \ {s} : run'[o] = run[o]
        /\ run'[s].pc = "exec" /\ run'[s].pending = run[s].pending
        /\ run'[s].aborted = run[s].aborted
    <3>1. "exec" \in RunPc BY DEF RunPc
    <3> QED BY <1>0, <1>4, <3>1, GotoRun DEF StartFile
  <2>2. f \in Underway(s)'
    BY <1>4, <2>1 DEF StartFile, Upcoming, Underway
  <2>3. Advances
    BY <1>4 DEF StartFile, Advances
  <2>4. Underway(s) = {}
    BY <1>4 DEF StartFile, Underway
  <2>5. \A g \in Files \ {f} : rows'[g] = rows[g]
    BY <1>0, <1>4 DEF StartFile, MigTypeOK
  <2>6. SkippedOrUnderway'
    BY <1>4, <2>1, <2>2, <2>3, <2>4, <2>5, OthersRest DEF StartFile, OrderInv, SkippedOrUnderway
  <2>7. RestOK(s)'
    BY <1>4, <2>1 DEF StartFile, OrderInv, RestOK
  <2>8. AppliedInOrder'
    BY <1>4 DEF StartFile, OrderInv, AppliedInOrder
  <2> QED BY <2>1, <2>3, <2>6, <2>7, <2>8, OthersRest DEF OrderInv
<1>5. ASSUME NEW s \in Starts, NEW f \in Files, CommitFile(s, f) PROVE OrderInv'
  <2>1. /\ \A o \in Starts \ {s} : run'[o] = run[o]
        /\ run'[s].pc = "finish" /\ run'[s].pending = run[s].pending
        /\ run'[s].aborted = run[s].aborted
    <3>1. "finish" \in RunPc BY DEF RunPc
    <3> QED BY <1>0, <1>5, <3>1, GotoRun DEF CommitFile
  <2>2. ran'[f] > 0 /\ \A g \in Files \ {f} : ran'[g] = ran[g]
    BY <1>0, <1>5 DEF CommitFile, MigTypeOK
  <2>3. Advances
    BY <1>5, <2>2 DEF CommitFile, Advances
  <2>4. Underway(s) \subseteq {f}
    BY <1>0, <1>5, OneUpcoming DEF CommitFile, Underway
  <2>5. SkippedOrUnderway'
    BY <1>5, <2>1, <2>2, <2>3, <2>4, OthersRest DEF CommitFile, OrderInv, SkippedOrUnderway
  <2>6. Upcoming(s, f) /\ \A g \in Files : Upcoming(s, g)' => g = f
    BY <1>0, <1>5, <2>1, OneUpcoming DEF CommitFile, Upcoming
  <2>7. RestOK(s)'
    BY <1>5, <2>1, <2>2, <2>6 DEF CommitFile, OrderInv, RestOK
  <2>8. \A g \in Files : g < f => ran[g] > 0 \/ g \in cut
    <3> TAKE g \in Files
    <3> HAVE g < f
    <3>1. g \notin run[s].pending
      BY <2>6 DEF Upcoming
    <3> QED BY <1>5, <3>1 DEF CommitFile, OrderInv, RestOK
  <2>9. \A g \in Files : g < f => g # f
    OBVIOUS
  <2>10. AppliedInOrder'
    BY <1>5, <2>2, <2>3, <2>8, <2>9 DEF CommitFile, OrderInv, AppliedInOrder, Advances
  <2> QED BY <2>1, <2>3, <2>5, <2>7, <2>10, OthersRest DEF OrderInv
<1>6. ASSUME NEW s \in Starts, RefuseFile(s) PROVE OrderInv'
  <2>1. /\ \A o \in Starts \ {s} : run'[o] = run[o]
        /\ run'[s].aborted = run[s].aborted
        /\ run'[s].pc = "failure" /\ run'[s].pending = run[s].pending
    <3>1. "failure" \in RunPc BY DEF RunPc
    <3> QED BY <1>0, <1>6, <3>1, GotoRun DEF RefuseFile
  <2>2. Underway(s)' = Underway(s)
    BY <1>6, <2>1 DEF RefuseFile, Underway, Upcoming
  <2>3. ~run'[s].aborted
    BY <1>6, <2>1 DEF RefuseFile, OrderInv, RestOK
  <2>4. RestOK(s)'
    BY <1>6, <2>1, <2>3 DEF RefuseFile, OrderInv, RestOK
  <2> QED BY <1>6, <2>1, <2>2, <2>4, QuietOrder DEF RefuseFile
<1>7. ASSUME NEW s \in Starts, AbortFile(s) PROVE OrderInv'
  <2>1. /\ \A o \in Starts \ {s} : run'[o] = run[o]
        /\ run'[s].pc = "failure" /\ run'[s].pending = run[s].pending
    BY <1>0, <1>7 DEF AbortFile, MigTypeOK, Run
  <2>2. Underway(s)' = Underway(s)
    BY <1>7, <2>1 DEF AbortFile, Underway, Upcoming
  <2>3. RestOK(s)'
    BY <1>7, <2>1, <2>2 DEF AbortFile, OrderInv, RestOK
  <2> QED BY <1>7, <2>1, <2>2, <2>3, QuietOrder DEF AbortFile
<1>8. ASSUME NEW s \in Starts, NEW f \in Files, FinishFile(s, f) PROVE OrderInv'
  <2>1. /\ \A o \in Starts \ {s} : run'[o] = run[o]
        /\ run'[s].pc \in {"unlock", "start"} /\ run'[s].pending = run[s].pending \ {f}
        /\ run'[s].aborted = run[s].aborted
    BY <1>0, <1>8 DEF FinishFile, MigTypeOK, Run
  <2>2. ran[f] > 0
    BY <1>8 DEF FinishFile, OrderInv, RestOK
  <2>3. Advances
    BY <1>8 DEF FinishFile, Advances
  <2>4. Underway(s) = {}
    BY <1>8 DEF FinishFile, Underway
  <2>5. \A g \in Files \ {f} : rows'[g] = rows[g]
    BY <1>0, <1>8 DEF FinishFile, MigTypeOK
  <2>6. SkippedOrUnderway'
    BY <1>8, <2>1, <2>2, <2>3, <2>4, <2>5, OthersRest DEF FinishFile, OrderInv, SkippedOrUnderway
  <2>7. RestOK(s)'
    BY <1>8, <2>1, <2>2 DEF FinishFile, OrderInv, RestOK
  <2>8. AppliedInOrder'
    BY <1>8 DEF FinishFile, OrderInv, AppliedInOrder
  <2> QED BY <2>1, <2>3, <2>6, <2>7, <2>8, OthersRest DEF OrderInv
<1>9. ASSUME NEW s \in Starts, NEW f \in Files, RecordFailure(s, f) PROVE OrderInv'
  <2>1. /\ \A o \in Starts \ {s} : run'[o] = run[o]
        /\ run'[s].pc = "unlock"
    <3>1. "unlock" \in RunPc BY DEF RunPc
    <3> QED BY <1>0, <1>9, <3>1, GotoRun DEF RecordFailure
  <2>2. Underway(s) = {f}
    BY <1>0, <1>9, OneUpcoming DEF RecordFailure, Underway
  <2>3. Advances
    BY <1>9 DEF RecordFailure, Advances
  <2>4. \A g \in Files \ {f} : rows'[g] = rows[g]
    BY <1>0, <1>9 DEF RecordFailure, MigTypeOK
  <2>5. ~Applied(rows'[f]) \/ f \in cut
    <3>1. CASE run[s].aborted
      BY <1>9, <2>2, <3>1 DEF RecordFailure, OrderInv, RestOK
    <3>2. CASE ~run[s].aborted
      <4>1. rows[f] \in Row
        BY <1>0, <1>9 DEF RecordFailure, MigInv, MigTypeOK, RowFirst, Upcoming
      <4>2. rows'[f].rolledBack
        BY <1>0, <1>9, <3>2, <4>1 DEF RecordFailure, MigTypeOK, Row
      <4> QED BY <4>2 DEF Applied
    <3> QED BY <3>1, <3>2
  <2>6. SkippedOrUnderway'
    BY <1>9, <2>1, <2>2, <2>3, <2>4, <2>5, OthersRest DEF RecordFailure, OrderInv, SkippedOrUnderway, Applied
  <2>7. RestOK(s)'
    BY <2>1 DEF RestOK
  <2>8. AppliedInOrder'
    BY <1>9 DEF RecordFailure, OrderInv, AppliedInOrder
  <2> QED BY <2>1, <2>3, <2>6, <2>7, <2>8, OthersRest DEF OrderInv
<1>10. ASSUME NEW s \in Starts, Crash(s) PROVE OrderInv'
  <2>1. run'[s].pc = "idle" /\ \A o \in Starts \ {s} : run'[o] = run[o]
    <3>1. "idle" \in RunPc BY DEF RunPc
    <3> QED BY <1>0, <1>10, <3>1, GotoRun DEF Crash
  <2>2. Underway(s) \subseteq cut' /\ RestOK(s)'
    BY <1>10, <2>1 DEF Crash, RestOK
  <2> QED BY <1>10, <2>1, <2>2, QuietOrder DEF Crash
<1>11. CASE UNCHANGED migVars
  BY <1>11 DEF migVars, OrderInv, SkippedOrUnderway, AppliedInOrder, RestOK, Underway,
               Upcoming, Applied
<1> QED BY <1>1, <1>2, <1>3, <1>4, <1>5, <1>6, <1>7, <1>8, <1>9, <1>10, <1>11 DEF MigNext, Step

LEMMA OrderInvariant == MigSpec => []OrderInv
BY OrderInit, OrderNext, MigInvariant, PTL DEF MigSpec

\* With no run in progress, the only files that count as applied and never ran
\* are those a start ended on or of which a statement failed (SkippedWereCut).
THEOREM MigrationsSkipped == MigSpec => []SkippedWereCut
<1>1. OrderInv => SkippedWereCut
  BY DEF OrderInv, SkippedOrUnderway, SkippedWereCut, Underway
<1> QED BY <1>1, OrderInvariant, PTL

\* Files are committed in their order, but for those that were skipped
\* (AppliedInOrder).
THEOREM MigrationsInOrder == MigSpec => []AppliedInOrder
<1>1. OrderInv => AppliedInOrder BY DEF OrderInv
<1> QED BY <1>1, OrderInvariant, PTL

-----------------------------------------------------------------------------
(* The starts of the API                                                   *)

Complete(row) == row.station /\ row.key # "none" /\ row.tanks = DemoTanks

\* What the seed of a start is past is installed, unless one of its steps failed.
Past(start, row) ==
  /\ start.pc \in {"migrate", "findStation", "saveStation"} => start.tank = "diesel"
  /\ start.pc \in {"findForTank", "saveTank", "saveKey"} /\ ~start.failed =>
       /\ row.station
       /\ start.tank = "petrol" => "diesel" \in row.tanks
       /\ start.pc = "saveKey" => row.tanks = DemoTanks

SeededSoFar(s) == Past(boot[s], Rows(s))

\* Over the database, what a process remembers as seeded is there.
DatabaseSeeded ==
  durable => \A i \in Instances : seeded[i] => Complete(stores["database"])

\* A process whose starts did not overlap has one of them under way at most, and
\* none once it has a server.
OneStart ==
  \A s \in Starts : boot[s].pc # "idle" /\ home[s] \notin shared =>
    /\ app[home[s]] = Nil
    /\ \A o \in Starts : home[o] = home[s] /\ boot[o].pc # "idle" => o = s

\* Over memory stores, a server uses the store of a start of its process.
OwnStore ==
  ~durable => \A i \in Instances :
    app[i] # Nil => app[i] \in Starts /\ home[app[i]] = i

\* Over memory stores, a process that has seeded has a server that uses the
\* rows, or is about to have it.
MemorySeeded ==
  ~durable => \A i \in Instances \ shared : seeded[i] =>
    \/ app[i] # Nil /\ Complete(stores[app[i]])
    \/ \E s \in Starts : home[s] = i /\ boot[s].pc = "readiness" /\ Complete(stores[s])

\* main has no memory of its seed, as it seeds once.
ServersForget == \A i \in Servers : ~seeded[i]

SeedInv ==
  /\ \A s \in Starts : SeededSoFar(s)
  /\ DatabaseSeeded
  /\ OneStart
  /\ OwnStore
  /\ MemorySeeded
  /\ ServersForget

ColdInv == ColdTypeOK /\ MigInv /\ OrderInv /\ SeedInv /\ RevokedStaysRevoked

-----------------------------------------------------------------------------
(* The migration runner under the starts                                   *)

\* A process that ends takes the runs of all its starts with it, and leaves the
\* runner as if each of them had crashed.
LEMMA DieKeepsRunner ==
  ASSUME MigInv, OrderInv, NEW i \in Instances, Die(i)
  PROVE  MigInv' /\ OrderInv'
<1> DEFINE dead == {s \in Starts : home[s] = i}
<1> USE MigrationsAssumption
<1>1. /\ lock' = IF lock \in dead THEN Nil ELSE lock
      /\ run' = [s \in Starts |-> IF s \in dead THEN [run[s] EXCEPT !.pc = "idle"] ELSE run[s]]
      /\ cut' = cut \union UNION {Underway(s) : s \in dead}
      /\ UNCHANGED <<rows, ran, runs>>
  BY DEF Die
<1>2. dead \subseteq Starts OBVIOUS
<1>3. MigTypeOK BY DEF MigInv
<1> HIDE DEF dead
<1>4. \A s \in Starts : run[s] \in Run
  BY <1>3 DEF MigTypeOK
<1>5. \A s \in Starts : [run[s] EXCEPT !.pc = "idle"] \in Run
  BY <1>4 DEF Run, RunPc
<1>6. /\ run' \in [Starts -> Run]
      /\ \A s \in dead : run'[s].pc = "idle"
      /\ \A s \in Starts \ dead : run'[s] = run[s]
  <2>1. \A s \in dead : run'[s] = [run[s] EXCEPT !.pc = "idle"]
    BY <1>1, <1>2
  <2>2. \A s \in dead : [run[s] EXCEPT !.pc = "idle"].pc = "idle"
    BY <1>2, <1>4 DEF Run
  <2> QED BY <1>1, <1>2, <1>4, <1>5, <2>1, <2>2
<1>7. \A s \in Starts : Underway(s) \subseteq Files
  BY DEF Underway
<1>8. cut' \subseteq Files /\ cut \subseteq cut'
  BY <1>1, <1>2, <1>3, <1>7 DEF MigTypeOK
<1>9. \A s \in dead : Underway(s) \subseteq cut'
  BY <1>1
<1>10. lock' \in Starts \union {Nil}
  BY <1>1, <1>3 DEF MigTypeOK
<1>11. MigTypeOK'
  BY <1>1, <1>3, <1>6, <1>8, <1>10 DEF MigTypeOK
<1>12. \A s \in Starts : Inside(s)' => s \notin dead /\ Inside(s) /\ run'[s] = run[s]
  BY <1>6 DEF Inside
<1>13. Exclusive'
  BY <1>1, <1>12 DEF MigInv, Exclusive
<1>14. PendingIsFresh'
  BY <1>1, <1>12 DEF MigInv, PendingIsFresh, Inside, Upcoming
<1>15. RowFirst'
  BY <1>1, <1>12 DEF MigInv, RowFirst, Inside, Upcoming
<1>16. AppliedOnce' /\ CommittedIsRecorded'
  BY <1>1 DEF MigInv, AppliedOnce, CommittedIsRecorded
<1>17. \A s \in Starts \ dead : Underway(s)' = Underway(s)
  BY <1>6 DEF Underway, Upcoming
<1>18. SkippedOrUnderway'
  BY <1>1, <1>8, <1>9, <1>17 DEF OrderInv, SkippedOrUnderway
<1>19. AppliedInOrder'
  BY <1>1, <1>8 DEF OrderInv, AppliedInOrder
<1>20. ASSUME NEW s \in Starts PROVE RestOK(s)'
  <2>1. CASE s \in dead
    BY <1>6, <2>1 DEF RestOK
  <2>2. CASE s \notin dead
    BY <1>1, <1>6, <1>8, <1>17, <2>2 DEF OrderInv, RestOK, Upcoming
  <2> QED BY <2>1, <2>2
<1> QED BY <1>11, <1>13, <1>14, <1>15, <1>16, <1>18, <1>19, <1>20 DEF MigInv, OrderInv

\* A start over a memory store counts as a run, and runs nothing.
LEMMA NoRunKeepsRunner ==
  ASSUME MigInv, OrderInv, UNCHANGED <<rows, ran, lock, run, cut>>, runs' \in 0..MaxRuns
  PROVE  MigInv' /\ OrderInv'
<1>1. MigInv'
  BY DEF MigInv, MigTypeOK, Exclusive, Inside, PendingIsFresh, RowFirst, Upcoming,
         AppliedOnce, CommittedIsRecorded
<1>2. OrderInv'
  BY DEF OrderInv, SkippedOrUnderway, AppliedInOrder, RestOK, Underway, Upcoming, Applied
<1> QED BY <1>1, <1>2

\* Every step of the starts keeps the invariants of the migration runner.
LEMMA ColdKeepsRunner ==
  ASSUME MigInv, OrderInv, [ColdNext]_coldVars
  PROVE  MigInv' /\ OrderInv'
<1>1. ASSUME [MigNext]_migVars PROVE MigInv' /\ OrderInv'
  BY <1>1, MigNextInv, OrderNext
<1>2. ASSUME NEW s \in Starts, NEW catalog \in [Files -> Checksums], Begin(s, catalog)
      PROVE  MigInv' /\ OrderInv'
  <2>1. CASE Boot(s, catalog)
    BY <1>1, <2>1 DEF MigNext
  <2>2. CASE runs < MaxRuns /\ runs' = runs + 1 /\ UNCHANGED <<rows, ran, lock, run, cut>>
    <3>1. runs' \in 0..MaxRuns
      BY <2>2, MigrationsAssumption DEF MigInv, MigTypeOK
    <3> QED BY <2>2, <3>1, NoRunKeepsRunner
  <2> QED BY <1>2, <2>1, <2>2 DEF Begin
<1>3. ASSUME NEW s \in Starts, Step(s) PROVE MigInv' /\ OrderInv'
  BY <1>1, <1>3 DEF MigNext
<1>4. ASSUME NEW s \in Starts, BootStep(s) PROVE MigInv' /\ OrderInv'
  BY <1>1, <1>4 DEF BootStep, EndMigrations, FindStation, SaveStation, FindForTank, SaveTank,
                    SaveKey, Serve, KeepOthers
<1>5. CASE RevokeKey
  BY <1>1, <1>5 DEF RevokeKey
<1>6. ASSUME NEW i \in Instances, Die(i) PROVE MigInv' /\ OrderInv'
  BY <1>6, DieKeepsRunner
<1>7. CASE UNCHANGED coldVars
  BY <1>1, <1>7 DEF coldVars
<1> QED BY <1>2, <1>3, <1>4, <1>5, <1>6, <1>7 DEF ColdNext
-----------------------------------------------------------------------------
(* The seed                                                                *)

\* What a row of a store may become while somebody looks at it.
Later(old, new) ==
  /\ old.station => new.station
  /\ old.tanks \subseteq new.tanks
  /\ old.key # "none" => new.key # "none"

LEMMA LaterIsComplete ==
  ASSUME NEW old \in Store, NEW new \in Store, Later(old, new), Complete(old)
  PROVE  Complete(new)
BY DEF Later, Complete, Store

\* The other starts lose nothing of what they have installed.
LEMMA OthersSeeded ==
  ASSUME NEW o \in Starts, SeededSoFar(o), boot'[o] = boot[o],
         Rows(o) \in Store, Rows(o)' \in Store, Later(Rows(o), Rows(o)')
  PROVE  SeededSoFar(o)'
BY DEF SeededSoFar, Past, Later, Store

LEMMA RowsType ==
  ASSUME ColdTypeOK, NEW s \in Starts
  PROVE  StoreOf(s) \in StoreNames /\ Rows(s) \in Store
BY DEF ColdTypeOK, StoreOf, Rows, StoreNames

\* A step of the seed of s: the rows only grow, and the process remembers the
\* seed only if it is complete.
LEMMA SeedStep ==
  ASSUME ColdTypeOK, ColdTypeOK', SeedInv, NEW s \in Starts,
         boot[s].pc \notin {"idle", "readiness"},
         \A o \in Starts \ {s} : boot'[o] = boot[o],
         \A st \in StoreNames : Later(stores[st], stores'[st]),
         UNCHANGED <<durable, home, app, shared>>,
         SeededSoFar(s)',
         \A i \in Instances \ {home[s]} : seeded'[i] = seeded[i],
         seeded'[home[s]] => \/ seeded[home[s]]
                             \/ /\ home[s] \notin Servers
                                /\ boot'[s].pc = "readiness"
                                /\ Complete(stores'[StoreOf(s)])
  PROVE  SeedInv'
<1> USE DEF SeedInv
<1>1. \A o \in Starts : SeededSoFar(o)'
  <2> TAKE o \in Starts
  <2>1. Rows(o) \in Store /\ Rows(o)' \in Store
    BY DEF ColdTypeOK, Rows, StoreOf, StoreNames
  <2>2. Later(Rows(o), Rows(o)')
    BY DEF Rows, StoreOf, StoreNames
  <2>3. CASE o # s
    BY <2>1, <2>2, <2>3, OthersSeeded
  <2> QED BY <2>3
<1>2. \A st \in StoreNames : Complete(stores[st]) => Complete(stores'[st])
  BY LaterIsComplete DEF ColdTypeOK
<1>3. DatabaseSeeded'
  <2> SUFFICES ASSUME durable', NEW i \in Instances, seeded'[i]
               PROVE  Complete(stores'["database"])
    BY DEF DatabaseSeeded
  <2>1. CASE seeded[i]
    BY <1>2, <2>1 DEF DatabaseSeeded, StoreNames
  <2>2. CASE ~seeded[i]
    BY <2>2 DEF StoreOf
  <2> QED BY <2>1, <2>2
<1>4. OneStart'
  BY DEF OneStart
<1>5. OwnStore'
  BY DEF OwnStore
<1>6. MemorySeeded'
  <2> SUFFICES ASSUME ~durable, NEW i \in Instances \ shared, seeded'[i]
               PROVE  \/ app[i] # Nil /\ Complete(stores'[app[i]])
                      \/ \E t \in Starts : home[t] = i /\ boot'[t].pc = "readiness"
                                           /\ Complete(stores'[t])
    BY DEF MemorySeeded
  <2>1. CASE seeded[i] /\ app[i] # Nil /\ Complete(stores[app[i]])
    BY <1>2, <2>1 DEF OwnStore, StoreNames
  <2>2. ASSUME NEW t \in Starts, home[t] = i, boot[t].pc = "readiness", Complete(stores[t])
        PROVE  \E o \in Starts : home[o] = i /\ boot'[o].pc = "readiness" /\ Complete(stores'[o])
    <3>1. t # s BY <2>2
    <3> QED BY <1>2, <2>2, <3>1 DEF StoreNames
  <2>3. CASE ~seeded[i]
    BY <2>3 DEF StoreOf
  <2> QED BY <2>1, <2>2, <2>3 DEF MemorySeeded
<1>7. ServersForget'
  BY ColdStartAssumption DEF ServersForget
<1> QED BY <1>1, <1>3, <1>4, <1>5, <1>6, <1>7
\* The same, of a step that takes s to next and its rows to row.
LEMMA SeedTurn ==
  ASSUME ColdTypeOK, SeedInv, RevokedStaysRevoked, MigTypeOK', NEW s \in Starts,
         boot[s].pc \notin {"idle", "readiness"},
         NEW next \in Start, Turn(s, next), NEW row \in Store, Wrote(s, row),
         Past(next, row), Later(Rows(s), row),
         Rows(s).key = "revoked" => row.key = "revoked",
         UNCHANGED <<durable, home, app, revoked, shared>>,
         NEW b \in BOOLEAN, seeded' = [seeded EXCEPT ![home[s]] = b],
         b => \/ seeded[home[s]]
              \/ home[s] \notin Servers /\ next.pc = "readiness" /\ Complete(row)
  PROVE  ColdTypeOK' /\ SeedInv' /\ RevokedStaysRevoked'
<1>1. /\ boot' \in [Starts -> Start] /\ boot'[s] = next
      /\ \A o \in Starts \ {s} : boot'[o] = boot[o]
  BY DEF ColdTypeOK, Turn
<1>2. /\ stores' \in [StoreNames -> Store] /\ stores'[StoreOf(s)] = row
      /\ \A st \in StoreNames \ {StoreOf(s)} : stores'[st] = stores[st]
  BY RowsType DEF ColdTypeOK, Wrote
<1>3. /\ seeded' \in [Instances -> BOOLEAN] /\ seeded'[home[s]] = b
      /\ \A i \in Instances \ {home[s]} : seeded'[i] = seeded[i]
  BY DEF ColdTypeOK
<1>4. ColdTypeOK'
  BY <1>1, <1>2, <1>3 DEF ColdTypeOK
<1>5. \A st \in StoreNames : Later(stores[st], stores'[st])
  BY <1>2 DEF Later, Rows
<1>6. SeededSoFar(s)'
  BY <1>1, <1>2 DEF SeededSoFar, Rows, StoreOf
<1>7. SeedInv'
  BY <1>1, <1>2, <1>3, <1>4, <1>5, <1>6, SeedStep
<1>8. RevokedStaysRevoked'
  BY <1>2 DEF RevokedStaysRevoked, Rows, StoreNames
<1> QED BY <1>4, <1>7, <1>8

\* A step that leaves the rows, or the memory of the process, is one as well.
LEMMA NoWrite ==
  ASSUME ColdTypeOK, NEW s \in Starts
  PROVE  /\ UNCHANGED stores => Wrote(s, Rows(s))
         /\ UNCHANGED seeded => seeded' = [seeded EXCEPT ![home[s]] = seeded[home[s]]]
         /\ seeded[home[s]] \in BOOLEAN /\ Rows(s) \in Store /\ Later(Rows(s), Rows(s))
<1>1. stores = [stores EXCEPT ![StoreOf(s)] = stores[StoreOf(s)]]
  BY DEF ColdTypeOK
<1>2. seeded = [seeded EXCEPT ![home[s]] = seeded[home[s]]]
  BY DEF ColdTypeOK
<1>3. seeded[home[s]] \in BOOLEAN
  BY DEF ColdTypeOK
<1> QED BY <1>1, <1>2, <1>3, RowsType DEF Wrote, Rows, Later

\* Where a start goes next.
LEMMA UponIs ==
  ASSUME ColdTypeOK, NEW s \in Starts, NEW pc \in BootPc
  PROVE  /\ Upon(s, pc) \in Start
         /\ Upon(s, pc).pc = pc
         /\ Upon(s, pc).tank = boot[s].tank /\ Upon(s, pc).failed = boot[s].failed
<1>1. boot[s] \in Start BY DEF ColdTypeOK
<1> QED BY <1>1 DEF Upon, Start

LEMMA AfterTankIs ==
  ASSUME ColdTypeOK, NEW s \in Starts
  PROVE  /\ AfterTank(s) \in Start /\ AfterTank(s).failed = boot[s].failed
         /\ AfterTank(s).tank = "petrol"
         /\ AfterTank(s).pc = IF boot[s].tank = "diesel" THEN "findForTank" ELSE "saveKey"
<1>1. "findForTank" \in BootPc /\ "saveKey" \in BootPc
  BY DEF BootPc
<1>2. boot[s].tank \in {"diesel", "petrol"}
  BY DEF ColdTypeOK, Start, DemoTanks
<1>3. CASE boot[s].tank = "diesel"
  <2>1. Upon(s, "findForTank") \in Start BY <1>1, UponIs
  <2> QED BY <1>1, <1>3, <2>1, UponIs DEF AfterTank, Start, DemoTanks
<1>4. CASE boot[s].tank = "petrol"
  BY <1>1, <1>4, UponIs DEF AfterTank
<1> QED BY <1>2, <1>3, <1>4

LEMMA RestingIs == Resting \in Start /\ Resting.pc = "idle"
BY DEF Resting, Start, BootPc, DemoTanks

\* A step that failed ends main; the function goes on, and remembers it.
LEMMA AfterFailureIs ==
  ASSUME NEW s \in Starts, NEW next \in Start
  PROVE  /\ AfterFailure(s, next) \in Start
         /\ AfterFailure(s, next).pc \in {"idle", next.pc}
         /\ AfterFailure(s, next).pc = "idle" \/ AfterFailure(s, next).failed
         /\ Function(s) => AfterFailure(s, next).failed
<1>1. CASE Function(s)
  BY <1>1 DEF AfterFailure, Start
<1>2. CASE ~Function(s)
  BY <1>2, RestingIs DEF AfterFailure
<1> QED BY <1>1, <1>2
\* A step of the seed after which the process remembers what it did before.
LEMMA QuietTurn ==
  ASSUME ColdTypeOK, SeedInv, RevokedStaysRevoked, MigTypeOK', NEW s \in Starts,
         boot[s].pc \notin {"idle", "readiness"},
         NEW next \in Start, Turn(s, next), NEW row \in Store, Wrote(s, row),
         Past(next, row), Later(Rows(s), row), Rows(s).key = row.key,
         UNCHANGED <<durable, home, app, revoked, shared, seeded>>
  PROVE  ColdTypeOK' /\ SeedInv' /\ RevokedStaysRevoked'
<1>1. seeded[home[s]] \in BOOLEAN /\ seeded' = [seeded EXCEPT ![home[s]] = seeded[home[s]]]
  BY NoWrite
<1> QED BY <1>1, SeedTurn

\* The steps of a start until its key is saved.
LEMMA SeedingStep ==
  ASSUME ColdTypeOK, SeedInv, RevokedStaysRevoked, MigTypeOK', NEW s \in Starts,
         EndMigrations(s) \/ FindStation(s) \/ SaveStation(s) \/ FindForTank(s) \/ SaveTank(s)
  PROVE  ColdTypeOK' /\ SeedInv' /\ RevokedStaysRevoked'
<1>0. SeededSoFar(s) BY DEF SeedInv
<1>1. /\ Rows(s) \in Store /\ Later(Rows(s), Rows(s))
      /\ UNCHANGED stores => Wrote(s, Rows(s))
  BY NoWrite
<1>2. boot[s] \in Start BY DEF ColdTypeOK
<1>3. ASSUME NEW next \in Start, Turn(s, next), Past(next, Rows(s)), UNCHANGED stores,
             boot[s].pc \notin {"idle", "readiness"},
             UNCHANGED <<durable, home, app, revoked, shared, seeded>>
      PROVE  ColdTypeOK' /\ SeedInv' /\ RevokedStaysRevoked'
  BY <1>1, <1>3, QuietTurn
<1>4. CASE EndMigrations(s)
  <2>1. AfterMigrations(s) \in BootPc /\ AfterMigrations(s) \in {"readiness", "findStation"}
    BY DEF AfterMigrations, BootPc
  <2>2. boot[s].pc = "migrate" /\ boot[s].tank = "diesel"
    BY <1>0, <1>4 DEF EndMigrations, AtBoot, SeededSoFar, Past
  <2> DEFINE next == Upon(s, AfterMigrations(s))
  <2>3. next \in Start /\ Past(next, Rows(s))
    BY <2>1, <2>2, UponIs DEF Past
  <2> HIDE DEF next
  <2> QED BY <1>3, <1>4, <2>2, <2>3 DEF EndMigrations, next
<1>5. CASE FindStation(s)
  <2>1. "findForTank" \in BootPc /\ "saveStation" \in BootPc BY DEF BootPc
  <2>2. boot[s].pc = "findStation" /\ boot[s].tank = "diesel"
    BY <1>0, <1>5 DEF FindStation, AtBoot, SeededSoFar, Past
  <2> DEFINE on == Upon(s, "findForTank")
  <2> DEFINE save == Upon(s, "saveStation")
  <2>3. on \in Start /\ on.pc = "findForTank" /\ on.tank = "diesel"
    BY <2>1, <2>2, UponIs
  <2>4. save \in Start /\ Past(save, Rows(s))
    BY <2>1, <2>2, UponIs DEF Past
  <2>5. AfterFailure(s, on) \in Start /\ Past(AfterFailure(s, on), Rows(s))
    BY <2>3, AfterFailureIs DEF Past
  <2>6. Rows(s).station => AfterConflict(s, on) \in Start /\ Past(AfterConflict(s, on), Rows(s))
    BY <2>3, RestingIs DEF AfterConflict, Past
  <2> HIDE DEF on, save
  <2>7. \/ Turn(s, AfterFailure(s, on))
        \/ Rows(s).station /\ Turn(s, AfterConflict(s, on))
        \/ Turn(s, save)
    BY <1>5 DEF FindStation, on, save
  <2> QED BY <1>3, <1>5, <2>2, <2>4, <2>5, <2>6, <2>7 DEF FindStation, KeepOthers
<1>6. CASE SaveStation(s)
  <2>1. "findForTank" \in BootPc BY DEF BootPc
  <2>2. boot[s].pc = "saveStation" /\ boot[s].tank = "diesel"
    BY <1>0, <1>6 DEF SaveStation, AtBoot, SeededSoFar, Past
  <2> DEFINE on == Upon(s, "findForTank")
  <2> DEFINE row == [Rows(s) EXCEPT !.station = TRUE]
  <2>3. on \in Start /\ on.pc = "findForTank" /\ on.tank = "diesel"
    BY <2>1, <2>2, UponIs
  <2>4. AfterFailure(s, on) \in Start /\ Past(AfterFailure(s, on), Rows(s))
    BY <2>3, AfterFailureIs DEF Past
  <2>5. row \in Store /\ Later(Rows(s), row) /\ row.key = Rows(s).key /\ Past(on, row)
    BY <1>1, <2>3 DEF Store, Later, Past
  <2> HIDE DEF on, row
  <2>6. \/ Turn(s, AfterFailure(s, on)) /\ UNCHANGED stores
        \/ Turn(s, on) /\ Wrote(s, row)
    BY <1>6 DEF SaveStation, on, row
  <2>7. /\ boot[s].pc \notin {"idle", "readiness"}
        /\ UNCHANGED <<durable, home, app, revoked, shared, seeded>>
    BY <1>6, <2>2 DEF SaveStation, KeepOthers
  <2>8. CASE Turn(s, AfterFailure(s, on)) /\ UNCHANGED stores
    BY <1>3, <2>4, <2>7, <2>8
  <2>9. CASE Turn(s, on) /\ Wrote(s, row)
    BY <2>3, <2>5, <2>7, <2>9, QuietTurn
  <2> QED BY <2>6, <2>8, <2>9
<1>7. CASE FindForTank(s)
  <2>1. "saveTank" \in BootPc BY DEF BootPc
  <2>2. boot[s].pc = "findForTank"
    BY <1>7 DEF FindForTank, AtBoot
  <2> DEFINE save == Upon(s, "saveTank")
  <2>3. save \in Start /\ Past(save, Rows(s))
    BY <1>0, <2>1, <2>2, UponIs DEF SeededSoFar, Past
  <2>4. AfterFailure(s, AfterTank(s)) \in Start /\ Past(AfterFailure(s, AfterTank(s)), Rows(s))
    BY AfterTankIs, AfterFailureIs DEF Past
  <2> HIDE DEF save
  <2>5. Turn(s, AfterFailure(s, AfterTank(s))) \/ Turn(s, save)
    BY <1>7 DEF FindForTank, save
  <2> QED BY <1>3, <1>7, <2>2, <2>3, <2>4, <2>5 DEF FindForTank, KeepOthers
<1>8. CASE SaveTank(s)
  <2>2. boot[s].pc = "saveTank"
    BY <1>8 DEF SaveTank, AtBoot
  <2> DEFINE row == [Rows(s) EXCEPT !.tanks = @ \union {boot[s].tank}]
  <2>4. AfterFailure(s, AfterTank(s)) \in Start /\ Past(AfterFailure(s, AfterTank(s)), Rows(s))
    BY AfterTankIs, AfterFailureIs DEF Past
  <2>5. /\ row \in Store /\ Later(Rows(s), row) /\ row.key = Rows(s).key
        /\ row.station = Rows(s).station /\ row.tanks = Rows(s).tanks \union {boot[s].tank}
    BY <1>1, <1>2 DEF Store, Start, Later
  <2> HIDE DEF row
  <2>6. Past(AfterTank(s), row)
    <3>1. CASE boot[s].failed
      BY <3>1, AfterTankIs DEF Past
    <3>2. CASE ~boot[s].failed /\ boot[s].tank = "diesel"
      BY <1>0, <2>2, <2>5, <3>2, AfterTankIs DEF SeededSoFar, Past
    <3>3. CASE ~boot[s].failed /\ boot[s].tank = "petrol"
      BY <1>0, <2>2, <2>5, <3>3, AfterTankIs DEF SeededSoFar, Past, Store, DemoTanks
    <3> QED BY <1>2, <3>1, <3>2, <3>3 DEF Start, DemoTanks
  <2>7. /\ boot[s].pc \notin {"idle", "readiness"}
        /\ UNCHANGED <<durable, home, app, revoked, shared, seeded>>
    BY <1>8, <2>2 DEF SaveTank, KeepOthers
  <2>8. CASE Turn(s, AfterFailure(s, AfterTank(s))) /\ UNCHANGED stores
    BY <1>3, <2>4, <2>7, <2>8
  <2>9. CASE Turn(s, AfterTank(s)) /\ Wrote(s, row)
    BY <2>5, <2>6, <2>7, <2>9, AfterTankIs, QuietTurn
  <2>10. \/ Turn(s, AfterFailure(s, AfterTank(s))) /\ UNCHANGED stores
         \/ Turn(s, AfterTank(s)) /\ Wrote(s, row)
    BY <1>8 DEF SaveTank, row
  <2> QED BY <2>8, <2>9, <2>10
<1> QED BY <1>4, <1>5, <1>6, <1>7, <1>8
\* The key is the last of the seed: a process that remembers it then has all.
LEMMA KeyStep ==
  ASSUME ColdTypeOK, SeedInv, RevokedStaysRevoked, MigTypeOK', NEW s \in Starts, SaveKey(s)
  PROVE  ColdTypeOK' /\ SeedInv' /\ RevokedStaysRevoked'
<1>0. SeededSoFar(s) BY DEF SeedInv
<1>1. /\ Rows(s) \in Store /\ Later(Rows(s), Rows(s))
      /\ UNCHANGED stores => Wrote(s, Rows(s))
      /\ UNCHANGED seeded => seeded' = [seeded EXCEPT ![home[s]] = seeded[home[s]]]
      /\ seeded[home[s]] \in BOOLEAN
  BY NoWrite
<1>2. boot[s].pc = "saveKey" /\ boot[s].failed \in BOOLEAN
  BY DEF SaveKey, AtBoot, ColdTypeOK, Start
<1>3. "readiness" \in BootPc BY DEF BootPc
<1> DEFINE on == Upon(s, "readiness")
<1> DEFINE new == [Rows(s) EXCEPT !.key = "active"]
<1>4. on \in Start /\ on.pc = "readiness" /\ on.failed = boot[s].failed
  BY <1>3, UponIs
<1>5. ~boot[s].failed => Rows(s).station /\ Rows(s).tanks = DemoTanks
  BY <1>0, <1>2 DEF SeededSoFar, Past
<1>6. /\ new \in Store /\ new.key = "active" /\ Later(Rows(s), new)
      /\ ~boot[s].failed => Complete(new)
  BY <1>1, <1>5 DEF Store, Later, Complete
<1> HIDE DEF on, new
<1>7. \/ Turn(s, AfterFailure(s, on)) /\ UNCHANGED stores
      \/ Rows(s).key # "none" /\ Turn(s, AfterConflict(s, on)) /\ UNCHANGED stores
      \/ Rows(s).key = "none" /\ Turn(s, on) /\ Wrote(s, new)
  BY DEF SaveKey, on, new
<1>8. PICK next \in Start, row \in Store :
        /\ Turn(s, next) /\ Wrote(s, row) /\ Later(Rows(s), row) /\ Past(next, row)
        /\ Rows(s).key = "revoked" => row.key = "revoked"
        /\ Function(s) /\ ~next.failed => next.pc = "readiness" /\ Complete(row)
  <2>1. CASE Turn(s, AfterFailure(s, on)) /\ UNCHANGED stores
    <3> DEFINE next == AfterFailure(s, on)
    <3>1. next \in Start /\ next.pc \in {"idle", "readiness"} /\ (Function(s) => next.failed)
      BY <1>4, AfterFailureIs
    <3> HIDE DEF next
    <3>2. Past(next, Rows(s)) BY <3>1 DEF Past
    <3>3. Turn(s, next) BY <2>1 DEF next
    <3> QED BY <1>1, <2>1, <3>1, <3>2, <3>3
  <2>2. CASE Rows(s).key # "none" /\ Turn(s, AfterConflict(s, on)) /\ UNCHANGED stores
    <3> DEFINE next == AfterConflict(s, on)
    <3>1. /\ next \in Start /\ next.pc \in {"idle", "readiness"}
          /\ Function(s) => next = on
      BY <1>4, RestingIs DEF AfterConflict
    <3> HIDE DEF next
    <3>2. Past(next, Rows(s)) BY <3>1 DEF Past
    <3>3. Turn(s, next) BY <2>2 DEF next
    <3>4. Function(s) /\ ~next.failed => next.pc = "readiness" /\ Complete(Rows(s))
      BY <1>4, <1>5, <2>2, <3>1 DEF Complete
    <3> QED BY <1>1, <2>2, <3>1, <3>2, <3>3, <3>4
  <2>3. CASE Rows(s).key = "none" /\ Turn(s, on) /\ Wrote(s, new)
    <3>1. Past(on, new) BY <1>4 DEF Past
    <3> QED BY <1>4, <1>6, <2>3, <3>1
  <2> QED BY <1>7, <2>1, <2>2, <2>3
<1>9. boot'[s] = next
  BY <1>8 DEF Turn, ColdTypeOK
<1>10. UNCHANGED <<durable, home, app, revoked, shared>> /\ Remember(s)
  BY DEF SaveKey, KeepOthers
<1>11. CASE Function(s)
  <2> DEFINE b == ~next.failed
  <2>1. b \in BOOLEAN BY DEF Start
  <2>2. seeded' = [seeded EXCEPT ![home[s]] = b]
    BY <1>9, <1>10, <1>11 DEF Remember
  <2>3. b => home[s] \notin Servers /\ next.pc = "readiness" /\ Complete(row)
    BY <1>8, <1>11 DEF Function
  <2> HIDE DEF b
  <2> QED BY <1>2, <1>8, <1>10, <2>1, <2>2, <2>3, SeedTurn
<1>12. CASE ~Function(s)
  <2>1. seeded' = [seeded EXCEPT ![home[s]] = seeded[home[s]]]
    BY <1>1, <1>10, <1>12 DEF Remember
  <2> QED BY <1>1, <1>2, <1>8, <1>10, <2>1, SeedTurn
<1> QED BY <1>11, <1>12

\* The server that is built uses the store of its start.
LEMMA ServeStep ==
  ASSUME ColdTypeOK, SeedInv, RevokedStaysRevoked, MigTypeOK', NEW s \in Starts, Serve(s)
  PROVE  ColdTypeOK' /\ SeedInv' /\ RevokedStaysRevoked'
<1> USE DEF SeedInv
<1>1. /\ boot' \in [Starts -> Start] /\ boot'[s].pc = "idle" /\ boot[s].pc = "readiness"
      /\ \A o \in Starts \ {s} : boot'[o] = boot[o]
  BY RestingIs DEF Serve, Turn, AtBoot, ColdTypeOK
<1>2. UNCHANGED <<durable, home, stores, seeded, revoked, shared>>
  BY DEF Serve
<1>3. home[s] \in Instances /\ StoreOf(s) \in StoreNames
  BY RowsType DEF ColdTypeOK
<1>4. /\ app' \in [Instances -> StoreNames \union {Nil}]
      /\ \A i \in Instances \ {home[s]} : app'[i] = app[i]
      /\ app'[home[s]] = StoreOf(s) \/ (home[s] \in Servers /\ app'[home[s]] = app[home[s]])
  BY <1>3 DEF Serve, ColdTypeOK, Function
<1>5. ColdTypeOK'
  BY <1>1, <1>2, <1>4 DEF ColdTypeOK
<1>6. \A o \in Starts : SeededSoFar(o)'
  BY <1>1, <1>2 DEF SeededSoFar, Past, Rows, StoreOf
<1>7. DatabaseSeeded'
  BY <1>2 DEF DatabaseSeeded
<1>8. OneStart'
  BY <1>1, <1>2, <1>4 DEF OneStart, ColdTypeOK
<1>9. OwnStore'
  BY <1>2, <1>4 DEF OwnStore, StoreOf
<1>10. MemorySeeded'
  <2> SUFFICES ASSUME ~durable, NEW i \in Instances \ shared, seeded[i]
               PROVE  \/ app'[i] # Nil /\ Complete(stores[app'[i]])
                      \/ \E t \in Starts : home[t] = i /\ boot'[t].pc = "readiness"
                                           /\ Complete(stores[t])
    BY <1>2 DEF MemorySeeded
  <2>1. CASE i = home[s]
    <3>1. app[i] = Nil /\ i \notin Servers
      BY <1>1, <2>1 DEF OneStart, ServersForget
    <3>2. PICK t \in Starts : home[t] = i /\ boot[t].pc = "readiness" /\ Complete(stores[t])
      BY <3>1 DEF MemorySeeded
    <3>3. t = s
      BY <1>1, <2>1, <3>2 DEF OneStart
    <3>4. app'[i] = s
      BY <1>4, <2>1, <3>1 DEF StoreOf
    <3> QED BY <3>2, <3>3, <3>4, ColdStartAssumption
  <2>2. CASE i # home[s]
    BY <1>1, <1>4, <2>2 DEF MemorySeeded
  <2> QED BY <2>1, <2>2
<1>11. ServersForget'
  BY <1>2 DEF ServersForget
<1>12. RevokedStaysRevoked'
  BY <1>2 DEF RevokedStaysRevoked
<1> QED BY <1>5, <1>6, <1>7, <1>8, <1>9, <1>10, <1>11, <1>12
\* A start begins with nothing done, over a memory store with nothing in it.
LEMMA BeginStep ==
  ASSUME ColdTypeOK, SeedInv, RevokedStaysRevoked, MigTypeOK', NEW s \in Starts,
         NEW catalog \in [Files -> Checksums], Begin(s, catalog)
  PROVE  ColdTypeOK' /\ SeedInv' /\ RevokedStaysRevoked'
<1> USE DEF SeedInv
<1>1. UNCHANGED <<durable, home, app, seeded, revoked>>
  BY DEF Begin
<1>2. home[s] \in Instances /\ app[home[s]] = Nil /\ boot[s].pc = "idle"
  BY DEF Begin, AtBoot, ColdTypeOK
<1>3. PICK pc \in {"migrate", "readiness", "findStation"} :
        boot' = [boot EXCEPT ![s] = [Resting EXCEPT !.pc = pc]]
  BY DEF Begin, AfterMigrations
<1> DEFINE next == [Resting EXCEPT !.pc = pc]
<1>4. next \in Start /\ next.pc = pc /\ next.tank = "diesel" /\ next.failed = FALSE
  BY DEF Resting, Start, BootPc, DemoTanks
<1> HIDE DEF next
<1>5. /\ boot' \in [Starts -> Start] /\ boot'[s] = next
      /\ \A o \in Starts \ {s} : boot'[o] = boot[o]
  BY <1>3, <1>4 DEF next, ColdTypeOK
<1>6. Empty \in Store
  BY DEF Empty, Store
<1>7. /\ stores' \in [StoreNames -> Store]
      /\ durable => stores' = stores
      /\ \A st \in StoreNames \ {s} : stores'[st] = stores[st]
  BY <1>6 DEF Begin, ColdTypeOK
<1>8. /\ shared' \subseteq Instances
      /\ shared' = IF StartsOf(home[s]) = {} THEN shared ELSE shared \union {home[s]}
  BY <1>2 DEF Begin, ColdTypeOK
<1>9. ColdTypeOK'
  BY <1>1, <1>5, <1>7, <1>8 DEF ColdTypeOK
<1>10. \A o \in Starts : SeededSoFar(o)'
  <2> TAKE o \in Starts
  <2>1. CASE o = s
    BY <1>4, <1>5, <2>1 DEF SeededSoFar, Past
  <2>2. CASE o # s
    BY <1>1, <1>5, <1>7, <2>2 DEF SeededSoFar, Past, Rows, StoreOf, StoreNames
  <2> QED BY <2>1, <2>2
<1>11. DatabaseSeeded'
  BY <1>1, <1>7 DEF DatabaseSeeded
<1>12. home[s] \notin shared' => \A o \in Starts : home[o] = home[s] => boot[o].pc = "idle"
  BY <1>8 DEF StartsOf
<1>13. OneStart'
  BY <1>1, <1>2, <1>5, <1>8, <1>12 DEF OneStart
<1>14. OwnStore'
  BY <1>1 DEF OwnStore
<1>15. MemorySeeded'
  <2> SUFFICES ASSUME ~durable, NEW i \in Instances \ shared', seeded[i]
               PROVE  \/ app[i] # Nil /\ Complete(stores'[app[i]])
                      \/ \E t \in Starts : home[t] = i /\ boot'[t].pc = "readiness"
                                           /\ Complete(stores'[t])
    BY <1>1 DEF MemorySeeded
  <2>1. i \notin shared BY <1>8
  <2>2. i # home[s]
    BY <1>2, <1>12, <2>1 DEF MemorySeeded
  <2>3. CASE app[i] # Nil /\ Complete(stores[app[i]])
    BY <1>7, <2>2, <2>3 DEF OwnStore, StoreNames
  <2>4. ASSUME NEW t \in Starts, home[t] = i, boot[t].pc = "readiness", Complete(stores[t])
        PROVE  \E o \in Starts : home[o] = i /\ boot'[o].pc = "readiness" /\ Complete(stores'[o])
    BY <1>5, <1>7, <2>2, <2>4 DEF StoreNames
  <2> QED BY <2>1, <2>3, <2>4 DEF MemorySeeded
<1>16. ServersForget'
  BY <1>1 DEF ServersForget
<1>17. RevokedStaysRevoked'
  BY <1>1, <1>7, ColdStartAssumption DEF RevokedStaysRevoked, StoreNames
<1> QED BY <1>9, <1>10, <1>11, <1>13, <1>14, <1>15, <1>16, <1>17

\* A revocation leaves the row of the key where it is.
LEMMA RevokeStep ==
  ASSUME ColdTypeOK, SeedInv, RevokedStaysRevoked, MigTypeOK', RevokeKey
  PROVE  ColdTypeOK' /\ SeedInv' /\ RevokedStaysRevoked'
<1> USE DEF SeedInv
<1>1. UNCHANGED <<durable, home, boot, app, seeded, shared>> /\ revoked' = TRUE /\ durable
  BY DEF RevokeKey
<1> DEFINE new == [stores["database"] EXCEPT !.key = "revoked"]
<1>2. stores["database"] \in Store
  BY DEF ColdTypeOK, StoreNames
<1>3. /\ new \in Store /\ new.key = "revoked" /\ new.station = stores["database"].station
      /\ new.tanks = stores["database"].tanks
  BY <1>2 DEF Store
<1>4. stores' = [stores EXCEPT !["database"] = new]
  BY DEF RevokeKey
<1> HIDE DEF new
<1>5. /\ stores' \in [StoreNames -> Store] /\ stores'["database"] = new
      /\ \A st \in StoreNames \ {"database"} : stores'[st] = stores[st]
  BY <1>3, <1>4 DEF ColdTypeOK, StoreNames
<1>6. ColdTypeOK'
  BY <1>1, <1>5 DEF ColdTypeOK
<1>7. \A o \in Starts : SeededSoFar(o)'
  BY <1>1, <1>3, <1>5 DEF SeededSoFar, Past, Rows, StoreOf
<1>8. DatabaseSeeded'
  BY <1>1, <1>3, <1>5 DEF DatabaseSeeded, Complete
<1>9. OneStart' /\ OwnStore' /\ MemorySeeded' /\ ServersForget'
  BY <1>1 DEF OneStart, OwnStore, MemorySeeded, ServersForget
<1>10. RevokedStaysRevoked'
  BY <1>3, <1>5 DEF RevokedStaysRevoked
<1> QED BY <1>6, <1>7, <1>8, <1>9, <1>10

\* A process that ends forgets its seed with its starts and its memory stores.
LEMMA DieStep ==
  ASSUME ColdTypeOK, SeedInv, RevokedStaysRevoked, MigTypeOK', NEW i \in Instances, Die(i)
  PROVE  ColdTypeOK' /\ SeedInv' /\ RevokedStaysRevoked'
<1> USE DEF SeedInv
<1> DEFINE dead == {s \in Starts : home[s] = i}
<1>1. UNCHANGED <<durable, home, revoked>>
  BY DEF Die
<1>2. /\ boot' = [s \in Starts |-> IF s \in dead THEN Resting ELSE boot[s]]
      /\ stores' = [st \in StoreNames |-> IF st \in dead THEN Empty ELSE stores[st]]
      /\ app' = [app EXCEPT ![i] = Nil]
      /\ seeded' = [seeded EXCEPT ![i] = FALSE]
      /\ shared' = shared \ {i}
  BY DEF Die
<1>3. dead \subseteq Starts /\ \A s \in Starts : s \in dead <=> home[s] = i
  OBVIOUS
<1> HIDE DEF dead
<1>4. /\ boot' \in [Starts -> Start]
      /\ \A s \in Starts : IF s \in dead THEN boot'[s].pc = "idle" ELSE boot'[s] = boot[s]
  BY <1>2, RestingIs DEF ColdTypeOK
<1>5. /\ stores' \in [StoreNames -> Store]
      /\ \A st \in StoreNames \ dead : stores'[st] = stores[st]
      /\ stores'["database"] = stores["database"]
  <2>1. Empty \in Store BY DEF Empty, Store
  <2>2. "database" \in StoreNames \ dead
    BY <1>3, ColdStartAssumption DEF StoreNames
  <2> QED BY <1>2, <2>1, <2>2 DEF ColdTypeOK
<1>6. /\ app' \in [Instances -> StoreNames \union {Nil}] /\ app'[i] = Nil
      /\ \A j \in Instances \ {i} : app'[j] = app[j]
  BY <1>2 DEF ColdTypeOK
<1>7. /\ seeded' \in [Instances -> BOOLEAN] /\ seeded'[i] = FALSE
      /\ \A j \in Instances \ {i} : seeded'[j] = seeded[j]
  BY <1>2 DEF ColdTypeOK
<1>8. ColdTypeOK'
  BY <1>1, <1>2, <1>4, <1>5, <1>6, <1>7 DEF ColdTypeOK
<1>9. \A s \in Starts : SeededSoFar(s)'
  <2> TAKE s \in Starts
  <2>1. CASE s \in dead
    BY <1>4, <2>1 DEF SeededSoFar, Past
  <2>2. CASE s \notin dead
    BY <1>1, <1>4, <1>5, <2>2 DEF SeededSoFar, Past, Rows, StoreOf, StoreNames
  <2> QED BY <2>1, <2>2
<1>10. DatabaseSeeded'
  BY <1>1, <1>5, <1>7 DEF DatabaseSeeded
<1>11. OneStart'
  BY <1>1, <1>2, <1>3, <1>4, <1>6 DEF OneStart, ColdTypeOK
<1>12. OwnStore'
  BY <1>1, <1>6 DEF OwnStore
<1>13. MemorySeeded'
  <2> SUFFICES ASSUME ~durable, NEW j \in Instances \ shared', seeded'[j]
               PROVE  \/ app'[j] # Nil /\ Complete(stores'[app'[j]])
                      \/ \E t \in Starts : home[t] = j /\ boot'[t].pc = "readiness"
                                           /\ Complete(stores'[t])
    BY <1>1 DEF MemorySeeded
  <2>1. j # i /\ j \notin shared
    BY <1>2, <1>7
  <2>2. CASE app[j] # Nil /\ Complete(stores[app[j]])
    <3>1. app'[j] = app[j]
      BY <1>6, <2>1
    <3>2. app[j] \in Starts \ dead
      BY <1>3, <2>1, <2>2 DEF OwnStore
    <3>3. stores'[app[j]] = stores[app[j]]
      BY <1>5, <3>2 DEF StoreNames
    <3> QED BY <2>2, <3>1, <3>3
  <2>3. ASSUME NEW t \in Starts, home[t] = j, boot[t].pc = "readiness", Complete(stores[t])
        PROVE  \E o \in Starts : home[o] = j /\ boot'[o].pc = "readiness" /\ Complete(stores'[o])
    BY <1>3, <1>4, <1>5, <2>1, <2>3 DEF StoreNames
  <2>4. seeded[j]
    BY <1>7, <2>1
  <2>5. ~durable /\ j \in Instances \ shared
    BY <2>1
  <2>6. \/ app[j] # Nil /\ Complete(stores[app[j]])
        \/ \E t \in Starts : home[t] = j /\ boot[t].pc = "readiness" /\ Complete(stores[t])
    BY <2>4, <2>5 DEF MemorySeeded
  <2> QED BY <2>2, <2>3, <2>6
<1>14. ServersForget'
  BY <1>7, ColdStartAssumption DEF ServersForget
<1>15. RevokedStaysRevoked'
  BY <1>1, <1>5 DEF RevokedStaysRevoked
<1> QED BY <1>8, <1>9, <1>10, <1>11, <1>12, <1>13, <1>14, <1>15

-----------------------------------------------------------------------------
(* The theorems                                                            *)

LEMMA ColdInitInv == ColdInit => ColdInv
<1> SUFFICES ASSUME ColdInit PROVE ColdInv OBVIOUS
<1>1. MigInv /\ OrderInv
  BY MigInitInv, OrderInit DEF ColdInit
<1>2. Empty \in Store
  BY DEF Empty, Store
<1>3. ColdTypeOK
  BY <1>1, <1>2, RestingIs DEF MigInv, ColdInit, ColdTypeOK
<1>4. \A s \in Starts : boot[s].pc = "idle"
  BY RestingIs DEF ColdInit
<1>5. \A s \in Starts : SeededSoFar(s)
  BY <1>4 DEF SeededSoFar, Past
<1>6. SeedInv
  BY <1>4, <1>5, ColdStartAssumption
     DEF ColdInit, SeedInv, DatabaseSeeded, OneStart, OwnStore, MemorySeeded, ServersForget
<1> QED BY <1>1, <1>3, <1>6 DEF ColdInit, ColdInv, RevokedStaysRevoked

LEMMA ColdNextInv == ColdInv /\ [ColdNext]_coldVars => ColdInv'
<1> SUFFICES ASSUME ColdInv, [ColdNext]_coldVars PROVE ColdInv' OBVIOUS
<1> USE DEF ColdInv
<1>1. MigInv' /\ OrderInv'
  BY ColdKeepsRunner
<1>2. MigTypeOK'
  BY <1>1 DEF MigInv
<1>3. ASSUME UNCHANGED coldOnly
      PROVE  ColdTypeOK' /\ SeedInv' /\ RevokedStaysRevoked'
  BY <1>2, <1>3 DEF coldOnly, ColdTypeOK, SeedInv, RevokedStaysRevoked, SeededSoFar, Past, Rows,
                    StoreOf, DatabaseSeeded, OneStart, OwnStore, MemorySeeded, ServersForget
<1>4. ASSUME NEW s \in Starts, BootStep(s)
      PROVE  ColdTypeOK' /\ SeedInv' /\ RevokedStaysRevoked'
  BY <1>2, <1>4, SeedingStep, KeyStep, ServeStep DEF BootStep
<1>5. ASSUME NEW s \in Starts, NEW catalog \in [Files -> Checksums], Begin(s, catalog)
      PROVE  ColdTypeOK' /\ SeedInv' /\ RevokedStaysRevoked'
  BY <1>2, <1>5, BeginStep
<1>6. ASSUME NEW i \in Instances, Die(i)
      PROVE  ColdTypeOK' /\ SeedInv' /\ RevokedStaysRevoked'
  BY <1>2, <1>6, DieStep
<1>7. CASE RevokeKey
  BY <1>1, <1>2, <1>7, RevokeStep
<1>8. CASE UNCHANGED coldVars
  BY <1>1, <1>3, <1>8 DEF coldVars
<1> QED BY <1>1, <1>3, <1>4, <1>5, <1>6, <1>7, <1>8 DEF ColdNext

LEMMA ColdInvariant == ColdSpec => []ColdInv
BY ColdInitInv, ColdNextInv, PTL DEF ColdSpec

\* The state of the starts stays in its types.
THEOREM ColdTypeCorrect == ColdSpec => []ColdTypeOK
<1>1. ColdInv => ColdTypeOK BY DEF ColdInv
<1> QED BY <1>1, ColdInvariant, PTL

\* No migration is committed twice (AppliedOnce), although processes start
\* together, end with several starts under way and serve in between.
THEOREM StartsApplyOnce == ColdSpec => []AppliedOnce
<1>1. ColdInv => AppliedOnce BY DEF ColdInv, MigInv
<1> QED BY <1>1, ColdInvariant, PTL

\* The only files that are skipped are those a process ended on or of which a
\* statement failed (SkippedWereCut).
THEOREM StartsSkipOnlyCut == ColdSpec => []SkippedWereCut
<1>1. ColdInv => SkippedWereCut
  BY DEF ColdInv, OrderInv, SkippedOrUnderway, SkippedWereCut, Underway
<1> QED BY <1>1, ColdInvariant, PTL

\* What a process remembers as seeded is installed where its server looks
\* (SeededIsInstalled): always over the database, and over memory stores as
\* long as its starts did not overlap.
THEOREM SeedsAreInstalled == ColdSpec => []SeededIsInstalled
<1>1. ASSUME ColdInv PROVE SeededIsInstalled
  <2> USE DEF ColdInv, SeedInv
  <2> SUFFICES ASSUME NEW i \in Instances, seeded[i],
                      durable \/ (app[i] # Nil /\ i \notin shared)
               PROVE  Complete(stores[IF durable THEN "database" ELSE app[i]])
    BY DEF SeededIsInstalled, Complete
  <2>1. CASE durable
    BY <1>1, <2>1 DEF DatabaseSeeded
  <2>2. CASE ~durable
    <3>1. app[i] # Nil /\ i \in Instances \ shared
      BY <2>2
    <3>2. \A t \in Starts : home[t] = i => boot[t].pc = "idle"
      BY <1>1, <3>1 DEF OneStart
    <3>3. Complete(stores[app[i]])
      BY <1>1, <2>2, <3>1, <3>2 DEF MemorySeeded
    <3> QED BY <2>2, <3>3
  <2> QED BY <2>1, <2>2
<1> QED BY <1>1, ColdInvariant, PTL

\* A demo key that was revoked stays revoked (RevokedStaysRevoked), however
\* often the processes that have it in their configuration start.
THEOREM RevocationsLast == ColdSpec => []RevokedStaysRevoked
<1>1. ColdInv => RevokedStaysRevoked BY DEF ColdInv
<1> QED BY <1>1, ColdInvariant, PTL
=============================================================================
