------------------------------ MODULE ColdStart ------------------------------
(***************************************************************************)
(* The start of the API, over the migration runner: the serverless         *)
(* function, whose first requests each run getCachedApp until one of them  *)
(* has left a server behind, and the long-lived server, whose main ends    *)
(* the process when a step fails.  A start migrates, seeds the demo data   *)
(* if the process has not, looks at the credentials and serves.            *)
(*                                                                         *)
(* With Durable all stores are the one database; without, every start has  *)
(* made a memory store of its own, and there is nothing to migrate.  The   *)
(* configuration is that of a demo deployment: SEED_DEMO and AUTO_MIGRATE  *)
(* are set, credentials are required.  One action per repository call.     *)
(***************************************************************************)
EXTENDS Migrations

CONSTANTS
  Instances,     \* the processes
  Servers,       \* those that run main; the others run the function
  Tables,        \* the migration that creates the tables
  Outages        \* TRUE: a query may fail at any time

ASSUME ColdStartAssumption ==
  /\ Servers \subseteq Instances
  /\ Tables \in Files
  /\ Outages \in BOOLEAN
  /\ Nil \notin Starts \union {"database"}
  /\ "database" \notin Starts   \* a memory store bears the name of its start

VARIABLES
  durable,   \* is the store the database?
  home,      \* home[s]: the process start s belongs to
  boot,      \* boot[s]: start s
  stores,    \* stores[st]: the rows of a store
  app,       \* app[i]: the store behind the server process i has cached, or listens with
  seeded,    \* seeded[i]: __fueltrack_seeded__
  revoked,   \* history: was the demo key revoked?
  shared     \* history: the processes two of whose starts overlapped

coldOnly == <<durable, home, boot, stores, app, seeded, revoked, shared>>
coldVars == <<migVars, coldOnly>>

DemoTanks == {"diesel", "petrol"}
StoreNames == {"database"} \union Starts

\* The demo rows of a store: the key is unique by its hash, the station by its
\* code, the tanks by nothing, as their ids are random: those with a row at least.
Empty == [station |-> FALSE, tanks |-> {}, key |-> "none"]
Store == [station: BOOLEAN, tanks: SUBSET DemoTanks, key: {"none", "active", "revoked"}]

BootPc == {"idle", "migrate", "findStation", "saveStation", "findForTank", "saveTank", "saveKey",
           "readiness"}

Start == [pc: BootPc, tank: DemoTanks, failed: BOOLEAN]
Resting == [pc |-> "idle", tank |-> "diesel", failed |-> FALSE]

ColdTypeOK ==
  /\ MigTypeOK
  /\ durable \in BOOLEAN
  /\ home \in [Starts -> Instances]
  /\ boot \in [Starts -> Start]
  /\ stores \in [StoreNames -> Store]
  /\ app \in [Instances -> StoreNames \union {Nil}]
  /\ seeded \in [Instances -> BOOLEAN]
  /\ revoked \in BOOLEAN
  /\ shared \subseteq Instances

ColdInit ==
  /\ MigInit
  /\ durable \in BOOLEAN
  /\ home \in [Starts -> Instances]
  /\ boot = [s \in Starts |-> Resting]
  /\ stores = [st \in StoreNames |-> Empty]
  /\ app = [i \in Instances |-> Nil]
  /\ seeded = [i \in Instances |-> FALSE]
  /\ revoked = FALSE
  /\ shared = {}

-----------------------------------------------------------------------------

StoreOf(s) == IF durable THEN "database" ELSE s
Rows(s) == stores[StoreOf(s)]
Function(s) == home[s] \notin Servers

Migrated == ran[Tables] > 0
\* A query needs the tables, and may fail although they are there.
Answered == ~durable \/ Migrated
MayFail == durable /\ (Outages \/ ~Migrated)

StartsOf(i) == {s \in Starts : home[s] = i /\ boot[s].pc # "idle"}
AtBoot(s, pc) == boot[s].pc = pc
Upon(s, pc) == [boot[s] EXCEPT !.pc = pc]
Turn(s, next) == boot' = [boot EXCEPT ![s] = next]

\* The seed comes after the migrations, unless this process has seeded; main
\* always seeds.
AfterMigrations(s) == IF seeded[home[s]] THEN "readiness" ELSE "findStation"

\* A cached server serves the request; otherwise the request starts one.  The
\* promise of a start is not kept, so requests that come before its end start too.
Begin(s, catalog) ==
  LET i == home[s] IN
  /\ AtBoot(s, "idle")
  /\ app[i] = Nil
  /\ Function(s) \/ StartsOf(i) = {}
  /\ shared' = IF StartsOf(i) = {} THEN shared ELSE shared \union {i}
  /\ \/ /\ durable
        /\ Boot(s, catalog)
        /\ boot' = [boot EXCEPT ![s] = [Resting EXCEPT !.pc = "migrate"]]
        /\ UNCHANGED stores
     \/ /\ ~durable
        /\ runs < MaxRuns
        /\ runs' = runs + 1
        /\ boot' = [boot EXCEPT ![s] = [Resting EXCEPT !.pc = AfterMigrations(s)]]
        /\ stores' = [stores EXCEPT ![s] = Empty]
        /\ UNCHANGED <<rows, ran, lock, run, cut>>
  /\ UNCHANGED <<durable, home, app, seeded, revoked>>

\* autoMigrateOnBoot never throws: the start goes on, whatever became of the run.
EndMigrations(s) ==
  /\ AtBoot(s, "migrate")
  /\ run[s].pc = "idle"
  /\ Turn(s, Upon(s, AfterMigrations(s)))
  /\ UNCHANGED <<migVars, durable, home, stores, app, seeded, revoked, shared>>

Wrote(s, row) == stores' = [stores EXCEPT ![StoreOf(s)] = row]
KeepOthers == UNCHANGED <<migVars, durable, home, app, revoked, shared>>

\* Mutant: a step that failed is forgotten.
AfterFailureForgotten(s, next) == IF Function(s) THEN next ELSE Resting
\* seedStep logs the failure and goes on; main ends the process.
AfterFailure(s, next) == IF Function(s) THEN [next EXCEPT !.failed = TRUE] ELSE Resting
\* A row that is there already: done for seedStep, a failure for main.
AfterConflict(s, next) == IF Function(s) THEN next ELSE Resting

\* createStation: findByCode, then save, which is an upsert.
FindStation(s) ==
  /\ AtBoot(s, "findStation")
  /\ \/ MayFail /\ Turn(s, AfterFailure(s, Upon(s, "findForTank")))
     \/ Answered /\ Rows(s).station /\ Turn(s, AfterConflict(s, Upon(s, "findForTank")))
     \/ Answered /\ ~Rows(s).station /\ Turn(s, Upon(s, "saveStation"))
  /\ KeepOthers
  /\ UNCHANGED <<stores, seeded>>

SaveStation(s) ==
  /\ AtBoot(s, "saveStation")
  /\ \/ MayFail /\ Turn(s, AfterFailure(s, Upon(s, "findForTank"))) /\ UNCHANGED stores
     \/ /\ Answered
        /\ Wrote(s, [Rows(s) EXCEPT !.station = TRUE])
        /\ Turn(s, Upon(s, "findForTank"))
  /\ KeepOthers
  /\ UNCHANGED seeded

\* Two tanks, one after the other, then the key.
AfterTank(s) ==
  IF boot[s].tank = "diesel" THEN [Upon(s, "findForTank") EXCEPT !.tank = "petrol"]
  ELSE Upon(s, "saveKey")

\* createTank: its station must be there.
FindForTank(s) ==
  /\ AtBoot(s, "findForTank")
  /\ \/ (MayFail \/ ~Rows(s).station) /\ Turn(s, AfterFailure(s, AfterTank(s)))
     \/ Answered /\ Rows(s).station /\ Turn(s, Upon(s, "saveTank"))
  /\ KeepOthers
  /\ UNCHANGED <<stores, seeded>>

\* A row with a new id each time: nothing tells that the tank is there already.
SaveTank(s) ==
  /\ AtBoot(s, "saveTank")
  /\ \/ MayFail /\ Turn(s, AfterFailure(s, AfterTank(s))) /\ UNCHANGED stores
     \/ /\ Answered
        /\ Wrote(s, [Rows(s) EXCEPT !.tanks = @ \union {boot[s].tank}])
        /\ Turn(s, AfterTank(s))
  /\ KeepOthers
  /\ UNCHANGED seeded

\* The seed is over: the function remembers it, if no step failed.
Remember(s) ==
  seeded' = IF Function(s) THEN [seeded EXCEPT ![home[s]] = ~boot'[s].failed] ELSE seeded

\* Mutant: the key is saved over the row that has its hash.
UpsertKey(s) ==
  /\ AtBoot(s, "saveKey")
  /\ Answered
  /\ Wrote(s, [Rows(s) EXCEPT !.key = "active"])
  /\ Turn(s, Upon(s, "readiness"))
  /\ Remember(s)
  /\ KeepOthers

\* issueApiKey: a new row, which the unique hash refuses if there is one, even
\* one that was revoked.
SaveKey(s) ==
  /\ AtBoot(s, "saveKey")
  /\ \/ MayFail /\ Turn(s, AfterFailure(s, Upon(s, "readiness"))) /\ UNCHANGED stores
     \/ /\ Answered
        /\ Rows(s).key # "none"
        /\ Turn(s, AfterConflict(s, Upon(s, "readiness")))
        /\ UNCHANGED stores
     \/ /\ Answered
        /\ Rows(s).key = "none"
        /\ Wrote(s, [Rows(s) EXCEPT !.key = "active"])
        /\ Turn(s, Upon(s, "readiness"))
  /\ Remember(s)
  /\ KeepOthers

\* checkCredentialReadiness only reports; main does not listen with a store that
\* is known to be empty.  The server that is built last is the one that is kept.
Serve(s) ==
  LET unavailable == MayFail
      usable == Answered /\ Rows(s).key = "active"
  IN
  /\ AtBoot(s, "readiness")
  /\ Turn(s, Resting)
  /\ \/ /\ Function(s) \/ unavailable \/ usable
        /\ app' = [app EXCEPT ![home[s]] = StoreOf(s)]
     \/ /\ ~Function(s) /\ Answered /\ ~usable
        /\ UNCHANGED app
  /\ UNCHANGED <<migVars, durable, home, stores, seeded, revoked, shared>>

BootStep(s) ==
  \/ EndMigrations(s) \/ FindStation(s) \/ SaveStation(s)
  \/ FindForTank(s) \/ SaveTank(s) \/ SaveKey(s) \/ Serve(s)

\* credentials revoke, which refuses to work on a memory store.
RevokeKey ==
  /\ durable
  /\ stores["database"].key = "active"
  /\ stores' = [stores EXCEPT !["database"].key = "revoked"]
  /\ revoked' = TRUE
  /\ UNCHANGED <<migVars, durable, home, boot, app, seeded, shared>>

\* Mutant: the session of a process that ended keeps the advisory lock.
DieKeepsLock(i) ==
  LET dead == {s \in Starts : home[s] = i} IN
  /\ Crashes
  /\ StartsOf(i) # {} \/ app[i] # Nil
  /\ run' = [s \in Starts |-> IF s \in dead THEN [run[s] EXCEPT !.pc = "idle"] ELSE run[s]]
  /\ cut' = cut \union UNION {Underway(s) : s \in dead}
  /\ boot' = [s \in Starts |-> IF s \in dead THEN Resting ELSE boot[s]]
  /\ stores' = [st \in StoreNames |-> IF st \in dead THEN Empty ELSE stores[st]]
  /\ app' = [app EXCEPT ![i] = Nil]
  /\ seeded' = [seeded EXCEPT ![i] = FALSE]
  /\ shared' = shared \ {i}
  /\ UNCHANGED <<lock, rows, ran, runs, durable, home, revoked>>

\* A process ends, in the middle of its starts or after them.
Die(i) ==
  LET dead == {s \in Starts : home[s] = i} IN
  /\ Crashes
  /\ StartsOf(i) # {} \/ app[i] # Nil
  /\ lock' = IF lock \in dead THEN Nil ELSE lock
  /\ run' = [s \in Starts |-> IF s \in dead THEN [run[s] EXCEPT !.pc = "idle"] ELSE run[s]]
  /\ cut' = cut \union UNION {Underway(s) : s \in dead}
  /\ boot' = [s \in Starts |-> IF s \in dead THEN Resting ELSE boot[s]]
  /\ stores' = [st \in StoreNames |-> IF st \in dead THEN Empty ELSE stores[st]]
  /\ app' = [app EXCEPT ![i] = Nil]
  /\ seeded' = [seeded EXCEPT ![i] = FALSE]
  /\ shared' = shared \ {i}
  /\ UNCHANGED <<rows, ran, runs, durable, home, revoked>>

ColdNext ==
  \/ \E s \in Starts :
       \/ \E catalog \in [Files -> Checksums] : Begin(s, catalog)
       \/ Step(s) /\ UNCHANGED coldOnly
       \/ BootStep(s)
  \/ RevokeKey
  \/ \E i \in Instances : Die(i)

ColdSpec == ColdInit /\ [][ColdNext]_coldVars

\* A start that is under way goes on, and PostgreSQL grants a lock in the order
\* in which it was asked for.
FairColdSpec ==
  /\ ColdSpec
  /\ \A s \in Starts : /\ WF_coldVars(Step(s) /\ UNCHANGED coldOnly)
                        /\ SF_coldVars(Lock(s) /\ UNCHANGED coldOnly)
                        /\ WF_coldVars(BootStep(s))

-----------------------------------------------------------------------------
(* Properties                                                              *)

\* What a process remembers as seeded is installed where its server looks,
\* although steps fail, starts overlap and other processes seed as well.  Over
\* memory stores that is so only while the starts of a process do not overlap.
SeededIsInstalled ==
  \A i \in Instances : seeded[i] /\ (durable \/ (app[i] # Nil /\ i \notin shared)) =>
    LET rowsOf == stores[IF durable THEN "database" ELSE app[i]] IN
    rowsOf.station /\ rowsOf.key # "none" /\ rowsOf.tanks = DemoTanks

\* A demo key that was revoked stays so, however many processes start with it
\* in their configuration.
RevokedStaysRevoked == revoked => stores["database"].key = "revoked"

\* Every start comes to an end, with a server or without: nobody waits for ever
\* for a lock, a file that failed or a seed that cannot be installed.
StartsEnd == \A s \in Starts : boot[s].pc # "idle" ~> boot[s].pc = "idle"
=============================================================================
