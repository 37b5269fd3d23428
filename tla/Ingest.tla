-------------------------------- MODULE Ingest --------------------------------
(***************************************************************************)
(* Ingestion of tank readings: IngestService.ingest, and the alert sweep   *)
(* that runs the same rules on a timer, over the registry of Devices.      *)
(*                                                                         *)
(* A request is a caller of the registry (it registers, assigns and        *)
(* touches devices through DeviceService) with steps of its own, one per   *)
(* repository call it awaits.  A slot of Requests is used again as soon as *)
(* it has answered, so a sample can be retried for ever, concurrently with *)
(* itself; a request may stop before any step (Lose).                      *)
(*                                                                         *)
(* What the rules conclude is the subject of other modules: here they only *)
(* mark the readings they were given as evaluated.                         *)
(***************************************************************************)
EXTENDS Devices

CONSTANTS
  Requests,       \* concurrent ingest requests, callers of the registry
  Keys,           \* idempotency keys, given or derived from the sample
  Instants,       \* the instants samples are observed at
  Samples,        \* the samples that are submitted
  SimulatedSerial,\* the serial number registerSimulated gives a device
  RecentReadings, \* recentReadingCount, 32 in the code
  Sweeps,         \* TRUE: a long-lived process runs the sweep on a timer, FALSE: none does
  MaxReadings,    \* bound on the rows of the ledger
  HealthyTanks    \* tanks on which the rules do not fail for ever

Source == {"device", "manual", "simulated"}
Sample == [key: Keys, tank: Tanks, dev: Devs \union {Nil}, source: Source, at: Instants]
Reading == [id: 1..MaxReadings, key: Keys, tank: Tanks,
            dev: Devs \union {Nil}, source: Source, at: Instants]

ASSUME IngestAssumption ==
  /\ Requests \subseteq Callers
  /\ Instants \subseteq Nat
  /\ Samples \subseteq Sample
  /\ SimulatedSerial \in [Devs -> Serials]
  /\ RecentReadings \in Nat \ {0}
  /\ Sweeps \in BOOLEAN
  /\ MaxReadings \in Nat
  /\ HealthyTanks \subseteq Tanks
  /\ Nil \notin Reading
  /\ Nil \notin Sample

VARIABLES
  readings,   \* the rows of tank_readings
  req,        \* req[r]: the request in slot r
  evaluated,  \* the rows some completed run of the rules was given
  sweep       \* the sweep in progress

ingVars == <<readings, req, evaluated, sweep>>
allVars == <<devVars, ingVars>>

\* The pc of a request names what it awaits.
ReqPc == {"idle", "tank", "device", "registerSimulated", "assignment", "assign", "assigning",
          "lookup", "rawPayload", "append", "markSeen", "marking", "recent", "rules"}

Request == [pc: ReqPc,
            sample: Sample \union {Nil},
            row: Reading \union {Nil},     \* the row it stored
            ascending: SUBSET Reading,     \* the recent readings it read
            reply: Reading \union {Nil},   \* the row its answer names
            answer: {"none", "created", "duplicate", "conflict", "refused", "lost"}]

Answered(sample, answer, reply) ==
  [pc |-> "idle", sample |-> sample, row |-> Nil, ascending |-> {},
   reply |-> reply, answer |-> answer]

Idle == [todo |-> {}, tank |-> Nil, ascending |-> {}]

IngTypeOK ==
  /\ DevTypeOK
  /\ readings \subseteq Reading
  /\ req \in [Requests -> Request]
  /\ evaluated \subseteq Reading
  /\ sweep \in [todo: SUBSET Tanks, tank: Tanks \union {Nil}, ascending: SUBSET Reading]

IngInit ==
  /\ DevInit
  /\ readings = {}
  /\ req = [r \in Requests |-> Answered(Nil, "none", Nil)]
  /\ evaluated = {}
  /\ sweep = Idle

-----------------------------------------------------------------------------
(* The reading repository                                                  *)

RowsOf(k) == {a \in readings : a.key = k}

\* The memory adapter maps a key to the last row appended under it; in the
\* database the unique index leaves one row to find.
FoundByKey(k) == {a \in RowsOf(k) : \A b \in RowsOf(k) : b.id <= a.id}

Newer(a) == {b \in readings : b.tank = a.tank /\ (b.at > a.at \/ (b.at = a.at /\ b.id > a.id))}

\* readings.list: the newest by recordedAt, not by arrival.  Which of several
\* rows of one instant comes first the stores leave open; here, the later.
Recent(t) == {a \in readings : a.tank = t /\ Cardinality(Newer(a)) < RecentReadings}

-----------------------------------------------------------------------------
(* Steps of a request                                                      *)

\* r awaits pc; it is about to read or write something else.
Goto(r, pc) == req' = [req EXCEPT ![r].pc = pc]
Reply(r, answer, row) == req' = [req EXCEPT ![r] = Answered(req[r].sample, answer, row)]

At(r, pc) == req[r].pc = pc /\ call[r].pc = "idle"

Submit(r, s) ==
  /\ At(r, "idle")
  /\ req' = [req EXCEPT ![r] = [Answered(s, "none", Nil) EXCEPT !.pc = "tank"]]
  /\ UNCHANGED <<devVars, readings, evaluated, sweep>>

\* tanks.findById, then the clock decides whether observedAt is more than
\* maxFutureSkewMinutes ahead, then the sample whether it must name a device.
FindTank(r) ==
  LET s == req[r].sample IN
  /\ At(r, "tank")
  /\ \/ Reply(r, "refused", Nil)
     \/ /\ tank[s.tank] = "active"
        /\ s.dev = Nil => s.source # "device"
        /\ Goto(r, IF s.dev = Nil THEN "lookup" ELSE "device")
  /\ UNCHANGED <<devVars, readings, evaluated, sweep>>

\* resolveDevice: a manual reading needs no assignment.
AfterDevice(s) == IF s.source = "manual" THEN "lookup" ELSE "assignment"

FindDevice(r) ==
  LET s == req[r].sample IN
  /\ At(r, "device")
  /\ IF device[s.dev] = Nil
     THEN IF s.source = "simulated" THEN Goto(r, "registerSimulated")
                                    ELSE Reply(r, "refused", Nil)
     ELSE IF device[s.dev].status = "retired" THEN Reply(r, "refused", Nil)
                                              ELSE Goto(r, AfterDevice(s))
  /\ UNCHANGED <<devVars, readings, evaluated, sweep>>

\* devices.registerSimulated: an upsert, whatever happened since the lookup.
\* Mutant: the connection state is written as the status.
RegisterOnline(r) ==
  /\ At(r, "registerSimulated")
  /\ LET d == req[r].sample.dev IN
     device' = [device EXCEPT ![d] = [serial |-> SimulatedSerial[d], status |-> "online"]]
  /\ Goto(r, "assignment")
  /\ UNCHANGED <<tank, assigned, ended, call, current, readings, evaluated, sweep>>

RegisterSimulated(r) ==
  LET d == req[r].sample.dev IN
  /\ At(r, "registerSimulated")
  /\ IF Database /\ InUse(SimulatedSerial[d], d)
     THEN Reply(r, "refused", Nil) /\ UNCHANGED device
     ELSE /\ device' = [device EXCEPT ![d] = [serial |-> SimulatedSerial[d], status |-> "active"]]
          /\ Goto(r, "assignment")
  /\ UNCHANGED <<tank, assigned, ended, call, current, readings, evaluated, sweep>>

\* Mutant: any active assignment of the device will do.
CheckAssigned(r) ==
  LET s == req[r].sample IN
  /\ At(r, "assignment")
  /\ \E a \in FoundActive(s.dev) :
       IF s.source = "device"
       THEN IF a # Nil THEN Goto(r, "lookup") ELSE Reply(r, "refused", Nil)
       ELSE Goto(r, IF a = Nil THEN "assign" ELSE "lookup")
  /\ UNCHANGED <<devVars, readings, evaluated, sweep>>

CheckAssignment(r) ==
  LET s == req[r].sample IN
  /\ At(r, "assignment")
  /\ \E a \in FoundActive(s.dev) :
       IF s.source = "device"
       THEN IF a # Nil /\ a.tank = s.tank THEN Goto(r, "lookup") ELSE Reply(r, "refused", Nil)
       ELSE Goto(r, IF a = Nil THEN "assign" ELSE "lookup")
  /\ UNCHANGED <<devVars, readings, evaluated, sweep>>

\* A simulated reading assigns its device, by a call of assignToTank.
AssignSimulated(r) ==
  /\ At(r, "assign")
  /\ BeginAssign(r, req[r].sample.dev, req[r].sample.tank)
  /\ Goto(r, "assigning")
  /\ UNCHANGED <<readings, evaluated, sweep>>

AssignReturns(r) ==
  /\ At(r, "assigning")
  /\ IF call[r].result = "ok" THEN Goto(r, "lookup") ELSE Reply(r, "refused", Nil)
  /\ UNCHANGED <<devVars, readings, evaluated, sweep>>

\* readings.findByIdempotencyKey: a retry is answered with the row it finds.
LookupKey(r) ==
  LET k == req[r].sample.key IN
  /\ At(r, "lookup")
  /\ \/ \E a \in FoundByKey(k) : Reply(r, "duplicate", a)
     \/ RowsOf(k) = {} /\ Goto(r, "rawPayload")
  /\ UNCHANGED <<devVars, readings, evaluated, sweep>>

\* rawMessages.save, stored or not: a failure is logged and goes no further.
RetainRawPayload(r) ==
  /\ At(r, "rawPayload")
  /\ Goto(r, "append")
  /\ UNCHANGED <<devVars, readings, evaluated, sweep>>

NewRow(s) == [id |-> Cardinality(readings) + 1, key |-> s.key, tank |-> s.tank,
              dev |-> s.dev, source |-> s.source, at |-> s.at]

\* The row is stored; then its device, if any, is marked as seen.
Stored(r, s) ==
  /\ NewRow(s).id \in 1..MaxReadings
  /\ req' = [req EXCEPT ![r].pc = IF s.dev = Nil THEN "recent" ELSE "markSeen",
                        ![r].row = NewRow(s)]

\* Mutant: an upsert on the key instead of an insert.
AppendUpserting(r) ==
  LET s == req[r].sample IN
  /\ At(r, "append")
  /\ readings' = (readings \ RowsOf(s.key)) \union {NewRow(s)}
  /\ Stored(r, s)
  /\ UNCHANGED <<devVars, evaluated, sweep>>

\* readings.append: the unique index refuses a second row, in the database.
Append(r) ==
  LET s == req[r].sample IN
  /\ At(r, "append")
  /\ IF Database /\ RowsOf(s.key) # {}
     THEN Reply(r, "conflict", Nil) /\ UNCHANGED readings
     ELSE readings' = readings \union {NewRow(s)} /\ Stored(r, s)
  /\ UNCHANGED <<devVars, evaluated, sweep>>

MarkSeen(r) ==
  /\ At(r, "markSeen")
  /\ BeginTouch(r, req[r].sample.dev)
  /\ Goto(r, "marking")
  /\ UNCHANGED <<readings, evaluated, sweep>>

MarkReturns(r) ==
  /\ At(r, "marking")
  /\ Goto(r, "recent")
  /\ UNCHANGED <<devVars, readings, evaluated, sweep>>

ListRecent(r) ==
  /\ At(r, "recent")
  /\ req' = [req EXCEPT ![r].pc = "rules", ![r].ascending = Recent(req[r].sample.tank)]
  /\ UNCHANGED <<devVars, readings, evaluated, sweep>>

RunRules(r) ==
  /\ At(r, "rules")
  /\ evaluated' = evaluated \union req[r].ascending
  /\ Reply(r, "created", req[r].row)
  /\ UNCHANGED <<devVars, readings, sweep>>

\* The request stops where it is: its process ends, the store or the network
\* fails.  What it has written stays; the caller hears nothing and may retry.
Lose(r) ==
  /\ req[r].pc # "idle"
  /\ Reply(r, "lost", Nil)
  /\ Crash(r) \/ (call[r].pc = "idle" /\ UNCHANGED devVars)
  /\ UNCHANGED <<readings, evaluated, sweep>>

RequestStep(r) ==
  \/ FindTank(r)
  \/ FindDevice(r)
  \/ RegisterSimulated(r)
  \/ CheckAssignment(r)
  \/ AssignSimulated(r)
  \/ AssignReturns(r)
  \/ LookupKey(r)
  \/ RetainRawPayload(r)
  \/ Append(r)
  \/ MarkSeen(r)
  \/ MarkReturns(r)
  \/ ListRecent(r)
  \/ RunRules(r)
  \/ Lose(r)

-----------------------------------------------------------------------------
(* AlertSweepService.sweepTenant, on a timer                               *)

SweepStart ==
  /\ Sweeps
  /\ sweep = Idle
  /\ sweep' = [Idle EXCEPT !.todo = {t \in Tanks : tank[t] = "active"}]
  /\ UNCHANGED <<devVars, readings, req, evaluated>>

SweepTank(t) ==
  /\ sweep.tank = Nil
  /\ t \in sweep.todo
  /\ sweep' = [todo |-> sweep.todo \ {t}, tank |-> t, ascending |-> Recent(t)]
  /\ UNCHANGED <<devVars, readings, req, evaluated>>

NextTank == [sweep EXCEPT !.tank = Nil, !.ascending = {}]

SweepRules(t) ==
  /\ sweep.tank = t
  /\ evaluated' = evaluated \union sweep.ascending
  /\ sweep' = NextTank
  /\ UNCHANGED <<devVars, readings, req>>

\* Mutant: an exception on one tank ends the sweep.
SweepStops(t) ==
  /\ sweep.tank = t
  /\ sweep' = Idle
  /\ UNCHANGED <<devVars, readings, req, evaluated>>

\* An exception on one tank is caught and counted, and the sweep goes on.
SweepFails(t) ==
  /\ sweep.tank = t
  /\ sweep' = NextTank
  /\ UNCHANGED <<devVars, readings, req, evaluated>>

SweepStep(t) == SweepTank(t) \/ SweepRules(t) \/ SweepFails(t)

-----------------------------------------------------------------------------

Admin(c) == (Begin(c) \/ Continue(c) \/ Crash(c)) /\ UNCHANGED ingVars

IngNext ==
  \/ \E c \in Callers \ Requests : Admin(c)
  \/ \E r \in Requests :
       \/ \E s \in Samples : Submit(r, s)
       \/ RequestStep(r)
       \/ Continue(r) /\ UNCHANGED ingVars
  \/ SweepStart
  \/ \E t \in Tanks : SweepStep(t)

IngSpec == IngInit /\ [][IngNext]_allVars

\* The timer keeps firing, a sweep that runs goes on, and on a healthy tank
\* the rules do not fail every time.  Nothing is assumed of the requests.
SweepFairness ==
  /\ WF_allVars(SweepStart)
  /\ \A t \in Tanks : WF_allVars(SweepStep(t))
  /\ \A t \in HealthyTanks : SF_allVars(SweepRules(t))

FairIngSpec == IngSpec /\ SweepFairness

-----------------------------------------------------------------------------
(* Properties                                                              *)

\* A device that retries an upload does not create a second reading: one row
\* per key, with requests of one sample overlapping, lost and sent again.
OneReadingPerKey == \A a, b \in readings : a.key = b.key => a = b

\* Whoever is told that a sample is stored, as new, as a duplicate or by the
\* conflict of the unique index, is told the truth: its key is in the ledger.
AnswersAreStored ==
  \A r \in Requests :
    /\ req[r].answer = "conflict" => RowsOf(req[r].sample.key) # {}
    /\ req[r].answer \in {"created", "duplicate"} => req[r].reply \in RowsOf(req[r].sample.key)

\* A hardware reading is attributable: the history holds an assignment of its
\* device to its tank, even if it ended while the request was under way.
HardwareIsAttributable ==
  \A a \in readings : a.source = "device" =>
    \E g \in assigned : g.dev = a.dev /\ g.tank = a.tank

\* A reading that was stored is given to the rules, by its own request or, if
\* that one was lost, by the sweep, unless its tank leaves service or newer
\* readings push it out of the window the rules look at.
StoredIsEvaluated ==
  \A t \in HealthyTanks, k \in Keys :
    (\E a \in RowsOf(k) : a.tank = t) ~>
      \/ \E a \in evaluated : a.key = k
      \/ tank[t] # "active"
      \/ \E a \in RowsOf(k) : a \notin Recent(t)

\* The ledger and its answers, seen through the submission key alone.
Ledger == INSTANCE ReadingLedger WITH
            Row <- Reading, Clients <- Requests, NoRow <- Nil,
            ledger <- readings, reply <- [r \in Requests |-> req[r].reply]

\* Ingestion implements the ledger: a row per key, written once, and answers
\* that name rows already written.
ImplementsLedger == Ledger!Spec
=============================================================================
