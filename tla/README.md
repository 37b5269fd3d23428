# Fuel tracking platform: TLA+ models and proofs

This directory holds the formal models of the platform: TLA+ modules translated
from the TypeScript source, TLC configurations that check them on small
instances, and TLAPS proofs of the most important results for every instance.
Every definition that stands for code is listed in `PROJECT.json` under `map`
with the lines it translates; line numbers below are of the same revision.

    tlc -config IngestRetries.cfg MCIngest     # one run (module and cfg: PROJECT.json, "runs")
    tlapm IngestProofs.tla                     # one module of proofs

## 1. The system

The platform records the contents of fuel tanks. Probes, operators and a
simulator send readings to an HTTP API; the API stores them, runs rules that
raise alerts and candidate events, and operators decide the events and handle
the alerts. `packages/core` holds the domain, the services and the two adapters
(PostgreSQL through Prisma, and memory), `packages/api` the HTTP server,
`api/index.ts` a serverless entry, `apps/` a long-lived server, a web client and
a simulator runner.

| Component | State it keeps | Operations | Talks to |
|---|---|---|---|
| Device registry (`services/device-service.ts`) | devices, assignments of devices to tanks | register, update, assignToTank, unassign, markSeen, registerSimulated | repositories; called by routes and by ingestion |
| Fleet service (`services/fleet-service.ts`) | stations, tanks | create, update, tank status; acknowledge, resolve and assign alerts | repositories; called by routes and by the seed |
| Ingestion (`services/ingest-service.ts`) | readings, raw payloads | ingest, runRules | registry, repositories, rules, event service |
| Alert sweep (`services/alert-sweep-service.ts`) | none | sweepTenant on a timer or on demand | runRules of ingestion |
| Alert rules and lifecycle (`alerts/alert-engine.ts`) | alerts | evaluate, new drafts, resolved alerts | called by runRules |
| Event detection (`events/detection.ts`, `domain/event.ts`) | none | detectTankEvents, scoreConfidence, isDuplicate | called by detectAndRecord |
| Event service (`services/event-service.ts`) | events, deliveries | detectAndRecord, confirm, reject | repositories |
| Migration runner (`adapters/prisma/migrate.ts`, `pg-migrate.ts`) | `_prisma_migrations`, an advisory lock | runMigrations at every cold start | PostgreSQL |
| Rate limiter (`tenancy/rate-limit.ts`) | a window per key, per process | consume | hooks of the server |
| Adapters (`adapters/prisma`, `adapters/memory`) | the tables, the unique indexes | find, list, append, save, update, touch | PostgreSQL, or the process |
| Credentials (`tenancy/`, `auth.ts`) | keys, last use, cached store status | provision, revoke, authenticate, readiness | key registry |
| HTTP API (`packages/api/src/server.ts`, `routes/`) | a limiter per process | hooks, handler, audit, answer; `/healthz` | credentials, limiter, services, audit log |
| Quantities and geometry (`domain/quantity.ts`, `normalize.ts`, `geometry.ts`) | none | level to volume and back, rounding, quality | ingestion, simulator |
| Reports and dashboard (`services/report-service.ts`, `dashboard-service.ts`, `domain/views.ts`) | none of their own | stock movement, reconciliation, deliveries, inventory, trend, summaries | repositories |
| Process start (`api/index.ts`, `apps/api-server`) | a cached server and a seeded flag per process | migrate, seed, check credentials, serve | migrations, fleet service, key registry |
| Web application (`apps/web`) | session and stored key; the state of each load | connect, load, poll, retry, save | API |
| Simulator (`simulator/`, `apps/simulator-runner`) | simulated gauges | runs over its tanks, on a timer or counted | API |

What makes it hard. There are no transactions around a service call: each
`await` of a repository lets every other call run, in this process or, over
PostgreSQL, in another one. What a call has read is stale when it writes, and
the writes are whole rows. Of the rules here the database enforces four, a serial
number per device, an idempotency key per reading, a code per station and a hash per
key; the memory adapter enforces none. A call may end between any two awaits, clients retry, readings
arrive late and in batches, the sweep runs from `setInterval` while uploads run
the same rules, and cold starts run the migrations concurrently. The clients add
races of their own: answers that arrive in another order than they were asked for,
a session that changes under them, rules written twice. The hazards are
listed in `PROJECT.json` at their lines, each with the properties that cover it
or why none does yet.

What makes each part correct, in the words of its own documentation where it has
some: serial numbers are unique, a device is on one tank at most and the history
of its assignments survives; a sample is stored once however often it is sent,
and an answer that it is stored is true; a stored reading reaches the rules; one
movement is one event, one delivery one record, a decision is final; a condition
that persists has one open alert and one that is over has none; a migration is
applied once, in order, and one that failed is not skipped; a burst is bounded; a
key that can be used is admitted and one that was revoked is not, and comes back by
no restart; an answer tells what was done; the alerts, the dashboard and the reports
do not contradict one another; a page shows what its address and its session say, and
offers nothing the API refuses; a simulated probe measures what a probe could.

## 2. The modules

| Module | Models | Built on |
|---|---|---|
| `Devices` | the registry, the assignments, a tank's status | |
| `ReadingLedger` | abstract: a row is recorded once per key, answers name recorded rows | |
| `Ingest` | `ingest` await by await, the sweep over the tanks | extends `Devices`, implements `ReadingLedger` |
| `Detection` | the detection rules, the score, the suppression of duplicates, over readings in any order | |
| `Events` | detectAndRecord, confirm, reject, await by await | |
| `Alerts` | runRules and the operators' requests on alerts | extends `Events` |
| `Migrations` | runMigrations over sessions of PostgreSQL | |
| `RateLimiter` | the fixed window limiter | |
| `Credentials` | the rows of keys, the cached status of their store and its shared query | extends `RateLimiter` |
| `Requests` | the hooks, the effect, the audit and the answer of a request; `/healthz` | extends `Credentials` |
| `ColdStart` | the starts of the function and of the server: migrate, seed, look, serve | extends `Migrations` |
| `AlertRules` | evaluateTankAlerts, and the summary of a tank on the dashboard | extends `Detection` |
| `Measures` | strapping tables, the classification of a sample, its net volume | |
| `Reports` | reviews and deliveries of a tank, four reports and the trend, over either store | extends `AlertRules`, `Measures` |
| `Forms` | the rules of the web forms and the schemas of the API | |
| `Pages` | what each page loads, polls and saves, and the scope of each route | |
| `Console` | the web application at work: session, address, loads, saves | extends `Forms`, `Pages` |
| `Simulator` | the simulated gauges and the runs of the runner | extends `Measures` |
| `Clients` | the console or the simulator | extends `Console`, `Simulator` |
| `MCIngest`, `MCAlerts`, `MCReports`, `MCRequests`, `MCClients` | samples, conditions, drafts, symmetry for TLC | |
| `DevicesProofs`, `IngestProofs`, `EventsProofs`, `AlertsProofs`, `ReportsProofs`, `RequestsProofs`, `ColdStartProofs`, `ClientsProofs` | theorems | each extends the module it is named after; `IngestProofs` extends `DevicesProofs`, `AlertsProofs` extends `EventsProofs` |

Conventions. A service call is a record in `call[c]` (of the registry and the
event service), `req[r]` (an ingest request) or `job[c]` (a run of the rules or
an operator's request). Its `pc` names the repository access it waits for, and
its other fields hold what it has read. One action is one repository access with
the computation up to the next `await`, so interleavings between actions are
those between awaits. `Crash` and `Lose` end a call at any step: the process
ends, the store throws, or the connection drops; what was written stays.
`Overlap = FALSE` restricts calls to one at a time (still with crashes), and is
used to say exactly which results rely on it. `Database` chooses the adapter.
Operators marked `Mutant:` in a module are deliberate defects of the definition
next to them, used to confirm that a property notices; no specification uses
them.

**Devices.** `tank`, `device`, `assigned` and `ended` are the rows;
an assignment is never deleted, so its status is membership in `ended`.
`current` is a history variable: the tank the last answered call left a device
on. `BeginAssign`, `AssignReadsTank`, `AssignReadsCurrent`, `AssignEndsCurrent`
and `AssignSaves` are the five accesses of `assignToTank`. `save` is an upsert of
the whole row, refused by the index on serial numbers in the database only;
`touch` is a read and a write in Prisma and one step in memory. The descriptive
columns, `lastSeenAt` and `connectionState` are left out: nothing decides on them
here.

**Ingest.** A request is also a caller of the registry: it registers, assigns
and touches devices through it. `Submit` fills a slot of `Requests`, and a slot
that answered is used again, so every sample is sent any number of times,
concurrently with itself. `FindTank` may refuse for a reason the model does not
track (a clock ahead by more than the allowed skew, a missing tank). The rules
are one step that marks the readings they were given as `evaluated`; their
content is in the modules below. `sweep` is the timer's pass over the active
tanks, one bad tank not stopping it.

**Detection.** Pure rules over the set `readings`. The order of the stores, by
instant with a random id settling ties, is `Before`, and what the code finds by sorting
and reducing is chosen by it: `LatestOf` is the last of some readings, `Lowest` and
`Highest` the first that no other one beats. The queries of PostgreSQL order by the instant
alone, so this is PostgreSQL only where no two readings of a tank share an instant. The rules
see as many readings as `recentReadingCount` says (`Recent`). Detection and a decision are one step each: the
module is about order of arrival, equal volumes, windows and repetition. Scores
are in thousandths; time is in minutes and volumes in litres.

**Events** takes the opposite view: the rules are the environment (`Show`
chooses the movements the latest readings show), and the repository calls of the
three operations interleave. A movement is known by its type and by the instant of its last
reading; `since` is the instant 72 hours before now, and `Newest` a list of events as the
repositories give it: those that ended since, the newest first, up to a limit. Which of those
that ended together fall off a full list is left open. A delivery's volumes are stored as each
adapter stores them.

**Alerts** composes the rules' run with events, reviews and operators; the runs of
`MCAlerts` check the properties of `Events` too, in this larger system. Which conditions hold is the environment's choice (`Hold`), so thresholds and ages do
not appear. A condition has a type, a subject and a severity: one run may find a suspect
reading and a probe at fault, which are two drafts of one type, and raises both. Every update writes back the row as it was read.

**Migrations.** `rows` is the bookkeeping table, `ran[f]` counts the commits of a
file, `lock` the advisory lock of a session; `cut` remembers the files a start ended on. A file commits, is refused by the
parser before anything runs (the session stays usable), or fails in the middle
(the session stays in an aborted transaction and refuses every later statement,
that which records the failure included). Every start ships the same set of
files, in versions of its own.

**RateLimiter.** `windows[k]` is the map's entry, `allowed` and `refused` are
history. The clock is monotonic.

**Credentials** and **Requests.** A key and the hash of its secret are one. `cached` and
`query` are the two variables of `createCachedCredentialStatus`; whoever finds no
fresh status waits for the query in flight, and all of them are answered at once
(`StatusAnswered`), whatever the answer, a failure included. A request goes through
`lookup`, `touch`, `admit` (limiter, scopes, schema), `effect`, `writes` and `audit`; what
a service does is the subject of the other modules. Here it reads, refuses or fails before it
writes anything (`Serve`), or begins to write and completes, or stops on the way (`Write`). `always` and `late` are
history: that the key could be used ever since the request arrived, that it had been
revoked by then. The server's limiter of ingestion (`server.ts` 423-426, by default 300 in 60
seconds) is one of the reasons a service refuses; neither entry point gives it a limiter of
refused keys, so there is none.

**ColdStart.** A start is a session of the migration runner that goes on: `boot[s]`
names its repository call, `home[s]` its process. The function (`getCachedApp`) goes
on after a step that failed and remembers the seed only if none did; `main` ends.
`app[i]` is the store behind the server that was built last. In memory every start
has a store of its own. `Die` ends a process, which the platform may do to a function
at any time.

**AlertRules**, **Measures**, **Reports.** `AlertDrafts` is all that the rules may find in a
tank and the devices assigned to it; an update may leave its thresholds in any order, so nothing
is assumed of it. The readings of `Detection` are those a `Samples` measures through the
strapping table. A confirmation reads the clock (`ConfirmBegins`) before it awaits the list and
the save of the delivery (`ConfirmEnds`, or `ConfirmFails`). The lists of a report hold the newest
readings of a window (`Within`), that of the trend the oldest (`Charted`), up to the same limit. A percentage is compared by
multiplication, as exact as the code's. `InWindow` is where the adapters differ: a
list that is bounded on one side only is not bounded at all in PostgreSQL. All
reports are functions of the state, evaluated for every window in every state.

**Forms** and **Pages** have no state. A text is its length and whether it matches
the pattern of its field, a number a count of halves, the precision at which a
capacity is compared with a geometry. `Submitted` gives the answers of the API to
the drafts a form lets through, by operation.

**Console.** `session`, `attempts` and `stored` are `SessionProvider`; `watch`,
`shown` and `requests` one `useResource` of the page, any one, since the loads of a
page share no state; `save` the handler under way. A record is the version of the
platform it was read at. A request nobody waits for changes nothing and is forgotten;
the answer of a creation navigates even if the user has left the page, as in the
code.

**Simulator.** `Stepped` gives every state in which a poll may leave a gauge:
the random numbers are any of their range. The simulation is finer than what it reports:
`Reported` rounds a level to the grain of a hundredth of a millimetre. The API is external: it refuses a sample
with more water than product and keeps one reading of a tank and an instant.
**Clients** puts the two side by side, one of them at work in each behaviour.

## 3. What TLC checks

Nine runs pass. Each property has a mutant (`PROJECT.json`, `mutants`), a
plausible defect of one definition under which TLC finds it violated.

| Run | Question | Bounds |
|---|---|---|
| `DevicesSerial` | without overlap, with crashes anywhere: one active assignment, the one last answered for; hearing from a retired device does not restore it | 1 caller; 2 devices, serial numbers, tanks; 3 assignments |
| `IngestRetries` | retries that overlap and are lost, rules that fail: the ledger is implemented, and (liveness) what was stored is evaluated | 2 slots, 2 samples, 2 keys, window of 1 reading |
| `IngestMoves` | a probe is registered, moved and removed while it and a simulated device upload: every row attributable, serial numbers unique, history kept | 1 slot, 1 administrator, 2 devices, serial numbers, tanks |
| `TankReports` | any four measurements in any order of arrival: one event per observation, decreases that never overlap; alerts and dashboard agree, silence is reported; reports agree, residuals add up, what was delivered is settled | 4 readings of 4 samples, of which the rules and a list see 3; instants 0..4; 2 events |
| `AlertsSerial` | without overlap, with crashes anywhere, in memory: one open alert of a finding, one event per recent movement, one delivery per event, resolutions and decisions final | a rise and a fall that grow older than the lookback, lists of 2 events, 4 events and alerts, 3 changes |
| `AlertsSweep` | over PostgreSQL, the sweep overlapping an operator who handles alerts and reviews events, both lost at any step: what persists is alerted, what is over is closed, a confirmed event has its delivery | 5 alerts, 3 events, lists of 2 events and of 1 candidate, 3 changes |
| `ColdStarts` | starts of a function and of a server that overlap, crash, abort and lose the database: migrations once and only cut-off files skipped, the seed installed where it is remembered, a revoked key revoked for good; every start ends | 2 starts, 2 processes, 2 files, 3 runs |
| `ApiRequests` | a key comes, expires and goes under two requests, queries fail, the process restarts: nobody is refused whose key could be used all along, a revoked key opens nothing, an answer tells the effect, a refusal tells a recent status, a burst is bounded | 1 key, 2 slots, 4 requests, a limit of 2 in 2 seconds, instants 0..3 |
| `Clients` | the console: the session is of the last key, a page never goes back and settles on what its address names, what is offered is accepted; the simulator: outcomes are true, samples are physical | 2 keys, 2 records, 2 changes, 2 connects, 1 save; 2 tanks whose height is no whole number of grains, 2 runs |

Why the bounds are enough. The races are between two calls on one row, so two
callers and two objects show them; a third assignment lets a device leave and
return. Two keys tell a retry from another sample; two slots let a sample race
itself; a window of one reading lets a second reading push the first out of it.
Three readings are the least with a late one between two neighbours, and a fourth pushes one
out of the readings the rules and the lists see. The samples of `TankReports` are an empty
tank, a high level with a weak signal, water under the product and a level above the tank:
a fall, a rise and volumes on both sides of every threshold. An instant beyond `Lookback` lets
a tank be silent for longer, and there are instants inside of two adjacent windows. Readings of
one instant do not occur in the run; the theorems of section 4 allow any number of them. In
`AlertsSerial` and `AlertsSweep` the lists of events are full when all of them stand. In
`ApiRequests` the window and the time a status is kept end within the horizon, and two
slots share a query; with a limit of two, three requests across the boundary of two windows are
more than one window admits, and a fourth is the burst that must not happen; a key is revoked, or expires, at every step of a request. Two
starts race for the lock and in one process; a third comes after both. Two connects
are the least for a sign-in that is overtaken, two records for an answer of another
one, two changes for an answer that is older than a save; one save at a time is what
the disabled buttons of most pages allow, and the others are named below. Two tanks
and two runs let a run go on after a failure and overlap another. The counters
`MaxAssignments`, `MaxReadings`, `MaxEvents`, `MaxDeliveries`, `MaxAlerts`, `MaxChanges`,
`MaxConnects`, `MaxRuns`, `MaxRequests`, `MaxAttempts`, `MaxClock` and `Horizon` only
cap behaviours in length. Where they run out the model stops: those runs say
`CHECK_DEADLOCK FALSE`. The bounds of `AlertsSweep` leave
room for every alert its changes can cause, so fairness is never met by an exhausted
counter; that is why it has one runner of the rules, the sweeper. With a second, an
upload, the number of duplicates has no such bound. Slots are interchangeable in
`ApiRequests` and `Clients`, which check safety only and use their symmetry.

Fairness. In `Ingest` and `Alerts` the timer is weakly fair (`setInterval`,
`server.ts` 452-474), so are the steps of a sweep, whose errors per tank are
caught (`alert-sweep-service.ts` 82-91). The run of the rules succeeds infinitely often
if it is tried infinitely often, on `HealthyTanks` in `Ingest` and on the tank of
`Alerts`: a store that fails at the same step for ever would refute any liveness.
Nothing is assumed of uploads, operators or reviewers. Serverless deployments run
no timer: there `StoredIsEvaluated` and its kin hold only as far as somebody calls
the sweep's route. In `ColdStart` a run of the migrations or a start that began goes on
until its process ends, a query may fail whenever it likes, and PostgreSQL grants an
advisory lock in the order of the requests. `Requests` and `Clients` state no fairness,
and no liveness is claimed of them: a client may stop at any time.

### Disagreements met while modelling

Three runs, each of one property in the words of a comment, a doc or a
test, end in a violation; `PROJECT.json`, `findings`, quotes the lines.

- `DevicesTwoActive`: two overlapping assignments of one device leave two active
  rows, for neither a transaction nor an index forbids it.
- `ReportsOpening`: over PostgreSQL a report opens with the last reading of the tank, even
  one after the window, for the list drops a bound that is alone. The balance over
  PostgreSQL therefore says little; `TankReports` is over the memory store. For the same
  reason the dashboard's deliveries of 30 days and readings of 24 hours count every row.
- `MigrationsAborted`: a migration aborted by a failing statement counts as applied,
  because the record of its failure is refused too; so does one whose start ended
  between its row and its file.

The same absence of transactions and of indexes shows elsewhere when a constant of a
passing run is changed, which says what these results rely on:

- `Overlap = TRUE` in `AlertsSerial`: an acknowledgement that read the alert before another
  write undoes it. With two operators, two confirmations save two deliveries and one
  decision undoes another; with two runners, a movement is recorded and an alert is
  raised twice
  (`ResolvedIsFinal`, `OneDeliveryPerEvent`, `DecisionsAreFinal`, `OneEventPerMovement`,
  `OneOpenAlert`).
- `Overlap = TRUE` and two callers in `DevicesSerial`, over PostgreSQL: `touch` revives a device retired
  between its read and its write (`OnlyOperatorsRestore`).
- `Database = FALSE` in `IngestRetries`: the memory adapter appends a retried sample twice
  (`ImplementsLedger`). `Database = TRUE` in `AlertsSerial`: the table of deliveries has one volume
  column (`VolumesKeptApart`).
- Without its exception for starts that overlap, `SeededIsInstalled` fails over memory stores:
  the process caches the server of one start and remembers the seed of another, so it
  serves an empty store until it ends.

The properties are worded around more peculiarities of the code, which they neither
require nor forbid.

*Events and reports.* After a silence beyond the lookback the sweep records the last
movement again (`event-service.ts` 70-71 says once), as does any run when fifty newer events
fill the list it looks at; both properties about recording once except exactly that. A delivery that is still flowing is
recorded again, larger, and the confirmed volumes of the two add up beyond the rise; a rejected
candidate is raised again by the next run, and counts as a candidate decrease in the
reconciliation; a rise that holds at a second, equal reading is no candidate unless the first was
seen as the latest; a movement of twice the threshold scores 1, where `domain/event.ts` 96-97
says 0.75; a confirmation that stopped between its two writes cannot be completed, its
retries being refused. A delivery confirmed on the instant two windows share is deducted
in both; one whose confirmation began in a window and is saved after its end changes a report
that was made in between, which `DeliveredIsSettled` therefore excepts. The note "Invalid readings are excluded from every volume column"
(`report-service.ts` 262) is not true of opening, closing and change, nor of the buckets of
the trend, whose list is ascending, so that of a window with more than 500 readings the newest
are in no bucket. A stale volume is shown as the stock of the inventory, marked as stale. Strapping
tables whose volumes fall are accepted, where `geometry.ts` 122-123 takes them to rise.
The critical finding of a faulty probe is hidden by the open warning of a suspect one, but a run
that finds both at once raises two alerts of one type. The rules see 32 readings: as many
invalid ones hide a usable reading that is recent, and the tank counts as silent.

*API and starts.* The limiter is said to refuse "before any query runs" (`server.ts` 410-412,
`auth.ts` 81-83), but the lookup and the last use come first. A service that fails between two
writes answers `internal_error` with the first one stored, and ingestion may refuse a sample
after it registered the simulated device that sent it. Every cold start of the
function over a durable database adds the two demo tanks again, which have random ids; a
long-lived server that seeds one cannot start a second time, its station being there.
An update of a tank may leave its thresholds in any order, which its creation may
not; the simulator then refuses the tank. `docs/alert-rules.md` is referred to and absent.

*Console.* `/stations?new=1` opens the form of a new station whatever the scopes, which
`OfferedIsAccepted` excepts. A dip has a new idempotency key per submission, so one that is sent
again is stored twice and "That dip was already recorded." cannot appear. Forms of dips,
decisions and notes do not check the upper limits of the API. The pages of a tank and of
a device keep an open form when only the id in the address changes. A poll every 30 s
drops the load in flight, so a page whose answers take longer never loads, and a poll that
fails closes an open form. One busy row of a list enables the others' buttons. Saving a
tank does not ask for its readings again, so only the loads a handler names are promised
to be current.

*Simulator.* `--latency-ms` has no effect; a failure rate above two thirds fails every poll;
water in a drained tank stays above the product, so the API rejects it for ever. The level is
clamped to the tank before it is rounded to hundredths of a millimetre, so that a full tank of
2500.006 mm reports 2500.01 and the platform calls the reading invalid.

## 4. What is proved

Every theorem holds for every value of the constants under the assumptions their modules
name (`DevicesAssumption` and so on, one per module), and under the hypothesis in the last column. The assumptions
give the constants their types, bounds included, and say what the code or the schema
grants: no window holds more deliveries or events than a list (`ReportsAssumption`), a strapping table
starts at level 0 and rises in level, its table's capacity is safe and what the samples
measure is among the volumes (`MeasuresAssumption`, `ReportsAssumption`; the thresholds of a
tank may be in any order), the simulator has
a tank to feed (`SimulatorAssumption`), and `Nil` and the name of the database are none of the
values they stand beside.

Two hypotheses recur. `~Overlap`: calls do not overlap, though each may still end at
any await; section 3 says what happens otherwise. `Database` or `~Database`: the adapter. The
theorems about one tank order the readings of one instant as the memory adapter does. Where they
carry no hypothesis, they hold over PostgreSQL of a tank no two of whose readings share an
instant; what is said across two queries is stated of the memory adapter.

| Theorem | States | Hypothesis |
|---|---|---|
| **Registry and ingestion** | | |
| `DevTypeCorrect`, `IngTypeCorrect` | type invariants | |
| `SerialsUniqueInDatabase` | `SerialsUnique` | `Database` |
| `HistoryIsKept` | `HistoryKept` (action property) | |
| `OneActiveWithoutOverlap` | `OneActivePerDevice` | `~Overlap` |
| `CurrentWithoutOverlap` | `CurrentIsLastAnswered` | `~Overlap` |
| `RetiredStayWithoutOverlap` | `OnlyOperatorsRestore` (action property) | `~Overlap` |
| `RetiredStayInMemory` | `OnlyOperatorsRestore` | `~Database` |
| `HardwareReadingsAttributable` | `HardwareIsAttributable` | |
| `AnswersAreTrue` | `AnswersAreStored` | |
| `OneReadingInDatabase` | `OneReadingPerKey` | `Database` |
| `IngestImplementsLedger` | `ImplementsLedger` (refinement) | `Database` |
| **Events and alerts** | | |
| `EvTypeCorrect`, `AlTypeCorrect` | type invariants | |
| `ConfirmedEventsHaveDeliveries`, `AlertsKeepDeliveries` | `ConfirmedHasDelivery` | |
| `VolumesApartInMemory` | `VolumesKeptApart` | `~Database`; false otherwise |
| `OneDeliveryWithoutOverlap`, `AlertsConfirmOnce` | `OneDeliveryPerEvent` | `~Overlap` |
| `OneEventWithoutOverlap`, `AlertsRecordOnce` | `OneEventPerMovement` | `~Overlap` |
| `DecisionsFinalWithoutOverlap`, `AlertsKeepDecisions` | `DecisionsAreFinal` (action property) | `~Overlap` |
| `OneAlertWithoutOverlap` | `OneOpenAlert` | `~Overlap` |
| `ResolvedFinalWithoutOverlap` | `ResolvedIsFinal` (action property) | `~Overlap` |
| **One tank: detection, rules, reports** | | |
| `RepTypeCorrect` | type invariant | |
| `DetectedOnce` | `OneEventPerObservation` | |
| `FallsCountedOnce` | `DecreasesDisjoint` | |
| `StaleIsSilent` | `SilenceIsReported` | |
| `DashboardAgreesInMemory` | `HealthyIsUnalarmed` | `~Database` |
| `ReportsAgreeInMemory` | `ReportsAgree` | `~Database` |
| `DeliveredStaysSettled` | `DeliveredIsSettled` (action property) | |
| `ResidualsAddInMemory` | `ResidualsAddUp` | `~Database` |
| `OpensBeforeInMemory` | `OpeningIsBefore` | `~Database`; `ReportsOpening` refutes it otherwise |
| `TrendKeepsAll` | `TrendKeepsReadings` | |
| **Requests** | | |
| `LimiterBoundsBursts`, `ApiBoundsBursts` | `BurstIsBounded`, of the limiter and inside the server | |
| `LimiterRefusesFairly` | `RefusedHavingSpent` | |
| `LimiterHintsHonestly` | `RetryHintIsHonest` | |
| `ReqTypeCorrect` | type invariant | |
| `UsableKeysAreAdmitted` | `UsableIsAdmitted` | |
| `RevokedKeysAreRefused` | `RevokedIsRefused` | |
| `AnswersAreHonest` | `AnswersMatchEffects` | |
| `StatusesAreRecent` | `StatusIsRecent` (action property) | |
| **Process start** | | |
| `MigTypeCorrect`, `ColdTypeCorrect` | type invariants | |
| `MigrationsAppliedOnce`, `StartsApplyOnce` | `AppliedOnce`, of the runner and under the starts | |
| `MigrationsSkipped`, `StartsSkipOnlyCut` | `SkippedWereCut` | |
| `MigrationsRecorded`, `MigrationsInOrder` | `CommittedIsRecorded`, `AppliedInOrder` | |
| `SeedsAreInstalled` | `SeededIsInstalled` | |
| `RevocationsLast` | `RevokedStaysRevoked` | |
| **Clients** | | |
| `ConTypeCorrect` | type invariant of the console | |
| `SessionsAreOfLastKey` | `SessionIsOfLastKey` | |
| `PagesSettle` | `SettledIsCurrent` | |
| `PagesNeverGoBack` | `ShownNeverGoesBack` (action property) | |
| `OffersAreAccepted` | `OfferedIsAccepted` | |
| `RunsTellTheTruth` | `OutcomesAreTrue` | |
| `SimulatedStaysPhysical` | `SimulatedIsPhysical` | |

Each rests on an inductive invariant: a lemma that the initial states satisfy it, a
lemma with one step per action that every step keeps it, and the theorem by temporal
reasoning. An action property follows from the invariant and one more look at the step.

*Registry.* `DevTypeOK` is not inductive: what is written was read at an earlier
step. `DevInv` adds what each `pc` knows (`CallsOK`): a call that waits to save
holds a row, one that waits to end an assignment holds its id. With `DevInv`,
`SerialsUnique` is inductive: only `save` writes a serial number, and the index
refuses a second use. For one active assignment, `SerialInv` adds that at most one call is
in progress (`OneCall`) and that the assignment it is about to end, or has ended,
is the active one (`EndsTheActive`), so that it saves on a device that has none. For the
history, `NumberedInv` says that the rows are numbered `1..n`, so that the id of a
new row is neither used nor ended; the proof needs the cardinality of a finite
set extended by one element. That a device is where the last answer left it (`CurrentInv`)
fails for a moment, between the end of the old assignment and the save of the new one; the
invariant names that moment (`Reassigning`), and that a call ends an assignment of its own
device (`EndsItsOwn`). A retired device stays so because what `touch` has read is still so
when it writes: without overlap by `TouchFresh`, in memory because nobody waits there
(`NoTouchWaits`).

*Ingestion.* The invariant `IngInv` adds `RequestsOK`: what a request knows at
each `pc`. The step that matters is that a hardware sample which passed the check
of its assignment stays `Attributable` although the assignment may end, because
the history only grows. The refinement maps the ledger to `readings` and a
client's answer to `reply`: `Append` is `Record`, `LookupKey` and `RunRules` are
`Accept`, a refused, lost or new request is `Silence`, and all other steps stutter.

*Events.* `ConfirmedHasDelivery` needs two facts about what calls know: a review has read a
row (`ReviewsOK`), and a call that is about to mark an event has saved its delivery
(`SavedFirst`); deliveries are never removed, so no other call can undo it. The results
without overlap rest on `SerialInv`: one call at a time (`OneCall`), numbered rows
(`NumberedEvents`), and what a call has read being still so when it writes, namely the
row a review decides (`ReadIsCurrent`), the absence of a delivery (`NotYetDelivered`) and
of an event that covers a draft (`DraftsAreNew`). The last holds of a movement only while
it ended since the run began to look and no more events than `EventRows` did (`Unrecorded`): time
may pass under a run, so what is `late` is judged at the save.

*Alerts.* To the events, every step of the rules or of an operator is a step of `EvNext`
or one of a caller that only reads (`EventStep`); this carries the theorems about
`EvSpec` over to the composition, where runs of the rules call the detection. For the alerts,
`AlertInv` says that one caller is busy, in the rules or in the event service
(`OneBusy`), that rows are numbered, and that what a run or a request has read is so when it
is written (`JobIsCurrent`): nothing a run has still to save has an open alert, and the
row an operator writes back revises the row that is there, so it cannot open it again.

*One tank.* The proofs are for any number of readings that arrive in any order, so they need
induction, maxima and sums over finite sets. The library's induction takes a predicate as
a parameter, which the prover cannot instantiate; here it is derived for sets of
sets (`SetInduction`), from the well-foundedness of the strict subsets of a finite set.
From it follow that a total order has a greatest element (so the `CHOOSE`s of
`LatestOf`, `Lowest` and `Highest` find what the code's sorting finds), minimum and
maximum, and that the community modules' sum is what one expects: it exists (`SumsExist`), does
not depend on the order (`SumWithout`), and counts twice what two sets share
(`SumOfUnion`). `DetInv` adds to the types that ids tell readings apart, that no event has an
instant to come, and that a candidate delivery rose. A draft that is new cannot
overlap an older decrease since its first reading is the last but one: nothing usable lies
between the two (`DetectKeeps`). Residuals add up since the closing of the first window is the
opening of the second, and the deliveries in common are those of the shared instant. That the
summary and the rules agree comes down to the last reading being the last usable one
when it is usable, and among the recent ones. What a settled window had delivered stays, since
a delivery bears the instant its confirmation began at, which is now or that of one under way. The one theorem about arithmetic, `TrendKeepsAll`, is that the
quotient which is cut off at the last bucket keeps its span (`CutQuotient`).

*Requests.* A burst is bounded not by the count of a window alone: `LimiterInv` says that
the window began with an attempt, that its count is of the attempts since, and that
the span before it, as long as a window, holds fewer than the budget. The
refusals follow, as does the hint. `CredInv` gives the age of the cached status and of the query in flight, and
that each was true, or has been outdated since; `RequestInv` gives what a request
knows at each await: that it was not late when it passed the lookup, that writes are stored
only while its service is under way or after it completed, and which answers that leaves
(`MayAnswer`).

*Process start.* That a file is committed at most once is not inductive: it needs
`Exclusive` (a run beyond the lock holds it), `PendingIsFresh` (what the holder
still has to apply was never committed) and `RowFirst` (the row is there before
the file runs). `CommittedIsRecorded` then follows with the case of a failure,
which can only concern the file that did not commit. The order needs a second invariant,
`OrderInv`: a file that counts as applied to no run in progress was committed or cut
off (`SkippedOrUnderway`), what a run leaves out of its list was committed or cut off
(`RestOK`), and a session is aborted only at the failure of a statement. A start is a run of
the migrations that goes on, and a process that ends is its runs crashing at once,
so both invariants hold of `ColdSpec`. `SeedInv` adds what each step of the seed has
installed unless one failed (`SeededSoFar`), and, over memory stores, whose store a
process serves (`OwnStore`, `OneStart`, `MemorySeeded`).

*Clients.* `SessionInv`: one connect at most awaits an answer, that of the key submitted last.
`LoadInv`: one request is awaited, for the record of the address and with the key of
the session, and what it read is not older than what is shown nor than the last
reload. `SaveInv`: a save that is offered has the scope the route asks for, and
what a form lets through fits the schema, draft by draft. `SimInv`: a run has told of the tanks
before the one at hand and of no other, truly; a stepped gauge stays within its
tank, what is shown of it is its rounding (`RoundedIsShown`) and so higher by half a grain at most,
and the API refuses the samples of one with more water than product.

Only model-checked: all liveness (`StoredIsEvaluated`, `PersistentIsAlerted`,
`OverIsClosed`, `StartsEnd`: reasoning with fairness and `ENABLED` is beyond the prover).
Every other property of a passing run is stated by a theorem. What is proved and no run
checks, because a stronger property or a larger run covers it or because the theorem says
more than a run could: `DevTypeOK`, `AnswersAreStored` and `OneReadingPerKey` (in
`ImplementsLedger`), the types of the other modules, `CommittedIsRecorded`, `AppliedInOrder`, `RefusedHavingSpent`,
`RetryHintIsHonest`, `TrendKeepsReadings` and `VolumesKeptApart`.

## 5. What is not modelled

See `PROJECT.json`, `components`. Left out for good: formats and wording, the cells of a
report table, logging, the API description, the drawing of the pages, the formula of a
horizontal cylinder (a cylinder is a table), the rounding of litres to millilitres and
floating point (the simulator's rounding of a level is modelled), hashing and random numbers, static files and CORS. Left out because
nothing decides on them: the descriptive columns of stations, tanks and devices, users
and their station scopes (no code path reads them), paging and sorting of the lists of the API. Left out to keep the state spaces small: the rule of
delays in transit, which compares two instants of one reading; how many devices of a tank are
offline, of which `AlertDrafts` only says whether any is (`Alerts` has one condition for each);
totals over several tanks; the counting of the second limiter, of ingestion, whose refusals are
among those of a service; more than one save under way in the console; and a console and a
simulator at work at once. `Reports` takes a decision and its delivery for one write, which
`Events` does not, and does not let decisions of one event overlap. The state of an open form is not modelled, and with it the form of
one tank that is saved on another.

## 6. Plan

Done, in this order: `Devices`, `ReadingLedger` and `Ingest` (the ledger is what the
platform is for), `Detection`, `Events`, `Alerts`, `Migrations`, `RateLimiter` with the proofs
of `Devices`, `Ingest`, `Events` and `Migrations`; then `Credentials`, `Requests`, `ColdStart`,
`AlertRules`, `Measures`, `Reports`, `Forms`, `Pages`, `Console`, `Simulator` and `Clients`,
each joined to a run.

Then the proofs of `Requests`, `Alerts`, `ColdStart`, `Clients` and `Reports`: every safety property and every action
property of the passing runs now has a theorem. What is left:

1. A registry in which an assignment is one step, implemented by `Devices` without
   overlap; a decision that is one step, implemented by `Events` without overlap. They
   would state `CurrentIsLastAnswered` and `DecisionsAreFinal` at once, as the ledger
   does for ingestion.
2. `Measures`: that a strapping table which rises gives a volume that rises with the level, and
   that a level measured back from a volume has that volume; with it `SimulatedIsPhysical`
   would say something of volumes too.
3. The state of an open form, and with it the form of one tank saved on another.
