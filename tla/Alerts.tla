-------------------------------- MODULE Alerts --------------------------------
(***************************************************************************)
(* The alerts of one tank: IngestService.runRules, which every upload and  *)
(* every sweep runs, and the operators' acknowledge, resolve and assign of *)
(* FleetService, over the events and reviews of Events.                    *)
(*                                                                         *)
(* The rules judge the readings, the devices and the candidate events,     *)
(* raise an alert of each finding whose type none has, and resolve those   *)
(* whose type they no longer find.  They are not a transaction: between    *)
(* the reads and the writes, operators, reviewers and other runs get in,   *)
(* and a run may stop anywhere.                                            *)
(*                                                                         *)
(* What makes a condition hold (thresholds, ages, quality) is the          *)
(* environment's choice.  Left out: messages and the metrics.              *)
(***************************************************************************)
EXTENDS Events

CONSTANTS
  Runners,     \* the callers that run the rules: uploads and the sweep
  Sweeper,     \* the runner that is the timer of a long-lived process
  Operators,   \* the callers that handle alerts and review events
  Conditions,  \* what the rules may find: [type, of, severity], of a tank or a device
  CandidateRows, \* the limit of candidateEvents
  MaxAlerts,   \* bound on the rows of alerts
  MaxChanges   \* bound on the changes of the tank and the operators' requests

ConditionTypes == {"low_stock", "critical_stock", "device_offline", "stale_data",
                   "probe_quality", "water_level"}
AlertTypes == ConditionTypes \union EventTypes

Subjects == {x.of : x \in Conditions} \union 1..MaxEvents
Severities == {"info", "warning", "critical"}
Draft == [type: AlertTypes, of: Subjects, severity: Severities]
Alert == [id: 1..MaxAlerts, type: AlertTypes, of: Subjects, severity: Severities,
          status: {"open", "acknowledged", "resolved"},
          seen: BOOLEAN,       \* acknowledgedAt is set
          assigned: BOOLEAN]   \* assignedTo is set

ASSUME AlertsAssumption ==
  /\ Runners \subseteq Callers
  /\ Operators \subseteq Callers
  /\ Sweeper \in Runners
  /\ \A x \in Conditions : /\ x = [type |-> x.type, of |-> x.of, severity |-> x.severity]
                            /\ x.type \in ConditionTypes /\ x.severity \in Severities
  /\ CandidateRows \in Nat
  /\ MaxAlerts \in Nat
  /\ MaxChanges \in Nat
  /\ Nil \notin Alert

VARIABLES
  cond,    \* the conditions that hold
  alerts,  \* the rows of alerts
  job,     \* job[c]: the run of the rules, or the operator's request, under way
  changes  \* how often the tank changed or an operator asked for something

alVars == <<cond, alerts, job, changes>>
allVars == <<evVars, alVars>>

\* The pc of a job names what it awaits.
JobPc == {"idle", "candidates", "open", "write", "detect", "eventWrite", "update"}

Job == [pc: JobPc,
        seen: SUBSET Movements,           \* the movements the readings show
        drafts: SUBSET Draft,             \* what the rules found
        todo: SUBSET Draft,               \* the alerts to save
        stale: SUBSET Alert,              \* the alerts to resolve, as they were read
        row: Alert \union {Nil}]          \* the row an operator writes back

NoJob == [pc |-> "idle", seen |-> {}, drafts |-> {}, todo |-> {}, stale |-> {}, row |-> Nil]

AlTypeOK ==
  /\ EvTypeOK
  /\ cond \subseteq Conditions
  /\ alerts \subseteq Alert
  /\ job \in [Callers -> Job]
  /\ changes \in 0..MaxChanges

AlInit ==
  /\ EvInit
  /\ cond = {}
  /\ alerts = {}
  /\ job = [c \in Callers |-> NoJob]
  /\ changes = 0

-----------------------------------------------------------------------------

Free(c) ==
  /\ job[c].pc = "idle" /\ call[c].pc = "idle"
  /\ Overlap \/ \A o \in Callers : job[o].pc = "idle" /\ call[o].pc = "idle"

Change == changes < MaxChanges /\ changes' = changes + 1

\* Mutant: acknowledged alerts are not listed.
ListedAsOpen == {a \in alerts : a.status = "open"}

\* alerts.listOpenByTank.
OpenAlerts == {a \in alerts : a.status \in {"open", "acknowledged"}}

Types(S) == {x.type : x \in S}

\* selectNewAlertDrafts and selectResolvedAlerts: on one tank, by type, against
\* the alerts that were listed.  Two drafts of one type are both new.
NewDrafts(drafts, open) == {d \in drafts : d.type \notin Types(open)}
ResolvedAlerts(drafts, open) == {a \in open : a.type \notin Types(drafts)}

EventDraft(e) ==
  [type |-> e.movement.type, of |-> e.id,
   severity |-> IF e.movement.type = "candidate_delivery" THEN "info" ELSE "warning"]

\* Mutant: only runs that record an event look at events.
NoCandidateDrafts(listed) == {}

\* candidateAlertDrafts, of the events that are listed.
CandidateDrafts(listed) == {EventDraft(e) : e \in listed}

-----------------------------------------------------------------------------
(* runRules                                                                *)

\* The readings and the assigned devices are read, and the rules evaluated.
BeginRules(c) ==
  /\ Free(c)
  /\ job' = [job EXCEPT ![c] = [NoJob EXCEPT !.pc = "candidates", !.seen = shown,
                                             !.drafts = cond]]
  /\ UNCHANGED <<evVars, cond, alerts, changes>>

\* candidateEvents.
ListCandidates(c) ==
  /\ job[c].pc = "candidates"
  /\ \E listed \in Newest({e \in events : e.status = "candidate"}, CandidateRows) :
       job' = [job EXCEPT ![c].pc = "open", ![c].drafts = @ \union CandidateDrafts(listed)]
  /\ UNCHANGED <<evVars, cond, alerts, changes>>

ListOpen(c) ==
  /\ job[c].pc = "open"
  /\ job' = [job EXCEPT ![c].pc = "write",
                        ![c].todo = NewDrafts(job[c].drafts, OpenAlerts),
                        ![c].stale = ResolvedAlerts(job[c].drafts, OpenAlerts)]
  /\ UNCHANGED <<evVars, cond, alerts, changes>>

\* alerts.save of one draft; their order is left open.
SaveAlert(c, d) ==
  LET id == Cardinality(alerts) + 1 IN
  /\ job[c].pc \in {"write", "eventWrite"}
  /\ d \in job[c].todo
  /\ id \in 1..MaxAlerts
  /\ alerts' = alerts \union {[id |-> id, type |-> d.type, of |-> d.of,
                               severity |-> d.severity, status |-> "open",
                               seen |-> FALSE, assigned |-> FALSE]}
  /\ job' = [job EXCEPT ![c].todo = @ \ {d}]
  /\ UNCHANGED <<evVars, cond, changes>>

\* alerts.update writes the row it is given over whatever the row is now.
Written(row) == {a \in alerts : a.id # row.id} \union {row}

ResolveStale(c, a) ==
  /\ job[c].pc = "write" /\ job[c].todo = {}
  /\ a \in job[c].stale
  /\ alerts' = Written([a EXCEPT !.status = "resolved"])
  /\ job' = [job EXCEPT ![c].stale = @ \ {a}]
  /\ UNCHANGED <<evVars, cond, changes>>

\* The alerts are written; detectAndRecord runs over the same readings.
DetectEvents(c) ==
  /\ job[c].pc = "write" /\ job[c].todo = {} /\ job[c].stale = {}
  /\ BeginDetect(c, job[c].seen)
  /\ job' = [job EXCEPT ![c] = [NoJob EXCEPT !.pc = "detect"]]
  /\ UNCHANGED <<cond, alerts, changes>>

\* raiseEventAlerts, when the run recorded an event; otherwise it is over.
RaiseEventAlerts(c) ==
  LET drafts == {EventDraft(e) : e \in {f \in events : f.id \in call[c].created}} IN
  /\ job[c].pc = "detect" /\ call[c].pc = "idle"
  /\ job' = [job EXCEPT ![c] = IF drafts = {} THEN NoJob
                               ELSE [@ EXCEPT !.pc = "eventWrite",
                                              !.todo = NewDrafts(drafts, OpenAlerts)]]
  /\ call' = [call EXCEPT ![c] = Returned("ok")]
  /\ UNCHANGED <<since, shown, events, deliveries, cond, alerts, changes>>

EndRules(c) ==
  /\ job[c].pc = "eventWrite" /\ job[c].todo = {}
  /\ job' = [job EXCEPT ![c] = NoJob]
  /\ UNCHANGED <<evVars, cond, alerts, changes>>

-----------------------------------------------------------------------------
(* The operators' requests: the alert is read, changed and written back.    *)

Request(c, row) ==
  /\ Free(c)
  /\ Change
  /\ job' = [job EXCEPT ![c] = [NoJob EXCEPT !.pc = "update", !.row = row]]
  /\ UNCHANGED <<evVars, cond, alerts>>

\* Mutant: a resolved alert can be acknowledged.
AcknowledgeAny(c, a) ==
  Request(c, [a EXCEPT !.status = "acknowledged", !.seen = TRUE])

AcknowledgeAlert(c, a) ==
  /\ a.status # "resolved"
  /\ Request(c, [a EXCEPT !.status = "acknowledged", !.seen = TRUE])

\* An alert that nobody had looked at is acknowledged as it is resolved.
ResolveAlert(c, a) ==
  /\ a.status # "resolved"
  /\ Request(c, [a EXCEPT !.status = "resolved", !.seen = TRUE])

\* assignAlert looks at no status.
AssignAlert(c, a, someone) == Request(c, [a EXCEPT !.assigned = someone])

UpdateAlert(c) ==
  /\ job[c].pc = "update"
  /\ alerts' = Written(job[c].row)
  /\ job' = [job EXCEPT ![c] = NoJob]
  /\ UNCHANGED <<evVars, cond, changes>>

-----------------------------------------------------------------------------

\* The process ends or the store fails: what is written stays.
Lose(c) ==
  /\ job[c].pc # "idle" \/ call[c].pc # "idle"
  /\ job' = [job EXCEPT ![c] = NoJob]
  /\ call' = [call EXCEPT ![c] = Returned("refused")]
  /\ UNCHANGED <<since, shown, events, deliveries, cond, alerts, changes>>

RulesStep(c) ==
  \/ ListCandidates(c)
  \/ ListOpen(c)
  \/ \E d \in job[c].todo : SaveAlert(c, d)
  \/ \E a \in job[c].stale : ResolveStale(c, a)
  \/ DetectEvents(c)
  \/ RaiseEventAlerts(c)
  \/ EndRules(c)

\* What an operator asks for: to handle an alert, or to decide an event.
Handle(c) ==
  \/ \E a \in alerts : AcknowledgeAlert(c, a)
  \/ \E a \in alerts : ResolveAlert(c, a)
  \/ \E a \in alerts, someone \in BOOLEAN : AssignAlert(c, a, someone)
  \/ Free(c) /\ Change /\ Review(c) /\ UNCHANGED <<cond, alerts, job>>

Hold(conditions) ==
  /\ Change
  /\ conditions # cond
  /\ cond' = conditions
  /\ UNCHANGED <<evVars, alerts, job>>

\* The tank changes: what its readings show, the conditions that hold, or the
\* age of both.
Tank ==
  \/ \E movements \in SUBSET Movements :
       Show(movements) /\ Change /\ UNCHANGED <<cond, alerts, job>>
  \/ \E conditions \in SUBSET Conditions : Hold(conditions)
  \/ Age /\ Change /\ UNCHANGED <<cond, alerts, job>>

AlNext ==
  \/ Tank
  \/ \E c \in Runners : BeginRules(c) \/ RulesStep(c)
  \/ \E c \in Operators : Handle(c) \/ UpdateAlert(c)
  \/ \E c \in Callers : (Continue(c) /\ UNCHANGED alVars) \/ Lose(c)

AlSpec == AlInit /\ [][AlNext]_allVars

\* The timer keeps firing, and its runs do not fail at the same step for ever.
\* Nothing is assumed of the uploads and of the operators.
SweepFairness ==
  /\ WF_allVars(BeginRules(Sweeper))
  /\ SF_allVars(ListCandidates(Sweeper))
  /\ SF_allVars(ListOpen(Sweeper))
  /\ SF_allVars(\E d \in job[Sweeper].todo : SaveAlert(Sweeper, d))
  /\ SF_allVars(\E a \in job[Sweeper].stale : ResolveStale(Sweeper, a))
  /\ SF_allVars(DetectEvents(Sweeper))
  /\ SF_allVars(Continue(Sweeper) /\ UNCHANGED alVars)
  /\ SF_allVars(RaiseEventAlerts(Sweeper))
  /\ SF_allVars(EndRules(Sweeper))

FairAlSpec == AlSpec /\ SweepFairness

-----------------------------------------------------------------------------
(* Properties                                                              *)

OpenOf(type) == {a \in alerts : a.type = type /\ a.status # "resolved"}

\* What calls for an alert of this type now: a condition, or an event that
\* awaits a decision.
Calling(type) ==
  {x \in cond : x.type = type}
    \union {e \in events : e.movement.type = type /\ e.status = "candidate"}

\* A condition that persists does not spam new records (the comment of
\* selectNewAlertDrafts): a tank, device or event has one open alert of a
\* finding at most, acknowledged or not.  The two findings about the probe, a
\* suspect reading and a run of invalid ones, may both be open if one run found
\* them; nothing else of a type is raised twice.  It holds when runs do not
\* overlap, whatever is lost.
OneOpenAlert ==
  \A type \in AlertTypes : \A a, b \in OpenOf(type) :
    a.of = b.of /\ a.severity = b.severity => a = b

\* A resolved alert is closed for good: no later acknowledgement or assignment
\* opens it again.  It holds when operators and rules do not overlap.
ResolvedIsFinal ==
  [][\A a \in alerts : a.status = "resolved" =>
       \E b \in alerts' : b.id = a.id /\ b.status = "resolved"]_allVars

\* The types an alert can have here.
Raisable == Types(Conditions) \union Types(Movements)

\* A condition that goes on holding, or an event that goes on waiting for a
\* decision, has an open alert of its type again and again, though uploads
\* are lost and operators resolve or overwrite what the rules raised.
PersistentIsAlerted ==
  \A type \in Raisable : <>[](Calling(type) # {}) => []<>(OpenOf(type) # {})

\* An alert closes when its condition is over or its event is decided, by
\* whatever steps it was raised, acknowledged, reopened or raised twice.
OverIsClosed ==
  \A type \in Raisable : <>[](Calling(type) = {}) => []<>(OpenOf(type) = {})
=============================================================================
