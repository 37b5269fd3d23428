----------------------------- MODULE AlertsProofs -----------------------------
(***************************************************************************)
(* Proofs about the alerts of a tank, for any conditions, callers and      *)
(* rows: the rules, the operators and the detection of Events they run.    *)
(*                                                                         *)
(* Every step keeps the types and what EventsProofs says of the events,    *)
(* also when runs and requests overlap.  When they do not, AlertInv says   *)
(* that what a run or an operator has read is so when it is written.       *)
(***************************************************************************)
EXTENDS Alerts, EventsProofs

-----------------------------------------------------------------------------
(* Types                                                                   *)

LEMMA JobOfCaller ==
  ASSUME AlTypeOK, NEW c \in Callers
  PROVE  job[c] \in Job
BY DEF AlTypeOK

LEMMA WorkOfCaller ==
  ASSUME AlTypeOK, NEW c \in Callers
  PROVE  job[c].todo \subseteq Draft /\ job[c].stale \subseteq Alert
BY JobOfCaller DEF Job

LEMMA NoJobIsJob == NoJob \in Job /\ NoJob.pc = "idle"
BY DEF NoJob, Job, JobPc

\* What a step does to the jobs when it changes the job of c only.
LEMMA OneJobChanges ==
  ASSUME AlTypeOK, NEW c \in Callers, NEW q \in Job, job' = [job EXCEPT ![c] = q]
  PROVE  job' \in [Callers -> Job] /\ job'[c] = q /\ \A o \in Callers \ {c} : job'[o] = job[o]
BY DEF AlTypeOK

LEMMA ConditionsAreDrafts == Conditions \subseteq Draft
BY AlertsAssumption DEF Draft, AlertTypes, Subjects

LEMMA EventsAreDrafts ==
  ASSUME EvTypeOK, NEW e \in events
  PROVE  EventDraft(e) \in Draft
<1>1. e.movement.type \in EventTypes /\ e.id \in 1..MaxEvents
  BY EventsAssumption DEF EvTypeOK, FuelEvent
<1> QED BY <1>1 DEF EventDraft, Draft, AlertTypes, EventTypes, Subjects, Severities

LEMMA OpenAreAlerts ==
  ASSUME AlTypeOK
  PROVE  OpenAlerts \subseteq Alert
BY DEF AlTypeOK, OpenAlerts

\* The alert that a draft becomes, and the row that is written back.
Raised(d) ==
  [id |-> Cardinality(alerts) + 1, type |-> d.type, of |-> d.of, severity |-> d.severity,
   status |-> "open", seen |-> FALSE, assigned |-> FALSE]

LEMMA RaisedIsAlert ==
  ASSUME NEW d \in Draft, Cardinality(alerts) + 1 \in 1..MaxAlerts
  PROVE  /\ Raised(d) \in Alert /\ Raised(d).id = Cardinality(alerts) + 1
         /\ Raised(d).type = d.type /\ Raised(d).of = d.of /\ Raised(d).severity = d.severity
         /\ Raised(d).status = "open"
BY DEF Raised, Alert, Draft

LEMMA BeginRulesJob ==
  ASSUME AlTypeOK, NEW c \in Callers, BeginRules(c)
  PROVE  \E q \in Job : job' = [job EXCEPT ![c] = q] /\ q.pc = "candidates"
<1> DEFINE q == [NoJob EXCEPT !.pc = "candidates", !.seen = shown, !.drafts = cond]
<1>1. shown \in SUBSET Movements /\ cond \in SUBSET Draft
  BY ConditionsAreDrafts DEF AlTypeOK, EvTypeOK
<1>2. q \in Job /\ q.pc = "candidates"
  BY <1>1 DEF NoJob, Job, JobPc
<1>3. job' = [job EXCEPT ![c] = q]
  BY DEF BeginRules
<1> HIDE DEF q
<1> QED BY <1>2, <1>3

LEMMA ListCandidatesJob ==
  ASSUME AlTypeOK, NEW c \in Callers, ListCandidates(c)
  PROVE  \E q \in Job : job' = [job EXCEPT ![c] = q] /\ q.pc = "open"
<1>0. PICK listed \in Newest({e \in events : e.status = "candidate"}, CandidateRows) :
        job' = [job EXCEPT ![c].pc = "open", ![c].drafts = @ \union CandidateDrafts(listed)]
  BY DEF ListCandidates
<1> DEFINE drafts == job[c].drafts \union CandidateDrafts(listed)
           q == [job[c] EXCEPT !.pc = "open", !.drafts = drafts]
<1>1. drafts \in SUBSET Draft
  <2>1. listed \subseteq events
    BY DEF Newest
  <2> QED BY <2>1, JobOfCaller, EventsAreDrafts DEF AlTypeOK, Job, CandidateDrafts
<1>2. job' = [job EXCEPT ![c] = q]
  BY <1>0 DEF AlTypeOK
<1> HIDE DEF drafts
<1>3. q \in Job /\ q.pc = "open"
  BY <1>1, JobOfCaller DEF Job, JobPc
<1> HIDE DEF q
<1> QED BY <1>2, <1>3

LEMMA ListOpenJob ==
  ASSUME AlTypeOK, NEW c \in Callers, ListOpen(c)
  PROVE  \E q \in Job : /\ job' = [job EXCEPT ![c] = q] /\ q.pc = "write"
                        /\ q.todo = NewDrafts(job[c].drafts, OpenAlerts)
                        /\ q.stale \subseteq OpenAlerts
<1> DEFINE todo == NewDrafts(job[c].drafts, OpenAlerts)
           stale == ResolvedAlerts(job[c].drafts, OpenAlerts)
           q == [job[c] EXCEPT !.pc = "write", !.todo = todo, !.stale = stale]
<1>1. todo \in SUBSET Draft /\ stale \in SUBSET Alert /\ stale \subseteq OpenAlerts
  BY JobOfCaller, OpenAreAlerts DEF Job, NewDrafts, ResolvedAlerts
<1>2. job' = [job EXCEPT ![c] = q]
  BY DEF ListOpen, AlTypeOK
<1> HIDE DEF todo, stale
<1>3. q \in Job /\ q.pc = "write" /\ q.todo = todo /\ q.stale = stale
  BY <1>1, JobOfCaller DEF Job, JobPc
<1> HIDE DEF q
<1> QED BY <1>1, <1>2, <1>3 DEF todo

LEMMA SaveAlertJob ==
  ASSUME AlTypeOK, NEW c \in Callers, NEW d \in Draft, SaveAlert(c, d)
  PROVE  /\ alerts' = alerts \union {Raised(d)} /\ Raised(d) \in Alert
         /\ \E q \in Job : /\ job' = [job EXCEPT ![c] = q] /\ q.pc = job[c].pc
                           /\ q.todo = job[c].todo \ {d} /\ q.stale = job[c].stale
<1> DEFINE q == [job[c] EXCEPT !.todo = @ \ {d}]
<1>1. q \in Job /\ q.pc = job[c].pc /\ q.todo = job[c].todo \ {d} /\ q.stale = job[c].stale
  BY JobOfCaller DEF Job
<1>2. job' = [job EXCEPT ![c] = q]
  BY DEF SaveAlert, AlTypeOK
<1> HIDE DEF q
<1> QED BY <1>1, <1>2, RaisedIsAlert DEF SaveAlert, Raised

LEMMA ResolveStaleJob ==
  ASSUME AlTypeOK, NEW c \in Callers, NEW a \in Alert, ResolveStale(c, a)
  PROVE  /\ [a EXCEPT !.status = "resolved"] \in Alert
         /\ \E q \in Job : /\ job' = [job EXCEPT ![c] = q] /\ q.pc = job[c].pc
                           /\ q.todo = {} /\ q.stale = job[c].stale \ {a}
<1> DEFINE q == [job[c] EXCEPT !.stale = @ \ {a}]
<1>1. q \in Job /\ q.pc = job[c].pc /\ q.todo = job[c].todo /\ q.stale = job[c].stale \ {a}
  BY JobOfCaller DEF Job
<1>2. job' = [job EXCEPT ![c] = q]
  BY DEF ResolveStale, AlTypeOK
<1>3. [a EXCEPT !.status = "resolved"] \in Alert
  BY DEF Alert
<1> HIDE DEF q
<1> QED BY <1>1, <1>2, <1>3 DEF ResolveStale

LEMMA DetectEventsJob ==
  ASSUME AlTypeOK, NEW c \in Callers, DetectEvents(c)
  PROVE  \E q \in Job : job' = [job EXCEPT ![c] = q] /\ q.pc = "detect"
<1> DEFINE q == [NoJob EXCEPT !.pc = "detect"]
<1>1. q \in Job /\ q.pc = "detect"
  BY DEF NoJob, Job, JobPc
<1>2. job' = [job EXCEPT ![c] = q]
  BY DEF DetectEvents
<1> HIDE DEF q
<1> QED BY <1>1, <1>2

LEMMA RaiseEventAlertsJob ==
  ASSUME AlTypeOK, NEW c \in Callers, RaiseEventAlerts(c)
  PROVE  \E q \in Job : /\ job' = [job EXCEPT ![c] = q]
                        /\ \/ q.pc = "idle"
                           \/ /\ q.pc = "eventWrite"
                              /\ \E drafts \in SUBSET Draft : q.todo = NewDrafts(drafts, OpenAlerts)
<1> DEFINE drafts == {EventDraft(e) : e \in {f \in events : f.id \in call[c].created}}
           todo == NewDrafts(drafts, OpenAlerts)
           q == [job[c] EXCEPT !.pc = "eventWrite", !.todo = todo]
<1>1. drafts \in SUBSET Draft /\ todo \in SUBSET Draft
  BY EventsAreDrafts DEF AlTypeOK, NewDrafts
<1>2. job' = [job EXCEPT ![c] = NoJob] \/ job' = [job EXCEPT ![c] = q]
  BY DEF RaiseEventAlerts, AlTypeOK
<1>3. todo = NewDrafts(drafts, OpenAlerts)
  OBVIOUS
<1> HIDE DEF drafts, todo
<1>4. q \in Job /\ q.pc = "eventWrite" /\ q.todo = todo
  BY <1>1, JobOfCaller DEF Job, JobPc
<1> HIDE DEF q
<1> QED BY <1>1, <1>2, <1>3, <1>4, NoJobIsJob

\* The row an operator writes back: of the alert that was read, and resolved
\* if that was.
Revises(row, a) ==
  /\ row \in Alert
  /\ row.id = a.id /\ row.type = a.type /\ row.of = a.of /\ row.severity = a.severity
  /\ a.status = "resolved" => row.status = "resolved"

LEMMA RequestJob ==
  ASSUME AlTypeOK, NEW c \in Callers, NEW row \in Alert, Request(c, row)
  PROVE  \E q \in Job : job' = [job EXCEPT ![c] = q] /\ q.pc = "update" /\ q.row = row
<1> DEFINE q == [NoJob EXCEPT !.pc = "update", !.row = row]
<1>1. q \in Job /\ q.pc = "update" /\ q.row = row
  BY DEF NoJob, Job, JobPc
<1>2. job' = [job EXCEPT ![c] = q]
  BY DEF Request
<1> HIDE DEF q
<1> QED BY <1>1, <1>2

Handles(c, a) ==
  \/ AcknowledgeAlert(c, a)
  \/ ResolveAlert(c, a)
  \/ \E someone \in BOOLEAN : AssignAlert(c, a, someone)

LEMMA HandledRow ==
  ASSUME AlTypeOK, NEW c \in Callers, NEW a \in alerts, Handles(c, a)
  PROVE  \E row \in Alert : Request(c, row) /\ Revises(row, a)
<1>0. a \in Alert
  BY DEF AlTypeOK
<1>1. CASE AcknowledgeAlert(c, a)
  <2> DEFINE row == [a EXCEPT !.status = "acknowledged", !.seen = TRUE]
  <2>1. Request(c, row) /\ a.status # "resolved"
    BY <1>1 DEF AcknowledgeAlert
  <2>2. /\ row \in Alert /\ row.id = a.id /\ row.type = a.type /\ row.of = a.of
        /\ row.severity = a.severity
    BY <1>0 DEF Alert
  <2> HIDE DEF row
  <2> QED BY <2>1, <2>2 DEF Revises
<1>2. CASE ResolveAlert(c, a)
  <2> DEFINE row == [a EXCEPT !.status = "resolved", !.seen = TRUE]
  <2>1. Request(c, row)
    BY <1>2 DEF ResolveAlert
  <2>2. /\ row \in Alert /\ row.id = a.id /\ row.type = a.type /\ row.of = a.of
        /\ row.severity = a.severity /\ row.status = "resolved"
    BY <1>0 DEF Alert
  <2> HIDE DEF row
  <2> QED BY <2>1, <2>2 DEF Revises
<1>3. ASSUME NEW someone \in BOOLEAN, AssignAlert(c, a, someone)
      PROVE  \E row \in Alert : Request(c, row) /\ Revises(row, a)
  <2> DEFINE row == [a EXCEPT !.assigned = someone]
  <2>1. Request(c, row)
    BY <1>3 DEF AssignAlert
  <2>2. /\ row \in Alert /\ row.id = a.id /\ row.type = a.type /\ row.of = a.of
        /\ row.severity = a.severity /\ row.status = a.status
    BY <1>0 DEF Alert
  <2> HIDE DEF row
  <2> QED BY <2>1, <2>2 DEF Revises
<1> QED BY <1>1, <1>2, <1>3 DEF Handles

-----------------------------------------------------------------------------
(* Whatever overlaps                                                       *)

\* An operator writes back a row.
RowIsAlert == \A c \in Callers : job[c].pc = "update" => job[c].row \in Alert

AnyInv == AlTypeOK /\ EvInv /\ RowIsAlert

Busy(c) == job[c].pc # "idle" \/ call[c].pc # "idle"

\* To the events, a step of the rules or of an operator is one of Events, or
\* one of a caller that reads only: the detection over the readings of its run,
\* and the calls that are over or lost.
EventStep ==
  \/ [EvNext]_evVars
  \/ \E c \in Callers : Busy(c) /\ Reads(c) /\ call'[c].pc \in {"idle", "detect.list"}

LEMMA IdleEvents ==
  ASSUME UNCHANGED evVars
  PROVE  EventStep
BY DEF EventStep

LEMMA ReturnedReads ==
  ASSUME EvTypeOK, NEW c \in Callers, NEW result \in {"ok", "refused"},
         call' = [call EXCEPT ![c] = Returned(result)], UNCHANGED <<since, shown, events, deliveries>>
  PROVE  Reads(c) /\ call'[c].pc = "idle"
<1>1. Answer(c, result)
  BY DEF Answer
<1> QED BY <1>1, AnswerCalls DEF Reads, Reviewing, EvTypeOK

LEMMA DetectEventsReads ==
  ASSUME AlTypeOK, NEW c \in Callers, DetectEvents(c)
  PROVE  Reads(c) /\ call'[c].pc = "detect.list"
<1>1. job[c].seen \in SUBSET Movements
  BY JobOfCaller DEF Job
<1> QED BY <1>1, DetectBegins DEF DetectEvents, AlTypeOK

LEMMA RulesAreCallers == Runners \subseteq Callers /\ Operators \subseteq Callers
BY AlertsAssumption

LEMMA EventSteps ==
  ASSUME AlTypeOK, [AlNext]_allVars
  PROVE  EventStep
<1>0. EvTypeOK
  BY DEF AlTypeOK
<1>1. CASE Tank
  <2>1. CASE \E movements \in SUBSET Movements :
               Show(movements) /\ Change /\ UNCHANGED <<cond, alerts, job>>
    BY <2>1 DEF EventStep, EvNext
  <2>2. CASE \E conditions \in SUBSET Conditions : Hold(conditions)
    BY <2>2, IdleEvents DEF Hold
  <2>3. CASE Age /\ Change /\ UNCHANGED <<cond, alerts, job>>
    BY <2>3 DEF EventStep, EvNext
  <2> QED BY <1>1, <2>1, <2>2, <2>3 DEF Tank
<1>2. ASSUME NEW c \in Callers, DetectEvents(c) PROVE EventStep
  BY <1>2, DetectEventsReads DEF EventStep, Busy, DetectEvents
<1>3. ASSUME NEW c \in Callers, RaiseEventAlerts(c) PROVE EventStep
  BY <1>0, <1>3, ReturnedReads DEF RaiseEventAlerts, EventStep, Busy
<1>4. ASSUME NEW c \in Callers, BeginRules(c) \/ RulesStep(c) PROVE EventStep
  <2>1. CASE BeginRules(c) \/ ListCandidates(c) \/ ListOpen(c) \/ EndRules(c)
    BY <2>1, IdleEvents DEF BeginRules, ListCandidates, ListOpen, EndRules
  <2>2. CASE \E d \in Draft : SaveAlert(c, d)
    BY <2>2, IdleEvents DEF SaveAlert
  <2>3. CASE \E a \in Alert : ResolveStale(c, a)
    BY <2>3, IdleEvents DEF ResolveStale
  <2> QED BY <1>2, <1>3, <1>4, <2>1, <2>2, <2>3, WorkOfCaller DEF RulesStep
<1>5. ASSUME NEW c \in Callers, Handle(c) \/ UpdateAlert(c) PROVE EventStep
  <2>1. CASE Free(c) /\ Change /\ Review(c) /\ UNCHANGED <<cond, alerts, job>>
    BY <2>1 DEF EventStep, EvNext
  <2>2. CASE \/ \E a \in alerts : AcknowledgeAlert(c, a) \/ ResolveAlert(c, a)
             \/ \E a \in alerts, someone \in BOOLEAN : AssignAlert(c, a, someone)
    BY <2>2, IdleEvents DEF AcknowledgeAlert, ResolveAlert, AssignAlert, Request
  <2>3. CASE UpdateAlert(c)
    BY <2>3, IdleEvents DEF UpdateAlert
  <2> QED BY <1>5, <2>1, <2>2, <2>3 DEF Handle
<1>6. ASSUME NEW c \in Callers, Continue(c) PROVE EventStep
  BY <1>6 DEF EventStep, EvNext
<1>7. ASSUME NEW c \in Callers, Lose(c) PROVE EventStep
  BY <1>0, <1>7, ReturnedReads DEF Lose, EventStep, Busy
<1>8. CASE UNCHANGED allVars
  BY <1>8, IdleEvents DEF allVars, evVars
<1> QED BY <1>1, <1>4, <1>5, <1>6, <1>7, <1>8, RulesAreCallers DEF AlNext

LEMMA EventStepsKeepEvInv ==
  ASSUME EvInv, EventStep
  PROVE  EvInv'
BY EvStepInv, ReadsKeepsInv DEF EventStep

\* What a step does to the alerts, the jobs and the rest, as far as the types
\* and the rows that are written back need it.
Typed(c, q) ==
  /\ alerts' \subseteq Alert
  /\ q \in Job
  /\ job' = [job EXCEPT ![c] = q]
  /\ q.pc = "update" => q.row \in Alert
  /\ UNCHANGED cond
  /\ changes' \in 0..MaxChanges

LEMMA TypedSteps ==
  ASSUME AnyInv, NEW c \in Callers,
         \/ BeginRules(c) \/ RulesStep(c) \/ UpdateAlert(c) \/ Lose(c)
         \/ \E a \in alerts : Handles(c, a)
  PROVE  \E q : Typed(c, q)
<1>0. AlTypeOK /\ changes \in 0..MaxChanges /\ alerts \subseteq Alert
  BY DEF AnyInv, AlTypeOK
<1>1. CASE BeginRules(c)
  BY <1>0, <1>1, BeginRulesJob DEF Typed, BeginRules
<1>2. CASE ListCandidates(c)
  BY <1>0, <1>2, ListCandidatesJob DEF Typed, ListCandidates
<1>3. CASE ListOpen(c)
  BY <1>0, <1>3, ListOpenJob DEF Typed, ListOpen
<1>4. ASSUME NEW d \in Draft, SaveAlert(c, d) PROVE \E q : Typed(c, q)
  <2>1. PICK q \in Job : job' = [job EXCEPT ![c] = q] /\ q.pc = job[c].pc
    BY <1>0, <1>4, SaveAlertJob
  <2>2. q.pc # "update"
    BY <1>4, <2>1 DEF SaveAlert
  <2>3. UNCHANGED <<cond, changes>>
    BY <1>4 DEF SaveAlert
  <2>4. alerts' \subseteq Alert
    BY <1>0, <1>4, SaveAlertJob
  <2>5. Typed(c, q)
    BY <1>0, <2>1, <2>2, <2>3, <2>4 DEF Typed
  <2> QED BY <2>5
<1>5. ASSUME NEW a \in Alert, ResolveStale(c, a) PROVE \E q : Typed(c, q)
  <2>1. PICK q \in Job : job' = [job EXCEPT ![c] = q] /\ q.pc = job[c].pc
    BY <1>0, <1>5, ResolveStaleJob
  <2>2. q.pc # "update" /\ alerts' \subseteq Alert
    BY <1>0, <1>5, <2>1, ResolveStaleJob DEF ResolveStale, Written
  <2>3. UNCHANGED <<cond, changes>>
    BY <1>5 DEF ResolveStale
  <2>4. Typed(c, q)
    BY <1>0, <2>1, <2>2, <2>3 DEF Typed
  <2> QED BY <2>4
<1>6. CASE DetectEvents(c)
  BY <1>0, <1>6, DetectEventsJob DEF Typed, DetectEvents
<1>7. CASE RaiseEventAlerts(c)
  BY <1>0, <1>7, RaiseEventAlertsJob DEF Typed, RaiseEventAlerts
<1>8. CASE EndRules(c)
  BY <1>0, <1>8, NoJobIsJob DEF Typed, EndRules
<1>9. CASE UpdateAlert(c)
  <2>1. job[c].row \in Alert
    BY <1>9 DEF AnyInv, RowIsAlert, UpdateAlert
  <2> QED BY <1>0, <1>9, <2>1, NoJobIsJob DEF Typed, UpdateAlert, Written
<1>10. CASE Lose(c)
  BY <1>0, <1>10, NoJobIsJob DEF Typed, Lose
<1>11. ASSUME NEW a \in alerts, Handles(c, a) PROVE \E q : Typed(c, q)
  <2>1. PICK row \in Alert : Request(c, row)
    BY <1>0, <1>11, HandledRow
  <2>2. changes' \in 0..MaxChanges
    BY <1>0, <2>1, AlertsAssumption DEF Request, Change
  <2>3. PICK q \in Job : job' = [job EXCEPT ![c] = q] /\ q.pc = "update" /\ q.row = row
    BY <1>0, <2>1, RequestJob
  <2>4. UNCHANGED <<cond, alerts>>
    BY <2>1 DEF Request
  <2>5. Typed(c, q)
    BY <1>0, <2>2, <2>3, <2>4 DEF Typed
  <2> QED BY <2>5
<1>12. CASE RulesStep(c)
  BY <1>0, <1>2, <1>3, <1>4, <1>5, <1>6, <1>7, <1>8, <1>12, WorkOfCaller DEF RulesStep
<1> QED BY <1>1, <1>9, <1>10, <1>11, <1>12

LEMMA AnyInit == AlInit => AnyInv
BY EvInitInv, NoJobIsJob, AlertsAssumption DEF AlInit, AnyInv, AlTypeOK, RowIsAlert, EvInv

LEMMA AnyStep ==
  ASSUME AnyInv, [AlNext]_allVars
  PROVE  AnyInv'
<1>0. EvInv' /\ EvTypeOK'
  BY EventSteps, EventStepsKeepEvInv DEF AnyInv, EvInv
<1>1. ASSUME NEW c \in Callers, NEW q, Typed(c, q) PROVE AnyInv'
  <2>1. q \in Job /\ job' = [job EXCEPT ![c] = q] /\ AlTypeOK
    BY <1>1 DEF Typed, AnyInv
  <2>2. job' \in [Callers -> Job] /\ job'[c] = q /\ \A o \in Callers \ {c} : job'[o] = job[o]
    BY <2>1, OneJobChanges
  <2> QED BY <1>0, <1>1, <2>1, <2>2 DEF AnyInv, AlTypeOK, RowIsAlert, Typed
<1>2. CASE Tank
  <2>1. UNCHANGED <<alerts, job>> /\ cond' \subseteq Conditions /\ changes' \in 0..MaxChanges
    BY <1>2, AlertsAssumption DEF Tank, Hold, Change, AnyInv, AlTypeOK
  <2> QED BY <1>0, <2>1 DEF AnyInv, AlTypeOK, RowIsAlert
<1>3. ASSUME NEW c \in Callers, Free(c) /\ Change /\ Review(c) /\ UNCHANGED <<cond, alerts, job>>
      PROVE  AnyInv'
  <2>1. changes' \in 0..MaxChanges
    BY <1>3, AlertsAssumption DEF Change, AnyInv, AlTypeOK
  <2> QED BY <1>0, <1>3, <2>1 DEF AnyInv, AlTypeOK, RowIsAlert
<1>4. CASE UNCHANGED alVars
  BY <1>0, <1>4 DEF alVars, AnyInv, AlTypeOK, RowIsAlert
<1>5. ASSUME NEW c \in Callers, Handle(c) PROVE AnyInv'
  BY <1>1, <1>3, <1>5, TypedSteps DEF Handle, Handles
<1> QED BY <1>1, <1>2, <1>4, <1>5, TypedSteps, RulesAreCallers DEF AlNext, allVars

LEMMA AnyInvariant == AlSpec => []AnyInv
<1>1. AnyInv /\ [AlNext]_allVars => AnyInv'
  BY AnyStep
<1> QED BY <1>1, AnyInit, PTL DEF AlSpec

\* The rows and the calls of the alerts and the events are what they are
\* declared to be, however runs, requests and crashes interleave.
THEOREM AlTypeCorrect == AlSpec => []AlTypeOK
<1>1. AnyInv => AlTypeOK BY DEF AnyInv
<1> QED BY <1>1, AnyInvariant, PTL

\* With sweeps and uploads that record events under the reviewers, a confirmed
\* event still has its delivery, whatever overlaps and is lost.
THEOREM AlertsKeepDeliveries == AlSpec => []ConfirmedHasDelivery
<1>1. AnyInv => ConfirmedHasDelivery BY DEF AnyInv, EvInv
<1> QED BY <1>1, AnyInvariant, PTL

-----------------------------------------------------------------------------
(* Runs and requests that do not overlap                                   *)

OneBusy == \A c, o \in Callers : Busy(c) /\ Busy(o) => c = o

\* The rows are numbered from 1 without gaps.
Numbers(rows) ==
  /\ IsFiniteSet(rows)
  /\ \A a \in rows : a.id \in 1..Cardinality(rows)
  /\ \A a, b \in rows : a.id = b.id => a = b

\* No row is an open alert of what the draft found.
New(d, rows) ==
  \A a \in rows : a.status # "resolved" =>
    a.type # d.type \/ a.of # d.of \/ a.severity # d.severity

OneOpen(rows) ==
  \A a, b \in rows :
    /\ a.status # "resolved" /\ b.status # "resolved"
    /\ a.type = b.type /\ a.of = b.of /\ a.severity = b.severity
    => a = b

\* What a run or a request has read is so when it is written.
JobIsCurrent(q, rows) ==
  /\ q.pc \in {"write", "eventWrite"} => \A d \in q.todo : New(d, rows)
  /\ q.pc = "write" => q.stale \subseteq rows
  /\ q.pc = "update" => \E a \in rows : Revises(q.row, a)

AlertInv ==
  /\ AnyInv
  /\ SerialInv
  /\ OneBusy
  /\ Numbers(alerts)
  /\ OneOpen(alerts)
  /\ \A c \in Callers : JobIsCurrent(job[c], alerts)

LEMMA IdleIsCurrent ==
  ASSUME NEW q, q.pc \in {"idle", "candidates", "open", "detect"}, NEW rows
  PROVE  JobIsCurrent(q, rows)
BY DEF JobIsCurrent

LEMMA OthersNotBusy ==
  ASSUME ~Overlap, OneBusy, NEW c \in Callers, Busy(c) \/ Free(c)
  PROVE  \A o \in Callers \ {c} : ~Busy(o)
BY DEF OneBusy, Busy, Free

LEMMA SerialEvents ==
  ASSUME ~Overlap, AnyInv, SerialInv, OneBusy, [AlNext]_allVars
  PROVE  SerialInv'
<1>1. CASE [EvNext]_evVars
  BY <1>1, SerialStep
<1>2. ASSUME NEW c \in Callers, Busy(c), Reads(c), call'[c].pc \in {"idle", "detect.list"}
      PROVE  SerialInv'
  <2>1. \A o \in Callers \ {c} : call[o].pc = "idle"
    BY <1>2, OthersNotBusy DEF Busy
  <2> QED BY <1>2, <2>1, SerialReads DEF Reviewing
<1> QED BY <1>1, <1>2, EventSteps DEF EventStep, AnyInv

\* What the call of c does to the calls of the others.
LEMMA CallsOfOthers ==
  ASSUME EvTypeOK, NEW c \in Callers, Review(c) \/ Continue(c)
  PROVE  \A o \in Callers \ {c} : call'[o] = call[o]
<1>1. ASSUME NEW q, call' = [call EXCEPT ![c] = q] PROVE \A o \in Callers \ {c} : call'[o] = call[o]
  BY <1>1 DEF EvTypeOK
<1>2. ASSUME NEW pc, NEW q, Await(c, pc, q) PROVE \A o \in Callers \ {c} : call'[o] = call[o]
  BY <1>1, <1>2 DEF Await
<1>3. ASSUME NEW result, Answer(c, result) PROVE \A o \in Callers \ {c} : call'[o] = call[o]
  BY <1>1, <1>3 DEF Answer
<1>4. CASE Review(c)
  BY <1>2, <1>3, <1>4 DEF Review, BeginConfirm, BeginReject, Refuse
<1>5. CASE Continue(c)
  <2>1. CASE DetectLists(c)
    BY <1>2, <1>3, <2>1 DEF DetectLists
  <2>2. CASE \E m \in Movements : DetectSaves(c, m)
    BY <1>1, <2>2 DEF DetectSaves
  <2>3. CASE ConfirmLists(c)
    BY <1>2, <1>3, <2>3 DEF ConfirmLists, Refuse
  <2>4. CASE ConfirmSaves(c)
    BY <2>4 DEF ConfirmSaves, EvTypeOK
  <2>5. CASE ConfirmUpdates(c) \/ RejectUpdates(c)
    BY <1>3, <2>5 DEF ConfirmUpdates, RejectUpdates, WriteDecision
  <2> QED BY <1>5, <2>1, <2>2, <2>3, <2>4, <2>5 DEF Continue
<1> QED BY <1>4, <1>5

\* A step of c alone keeps AlertInv if the rows and what c has read are right.
LEMMA StepOfOne ==
  ASSUME AlertInv, AnyInv', SerialInv', NEW c \in Callers, NEW q \in Job,
         job' = [job EXCEPT ![c] = q],
         \A o \in Callers \ {c} : ~Busy(o) /\ call'[o] = call[o],
         Numbers(alerts'), OneOpen(alerts'), JobIsCurrent(q, alerts')
  PROVE  AlertInv'
<1>1. job'[c] = q /\ \A o \in Callers \ {c} : job'[o] = job[o]
  BY OneJobChanges DEF AlertInv, AnyInv
<1>2. \A o \in Callers \ {c} : ~Busy(o)'
  BY <1>1 DEF Busy
<1>3. OneBusy'
  BY <1>2 DEF OneBusy
<1>4. \A o \in Callers : JobIsCurrent(job'[o], alerts')
  BY <1>1, IdleIsCurrent DEF Busy
<1> QED BY <1>3, <1>4 DEF AlertInv

\* The alert that is raised has the next number, and is the only open one.
LEMMA RaiseAdds ==
  ASSUME Numbers(alerts), OneOpen(alerts), NEW d \in Draft, New(d, alerts),
         Cardinality(alerts) + 1 \in 1..MaxAlerts
  PROVE  Numbers(alerts \union {Raised(d)}) /\ OneOpen(alerts \union {Raised(d)})
<1> DEFINE rows == alerts \union {Raised(d)}
<1>1. /\ Raised(d).id = Cardinality(alerts) + 1
      /\ Raised(d).type = d.type /\ Raised(d).of = d.of /\ Raised(d).severity = d.severity
      /\ Raised(d).status = "open"
  BY RaisedIsAlert
<1>2. Cardinality(alerts) \in Nat /\ Raised(d) \notin alerts
  BY <1>1, FS_CardinalityType DEF Numbers
<1>3. IsFiniteSet(rows) /\ Cardinality(rows) = Cardinality(alerts) + 1
  BY <1>2, FS_AddElement DEF Numbers
<1>4. \A a \in rows : a.id \in 1..Cardinality(rows)
  BY <1>1, <1>2, <1>3 DEF Numbers
<1>5. \A a, b \in rows : a.id = b.id => a = b
  BY <1>1, <1>2 DEF Numbers
<1>6. OneOpen(rows)
  BY <1>1 DEF OneOpen, New
<1> HIDE DEF rows
<1>7. Numbers(rows)
  BY <1>3, <1>4, <1>5 DEF Numbers
<1> QED BY <1>6, <1>7 DEF rows

\* A row that is written back replaces the one that was read.
LEMMA WriteReplaces ==
  ASSUME AlTypeOK, Numbers(alerts), OneOpen(alerts), NEW a \in alerts, NEW row, Revises(row, a)
  PROVE  /\ Written(row) = (alerts \ {a}) \union {row}
         /\ Numbers(Written(row)) /\ OneOpen(Written(row))
<1>1. /\ row.id = a.id /\ row.type = a.type /\ row.of = a.of /\ row.severity = a.severity
      /\ a.status = "resolved" => row.status = "resolved"
  BY DEF Revises
<1>2. Written(row) = (alerts \ {a}) \union {row}
  BY <1>1 DEF Written, Numbers
<1>3. row \notin alerts \ {a}
  BY <1>1 DEF Numbers
<1>4. IsFiniteSet(Written(row)) /\ Cardinality(Written(row)) = Cardinality(alerts)
  <2>1. IsFiniteSet(alerts \ {a}) /\ Cardinality(alerts \ {a}) = Cardinality(alerts) - 1
    BY FS_RemoveElement DEF Numbers
  <2>2. Cardinality(alerts) \in Nat
    BY FS_CardinalityType DEF Numbers
  <2>3. /\ IsFiniteSet((alerts \ {a}) \union {row})
        /\ Cardinality((alerts \ {a}) \union {row}) = Cardinality(alerts \ {a}) + 1
    BY <1>3, <2>1, FS_AddElement
  <2> QED BY <1>2, <2>1, <2>2, <2>3
<1>5. \A b \in Written(row) : b.id \in 1..Cardinality(Written(row))
  BY <1>1, <1>2, <1>4 DEF Numbers
<1>6. \A b, e \in Written(row) : b.id = e.id => b = e
  BY <1>1, <1>2 DEF Numbers
<1>7. OneOpen(Written(row))
  <2> SUFFICES ASSUME NEW b \in Written(row), NEW e \in Written(row),
                      b.status # "resolved", e.status # "resolved",
                      b.type = e.type, b.of = e.of, b.severity = e.severity
               PROVE  b = e
    BY DEF OneOpen
  <2>1. CASE b \in alerts \ {a} /\ e \in alerts \ {a}
    BY <2>1 DEF OneOpen
  <2>2. CASE b = row /\ e \in alerts \ {a}
    BY <1>1, <2>2 DEF OneOpen
  <2>3. CASE e = row /\ b \in alerts \ {a}
    BY <1>1, <2>3 DEF OneOpen
  <2> QED BY <1>2, <2>1, <2>2, <2>3
<1> QED BY <1>2, <1>4, <1>5, <1>6, <1>7 DEF Numbers

LEMMA NewDraftsAreNew ==
  ASSUME NEW drafts, NEW d \in NewDrafts(drafts, OpenAlerts), AlTypeOK
  PROVE  New(d, alerts)
BY DEF NewDrafts, OpenAlerts, Types, New, AlTypeOK, Alert

\* A resolved alert stays one.
ResolvedKept ==
  \A a \in alerts : a.status = "resolved" =>
    \E b \in alerts' : b.id = a.id /\ b.status = "resolved"

LEMMA RevisionKeepsResolved ==
  ASSUME AlTypeOK, Numbers(alerts), OneOpen(alerts), NEW a \in alerts, NEW row,
         Revises(row, a), alerts' = Written(row)
  PROVE  ResolvedKept
<1>1. alerts' = (alerts \ {a}) \union {row} /\ row.id = a.id
  BY WriteReplaces DEF Revises
<1> QED BY <1>1 DEF ResolvedKept, Revises

\* What the step of one caller does when no other is busy.
Sound(c, q) ==
  /\ q \in Job
  /\ job' = [job EXCEPT ![c] = q]
  /\ \A o \in Callers \ {c} : call'[o] = call[o]
  /\ Numbers(alerts') /\ OneOpen(alerts')
  /\ JobIsCurrent(q, alerts')
  /\ ResolvedKept

LEMMA QuietIsSound ==
  ASSUME AlertInv, NEW c \in Callers, NEW q \in Job, job' = [job EXCEPT ![c] = q],
         UNCHANGED alerts, JobIsCurrent(q, alerts),
         \/ UNCHANGED evVars
         \/ \E next : call' = [call EXCEPT ![c] = next]
  PROVE  Sound(c, q)
<1>1. ResolvedKept
  BY DEF ResolvedKept
<1>2. \A o \in Callers \ {c} : call'[o] = call[o]
  BY DEF evVars, AlertInv, AnyInv, AlTypeOK, EvTypeOK
<1> QED BY <1>1, <1>2 DEF Sound, AlertInv

LEMMA SaveAlertSound ==
  ASSUME AlertInv, NEW c \in Callers, NEW d \in Draft, SaveAlert(c, d)
  PROVE  \E q : Sound(c, q)
<1>0. AlTypeOK /\ Numbers(alerts) /\ OneOpen(alerts) /\ JobIsCurrent(job[c], alerts)
  BY DEF AlertInv, AnyInv
<1>1. alerts' = alerts \union {Raised(d)} /\ Raised(d) \in Alert
  BY <1>0, SaveAlertJob
<1>2. PICK q \in Job : /\ job' = [job EXCEPT ![c] = q] /\ q.pc = job[c].pc
                       /\ q.todo = job[c].todo \ {d} /\ q.stale = job[c].stale
  BY <1>0, SaveAlertJob
<1>3. /\ d \in job[c].todo /\ q.pc \in {"write", "eventWrite"}
      /\ Cardinality(alerts) + 1 \in 1..MaxAlerts
  BY <1>2 DEF SaveAlert
<1>4. \A e \in job[c].todo : New(e, alerts)
  BY <1>0, <1>2, <1>3 DEF JobIsCurrent
<1>5. Numbers(alerts') /\ OneOpen(alerts')
  BY <1>0, <1>1, <1>3, <1>4, RaiseAdds
<1>6. \A e \in q.todo : New(e, alerts')
  <2> SUFFICES ASSUME NEW e \in q.todo PROVE New(e, alerts')
    OBVIOUS
  <2>1. New(e, alerts) /\ e # d /\ e \in Draft
    BY <1>0, <1>2, <1>4, JobOfCaller DEF Job
  <2>2. e.type # d.type \/ e.of # d.of \/ e.severity # d.severity
    BY <2>1 DEF Draft
  <2>3. Raised(d).type = d.type /\ Raised(d).of = d.of /\ Raised(d).severity = d.severity
    BY DEF Raised
  <2> QED BY <1>1, <2>1, <2>2, <2>3 DEF New
<1>7. q.pc = "write" => q.stale \subseteq alerts'
  BY <1>0, <1>1, <1>2 DEF JobIsCurrent
<1>8. JobIsCurrent(q, alerts')
  BY <1>3, <1>6, <1>7 DEF JobIsCurrent
<1>9. ResolvedKept
  BY <1>1 DEF ResolvedKept
<1>10. \A o \in Callers \ {c} : call'[o] = call[o]
  BY DEF SaveAlert, evVars
<1>11. Sound(c, q)
  BY <1>2, <1>5, <1>8, <1>9, <1>10 DEF Sound
<1> QED BY <1>11

LEMMA ResolveStaleSound ==
  ASSUME AlertInv, NEW c \in Callers, NEW a \in Alert, ResolveStale(c, a)
  PROVE  \E q : Sound(c, q)
<1> DEFINE row == [a EXCEPT !.status = "resolved"]
<1>0. AlTypeOK /\ Numbers(alerts) /\ OneOpen(alerts) /\ JobIsCurrent(job[c], alerts)
  BY DEF AlertInv, AnyInv
<1>1. /\ row \in Alert /\ row.id = a.id /\ row.type = a.type /\ row.of = a.of
      /\ row.severity = a.severity /\ row.status = "resolved"
  BY DEF Alert
<1>2. alerts' = Written(row)
  BY DEF ResolveStale
<1> HIDE DEF row
<1>3. Revises(row, a)
  BY <1>1 DEF Revises
<1>4. PICK q \in Job : /\ job' = [job EXCEPT ![c] = q] /\ q.pc = job[c].pc
                       /\ q.todo = {} /\ q.stale = job[c].stale \ {a}
  BY <1>0, ResolveStaleJob
<1>5. q.pc = "write" /\ a \in job[c].stale /\ job[c].stale \subseteq alerts
  BY <1>0, <1>4 DEF ResolveStale, JobIsCurrent
<1>6. alerts' = (alerts \ {a}) \union {row} /\ Numbers(alerts') /\ OneOpen(alerts')
  BY <1>0, <1>2, <1>3, <1>5, WriteReplaces
<1>7. JobIsCurrent(q, alerts')
  BY <1>4, <1>5, <1>6 DEF JobIsCurrent
<1>8. ResolvedKept
  BY <1>0, <1>2, <1>3, <1>5, RevisionKeepsResolved
<1>9. \A o \in Callers \ {c} : call'[o] = call[o]
  BY DEF ResolveStale, evVars
<1>10. Sound(c, q)
  BY <1>4, <1>6, <1>7, <1>8, <1>9 DEF Sound
<1> QED BY <1>10

LEMMA UpdateAlertSound ==
  ASSUME AlertInv, NEW c \in Callers, UpdateAlert(c)
  PROVE  \E q : Sound(c, q)
<1>0. AlTypeOK /\ Numbers(alerts) /\ OneOpen(alerts) /\ JobIsCurrent(job[c], alerts)
  BY DEF AlertInv, AnyInv
<1>1. PICK a \in alerts : Revises(job[c].row, a)
  BY <1>0 DEF UpdateAlert, JobIsCurrent
<1>2. alerts' = Written(job[c].row)
  BY DEF UpdateAlert
<1>3. Numbers(alerts') /\ OneOpen(alerts') /\ ResolvedKept
  BY <1>0, <1>1, <1>2, WriteReplaces, RevisionKeepsResolved
<1>4. \A o \in Callers \ {c} : call'[o] = call[o]
  BY DEF UpdateAlert, evVars
<1>5. JobIsCurrent(NoJob, alerts')
  BY NoJobIsJob, IdleIsCurrent
<1>6. Sound(c, NoJob)
  BY <1>3, <1>4, <1>5, NoJobIsJob DEF Sound, UpdateAlert
<1> QED BY <1>6

LEMMA HandleSound ==
  ASSUME AlertInv, NEW c \in Callers, NEW a \in alerts, Handles(c, a)
  PROVE  Free(c) /\ \E q : Sound(c, q)
<1>0. AlTypeOK
  BY DEF AlertInv, AnyInv
<1>1. PICK row \in Alert : Request(c, row) /\ Revises(row, a)
  BY <1>0, HandledRow
<1>2. PICK q \in Job : job' = [job EXCEPT ![c] = q] /\ q.pc = "update" /\ q.row = row
  BY <1>0, <1>1, RequestJob
<1>3. JobIsCurrent(q, alerts)
  BY <1>1, <1>2 DEF JobIsCurrent
<1>4. Sound(c, q)
  BY <1>1, <1>2, <1>3, QuietIsSound DEF Request
<1> QED BY <1>1, <1>4 DEF Request

LEMMA RulesAreFreeOrBusy ==
  ASSUME NEW c \in Callers, BeginRules(c) \/ RulesStep(c) \/ Lose(c)
  PROVE  Free(c) \/ Busy(c)
BY DEF BeginRules, RulesStep, ListCandidates, ListOpen, SaveAlert, ResolveStale, DetectEvents,
       RaiseEventAlerts, EndRules, Lose, Busy

LEMMA RulesSound ==
  ASSUME AlertInv, NEW c \in Callers, BeginRules(c) \/ RulesStep(c) \/ Lose(c)
  PROVE  \E q : Sound(c, q)
<1>0. AlTypeOK /\ EvTypeOK
  BY DEF AlertInv, AnyInv, AlTypeOK
<1>2. CASE BeginRules(c)
  <2>1. PICK q \in Job : job' = [job EXCEPT ![c] = q] /\ q.pc = "candidates"
    BY <1>0, <1>2, BeginRulesJob
  <2>2. JobIsCurrent(q, alerts)
    BY <2>1, IdleIsCurrent
  <2>3. Sound(c, q)
    BY <1>2, <2>1, <2>2, QuietIsSound DEF BeginRules
  <2> QED BY <2>3
<1>3. CASE ListCandidates(c)
  <2>1. PICK q \in Job : job' = [job EXCEPT ![c] = q] /\ q.pc = "open"
    BY <1>0, <1>3, ListCandidatesJob
  <2>2. JobIsCurrent(q, alerts)
    BY <2>1, IdleIsCurrent
  <2>3. Sound(c, q)
    BY <1>3, <2>1, <2>2, QuietIsSound DEF ListCandidates
  <2> QED BY <2>3
<1>4. CASE ListOpen(c)
  <2>1. PICK q \in Job : /\ job' = [job EXCEPT ![c] = q] /\ q.pc = "write"
                         /\ q.todo = NewDrafts(job[c].drafts, OpenAlerts)
                         /\ q.stale \subseteq OpenAlerts
    BY <1>0, <1>4, ListOpenJob
  <2>2. OpenAlerts \subseteq alerts /\ \A d \in q.todo : New(d, alerts)
    BY <1>0, <2>1, NewDraftsAreNew DEF OpenAlerts
  <2>3. JobIsCurrent(q, alerts)
    BY <2>1, <2>2 DEF JobIsCurrent
  <2>4. Sound(c, q)
    BY <1>4, <2>1, <2>3, QuietIsSound DEF ListOpen
  <2> QED BY <2>4
<1>5. CASE DetectEvents(c)
  <2>1. PICK q \in Job : job' = [job EXCEPT ![c] = q] /\ q.pc = "detect"
    BY <1>0, <1>5, DetectEventsJob
  <2>2. \E next : call' = [call EXCEPT ![c] = next]
    BY <1>5 DEF DetectEvents, BeginDetect, Await
  <2>3. JobIsCurrent(q, alerts)
    BY <2>1, IdleIsCurrent
  <2>4. Sound(c, q)
    BY <1>5, <2>1, <2>2, <2>3, QuietIsSound DEF DetectEvents
  <2> QED BY <2>4
<1>6. CASE RaiseEventAlerts(c)
  <2>1. PICK q \in Job : /\ job' = [job EXCEPT ![c] = q]
                         /\ \/ q.pc = "idle"
                            \/ /\ q.pc = "eventWrite"
                               /\ \E drafts \in SUBSET Draft : q.todo = NewDrafts(drafts, OpenAlerts)
    BY <1>0, <1>6, RaiseEventAlertsJob
  <2>2. q.pc = "eventWrite" => \A d \in q.todo : New(d, alerts)
    BY <1>0, <2>1, NewDraftsAreNew
  <2>3. JobIsCurrent(q, alerts)
    BY <2>1, <2>2 DEF JobIsCurrent
  <2>4. UNCHANGED alerts /\ \E next : call' = [call EXCEPT ![c] = next]
    BY <1>6 DEF RaiseEventAlerts
  <2>5. Sound(c, q)
    BY <2>1, <2>3, <2>4, QuietIsSound
  <2> QED BY <2>5
<1>7. CASE EndRules(c) \/ Lose(c)
  <2>1. job' = [job EXCEPT ![c] = NoJob] /\ JobIsCurrent(NoJob, alerts)
    BY <1>7, NoJobIsJob, IdleIsCurrent DEF EndRules, Lose
  <2>2. UNCHANGED alerts /\ (UNCHANGED evVars \/ \E next : call' = [call EXCEPT ![c] = next])
    BY <1>7 DEF EndRules, Lose
  <2>3. Sound(c, NoJob)
    BY <2>1, <2>2, NoJobIsJob, QuietIsSound
  <2> QED BY <2>3
<1>8. CASE RulesStep(c)
  BY <1>0, <1>3, <1>4, <1>5, <1>6, <1>7, <1>8, WorkOfCaller, SaveAlertSound, ResolveStaleSound
     DEF RulesStep
<1> QED BY <1>2, <1>7, <1>8

\* A caller that is sound keeps the invariant when it is the one that is busy.
LEMMA SoundKeepsInv ==
  ASSUME ~Overlap, AlertInv, AnyInv', SerialInv', NEW c \in Callers, Free(c) \/ Busy(c),
         NEW q, Sound(c, q)
  PROVE  AlertInv' /\ ResolvedKept
<1>1. \A o \in Callers \ {c} : ~Busy(o) /\ call'[o] = call[o]
  BY OthersNotBusy DEF AlertInv, Sound
<1>2. AlertInv'
  BY <1>1, StepOfOne DEF Sound
<1> QED BY <1>2 DEF Sound

\* A review, and the steps of a call, change no alert and no job.
LEMMA CallsKeepInv ==
  ASSUME ~Overlap, AlertInv, AnyInv', SerialInv', NEW c \in Callers, Free(c) \/ Busy(c),
         Review(c) \/ Continue(c), UNCHANGED <<alerts, job>>
  PROVE  AlertInv' /\ ResolvedKept
<1>1. \A o \in Callers \ {c} : ~Busy(o) /\ call'[o] = call[o]
  BY OthersNotBusy, CallsOfOthers DEF AlertInv, AnyInv, AlTypeOK
<1>2. OneBusy'
  BY <1>1 DEF OneBusy, Busy
<1> QED BY <1>2 DEF AlertInv, ResolvedKept

LEMMA AlertInit == AlInit => AlertInv
<1> SUFFICES ASSUME AlInit PROVE AlertInv
  OBVIOUS
<1>1. AnyInv /\ SerialInv
  BY AnyInit, SerialInit DEF AlInit
<1>2. OneBusy
  BY NoJobIsJob DEF AlInit, EvInit, OneBusy, Busy, Returned
<1>3. Numbers(alerts) /\ OneOpen(alerts)
  BY FS_EmptySet DEF AlInit, Numbers, OneOpen
<1>4. \A c \in Callers : JobIsCurrent(job[c], alerts)
  BY NoJobIsJob, IdleIsCurrent DEF AlInit
<1> QED BY <1>1, <1>2, <1>3, <1>4 DEF AlertInv

LEMMA AlertStep ==
  ASSUME ~Overlap, AlertInv, [AlNext]_allVars
  PROVE  AlertInv' /\ ResolvedKept
<1>0. AnyInv' /\ SerialInv'
  BY AnyStep, SerialEvents DEF AlertInv
<1>1. ASSUME NEW c \in Callers, BeginRules(c) \/ RulesStep(c) \/ Lose(c)
      PROVE  AlertInv' /\ ResolvedKept
  BY <1>0, <1>1, RulesSound, RulesAreFreeOrBusy, SoundKeepsInv
<1>2. ASSUME NEW c \in Callers, Handle(c) PROVE AlertInv' /\ ResolvedKept
  <2>1. CASE \E a \in alerts : Handles(c, a)
    BY <1>0, <2>1, HandleSound, SoundKeepsInv
  <2>2. CASE Free(c) /\ Change /\ Review(c) /\ UNCHANGED <<cond, alerts, job>>
    BY <1>0, <2>2, CallsKeepInv
  <2> QED BY <1>2, <2>1, <2>2 DEF Handle, Handles
<1>3. ASSUME NEW c \in Callers, UpdateAlert(c) PROVE AlertInv' /\ ResolvedKept
  <2>1. Busy(c)
    BY <1>3 DEF UpdateAlert, Busy
  <2> QED BY <1>0, <1>3, <2>1, UpdateAlertSound, SoundKeepsInv
<1>4. ASSUME NEW c \in Callers, Continue(c), UNCHANGED alVars
      PROVE  AlertInv' /\ ResolvedKept
  <2>1. Busy(c)
    BY <1>4 DEF Continue, DetectLists, DetectSaves, ConfirmLists, ConfirmSaves, ConfirmUpdates,
                RejectUpdates, Busy
  <2> QED BY <1>0, <1>4, <2>1, CallsKeepInv DEF alVars
<1>5. ASSUME UNCHANGED <<alerts, job, call>> PROVE AlertInv' /\ ResolvedKept
  BY <1>0, <1>5 DEF AlertInv, OneBusy, Busy, ResolvedKept
<1>6. CASE Tank
  BY <1>5, <1>6 DEF Tank, Show, Hold, Age, evVars
<1>7. CASE UNCHANGED allVars
  BY <1>5, <1>7 DEF allVars, evVars, alVars
<1> QED BY <1>1, <1>2, <1>3, <1>4, <1>6, <1>7, RulesAreCallers DEF AlNext

LEMMA AlertInvariant ==
  ASSUME ~Overlap
  PROVE  AlSpec => []AlertInv
<1>1. AlertInv /\ [AlNext]_allVars => AlertInv'
  BY AlertStep
<1> QED BY <1>1, AlertInit, PTL DEF AlSpec

\* A finding that persists raises one alert, if runs do not overlap: what a run
\* has still to save was found of nothing that has an open alert of it.
THEOREM OneAlertWithoutOverlap ==
  ASSUME ~Overlap
  PROVE  AlSpec => []OneOpenAlert
<1>1. AlertInv => OneOpenAlert
  BY DEF AlertInv, OneOpen, OneOpenAlert, OpenOf
<1> QED BY <1>1, AlertInvariant, PTL

\* A resolved alert is closed for good, if operators and rules do not overlap:
\* the row that is written back revises the row that is there.
THEOREM ResolvedFinalWithoutOverlap ==
  ASSUME ~Overlap
  PROVE  AlSpec => ResolvedIsFinal
<1>1. AlertInv /\ [AlNext]_allVars => [ResolvedKept]_allVars
  BY AlertStep
<1> QED BY <1>1, AlertInvariant, PTL DEF AlSpec, ResolvedIsFinal, ResolvedKept

\* The rules that detect and the reviewers that confirm make one delivery of an
\* event, if they do not overlap.
THEOREM AlertsConfirmOnce ==
  ASSUME ~Overlap
  PROVE  AlSpec => []OneDeliveryPerEvent
<1>1. AlertInv => OneDeliveryPerEvent
  BY DEF AlertInv, SerialInv
<1> QED BY <1>1, AlertInvariant, PTL

\* Every run of the rules detects again over the same readings and records one
\* event of a movement, if runs do not overlap and the movement is not older
\* than the lookback, nor behind more events than a list holds.
THEOREM AlertsRecordOnce ==
  ASSUME ~Overlap
  PROVE  AlSpec => []OneEventPerMovement
<1>1. AlertInv => OneEventPerMovement
  BY DEF AlertInv, SerialInv
<1> QED BY <1>1, AlertInvariant, PTL

\* A decision is final under the rules too, if nothing overlaps.
THEOREM AlertsKeepDecisions ==
  ASSUME ~Overlap
  PROVE  AlSpec => DecisionsAreFinal
<1>1. AlertInv /\ [AlNext]_allVars => [DecisionsKept]_evVars
  <2> SUFFICES ASSUME AlertInv, [AlNext]_allVars PROVE DecisionsKept
    OBVIOUS
  <2>1. EventStep
    BY EventSteps DEF AlertInv, AnyInv
  <2>2. CASE [EvNext]_evVars
    BY <2>2, StepKeepsDecisions DEF AlertInv
  <2>3. ASSUME NEW c \in Callers, Reads(c) PROVE DecisionsKept
    BY <2>3 DEF Reads, DecisionsKept
  <2> QED BY <2>1, <2>2, <2>3 DEF EventStep
<1> QED BY <1>1, AlertInvariant, PTL DEF AlSpec, DecisionsAreFinal, DecisionsKept
=============================================================================
