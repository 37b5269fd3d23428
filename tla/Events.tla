-------------------------------- MODULE Events --------------------------------
(***************************************************************************)
(* Candidate events of one tank and the deliveries made of them:           *)
(* EventService.detectAndRecord, confirm and reject, one step for each     *)
(* repository call they await, so that calls interleave between them and   *)
(* stop between them.                                                      *)
(*                                                                         *)
(* What the rules draft is the subject of Detection: here the environment  *)
(* shows movements, rises and falls of the level, and a draft is one of    *)
(* them, known by the instant of its last reading.  A draft is compared    *)
(* with the events listRecentByTank gives: those whose window ended in the *)
(* 72 hours before the run, and the newest fifty of them.  Left out: the   *)
(* reports' lists, and the notes.                                          *)
(***************************************************************************)
EXTENDS Integers, FiniteSets

CONSTANTS
  Movements,       \* the movements the readings may show: [type, last]
  EventRows,       \* RECENT_EVENT_LOOKBACK_LIMIT
  MeasuredVolume,  \* the volume of a rise, as measured
  StatedVolumes,   \* the volumes an operator may state for it, Nil for none
  Callers,         \* concurrent executions of a service method
  Overlap,         \* TRUE: calls interleave, FALSE: one call at a time
  Database,        \* TRUE: PostgreSQL through Prisma, FALSE: the memory adapter
  MaxEvents,       \* bound on the rows of fuel_events
  MaxDeliveries,   \* bound on the rows of deliveries
  Nil              \* JavaScript's null

EventTypes == {"candidate_delivery", "candidate_unexplained_decrease"}

Volumes == {MeasuredVolume} \union (StatedVolumes \ {Nil})
FuelEvent == [id: 1..MaxEvents, movement: Movements,
              status: {"candidate", "confirmed", "rejected"},
              late: BOOLEAN]   \* createdAt is more than the lookback after windowEnd
Delivery == [id: 1..MaxDeliveries, event: 1..MaxEvents, measured: Volumes, recorded: Volumes]

ASSUME EventsAssumption ==
  /\ \A m \in Movements : /\ m = [type |-> m.type, last |-> m.last]
                           /\ m.type \in EventTypes /\ m.last \in Nat
  /\ EventRows \in Nat
  /\ MeasuredVolume \in Nat
  /\ StatedVolumes \subseteq Nat \union {Nil}
  /\ Overlap \in BOOLEAN
  /\ Database \in BOOLEAN
  /\ MaxEvents \in Nat
  /\ MaxDeliveries \in Nat
  /\ Nil \notin Nat \union FuelEvent

VARIABLES
  since,      \* the instant 72 hours before now
  shown,      \* the movements the latest readings show, one of a type at most
  events,     \* the rows of fuel_events
  deliveries, \* the rows of deliveries
  call        \* call[c]: the call in progress and what it has read

evVars == <<since, shown, events, deliveries, call>>

\* A call waits for the repository access its pc names.
CallPc == {"idle", "detect.list", "detect.save",
           "confirm.list", "confirm.save", "confirm.update", "reject.update"}

Call == [pc: CallPc,
         seen: SUBSET Movements,          \* the movements its readings show
         since: Nat,                      \* how far back it looks for events
         drafts: SUBSET Movements,        \* those it has still to save
         created: SUBSET (1..MaxEvents),  \* the events it has saved
         event: FuelEvent \union {Nil},   \* the event it read
         recorded: Volumes,               \* the volume it was given
         result: {"none", "ok", "refused"}]

Returned(result) == [pc |-> "idle", seen |-> {}, since |-> 0, drafts |-> {}, created |-> {},
                     event |-> Nil, recorded |-> MeasuredVolume, result |-> result]

EvTypeOK ==
  /\ since \in Nat
  /\ shown \subseteq Movements
  /\ events \subseteq FuelEvent
  /\ deliveries \subseteq Delivery
  /\ call \in [Callers -> Call]

EvInit ==
  /\ since = 0
  /\ shown = {}
  /\ events = {}
  /\ deliveries = {}
  /\ call = [c \in Callers |-> Returned("none")]

-----------------------------------------------------------------------------

MayBegin(c) ==
  /\ call[c].pc = "idle"
  /\ Overlap \/ \A o \in Callers : call[o].pc = "idle"

Answer(c, result) == call' = [call EXCEPT ![c] = Returned(result)]
Refuse(c) == Answer(c, "refused") /\ UNCHANGED <<since, shown, events, deliveries>>

\* The call has read what it needs and waits at `pc'.
Await(c, pc, next) ==
  /\ call' = [call EXCEPT ![c] = [next EXCEPT !.pc = pc, !.result = "none"]]
  /\ UNCHANGED <<since, shown, events, deliveries>>

\* New readings: the movements they show, at most one rise and one fall.
Show(movements) ==
  /\ \A m, n \in movements : m.type = n.type => m = n
  /\ movements # shown
  /\ shown' = movements
  /\ UNCHANGED <<since, events, deliveries, call>>

\* Time passes.
Age ==
  /\ since' = since + 1
  /\ UNCHANGED <<shown, events, deliveries, call>>

-----------------------------------------------------------------------------
(* detectAndRecord                                                         *)

\* The events whose window ended at an instant or after it.
EndedFrom(t) == {e \in events : e.movement.last >= t}

\* The lists of events put the newest first, by the end of their window, and
\* stop at a limit; which of those that ended together is left open.
Newest(rows, limit) ==
  {L \in SUBSET rows :
     /\ L # rows => Cardinality(L) = limit
     /\ Cardinality(L) <= limit
     /\ \A e \in rows \ L, f \in L : e.movement.last <= f.movement.last}

\* Mutant: only events that await a decision are looked at.
CoveredByCandidate(m, listed) == \E e \in listed : e.movement = m /\ e.status = "candidate"

\* isDuplicate: a listed event that was not rejected covers the movement.
Covered(m, listed) == \E e \in listed : e.movement = m /\ e.status # "rejected"

BeginDetect(c, movements) ==
  /\ MayBegin(c)
  /\ Await(c, "detect.list", [call[c] EXCEPT !.seen = movements, !.since = since])

\* events.listRecentByTank, and the drafts that no listed event covers.
DetectLists(c) ==
  /\ call[c].pc = "detect.list"
  /\ \E listed \in Newest(EndedFrom(call[c].since), EventRows) :
       LET drafts == {m \in call[c].seen : ~Covered(m, listed)} IN
       IF drafts = {}
       THEN Answer(c, "ok") /\ UNCHANGED <<since, shown, events, deliveries>>
       ELSE Await(c, "detect.save", [call[c] EXCEPT !.drafts = drafts])

\* The drafts are saved one by one, the delivery first.
DetectSaves(c, m) ==
  LET id == Cardinality(events) + 1
      left == call[c].drafts \ {m}
      created == call[c].created \union {id}
  IN /\ call[c].pc = "detect.save"
     /\ m \in call[c].drafts
     /\ \A n \in call[c].drafts : n.type = "candidate_delivery" => m.type = n.type
     /\ id \in 1..MaxEvents
     /\ events' = events \union {[id |-> id, movement |-> m, status |-> "candidate",
                                  late |-> m.last < since]}
     /\ call' = [call EXCEPT ![c] = IF left = {}
                                    THEN [Returned("ok") EXCEPT !.created = created]
                                    ELSE [@ EXCEPT !.drafts = left, !.created = created]]
     /\ UNCHANGED <<since, shown, deliveries>>

-----------------------------------------------------------------------------
(* confirm                                                                 *)

\* The measured rise is recorded unless the operator states a volume.
RecordedVolume(stated) == IF stated = Nil THEN MeasuredVolume ELSE stated

BeginConfirm(c, e, stated) ==
  /\ MayBegin(c)
  /\ e \in events
  /\ IF \/ e.status # "candidate"
        \/ e.movement.type # "candidate_delivery"
        \/ MeasuredVolume <= 0
        \/ RecordedVolume(stated) <= 0
     THEN Refuse(c)
     ELSE Await(c, "confirm.list",
                [call[c] EXCEPT !.event = e, !.recorded = RecordedVolume(stated)])

DeliveriesOf(id) == {d \in deliveries : d.event = id}

\* Mutant: a delivery that is there already is overlooked.
ConfirmAnyway(c) ==
  /\ call[c].pc = "confirm.list"
  /\ Await(c, "confirm.save", call[c])

\* Mutant: the event is marked before its delivery is saved.
ConfirmMarksFirst(c) ==
  /\ call[c].pc = "confirm.list"
  /\ IF DeliveriesOf(call[c].event.id) # {}
     THEN Refuse(c)
     ELSE /\ events' = {IF e.id = call[c].event.id THEN [e EXCEPT !.status = "confirmed"] ELSE e :
                          e \in events}
          /\ call' = [call EXCEPT ![c].pc = "confirm.save"]
          /\ UNCHANGED <<since, shown, deliveries>>

\* deliveries.listByEvent.
ConfirmLists(c) ==
  /\ call[c].pc = "confirm.list"
  /\ IF DeliveriesOf(call[c].event.id) # {}
     THEN Refuse(c)
     ELSE Await(c, "confirm.save", call[c])

\* deliveries.save.  The table has one volume column: the database keeps the
\* recorded volume and gives it back as the measured one too.
Persisted(measured, recorded) ==
  [measured |-> IF Database THEN recorded ELSE measured, recorded |-> recorded]

ConfirmSaves(c) ==
  LET id == Cardinality(deliveries) + 1
      volumes == Persisted(MeasuredVolume, call[c].recorded)
  IN /\ call[c].pc = "confirm.save"
     /\ id \in 1..MaxDeliveries
     /\ deliveries' = deliveries \union
          {[id |-> id, event |-> call[c].event.id,
            measured |-> volumes.measured, recorded |-> volumes.recorded]}
     /\ call' = [call EXCEPT ![c].pc = "confirm.update"]
     /\ UNCHANGED <<since, shown, events>>

\* events.update: the row that was read, with its status changed, is written
\* over whatever the row is now.
WriteDecision(c, status) ==
  LET decided == [call[c].event EXCEPT !.status = status] IN
  /\ events' = {e \in events : e.id # decided.id} \union {decided}
  /\ Answer(c, "ok")
  /\ UNCHANGED <<since, shown, deliveries>>

ConfirmUpdates(c) ==
  /\ call[c].pc = "confirm.update"
  /\ WriteDecision(c, "confirmed")

(* reject                                                                  *)

\* Mutant: a decided event is rejected all the same.
RejectAny(c, e) ==
  /\ MayBegin(c)
  /\ e \in events
  /\ Await(c, "reject.update", [call[c] EXCEPT !.event = e])

BeginReject(c, e) ==
  /\ MayBegin(c)
  /\ e \in events
  /\ IF e.status # "candidate"
     THEN Refuse(c)
     ELSE Await(c, "reject.update", [call[c] EXCEPT !.event = e])

RejectUpdates(c) ==
  /\ call[c].pc = "reject.update"
  /\ WriteDecision(c, "rejected")

-----------------------------------------------------------------------------

\* The call stops where it is: its process ends or the store fails.
Crash(c) ==
  /\ call[c].pc # "idle"
  /\ Refuse(c)

Continue(c) ==
  \/ DetectLists(c)
  \/ \E m \in Movements : DetectSaves(c, m)
  \/ ConfirmLists(c)
  \/ ConfirmSaves(c)
  \/ ConfirmUpdates(c)
  \/ RejectUpdates(c)

\* What a reviewer asks for.
Review(c) ==
  \/ \E e \in events, v \in StatedVolumes : BeginConfirm(c, e, v)
  \/ \E e \in events : BeginReject(c, e)

EvNext ==
  \/ \E movements \in SUBSET Movements : Show(movements)
  \/ Age
  \/ \E c \in Callers : Review(c) \/ BeginDetect(c, shown) \/ Continue(c) \/ Crash(c)

EvSpec == EvInit /\ [][EvNext]_evVars

-----------------------------------------------------------------------------
(* Properties                                                              *)

\* One physical delivery is one delivery record: a confirmation that is
\* retried, after a crash at any step of the first, adds no second one.  It
\* holds when confirmations do not overlap.
OneDeliveryPerEvent == \A d, e \in deliveries : d.event = e.event => d = e

\* An event that is confirmed has its delivery record, whatever overlaps and
\* whatever crashes: the volumes of the reports are never short of one.
ConfirmedHasDelivery ==
  \A e \in events : e.status = "confirmed" => DeliveriesOf(e.id) # {}

\* A decision is final: once an event is confirmed or rejected its row never
\* changes.  It holds when decisions do not overlap.
DecisionsAreFinal ==
  [][\A e \in events : e.status # "candidate" => e \in events']_evVars

\* One movement is recorded once even though detection runs again after every
\* reading (the comment of detectAndRecord), and not only "once at a time":
\* two events of it stand only if one was recorded when the movement was
\* older than the lookback, or there are more events as new as it than a list
\* holds.  It holds when runs do not overlap.
OneEventPerMovement ==
  \A e, f \in events :
    /\ e.movement = f.movement /\ e.status # "rejected" /\ f.status # "rejected"
    /\ e # f
    => e.late \/ f.late \/ Cardinality(EndedFrom(e.movement.last)) > EventRows

\* A delivery carries the measured and the recorded volume, kept apart (the
\* doc of Delivery): what is read back is what the confirmation was given.
VolumesKeptApart ==
  \A d \in deliveries : d.measured = MeasuredVolume
=============================================================================
