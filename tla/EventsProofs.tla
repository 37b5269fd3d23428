----------------------------- MODULE EventsProofs -----------------------------
(***************************************************************************)
(* Proofs about the events and their deliveries, for any number of calls   *)
(* and rows and either store, with calls that stop anywhere.               *)
(*                                                                         *)
(* Two invariants carry them.  EvInv holds however calls overlap: it says  *)
(* what a call knows at each repository access.  SerialInv holds when they *)
(* do not: then what a call has read is still so when it writes.           *)
(***************************************************************************)
EXTENDS Events, FiniteSetTheorems, TLAPS

Reviewing == {"confirm.list", "confirm.save", "confirm.update", "reject.update"}

\* A review has read the event it decides.
ReviewsOK == \A c \in Callers : call[c].pc \in Reviewing => call[c].event \in FuelEvent

\* A confirmation marks its event once the delivery is there.
SavedFirst ==
  \A c \in Callers : call[c].pc = "confirm.update" => DeliveriesOf(call[c].event.id) # {}

\* A run of the detection looks back from its beginning.
LooksBack == \A c \in Callers : call[c].since <= since

EvInv == EvTypeOK /\ LooksBack /\ ReviewsOK /\ SavedFirst /\ ConfirmedHasDelivery

\* What a step does to the calls when it changes the call of c only.
LEMMA OneCallChanges ==
  ASSUME EvTypeOK, NEW c \in Callers, NEW q \in Call, call' = [call EXCEPT ![c] = q]
  PROVE  call' \in [Callers -> Call] /\ call'[c] = q /\ \A o \in Callers \ {c} : call'[o] = call[o]
BY DEF EvTypeOK

LEMMA ReturnedIsCall ==
  ASSUME NEW result \in {"none", "ok", "refused"}
  PROVE  Returned(result) \in Call /\ Returned(result).pc = "idle" /\ Returned(result).since = 0
BY DEF Returned, Call, CallPc, Volumes

LEMMA AnswerCalls ==
  ASSUME EvTypeOK, NEW c \in Callers, NEW result \in {"none", "ok", "refused"}, Answer(c, result)
  PROVE  /\ call' \in [Callers -> Call]
         /\ call'[c].pc = "idle" /\ call'[c].since = 0
         /\ \A o \in Callers \ {c} : call'[o] = call[o]
BY ReturnedIsCall, OneCallChanges DEF Answer

LEMMA AwaitCalls ==
  ASSUME EvTypeOK, NEW c \in Callers, NEW pc \in CallPc, NEW next \in Call, Await(c, pc, next)
  PROVE  /\ call' \in [Callers -> Call]
         /\ call'[c].pc = pc /\ call'[c].event = next.event /\ call'[c].drafts = next.drafts
         /\ call'[c].since = next.since
         /\ \A o \in Callers \ {c} : call'[o] = call[o]
<1> DEFINE q == [next EXCEPT !.pc = pc, !.result = "none"]
<1>1. q \in Call /\ q.pc = pc /\ q.event = next.event /\ q.drafts = next.drafts /\ q.since = next.since
  BY DEF Call
<1>2. call' = [call EXCEPT ![c] = q]
  BY DEF Await
<1> HIDE DEF q
<1> QED BY <1>1, <1>2, OneCallChanges

-----------------------------------------------------------------------------
(* The effect of each step, as far as the invariants look at it.           *)

\* A step that writes no row, after which c does not await the write of a
\* confirmed event.
Reads(c) ==
  /\ UNCHANGED <<since, events, deliveries>>
  /\ shown' \subseteq Movements
  /\ call' \in [Callers -> Call]
  /\ \A o \in Callers \ {c} : call'[o] = call[o]
  /\ call'[c].pc \in Reviewing => call'[c].event \in FuelEvent
  /\ call'[c].pc # "confirm.update"
  /\ call'[c].since <= since

LEMMA ReadsKeepsInv ==
  ASSUME EvInv, NEW c \in Callers, Reads(c)
  PROVE  EvInv'
BY DEF EvInv, EvTypeOK, LooksBack, ReviewsOK, SavedFirst, ConfirmedHasDelivery, DeliveriesOf, Reads

LEMMA CallIsCall ==
  ASSUME EvTypeOK, NEW c \in Callers
  PROVE  call[c] \in Call
BY DEF EvTypeOK

LEMMA RefuseReads ==
  ASSUME EvTypeOK, NEW c \in Callers, Refuse(c)
  PROVE  Reads(c) /\ call'[c].pc = "idle"
<1>1. Answer(c, "refused") /\ UNCHANGED <<since, shown, events, deliveries>>
  BY DEF Refuse
<1> QED BY <1>1, AnswerCalls DEF Reads, Reviewing, EvTypeOK

LEMMA DetectBegins ==
  ASSUME EvTypeOK, NEW c \in Callers, NEW movements \in SUBSET Movements, BeginDetect(c, movements)
  PROVE  Reads(c) /\ call'[c].pc = "detect.list"
<1> DEFINE next == [call[c] EXCEPT !.seen = movements, !.since = since]
<1>1. next \in Call /\ next.since = since
  BY CallIsCall DEF Call, EvTypeOK
<1>2. Await(c, "detect.list", next)
  BY DEF BeginDetect
<1> HIDE DEF next
<1>3. /\ call' \in [Callers -> Call] /\ call'[c].pc = "detect.list" /\ call'[c].since = since
      /\ \A o \in Callers \ {c} : call'[o] = call[o]
  BY <1>1, <1>2, AwaitCalls DEF CallPc
<1> QED BY <1>2, <1>3 DEF Reads, Reviewing, EvTypeOK, Await

LEMMA DetectLooks ==
  ASSUME EvInv, NEW c \in Callers, DetectLists(c)
  PROVE  /\ Reads(c)
         /\ \/ call'[c].pc = "idle"
            \/ /\ call'[c].pc = "detect.save" /\ call'[c].since = call[c].since
               /\ call'[c].drafts \subseteq Movements
               /\ \E listed \in Newest(EndedFrom(call[c].since), EventRows) :
                    \A m \in call'[c].drafts : ~Covered(m, listed)
<1>0. EvTypeOK /\ call[c].since <= since
  BY DEF EvInv, LooksBack
<1> DEFINE Drafts(listed) == {m \in call[c].seen : ~Covered(m, listed)}
<1>a. PICK listed \in Newest(EndedFrom(call[c].since), EventRows) :
        IF Drafts(listed) = {} THEN Answer(c, "ok") /\ UNCHANGED <<since, shown, events, deliveries>>
        ELSE Await(c, "detect.save", [call[c] EXCEPT !.drafts = Drafts(listed)])
  BY DEF DetectLists
<1> DEFINE drafts == Drafts(listed)
           next == [call[c] EXCEPT !.drafts = drafts]
<1>1. CASE drafts = {}
  <2>1. Answer(c, "ok") /\ UNCHANGED <<since, shown, events, deliveries>>
    BY <1>1, <1>a
  <2> QED BY <1>0, <2>1, AnswerCalls DEF Reads, Reviewing, EvTypeOK
<1>2. CASE drafts # {}
  <2>1. drafts \subseteq Movements
    BY <1>0, CallIsCall DEF Call
  <2>2. next \in Call /\ next.drafts = drafts /\ next.since = call[c].since
    BY <1>0, <2>1, CallIsCall DEF Call
  <2>3. Await(c, "detect.save", next)
    BY <1>2, <1>a
  <2>4. \A m \in drafts : ~Covered(m, listed)
    OBVIOUS
  <2> HIDE DEF next, drafts
  <2>5. /\ call' \in [Callers -> Call] /\ call'[c].pc = "detect.save"
        /\ call'[c].drafts = drafts /\ call'[c].since = call[c].since
        /\ \A o \in Callers \ {c} : call'[o] = call[o]
    BY <1>0, <2>2, <2>3, AwaitCalls DEF CallPc
  <2>6. Reads(c)
    BY <1>0, <2>3, <2>5 DEF Reads, Reviewing, EvTypeOK, Await
  <2> QED BY <2>1, <2>4, <2>5, <2>6
<1> QED BY <1>1, <1>2

LEMMA VolumesStated ==
  ASSUME NEW v \in StatedVolumes
  PROVE  RecordedVolume(v) \in Volumes
BY DEF RecordedVolume, Volumes

LEMMA ConfirmBegins ==
  ASSUME EvInv, NEW c \in Callers, NEW e \in events, NEW v \in StatedVolumes,
         BeginConfirm(c, e, v)
  PROVE  /\ Reads(c)
         /\ \/ call'[c].pc = "idle"
            \/ call'[c].pc = "confirm.list" /\ call'[c].event = e /\ e.status = "candidate"
<1> DEFINE next == [call[c] EXCEPT !.event = e, !.recorded = RecordedVolume(v)]
<1>0. EvTypeOK /\ e \in FuelEvent /\ call[c].since <= since
  BY DEF EvInv, EvTypeOK, LooksBack
<1>1. next \in Call /\ next.event = e /\ next.since = call[c].since
  BY <1>0, VolumesStated, CallIsCall DEF Call
<1>2. Refuse(c) \/ (Await(c, "confirm.list", next) /\ e.status = "candidate")
  BY DEF BeginConfirm
<1> HIDE DEF next
<1>3. CASE Await(c, "confirm.list", next) /\ e.status = "candidate"
  <2>1. /\ call' \in [Callers -> Call] /\ call'[c].pc = "confirm.list" /\ call'[c].event = e
        /\ call'[c].since = call[c].since
        /\ \A o \in Callers \ {c} : call'[o] = call[o]
    BY <1>0, <1>1, <1>3, AwaitCalls DEF CallPc
  <2> QED BY <1>0, <1>3, <2>1 DEF Reads, Reviewing, EvTypeOK, Await
<1>4. CASE Refuse(c)
  BY <1>0, <1>4, RefuseReads
<1> QED BY <1>2, <1>3, <1>4

LEMMA ConfirmLooks ==
  ASSUME EvInv, NEW c \in Callers, ConfirmLists(c)
  PROVE  /\ Reads(c)
         /\ \/ call'[c].pc = "idle"
            \/ /\ call'[c].pc = "confirm.save" /\ call'[c].event = call[c].event
               /\ DeliveriesOf(call[c].event.id) = {}
<1>0. EvTypeOK /\ call[c].event \in FuelEvent /\ call[c].since <= since
  BY DEF EvInv, LooksBack, ReviewsOK, Reviewing, ConfirmLists
<1>1. CASE DeliveriesOf(call[c].event.id) # {}
  BY <1>0, <1>1, RefuseReads DEF ConfirmLists
<1>2. CASE DeliveriesOf(call[c].event.id) = {}
  <2>1. Await(c, "confirm.save", call[c])
    BY <1>2 DEF ConfirmLists
  <2> QED BY <1>0, <1>2, <2>1, CallIsCall, AwaitCalls DEF Reads, Reviewing, EvTypeOK, CallPc, Await
<1> QED BY <1>1, <1>2

LEMMA RejectBegins ==
  ASSUME EvInv, NEW c \in Callers, NEW e \in events, BeginReject(c, e)
  PROVE  /\ Reads(c)
         /\ \/ call'[c].pc = "idle"
            \/ call'[c].pc = "reject.update" /\ call'[c].event = e /\ e.status = "candidate"
<1> DEFINE next == [call[c] EXCEPT !.event = e]
<1>0. EvTypeOK /\ e \in FuelEvent /\ call[c].since <= since
  BY DEF EvInv, EvTypeOK, LooksBack
<1>1. next \in Call /\ next.event = e /\ next.since = call[c].since
  BY <1>0, CallIsCall DEF Call
<1>2. Refuse(c) \/ (Await(c, "reject.update", next) /\ e.status = "candidate")
  BY DEF BeginReject
<1> HIDE DEF next
<1>3. CASE Await(c, "reject.update", next) /\ e.status = "candidate"
  <2>1. /\ call' \in [Callers -> Call] /\ call'[c].pc = "reject.update" /\ call'[c].event = e
        /\ call'[c].since = call[c].since
        /\ \A o \in Callers \ {c} : call'[o] = call[o]
    BY <1>0, <1>1, <1>3, AwaitCalls DEF CallPc
  <2> QED BY <1>0, <1>3, <2>1 DEF Reads, Reviewing, EvTypeOK, Await
<1> QED BY <1>0, <1>2, <1>3, RefuseReads

-----------------------------------------------------------------------------
(* The steps that write, and EvInv.                                        *)

\* detectAndRecord adds one candidate, with the next number.
LEMMA DetectionAdds ==
  ASSUME EvTypeOK, NEW c \in Callers, NEW m \in Movements, DetectSaves(c, m)
  PROVE  \E e \in FuelEvent :
           /\ e.id = Cardinality(events) + 1 /\ e.movement = m /\ e.status = "candidate"
           /\ m.last < since => e.late
           /\ events' = events \union {e}
           /\ UNCHANGED <<since, shown, deliveries>>
           /\ call' \in [Callers -> Call]
           /\ \A o \in Callers \ {c} : call'[o] = call[o]
           /\ \/ call'[c].pc = "idle" /\ call'[c].since = 0
              \/ /\ call'[c].pc = "detect.save" /\ call'[c].drafts = call[c].drafts \ {m}
                 /\ call'[c].since = call[c].since
<1> DEFINE id == Cardinality(events) + 1
           left == call[c].drafts \ {m}
           created == call[c].created \union {id}
           e == [id |-> id, movement |-> m, status |-> "candidate", late |-> m.last < since]
           q == IF left = {} THEN [Returned("ok") EXCEPT !.created = created]
                ELSE [call[c] EXCEPT !.drafts = left, !.created = created]
<1>1. id \in 1..MaxEvents
  BY DEF DetectSaves
<1>2. e \in FuelEvent /\ e.id = id /\ e.movement = m /\ e.status = "candidate"
  <2>1. (m.last < since) \in BOOLEAN
    BY EventsAssumption DEF EvTypeOK
  <2> HIDE DEF id
  <2> QED BY <1>1, <2>1 DEF FuelEvent
<1>2a. m.last < since => e.late
  OBVIOUS
<1>3. /\ events' = events \union {e}
      /\ UNCHANGED <<since, shown, deliveries>>
      /\ call[c].pc = "detect.save"
  BY DEF DetectSaves
<1>4. call' = [call EXCEPT ![c] = q]
  BY DEF DetectSaves, EvTypeOK
<1>5. q \in Call
  <2>1. call[c] \in Call /\ Returned("ok") \in Call /\ created \subseteq 1..MaxEvents
    BY <1>1, CallIsCall, ReturnedIsCall DEF Call
  <2> QED BY <2>1 DEF Call
<1>6. \/ q.pc = "idle" /\ q.since = 0
      \/ q.pc = "detect.save" /\ q.drafts = left /\ q.since = call[c].since
  BY <1>3, CallIsCall, ReturnedIsCall DEF Call
<1> HIDE DEF q, e
<1>7. call' \in [Callers -> Call] /\ call'[c] = q /\ \A o \in Callers \ {c} : call'[o] = call[o]
  BY <1>4, <1>5, OneCallChanges
<1> QED BY <1>2, <1>2a, <1>3, <1>6, <1>7

\* confirm adds one delivery of the event it read.
LEMMA ConfirmationAdds ==
  ASSUME EvInv, NEW c \in Callers, ConfirmSaves(c)
  PROVE  \E d \in Delivery :
           /\ d.event = call[c].event.id
           /\ deliveries' = deliveries \union {d}
           /\ UNCHANGED <<since, shown, events>>
           /\ call' \in [Callers -> Call]
           /\ \A o \in Callers \ {c} : call'[o] = call[o]
           /\ call'[c].pc = "confirm.update" /\ call'[c].event = call[c].event
           /\ call'[c].since = call[c].since
<1> DEFINE id == Cardinality(deliveries) + 1
           volumes == Persisted(MeasuredVolume, call[c].recorded)
           d == [id |-> id, event |-> call[c].event.id,
                 measured |-> volumes.measured, recorded |-> volumes.recorded]
           q == [call[c] EXCEPT !.pc = "confirm.update"]
<1>1. EvTypeOK /\ call[c].event \in FuelEvent /\ id \in 1..MaxDeliveries
  BY DEF EvInv, ReviewsOK, Reviewing, ConfirmSaves
<1>2. volumes.measured \in Volumes /\ volumes.recorded \in Volumes
  BY <1>1, CallIsCall DEF Call, Persisted, Volumes
<1>3. d \in Delivery /\ d.event = call[c].event.id
  BY <1>1, <1>2 DEF Delivery, FuelEvent
<1>4. q \in Call /\ q.pc = "confirm.update" /\ q.event = call[c].event /\ q.since = call[c].since
  BY <1>1, CallIsCall DEF Call, CallPc
<1>5. /\ deliveries' = deliveries \union {d}
      /\ call' = [call EXCEPT ![c] = q]
      /\ UNCHANGED <<since, shown, events>>
  BY DEF ConfirmSaves
<1> HIDE DEF d, q
<1> QED BY <1>1, <1>3, <1>4, <1>5, OneCallChanges

\* A decision rewrites the row that was read.
LEMMA DecisionWrites ==
  ASSUME EvInv, NEW c \in Callers, NEW status \in {"confirmed", "rejected"},
         call[c].pc \in Reviewing, WriteDecision(c, status)
  PROVE  \E e \in FuelEvent :
           /\ e = [call[c].event EXCEPT !.status = status]
           /\ e.id = call[c].event.id /\ e.movement = call[c].event.movement /\ e.status = status
           /\ e.late = call[c].event.late
           /\ events' = {f \in events : f.id # e.id} \union {e}
           /\ UNCHANGED <<since, shown, deliveries>>
           /\ call' \in [Callers -> Call]
           /\ \A o \in Callers \ {c} : call'[o] = call[o]
           /\ call'[c].pc = "idle" /\ call'[c].since = 0
<1> DEFINE e == [call[c].event EXCEPT !.status = status]
<1>1. EvTypeOK /\ call[c].event \in FuelEvent
  BY DEF EvInv, ReviewsOK
<1>2. /\ e \in FuelEvent
      /\ e.id = call[c].event.id /\ e.movement = call[c].event.movement /\ e.status = status
      /\ e.late = call[c].event.late
  BY <1>1 DEF FuelEvent
<1>3. /\ events' = {f \in events : f.id # e.id} \union {e}
      /\ Answer(c, "ok") /\ UNCHANGED <<since, shown, deliveries>>
  BY DEF WriteDecision
<1>4. e = [call[c].event EXCEPT !.status = status]
  OBVIOUS
<1> HIDE DEF e
<1> QED BY <1>1, <1>2, <1>3, <1>4, AnswerCalls

\* The initial states satisfy the invariant.
LEMMA EvInitInv == EvInit => EvInv
<1> SUFFICES ASSUME EvInit PROVE EvInv OBVIOUS
<1>1. call \in [Callers -> Call] /\ \A c \in Callers : call[c].pc = "idle" /\ call[c].since = 0
  BY ReturnedIsCall DEF EvInit
<1> QED BY <1>1 DEF EvInit, EvInv, EvTypeOK, LooksBack, ReviewsOK, SavedFirst, ConfirmedHasDelivery, Reviewing

\* Every step keeps it.
LEMMA EvStepInv == EvInv /\ [EvNext]_evVars => EvInv'
<1> SUFFICES ASSUME EvInv, [EvNext]_evVars PROVE EvInv' OBVIOUS
<1>0. EvTypeOK
  BY DEF EvInv
<1>1. ASSUME NEW movements \in SUBSET Movements, Show(movements) PROVE EvInv'
  BY <1>1 DEF Show, EvInv, EvTypeOK, LooksBack, ReviewsOK, SavedFirst, ConfirmedHasDelivery, DeliveriesOf
<1>2. ASSUME NEW c \in Callers, NEW e \in events, NEW v \in StatedVolumes, BeginConfirm(c, e, v)
      PROVE  EvInv'
  BY <1>0, <1>2, ConfirmBegins, ReadsKeepsInv
<1>3. ASSUME NEW c \in Callers, NEW e \in events, BeginReject(c, e) PROVE EvInv'
  BY <1>0, <1>3, RejectBegins, ReadsKeepsInv
<1>4. ASSUME NEW c \in Callers, BeginDetect(c, shown) PROVE EvInv'
  BY <1>0, <1>4, DetectBegins, ReadsKeepsInv DEF EvTypeOK
<1>5. ASSUME NEW c \in Callers, DetectLists(c) PROVE EvInv'
  BY <1>0, <1>5, DetectLooks, ReadsKeepsInv
<1>6. ASSUME NEW c \in Callers, NEW m \in Movements, DetectSaves(c, m) PROVE EvInv'
  BY <1>0, <1>6, DetectionAdds
     DEF EvInv, EvTypeOK, LooksBack, ReviewsOK, SavedFirst, ConfirmedHasDelivery, DeliveriesOf, Reviewing
<1>7. ASSUME NEW c \in Callers, ConfirmLists(c) PROVE EvInv'
  BY <1>7, ConfirmLooks, ReadsKeepsInv
<1>8. ASSUME NEW c \in Callers, ConfirmSaves(c) PROVE EvInv'
  <2>1. call[c].event \in FuelEvent
    BY <1>8 DEF EvInv, ReviewsOK, Reviewing, ConfirmSaves
  <2> QED BY <1>8, <2>1, ConfirmationAdds
         DEF EvInv, EvTypeOK, LooksBack, ReviewsOK, SavedFirst, ConfirmedHasDelivery, DeliveriesOf
<1>9. ASSUME NEW c \in Callers, ConfirmUpdates(c) PROVE EvInv'
  <2>1. call[c].pc = "confirm.update" /\ WriteDecision(c, "confirmed")
    BY <1>9 DEF ConfirmUpdates
  <2>2. DeliveriesOf(call[c].event.id) # {}
    BY <2>1 DEF EvInv, SavedFirst
  <2> QED BY <2>1, <2>2, DecisionWrites
         DEF EvInv, EvTypeOK, LooksBack, ReviewsOK, SavedFirst, ConfirmedHasDelivery, DeliveriesOf, Reviewing
<1>10. ASSUME NEW c \in Callers, RejectUpdates(c) PROVE EvInv'
  <2>1. call[c].pc = "reject.update" /\ WriteDecision(c, "rejected")
    BY <1>10 DEF RejectUpdates
  <2> QED BY <2>1, DecisionWrites
         DEF EvInv, EvTypeOK, LooksBack, ReviewsOK, SavedFirst, ConfirmedHasDelivery, DeliveriesOf, Reviewing
<1>11. ASSUME NEW c \in Callers, Crash(c) PROVE EvInv'
  BY <1>0, <1>11, RefuseReads, ReadsKeepsInv DEF Crash
<1>12. CASE UNCHANGED evVars
  BY <1>12
     DEF evVars, EvInv, EvTypeOK, LooksBack, ReviewsOK, SavedFirst, ConfirmedHasDelivery, DeliveriesOf
<1>13. CASE Age
  BY <1>13
     DEF Age, EvInv, EvTypeOK, Call, LooksBack, ReviewsOK, SavedFirst, ConfirmedHasDelivery, DeliveriesOf
<1> QED BY <1>1, <1>2, <1>3, <1>4, <1>5, <1>6, <1>7, <1>8, <1>9, <1>10, <1>11, <1>12, <1>13
       DEF EvNext, Review, Continue

LEMMA EvInvariant == EvSpec => []EvInv
BY EvInitInv, EvStepInv, PTL DEF EvSpec

\* The rows and the calls have the types the code declares.
THEOREM EvTypeCorrect == EvSpec => []EvTypeOK
<1>1. EvInv => EvTypeOK BY DEF EvInv
<1> QED BY <1>1, EvInvariant, PTL

\* A confirmed event has its delivery, in either store, however reviews, runs
\* of the detection and crashes interleave.
THEOREM ConfirmedEventsHaveDeliveries == EvSpec => []ConfirmedHasDelivery
<1>1. EvInv => ConfirmedHasDelivery BY DEF EvInv
<1> QED BY <1>1, EvInvariant, PTL

\* Only the save of a confirmation adds a delivery, and nothing changes one.
LEMMA DeliveriesOnlySaved ==
  ASSUME [EvNext]_evVars
  PROVE  deliveries' = deliveries \/ \E c \in Callers : ConfirmSaves(c)
<1>1. ASSUME NEW c \in Callers, Review(c) PROVE deliveries' = deliveries
  BY <1>1 DEF Review, BeginConfirm, BeginReject, Refuse, Answer, Await
<1>2. ASSUME NEW c \in Callers, BeginDetect(c, shown) \/ Crash(c) PROVE deliveries' = deliveries
  BY <1>2 DEF BeginDetect, Crash, Refuse, Answer, Await
<1>3. ASSUME NEW c \in Callers, DetectLists(c) \/ ConfirmLists(c) PROVE deliveries' = deliveries
  BY <1>3 DEF DetectLists, ConfirmLists, Refuse, Answer, Await
<1>4. ASSUME NEW c \in Callers, NEW m \in Movements, DetectSaves(c, m)
      PROVE  deliveries' = deliveries
  BY <1>4 DEF DetectSaves
<1>5. ASSUME NEW c \in Callers, ConfirmUpdates(c) \/ RejectUpdates(c)
      PROVE  deliveries' = deliveries
  BY <1>5 DEF ConfirmUpdates, RejectUpdates, WriteDecision
<1> QED BY <1>1, <1>2, <1>3, <1>4, <1>5 DEF EvNext, Continue, Show, Age, evVars

\* The memory store keeps the measured volume of a delivery beside the one that
\* is recorded; the table of PostgreSQL has one column for the two.
THEOREM VolumesApartInMemory ==
  ASSUME ~Database PROVE EvSpec => []VolumesKeptApart
<1>1. EvInit => VolumesKeptApart
  BY DEF EvInit, VolumesKeptApart
<1>2. VolumesKeptApart /\ [EvNext]_evVars => VolumesKeptApart'
  <2> SUFFICES ASSUME VolumesKeptApart, [EvNext]_evVars PROVE VolumesKeptApart'
    OBVIOUS
  <2>1. CASE deliveries' = deliveries
    BY <2>1 DEF VolumesKeptApart
  <2>2. ASSUME NEW c \in Callers, ConfirmSaves(c) PROVE VolumesKeptApart'
    BY <2>2 DEF ConfirmSaves, Persisted, VolumesKeptApart
  <2> QED BY <2>1, <2>2, DeliveriesOnlySaved
<1> QED BY <1>1, <1>2, PTL DEF EvSpec

-----------------------------------------------------------------------------
(* Calls that do not overlap: what a call has read is so when it writes.   *)

\* One call is under way at most.
OneCall == \A c, o \in Callers : call[c].pc # "idle" /\ call[o].pc # "idle" => c = o

\* The rows are numbered from 1 without gaps.
NumberedEvents ==
  /\ IsFiniteSet(events)
  /\ \A e \in events : e.id \in 1..Cardinality(events)
  /\ \A e, f \in events : e.id = f.id => e = f

\* The event a review has read is the row, and awaits the decision.
ReadIsCurrent ==
  \A c \in Callers : call[c].pc \in Reviewing =>
    call[c].event \in events /\ call[c].event.status = "candidate"

\* A confirmation that is about to save a delivery saves the first.
NotYetDelivered ==
  \A c \in Callers : call[c].pc = "confirm.save" => DeliveriesOf(call[c].event.id) = {}

\* No event of a movement stands but those the detection does not see again:
\* the movement is older than its lookback, or more events are as new as a
\* list holds.
Unrecorded(m, t) ==
  \A e \in events : e.movement = m /\ e.status # "rejected" =>
    m.last < t \/ Cardinality(EndedFrom(m.last)) > EventRows

\* The movements a detection is about to save are still unrecorded.
DraftsAreNew ==
  \A c \in Callers : call[c].pc = "detect.save" =>
    \A m \in call[c].drafts : Unrecorded(m, call[c].since)

SerialInv ==
  /\ EvInv
  /\ OneCall
  /\ NumberedEvents
  /\ ReadIsCurrent
  /\ NotYetDelivered
  /\ DraftsAreNew
  /\ OneDeliveryPerEvent
  /\ OneEventPerMovement

\* What holds of the rows alone, as long as no row changes.
LEMMA RowsUnchanged ==
  ASSUME UNCHANGED <<events, deliveries>>
  PROVE  /\ NumberedEvents' = NumberedEvents
         /\ OneDeliveryPerEvent' = OneDeliveryPerEvent
         /\ OneEventPerMovement' = OneEventPerMovement
         /\ \A id : DeliveriesOf(id)' = DeliveriesOf(id)
         /\ \A m, t : Unrecorded(m, t)' = Unrecorded(m, t)
BY DEF NumberedEvents, OneDeliveryPerEvent, OneEventPerMovement, DeliveriesOf, Unrecorded, EndedFrom

\* A step that writes no row keeps SerialInv if what c knows after it is so.
LEMMA SerialReads ==
  ASSUME SerialInv, NEW c \in Callers, Reads(c),
         \A o \in Callers \ {c} : call[o].pc = "idle",
         call'[c].pc \in Reviewing =>
           call'[c].event \in events /\ call'[c].event.status = "candidate",
         call'[c].pc = "confirm.save" => DeliveriesOf(call'[c].event.id) = {},
         call'[c].pc = "detect.save" =>
           \A m \in call'[c].drafts : Unrecorded(m, call'[c].since)
  PROVE  SerialInv'
<1>1. EvInv'
  BY ReadsKeepsInv DEF SerialInv
<1>2. NumberedEvents' /\ OneDeliveryPerEvent' /\ OneEventPerMovement'
  BY RowsUnchanged DEF SerialInv, Reads
<1>3. \A o \in Callers \ {c} : call'[o].pc = "idle"
  BY DEF Reads
<1>4. OneCall'
  BY <1>3 DEF OneCall
<1>5. ReadIsCurrent'
  BY <1>3 DEF ReadIsCurrent, Reads, Reviewing
<1>6. NotYetDelivered'
  BY <1>3, RowsUnchanged DEF NotYetDelivered, Reads
<1>7. DraftsAreNew'
  BY <1>3, RowsUnchanged DEF DraftsAreNew, Reads
<1> QED BY <1>1, <1>2, <1>4, <1>5, <1>6, <1>7 DEF SerialInv

\* The others are idle when a call begins, and while it runs.
LEMMA OthersIdleAtBegin ==
  ASSUME ~Overlap, NEW c \in Callers, MayBegin(c)
  PROVE  \A o \in Callers \ {c} : call[o].pc = "idle"
BY DEF MayBegin

LEMMA OthersIdle ==
  ASSUME SerialInv, NEW c \in Callers, call[c].pc # "idle"
  PROVE  \A o \in Callers \ {c} : call[o].pc = "idle"
BY DEF SerialInv, OneCall

\* A movement that no listed event covers is unrecorded: an event of it that
\* stands is older than the lookback, or was left out of a full list for events
\* that are as new.
LEMMA UncoveredIsUnrecorded ==
  ASSUME EvTypeOK, IsFiniteSet(events), NEW t \in Nat, NEW m \in Movements,
         NEW listed \in Newest(EndedFrom(t), EventRows), ~Covered(m, listed)
  PROVE  Unrecorded(m, t)
<1> SUFFICES ASSUME NEW e \in events, e.movement = m, e.status # "rejected", ~(m.last < t)
             PROVE  Cardinality(EndedFrom(m.last)) > EventRows
  BY DEF Unrecorded
<1>0. m.last \in Nat /\ EventRows \in Nat
  BY EventsAssumption
<1>1. e \in EndedFrom(t) /\ e \notin listed /\ e \in EndedFrom(m.last)
  BY <1>0 DEF EndedFrom, Covered
<1>2. listed # EndedFrom(t) /\ Cardinality(listed) = EventRows
  BY <1>1 DEF Newest
<1>3. \A f \in listed : f \in events /\ m.last <= f.movement.last
  BY <1>1 DEF Newest, EndedFrom
<1>4. \A f \in listed : f.movement.last \in Nat
  BY <1>3, EventsAssumption DEF EvTypeOK, FuelEvent
<1>5. listed \union {e} \subseteq EndedFrom(m.last)
  BY <1>0, <1>1, <1>3, <1>4 DEF EndedFrom
<1>6. IsFiniteSet(EndedFrom(m.last)) /\ IsFiniteSet(listed)
  BY <1>3, FS_Subset DEF EndedFrom
<1>7. Cardinality(listed \union {e}) = EventRows + 1
  BY <1>1, <1>2, <1>6, FS_AddElement
<1>8. Cardinality(listed \union {e}) <= Cardinality(EndedFrom(m.last))
  BY <1>5, <1>6, FS_Subset
<1> QED BY <1>0, <1>6, <1>7, <1>8, FS_CardinalityType

LEMMA DetectionDrafts ==
  ASSUME SerialInv, NEW c \in Callers, DetectLists(c)
  PROVE  /\ Reads(c)
         /\ \/ call'[c].pc = "idle"
            \/ /\ call'[c].pc = "detect.save"
               /\ \A m \in call'[c].drafts : Unrecorded(m, call'[c].since)
<1>1. EvInv /\ EvTypeOK /\ IsFiniteSet(events)
  BY DEF SerialInv, EvInv, NumberedEvents
<1>2. call[c].since \in Nat
  BY <1>1, CallIsCall DEF Call
<1> QED BY <1>1, <1>2, DetectLooks, UncoveredIsUnrecorded

\* Events are added, and none is as old as none was.
LEMMA EndedFromGrows ==
  ASSUME IsFiniteSet(events'), events \subseteq events', NEW t,
         Cardinality(EndedFrom(t)) > EventRows
  PROVE  Cardinality(EndedFrom(t)') > EventRows
<1>1. EndedFrom(t) \subseteq EndedFrom(t)' /\ EndedFrom(t)' \subseteq events'
  BY DEF EndedFrom
<1>2. IsFiniteSet(EndedFrom(t)') /\ IsFiniteSet(EndedFrom(t))
  BY <1>1, FS_Subset
<1>3. Cardinality(EndedFrom(t)) <= Cardinality(EndedFrom(t)')
  BY <1>1, <1>2, FS_Subset
<1> QED BY <1>2, <1>3, FS_CardinalityType, EventsAssumption

\* One row of a finite set makes room for another.
LEMMA ReplacedCardinality ==
  ASSUME NEW S, IsFiniteSet(S), NEW old \in S, NEW new, new \notin S \ {old}
  PROVE  /\ IsFiniteSet((S \ {old}) \union {new})
         /\ Cardinality((S \ {old}) \union {new}) = Cardinality(S)
<1> DEFINE rest == S \ {old}
<1>1. IsFiniteSet(rest) /\ Cardinality(rest) = Cardinality(S) - 1
  BY FS_RemoveElement
<1>2. new \notin rest
  OBVIOUS
<1> HIDE DEF rest
<1>3. IsFiniteSet(rest \union {new}) /\ Cardinality(rest \union {new}) = Cardinality(rest) + 1
  BY <1>1, <1>2, FS_AddElement
<1>4. Cardinality(S) \in Nat
  BY FS_CardinalityType
<1>5. Cardinality(rest \union {new}) = Cardinality(S)
  BY <1>1, <1>3, <1>4
<1> QED BY <1>3, <1>5 DEF rest

\* A new candidate has the next number and a movement that is unrecorded.
LEMMA SerialAdds ==
  ASSUME SerialInv, NEW c \in Callers, NEW m \in Movements, DetectSaves(c, m)
  PROVE  SerialInv'
<1>0. EvTypeOK
  BY DEF SerialInv, EvInv
<1>1. EvInv'
  BY EvStepInv DEF SerialInv, EvNext, Continue
<1>2. PICK e \in FuelEvent :
        /\ e.id = Cardinality(events) + 1 /\ e.movement = m /\ e.status = "candidate"
        /\ m.last < since => e.late
        /\ events' = events \union {e}
        /\ UNCHANGED <<since, shown, deliveries>>
        /\ call' \in [Callers -> Call]
        /\ \A o \in Callers \ {c} : call'[o] = call[o]
        /\ \/ call'[c].pc = "idle" /\ call'[c].since = 0
           \/ /\ call'[c].pc = "detect.save" /\ call'[c].drafts = call[c].drafts \ {m}
              /\ call'[c].since = call[c].since
  BY <1>0, DetectionAdds
<1>3. call[c].pc = "detect.save" /\ m \in call[c].drafts
  BY DEF DetectSaves
<1>4. \A o \in Callers \ {c} : call'[o].pc = "idle"
  BY <1>2, <1>3, OthersIdle
<1>4a. PICK t \in Nat : t = call[c].since
  BY <1>0, CallIsCall DEF Call
<1>5. /\ \A n \in call[c].drafts : Unrecorded(n, t)
      /\ t <= since /\ m.last \in Nat /\ since \in Nat
  BY <1>0, <1>3, <1>4a, EventsAssumption DEF SerialInv, DraftsAreNew, EvInv, LooksBack, EvTypeOK
<1>6. OneCall'
  BY <1>4 DEF OneCall
<1>7. NumberedEvents'
  <2>1. IsFiniteSet(events) /\ Cardinality(events) \in Nat
    BY FS_CardinalityType DEF SerialInv, NumberedEvents
  <2>2. \A f \in events : f.id \in 1..Cardinality(events)
    BY DEF SerialInv, NumberedEvents
  <2>3. e \notin events
    BY <1>2, <2>1, <2>2
  <2>4. IsFiniteSet(events') /\ Cardinality(events') = Cardinality(events) + 1
    BY <1>2, <2>1, <2>3, FS_AddElement
  <2>5. \A f \in events' : f.id \in 1..Cardinality(events')
    BY <1>2, <2>1, <2>2, <2>4
  <2>6. \A f, g \in events' : f.id = g.id => f = g
    BY <1>2, <2>1, <2>2 DEF SerialInv, NumberedEvents
  <2> QED BY <2>4, <2>5, <2>6 DEF NumberedEvents
<1>8. ReadIsCurrent' /\ NotYetDelivered'
  BY <1>2, <1>4 DEF ReadIsCurrent, NotYetDelivered, Reviewing
<1>8a. \A u : Cardinality(EndedFrom(u)) > EventRows => Cardinality(EndedFrom(u)') > EventRows
  BY <1>2, <1>7, EndedFromGrows DEF NumberedEvents
<1>9. DraftsAreNew'
  <2> SUFFICES ASSUME NEW n \in call[c].drafts \ {m}, NEW f \in events', f.movement = n,
                      f.status # "rejected"
               PROVE  n.last < t \/ Cardinality(EndedFrom(n.last)') > EventRows
    BY <1>2, <1>4, <1>4a DEF DraftsAreNew, Unrecorded
  <2>1. f \in events
    BY <1>2
  <2>2. n.last < t \/ Cardinality(EndedFrom(n.last)) > EventRows
    BY <1>5, <2>1 DEF Unrecorded
  <2> QED BY <1>8a, <2>2
<1>10. OneDeliveryPerEvent'
  BY <1>2 DEF SerialInv, OneDeliveryPerEvent
<1>11. OneEventPerMovement'
  <2> SUFFICES ASSUME NEW f \in events', NEW g \in events', f.movement = g.movement,
                      f.status # "rejected", g.status # "rejected", f # g
               PROVE  f.late \/ g.late \/ Cardinality(EndedFrom(f.movement.last)') > EventRows
    BY DEF OneEventPerMovement
  <2>1. CASE f \in events /\ g \in events
    BY <1>8a, <2>1 DEF SerialInv, OneEventPerMovement
  <2>2. CASE f = e \/ g = e
    <3>1. m.last < t \/ Cardinality(EndedFrom(m.last)) > EventRows
      BY <1>2, <1>3, <1>5, <2>2 DEF Unrecorded
    <3>2. m.last < t => e.late
      BY <1>2, <1>5
    <3>3. f.movement = m
      BY <1>2, <2>2
    <3> QED BY <1>8a, <2>2, <3>1, <3>2, <3>3
  <2> QED BY <1>2, <2>1, <2>2
<1> QED BY <1>1, <1>6, <1>7, <1>8, <1>9, <1>10, <1>11 DEF SerialInv

\* A delivery is the first of its event.
LEMMA SerialDelivers ==
  ASSUME SerialInv, NEW c \in Callers, ConfirmSaves(c)
  PROVE  SerialInv'
<1>1. EvInv'
  BY EvStepInv DEF SerialInv, EvNext, Continue
<1>2. PICK d \in Delivery :
        /\ d.event = call[c].event.id
        /\ deliveries' = deliveries \union {d}
        /\ UNCHANGED <<since, shown, events>>
        /\ call' \in [Callers -> Call]
        /\ \A o \in Callers \ {c} : call'[o] = call[o]
        /\ call'[c].pc = "confirm.update" /\ call'[c].event = call[c].event
        /\ call'[c].since = call[c].since
  BY ConfirmationAdds DEF SerialInv
<1>3. call[c].pc = "confirm.save"
  BY DEF ConfirmSaves
<1>4. \A o \in Callers \ {c} : call'[o].pc = "idle"
  BY <1>2, <1>3, OthersIdle
<1>5. DeliveriesOf(call[c].event.id) = {}
  BY <1>3 DEF SerialInv, NotYetDelivered
<1>6. OneCall' /\ NotYetDelivered' /\ DraftsAreNew'
  BY <1>2, <1>4 DEF OneCall, NotYetDelivered, DraftsAreNew
<1>7. ReadIsCurrent'
  BY <1>2, <1>3, <1>4 DEF SerialInv, ReadIsCurrent, Reviewing
<1>8. NumberedEvents' /\ OneEventPerMovement'
  BY <1>2 DEF SerialInv, NumberedEvents, OneEventPerMovement, EndedFrom
<1>9. OneDeliveryPerEvent'
  BY <1>2, <1>5 DEF SerialInv, OneDeliveryPerEvent, DeliveriesOf
<1> QED BY <1>1, <1>6, <1>7, <1>8, <1>9 DEF SerialInv

\* A decision rewrites the one row that was read, and leaves its id and its
\* movement.
LEMMA SerialDecides ==
  ASSUME SerialInv, NEW c \in Callers, NEW status \in {"confirmed", "rejected"},
         call[c].pc \in Reviewing, WriteDecision(c, status), EvInv'
  PROVE  SerialInv'
<1> DEFINE old == call[c].event
<1>1. PICK e \in FuelEvent :
        /\ e = [old EXCEPT !.status = status]
        /\ e.id = old.id /\ e.movement = old.movement /\ e.status = status
        /\ e.late = old.late
        /\ events' = {f \in events : f.id # e.id} \union {e}
        /\ UNCHANGED <<since, shown, deliveries>>
        /\ call' \in [Callers -> Call]
        /\ \A o \in Callers \ {c} : call'[o] = call[o]
        /\ call'[c].pc = "idle" /\ call'[c].since = 0
  BY DecisionWrites DEF SerialInv
<1>2. old \in events /\ old.status = "candidate"
  BY DEF SerialInv, ReadIsCurrent
<1> HIDE DEF old
<1>3. \A o \in Callers : call'[o].pc = "idle"
  BY <1>1, OthersIdle DEF Reviewing
<1>4. OneCall' /\ ReadIsCurrent' /\ NotYetDelivered' /\ DraftsAreNew'
  BY <1>3 DEF OneCall, ReadIsCurrent, NotYetDelivered, DraftsAreNew, Reviewing
<1>5. events' = (events \ {old}) \union {e}
  BY <1>1, <1>2 DEF SerialInv, NumberedEvents
<1>6. NumberedEvents'
  <2>1. /\ IsFiniteSet(events) /\ Cardinality(events) \in Nat
        /\ \A f \in events : f.id \in 1..Cardinality(events)
        /\ \A f, g \in events : f.id = g.id => f = g
    BY FS_CardinalityType DEF SerialInv, NumberedEvents
  <2>3. e \notin events \ {old}
    BY <1>1, <1>2, <2>1
  <2>4. IsFiniteSet(events') /\ Cardinality(events') = Cardinality(events)
    BY <1>2, <1>5, <2>1, <2>3, ReplacedCardinality
  <2>5. \A f \in events' : f.id \in 1..Cardinality(events')
    BY <1>1, <1>2, <1>5, <2>1, <2>4
  <2>6. \A f, g \in events' : f.id = g.id => f = g
    BY <1>1, <1>2, <1>5, <2>1
  <2> QED BY <2>4, <2>5, <2>6 DEF NumberedEvents
<1>7. OneDeliveryPerEvent'
  BY <1>1 DEF SerialInv, OneDeliveryPerEvent
<1>7a. \A t : Cardinality(EndedFrom(t)') = Cardinality(EndedFrom(t))
  <2> SUFFICES ASSUME NEW t PROVE Cardinality(EndedFrom(t)') = Cardinality(EndedFrom(t))
    OBVIOUS
  <2>1. IsFiniteSet(EndedFrom(t)) /\ e \notin events \ {old}
    BY <1>1, <1>2, FS_Subset DEF EndedFrom, SerialInv, NumberedEvents
  <2>2. CASE old \in EndedFrom(t)
    <3>1. EndedFrom(t)' = (EndedFrom(t) \ {old}) \union {e} /\ e \notin EndedFrom(t) \ {old}
      BY <1>1, <1>5, <2>1, <2>2 DEF EndedFrom
    <3> QED BY <2>1, <2>2, <3>1, ReplacedCardinality
  <2>3. CASE old \notin EndedFrom(t)
    <3>1. EndedFrom(t)' = EndedFrom(t)
      BY <1>1, <1>2, <1>5, <2>3 DEF EndedFrom
    <3> QED BY <3>1
  <2> QED BY <2>2, <2>3
<1>8. OneEventPerMovement'
  <2> SUFFICES ASSUME NEW f \in events', NEW g \in events', f.movement = g.movement,
                      f.status # "rejected", g.status # "rejected", f # g
               PROVE  f.late \/ g.late \/ Cardinality(EndedFrom(f.movement.last)') > EventRows
    BY DEF OneEventPerMovement
  <2>1. \A h \in events' : h = e \/ h \in events \ {old}
    BY <1>5
  <2>2. OneEventPerMovement
    BY DEF SerialInv
  <2>3. CASE f = e
    <3>1. g \in events \ {old} /\ g.movement = old.movement
      BY <1>1, <2>1, <2>3
    <3>2. old.late \/ g.late \/ Cardinality(EndedFrom(old.movement.last)) > EventRows
      BY <1>2, <2>2, <3>1 DEF OneEventPerMovement
    <3> QED BY <1>1, <1>7a, <2>3, <3>2
  <2>4. CASE g = e
    <3>1. f \in events \ {old} /\ f.movement = old.movement
      BY <1>1, <2>1, <2>4
    <3>2. f.late \/ old.late \/ Cardinality(EndedFrom(f.movement.last)) > EventRows
      BY <1>2, <2>2, <3>1 DEF OneEventPerMovement
    <3> QED BY <1>1, <1>7a, <2>4, <3>2
  <2>5. CASE f # e /\ g # e
    BY <1>7a, <2>1, <2>2, <2>5 DEF OneEventPerMovement
  <2> QED BY <2>3, <2>4, <2>5
<1> QED BY <1>4, <1>6, <1>7, <1>8 DEF SerialInv

LEMMA SerialInit == EvInit => SerialInv
<1> SUFFICES ASSUME EvInit PROVE SerialInv OBVIOUS
<1>1. \A c \in Callers : call[c].pc = "idle"
  BY ReturnedIsCall DEF EvInit
<1>2. NumberedEvents
  BY FS_EmptySet DEF EvInit, NumberedEvents
<1> QED BY <1>1, <1>2, EvInitInv
       DEF SerialInv, OneCall, ReadIsCurrent, NotYetDelivered, DraftsAreNew,
           OneDeliveryPerEvent, OneEventPerMovement, EvInit, Reviewing

LEMMA SerialStep ==
  ASSUME ~Overlap, SerialInv, [EvNext]_evVars
  PROVE  SerialInv'
<1>0. EvTypeOK /\ EvInv
  BY DEF SerialInv, EvInv
<1>1. EvInv'
  BY EvStepInv DEF SerialInv
<1>2. ASSUME NEW movements \in SUBSET Movements, Show(movements) PROVE SerialInv'
  BY <1>1, <1>2, RowsUnchanged
     DEF Show, SerialInv, OneCall, ReadIsCurrent, NotYetDelivered, DraftsAreNew
<1>3. ASSUME NEW c \in Callers, NEW e \in events, NEW v \in StatedVolumes, BeginConfirm(c, e, v)
      PROVE  SerialInv'
  <2>1. \A o \in Callers \ {c} : call[o].pc = "idle"
    BY <1>3, OthersIdleAtBegin DEF BeginConfirm
  <2> QED BY <1>0, <1>3, <2>1, ConfirmBegins, SerialReads DEF Reviewing
<1>4. ASSUME NEW c \in Callers, NEW e \in events, BeginReject(c, e) PROVE SerialInv'
  <2>1. \A o \in Callers \ {c} : call[o].pc = "idle"
    BY <1>4, OthersIdleAtBegin DEF BeginReject
  <2> QED BY <1>0, <1>4, <2>1, RejectBegins, SerialReads DEF Reviewing
<1>5. ASSUME NEW c \in Callers, BeginDetect(c, shown) PROVE SerialInv'
  <2>1. \A o \in Callers \ {c} : call[o].pc = "idle"
    BY <1>5, OthersIdleAtBegin DEF BeginDetect
  <2>2. Reads(c) /\ call'[c].pc = "detect.list"
    BY <1>0, <1>5, DetectBegins DEF EvTypeOK
  <2> QED BY <2>1, <2>2, SerialReads DEF Reviewing
<1>6. ASSUME NEW c \in Callers, DetectLists(c) PROVE SerialInv'
  <2>1. \A o \in Callers \ {c} : call[o].pc = "idle"
    BY <1>6, OthersIdle DEF DetectLists
  <2> QED BY <1>0, <1>6, <2>1, DetectionDrafts, SerialReads DEF Reviewing
<1>7. ASSUME NEW c \in Callers, NEW m \in Movements, DetectSaves(c, m) PROVE SerialInv'
  BY <1>7, SerialAdds
<1>8. ASSUME NEW c \in Callers, ConfirmLists(c) PROVE SerialInv'
  <2>1. \A o \in Callers \ {c} : call[o].pc = "idle"
    BY <1>8, OthersIdle DEF ConfirmLists
  <2>2. call[c].event \in events /\ call[c].event.status = "candidate"
    BY <1>8 DEF SerialInv, ReadIsCurrent, Reviewing, ConfirmLists
  <2> QED BY <1>0, <1>8, <2>1, <2>2, ConfirmLooks, SerialReads DEF Reviewing
<1>9. ASSUME NEW c \in Callers, ConfirmSaves(c) PROVE SerialInv'
  BY <1>9, SerialDelivers
<1>10. ASSUME NEW c \in Callers, ConfirmUpdates(c) PROVE SerialInv'
  BY <1>1, <1>10, SerialDecides DEF ConfirmUpdates, Reviewing
<1>11. ASSUME NEW c \in Callers, RejectUpdates(c) PROVE SerialInv'
  BY <1>1, <1>11, SerialDecides DEF RejectUpdates, Reviewing
<1>12. ASSUME NEW c \in Callers, Crash(c) PROVE SerialInv'
  <2>1. \A o \in Callers \ {c} : call[o].pc = "idle"
    BY <1>12, OthersIdle DEF Crash
  <2>2. Reads(c) /\ call'[c].pc = "idle"
    BY <1>0, <1>12, RefuseReads DEF Crash
  <2> QED BY <2>1, <2>2, SerialReads DEF Reviewing
<1>13. CASE UNCHANGED evVars
  BY <1>1, <1>13, RowsUnchanged
     DEF evVars, SerialInv, OneCall, ReadIsCurrent, NotYetDelivered, DraftsAreNew
<1>14. CASE Age
  BY <1>1, <1>14, RowsUnchanged
     DEF Age, SerialInv, OneCall, ReadIsCurrent, NotYetDelivered, DraftsAreNew
<1> QED BY <1>2, <1>3, <1>4, <1>5, <1>6, <1>7, <1>8, <1>9, <1>10, <1>11, <1>12, <1>13, <1>14
       DEF EvNext, Review, Continue

LEMMA SerialInvariant ==
  ASSUME ~Overlap
  PROVE  EvSpec => []SerialInv
<1>1. SerialInv /\ [EvNext]_evVars => SerialInv'
  BY SerialStep
<1> QED BY <1>1, SerialInit, PTL DEF EvSpec

\* However often a confirmation is retried after it stopped half-way, its
\* event has one delivery, if calls do not overlap.
THEOREM OneDeliveryWithoutOverlap ==
  ASSUME ~Overlap
  PROVE  EvSpec => []OneDeliveryPerEvent
<1>1. SerialInv => OneDeliveryPerEvent BY DEF SerialInv
<1> QED BY <1>1, SerialInvariant, PTL

\* Detection runs after every reading and stops anywhere: a movement has one
\* event that was not rejected, if calls do not overlap; a second is recorded
\* only when the movement is older than the lookback, or more events than a
\* list holds are as new.
THEOREM OneEventWithoutOverlap ==
  ASSUME ~Overlap
  PROVE  EvSpec => []OneEventPerMovement
<1>1. SerialInv => OneEventPerMovement BY DEF SerialInv
<1> QED BY <1>1, SerialInvariant, PTL

DecisionsKept == \A e \in events : e.status # "candidate" => e \in events'

\* The row a decision writes over is the candidate it read.
LEMMA StepKeepsDecisions ==
  ASSUME SerialInv, [EvNext]_evVars
  PROVE  DecisionsKept
<1>1. ASSUME NEW c \in Callers, NEW status \in {"confirmed", "rejected"},
             call[c].pc \in Reviewing, WriteDecision(c, status)
      PROVE  DecisionsKept
  <2>1. call[c].event \in events /\ call[c].event.status = "candidate"
    BY <1>1 DEF SerialInv, ReadIsCurrent
  <2>2. events' = {f \in events : f.id # call[c].event.id}
                    \union {[call[c].event EXCEPT !.status = status]}
    BY <1>1, DecisionWrites DEF SerialInv
  <2>3. \A e \in events : e.status # "candidate" => e.id # call[c].event.id
    BY <2>1 DEF SerialInv, NumberedEvents
  <2> QED BY <2>2, <2>3 DEF DecisionsKept
<1>2. ASSUME NEW c \in Callers, Continue(c) PROVE DecisionsKept
  <2>1. CASE DetectLists(c) \/ ConfirmLists(c)
    BY <2>1, DetectLooks, ConfirmLooks DEF DecisionsKept, Reads, SerialInv, EvInv
  <2>2. CASE \E m \in Movements : DetectSaves(c, m)
    BY <2>2 DEF DecisionsKept, DetectSaves
  <2>3. CASE ConfirmSaves(c)
    BY <2>3 DEF DecisionsKept, ConfirmSaves
  <2>4. CASE ConfirmUpdates(c)
    BY <1>1, <2>4 DEF ConfirmUpdates, Reviewing
  <2>5. CASE RejectUpdates(c)
    BY <1>1, <2>5 DEF RejectUpdates, Reviewing
  <2> QED BY <1>2, <2>1, <2>2, <2>3, <2>4, <2>5 DEF Continue
<1>3. ASSUME NEW c \in Callers, Review(c) PROVE DecisionsKept
  BY <1>3, ConfirmBegins, RejectBegins DEF DecisionsKept, Review, Reads, SerialInv, EvInv
<1>4. ASSUME NEW c \in Callers, Crash(c) PROVE DecisionsKept
  BY <1>4 DEF DecisionsKept, Crash, Refuse
<1>5. ASSUME NEW c \in Callers, BeginDetect(c, shown) PROVE DecisionsKept
  BY <1>5 DEF DecisionsKept, BeginDetect, Await
<1>6. ASSUME NEW movements \in SUBSET Movements, Show(movements) PROVE DecisionsKept
  BY <1>6 DEF DecisionsKept, Show
<1>7. CASE UNCHANGED evVars
  BY <1>7 DEF DecisionsKept, evVars
<1>8. CASE Age
  BY <1>8 DEF DecisionsKept, Age
<1> QED BY <1>2, <1>3, <1>4, <1>5, <1>6, <1>7, <1>8 DEF EvNext

\* A decided event never changes, if calls do not overlap: the row a decision
\* writes over is the candidate it read.
THEOREM DecisionsFinalWithoutOverlap ==
  ASSUME ~Overlap
  PROVE  EvSpec => DecisionsAreFinal
<1>1. SerialInv /\ [EvNext]_evVars => [DecisionsKept]_evVars
  BY StepKeepsDecisions
<1> QED BY <1>1, SerialInvariant, PTL DEF EvSpec, DecisionsAreFinal, DecisionsKept
=============================================================================
