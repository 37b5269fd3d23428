------------------------------ MODULE Detection ------------------------------
(***************************************************************************)
(* Candidate events of one tank: the rules of events/detection.ts over the *)
(* readings that have arrived, in the order of their instants and not of   *)
(* their arrival, and the suppression of duplicates over the events that   *)
(* EventService.detectAndRecord lists.                                     *)
(*                                                                         *)
(* Here detection and a decision are one step each; Events is about what   *)
(* happens when they are not.  Time is in minutes and volumes in litres.   *)
(* Readings of one instant are in the order of the memory adapter; the     *)
(* queries of PostgreSQL leave it open, so this is PostgreSQL only where   *)
(* no two readings of a tank share an instant.  Left out: the limit of 50  *)
(* events (the list starts with those of the last reading, the only ones   *)
(* that suppress a draft; Events has it) and the wording of the evidence.  *)
(***************************************************************************)
EXTENDS Integers, FiniteSets

CONSTANTS
  Volumes,       \* net volumes a reading may report
  Qualities,     \* qualities it may have
  DeliveryLitres, DeliveryWindow, DropPerHour,  \* the tank's thresholds
  MinDecreaseWindow,  \* MIN_DECREASE_WINDOW_MINUTES
  Lookback,      \* DEFAULT_DUPLICATE_LOOKBACK_HOURS, in minutes
  RecentReadings,  \* recentReadingCount: the rules see as many readings
  WaterLevels,   \* levels of water a reading may report
  Horizon,       \* bound on time
  Ties,          \* bound on the readings of one instant
  MaxReadings,   \* bound on readings
  MaxEvents      \* bound on events

ASSUME DetectionAssumption ==
  /\ Volumes \subseteq Nat
  /\ Qualities \subseteq {"ok", "suspect", "invalid"}
  /\ {DeliveryLitres, DropPerHour} \subseteq Nat
  /\ {DeliveryWindow, MinDecreaseWindow, Lookback, RecentReadings} \subseteq Nat \ {0}
  /\ WaterLevels \subseteq Nat
  /\ {Horizon, Ties, MaxReadings, MaxEvents} \subseteq Nat

VARIABLES
  now,
  readings,   \* the readings that have arrived
  events      \* the rows of fuel_events

detVars == <<now, readings, events>>

EventTypes == {"candidate_delivery", "candidate_unexplained_decrease"}
Statuses == {"candidate", "confirmed", "rejected"}

\* The id is random, and only orders the readings of one instant.
TankReading ==
  [at: 0..Horizon, id: 1..Ties, vol: Volumes, water: WaterLevels, quality: Qualities]

FuelEvent ==
  [id: 1..MaxEvents, type: EventTypes, status: Statuses, first: TankReading, last: TankReading,
   seen: SUBSET TankReading, change: Int, confidence: 0..1000, created: 0..Horizon]

DetTypeOK ==
  /\ now \in 0..Horizon
  /\ readings \subseteq TankReading
  /\ events \subseteq FuelEvent
  /\ \A e \in events : {e.first, e.last} \subseteq e.seen /\ e.seen \subseteq readings /\ e.created <= now

DetInit == now = 0 /\ readings = {} /\ events = {}

-----------------------------------------------------------------------------
(* The rules                                                               *)

Before(a, b) == a.at < b.at \/ (a.at = b.at /\ a.id < b.id)

\* The last reading of some, in the order of the ledger.
LatestOf(S) == CHOOSE a \in S : \A b \in S : b = a \/ Before(b, a)

\* The last and the first n of some readings.
LastOf(S, n) == {a \in S : Cardinality({b \in S : Before(a, b)}) < n}
FirstOf(S, n) == {a \in S : Cardinality({b \in S : Before(b, a)}) < n}

\* What readings.list gives the rules: no more than the limit, newest first.
Recent == LastOf(readings, RecentReadings)

Usable == {a \in Recent : a.quality # "invalid"}

\* reduce keeps the first reading unless a later one is strictly better.
Lowest(w) ==
  CHOOSE a \in w : \A b \in w : b = a \/ a.vol < b.vol \/ (a.vol = b.vol /\ Before(a, b))

Highest(w) ==
  CHOOSE a \in w : \A b \in w : b = a \/ a.vol > b.vol \/ (a.vol = b.vol /\ Before(a, b))

Suspects(S) == {a \in S : a.quality # "ok"}
AtLeastOne(n) == IF n < 1 THEN 1 ELSE n
RoundedDiv(a, b) == (2 * a + b) \div (2 * b)

\* scoreConfidence in thousandths, 0.5 + 0.5 * min(1, (observed - threshold) / threshold),
\* times 0.8 if a reading of the window is suspect: in other words 0.5 * observed / threshold,
\* and never more than 1.
Score(observed, threshold, suspects) ==
  LET full == IF suspects # {} THEN 400 ELSE 500 IN
  IF observed < threshold THEN 0
  ELSE IF observed >= 2 * threshold THEN 2 * full ELSE RoundedDiv(full * observed, threshold)

Draft(type, first, last, seen, confidence) ==
  [type |-> type, first |-> first, last |-> last, seen |-> seen,
   change |-> last.vol - first.vol, confidence |-> confidence]

\* Mutant: only the first reading of a window is remembered.
IsDuplicateByFirst(type, latest, existing) ==
  \E e \in existing : e.type = type /\ e.status # "rejected" /\ e.first = latest

IsDuplicate(type, latest, existing) ==
  \E e \in existing : e.type = type /\ e.status # "rejected" /\ latest \in e.seen

DeliveryDrafts(usable, existing) ==
  LET latest == LatestOf(usable)
      w == {a \in usable : a.at >= latest.at - DeliveryWindow}
      rise == latest.vol - Lowest(w).vol
  IN IF /\ Cardinality(w) >= 2
        /\ rise >= DeliveryLitres
        /\ Highest(w) = latest
        /\ ~IsDuplicate("candidate_delivery", latest, existing)
     THEN {Draft("candidate_delivery", Lowest(w), latest, w,
                 Score(rise, AtLeastOne(DeliveryLitres), Suspects(w)))}
     ELSE {}

\* Mutant: the fall is measured from the highest reading.
DecreaseFromHighest(usable, existing) ==
  LET latest == LatestOf(usable)
      top == Highest(usable)
      minutes == latest.at - top.at
      lost == top.vol - latest.vol
  IN IF /\ minutes >= MinDecreaseWindow
        /\ lost > 0
        /\ lost * 60 >= DropPerHour * minutes
        /\ ~IsDuplicate("candidate_unexplained_decrease", latest, existing)
     THEN {Draft("candidate_unexplained_decrease", top, latest, {top, latest},
                 Score(lost * 60, AtLeastOne(DropPerHour * minutes), Suspects({top, latest})))}
     ELSE {}

DecreaseDrafts(usable, existing) ==
  LET latest == LatestOf(usable)
      previous == LatestOf(usable \ {latest})
      minutes == latest.at - previous.at
      lost == previous.vol - latest.vol
  IN IF /\ minutes >= MinDecreaseWindow
        /\ lost > 0
        /\ lost * 60 >= DropPerHour * minutes
        /\ ~IsDuplicate("candidate_unexplained_decrease", latest, existing)
     THEN {Draft("candidate_unexplained_decrease", previous, latest, {previous, latest},
                 Score(lost * 60, AtLeastOne(DropPerHour * minutes), Suspects({previous, latest})))}
     ELSE {}

\* detectTankEvents: at most one draft of each type.
TankEvents(existing) ==
  IF Cardinality(Usable) < 2 THEN {}
  ELSE DeliveryDrafts(Usable, existing) \union DecreaseDrafts(Usable, existing)

-----------------------------------------------------------------------------
(* Steps                                                                   *)

Tick ==
  /\ now < Horizon
  /\ now' = now + 1
  /\ UNCHANGED <<readings, events>>

\* A reading arrives, of any instant up to now: uploads are late or batched.
Arrive(r) ==
  /\ Cardinality(readings) < MaxReadings
  /\ \A a \in readings : a.at # r.at \/ a.id # r.id
  /\ r.at <= now
  /\ readings' = readings \union {r}
  /\ UNCHANGED <<now, events>>

\* events.listRecentByTank: events whose window ended within the lookback.
Existing == {e \in events : e.last.at >= now - Lookback}

\* The rules run, after an upload or on the timer.
DetectAndRecord ==
  LET drafts == TankEvents(Existing)
      Recorded(d, n) == [id |-> n, type |-> d.type, status |-> "candidate", first |-> d.first,
                         last |-> d.last, seen |-> d.seen, change |-> d.change,
                         confidence |-> d.confidence, created |-> now]
      delivery == {d \in drafts : d.type = "candidate_delivery"}
      n == Cardinality(events)
  IN /\ n + Cardinality(drafts) <= MaxEvents
     /\ events' = events
          \union {Recorded(d, n + 1) : d \in delivery}
          \union {Recorded(d, n + 1 + Cardinality(delivery)) : d \in drafts \ delivery}
     /\ UNCHANGED <<now, readings>>

\* EventService.confirm takes candidate deliveries only, reject any candidate.
Decide(e, status) ==
  /\ e.status = "candidate"
  /\ status = "rejected" \/ (status = "confirmed" /\ e.type = "candidate_delivery")
  /\ events' = (events \ {e}) \union {[e EXCEPT !.status = status]}
  /\ UNCHANGED <<now, readings>>

-----------------------------------------------------------------------------
(* Properties                                                              *)

Standing(type) == {e \in events : e.type = type /\ e.status # "rejected"}

\* Detection runs after every reading and on a timer, and records one
\* observation once: of two events of a type that stand and have the same last
\* reading, one was recorded when the tank had been silent for longer than the
\* lookback.
OneEventPerObservation ==
  \A type \in EventTypes : \A e, f \in Standing(type) :
    e # f /\ e.last = f.last => \E g \in {e, f} : g.created - g.last.at > Lookback

\* No minute of a fall is counted in two decreases that stand, in whatever
\* order the readings arrived, unless both are of the same last reading.
DecreasesDisjoint ==
  \A e, f \in Standing("candidate_unexplained_decrease") :
    e.last = f.last \/ ~Before(e.first, f.last) \/ ~Before(f.first, e.last)

==============================================================================
