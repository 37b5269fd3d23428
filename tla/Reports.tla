------------------------------- MODULE Reports -------------------------------
(***************************************************************************)
(* The deliveries of one tank and the reports over them: stock movement    *)
(* and reconciliation of a window, and the trend of the dashboard, over    *)
(* the readings, events and rules of the modules below.                    *)
(*                                                                         *)
(* The two adapters of the repositories differ: a list of readings that is *)
(* bounded on one side only is not bounded at all in PostgreSQL.           *)
(*                                                                         *)
(* A confirmation is two steps here: it is dated when it begins, and its   *)
(* delivery exists when it ends.  Decisions of one event do not overlap,   *)
(* and the delivery and the event are written together: Events is about    *)
(* what happens otherwise.  Left out: totals over several tanks, and       *)
(* percentages.                                                            *)
(***************************************************************************)
EXTENDS AlertRules, Measures, FiniteSetsExt

CONSTANTS
  Samples,         \* what may be measured in the tank
  Database,        \* TRUE: the repositories are those of PostgreSQL
  StatedVolumes,   \* volumes a reviewer may state; Nil: none is stated
  ListRows,        \* the limit of a list of readings
  Buckets          \* numbers of buckets a trend may have

\* The capacity is a safe one (assertCapacityWithinGeometry).  The limit is that
\* of the lists of deliveries and events too, and no window holds more of them.
ASSUME ReportsAssumption ==
  /\ Capacity <= TankCapacity
  /\ \A s \in Samples :
       NetVolume(s) \in Volumes /\ SafeWater(s) \in WaterLevels /\ Quality(s) \in Qualities
  /\ Database \in BOOLEAN
  /\ StatedVolumes \subseteq Nat \union {Nil}
  /\ ListRows \in Nat \ {0} /\ MaxEvents <= ListRows
  /\ Buckets \subseteq Nat \ {0}

VARIABLES
  deliveries,  \* the rows of deliveries
  confirming   \* the confirmations under way

repVars == <<detVars, deliveries, confirming>>

Confirmation == [event: FuelEvent, recorded: Nat \ {0}, at: 0..Horizon]
Delivery == [of: 1..MaxEvents, measured: Nat \ {0}, recorded: Nat \ {0}, at: 0..Horizon]

RepTypeOK ==
  /\ DetTypeOK
  /\ deliveries \subseteq Delivery
  /\ \A d \in deliveries : d.at <= now /\ \E e \in events : e.id = d.of /\ e.status = "confirmed"
  /\ confirming \subseteq Confirmation
  /\ \A p \in confirming : p.at <= now /\ p.event \in events /\ p.event.status = "candidate"

RepInit == DetInit /\ deliveries = {} /\ confirming = {}

-----------------------------------------------------------------------------
(* Reviews                                                                 *)

\* Nobody is confirming the event.
Undecided(e) == e.status = "candidate" /\ \A p \in confirming : p.event # e

\* Mutant: the delivery is dated when the movement ended.
ConfirmBackdated(e, stated) ==
  LET recorded == IF stated = Nil THEN e.change ELSE stated IN
  /\ Undecided(e) /\ e.type = "candidate_delivery"
  /\ recorded > 0
  /\ confirming' = confirming \union {[event |-> e, recorded |-> recorded, at |-> e.last.at]}
  /\ UNCHANGED <<detVars, deliveries>>

\* EventService.confirm reads the clock, and then awaits the list of deliveries
\* and the save of its own.  The measured rise is recorded when no volume is
\* stated.
ConfirmBegins(e, stated) ==
  LET recorded == IF stated = Nil THEN e.change ELSE stated IN
  /\ Undecided(e) /\ e.type = "candidate_delivery"
  /\ recorded > 0
  /\ confirming' = confirming \union {[event |-> e, recorded |-> recorded, at |-> now]}
  /\ UNCHANGED <<detVars, deliveries>>

ConfirmEnds(p) ==
  /\ Decide(p.event, "confirmed")
  /\ deliveries' = deliveries \union
       {[of |-> p.event.id, measured |-> p.event.change, recorded |-> p.recorded, at |-> p.at]}
  /\ confirming' = confirming \ {p}

\* The store fails, or the process ends, before the delivery is saved.
ConfirmFails(p) ==
  /\ confirming' = confirming \ {p}
  /\ UNCHANGED <<detVars, deliveries>>

Reject(e) == Undecided(e) /\ Decide(e, "rejected") /\ UNCHANGED <<deliveries, confirming>>

\* What is stored of a sample.
ReadingOf(s, at, id) ==
  [at |-> at, id |-> id, vol |-> NetVolume(s), water |-> SafeWater(s), quality |-> Quality(s)]

RepNext ==
  \/ /\ \/ Tick
        \/ \E s \in Samples, at \in 0..Horizon, id \in 1..Ties : Arrive(ReadingOf(s, at, id))
        \/ DetectAndRecord
     /\ UNCHANGED <<deliveries, confirming>>
  \/ \E e \in events : Reject(e) \/ \E stated \in StatedVolumes : ConfirmBegins(e, stated)
  \/ \E p \in confirming : ConfirmEnds(p) \/ ConfirmFails(p)

RepSpec == RepInit /\ [][RepNext]_repVars

-----------------------------------------------------------------------------
(* The repositories                                                        *)

\* The bounds of a list.  In PostgreSQL they are dropped unless both are given.
InWindow(at, from, to) ==
  \/ Database /\ Nil \in {from, to}
  \/ (from = Nil \/ at >= from) /\ (to = Nil \/ at <= to)

\* What readings.list chooses from.
ReadingsIn(from, to) == {a \in readings : InWindow(a.at, from, to)}

\* The list of a report: the newest, as many as a list may have.
Within(from, to) == LastOf(ReadingsIn(from, to), ListRows)

NewestOf(S) == IF S = {} THEN Nil ELSE LatestOf(S)

\* deliveries.list: by the instant of their confirmation.
DeliveriesIn(from, to) == {d \in deliveries : InWindow(d.at, from, to)}

\* Mutant: what the probe saw is deducted.
DeliveredMeasured(from, to) == MapThenSumSet(LAMBDA d : d.measured, DeliveriesIn(from, to))

\* events.deliveredVolumeMl.
Delivered(from, to) == MapThenSumSet(LAMBDA d : d.recorded, DeliveriesIn(from, to))

-----------------------------------------------------------------------------
(* The reports, of a window that has both ends                             *)

\* Mutant: a reading at the start of the window does not open it.
OpeningEarlier(from) == NewestOf({a \in ReadingsIn(Nil, from) : a.at < from})

\* The readings at or before the start, and the newest of them.
Opening(from) == NewestOf(ReadingsIn(Nil, from))

Change(opening, closing) == IF Nil \in {opening, closing} THEN Nil ELSE closing.vol - opening.vol

\* The window without readings closes as it opened.
StockMovement(from, to) ==
  LET within == Within(from, to)
      usable == {a \in within : a.quality # "invalid"}
      opening == Opening(from)
      closing == IF within = {} THEN opening ELSE NewestOf(within)
      volumes == {a.vol : a \in usable}
  IN [opening |-> opening, closing |-> closing, change |-> Change(opening, closing),
      minimum |-> IF volumes = {} THEN Nil ELSE Min(volumes),
      maximum |-> IF volumes = {} THEN Nil ELSE Max(volumes),
      readings |-> Cardinality(within), invalid |-> Cardinality(within \ usable),
      delivered |-> Delivered(from, to)]

\* events.eventsInWindow: by the end of the movement, and of any status.
Decreases(from, to) ==
  {e \in events : e.type = "candidate_unexplained_decrease" /\ InWindow(e.last.at, from, to)}

\* closing - opening - confirmed deliveries; here a window without readings has
\* no closing.
ResidualOf(opening, closing, delivered) ==
  IF Nil \in {opening, closing} THEN Nil ELSE Change(opening, closing) - delivered

Residual(from, to) == ResidualOf(Opening(from), NewestOf(Within(from, to)), Delivered(from, to))

Reconciliation(from, to) ==
  LET opening == Opening(from)
      closing == NewestOf(Within(from, to))
      delivered == Delivered(from, to)
  IN [opening |-> opening, closing |-> closing, delivered |-> delivered,
      residual |-> ResidualOf(opening, closing, delivered),
      status |-> IF closing = Nil THEN Nil ELSE StockStatus(closing.vol),
      decrease |-> MapThenSumSet(LAMBDA e : -e.change, Decreases(from, to))]

\* The deliveries report, of what the probe saw and what the docket says.
DeliveriesReport(from, to) ==
  LET rows == DeliveriesIn(from, to)
      measured == MapThenSumSet(LAMBDA d : d.measured, rows)
      recorded == MapThenSumSet(LAMBDA d : d.recorded, rows)
  IN [rows |-> Cardinality(rows), measured |-> measured, recorded |-> recorded,
      variance |-> recorded - measured]

\* The inventory report: the summary of the tank.
Inventory == [volume |-> Summary.volume, free |-> Summary.free, status |-> Summary.status]

-----------------------------------------------------------------------------
(* The trend                                                               *)

\* bucketReadings: the bucket of a reading of the window, counted from 0.
Bucket(a, from, to, n) ==
  Min({n - 1, ((a.at - from) * n) \div (IF to > from THEN to - from ELSE 1)})

\* The list is in ascending order, so that its limit keeps the oldest.
Charted(from, to) == FirstOf(ReadingsIn(from, to), ListRows)

BucketOf(k, from, to, n) == {a \in Charted(from, to) : Bucket(a, from, to, n) = k}

\* tankSeries: the mean volume and the number of readings; 0 and 0 of none.
Trend(from, to, n) ==
  [k \in 0..n - 1 |->
     LET bucket == BucketOf(k, from, to, n)
         count == Cardinality(bucket)
     IN [count |-> count,
         mean |-> IF count = 0 THEN 0 ELSE RoundedDiv(MapThenSumSet(LAMBDA a : a.vol, bucket), count)]]

-----------------------------------------------------------------------------
(* Properties                                                              *)

Instants == 0..now

\* "Opening is the last reading at or before" the start of the window (the
\* note of the stock movement report): none is later, and the reading of the
\* summary is not taken for an older one.
OpeningIsBefore ==
  \A from \in Instants : Opening(from) # Nil => Opening(from).at <= from

\* Residuals of adjacent windows add up to that of the whole, however late
\* readings and confirmations arrive; but a delivery confirmed on the instant
\* they share is deducted from both.
ResidualsAddUp ==
  \A from, mid \in Instants :
    LET first == Residual(from, mid) IN
    from <= mid /\ first # Nil =>
      \A to \in mid..now :
        LET second == Residual(mid, to) IN
        second # Nil => first + second = Residual(from, to) - Delivered(mid, mid)

\* The reports of one window agree: on what was delivered, and on what the tank
\* held in the end; and up to now that is what the inventory shows, unless the
\* last reading is invalid.
ReportsAgree ==
  \A from, to \in Instants :
    from <= to =>
      LET moved == StockMovement(from, to)
          balance == Reconciliation(from, to)
          docket == DeliveriesReport(from, to)
      IN /\ moved.delivered = docket.recorded /\ balance.delivered = docket.recorded
         /\ balance.closing # Nil => balance.closing = moved.closing
         /\ balance.residual # Nil => balance.residual = moved.change - docket.recorded
         /\ moved.minimum # Nil /\ moved.closing.quality # "invalid" =>
              moved.minimum <= moved.closing.vol /\ moved.closing.vol <= moved.maximum
         /\ to = now /\ moved.closing # Nil => Inventory.volume \in {Nil, moved.closing.vol}

\* The window is over, and no confirmation that began in it is under way.
Settled(from, to) == to < now /\ \A p \in confirming : ~InWindow(p.at, from, to)

\* The deliveries of a settled window never change, and it stays settled: nothing
\* that begins later adds to what its reports deduct, no confirmation, detection
\* or reading.
DeliveredIsSettled ==
  [][\A to \in Instants : \A from \in 0..to :
       Settled(from, to) => Settled(from, to)' /\ Delivered(from, to)' = Delivered(from, to)]_repVars

\* A reading of the window is in one bucket of the trend, one whose span it lies
\* in, the readings at both ends included; or the window has more readings than
\* a list, and as many as a list has are older.
TrendKeepsReadings ==
  \A from \in Instants, n \in Buckets : \A a \in ReadingsIn(from, now) :
    LET k == Bucket(a, from, now, n) IN
    IF a \in Charted(from, now)
    THEN /\ k \in 0..n - 1 /\ a \in BucketOf(k, from, now, n)
         /\ (a.at - from) * n >= k * (now - from)
         /\ (a.at - from) * n <= (k + 1) * (now - from)
    ELSE Cardinality({b \in ReadingsIn(from, now) : Before(b, a)}) >= ListRows

===============================================================================
