------------------------------ MODULE AlertRules ------------------------------
(***************************************************************************)
(* What the platform says of a tank now: the alert rules of                *)
(* alerts/alert-engine.ts over its recent readings and its devices, and    *)
(* the summary of the tank list, the dashboard and the inventory report,   *)
(* which has rules of its own over the last reading.                       *)
(*                                                                         *)
(* Left out: the delay of a reading in transit, and how many devices are   *)
(* offline, which Alerts treats.  A percentage is compared without         *)
(* rounding, as in the code.                                               *)
(***************************************************************************)
EXTENDS Detection

CONSTANTS
  Capacity,         \* capacityLitres
  CriticalPercent, LowPercent, HighPercent,  \* the tank's thresholds
  WaterAlarm,       \* waterAlarmMm
  StaleAfter,       \* staleAfterMinutes
  OfflineAfter,     \* deviceOfflineAfterMinutes
  FaultRun,         \* DEFAULT_CONSECUTIVE_INVALID_FOR_FAULT
  Nil

\* A tank that is updated may have its thresholds in any order (updateTankSchema).
ASSUME AlertRulesAssumption ==
  /\ {Capacity, FaultRun} \subseteq Nat \ {0}
  /\ {CriticalPercent, LowPercent, HighPercent, WaterAlarm, StaleAfter, OfflineAfter} \subseteq Nat
  /\ Nil \notin Int

AtMost(vol, percent) == vol * 100 <= percent * Capacity
AtLeast(vol, percent) == vol * 100 >= percent * Capacity

Age(a) == now - a.at

-----------------------------------------------------------------------------
(* evaluateTankAlerts                                                      *)

Finding(type, severity) == [type |-> type, severity |-> severity]
When(test, found) == IF test THEN {found} ELSE {}

\* The devices that may be assigned to the tank, and when they were seen last.
AssignedDevice ==
  [status: {"active", "maintenance", "retired"}, seen: (0..now) \union {Nil}]

\* isDeviceOffline.
Offline(d) == d.seen = Nil \/ now - d.seen > OfflineAfter

\* evaluateDeviceAlerts: a device that is not expected to report is left out.
DeviceDrafts(assigned) ==
  When(\E d \in assigned : d.status \notin {"retired", "maintenance"} /\ Offline(d),
       Finding("device_offline", "warning"))

\* At most one of the two.
StockDrafts(vol) ==
  When(AtMost(vol, CriticalPercent), Finding("critical_stock", "critical"))
    \union When(AtMost(vol, LowPercent) /\ ~AtMost(vol, CriticalPercent),
                Finding("low_stock", "warning"))

\* The last of the readings seen, as many as a fault takes, are all invalid.
Faulty ==
  /\ Cardinality(Recent) >= FaultRun
  /\ \A a \in LastOf(Recent, FaultRun) : a.quality = "invalid"

FaultDrafts == When(Faulty, Finding("probe_quality", "critical"))

\* draftsFromMissingData.
DraftsFromMissingData == {Finding("stale_data", "warning")} \union FaultDrafts

\* Mutant: the age is that of the last reading, even an invalid one.
StaleByAnyReading(latest) == Age(LatestOf(readings)) > StaleAfter

Stale(latest) == Age(latest) > StaleAfter

\* What is found of the last usable reading.
ReadingDrafts(latest) ==
  StockDrafts(latest.vol)
    \union When(latest.water >= WaterAlarm, Finding("water_level", "warning"))
    \union When(latest.quality = "suspect", Finding("probe_quality", "warning"))
    \union When(Stale(latest), Finding("stale_data", "warning"))

AlertDrafts(assigned) ==
  DeviceDrafts(assigned)
    \union IF Usable = {} THEN DraftsFromMissingData
           ELSE ReadingDrafts(LatestOf(Usable)) \union FaultDrafts

-----------------------------------------------------------------------------
(* toTankSummary                                                           *)

StockStatus(vol) ==
  IF AtMost(vol, CriticalPercent) THEN "critical"
  ELSE IF AtMost(vol, LowPercent) THEN "low"
  ELSE IF AtLeast(vol, HighPercent) THEN "high"
  ELSE "normal"

FreeCapacity(vol) == IF vol > Capacity THEN 0 ELSE Capacity - vol

NoReading ==
  [latest |-> Nil, volume |-> Nil, free |-> Nil, status |-> Nil, overfill |-> FALSE, missing |-> TRUE]

\* Mutant: an invalid reading is data like any other.
SummaryOfAny(a) ==
  [latest |-> a, volume |-> IF a.quality = "invalid" THEN Nil ELSE a.vol,
   free |-> IF a.quality = "invalid" THEN Nil ELSE FreeCapacity(a.vol),
   status |-> IF a.quality = "invalid" THEN Nil ELSE StockStatus(a.vol),
   overfill |-> a.quality # "invalid" /\ AtLeast(a.vol, HighPercent),
   missing |-> Stale(a)]

\* The last reading gives the volume, unless it is invalid; a stale one does.
SummaryOf(a) ==
  LET usable == a.quality # "invalid"
      Shown(value) == IF usable THEN value ELSE Nil
  IN [latest |-> a, volume |-> Shown(a.vol), free |-> Shown(FreeCapacity(a.vol)),
      status |-> Shown(StockStatus(a.vol)),
      overfill |-> usable /\ AtLeast(a.vol, HighPercent),
      missing |-> Stale(a) \/ ~usable]

Summary == IF readings = {} THEN NoReading ELSE SummaryOf(LatestOf(readings))

\* tanksNeedingAttention, of a tank that has that many open alerts.
NeedsAttention(openAlerts) ==
  Summary.missing \/ Summary.status \in {"low", "critical"} \/ openAlerts > 0

-----------------------------------------------------------------------------
(* Properties                                                              *)

\* A tank of which nothing usable was recorded within staleAfterMinutes has
\* stale data, whatever else arrived of it, and though it has devices of every
\* kind.  Of the other tanks only those have whose recent readings, as many as
\* the rules see, are all invalid and hide what is usable.
SilenceIsReported ==
  Finding("stale_data", "warning") \in AlertDrafts(AssignedDevice)
    <=> \/ \A a \in readings : a.quality = "invalid" \/ now - a.at > StaleAfter
        \/ \A a \in Recent : a.quality = "invalid"

\* What the rules may find in a tank that looks well on the dashboard.
Unseen == {Finding("probe_quality", "warning"), Finding("water_level", "warning"),
           Finding("device_offline", "warning")}

\* A tank cannot look healthy on the dashboard and critical in the alert list
\* (the comment of DashboardService), even before its alerts are raised: of a
\* tank that needs no attention the rules find neither its stock low nor its
\* data stale nor its probe at fault, only what the dashboard has no rule for:
\* a suspect reading, water, or a device that is offline, here of every kind.
HealthyIsUnalarmed == ~NeedsAttention(0) => AlertDrafts(AssignedDevice) \subseteq Unseen

===============================================================================
