-------------------------------- MODULE Forms --------------------------------
(***************************************************************************)
(* The forms of the web application (lib/fleet-forms.ts) and the schemas   *)
(* the API parses what they send with (validation/schemas.ts): the same    *)
(* rules written twice, for the web build cannot import the core package.  *)
(*                                                                         *)
(* A text is its trimmed length and whether it matches the pattern of its  *)
(* field; a number is a count of halves, the precision of the tolerance on *)
(* capacities, or NotANumber.  What a select offers is always one of its   *)
(* options, so products, shapes, statuses and protocols are left out.      *)
(***************************************************************************)
EXTENDS Integers

CONSTANTS
  StationDrafts, TankDrafts, DeviceDrafts, DipDrafts,  \* what may be typed
  Volume(_, _)   \* of a cylinder, of its diameter and its length or height

NotANumber == -1   \* a field that is blank, or holds no decimal number
Whole(n) == 2 * n

Text == [len: Nat, plain: BOOLEAN]
Field == Nat \union {NotANumber}
Percents == [critical: Field, low: Field, high: Field]

StationDraft == [name: Text, code: Text, timezone: Text]
\* station is the length of the id that was chosen: none, or that of a station.
TankDraft == [station: {0} \union 2..64, name: Text, diameter: Field, span: Field, capacity: Field,
              percents: Percents, amount: Field, minutes: Field, calibration: Nat,
              cylinder: BOOLEAN]   \* the tank is a cylinder, whose shape the form edits
DeviceDraft == [manufacturer: Text, model: Text, serial: Text, firmware: Nat]
DipDraft == [level: Field, water: Field, temperature: Int, future: BOOLEAN]

ASSUME FormsAssumption ==
  /\ StationDrafts \subseteq StationDraft
  /\ TankDrafts \subseteq TankDraft
  /\ DeviceDrafts \subseteq DeviceDraft
  /\ DipDrafts \subseteq DipDraft
  /\ \A t \in TankDrafts : Volume(t.diameter, t.span) \in Int

-----------------------------------------------------------------------------
(* The forms: whether a draft may be submitted                             *)

RequiredText(text, max) == text.len # 0 /\ text.len <= max
ParsePositive(field) == field # NotANumber /\ field > 0
ParseNonNegative(field) == field # NotANumber /\ field >= 0

ValidStation(d) ==
  /\ RequiredText(d.name, 120)
  /\ d.code.len \in 2..32 /\ d.code.plain
  /\ d.timezone.len \in 2..64 /\ d.timezone.plain

\* Mutant: the levels may be in any order.
ParseThresholdsUnordered(d) ==
  LET p == d.percents IN
  /\ \A field \in {p.critical, p.low, p.high, d.amount} : ParseNonNegative(field)
  /\ ParsePositive(d.minutes)
  /\ \A percent \in {p.critical, p.low, p.high} : percent <= Whole(100)

\* amount stands for each of the amounts a threshold may be, and minutes for
\* both durations.
ParseThresholds(d) ==
  LET p == d.percents IN
  /\ \A field \in {p.critical, p.low, p.high, d.amount} : ParseNonNegative(field)
  /\ ParsePositive(d.minutes)
  /\ \A percent \in {p.critical, p.low, p.high} : percent <= Whole(100)
  /\ p.critical < p.low
  /\ p.low < p.high

\* The filter of TankDrawer drops the issues about the shape of a tank whose
\* shape the form does not edit.
ValidTank(d) ==
  /\ d.station >= 2
  /\ RequiredText(d.name, 120)
  /\ d.cylinder =>
       /\ ParsePositive(d.diameter) /\ ParsePositive(d.span) /\ ParsePositive(d.capacity)
       /\ d.capacity <= Volume(d.diameter, d.span) + 1
       /\ d.capacity <= Whole(5000000)
  /\ ParseThresholds(d)
  /\ d.calibration <= 200

ValidDevice(d) ==
  /\ RequiredText(d.manufacturer, 80)
  /\ RequiredText(d.model, 80)
  /\ d.serial.len \in 1..80 /\ d.serial.plain
  /\ d.firmware <= 40

\* An empty temperature is one within its limits.
ValidDip(d) ==
  /\ ParseNonNegative(d.level)
  /\ ParseNonNegative(d.water)
  /\ d.water <= d.level
  /\ d.temperature \in -60..120

-----------------------------------------------------------------------------
(* The bodies and the schemas: whether the API takes what a form sends     *)

NameSchema(text, max) == text.len >= 1 /\ text.len <= max
PositiveFinite(n) == n > 0
NonNegativeFinite(n) == n >= 0
TimezoneSchema(text) == text.len >= 2 /\ text.len <= 64 /\ text.plain

CreateStationBody(d) == [name |-> d.name, code |-> d.code, timezone |-> d.timezone]
UpdateStationBody(d) == [name |-> d.name, timezone |-> d.timezone]

CreateStationSchema(b) ==
  /\ NameSchema(b.name, 120)
  /\ b.code.len >= 2 /\ b.code.len <= 32 /\ b.code.plain
  /\ TimezoneSchema(b.timezone)

UpdateStationSchema(b) == NameSchema(b.name, 120) /\ TimezoneSchema(b.timezone)

PercentsSchema(p) ==
  \A percent \in {p.critical, p.low, p.high} : NonNegativeFinite(percent) /\ percent <= Whole(100)

ThresholdsSchema(b) ==
  /\ PercentsSchema(b.percents)
  /\ NonNegativeFinite(b.amount)
  /\ PositiveFinite(b.minutes)
  /\ b.percents.critical < b.percents.low
  /\ b.percents.low < b.percents.high

\* The shape and the capacity, and assertCapacityWithinGeometry of the service.
ShapeAccepted(b) ==
  /\ PositiveFinite(b.diameter) /\ PositiveFinite(b.span)
  /\ PositiveFinite(b.capacity) /\ b.capacity <= Whole(5000000)
  /\ b.capacity <= Volume(b.diameter, b.span) + 1

CreateTankSchema(b) ==
  /\ b.station \in 2..64
  /\ NameSchema(b.name, 120)
  /\ ShapeAccepted(b)
  /\ ThresholdsSchema(b)
  /\ b.calibration <= 200

\* An update may leave the shape out, and its thresholds need no order.
UpdateTankSchema(b) ==
  /\ NameSchema(b.name, 120)
  /\ b.cylinder => ShapeAccepted(b)
  /\ PercentsSchema(b.percents)
  /\ NonNegativeFinite(b.amount)
  /\ PositiveFinite(b.minutes)
  /\ b.calibration <= 200

RegisterDeviceSchema(b) ==
  /\ NameSchema(b.manufacturer, 80)
  /\ NameSchema(b.model, 80)
  /\ b.serial.len >= 1 /\ b.serial.len <= 80 /\ b.serial.plain
  /\ b.firmware <= 40

\* ingestReadingBodySchema, and the check of ingest against the clock.
IngestReadingSchema(b) ==
  /\ b.level >= 0 /\ b.level <= Whole(100000)
  /\ b.water >= 0 /\ b.water <= Whole(100000)
  /\ b.water <= b.level
  /\ b.temperature \in -60..120
  /\ ~b.future

-----------------------------------------------------------------------------

\* What the API answers to the forms that are let through, by their operation.
Submitted ==
  LET stations == {d \in StationDrafts : ValidStation(d)}
      tanks == {d \in TankDrafts : ValidTank(d)}
  IN [createStation |-> {CreateStationSchema(CreateStationBody(d)) : d \in stations},
      updateStation |-> {UpdateStationSchema(UpdateStationBody(d)) : d \in stations},
      createTank |-> {CreateTankSchema(d) : d \in {e \in tanks : e.cylinder}},
      updateTank |-> {UpdateTankSchema(d) : d \in tanks},
      registerDevice |-> {RegisterDeviceSchema(d) : d \in {e \in DeviceDrafts : ValidDevice(e)}},
      recordDip |-> {IngestReadingSchema(d) : d \in {e \in DipDrafts : ValidDip(e)}}]

===============================================================================
