----------------------------- MODULE ClientsProofs -----------------------------
(***************************************************************************)
(* Proofs about the two clients of the API, for any keys and scopes,       *)
(* records, drafts of the forms, tanks and numbers of runs.                *)
(*                                                                         *)
(* What the console shows follows from ConInv: at most one request is      *)
(* awaited, of the record and the key at hand, and its answer is no older  *)
(* than what is shown.  What it offers follows from SaveInv, which rests   *)
(* on the pages' scopes and on the forms being as strict as the schemas.   *)
(***************************************************************************)
EXTENDS Clients, SequenceTheorems, TLAPS

-----------------------------------------------------------------------------
(* The forms against the schemas                                           *)

LEMMA StationFormsAreStrict ==
  ASSUME NEW d \in StationDraft, ValidStation(d)
  PROVE  /\ CreateStationSchema(CreateStationBody(d)) = TRUE
         /\ UpdateStationSchema(UpdateStationBody(d)) = TRUE
<1>1. /\ d.name.len \in Nat /\ d.code.len \in Nat /\ d.timezone.len \in Nat
      /\ d.code.plain \in BOOLEAN /\ d.timezone.plain \in BOOLEAN
  BY DEF StationDraft, Text
<1>2. /\ d.name.len >= 1 /\ d.name.len <= 120
      /\ d.code.len >= 2 /\ d.code.len <= 32 /\ d.code.plain
      /\ d.timezone.len >= 2 /\ d.timezone.len <= 64 /\ d.timezone.plain
  BY <1>1 DEF ValidStation, RequiredText
<1>3. /\ CreateStationBody(d).name = d.name /\ CreateStationBody(d).code = d.code
      /\ CreateStationBody(d).timezone = d.timezone
      /\ UpdateStationBody(d).name = d.name /\ UpdateStationBody(d).timezone = d.timezone
  BY DEF CreateStationBody, UpdateStationBody
<1> QED BY <1>2, <1>3 DEF CreateStationSchema, UpdateStationSchema, NameSchema, TimezoneSchema

\* Of the shape, only what the form edits is sent with an update.
LEMMA TankFormsAreStrict ==
  ASSUME NEW d \in TankDraft, ValidTank(d), Volume(d.diameter, d.span) \in Int
  PROVE  /\ UpdateTankSchema(d) = TRUE
         /\ d.cylinder => CreateTankSchema(d) = TRUE
<1>1. /\ d.station \in {0} \union 2..64 /\ d.name.len \in Nat /\ d.calibration \in Nat
      /\ d.diameter \in Field /\ d.span \in Field /\ d.capacity \in Field
      /\ d.amount \in Field /\ d.minutes \in Field /\ d.cylinder \in BOOLEAN
      /\ d.percents.critical \in Field /\ d.percents.low \in Field /\ d.percents.high \in Field
  BY DEF TankDraft, Text, Percents
<1>2. NameSchema(d.name, 120) /\ d.station \in 2..64 /\ d.calibration <= 200
  BY <1>1 DEF ValidTank, RequiredText, NameSchema
<1>3. ThresholdsSchema(d)
  BY <1>1 DEF ValidTank, ParseThresholds, ParseNonNegative, ParsePositive, ThresholdsSchema,
              PercentsSchema, NonNegativeFinite, PositiveFinite, Whole
<1>4. d.cylinder => ShapeAccepted(d)
  BY <1>1 DEF ValidTank, ParsePositive, ShapeAccepted, PositiveFinite
<1>5. d.cylinder => CreateTankSchema(d)
  BY <1>2, <1>3, <1>4 DEF CreateTankSchema
<1>6. UpdateTankSchema(d)
  BY <1>2, <1>3, <1>4 DEF UpdateTankSchema, ThresholdsSchema
<1> QED BY <1>5, <1>6 DEF CreateTankSchema, UpdateTankSchema

LEMMA DeviceFormsAreStrict ==
  ASSUME NEW d \in DeviceDraft, ValidDevice(d)
  PROVE  RegisterDeviceSchema(d) = TRUE
<1>1. /\ d.manufacturer.len \in Nat /\ d.model.len \in Nat /\ d.serial.len \in Nat
      /\ d.firmware \in Nat
  BY DEF DeviceDraft, Text
<1> QED BY <1>1 DEF ValidDevice, RequiredText, RegisterDeviceSchema, NameSchema

LEMMA AnswersOfSchemas ==
  \A b : /\ CreateStationSchema(b) \in BOOLEAN /\ UpdateStationSchema(b) \in BOOLEAN
         /\ CreateTankSchema(b) \in BOOLEAN /\ UpdateTankSchema(b) \in BOOLEAN
         /\ RegisterDeviceSchema(b) \in BOOLEAN /\ IngestReadingSchema(b) \in BOOLEAN
BY DEF CreateStationSchema, UpdateStationSchema, CreateTankSchema, UpdateTankSchema,
       RegisterDeviceSchema, IngestReadingSchema

LEMMA SubmittedAreAnswers ==
  \A op \in DOMAIN Submitted : Submitted[op] \subseteq BOOLEAN
<1>1. DOMAIN Submitted = {"createStation", "updateStation", "createTank", "updateTank",
                          "registerDevice", "recordDip"}
  BY DEF Submitted
<1>2. Submitted.createStation \subseteq BOOLEAN /\ Submitted.updateStation \subseteq BOOLEAN
  BY AnswersOfSchemas DEF Submitted
<1>3. Submitted.createTank \subseteq BOOLEAN /\ Submitted.updateTank \subseteq BOOLEAN
  BY AnswersOfSchemas DEF Submitted
<1>4. Submitted.registerDevice \subseteq BOOLEAN /\ Submitted.recordDip \subseteq BOOLEAN
  BY AnswersOfSchemas DEF Submitted
<1> QED BY <1>1, <1>2, <1>3, <1>4

\* What a form of the fleet lets through, the API takes.
LEMMA FleetFormsFit ==
  /\ FleetForms \subseteq DOMAIN Submitted
  /\ \A op \in FleetForms : \A fits \in Submitted[op] : fits = TRUE
<1>1. FleetForms \subseteq DOMAIN Submitted
  BY DEF FleetForms, Submitted
<1>2. \A fits \in Submitted.createStation \union Submitted.updateStation : fits = TRUE
  BY FormsAssumption, StationFormsAreStrict DEF Submitted
<1>3. \A fits \in Submitted.createTank \union Submitted.updateTank : fits = TRUE
  BY FormsAssumption, TankFormsAreStrict DEF Submitted
<1>4. \A fits \in Submitted.registerDevice : fits = TRUE
  BY FormsAssumption, DeviceFormsAreStrict DEF Submitted
<1> QED BY <1>1, <1>2, <1>3, <1>4 DEF FleetForms

-----------------------------------------------------------------------------
(* The scopes of the buttons                                               *)

\* A button asks for the scope its route requires, or for none.
ButtonOK(s) == s.scope # Nil => s.scope = WriteScope(s.op)

LEMMA PagesOfAddresses ==
  /\ DOMAIN Pages = {"dashboard", "stations", "station", "tanks", "tank", "devices", "device",
                     "readings", "deliveries", "reconciliation", "alerts", "reports", "settings",
                     "notFound"}
  /\ Pages["stations"] = StationsPage /\ Pages["station"] = StationPage
  /\ Pages["tanks"] = TanksPage /\ Pages["tank"] = TankPage
  /\ Pages["devices"] = DevicesPage /\ Pages["device"] = DevicePage
  /\ Pages["reconciliation"] = ReconciliationPage /\ Pages["alerts"] = AlertsPage
  /\ \A p \in {"dashboard", "readings", "deliveries", "reports", "settings", "notFound"} :
       Pages[p].saves = {}
BY DEF Pages, DashboardPage, ReadingsPage, DeliveriesPage, ReportsPage, SettingsPage, Page

LEMMA ScopesOfRoutes ==
  /\ \A op \in StationWrites : WriteScope(op) = "stations:write"
  /\ \A op \in TankWrites : WriteScope(op) = "tanks:write"
  /\ \A op \in ReadingWrites : WriteScope(op) = "readings:write"
  /\ \A op \in DeviceWrites : WriteScope(op) = "devices:write"
  /\ \A op \in EventWrites : WriteScope(op) = "events:write"
  /\ \A op \in AlertWrites : WriteScope(op) = "alerts:write"
BY DEF WriteScope, StationWrites, TankWrites, ReadingWrites, DeviceWrites, EventWrites, AlertWrites

LEMMA StationButtons ==
  \A s \in StationsPage.saves \union StationPage.saves : ButtonOK(s)
<1>1. /\ WriteScope("createStation") = "stations:write" /\ WriteScope("updateStation") = "stations:write"
      /\ WriteScope("createTank") = "tanks:write"
  BY ScopesOfRoutes DEF StationWrites, TankWrites
<1>2. \A s \in StationsPage.saves : ButtonOK(s)
  BY <1>1 DEF StationsPage, Page, Save, ButtonOK
<1>3. \A s \in StationPage.saves : ButtonOK(s)
  BY <1>1 DEF StationPage, Page, Save, ButtonOK
<1> QED BY <1>2, <1>3

LEMMA TankButtons ==
  \A s \in TanksPage.saves \union TankPage.saves : ButtonOK(s)
<1>1. /\ WriteScope("createTank") = "tanks:write" /\ WriteScope("updateTank") = "tanks:write"
      /\ WriteScope("recordDip") = "readings:write"
  BY ScopesOfRoutes DEF TankWrites, ReadingWrites
<1>2. \A s \in TanksPage.saves : ButtonOK(s)
  BY <1>1 DEF TanksPage, Page, Save, ButtonOK
<1>3. \A s \in TankPage.saves : ButtonOK(s)
  BY <1>1 DEF TankPage, Page, Save, ButtonOK
<1> QED BY <1>2, <1>3

LEMMA DeviceButtons ==
  \A s \in DevicesPage.saves \union DevicePage.saves : ButtonOK(s)
<1>1. /\ WriteScope("registerDevice") = "devices:write" /\ WriteScope("assignDevice") = "devices:write"
      /\ WriteScope("unassignDevice") = "devices:write"
  BY ScopesOfRoutes DEF DeviceWrites
<1>2. \A s \in DevicesPage.saves : ButtonOK(s)
  BY <1>1 DEF DevicesPage, Page, Save, ButtonOK
<1>3. \A s \in DevicePage.saves : ButtonOK(s)
  BY <1>1 DEF DevicePage, Page, Save, ButtonOK
<1> QED BY <1>2, <1>3

LEMMA DecisionButtons ==
  \A s \in ReconciliationPage.saves \union AlertsPage.saves : ButtonOK(s)
<1>1. /\ \A op \in {"confirmEvent", "rejectEvent"} : WriteScope(op) = "events:write"
      /\ \A op \in {"acknowledgeAlert", "resolveAlert", "assignAlert"} : WriteScope(op) = "alerts:write"
  BY ScopesOfRoutes DEF EventWrites, AlertWrites
<1>2. \A s \in ReconciliationPage.saves : ButtonOK(s)
  BY <1>1 DEF ReconciliationPage, Decisions, Page, Save, ButtonOK
<1>3. \A s \in AlertsPage.saves : ButtonOK(s)
  BY <1>1 DEF AlertsPage, Page, Save, ButtonOK
<1> QED BY <1>2, <1>3

LEMMA ButtonsAskForTheirScope ==
  \A p \in DOMAIN Pages : \A s \in Pages[p].saves : ButtonOK(s) /\ s \in Saves
<1> SUFFICES ASSUME NEW p \in DOMAIN Pages, NEW s \in Pages[p].saves PROVE ButtonOK(s) /\ s \in Saves
  OBVIOUS
<1>1. s \in Saves
  BY DEF Saves
<1>2. ButtonOK(s)
  BY PagesOfAddresses, StationButtons, TankButtons, DeviceButtons, DecisionButtons
<1> QED BY <1>1, <1>2

-----------------------------------------------------------------------------
(* The session                                                             *)

SessionTyped ==
  /\ session \in [status: {"checking", "ready", "signed-out", "error"}, key: Keys \union {Nil},
                  known: BOOLEAN]
  /\ attempts \subseteq [key: Keys, at: {"session", "stations"}]
  /\ stored \in Keys \union {Nil}
  /\ submitted \in [key: Keys \union {Nil}, count: 0..MaxConnects]

\* One connect at most awaits an answer, that of the key submitted last, and
\* only while the gate waits for it.
SessionInv ==
  /\ SessionTyped
  /\ \A a \in attempts : a.key = submitted.key
  /\ \A a, b \in attempts : a = b
  /\ attempts # {} => session.status = "checking"
  /\ session.status = "ready" => session.key \in Keys
  /\ SessionIsOfLastKey

LEMMA SessionUnchanged ==
  ASSUME SessionInv, UNCHANGED sessionVars
  PROVE  SessionInv'
BY DEF SessionInv, SessionTyped, SessionIsOfLastKey, sessionVars

LEMMA ConnectSession ==
  ASSUME SessionInv, NEW k \in Keys, Connect(k)
  PROVE  SessionInv'
<1>1. session' \in [status: {"checking", "ready", "signed-out", "error"}, key: Keys \union {Nil},
                    known: BOOLEAN] /\ session'.status = "checking"
  BY DEF SessionInv, SessionTyped, Connect
<1>2. submitted'.key = k /\ submitted' \in [key: Keys \union {Nil}, count: 0..MaxConnects]
  BY ConsoleAssumption DEF SessionInv, SessionTyped, Connect
<1>3. attempts' = {[key |-> k, at |-> "session"]} /\ stored' = stored
  BY DEF Connect, Attempt
<1> QED BY <1>1, <1>2, <1>3 DEF SessionInv, SessionTyped, SessionIsOfLastKey

LEMMA OpenedSession ==
  ASSUME SessionInv, NEW a \in attempts, NEW known \in BOOLEAN, Opened(a, known)
  PROVE  SessionInv' /\ session'.status = "ready" /\ session'.key = a.key
<1>1. attempts' = {} /\ UNCHANGED submitted
  BY DEF SessionInv, Opened
<1>2. a.key \in Keys /\ a.key = submitted.key
  BY DEF SessionInv, SessionTyped
<1>3. session' = [status |-> "ready", key |-> a.key, known |-> known] /\ stored' = a.key
  BY DEF Opened
<1> QED BY <1>1, <1>2, <1>3 DEF SessionInv, SessionTyped, SessionIsOfLastKey

LEMMA MissingSession ==
  ASSUME SessionInv, NEW a \in attempts, SessionMissing(a)
  PROVE  SessionInv'
<1> DEFINE b == [a EXCEPT !.at = "stations"]
<1>1. b \in [key: Keys, at: {"session", "stations"}] /\ b.key = a.key
  BY DEF SessionInv, SessionTyped
<1>2. attempts' = (attempts \ {a}) \union {b}
  BY DEF SessionMissing
<1>3. attempts \ {a} = {}
  BY DEF SessionInv
<1> HIDE DEF b
<1>4. attempts' = {b} /\ UNCHANGED <<session, stored, submitted>>
  BY <1>2, <1>3 DEF SessionMissing
<1> QED BY <1>1, <1>4 DEF SessionInv, SessionTyped, SessionIsOfLastKey

LEMMA FailedSession ==
  ASSUME SessionInv, NEW a \in attempts, ConnectFails(a)
  PROVE  SessionInv'
<1>1. attempts' = {} /\ UNCHANGED <<stored, submitted>>
  BY DEF SessionInv, ConnectFails
<1>2. session' \in [status: {"checking", "ready", "signed-out", "error"}, key: Keys \union {Nil},
                    known: BOOLEAN] /\ session'.status = "error"
  BY DEF SessionInv, SessionTyped, ConnectFails
<1> QED BY <1>1, <1>2 DEF SessionInv, SessionTyped, SessionIsOfLastKey

LEMMA ClosedSession ==
  ASSUME SessionInv, Disconnect
  PROVE  SessionInv'
<1>1. submitted' \in [key: Keys \union {Nil}, count: 0..MaxConnects]
  BY DEF SessionInv, SessionTyped, Disconnect
<1>2. session' = [status |-> "signed-out", key |-> Nil, known |-> FALSE] /\ stored' = Nil
  BY DEF Disconnect
<1>3. attempts' = {}
  BY DEF SessionInv, Disconnect
<1> QED BY <1>1, <1>2, <1>3 DEF SessionInv, SessionTyped, SessionIsOfLastKey

LEMMA ReloadedSession ==
  ASSUME SessionInv, BrowserReload
  PROVE  SessionInv' /\ session'.status # "ready"
<1>1. submitted' \in [key: Keys \union {Nil}, count: 0..MaxConnects] /\ submitted'.key = stored
  BY ConsoleAssumption DEF SessionInv, SessionTyped, BrowserReload
<1>2. stored' = stored /\ stored \in Keys \union {Nil}
  BY DEF SessionInv, SessionTyped, BrowserReload
<1>3. CASE stored = Nil
  <2>1. attempts' = {} /\ session' = [status |-> "signed-out", key |-> Nil, known |-> FALSE]
    BY <1>3 DEF BrowserReload
  <2> QED BY <1>1, <1>2, <1>3, <2>1 DEF SessionInv, SessionTyped, SessionIsOfLastKey
<1>4. CASE stored # Nil
  <2>1. /\ attempts' = {[key |-> stored, at |-> "session"]}
        /\ session' = [status |-> "checking", key |-> Nil, known |-> FALSE]
    BY <1>4 DEF BrowserReload, Attempt
  <2> QED BY <1>1, <1>2, <1>4, <2>1 DEF SessionInv, SessionTyped, SessionIsOfLastKey
<1> QED BY <1>3, <1>4

-----------------------------------------------------------------------------
(* The watched load                                                        *)

LoadTyped ==
  /\ route \in Routes
  /\ watch \in Pages[route.page].loads \union {Nil}
  /\ shown \in [status: {"loading", "ready", "error"}, data: Record \union {Nil}]
  /\ requests \subseteq Request
  /\ now \in Version
  /\ since \in Version

\* One request at most is awaited, for the record of the address and with the
\* key of the session.  What was read for it is of now or before, and neither
\* older than what is shown nor than the last change the user saved here.
LoadInv ==
  /\ LoadTyped
  /\ session.status # "ready" => watch = Nil /\ shown = Blank /\ requests = {}
  /\ \A q, r \in requests : q = r
  /\ \A q \in requests :
       /\ q.by = session.key
       /\ watch \in Pages[route.page].varies => q.of = route.id
       /\ q.at # Nil =>
            /\ since <= q.at /\ q.at <= now
            /\ shown.data # Nil => shown.data.at <= q.at
  /\ since <= now
  /\ shown.data # Nil => shown.data.at <= now
  /\ SettledIsCurrent

ShownKept == Newer(shown.data, shown'.data)

LEMMA BlankIsShown ==
  Blank \in [status: {"loading", "ready", "error"}, data: Record \union {Nil}]
    /\ Blank.status = "loading" /\ Blank.data = Nil
BY DEF Blank

LEMMA RequestIsMade ==
  ASSUME NEW r \in Routes, NEW k \in Keys
  PROVE  [of |-> r.id, by |-> k, at |-> Nil] \in Request
BY DEF Routes, Request

LEMMA SameIsShown ==
  ASSUME LoadInv, shown'.data = shown.data
  PROVE  ShownKept
BY ConsoleAssumption DEF LoadInv, LoadTyped, ShownKept, Newer, Record, Version

LEMMA UnmountedLoads ==
  ASSUME LoadInv, route' \in Routes, Unmounted, UNCHANGED now
  PROVE  LoadInv' /\ ShownKept
<1>1. watch' = Nil /\ shown' = Blank /\ requests' = {} /\ since' = now /\ now' = now /\ now \in Int
  BY ConsoleAssumption DEF Unmounted, LoadInv, LoadTyped, Version
<1>2. SettledIsCurrent'
  BY <1>1, BlankIsShown DEF SettledIsCurrent
<1> QED BY <1>1, <1>2, BlankIsShown DEF LoadInv, LoadTyped, ShownKept, Newer

LEMMA MountedLoads ==
  ASSUME LoadInv, route' \in Routes, UNCHANGED now, session'.status = "ready", session'.key \in Keys,
         Mount(route'.page, route'.id, session'.key)
  PROVE  LoadInv' /\ ShownKept
<1>1. CASE Unmounted
  BY <1>1, UnmountedLoads
<1>2. CASE ~Unmounted
  <2> DEFINE q == [of |-> route'.id, by |-> session'.key, at |-> Nil]
  <2>1. /\ watch' \in Pages[route'.page].loads /\ shown' = Blank /\ requests' = {q}
        /\ since' = now /\ now' = now /\ now \in Int
    BY <1>2, ConsoleAssumption DEF Mount, LoadInv, LoadTyped, Version
  <2>2. q \in Request /\ q.of = route'.id /\ q.by = session'.key /\ q.at = Nil
    BY RequestIsMade
  <2> HIDE DEF q
  <2>3. SettledIsCurrent'
    BY <2>1, BlankIsShown DEF SettledIsCurrent
  <2> QED BY <2>1, <2>2, <2>3, BlankIsShown DEF LoadInv, LoadTyped, ShownKept, Newer
<1> QED BY <1>1, <1>2

LEMMA AskedLoads ==
  ASSUME LoadInv, session'.status = "ready", session'.key \in Keys, UNCHANGED now,
         route' \in Routes, watch' \in Pages[route'.page].loads \union {Nil},
         Ask(route'.id, session'.key), since' \in {since, now}
  PROVE  LoadInv' /\ ShownKept
<1> DEFINE q == [of |-> route'.id, by |-> session'.key, at |-> Nil]
<1>1. requests' = {q} /\ now' = now /\ now \in Int /\ since \in Int
  BY ConsoleAssumption DEF Ask, LoadInv, LoadTyped, Version
<1>2. /\ shown' \in [status: {"loading", "ready", "error"}, data: Record \union {Nil}]
      /\ shown'.data = shown.data
  BY DEF Ask, LoadInv, LoadTyped
<1>3. q \in Request /\ q.of = route'.id /\ q.by = session'.key /\ q.at = Nil
  BY RequestIsMade
<1> HIDE DEF q
<1>4. SettledIsCurrent'
  BY <1>1 DEF SettledIsCurrent
<1>5. LoadInv'
  BY <1>1, <1>2, <1>3, <1>4 DEF LoadInv, LoadTyped
<1> QED BY <1>2, <1>5, SameIsShown

\* Nothing of the page changes but the address, of which its load is no part.
LEMMA KeptLoads ==
  ASSUME LoadInv, UNCHANGED <<watch, shown, requests, since>>,
         route' \in Routes, watch' \in Pages[route'.page].loads \union {Nil},
         session'.status = session.status \/ (session.status # "ready" /\ session'.status # "ready"),
         session.status = "ready" =>
           /\ session'.key = session.key
           /\ watch \in Pages[route'.page].varies =>
                watch \in Pages[route.page].varies /\ route'.id = route.id,
         now' \in Version, now <= now'
  PROVE  LoadInv' /\ ShownKept
<1>1. now \in Int /\ since \in Int /\ now' \in Int
  BY ConsoleAssumption DEF LoadInv, LoadTyped, Version
<1>2. \A q \in requests : q.at # Nil => q.at \in Int
  BY ConsoleAssumption DEF LoadInv, LoadTyped, Request, Version
<1>3. shown.data # Nil => shown.data.at \in Int
  BY ConsoleAssumption DEF LoadInv, LoadTyped, Record, Version
<1>4. LoadTyped'
  BY DEF LoadInv, LoadTyped
<1>5. CASE session.status # "ready"
  <2>1. watch = Nil /\ shown = Blank /\ requests = {}
    BY <1>5 DEF LoadInv
  <2>2. SettledIsCurrent'
    BY <2>1, BlankIsShown DEF SettledIsCurrent
  <2> QED BY <1>1, <1>4, <2>1, <2>2, BlankIsShown DEF LoadInv, ShownKept, Newer
<1>6. CASE session.status = "ready"
  <2>1. SettledIsCurrent'
    BY <1>6 DEF LoadInv, SettledIsCurrent
  <2>2. \A q \in requests' :
          /\ q.by = session'.key
          /\ watch' \in Pages[route'.page].varies => q.of = route'.id
          /\ q.at # Nil =>
               /\ since' <= q.at /\ q.at <= now'
               /\ shown'.data # Nil => shown'.data.at <= q.at
    BY <1>1, <1>2, <1>6 DEF LoadInv
  <2>3. since' <= now' /\ (shown'.data # Nil => shown'.data.at <= now')
    BY <1>1, <1>3 DEF LoadInv
  <2>4. LoadInv'
    BY <1>4, <1>6, <2>1, <2>2, <2>3 DEF LoadInv
  <2> QED BY <2>4, SameIsShown
<1> QED BY <1>5, <1>6

\* The address changes, by the user or by what a creation leads to.
LEMMA GoneLoads ==
  ASSUME SessionInv, LoadInv, NEW r \in Routes, Go(r), UNCHANGED <<session, now>>
  PROVE  LoadInv' /\ ShownKept
<1>0. route' = r /\ now' \in Version /\ now <= now'
  BY ConsoleAssumption DEF Go, LoadInv, LoadTyped, Version
<1>1. CASE session.status # "ready"
  <2>1. UNCHANGED <<watch, shown, requests, since>> /\ watch = Nil
    BY <1>1 DEF Go, LoadInv, loadVars
  <2> QED BY <1>0, <1>1, <2>1, KeptLoads
<1>2. CASE session.status = "ready" /\ r.page = route.page
  <2>0. session.key \in Keys /\ watch' \in Pages[route'.page].loads \union {Nil}
    BY <1>0, <1>2 DEF SessionInv, Go, Move, LoadInv, LoadTyped
  <2>1. CASE watch \in Pages[route.page].varies
    BY <1>0, <1>2, <2>0, <2>1, AskedLoads DEF Go, Move
  <2>2. CASE watch \notin Pages[route.page].varies
    <3>1. UNCHANGED <<watch, shown, requests, since>>
      BY <1>2, <2>2 DEF Go, Move
    <3> QED BY <1>0, <1>2, <2>0, <2>2, <3>1, KeptLoads
  <2> QED BY <2>1, <2>2
<1>3. CASE session.status = "ready" /\ r.page # route.page
  BY <1>0, <1>3, MountedLoads DEF Go, SessionInv
<1> QED BY <1>1, <1>2, <1>3

\* The data asked for are read now, and nothing newer can have been shown.
LEMMA ReadLoads ==
  ASSUME LoadInv, NEW q \in requests, Read(q)
  PROVE  LoadInv' /\ ShownKept
<1> DEFINE r == [q EXCEPT !.at = now]
<1>0. now \in Version /\ now \in Int /\ q \in Request
  BY ConsoleAssumption DEF LoadInv, LoadTyped, Version
<1>1. r \in Request /\ r.of = q.of /\ r.by = q.by /\ r.at = now
  BY <1>0 DEF Request
<1>2. requests' = (requests \ {q}) \union {r}
  BY DEF Read
<1> HIDE DEF r
<1>3. requests' = {r}
  BY <1>2 DEF LoadInv
<1>4. UNCHANGED <<session, route, watch, shown, now, since>>
  BY DEF Read, sessionVars
<1>5. SettledIsCurrent'
  BY <1>3 DEF SettledIsCurrent
<1>6. LoadInv'
  BY <1>0, <1>1, <1>3, <1>4, <1>5 DEF LoadInv, LoadTyped
<1> QED BY <1>4, <1>6, SameIsShown

LEMMA DeliveredLoads ==
  ASSUME LoadInv, NEW q \in requests, Deliver(q)
  PROVE  LoadInv' /\ ShownKept
<1>1. q \in Record /\ q.at # Nil /\ since <= q.at /\ q.at <= now
  BY DEF LoadInv, LoadTyped, Request, Record, Deliver
<1>2. requests' = {} /\ shown' = [status |-> "ready", data |-> q]
  BY DEF LoadInv, Deliver
<1>3. UNCHANGED <<session, route, watch, now, since>>
  BY DEF Deliver, sessionVars
<1>4. session.status = "ready" /\ q.by = session.key
  BY DEF LoadInv
<1>5. watch \in Pages[route.page].varies => q.of = route.id
  BY DEF LoadInv
<1>6. since \in Int /\ q.at \in Int
  BY <1>1, ConsoleAssumption DEF LoadInv, LoadTyped, Version, Record
<1>7. SettledIsCurrent'
  BY <1>1, <1>2, <1>3, <1>4, <1>5, <1>6 DEF SettledIsCurrent
<1>8. shown' \in [status: {"loading", "ready", "error"}, data: Record \union {Nil}]
  BY <1>1, <1>2
<1>9. LoadInv'
  BY <1>1, <1>2, <1>3, <1>4, <1>7, <1>8 DEF LoadInv, LoadTyped
<1>10. ShownKept
  BY <1>1, <1>2 DEF LoadInv, ShownKept, Newer
<1> QED BY <1>9, <1>10

LEMMA FailedLoads ==
  ASSUME LoadInv, NEW q \in requests, RequestFails(q)
  PROVE  LoadInv' /\ ShownKept
<1>1. requests' = {} /\ shown' = [status |-> "error", data |-> Nil]
  BY DEF LoadInv, RequestFails
<1>2. UNCHANGED <<session, route, watch, now, since>> /\ session.status = "ready"
  BY DEF LoadInv, RequestFails, sessionVars
<1>3. SettledIsCurrent'
  BY <1>1 DEF SettledIsCurrent
<1> QED BY <1>1, <1>2, <1>3 DEF LoadInv, LoadTyped, ShownKept, Newer

LEMMA ReloadedLoads ==
  ASSUME SessionInv, LoadInv, Reload
  PROVE  LoadInv' /\ ShownKept
<1>1. UNCHANGED <<session, route, watch, now, since>> /\ session.status = "ready"
  BY DEF LoadInv, Reload, sessionVars
<1> QED BY <1>1, AskedLoads DEF SessionInv, LoadInv, LoadTyped, Reload

\* Nothing of the page changes.
LEMMA LoadsUnchanged ==
  ASSUME LoadInv, UNCHANGED <<route, loadVars>>,
         session'.status = session.status \/ (session.status # "ready" /\ session'.status # "ready"),
         session.status = "ready" => session'.key = session.key,
         now' \in Version, now <= now'
  PROVE  LoadInv' /\ ShownKept
BY KeptLoads DEF LoadInv, LoadTyped, loadVars

-----------------------------------------------------------------------------
(* The saves                                                               *)

\* What is saved is asked for with a scope its route takes, or with none, and
\* fits its schema if a form of the fleet let it through.  A page that asks
\* again once it is saved is still there.
SaveInv ==
  /\ save \in SaveUnderWay \union {Nil}
  /\ save # Nil =>
       /\ save.known /\ save.scope # Nil => WriteScope(save.op) \in Granted[save.by]
       /\ save.op \in FleetForms => save.fits
       /\ save.pc = "forbidden" => WriteScope(save.op) \notin Granted[save.by]
       /\ save.pc = "invalid" => ~save.fits
       /\ save.reloads => session.status = "ready"

LEMMA SaveForgotten ==
  ASSUME save' = Nil
  PROVE  SaveInv'
BY DEF SaveInv

LEMMA SaveUnchanged ==
  ASSUME SaveInv, UNCHANGED save, session.status = "ready" => session'.status = "ready"
  PROVE  SaveInv'
BY DEF SaveInv

LEMMA SaveOrphaned ==
  ASSUME SaveInv, save' = Orphaned(save)
  PROVE  SaveInv'
<1>1. CASE save = Nil \/ save.leads = Nil
  BY <1>1, SaveForgotten DEF Orphaned
<1>2. CASE ~(save = Nil \/ save.leads = Nil)
  <2> DEFINE s == [save EXCEPT !.reloads = FALSE]
  <2>1. save \in SaveUnderWay /\ save # Nil
    BY <1>2 DEF SaveInv
  <2>2. /\ s \in SaveUnderWay /\ s.known = save.known /\ s.scope = save.scope /\ s.op = save.op
        /\ s.by = save.by /\ s.fits = save.fits /\ s.pc = save.pc /\ s.reloads = FALSE
    BY <2>1 DEF SaveUnderWay
  <2>3. save' = s
    BY <1>2 DEF Orphaned
  <2> HIDE DEF s
  <2> QED BY <2>1, <2>2, <2>3 DEF SaveInv
<1> QED BY <1>1, <1>2

LEMMA SaveSubmitted ==
  ASSUME SessionInv, LoadInv, NEW s \in Pages[route.page].saves, Submit(s)
  PROVE  SaveInv'
<1>1. PICK fits \in IF s.op \in DOMAIN Submitted THEN Submitted[s.op] ELSE BOOLEAN :
        save' = [op |-> s.op, by |-> session.key, scope |-> s.scope, known |-> session.known,
                 fits |-> fits, reloads |-> watch \in s.reloads, leads |-> s.leads, pc |-> "sent"]
  BY DEF Submit
<1>2. s \in Saves /\ ButtonOK(s)
  BY ButtonsAskForTheirScope DEF LoadInv, LoadTyped, Routes
<1>3. session.key \in Keys /\ session.known \in BOOLEAN
  BY DEF SessionInv, SessionTyped, Submit
<1>4. s.op \in FleetForms => fits = TRUE
  BY <1>1, FleetFormsFit
<1>5. fits \in BOOLEAN
  BY <1>1, SubmittedAreAnswers
<1>6. session.known /\ s.scope # Nil => WriteScope(s.op) \in Granted[session.key]
  BY <1>2 DEF Submit, Offered, HasScope, ButtonOK
<1>7. (watch \in s.reloads) \in BOOLEAN
  OBVIOUS
<1>8. save' \in SaveUnderWay
  BY <1>1, <1>2, <1>3, <1>5, <1>7 DEF SaveUnderWay, Ops
<1>9. session.status = "ready" /\ UNCHANGED session
  BY DEF Submit, sessionVars
<1> QED BY <1>1, <1>4, <1>6, <1>8, <1>9 DEF SaveInv

LEMMA SaveServed ==
  ASSUME SaveInv, ServerSaves
  PROVE  SaveInv' /\ (now' = now \/ (now < MaxChanges /\ now' = now + 1))
<1>0. save \in SaveUnderWay /\ save # Nil
  BY DEF SaveInv, ServerSaves
<1>1. ASSUME NEW pc \in {"done", "forbidden", "invalid", "refused"}, save' = [save EXCEPT !.pc = pc],
             pc = "forbidden" => WriteScope(save.op) \notin Granted[save.by],
             pc = "invalid" => ~save.fits
      PROVE  SaveInv'
  <2> DEFINE s == [save EXCEPT !.pc = pc]
  <2>2. /\ s \in SaveUnderWay /\ s.known = save.known /\ s.scope = save.scope /\ s.op = save.op
        /\ s.by = save.by /\ s.fits = save.fits /\ s.pc = pc /\ s.reloads = save.reloads
    BY <1>0 DEF SaveUnderWay
  <2>3. save' = s /\ UNCHANGED session
    BY <1>1 DEF ServerSaves, sessionVars
  <2> HIDE DEF s
  <2> QED BY <1>0, <1>1, <2>2, <2>3 DEF SaveInv
<1>2. CASE WriteScope(save.op) \notin Granted[save.by]
  BY <1>1, <1>2 DEF ServerSaves
<1>3. CASE WriteScope(save.op) \in Granted[save.by] /\ ~save.fits
  BY <1>1, <1>3 DEF ServerSaves
<1>4. CASE WriteScope(save.op) \in Granted[save.by] /\ save.fits
  BY <1>1, <1>4 DEF ServerSaves
<1> QED BY <1>2, <1>3, <1>4

-----------------------------------------------------------------------------
(* The console                                                             *)

ConInv == SessionInv /\ LoadInv /\ SaveInv

LEMMA ConInvTypes == ConInv => ConTypeOK
BY DEF ConInv, SessionInv, SessionTyped, LoadInv, LoadTyped, SaveInv, ConTypeOK

LEMMA ConInvInit == ConInit => ConInv
<1> SUFFICES ASSUME ConInit PROVE ConInv
  OBVIOUS
<1>1. SessionInv
  BY ConsoleAssumption DEF ConInit, SessionInv, SessionTyped, SessionIsOfLastKey
<1>2. SettledIsCurrent
  BY BlankIsShown DEF ConInit, SettledIsCurrent
<1>3. LoadInv
  BY <1>2, BlankIsShown, ConsoleAssumption DEF ConInit, LoadInv, LoadTyped, Version
<1>4. SaveInv
  BY DEF ConInit, SaveInv
<1> QED BY <1>1, <1>3, <1>4 DEF ConInv

LEMMA SessionSteps ==
  ASSUME ConInv, SessionStep
  PROVE  ConInv' /\ ShownKept
<1>0. SessionInv /\ LoadInv /\ SaveInv /\ route \in Routes /\ now \in Version /\ now <= now
  BY ConsoleAssumption DEF ConInv, LoadInv, LoadTyped, Version
<1>1. ASSUME NEW k \in Keys, Connect(k) PROVE ConInv' /\ ShownKept
  <2>1. session'.status # "ready" /\ session.status # "ready" /\ UNCHANGED <<route, loadVars, save, now>>
    BY <1>0, <1>1 DEF Connect, SessionInv, SessionTyped
  <2> QED BY <1>0, <1>1, <2>1, ConnectSession, LoadsUnchanged, SaveUnchanged DEF ConInv
<1>2. ASSUME NEW a \in attempts, NEW known \in BOOLEAN, Opened(a, known) PROVE ConInv' /\ ShownKept
  <2>1. SessionInv' /\ session'.status = "ready" /\ session'.key = a.key
    BY <1>0, <1>2, OpenedSession
  <2>2. UNCHANGED <<route, save, now>> /\ Mount(route'.page, route'.id, session'.key)
    BY <1>2, <2>1 DEF Opened
  <2>3. session'.key \in Keys /\ route' \in Routes
    BY <1>0, <2>1, <2>2 DEF SessionInv
  <2> QED BY <1>0, <2>1, <2>2, <2>3, MountedLoads, SaveUnchanged DEF ConInv
<1>3. ASSUME NEW a \in attempts, SessionMissing(a) PROVE ConInv' /\ ShownKept
  <2>1. UNCHANGED <<session, route, loadVars, save, now>>
    BY <1>3 DEF SessionMissing
  <2> QED BY <1>0, <1>3, <2>1, MissingSession, LoadsUnchanged, SaveUnchanged DEF ConInv
<1>4. ASSUME NEW a \in attempts, ConnectFails(a) PROVE ConInv' /\ ShownKept
  <2>1. session'.status = "error" /\ session.status # "ready" /\ UNCHANGED <<route, loadVars, save, now>>
    BY <1>0, <1>4 DEF ConnectFails, SessionInv, SessionTyped
  <2> QED BY <1>0, <1>4, <2>1, FailedSession, LoadsUnchanged, SaveUnchanged DEF ConInv
<1>5. CASE Disconnect
  <2>1. route' \in Routes /\ UNCHANGED now /\ Unmounted /\ save' = Orphaned(save)
    BY <1>0, <1>5 DEF Disconnect
  <2> QED BY <1>0, <1>5, <2>1, ClosedSession, UnmountedLoads, SaveOrphaned DEF ConInv
<1>6. CASE BrowserReload
  <2>1. route' \in Routes /\ UNCHANGED now /\ Unmounted /\ save' = Nil
    BY <1>0, <1>6 DEF BrowserReload
  <2> QED BY <1>0, <1>6, <2>1, ReloadedSession, UnmountedLoads, SaveForgotten DEF ConInv
<1> QED BY <1>1, <1>2, <1>3, <1>4, <1>5, <1>6 DEF SessionStep, SessionAnswered, StationsAnswered

LEMMA PageSteps ==
  ASSUME ConInv, PageStep
  PROVE  ConInv' /\ ShownKept
<1>0. SessionInv /\ LoadInv /\ SaveInv
  BY DEF ConInv
<1>1. ASSUME NEW r \in Routes, Navigate(r) PROVE ConInv' /\ ShownKept
  <2>1. Go(r) /\ UNCHANGED <<session, now, sessionVars>>
    BY <1>1 DEF Navigate, sessionVars
  <2>2. SaveInv'
    BY <1>0, <1>1, <2>1, SaveUnchanged, SaveOrphaned DEF Navigate
  <2> QED BY <1>0, <2>1, <2>2, GoneLoads, SessionUnchanged DEF ConInv
<1>2. CASE Reload
  BY <1>0, <1>2, ReloadedLoads, SessionUnchanged, SaveUnchanged DEF ConInv, Reload, sessionVars
<1>3. ASSUME NEW q \in requests, Read(q) PROVE ConInv' /\ ShownKept
  BY <1>0, <1>3, ReadLoads, SessionUnchanged, SaveUnchanged DEF ConInv, Read, sessionVars
<1>4. ASSUME NEW q \in requests, Deliver(q) PROVE ConInv' /\ ShownKept
  BY <1>0, <1>4, DeliveredLoads, SessionUnchanged, SaveUnchanged DEF ConInv, Deliver, sessionVars
<1>5. ASSUME NEW q \in requests, RequestFails(q) PROVE ConInv' /\ ShownKept
  BY <1>0, <1>5, FailedLoads, SessionUnchanged, SaveUnchanged DEF ConInv, RequestFails, sessionVars
<1> QED BY <1>1, <1>2, <1>3, <1>4, <1>5 DEF PageStep

\* When only the saves and the version change.
LEMMA PageUnchanged ==
  ASSUME ConInv, UNCHANGED <<sessionVars, route, loadVars>>, SaveInv',
         now' = now \/ (now < MaxChanges /\ now' = now + 1)
  PROVE  ConInv' /\ ShownKept
<1>1. now' \in Version /\ now <= now'
  BY ConsoleAssumption DEF ConInv, LoadInv, LoadTyped, Version
<1>2. UNCHANGED session
  BY DEF sessionVars
<1>3. LoadInv' /\ ShownKept
  BY <1>1, <1>2, LoadsUnchanged DEF ConInv
<1> QED BY <1>3, SessionUnchanged DEF ConInv

LEMMA SaveSteps ==
  ASSUME ConInv, SaveStep
  PROVE  ConInv' /\ ShownKept
<1>0. SessionInv /\ LoadInv /\ SaveInv
  BY DEF ConInv
<1>1. ASSUME NEW s \in Pages[route.page].saves, Submit(s) PROVE ConInv' /\ ShownKept
  BY <1>0, <1>1, SaveSubmitted, PageUnchanged DEF Submit
<1>2. CASE ServerSaves
  BY <1>0, <1>2, SaveServed, PageUnchanged DEF ServerSaves
<1>3. CASE SaveFails
  BY <1>3, SaveForgotten, PageUnchanged DEF SaveFails
<1>4. CASE Saved
  <2>0. UNCHANGED <<session, now, sessionVars>> /\ SaveInv' /\ SessionInv'
    BY <1>0, <1>4, SaveForgotten, SessionUnchanged DEF Saved, sessionVars
  <2>1. CASE save.leads # Nil
    BY <1>0, <1>4, <2>0, <2>1, GoneLoads DEF Saved, ConInv
  <2>2. CASE save.leads = Nil /\ save.reloads
    <3>1. UNCHANGED <<route, watch>> /\ Ask(route.id, session.key) /\ since' = now
      BY <1>4, <2>2 DEF Saved
    <3>2. session.status = "ready" /\ session.key \in Keys
      BY <1>0, <1>4, <2>2 DEF SaveInv, SessionInv, Saved
    <3>3. route' \in Routes /\ watch' \in Pages[route'.page].loads \union {Nil}
      BY <1>0, <3>1 DEF LoadInv, LoadTyped
    <3> QED BY <1>0, <2>0, <3>1, <3>2, <3>3, AskedLoads DEF ConInv
  <2>3. CASE save.leads = Nil /\ ~save.reloads
    BY <1>4, <2>3, <2>0, PageUnchanged DEF Saved, loadVars
  <2> QED BY <2>1, <2>2, <2>3
<1> QED BY <1>1, <1>2, <1>3, <1>4 DEF SaveStep

LEMMA ConInvStep ==
  ASSUME ConInv, [ConNext]_conVars
  PROVE  ConInv' /\ ShownKept
<1>1. CASE OthersChange
  BY <1>1, SaveUnchanged, PageUnchanged DEF OthersChange, ConInv, sessionVars
<1>2. CASE UNCHANGED conVars
  BY <1>2, SaveUnchanged, PageUnchanged DEF conVars, ConInv, sessionVars
<1> QED BY <1>1, <1>2, SessionSteps, PageSteps, SaveSteps DEF ConNext

-----------------------------------------------------------------------------
(* The simulator                                                           *)

GaugeState == [known: BOOLEAN, level: Levels, water: Levels, frozen: Levels \union {-1}]

LEMMA LevelsOfTank == MaxLevel \in Nat /\ \A vol : LevelsFor(vol) \subseteq Levels
<1>1. Len(Points) \in Nat /\ Len(Points) \in 1..Len(Points)
  BY MeasuresAssumption
<1>2. Points \in Seq([level: Nat, vol: Nat])
  BY MeasuresAssumption
<1>3. Points[Len(Points)] \in [level: Nat, vol: Nat]
  BY <1>1, <1>2, ElementOfSeq
<1>4. MaxLevel \in Nat
  BY <1>3 DEF MaxLevel
<1> QED BY <1>4 DEF LevelsFor, Levels

LEMMA ClampedIsLevel ==
  ASSUME NEW x \in Int
  PROVE  Clamp(x, 0, MaxLevel) \in Levels
BY LevelsOfTank DEF Clamp, Levels

LEMMA EffectsAreNumbers ==
  \A name \in DOMAIN ScenarioEffects :
    ScenarioEffects[name].water \in Nat /\ ScenarioEffects[name].freeze \in BOOLEAN
<1>1. DOMAIN ScenarioEffects = {"nominal", "delivery", "leak", "theft", "waterIngress",
                                "sensorStuck", "offline"}
  BY DEF ScenarioEffects
<1>2. \A name \in {"nominal", "delivery", "leak", "theft", "sensorStuck", "offline"} :
        ScenarioEffects[name].water = 0
  BY DEF ScenarioEffects, Effect
<1>3. ScenarioEffects["waterIngress"].water = Growth /\ Growth \in Nat
  BY SimulatorAssumption DEF ScenarioEffects, Effect
<1>4. \A name \in {"nominal", "delivery", "leak", "theft", "waterIngress", "offline"} :
        ScenarioEffects[name].freeze = FALSE
  BY DEF ScenarioEffects, Effect
<1>5. ScenarioEffects["sensorStuck"].freeze = TRUE
  BY DEF ScenarioEffects, Effect
<1>6. \A name \in DOMAIN ScenarioEffects : ScenarioEffects[name].water \in Nat
  BY <1>1, <1>2, <1>3
<1>7. \A name \in DOMAIN ScenarioEffects : ScenarioEffects[name].freeze \in BOOLEAN
  BY <1>1, <1>4, <1>5
<1> QED BY <1>6, <1>7

\* A poll leaves a gauge within the tank; frozen, it has a level to report.
LEMMA SteppedIsState ==
  ASSUME config \in Configs, NEW g \in GaugeState, NEW after \in Stepped(g)
  PROVE  after \in GaugeState /\ (effect.freeze => after.frozen \in Levels)
<1>1. PICK exact \in Levels, noise \in Noises :
        after = [known |-> TRUE, level |-> TrueLevel(exact, noise),
                 water |-> Clamp(g.water + effect.water, 0, MaxLevel),
                 frozen |-> IF ~effect.freeze THEN -1
                            ELSE IF g.frozen # -1 THEN g.frozen ELSE TrueLevel(exact, noise)]
  BY LevelsOfTank DEF Stepped
<1>2. effect.water \in Nat /\ effect.freeze \in BOOLEAN
  BY EffectsAreNumbers DEF effect, Configs
<1>3. exact \in Int /\ noise \in Int /\ g.water \in Int
  BY SimulatorAssumption, LevelsOfTank DEF Levels, GaugeState
<1>4. TrueLevel(exact, noise) \in Levels
  BY <1>3, ClampedIsLevel DEF TrueLevel
<1>5. Clamp(g.water + effect.water, 0, MaxLevel) \in Levels
  BY <1>2, <1>3, ClampedIsLevel
<1>6. g.frozen \in Levels \union {-1}
  BY DEF GaugeState
<1> QED BY <1>1, <1>2, <1>4, <1>5, <1>6 DEF GaugeState

LEMMA EnsuredIsState ==
  ASSUME NEW t \in Tanks, gauge[t] \in GaugeState, NEW g \in Ensured(t)
  PROVE  g \in GaugeState
<1>1. CASE gauge[t].known
  BY <1>1 DEF Ensured
<1>2. CASE ~gauge[t].known
  <2>1. PICK level \in Levels :
          g = [known |-> TRUE, level |-> level, water |-> Clamp(InitialWater, 0, MaxLevel),
               frozen |-> -1]
    BY <1>2, LevelsOfTank DEF Ensured
  <2>2. Clamp(InitialWater, 0, MaxLevel) \in Levels
    BY SimulatorAssumption, ClampedIsLevel
  <2> QED BY <2>1, <2>2 DEF GaugeState
<1> QED BY <1>1, <1>2

LEMMA DryIsState == Dry \in GaugeState
BY LevelsOfTank DEF Dry, GaugeState, Levels

\* The levels that may be reported: what is above the top is there by rounding.
Shown ==
  {n \in Nat : n > MaxLevel => MaxLevel % Grain # 0 /\ 2 * (n - MaxLevel) <= Grain}

LEMMA RoundedIsShown == ASSUME NEW level \in Levels PROVE Rounded(level) \in Shown
<1> DEFINE q == (2 * level + Grain) \div (2 * Grain)
           n == Grain * q
<1>0. level \in Nat /\ level <= MaxLevel /\ MaxLevel \in Nat /\ Grain \in Nat /\ Grain > 0
  BY LevelsOfTank, SimulatorAssumption DEF Levels
<1>1. /\ q \in Nat
      /\ 2 * level + Grain = (2 * Grain) * q + ((2 * level + Grain) % (2 * Grain))
      /\ (2 * level + Grain) % (2 * Grain) \in 0..(2 * Grain - 1)
  <2> DEFINE a == 2 * level + Grain
             b == 2 * Grain
  <2>1. a \in Nat /\ b \in Nat \ {0}
    BY <1>0
  <2> HIDE DEF a, b
  <2>2. a \div b \in Nat /\ a = b * (a \div b) + (a % b) /\ a % b \in 0..(b - 1)
    BY <2>1, Z3
  <2> QED BY <2>2 DEF a, b
<1> HIDE DEF q
<1>2. (2 * Grain) * q = 2 * n
  BY <1>0, <1>1, Z3
<1>3. n \in Nat
  BY <1>0, <1>1, Z3
<1> HIDE DEF n
<1>4. 2 * n <= 2 * level + Grain
  BY <1>0, <1>1, <1>2, <1>3
<1>5. n > MaxLevel => 2 * (n - MaxLevel) <= Grain
  BY <1>0, <1>3, <1>4
\* A top that is a whole number of grains is not passed: the next grain above it
\* is a whole one away.
<1>6. ASSUME n > MaxLevel, MaxLevel % Grain = 0 PROVE FALSE
  <2> DEFINE m == MaxLevel \div Grain
  <2>1. m \in Nat /\ MaxLevel = Grain * m
    BY <1>0, <1>6, Z3
  <2> HIDE DEF m
  <2>2. q > m
    <3> SUFFICES ASSUME q <= m PROVE FALSE
      BY <1>1, <2>1
    <3>1. Grain * q <= Grain * m
      BY <1>0, <1>1, <2>1, Z3
    <3> QED BY <1>0, <1>3, <1>6, <2>1, <3>1 DEF n
  <2>3. Grain * q >= Grain * (m + 1) /\ Grain * (m + 1) = Grain * m + Grain
    BY <1>0, <1>1, <2>1, <2>2, Z3
  <2>4. n >= MaxLevel + Grain
    BY <1>0, <1>3, <2>1, <2>3 DEF n
  <2> QED BY <1>0, <1>3, <1>5, <1>6, <2>4
<1>7. Rounded(level) = n
  BY DEF Rounded, n, q
<1> QED BY <1>3, <1>5, <1>6, <1>7 DEF Shown

Measured == [level: Nat \union {-1}, water: Nat \union {-1}, at: -1..MaxClock]
Outcome == [tank: Tanks, status: Statuses, at: -1..MaxClock]
Run == [pc: {"idle", "fetch", "post", "ended"}, tank: 1..Len(TankIds) + 1, sample: Measured,
        outcomes: Seq(Outcome)]

IsStored(o, rows) == \E r \in rows : r.tank = o.tank /\ r.at = o.at

\* A run has told of the tanks before the one at hand, and of no other.
RunOK(r, rows) ==
  /\ r \in Run
  /\ r.pc \in {"fetch", "post"} => r.tank \in 1..Len(TankIds)
  /\ r.pc = "post" => r.sample.level \in Shown /\ r.sample.at \in 0..MaxClock
  /\ r.pc = "ended" => r.tank = Len(TankIds) + 1
  /\ Len(r.outcomes) = r.tank - 1
  /\ \A i \in 1..Len(r.outcomes) :
       /\ r.outcomes[i].tank = TankIds[i]
       /\ r.outcomes[i].status = "sent" => IsStored(r.outcomes[i], rows)

SimInv ==
  /\ config \in Configs
  /\ gauge \in [Tanks -> GaugeState]
  /\ runs \in [Slots -> Run]
  /\ clock \in 0..MaxClock
  /\ \A s \in Slots : RunOK(runs[s], readings)
  /\ SimulatedIsPhysical

LEMMA TanksOfLine ==
  /\ Len(TankIds) \in Nat \ {0}
  /\ \A i \in 1..Len(TankIds) : TankIds[i] \in Tanks
BY SimulatorAssumption DEF Tanks

LEMMA IdleRun == Idle \in Run /\ \A rows : RunOK(Idle, rows)
<1>1. Idle.sample \in Measured
  BY SimulatorAssumption DEF Idle, NoSample, Measured
<1>2. Idle \in Run /\ Idle.pc = "idle" /\ Idle.tank = 1 /\ Idle.outcomes = <<>>
  BY <1>1, TanksOfLine DEF Idle, Run
<1> QED BY <1>2 DEF RunOK

\* More readings take nothing back.
LEMMA RunKept ==
  ASSUME NEW r, NEW rows, NEW more, rows \subseteq more, RunOK(r, rows)
  PROVE  RunOK(r, more)
BY DEF RunOK, IsStored

\* A run that changes alone, and the readings only grow.
LEMMA OneRunSteps ==
  ASSUME SimInv, NEW s \in Slots, NEW r, RunOK(r, readings'), runs' = [runs EXCEPT ![s] = r],
         readings \subseteq readings', SimulatedIsPhysical', UNCHANGED config,
         gauge' \in [Tanks -> GaugeState], clock' \in 0..MaxClock
  PROVE  SimInv'
<1>1. r \in Run
  BY DEF RunOK
<1>2. runs' \in [Slots -> Run] /\ runs'[s] = r /\ \A o \in Slots \ {s} : runs'[o] = runs[o]
  BY <1>1 DEF SimInv
<1>3. \A o \in Slots : RunOK(runs'[o], readings')
  BY <1>2, RunKept DEF SimInv
<1> QED BY <1>2, <1>3 DEF SimInv

\* The run tells of the tank at hand and goes on to the next.
LEMMA ToldRun ==
  ASSUME SimInv, NEW s \in Slots, NEW status \in Statuses, Told(s, status),
         runs[s].pc \in {"fetch", "post"}, readings \subseteq readings',
         status = "sent" =>
           \E r \in readings' : r.tank = TankIds[runs[s].tank] /\ r.at = runs[s].sample.at
  PROVE  \E r : RunOK(r, readings') /\ runs' = [runs EXCEPT ![s] = r]
<1> DEFINE x == runs[s]
           o == [tank |-> TankIds[x.tank], status |-> status, at |-> x.sample.at]
           told == Append(x.outcomes, o)
           r == [pc |-> IF x.tank = Len(TankIds) THEN "ended" ELSE "fetch", tank |-> x.tank + 1,
                 sample |-> NoSample, outcomes |-> told]
<1>1. x \in Run /\ RunOK(x, readings') /\ x.tank \in 1..Len(TankIds)
  BY RunKept DEF SimInv, RunOK
<1>2. runs' = [runs EXCEPT ![s] = r]
  BY DEF Told
<1>3. /\ o \in Outcome /\ o.tank = TankIds[x.tank]
      /\ o.status = "sent" => IsStored(o, readings')
  BY <1>1, TanksOfLine DEF Outcome, Run, Measured, IsStored
<1>4. x.outcomes \in Seq(Outcome) /\ Len(x.outcomes) = x.tank - 1 /\ x.tank \in Nat
  BY <1>1, TanksOfLine DEF Run, RunOK
<1>5. /\ told \in Seq(Outcome) /\ Len(told) = x.tank
      /\ \A i \in 1..Len(x.outcomes) : told[i] = x.outcomes[i]
      /\ told[x.tank] = o
  <2> HIDE DEF o, x
  <2> QED BY <1>3, <1>4
<1>6. \A i \in 1..Len(told) :
        told[i].tank = TankIds[i] /\ (told[i].status = "sent" => IsStored(told[i], readings'))
  <2> SUFFICES ASSUME NEW i \in 1..Len(told)
               PROVE  /\ told[i].tank = TankIds[i]
                      /\ told[i].status = "sent" => IsStored(told[i], readings')
    OBVIOUS
  <2>1. i \in 1..Len(x.outcomes) \/ i = x.tank
    BY <1>4, <1>5
  <2>2. CASE i \in 1..Len(x.outcomes)
    BY <1>1, <1>5, <2>2 DEF RunOK
  <2>3. CASE i = x.tank
    BY <1>3, <1>5, <2>3
  <2> QED BY <2>1, <2>2, <2>3
<1> HIDE DEF x, o, told
<1>7. NoSample \in Measured
  BY SimulatorAssumption DEF NoSample, Measured
<1>8. /\ r \in Run /\ r.outcomes = told /\ r.tank = x.tank + 1
      /\ IF x.tank = Len(TankIds) THEN r.pc = "ended" ELSE r.pc = "fetch"
  BY <1>1, <1>5, <1>7, TanksOfLine DEF Run
<1> HIDE DEF r
<1>9. RunOK(r, readings')
  BY <1>1, <1>4, <1>5, <1>6, <1>8, TanksOfLine DEF RunOK
<1> QED BY <1>2, <1>9

\* One more reading of what a gauge reported.
LEMMA StoredIsPhysical ==
  ASSUME SimInv, NEW t, NEW sample, sample.level \in Shown, Taken(sample),
         readings' = Stored(t, sample)
  PROVE  /\ readings \subseteq readings' /\ SimulatedIsPhysical'
         /\ \E r \in readings' : r.tank = t /\ r.at = sample.at
<1>1. Quality(Sample(sample.level, sample.water, FALSE)) = "invalid" =>
        /\ MaxLevel % Grain # 0
        /\ MaxLevel < sample.level /\ 2 * (sample.level - MaxLevel) <= Grain
  <2>1. CASE sample.level > MaxLevel
    BY <2>1, LevelsOfTank DEF Shown
  <2>2. CASE ~(sample.level > MaxLevel)
    <3>1. ~(Sample(sample.level, sample.water, FALSE).level > MaxLevel)
      BY <2>2 DEF Sample
    <3> QED BY <3>1 DEF Quality, Taken
  <2> QED BY <2>1, <2>2
<1>2. CASE \E r \in readings : r.tank = t /\ r.at = sample.at
  BY <1>2 DEF Stored, SimInv, SimulatedIsPhysical
<1>3. CASE ~\E r \in readings : r.tank = t /\ r.at = sample.at
  <2> DEFINE n == [tank |-> t, at |-> sample.at, level |-> sample.level, water |-> sample.water]
  <2>1. readings' = readings \union {n}
    BY <1>3 DEF Stored
  <2>2. n.tank = t /\ n.at = sample.at /\ n.level = sample.level /\ n.water = sample.water
    OBVIOUS
  <2> HIDE DEF n
  <2> QED BY <1>1, <2>1, <2>2 DEF SimInv, SimulatedIsPhysical
<1> QED BY <1>2, <1>3

LEMMA PolledRun ==
  ASSUME SimInv, NEW s \in Slots, Polled(s)
  PROVE  SimInv'
<1> DEFINE t == TankIds[runs[s].tank]
<1>1. RunOK(runs[s], readings) /\ runs[s].pc = "fetch" /\ runs[s] \in Run
  BY DEF SimInv, Polled
<1>2. t \in Tanks /\ gauge[t] \in GaugeState
  BY <1>1, TanksOfLine DEF RunOK, SimInv
<1>0. PICK before \in Ensured(t) : \E after \in Stepped(before) :
        /\ gauge' = [gauge EXCEPT ![t] = after]
        /\ runs' = [runs EXCEPT ![s].pc = "post", ![s].sample = Reported(after)]
  BY DEF Polled
<1>3. PICK after \in Stepped(before) :
        /\ gauge' = [gauge EXCEPT ![t] = after]
        /\ runs' = [runs EXCEPT ![s].pc = "post", ![s].sample = Reported(after)]
  BY <1>0
<1>4. config \in Configs /\ before \in GaugeState
  BY <1>2, EnsuredIsState DEF SimInv
<1>5. after \in GaugeState /\ (effect.freeze => after.frozen \in Levels)
  BY <1>4, SteppedIsState
<1> DEFINE sample == Reported(after)
           r == [runs[s] EXCEPT !.pc = "post", !.sample = sample]
<1>6. sample.level \in Shown /\ sample.at = clock /\ sample \in Measured
  <2> DEFINE level == IF effect.freeze THEN after.frozen ELSE after.level
  <2>1. level \in Levels /\ after.water \in Levels
    BY <1>5 DEF GaugeState
  <2>2. sample = [level |-> Rounded(level), water |-> Rounded(after.water), at |-> clock]
    BY DEF Reported
  <2> HIDE DEF level, sample
  <2>3. Rounded(level) \in Shown /\ Rounded(after.water) \in Shown
    BY <2>1, RoundedIsShown
  <2> QED BY <2>2, <2>3 DEF Shown, Measured, SimInv
<1>7. runs' = [runs EXCEPT ![s] = r]
  BY <1>3 DEF SimInv
<1> HIDE DEF sample
<1>8. /\ r \in Run /\ r.pc = "post" /\ r.sample = sample /\ r.tank = runs[s].tank
      /\ r.outcomes = runs[s].outcomes
  BY <1>1, <1>6 DEF Run
<1> HIDE DEF r
<1>9. RunOK(r, readings)
  BY <1>1, <1>6, <1>8 DEF RunOK, SimInv
<1>10. UNCHANGED <<config, clock, readings>>
  BY DEF Polled
<1>11. gauge' \in [Tanks -> GaugeState]
  BY <1>2, <1>3, <1>5 DEF SimInv
<1> HIDE DEF t
<1> QED BY <1>7, <1>9, <1>10, <1>11, OneRunSteps DEF SimInv, SimulatedIsPhysical

LEMMA PostedRun ==
  ASSUME SimInv, NEW s \in Slots, PostAnswered(s) \/ PostFails(s)
  PROVE  SimInv'
<1> DEFINE t == TankIds[runs[s].tank]
           sample == runs[s].sample
<1>1. RunOK(runs[s], readings) /\ runs[s].pc = "post"
  BY DEF SimInv, PostAnswered, PostFails
<1>2. sample.level \in Shown
  BY <1>1 DEF RunOK
<1>3. UNCHANGED <<config, gauge, clock>>
  BY DEF PostAnswered, PostFails
<1>4. CASE PostAnswered(s)
  <2>1. /\ readings \subseteq readings' /\ SimulatedIsPhysical'
        /\ \E r \in readings' : r.tank = t /\ r.at = sample.at
    BY <1>2, <1>4, StoredIsPhysical DEF PostAnswered
  <2>2. PICK r : RunOK(r, readings') /\ runs' = [runs EXCEPT ![s] = r]
    BY <1>1, <1>4, <2>1, ToldRun DEF PostAnswered, Statuses
  <2> QED BY <1>3, <2>1, <2>2, OneRunSteps DEF SimInv
<1>5. CASE PostFails(s)
  <2>1. readings \subseteq readings' /\ SimulatedIsPhysical'
    <3>1. CASE UNCHANGED readings
      BY <3>1 DEF SimInv, SimulatedIsPhysical
    <3>2. CASE Taken(sample) /\ readings' = Stored(t, sample)
      BY <1>2, <3>2, StoredIsPhysical
    <3> QED BY <1>5, <3>1, <3>2 DEF PostFails
  <2>2. PICK r : RunOK(r, readings') /\ runs' = [runs EXCEPT ![s] = r]
    BY <1>1, <1>5, <2>1, ToldRun DEF PostFails, Statuses
  <2> QED BY <1>3, <2>1, <2>2, OneRunSteps DEF SimInv
<1> QED BY <1>4, <1>5

\* No sample is posted: the tank was not fetched, or its probe did not answer.
LEMMA UnpolledRun ==
  ASSUME SimInv, NEW s \in Slots, FetchFails(s) \/ ProbeUnavailable(s)
  PROVE  SimInv'
<1>1. runs[s].pc = "fetch" /\ UNCHANGED <<config, gauge, clock, readings>>
  BY DEF FetchFails, ProbeUnavailable
<1>2. PICK status \in {"rejected", "probe-unavailable"} : Told(s, status)
  BY DEF FetchFails, ProbeUnavailable
<1>3. status \in Statuses /\ status # "sent"
  BY DEF Statuses
<1>4. PICK r : RunOK(r, readings') /\ runs' = [runs EXCEPT ![s] = r]
  BY <1>1, <1>2, <1>3, ToldRun
<1> QED BY <1>1, <1>4, OneRunSteps DEF SimInv, SimulatedIsPhysical

LEMMA StartedRun ==
  ASSUME SimInv, NEW s \in Slots, StartRun(s)
  PROVE  SimInv'
<1> DEFINE r == [Idle EXCEPT !.pc = "fetch"]
<1>1. /\ r \in Run /\ r.pc = "fetch" /\ r.tank = 1 /\ r.outcomes = <<>>
  BY IdleRun, TanksOfLine DEF Idle, Run
<1>2. runs' = [runs EXCEPT ![s] = r] /\ UNCHANGED <<config, gauge, clock, readings>>
  BY DEF StartRun
<1> HIDE DEF r
<1>3. RunOK(r, readings)
  BY <1>1, TanksOfLine DEF RunOK
<1> QED BY <1>2, <1>3, OneRunSteps DEF SimInv, SimulatedIsPhysical

LEMMA SimInvInit == SimInit => SimInv
BY DryIsState, IdleRun, SimulatorAssumption DEF SimInit, SimInv, SimulatedIsPhysical

LEMMA SimInvStep ==
  ASSUME SimInv, [SimNext]_simVars
  PROVE  SimInv'
<1>1. CASE Restart
  BY <1>1, DryIsState, IdleRun DEF Restart, SimInv, SimulatedIsPhysical
<1>2. CASE Tick
  <2>1. clock' \in 0..MaxClock
    BY <1>2, SimulatorAssumption DEF Tick, SimInv
  <2>2. UNCHANGED <<config, gauge, runs, readings>>
    BY <1>2 DEF Tick
  <2> QED BY <2>1, <2>2 DEF SimInv, SimulatedIsPhysical
<1>3. CASE UNCHANGED simVars
  BY <1>3 DEF simVars, SimInv, SimulatedIsPhysical
<1> QED BY <1>1, <1>2, <1>3, StartedRun, UnpolledRun, PolledRun, PostedRun DEF SimNext

\* A run that ended told of every tank of the command line, in its order.
LEMMA EndedRunsAreTrue == SimInv => OutcomesAreTrue
<1> SUFFICES ASSUME SimInv, NEW s \in Slots, runs[s].pc = "ended"
             PROVE  LET told == runs[s].outcomes IN
                    /\ [i \in 1..Len(told) |-> told[i].tank] = TankIds
                    /\ \A i \in 1..Len(told) :
                         told[i].status = "sent" =>
                           \E r \in readings : r.tank = told[i].tank /\ r.at = told[i].at
  BY DEF OutcomesAreTrue
<1>1. RunOK(runs[s], readings)
  BY DEF SimInv
<1>2. Len(runs[s].outcomes) = Len(TankIds)
  BY <1>1, TanksOfLine DEF RunOK
<1>3. TankIds = [i \in 1..Len(TankIds) |-> TankIds[i]]
  BY SimulatorAssumption
<1>4. [i \in 1..Len(runs[s].outcomes) |-> runs[s].outcomes[i].tank] = TankIds
  BY <1>1, <1>2, <1>3 DEF RunOK
<1> QED BY <1>1, <1>4 DEF RunOK, IsStored

-----------------------------------------------------------------------------
(* The two clients                                                         *)

LEMMA ClientsInvariant == ClientsSpec => [](ConInv /\ SimInv)
<1>1. ClientsInit => ConInv /\ SimInv
  BY ConInvInit, SimInvInit DEF ClientsInit
<1>2. ASSUME ConInv, SimInv, [ClientsNext]_clientVars
      PROVE  (ConInv /\ SimInv)'
  <2>1. [ConNext]_conVars /\ [SimNext]_simVars
    BY <1>2 DEF ClientsNext, clientVars
  <2> QED BY <1>2, <2>1, ConInvStep, SimInvStep
<1> QED BY <1>1, <1>2, PTL DEF ClientsSpec

\* What the console and the requests it awaits are made of is what they are
\* declared to be, whatever the user does and in whatever order answers arrive.
THEOREM ConTypeCorrect == ClientsSpec => []ConTypeOK
BY ClientsInvariant, ConInvTypes, PTL

\* No answer of an earlier sign-in opens a session: one connect at most awaits
\* an answer, that of the key submitted last.
THEOREM SessionsAreOfLastKey == ClientsSpec => []SessionIsOfLastKey
<1>1. ConInv => SessionIsOfLastKey
  BY DEF ConInv, SessionInv
<1> QED BY <1>1, ClientsInvariant, PTL

\* A page at rest shows the record of its address, read with the key of the
\* session and after the last change the user saved there.
THEOREM PagesSettle == ClientsSpec => []SettledIsCurrent
<1>1. ConInv => SettledIsCurrent
  BY DEF ConInv, LoadInv
<1> QED BY <1>1, ClientsInvariant, PTL

\* A page never goes back to an older version of a record: one request is
\* awaited, and it is read after what is shown.
THEOREM PagesNeverGoBack == ClientsSpec => ShownNeverGoesBack
<1>1. ConInv /\ [ClientsNext]_clientVars => [ShownKept]_conVars
  <2> SUFFICES ASSUME ConInv, [ClientsNext]_clientVars PROVE ShownKept
    OBVIOUS
  <2>1. [ConNext]_conVars
    BY DEF ClientsNext, clientVars
  <2> QED BY <2>1, ConInvStep
<1> QED BY <1>1, ClientsInvariant, PTL DEF ClientsSpec, ShownNeverGoesBack, ShownKept

\* No button is refused for its scope, and no form of the fleet for what was
\* typed, whatever the keys may do and whatever was typed.
THEOREM OffersAreAccepted == ClientsSpec => []OfferedIsAccepted
<1>1. ConInv => OfferedIsAccepted
  BY DEF ConInv, SaveInv, SaveUnderWay, OfferedIsAccepted
<1> QED BY <1>1, ClientsInvariant, PTL

\* The outcomes of a run tell of every tank, in their order, and what they call
\* sent is stored, however runs overlap and whatever fails.
THEOREM RunsTellTheTruth == ClientsSpec => []OutcomesAreTrue
BY ClientsInvariant, EndedRunsAreTrue, PTL

\* A reading of the simulator is one the platform calls invalid only by rounding
\* the level of a full tank whose height is no whole number of hundredths, for any
\* tank, scenario and noise.
THEOREM SimulatedStaysPhysical == ClientsSpec => []SimulatedIsPhysical
<1>1. SimInv => SimulatedIsPhysical
  BY DEF SimInv
<1> QED BY <1>1, ClientsInvariant, PTL
=============================================================================
