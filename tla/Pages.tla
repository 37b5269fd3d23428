-------------------------------- MODULE Pages --------------------------------
(***************************************************************************)
(* The pages of the console, one definition per component of pages/: what  *)
(* a page loads, which of its loads depend on the address (a record, or a  *)
(* filter), when it asks for a load again, and the saves it offers.  A     *)
(* save names the scope its button asks for, the load its form is filled   *)
(* from, the loads it asks for again once it was answered, and the page it *)
(* then leads to.                                                          *)
(*                                                                         *)
(* The second half are the routes of the API that the console calls, and   *)
(* the scope each one requires.                                            *)
(***************************************************************************)
CONSTANT Nil

\* loads, those that vary with the address, those a timer, a button or a
\* retry after an error asks for again, and the saves.
Page(loads, varies, polled, buttons, retries, saves) ==
  [loads |-> loads, varies |-> varies, polled |-> polled, buttons |-> buttons,
   retries |-> retries, saves |-> saves]

Save(op, scope, needs, reloads, leads) ==
  [op |-> op, scope |-> scope, needs |-> needs, reloads |-> reloads, leads |-> leads]

DashboardPage == Page({"dashboard"}, {}, {"dashboard"}, {"dashboard"}, {"dashboard"}, {})

\* The form of a new station is also open at /stations?new=1, whatever the scopes.
StationsPage ==
  Page({"stations"}, {}, {}, {"stations"}, {"stations"},
       {Save("createStation", "stations:write", Nil, {"stations"}, "station"),
        Save("createStation", Nil, Nil, {"stations"}, "station"),
        Save("updateStation", "stations:write", "stations", {"stations"}, Nil)})

StationPage ==
  Page({"station", "stationTanks"}, {"station", "stationTanks"}, {}, {}, {"station"},
       {Save("updateStation", "stations:write", "station", {"station"}, Nil),
        Save("createTank", "tanks:write", "station", {"stationTanks"}, "tank")})

TanksPage ==
  Page({"tankStations", "tanks"}, {"tanks"}, {}, {"tanks"}, {"tanks"},
       {Save("createTank", "tanks:write", "tankStations", {"tanks"}, "tank")})

\* A poll goes on while the summary is no error.
TankPage ==
  Page({"summary", "tankReadings", "series"}, {"summary", "tankReadings", "series"},
       {"summary"}, {}, {"summary"},
       {Save("updateTank", "tanks:write", "summary", {"summary"}, Nil),
        Save("recordDip", "readings:write", "summary", {"summary", "tankReadings", "series"}, Nil)})

DevicesPage ==
  Page({"devices"}, {}, {}, {}, {"devices"},
       {Save("registerDevice", "devices:write", Nil, {"devices"}, Nil)})

DevicePage ==
  Page({"device", "deviceTanks"}, {"device"}, {}, {}, {},
       {Save("assignDevice", "devices:write", "device", {"device"}, Nil),
        Save("unassignDevice", "devices:write", "device", {"device"}, Nil)})

ReadingsPage == Page({"readingTanks", "readings"}, {"readings"}, {}, {"readings"}, {"readings"}, {})

DeliveriesPage == Page({"deliveries"}, {}, {}, {}, {"deliveries"}, {})

\* The two buttons of CandidateCard.
Decisions ==
  {Save(op, "events:write", "events", {"events", "reconciliation"}, Nil) :
     op \in {"confirmEvent", "rejectEvent"}}

ReconciliationPage ==
  Page({"events", "reconciliation"}, {}, {}, {}, {"reconciliation"}, Decisions)

AlertsPage ==
  Page({"alerts"}, {"alerts"}, {}, {"alerts"}, {},
       {Save(op, "alerts:write", "alerts", {"alerts"}, Nil) :
          op \in {"acknowledgeAlert", "resolveAlert", "assignAlert"}})

\* The export of a report only reads.
ReportsPage == Page({"report"}, {"report"}, {}, {"report"}, {"report"}, {})

SettingsPage == Page({"audit"}, {}, {}, {"audit"}, {}, {})

\* parsePath: the page of an address.  What it does not know shows nothing.
Pages ==
  [dashboard |-> DashboardPage, stations |-> StationsPage, station |-> StationPage,
   tanks |-> TanksPage, tank |-> TankPage, devices |-> DevicesPage, device |-> DevicePage,
   readings |-> ReadingsPage, deliveries |-> DeliveriesPage,
   reconciliation |-> ReconciliationPage, alerts |-> AlertsPage, reports |-> ReportsPage,
   settings |-> SettingsPage, notFound |-> Page({}, {}, {}, {}, {}, {})]

Loads == UNION {Pages[p].loads : p \in DOMAIN Pages}
Saves == UNION {Pages[p].saves : p \in DOMAIN Pages}
Ops == {s.op : s \in Saves}

-----------------------------------------------------------------------------

\* The route a load reads from.
ReadRoute ==
  [dashboard |-> "dashboard", stations |-> "stations", tankStations |-> "stations",
   station |-> "stations", stationTanks |-> "tanks", tanks |-> "tanks", deviceTanks |-> "tanks",
   readingTanks |-> "tanks", summary |-> "tanks", series |-> "readings",
   tankReadings |-> "readings", readings |-> "readings", devices |-> "devices",
   device |-> "devices", events |-> "events", deliveries |-> "deliveries",
   reconciliation |-> "reports", report |-> "reports", alerts |-> "alerts", audit |-> "audit"]

\* The handlers of routes/*.ts, by the scope they require.
StationWrites == {"createStation", "updateStation"}
TankWrites == {"createTank", "updateTank"}
ReadingWrites == {"recordDip"}
DeviceWrites == {"registerDevice", "assignDevice", "unassignDevice"}
EventWrites == {"confirmEvent", "rejectEvent"}
AlertWrites == {"acknowledgeAlert", "resolveAlert", "assignAlert"}

WriteScope(op) ==
  CASE op \in StationWrites -> "stations:write"
    [] op \in TankWrites -> "tanks:write"
    [] op \in ReadingWrites -> "readings:write"
    [] op \in DeviceWrites -> "devices:write"
    [] op \in EventWrites -> "events:write"
    [] op \in AlertWrites -> "alerts:write"

ReadScope(load) ==
  [dashboard |-> "dashboard:read", stations |-> "stations:read", tanks |-> "tanks:read",
   readings |-> "readings:read", devices |-> "devices:read", events |-> "events:read",
   deliveries |-> "deliveries:read", reports |-> "reports:read", alerts |-> "alerts:read",
   audit |-> "audit:read"][ReadRoute[load]]

===============================================================================
