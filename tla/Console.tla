------------------------------- MODULE Console -------------------------------
(***************************************************************************)
(* The web application at work: a session that is checked, opened and      *)
(* closed (SessionProvider), an address, the page of that address, and the *)
(* loads and saves of the page (useResource and the handlers of pages/).   *)
(*                                                                         *)
(* The loads of a page share no state, so one of them is watched, any of   *)
(* them; and a record is its version, the number of changes the platform   *)
(* had made when it was read.  A request that useResource no longer waits  *)
(* for changes nothing, so it is forgotten; so is a save that nothing in   *)
(* the console waits for, whose change is then one of the others'.  Time,  *)
(* layout, toasts and the health of the API are left out.                  *)
(***************************************************************************)
EXTENDS Forms, Pages, FiniteSets

CONSTANTS
  Keys,        \* the API keys a user of this tab may hold
  Granted,     \* Granted[k]: the scopes of key k
  Ids,         \* the records, or filters, an address may name
  MaxChanges,  \* bound on the changes of the platform
  MaxConnects  \* bound on the keys submitted

ASSUME ConsoleAssumption ==
  /\ Granted \in [Keys -> SUBSET STRING]
  /\ Nil \notin Keys \union Ids \union Loads
  /\ MaxChanges \in Nat /\ MaxConnects \in Nat

VARIABLES
  session,     \* what SessionProvider holds
  attempts,    \* its connects that await an answer
  stored,      \* the key in sessionStorage
  submitted,   \* history: the key last submitted, and how many were
  route,       \* the page and the record of the address
  watch,       \* the load that is watched, Nil where the page has none
  shown,       \* the state of its useResource
  requests,    \* its request that is awaited
  save,        \* the save under way
  now,         \* the version of the platform
  since        \* history: the version when the watched load was last asked for again

sessionVars == <<session, attempts, stored, submitted>>
loadVars == <<watch, shown, requests, since>>
conVars == <<sessionVars, route, loadVars, save, now>>

Version == 0..MaxChanges
Addresses(page) == IF Pages[page].varies = {} THEN {Nil} ELSE Ids
Routes == {r \in [page: DOMAIN Pages, id: Ids \union {Nil}] : r.id \in Addresses(r.page)}

Record == [of: Ids \union {Nil}, by: Keys, at: Version]
Request == [of: Ids \union {Nil}, by: Keys, at: Version \union {Nil}]
SaveUnderWay ==
  [op: Ops, by: Keys, scope: {s.scope : s \in Saves}, known: BOOLEAN, fits: BOOLEAN,
   reloads: BOOLEAN, leads: {s.leads : s \in Saves},
   pc: {"sent", "done", "forbidden", "invalid", "refused"}]

ConTypeOK ==
  /\ session \in [status: {"checking", "ready", "signed-out", "error"}, key: Keys \union {Nil},
                  known: BOOLEAN]
  /\ attempts \subseteq [key: Keys, at: {"session", "stations"}]
  /\ stored \in Keys \union {Nil}
  /\ submitted \in [key: Keys \union {Nil}, count: 0..MaxConnects]
  /\ route \in Routes
  /\ watch \in Pages[route.page].loads \union {Nil}
  /\ shown \in [status: {"loading", "ready", "error"}, data: Record \union {Nil}]
  /\ requests \subseteq Request
  /\ save \in SaveUnderWay \union {Nil}
  /\ now \in Version
  /\ since \in Version

-----------------------------------------------------------------------------
(* useResource                                                             *)

Blank == [status |-> "loading", data |-> Nil]

\* Mutant: the request awaited before is not dropped.
AskKeeping(id, key) ==
  /\ shown' = [shown EXCEPT !.status = IF shown.data = Nil THEN "loading" ELSE @]
  /\ requests' = requests \union {[of |-> id, by |-> key, at |-> Nil]}

\* The effect: it keeps what is shown, drops the request it awaited, and asks.
Ask(id, key) ==
  /\ shown' = [shown EXCEPT !.status = IF shown.data = Nil THEN "loading" ELSE @]
  /\ requests' = {[of |-> id, by |-> key, at |-> Nil]}

Unmounted ==
  /\ watch' = Nil
  /\ shown' = Blank
  /\ requests' = {}
  /\ since' = now

\* A page comes to the screen; any of its loads is the one that is watched.
Mount(page, id, key) ==
  IF Pages[page].loads = {} THEN Unmounted
  ELSE /\ watch' \in Pages[page].loads
       /\ shown' = Blank
       /\ requests' = {[of |-> id, by |-> key, at |-> Nil]}
       /\ since' = now

\* The page stays and the address changes.
Move(id) ==
  /\ UNCHANGED watch
  /\ IF watch \in Pages[route.page].varies
     THEN Ask(id, session.key) /\ since' = now
     ELSE UNCHANGED <<shown, requests, since>>

\* A save that only a page waits for, once the page is gone.
Orphaned(s) ==
  IF s = Nil \/ s.leads = Nil THEN Nil
  ELSE [s EXCEPT !.reloads = FALSE]

Go(r) ==
  /\ route' = r
  /\ IF session.status # "ready" THEN UNCHANGED loadVars
     ELSE IF r.page = route.page THEN Move(r.id)
     ELSE Mount(r.page, r.id, session.key)

HasScope(scope) == session.known => scope \in Granted[session.key]

\* SettingsPage asks for no audit log it may not read.
MayRead(q) == ReadScope(watch) \in Granted[q.by] \/ (watch = "audit" /\ ~HasScope("audit:read"))

-----------------------------------------------------------------------------
(* The session                                                             *)

Attempt(k) == attempts' = {[key |-> k, at |-> "session"]}

\* Mutant: the button of the gate is not disabled while a key is checked.
ConnectWhileChecking(k) ==
  /\ session.status # "ready"
  /\ submitted.count < MaxConnects
  /\ session' = [session EXCEPT !.status = "checking"]
  /\ submitted' = [key |-> k, count |-> submitted.count + 1]
  /\ attempts' = attempts \union {[key |-> k, at |-> "session"]}
  /\ UNCHANGED <<stored, route, loadVars, save, now>>

\* The form of Gate.
Connect(k) ==
  /\ session.status \in {"signed-out", "error"}
  /\ submitted.count < MaxConnects
  /\ session' = [session EXCEPT !.status = "checking"]
  /\ submitted' = [key |-> k, count |-> submitted.count + 1]
  /\ Attempt(k)
  /\ UNCHANGED <<stored, route, loadVars, save, now>>

\* The console opens with the page of its address.
Opened(a, known) ==
  /\ session' = [status |-> "ready", key |-> a.key, known |-> known]
  /\ stored' = a.key
  /\ attempts' = attempts \ {a}
  /\ Mount(route.page, route.id, a.key)
  /\ UNCHANGED <<submitted, route, save, now>>

\* The API answers GET /v1/session.
SessionAnswered(a) ==
  /\ a.at = "session"
  /\ Opened(a, TRUE)

\* It has no such route: whether it lists the stations decides.
SessionMissing(a) ==
  /\ a.at = "session"
  /\ attempts' = (attempts \ {a}) \union {[a EXCEPT !.at = "stations"]}
  /\ UNCHANGED <<session, stored, submitted, route, loadVars, save, now>>

StationsAnswered(a) ==
  /\ a.at = "stations"
  /\ "stations:read" \in Granted[a.key]
  /\ Opened(a, FALSE)

\* A refusal, or no answer, at either request.
ConnectFails(a) ==
  /\ session' = [session EXCEPT !.status = "error"]
  /\ attempts' = attempts \ {a}
  /\ UNCHANGED <<stored, submitted, route, loadVars, save, now>>

Disconnect ==
  /\ session.status = "ready"
  /\ session' = [status |-> "signed-out", key |-> Nil, known |-> FALSE]
  /\ stored' = Nil
  /\ submitted' = [submitted EXCEPT !.key = Nil]
  /\ Unmounted
  /\ save' = Orphaned(save)
  /\ UNCHANGED <<attempts, route, now>>

\* The tab is loaded again, and the first effect connects with the stored key.
BrowserReload ==
  /\ submitted.count < MaxConnects
  /\ session' = [status |-> IF stored = Nil THEN "signed-out" ELSE "checking",
                 key |-> Nil, known |-> FALSE]
  /\ IF stored = Nil THEN attempts' = {} ELSE Attempt(stored)
  /\ submitted' = [key |-> stored, count |-> submitted.count + 1]
  /\ Unmounted
  /\ save' = Nil
  /\ UNCHANGED <<stored, route, now>>

-----------------------------------------------------------------------------
(* The page                                                                *)

\* A link, the history of the browser, or a filter.
Navigate(r) ==
  /\ r # route
  /\ Go(r)
  /\ save' = IF r.page = route.page THEN save ELSE Orphaned(save)
  /\ UNCHANGED <<sessionVars, now>>

\* A timer, a button, or a retry after an error.
Reload ==
  /\ watch # Nil
  /\ LET page == Pages[route.page] IN
     \/ watch \in page.polled /\ shown.status # "error"
     \/ watch \in page.buttons
     \/ watch \in page.retries /\ shown.status = "error"
  /\ Ask(route.id, session.key)
  /\ UNCHANGED <<sessionVars, route, watch, save, now, since>>

\* The API reads for a request.
Read(q) ==
  /\ q.at = Nil
  /\ MayRead(q)
  /\ requests' = (requests \ {q}) \union {[q EXCEPT !.at = now]}
  /\ UNCHANGED <<sessionVars, route, watch, shown, save, now, since>>

Deliver(q) ==
  /\ q.at # Nil
  /\ shown' = [status |-> "ready", data |-> q]
  /\ requests' = requests \ {q}
  /\ UNCHANGED <<sessionVars, route, watch, save, now, since>>

\* A refusal, or no answer.
RequestFails(q) ==
  /\ shown' = [status |-> "error", data |-> Nil]
  /\ requests' = requests \ {q}
  /\ UNCHANGED <<sessionVars, route, watch, save, now, since>>

-----------------------------------------------------------------------------
(* The saves                                                               *)

Offered(s) == s.scope = Nil \/ HasScope(s.scope)

\* A form is let through, or a button is pressed.  The watched load tells
\* whether the data a save needs are there, when it is the one it needs.
Submit(s) ==
  /\ session.status = "ready"
  /\ save = Nil
  /\ Offered(s)
  /\ s.needs = watch => shown.data # Nil
  /\ \E fits \in IF s.op \in DOMAIN Submitted THEN Submitted[s.op] ELSE BOOLEAN :
       save' = [op |-> s.op, by |-> session.key, scope |-> s.scope, known |-> session.known,
                fits |-> fits, reloads |-> watch \in s.reloads, leads |-> s.leads, pc |-> "sent"]
  /\ UNCHANGED <<sessionVars, route, loadVars, now>>

\* The hooks of the route, its schema, and the service.
ServerSaves ==
  /\ save # Nil /\ save.pc = "sent"
  /\ IF WriteScope(save.op) \notin Granted[save.by]
     THEN save' = [save EXCEPT !.pc = "forbidden"] /\ UNCHANGED now
     ELSE IF ~save.fits
     THEN save' = [save EXCEPT !.pc = "invalid"] /\ UNCHANGED now
     ELSE \/ /\ now < MaxChanges
             /\ now' = now + 1
             /\ save' = [save EXCEPT !.pc = "done"]
          \/ save' = [save EXCEPT !.pc = "refused"] /\ UNCHANGED now
  /\ UNCHANGED <<sessionVars, route, loadVars>>

\* Mutant: a handler forgets to ask for what it changed again.
SavedForgetful ==
  /\ save # Nil /\ save.pc = "done"
  /\ save' = Nil
  /\ IF save.leads # Nil
     THEN \E r \in Routes \ {route} : r.page = save.leads /\ Go(r)
     ELSE UNCHANGED <<route, watch, shown, requests>>
          /\ since' = IF save.reloads THEN now ELSE since
  /\ UNCHANGED <<sessionVars, now>>

\* The answer: the page asks again for what it changed, and a creation leads
\* to what was created, wherever the user is by then.
Saved ==
  /\ save # Nil /\ save.pc = "done"
  /\ save' = Nil
  /\ IF save.leads # Nil
     THEN \E r \in Routes \ {route} : r.page = save.leads /\ Go(r)
     ELSE /\ UNCHANGED <<route, watch>>
          /\ IF save.reloads
             THEN Ask(route.id, session.key) /\ since' = now
             ELSE UNCHANGED <<shown, requests, since>>
  /\ UNCHANGED <<sessionVars, now>>

\* The answer is a refusal, or none arrives although the save may have happened.
SaveFails ==
  /\ save # Nil
  /\ save' = Nil
  /\ UNCHANGED <<sessionVars, route, loadVars, now>>

\* Anybody else changes what is shown.
OthersChange ==
  /\ now < MaxChanges
  /\ now' = now + 1
  /\ UNCHANGED <<sessionVars, route, loadVars, save>>

-----------------------------------------------------------------------------

ConInit ==
  /\ session = [status |-> "signed-out", key |-> Nil, known |-> FALSE]
  /\ attempts = {}
  /\ stored = Nil
  /\ submitted = [key |-> Nil, count |-> 0]
  /\ route \in Routes
  /\ watch = Nil
  /\ shown = Blank
  /\ requests = {}
  /\ save = Nil
  /\ now = 0
  /\ since = 0

SessionStep ==
  \/ \E k \in Keys : Connect(k)
  \/ \E a \in attempts : SessionAnswered(a) \/ SessionMissing(a) \/ StationsAnswered(a)
                         \/ ConnectFails(a)
  \/ Disconnect
  \/ BrowserReload

PageStep ==
  \/ \E r \in Routes : Navigate(r)
  \/ Reload
  \/ \E q \in requests : Read(q) \/ Deliver(q) \/ RequestFails(q)

SaveStep ==
  \/ \E s \in Pages[route.page].saves : Submit(s)
  \/ ServerSaves
  \/ Saved
  \/ SaveFails

ConNext == SessionStep \/ PageStep \/ SaveStep \/ OthersChange

ConSpec == ConInit /\ [][ConNext]_conVars

-----------------------------------------------------------------------------

(* The console works with the key that was submitted last, and the tab     *)
(* keeps that key or none: no answer of an earlier sign-in opens a session *)
(* after the user submitted another key or signed out (providers.tsx).     *)
SessionIsOfLastKey ==
  /\ session.status = "ready" => session.key = submitted.key /\ stored = session.key
  /\ session.status = "signed-out" => stored = Nil /\ attempts = {}

(* Of one record, a page never goes back to an older version than it has   *)
(* shown, however late the answers to its polls and retries (data.tsx).    *)
Newer(old, new) ==
  old # Nil /\ new # Nil /\ old.of = new.of /\ old.by = new.by => old.at <= new.at

ShownNeverGoesBack == [][Newer(shown.data, shown'.data)]_conVars

(* A page that awaits nothing shows the record its address names, read     *)
(* with the key of the session, and no older than the last change the user *)
(* saved there (data.tsx, and the reloads of the handlers of pages/).      *)
SettledIsCurrent ==
  shown.status = "ready" /\ requests = {} =>
    /\ shown.data.by = session.key
    /\ watch \in Pages[route.page].varies => shown.data.of = route.id
    /\ shown.data.at >= since

(* What the console offers to a key whose scopes it knows is not refused   *)
(* for its scope, but for the form that an address opens; and what a form  *)
(* of the fleet lets through is not refused for what was typed             *)
(* (fleet-forms.ts against schemas.ts, hasScope against the routes).       *)
FleetForms == {"createStation", "updateStation", "createTank", "updateTank", "registerDevice"}

OfferedIsAccepted ==
  save # Nil =>
    /\ save.pc = "forbidden" => ~save.known \/ save.scope = Nil
    /\ save.pc = "invalid" => save.op \notin FleetForms

===============================================================================
