----------------------------- MODULE Credentials -----------------------------
(***************************************************************************)
(* The credentials of the API: the rows of api_keys, which operators       *)
(* provision and revoke while requests are under way, and the status of    *)
(* the store (does it hold a key anybody could use?) that explains a       *)
(* refusal and is kept for StatusTtl in the memory of one process.         *)
(*                                                                         *)
(* A key is known by the hash of its secret, so a key and its hash are one *)
(* here.  Time is that of RateLimiter, in its ticks.                       *)
(***************************************************************************)
EXTENDS RateLimiter

CONSTANTS
  StatusTtl,    \* ttlMs of createCachedCredentialStatus
  QueryTicks    \* bound on the time countUsable takes

State == {"ready", "empty", "unavailable"}
KeyRow == [active: BOOLEAN, expiresAt: 0..Horizon \union {Nil}]
Status == [at: 0..Horizon, state: State]
Query == [since: 0..Horizon, state: State \union {Nil}]

ASSUME CredentialsAssumption ==
  /\ StatusTtl \in Nat \ {0}
  /\ QueryTicks \in Nat
  /\ Nil \notin Nat \union State \union KeyRow \union Status \union Query

VARIABLES
  store,     \* store[k]: the row of key k
  cached,    \* the status last read, and when its query was answered
  query,     \* the countUsable in flight
  revoked,   \* history: the keys that were revoked
  turned     \* history: when the store last became ready, or empty

credVars == <<store, cached, query, revoked, turned>>

CredTypeOK ==
  /\ store \in [Keys -> KeyRow \union {Nil}]
  /\ cached \in Status \union {Nil}
  /\ query \in Query \union {Nil}
  /\ revoked \subseteq Keys
  /\ turned \in 0..Horizon \union {Nil}

\* isApiKeyUsable
Usable(row, at) ==
  /\ row # Nil
  /\ row.active
  /\ row.expiresAt # Nil => row.expiresAt > at

\* What countUsable would find.
StateOf(rows, at) == IF \E k \in Keys : Usable(rows[k], at) THEN "ready" ELSE "empty"

Turned(rows, at) == IF StateOf(rows, at) = StateOf(store, now) THEN turned ELSE at

CredInit ==
  /\ store = [k \in Keys |-> Nil]
  /\ cached = Nil
  /\ query = Nil
  /\ revoked = {}
  /\ turned = Nil

-----------------------------------------------------------------------------

\* The clock; a query does not outlive QueryTicks.
CredTick ==
  /\ query # Nil => now - query.since < QueryTicks
  /\ Tick
  /\ turned' = Turned(store, now + 1)
  /\ UNCHANGED <<store, cached, query, revoked>>

\* key:provision, or the seed of a start: generateApiKey, then save.
Provision(k, expiresAt) ==
  /\ store[k] = Nil
  /\ expiresAt # Nil => expiresAt > now
  /\ store' = [store EXCEPT ![k] = [active |-> TRUE, expiresAt |-> expiresAt]]
  /\ turned' = Turned(store', now)
  /\ UNCHANGED <<rlVars, cached, query, revoked>>

Revoke(k) ==
  /\ store[k] # Nil
  /\ store' = [store EXCEPT ![k].active = FALSE]
  /\ revoked' = revoked \union {k}
  /\ turned' = Turned(store', now)
  /\ UNCHANGED <<rlVars, cached, query>>

\* Mutant: the status is never read again.
FreshForEver == cached # Nil
\* The status that can be reused.
Fresh == cached # Nil /\ now - cached.at < StatusTtl

\* Whoever finds no fresh status waits for the query in flight, or starts it.
Inquire ==
  query' = IF query = Nil THEN [since |-> now, state |-> Nil] ELSE query

\* inspectCredentialStore never throws: a query that fails is "unavailable".
CountUsable ==
  /\ query # Nil
  /\ query.state = Nil
  /\ \E state \in {StateOf(store, now), "unavailable"} : query' = [query EXCEPT !.state = state]
  /\ UNCHANGED <<rlVars, store, cached, revoked, turned>>

\* The answer arrives: kept from now on, whatever it is, even a failure.
KeepStatus ==
  /\ query # Nil
  /\ query.state # Nil
  /\ cached' = [at |-> now, state |-> query.state]
  /\ query' = Nil

\* The process ends, and with it what it remembers.
Forget ==
  /\ cached' = Nil
  /\ query' = Nil
  /\ windows' = [k \in Keys |-> Nil]
  /\ allowed' = {}
  /\ refused' = [k \in Keys |-> Nil]
  /\ UNCHANGED <<now, store, revoked, turned>>
=============================================================================
