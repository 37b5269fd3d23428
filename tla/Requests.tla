------------------------------- MODULE Requests -------------------------------
(***************************************************************************)
(* A request to the API: the hooks and the handler of a route, in their    *)
(* order, over the credentials and the limiter of a process.  A request    *)
(* presents a key (or none, or one that is malformed), is refused or       *)
(* admitted, takes effect through a service, is audited, and is answered;  *)
(* /healthz is a request without a key.  One action per await.             *)
(*                                                                         *)
(* What a service does is the subject of other modules: here it refuses,   *)
(* reads, or begins to write and then completes or stops on the way.  The  *)
(* server's second limiter, of ingestion, is an operator's option with a   *)
(* default: it counts per key as the first, and a request it turns away is *)
(* among those a service refuses here.  Its third, of refused keys, is     *)
(* given by neither entry point, so there is none.  Left out: CORS and     *)
(* static files.                                                           *)
(***************************************************************************)
EXTENDS Credentials

CONSTANTS
  Slots,        \* requests that may be under way at the same time
  Expiries,     \* when a key may expire, Nil: never
  MaxRequests   \* bound on the requests

Unknown == "unknown"  \* a key of no row; one that is empty or too long is not looked up

ASSUME RequestsAssumption ==
  /\ Expiries \subseteq 0..Horizon \union {Nil}
  /\ MaxRequests \in Nat
  /\ Unknown \notin Keys \union {Nil}

VARIABLES
  req,       \* req[s]: the request in slot s
  served     \* how many requests arrived

reqVars == <<req, served>>
allVars == <<rlVars, credVars, reqVars>>

Kinds == {"call", "health"}

\* The pc of a request names what it awaits.
ReqPc == {"idle", "lookup", "touch", "admit", "status", "ready", "schema", "effect",
          "writes", "audit"}

Answers == {"none", "done", "read", "unauthorized", "not_provisioned", "rate_limited", "refused",
            "internal_error", "ok", "degraded", "lost"}

\* No write of the service is under way yet; some of its writes may be stored, or
\* all of them; or the service has returned, and everything is.
Effects == {"none", "begun", "complete"}

Request == [pc: ReqPc, key: Keys \union {Unknown, Nil},
            kind: Kinds,
            down: BOOLEAN,               \* its probe found the database down
            told: State \union {Nil},    \* the status it was given
            effect: Effects,             \* what it wrote
            audited: BOOLEAN,            \* the audit log has an entry of it
            always: BOOLEAN,             \* history: its key was usable ever since it arrived
            late: BOOLEAN,               \* history: its key had been revoked when it arrived
            answer: Answers]

ReqTypeOK ==
  /\ RlTypeOK
  /\ CredTypeOK
  /\ req \in [Slots -> Request]
  /\ served \in 0..MaxRequests

NoRequest == [pc |-> "idle", key |-> Nil, kind |-> "call", down |-> FALSE, told |-> Nil,
              effect |-> "none", audited |-> FALSE, always |-> FALSE, late |-> FALSE,
              answer |-> "none"]

ReqInit ==
  /\ RlInit
  /\ CredInit
  /\ req = [s \in Slots |-> NoRequest]
  /\ served = 0

-----------------------------------------------------------------------------

At(s, pc) == req[s].pc = pc
Goto(s, pc) == req' = [req EXCEPT ![s].pc = pc]

\* What remains of a request that ended; of one whose key was rejected also what
\* it was told, and its history.
Rejections == {"unauthorized", "not_provisioned"}
Ended(r, answer) ==
  LET rejected == answer \in Rejections IN
  [r EXCEPT !.pc = "idle", !.key = Nil, !.kind = "call", !.down = FALSE, !.answer = answer,
            !.told = IF rejected THEN @ ELSE Nil, !.always = @ /\ rejected]

Answer(s, answer) == req' = [req EXCEPT ![s] = Ended(@, answer)]

\* The history of the requests under way, after a change of the rows or the clock.
Followed(rows, at) ==
  [s \in Slots |->
     LET usable == req[s].key \in Keys /\ Usable(rows[req[s].key], at) IN
     IF At(s, "idle") THEN req[s]
     ELSE [req[s] EXCEPT !.always = @ /\ usable]]

-----------------------------------------------------------------------------
(* Authentication                                                          *)

Arrive(s, k, kind) ==
  LET usable == k \in Keys /\ Usable(store[k], now) IN
  /\ At(s, "idle")
  /\ served < MaxRequests
  /\ kind = "health" <=> k = Nil
  /\ served' = served + 1
  /\ req' = [req EXCEPT ![s] =
       [NoRequest EXCEPT !.key = k, !.kind = kind,
                         !.always = usable, !.late = k \in revoked,
                         !.pc = IF kind = "health" THEN "ready" ELSE "lookup"]]
  /\ UNCHANGED <<rlVars, credVars>>

\* rejectPresentedCredential, once it knows the status.
Rejection(state) == IF state = "empty" THEN "not_provisioned" ELSE "unauthorized"

\* What a request does with the status it was given.
Informed(r, state) ==
  IF r.kind = "health"
  THEN [r EXCEPT !.told = state, !.pc = "schema"]
  ELSE Ended([r EXCEPT !.told = state], Rejection(state))

\* The cached status reader: a fresh status at once, or the query.
AskStatus(s, r) ==
  \/ /\ Fresh
     /\ req' = [req EXCEPT ![s] = Informed(r, cached.state)]
     /\ UNCHANGED query
  \/ /\ ~Fresh
     /\ req' = [req EXCEPT ![s] = [r EXCEPT !.pc = "status"]]
     /\ Inquire

\* Mutant: a store known to be empty is not asked.
ResolvesUnlessEmpty(s) ==
  /\ req[s].key \in Keys
  /\ Usable(store[req[s].key], now)
  /\ ~(Fresh /\ cached.state = "empty")
\* findBySecret finds a row that can be used now.
Resolves(s) == req[s].key \in Keys /\ Usable(store[req[s].key], now)

LookupFinds(s) ==
  /\ At(s, "lookup")
  /\ Resolves(s)
  /\ Goto(s, "touch")
  /\ UNCHANGED <<rlVars, credVars, served>>

\* No row, or one that cannot be used now.
LookupMisses(s) ==
  /\ At(s, "lookup")
  /\ ~Resolves(s)
  /\ AskStatus(s, req[s])
  /\ UNCHANGED <<rlVars, store, cached, revoked, turned, served>>

LookupFails(s) ==
  /\ At(s, "lookup")
  /\ Answer(s, "internal_error")
  /\ UNCHANGED <<rlVars, credVars, served>>

\* Mutant: the row that was found is saved again, with its last use.
TouchSaves(s) ==
  /\ At(s, "touch")
  /\ store' = [store EXCEPT ![req[s].key].active = TRUE]
  /\ turned' = Turned(store', now)
  /\ Goto(s, "admit")
  /\ UNCHANGED <<rlVars, cached, query, revoked, served>>

\* touchLastUsed writes last_used_at alone, and may fail.
Touch(s) ==
  /\ At(s, "touch")
  /\ Goto(s, "admit")
  /\ UNCHANGED <<rlVars, credVars, served>>

\* The query is answered: so is everyone who waited for it.
StatusAnswered ==
  /\ KeepStatus
  /\ req' = [s \in Slots |-> IF At(s, "status") THEN Informed(req[s], query.state) ELSE req[s]]
  /\ UNCHANGED <<rlVars, store, revoked, turned, served>>

-----------------------------------------------------------------------------
(* The route                                                               *)

\* The limiter, then requireScopes, then the schema of the route: whether the
\* scopes of the key suffice and the request parses is left open.
Admit(s) ==
  LET k == req[s].key IN
  /\ At(s, "admit")
  /\ \/ OpenWindow(k) \/ CountAttempt(k)
  /\ Goto(s, "effect") \/ Answer(s, "refused")
  /\ UNCHANGED <<credVars, served>>

Throttle(s) ==
  /\ At(s, "admit")
  /\ Refuse(req[s].key)
  /\ Answer(s, "rate_limited")
  /\ UNCHANGED <<credVars, served>>

\* A query is answered, and that of raw messages or of an export is audited
\* first; a service may refuse, or fail, before it writes.
Serve(s) ==
  /\ At(s, "effect")
  /\ \/ \E answer \in {"read", "refused", "internal_error"} : Answer(s, answer)
     \/ Goto(s, "audit")
     \/ req' = [req EXCEPT ![s].effect = "begun", ![s].pc = "writes"]
  /\ UNCHANGED <<rlVars, credVars, served>>

\* The service returns, or it fails at any of its writes; it may still refuse, as
\* ingestion does once it has registered a simulated device.
Write(s) ==
  /\ At(s, "writes")
  /\ \/ \E answer \in {"refused", "internal_error"} : Answer(s, answer)
     \/ req' = [req EXCEPT ![s].effect = "complete", ![s].pc = "audit"]
  /\ UNCHANGED <<rlVars, credVars, served>>

\* What the handler answers once it has recorded what it did.
Success(r) == IF r.effect = "none" THEN "read" ELSE "done"

\* Mutant: the failure of the audit log is not caught.
AuditOrFail(s) ==
  /\ At(s, "audit")
  /\ \/ req' = [req EXCEPT ![s] = Ended([@ EXCEPT !.audited = TRUE], Success(@))]
     \/ Answer(s, "internal_error")
  /\ UNCHANGED <<rlVars, credVars, served>>

\* AuditService.record: the entry is appended, or its failure is swallowed.
Audit(s) ==
  /\ At(s, "audit")
  /\ \E audited \in BOOLEAN :
       req' = [req EXCEPT ![s] = Ended([@ EXCEPT !.audited = audited], Success(@))]
  /\ UNCHANGED <<rlVars, credVars, served>>

-----------------------------------------------------------------------------
(* /healthz                                                                *)

\* The readiness probe, then the status, whether or not the database answers.
ProbeReady(s) ==
  /\ At(s, "ready")
  /\ \E down \in BOOLEAN : AskStatus(s, [req[s] EXCEPT !.down = down])
  /\ UNCHANGED <<rlVars, store, cached, revoked, turned, served>>

\* withTimeout gives up on the status; the query goes on.
StatusTimesOut(s) ==
  /\ At(s, "status")
  /\ req[s].kind = "health"
  /\ req' = [req EXCEPT ![s] = Informed(@, "unavailable")]
  /\ UNCHANGED <<rlVars, credVars, served>>

\* A database that is down, a schema that was not migrated and a store nobody
\* can sign in with are degraded.
ProbeSchema(s) ==
  /\ At(s, "schema")
  /\ \E unmigrated \in BOOLEAN :
       Answer(s, IF req[s].down \/ unmigrated \/ req[s].told # "ready" THEN "degraded" ELSE "ok")
  /\ UNCHANGED <<rlVars, credVars, served>>

-----------------------------------------------------------------------------
(* The process and its operators                                           *)

\* Requests under way are lost, and the process starts again.
Restart ==
  /\ \E s \in Slots : ~At(s, "idle")
  /\ Forget
  /\ req' = [s \in Slots |-> IF At(s, "idle") THEN req[s] ELSE Ended(req[s], "lost")]
  /\ UNCHANGED served

\* The clock and the rows change under the requests.
Outside ==
  /\ \/ CredTick
     \/ \E k \in Keys : Revoke(k)
     \/ \E k \in Keys, t \in Expiries : Provision(k, t)
  /\ req' = Followed(store', now')
  /\ UNCHANGED served

Step(s) ==
  \/ LookupFinds(s) \/ LookupMisses(s) \/ LookupFails(s) \/ Touch(s)
  \/ Admit(s) \/ Throttle(s) \/ Serve(s) \/ Write(s) \/ Audit(s)
  \/ ProbeReady(s) \/ StatusTimesOut(s) \/ ProbeSchema(s)

ReqNext ==
  \/ \E s \in Slots :
       \/ \E k \in Keys \union {Unknown, Nil}, kind \in Kinds : Arrive(s, k, kind)
       \/ Step(s)
  \/ StatusAnswered
  \/ CountUsable /\ UNCHANGED reqVars
  \/ Outside
  \/ Restart

ReqSpec == ReqInit /\ [][ReqNext]_allVars

-----------------------------------------------------------------------------
(* Properties                                                              *)

\* The key itself is verified against the store on every request: a status that
\* is out of date refuses nobody whose key could be used all along.
UsableIsAdmitted ==
  \A s \in Slots : req[s].answer \in Rejections => ~req[s].always

\* A revoked key opens no request any more, for good: a request under way when
\* it is revoked may still be served, and does not bring the key back.
RevokedIsRefused ==
  \A s \in Slots : req[s].late => req[s].effect = "none" /\ req[s].answer # "read"

\* What a refusal or the health report says of the store was true not longer
\* ago than the status is kept and its query takes.
StatusIsRecent ==
  [][\A s \in Slots :
       req[s].told = Nil /\ req'[s].told \in {"ready", "empty"} =>
         \/ req'[s].told = StateOf(store, now)
         \/ turned # Nil /\ now - turned <= StatusTtl + QueryTicks]_allVars

\* What a service completed is answered as done whatever becomes of the audit
\* log, and nothing else is.  A write that may be stored in part is answered as a
\* failure or a refusal of the service itself, so that every other answer means
\* nothing was written; the audit log has no entry of it.
AnswersMatchEffects ==
  \A s \in Slots :
    /\ req[s].audited => req[s].effect # "begun"
    /\ At(s, "idle") /\ req[s].answer # "lost" =>
         /\ req[s].answer = "done" <=> req[s].effect = "complete"
         /\ req[s].effect = "begun" => req[s].answer \in {"refused", "internal_error"}
=============================================================================
