----------------------------- MODULE IngestProofs -----------------------------
(* Theorems about ingestion, for any number of requests, samples, devices  *)
(* and tanks.                                                              *)
EXTENDS Ingest, DevicesProofs

\* What a request knows at each pc.  Attributable: the assignment a hardware
\* sample was checked against is on record, if no longer active.
Attributable(s) ==
  s.source = "device" => \E g \in assigned : g.dev = s.dev /\ g.tank = s.tank

RequestOK(q) ==
  /\ q.pc # "idle" => q.sample \in Sample
  /\ q.pc \in {"device", "registerSimulated", "assignment", "assign", "assigning",
               "markSeen", "marking"} => q.sample.dev \in Devs
  /\ q.pc \in {"assign", "assigning"} => q.sample.source # "device"
  /\ q.pc \in {"lookup", "rawPayload", "append"} => Attributable(q.sample)
  /\ q.pc \in {"markSeen", "marking", "recent", "rules"} => q.row \in RowsOf(q.sample.key)

RequestsOK == \A r \in Requests : RequestOK(req[r])

IngInv == IngTypeOK /\ CallsOK /\ RequestsOK /\ HardwareIsAttributable /\ AnswersAreStored

\* No row of these tables is ever deleted or changed.
Grows == assigned \subseteq assigned' /\ readings \subseteq readings'

-----------------------------------------------------------------------------

\* A request that goes on, alone, with the tables growing.
LEMMA RequestMoves ==
  ASSUME IngInv, NEW r \in Requests, NEW q \in Request, RequestOK(q)',
         req' = [req EXCEPT ![r] = q], Grows
  PROVE  RequestsOK' /\ req' \in [Requests -> Request]
<1>1. req \in [Requests -> Request]
  BY DEF IngInv, IngTypeOK
<1>2. ASSUME NEW o \in Requests PROVE RequestOK(req[o])'
  <2>1. CASE o = r
    <3>1. req'[o] = q
      BY <1>1, <2>1
    <3> QED BY <3>1 DEF RequestOK, RowsOf, Attributable
  <2>2. CASE o # r
    <3>1. req'[o] = req[o] /\ RequestOK(req[o])
      BY <1>1, <2>2 DEF IngInv, RequestsOK
    <3> QED BY <3>1 DEF RequestOK, RowsOf, Attributable, Grows
  <2> QED BY <2>1, <2>2
<1> QED BY <1>1, <1>2 DEF RequestsOK

\* What a request may answer with.
AnswerOK(q) ==
  /\ q.answer = "conflict" => RowsOf(q.sample.key) # {}
  /\ q.answer \in {"created", "duplicate"} => q.reply \in RowsOf(q.sample.key)

LEMMA AnswersStay ==
  ASSUME IngInv, NEW r \in Requests, NEW q \in Request, AnswerOK(q)',
         req' = [req EXCEPT ![r] = q], Grows
  PROVE  AnswersAreStored'
<1>1. req \in [Requests -> Request]
  BY DEF IngInv, IngTypeOK
<1>2. ASSUME NEW o \in Requests PROVE AnswerOK(req[o])'
  <2>1. CASE o = r
    <3>1. req'[o] = q
      BY <1>1, <2>1
    <3> QED BY <3>1 DEF AnswerOK, RowsOf
  <2>2. CASE o # r
    <3>1. req'[o] = req[o] /\ AnswerOK(req[o])
      BY <1>1, <2>2 DEF IngInv, AnswersAreStored, AnswerOK
    <3> QED BY <3>1 DEF AnswerOK, RowsOf, Grows
  <2> QED BY <2>1, <2>2
<1> QED BY <1>2 DEF AnswersAreStored, AnswerOK

\* The table of readings does not change: nor does what it says.
LEMMA LedgerStays ==
  ASSUME IngInv, UNCHANGED readings, assigned \subseteq assigned'
  PROVE  HardwareIsAttributable'
BY DEF IngInv, HardwareIsAttributable

\* A step of a request that writes nothing.
LEMMA Reads ==
  ASSUME IngInv, NEW r \in Requests, NEW q \in Request, RequestOK(q), AnswerOK(q),
         req' = [req EXCEPT ![r] = q],
         UNCHANGED <<devVars, readings, evaluated, sweep>>
  PROVE  IngInv'
<1>1. Grows /\ RequestOK(q)' /\ AnswerOK(q)'
  BY DEF Grows, RequestOK, AnswerOK, RowsOf, Attributable, devVars
<1>2. RequestsOK' /\ req' \in [Requests -> Request]
  BY <1>1, RequestMoves
<1>3. AnswersAreStored' /\ HardwareIsAttributable'
  BY <1>1, AnswersStay, LedgerStays DEF Grows
<1>4. DevInv'
  BY DevInvStutters DEF IngInv, IngTypeOK, DevInv
<1> QED BY <1>2, <1>3, <1>4 DEF IngInv, IngTypeOK, DevInv

\* A step of a call of the registry leaves the rest of ingestion as it was.
LEMMA RegistryMoves ==
  ASSUME IngInv, StepOK, UNCHANGED ingVars
  PROVE  IngInv'
<1>1. assigned \subseteq assigned' /\ UNCHANGED <<readings, req, evaluated, sweep>>
  BY DEF StepOK, ingVars
<1>2. RequestsOK'
  BY <1>1 DEF IngInv, RequestsOK, RequestOK, RowsOf, Attributable
<1>3. AnswersAreStored' /\ HardwareIsAttributable'
  BY <1>1, LedgerStays DEF IngInv, AnswersAreStored, RowsOf
<1> QED BY <1>1, <1>2, <1>3 DEF StepOK, IngInv, IngTypeOK, DevInv

-----------------------------------------------------------------------------
(* Steps of a request that read                                            *)

LEMMA Goes ==
  ASSUME IngInv, NEW r \in Requests, NEW pc \in ReqPc, Goto(r, pc),
         RequestOK([req[r] EXCEPT !.pc = pc]),
         UNCHANGED <<devVars, readings, evaluated, sweep>>
  PROVE  IngInv'
<1> DEFINE q == [req[r] EXCEPT !.pc = pc]
<1>1. q \in Request /\ req' = [req EXCEPT ![r] = q]
  BY DEF Goto, Request, IngInv, IngTypeOK
<1>2. AnswerOK(req[r])
  BY DEF IngInv, AnswersAreStored, AnswerOK
<1>3. AnswerOK(q)
  BY <1>2 DEF AnswerOK, IngInv, IngTypeOK, Request
<1> QED BY <1>1, <1>3, Reads

LEMMA Replies ==
  ASSUME IngInv, NEW r \in Requests,
         NEW answer \in {"none", "created", "duplicate", "conflict", "refused", "lost"},
         NEW row \in Reading \union {Nil}, Reply(r, answer, row),
         answer = "conflict" => RowsOf(req[r].sample.key) # {},
         answer \in {"created", "duplicate"} => row \in RowsOf(req[r].sample.key),
         UNCHANGED <<devVars, readings, evaluated, sweep>>
  PROVE  IngInv'
<1> DEFINE q == Answered(req[r].sample, answer, row)
<1>1. q \in Request /\ req' = [req EXCEPT ![r] = q]
  BY DEF Reply, Answered, Request, ReqPc, IngInv, IngTypeOK
<1>2. RequestOK(q) /\ AnswerOK(q)
  BY DEF Answered, RequestOK, AnswerOK
<1> QED BY <1>1, <1>2, Reads

\* The request at hand, and what RequestOK says of it.
LEMMA AtRequest ==
  ASSUME IngInv, NEW r \in Requests
  PROVE  req[r] \in Request /\ RequestOK(req[r]) /\ r \in Callers
BY IngestAssumption DEF IngInv, IngTypeOK, RequestsOK

LEMMA SubmitStep ==
  ASSUME IngInv, NEW r \in Requests, NEW s \in Samples, Submit(r, s)
  PROVE  IngInv'
<1> DEFINE q == [Answered(s, "none", Nil) EXCEPT !.pc = "tank"]
<1>1. q \in Request /\ req' = [req EXCEPT ![r] = q] /\ s \in Sample
  BY IngestAssumption DEF Submit, Answered, Request, ReqPc
<1>2. RequestOK(q) /\ AnswerOK(q)
  BY <1>1 DEF Answered, RequestOK, AnswerOK
<1> QED BY <1>1, <1>2, Reads DEF Submit

LEMMA FindTankStep ==
  ASSUME IngInv, NEW r \in Requests, FindTank(r)
  PROVE  IngInv'
<1>1. req[r].pc = "tank" /\ req[r].sample \in Sample /\ req[r] \in Request
  BY AtRequest DEF FindTank, At, RequestOK
<1>2. CASE Reply(r, "refused", Nil)
  BY <1>2, Replies DEF FindTank
<1>3. CASE req[r].sample.dev = Nil /\ req[r].sample.source # "device" /\ Goto(r, "lookup")
  <2>1. RequestOK([req[r] EXCEPT !.pc = "lookup"])
    BY <1>1, <1>3 DEF RequestOK, Request, Attributable
  <2> QED BY <1>3, <2>1, Goes DEF FindTank, ReqPc
<1>4. CASE req[r].sample.dev # Nil /\ Goto(r, "device")
  <2>1. RequestOK([req[r] EXCEPT !.pc = "device"])
    BY <1>1, <1>4 DEF RequestOK, Request, Sample
  <2> QED BY <1>4, <2>1, Goes DEF FindTank, ReqPc
<1> QED BY <1>2, <1>3, <1>4 DEF FindTank

LEMMA FindDeviceStep ==
  ASSUME IngInv, NEW r \in Requests, FindDevice(r)
  PROVE  IngInv'
<1> DEFINE s == req[r].sample
<1>1. req[r].pc = "device" /\ s \in Sample /\ req[r] \in Request /\ s.dev \in Devs
  BY AtRequest DEF FindDevice, At, RequestOK
<1>2. CASE Reply(r, "refused", Nil)
  BY <1>2, Replies DEF FindDevice
<1>3. CASE Goto(r, "registerSimulated")
  <2>1. RequestOK([req[r] EXCEPT !.pc = "registerSimulated"])
    BY <1>1 DEF RequestOK, Request
  <2> QED BY <1>3, <2>1, Goes DEF FindDevice, ReqPc
<1>4. CASE Goto(r, AfterDevice(s))
  <2>1. AfterDevice(s) \in ReqPc
    BY DEF AfterDevice, ReqPc
  <2>2. RequestOK([req[r] EXCEPT !.pc = AfterDevice(s)])
    BY <1>1 DEF RequestOK, Request, AfterDevice, Attributable
  <2> QED BY <1>4, <2>1, <2>2, Goes DEF FindDevice
<1> QED BY <1>2, <1>3, <1>4 DEF FindDevice

LEMMA CheckAssignmentStep ==
  ASSUME IngInv, NEW r \in Requests, CheckAssignment(r)
  PROVE  IngInv'
<1> DEFINE s == req[r].sample
<1>1. req[r].pc = "assignment" /\ s \in Sample /\ req[r] \in Request /\ s.dev \in Devs
  BY AtRequest DEF CheckAssignment, At, RequestOK
<1>2. CASE Reply(r, "refused", Nil)
  BY <1>2, Replies DEF CheckAssignment
<1>3. CASE Goto(r, "assign") /\ s.source # "device"
  <2>1. RequestOK([req[r] EXCEPT !.pc = "assign"])
    BY <1>1, <1>3 DEF RequestOK, Request
  <2> QED BY <1>3, <2>1, Goes DEF CheckAssignment, ReqPc
<1>4. CASE Goto(r, "lookup") /\ Attributable(s)
  <2>1. RequestOK([req[r] EXCEPT !.pc = "lookup"])
    BY <1>1, <1>4 DEF RequestOK, Request
  <2> QED BY <1>4, <2>1, Goes DEF CheckAssignment, ReqPc
<1>5. ASSUME NEW a \in FoundActive(s.dev), a # Nil, a.tank = s.tank
      PROVE  Attributable(s)
  BY <1>5 DEF FoundActive, ActiveOf, Attributable
<1>6. s.source # "device" => Attributable(s)
  BY DEF Attributable
<1> QED BY <1>2, <1>3, <1>4, <1>5, <1>6 DEF CheckAssignment

LEMMA AssignReturnsStep ==
  ASSUME IngInv, NEW r \in Requests, AssignReturns(r)
  PROVE  IngInv'
<1>1. req[r].pc = "assigning" /\ req[r] \in Request /\ RequestOK(req[r])
  BY AtRequest DEF AssignReturns, At
<1>2. CASE Reply(r, "refused", Nil)
  BY <1>2, Replies DEF AssignReturns
<1>3. CASE Goto(r, "lookup")
  <2>1. RequestOK([req[r] EXCEPT !.pc = "lookup"])
    BY <1>1 DEF RequestOK, Request, Attributable
  <2> QED BY <1>3, <2>1, Goes DEF AssignReturns, ReqPc
<1> QED BY <1>2, <1>3 DEF AssignReturns

LEMMA LookupKeyStep ==
  ASSUME IngInv, NEW r \in Requests, LookupKey(r)
  PROVE  IngInv'
<1>1. req[r].pc = "lookup" /\ req[r] \in Request /\ RequestOK(req[r])
  BY AtRequest DEF LookupKey, At
<1>2. ASSUME NEW a \in FoundByKey(req[r].sample.key), Reply(r, "duplicate", a)
      PROVE  IngInv'
  <2>1. a \in RowsOf(req[r].sample.key) /\ a \in Reading
    BY <1>2 DEF FoundByKey, RowsOf, IngInv, IngTypeOK
  <2> QED BY <1>2, <2>1, Replies DEF LookupKey
<1>3. CASE Goto(r, "rawPayload")
  <2>1. RequestOK([req[r] EXCEPT !.pc = "rawPayload"])
    BY <1>1 DEF RequestOK, Request
  <2> QED BY <1>3, <2>1, Goes DEF LookupKey, ReqPc
<1> QED BY <1>2, <1>3 DEF LookupKey

LEMMA RetainRawPayloadStep ==
  ASSUME IngInv, NEW r \in Requests, RetainRawPayload(r)
  PROVE  IngInv'
<1>1. req[r].pc = "rawPayload" /\ req[r] \in Request /\ RequestOK(req[r])
  BY AtRequest DEF RetainRawPayload, At
<1>2. RequestOK([req[r] EXCEPT !.pc = "append"])
  BY <1>1 DEF RequestOK, Request
<1> QED BY <1>2, Goes DEF RetainRawPayload, ReqPc

LEMMA MarkReturnsStep ==
  ASSUME IngInv, NEW r \in Requests, MarkReturns(r)
  PROVE  IngInv'
<1>1. req[r].pc = "marking" /\ req[r] \in Request /\ RequestOK(req[r])
  BY AtRequest DEF MarkReturns, At
<1>2. RequestOK([req[r] EXCEPT !.pc = "recent"])
  BY <1>1 DEF RequestOK, Request
<1> QED BY <1>2, Goes DEF MarkReturns, ReqPc

LEMMA ListRecentStep ==
  ASSUME IngInv, NEW r \in Requests, ListRecent(r)
  PROVE  IngInv'
<1> DEFINE q == [req[r] EXCEPT !.pc = "rules", !.ascending = Recent(req[r].sample.tank)]
<1>1. req[r].pc = "recent" /\ req[r] \in Request /\ RequestOK(req[r])
  BY AtRequest DEF ListRecent, At
<1>2. Recent(req[r].sample.tank) \subseteq Reading
  BY DEF Recent, IngInv, IngTypeOK
<1>3. q \in Request /\ RequestOK(q)
  BY <1>1, <1>2 DEF Request, ReqPc, RequestOK
<1>4. req' = [req EXCEPT ![r] = q]
  BY DEF ListRecent, IngInv, IngTypeOK
<1>5. AnswerOK(req[r])
  BY DEF IngInv, AnswersAreStored, AnswerOK
<1>6. AnswerOK(q)
  BY <1>1, <1>5 DEF AnswerOK, Request
<1> QED BY <1>3, <1>4, <1>6, Reads DEF ListRecent

-----------------------------------------------------------------------------
(* Steps of a request that write                                           *)

\* A request moves, with its call of the registry; the ledger stays.
LEMMA Writes ==
  ASSUME IngInv, NEW r \in Requests, NEW q \in Request, RequestOK(q), AnswerOK(q),
         req' = [req EXCEPT ![r] = q], DevInv', assigned \subseteq assigned',
         UNCHANGED <<readings, sweep>>, evaluated' \subseteq Reading
  PROVE  IngInv'
<1>1. Grows /\ RequestOK(q)' /\ AnswerOK(q)'
  BY DEF Grows, RequestOK, AnswerOK, RowsOf, Attributable
<1>2. RequestsOK' /\ req' \in [Requests -> Request]
  BY <1>1, RequestMoves
<1>3. AnswersAreStored' /\ HardwareIsAttributable'
  BY <1>1, AnswersStay, LedgerStays DEF Grows
<1> QED BY <1>2, <1>3 DEF IngInv, IngTypeOK, DevInv

\* The same, going on to pc.
LEMMA GoesOn ==
  ASSUME IngInv, NEW r \in Requests, NEW pc \in ReqPc, Goto(r, pc),
         RequestOK([req[r] EXCEPT !.pc = pc]), DevInv', assigned \subseteq assigned',
         UNCHANGED <<readings, evaluated, sweep>>
  PROVE  IngInv'
<1> DEFINE q == [req[r] EXCEPT !.pc = pc]
<1>1. q \in Request /\ req' = [req EXCEPT ![r] = q]
  BY DEF Goto, Request, IngInv, IngTypeOK
<1>2. AnswerOK(req[r])
  BY DEF IngInv, AnswersAreStored, AnswerOK
<1>3. AnswerOK(q)
  BY <1>2 DEF AnswerOK, IngInv, IngTypeOK, Request
<1>4. evaluated' \subseteq Reading
  BY DEF IngInv, IngTypeOK
<1> QED BY <1>1, <1>3, <1>4, Writes

LEMMA RegisterSimulatedStep ==
  ASSUME IngInv, NEW r \in Requests, RegisterSimulated(r)
  PROVE  IngInv'
<1> DEFINE d == req[r].sample.dev
<1>1. req[r].pc = "registerSimulated" /\ req[r] \in Request /\ RequestOK(req[r]) /\ d \in Devs
  BY AtRequest DEF RegisterSimulated, At, RequestOK
<1>2. CASE Reply(r, "refused", Nil) /\ UNCHANGED device
  BY <1>2, Replies DEF RegisterSimulated, devVars
<1>3. CASE /\ device' = [device EXCEPT ![d] = [serial |-> SimulatedSerial[d], status |-> "active"]]
           /\ Goto(r, "assignment")
  <2>1. [serial |-> SimulatedSerial[d], status |-> "active"] \in DeviceRow
    BY <1>1, IngestAssumption DEF DeviceRow, DeviceStatus
  <2>2. RowsKept /\ DevTypeOK'
    BY <1>1, <1>3, <2>1 DEF RowsKept, RegisterSimulated, IngInv, IngTypeOK, DevTypeOK
  <2>3. CallsOK'
    BY <2>2 DEF IngInv, CallsOK, CallOK, RowsKept, RegisterSimulated
  <2>4. RequestOK([req[r] EXCEPT !.pc = "assignment"])
    BY <1>1 DEF RequestOK, Request
  <2>5. "assignment" \in ReqPc
    BY DEF ReqPc
  <2> QED BY <1>3, <2>2, <2>3, <2>4, <2>5, GoesOn DEF DevInv, RegisterSimulated
<1> QED BY <1>2, <1>3 DEF RegisterSimulated

LEMMA AssignSimulatedStep ==
  ASSUME IngInv, NEW r \in Requests, AssignSimulated(r)
  PROVE  IngInv'
<1>1. req[r].pc = "assign" /\ req[r] \in Request /\ RequestOK(req[r]) /\ r \in Callers
  BY AtRequest DEF AssignSimulated, At
<1>2. req[r].sample.dev \in Devs /\ req[r].sample.tank \in Tanks
  BY <1>1 DEF RequestOK, Sample
<1>3. StepOK
  BY <1>1, <1>2, BeginAssignStep DEF AssignSimulated, IngInv, IngTypeOK, DevInv
<1>4. RequestOK([req[r] EXCEPT !.pc = "assigning"])
  BY <1>1 DEF RequestOK, Request
<1> QED BY <1>3, <1>4, GoesOn DEF AssignSimulated, ReqPc, StepOK

LEMMA MarkSeenStep ==
  ASSUME IngInv, NEW r \in Requests, MarkSeen(r)
  PROVE  IngInv'
<1>1. req[r].pc = "markSeen" /\ req[r] \in Request /\ RequestOK(req[r]) /\ r \in Callers
  BY AtRequest DEF MarkSeen, At
<1>2. StepOK
  BY <1>1, TouchStep DEF MarkSeen, RequestOK, IngInv, IngTypeOK, DevInv
<1>3. RequestOK([req[r] EXCEPT !.pc = "marking"])
  BY <1>1 DEF RequestOK, Request
<1> QED BY <1>2, <1>3, GoesOn DEF MarkSeen, ReqPc, StepOK

LEMMA RunRulesStep ==
  ASSUME IngInv, NEW r \in Requests, RunRules(r)
  PROVE  IngInv'
<1> DEFINE q == Answered(req[r].sample, "created", req[r].row)
<1>1. req[r].pc = "rules" /\ req[r] \in Request /\ req[r].row \in RowsOf(req[r].sample.key)
  BY AtRequest DEF RunRules, At, RequestOK
<1>2. q \in Request /\ req' = [req EXCEPT ![r] = q]
  BY <1>1 DEF RunRules, Reply, Answered, Request, ReqPc
<1>3. RequestOK(q) /\ AnswerOK(q)
  BY <1>1 DEF Answered, RequestOK, AnswerOK
<1>4. DevInv' /\ assigned \subseteq assigned'
  BY DevInvStutters DEF RunRules, devVars, IngInv, IngTypeOK, DevInv
<1>5. evaluated' \subseteq Reading
  BY <1>1 DEF RunRules, Request, IngInv, IngTypeOK
<1> QED BY <1>2, <1>3, <1>4, <1>5, Writes DEF RunRules

LEMMA LoseStep ==
  ASSUME IngInv, NEW r \in Requests, Lose(r)
  PROVE  IngInv'
<1> DEFINE q == Answered(req[r].sample, "lost", Nil)
<1>1. req[r] \in Request /\ r \in Callers
  BY AtRequest
<1>2. q \in Request /\ req' = [req EXCEPT ![r] = q]
  BY <1>1 DEF Lose, Reply, Answered, Request, ReqPc
<1>3. RequestOK(q) /\ AnswerOK(q)
  BY DEF Answered, RequestOK, AnswerOK
<1>4. DevInv' /\ assigned \subseteq assigned'
  <2>1. CASE Crash(r)
    BY <1>1, <2>1, CrashStep DEF StepOK, IngInv, IngTypeOK, DevInv
  <2>2. CASE UNCHANGED devVars
    BY <2>2, DevInvStutters DEF devVars, IngInv, IngTypeOK, DevInv
  <2> QED BY <2>1, <2>2 DEF Lose
<1>5. evaluated' \subseteq Reading
  BY DEF Lose, IngInv, IngTypeOK
<1> QED BY <1>2, <1>3, <1>4, <1>5, Writes DEF Lose

\* What Append does when the row goes in.
Inserts(r, s) ==
  /\ readings' = readings \union {NewRow(s)}
  /\ Stored(r, s)
  /\ UNCHANGED <<devVars, evaluated, sweep>>

LEMMA NewRowIsReading ==
  ASSUME NEW s \in Sample, NewRow(s).id \in 1..MaxReadings
  PROVE  NewRow(s) \in Reading /\ NewRow(s).key = s.key /\ NewRow(s) # Nil
BY IngestAssumption DEF NewRow, Reading, Sample

LEMMA InsertStep ==
  ASSUME IngInv, NEW r \in Requests, req[r].pc = "append", Inserts(r, req[r].sample)
  PROVE  IngInv'
<1> DEFINE s == req[r].sample
           pc == IF s.dev = Nil THEN "recent" ELSE "markSeen"
           q == [req[r] EXCEPT !.pc = pc, !.row = NewRow(s)]
<1>1. req[r] \in Request /\ s \in Sample /\ Attributable(s)
  BY AtRequest DEF RequestOK
<1>2. NewRow(s) \in Reading /\ NewRow(s).key = s.key
  BY <1>1, NewRowIsReading DEF Inserts, Stored
<1>3. q \in Request /\ req' = [req EXCEPT ![r] = q]
  BY <1>1, <1>2 DEF Inserts, Stored, Request, ReqPc, IngInv, IngTypeOK
<1>4. Grows /\ NewRow(s) \in readings'
  BY DEF Inserts, Grows, devVars
<1>5. /\ q.sample = s /\ q.row = NewRow(s) /\ q.pc = pc
      /\ q.answer = req[r].answer /\ q.reply = req[r].reply
  BY <1>1 DEF Request
<1>6. ASSUME NEW k \in Request, k = q PROVE RequestOK(k)' /\ AnswerOK(k)'
  <2>1. AnswerOK(req[r])
    BY DEF IngInv, AnswersAreStored, AnswerOK
  <2>2. AnswerOK(k)'
    BY <1>4, <1>5, <1>6, <2>1 DEF AnswerOK, RowsOf, Grows
  <2>3. RequestOK(k)'
    BY <1>1, <1>2, <1>4, <1>5, <1>6 DEF RequestOK, RowsOf, Sample
  <2> QED BY <2>2, <2>3
<1>7. RequestsOK' /\ req' \in [Requests -> Request] /\ AnswersAreStored'
  BY <1>3, <1>4, <1>6, RequestMoves, AnswersStay
<1>8. HardwareIsAttributable'
  <2>1. NewRow(s).source = s.source /\ NewRow(s).dev = s.dev /\ NewRow(s).tank = s.tank
    BY DEF NewRow
  <2> QED BY <1>1, <2>1 DEF Inserts, IngInv, HardwareIsAttributable, Attributable, devVars
<1>9. DevInv'
  BY DevInvStutters DEF Inserts, IngInv, IngTypeOK, DevInv
<1> QED BY <1>2, <1>7, <1>8, <1>9 DEF Inserts, IngInv, IngTypeOK, DevInv

LEMMA AppendStep ==
  ASSUME IngInv, NEW r \in Requests, Append(r)
  PROVE  IngInv'
<1>1. CASE Inserts(r, req[r].sample)
  BY <1>1, InsertStep DEF Append, At
<1>2. CASE RowsOf(req[r].sample.key) # {} /\ Reply(r, "conflict", Nil) /\ UNCHANGED readings
  BY <1>2, Replies DEF Append
<1> QED BY <1>1, <1>2 DEF Append, Inserts

LEMMA RequestStepOK ==
  ASSUME IngInv, NEW r \in Requests, RequestStep(r)
  PROVE  IngInv'
BY FindTankStep, FindDeviceStep, RegisterSimulatedStep, CheckAssignmentStep, AssignSimulatedStep,
   AssignReturnsStep, LookupKeyStep, RetainRawPayloadStep, AppendStep, MarkSeenStep,
   MarkReturnsStep, ListRecentStep, RunRulesStep, LoseStep DEF RequestStep

-----------------------------------------------------------------------------
(* The sweep and the specification                                         *)

LEMMA SweepOK ==
  ASSUME IngInv, SweepStart \/ \E t \in Tanks : SweepStep(t)
  PROVE  IngInv'
<1>1. UNCHANGED <<devVars, readings, req>>
  BY DEF SweepStart, SweepStep, SweepTank, SweepRules, SweepFails
<1>2. /\ evaluated' \subseteq Reading
      /\ sweep' \in [todo: SUBSET Tanks, tank: Tanks \union {Nil}, ascending: SUBSET Reading]
  <2> DEFINE SweepState == [todo: SUBSET Tanks, tank: Tanks \union {Nil}, ascending: SUBSET Reading]
  <2>1. sweep \in SweepState /\ evaluated \subseteq Reading /\ readings \subseteq Reading
    BY DEF IngInv, IngTypeOK
  <2>2. CASE SweepStart
    BY <2>1, <2>2 DEF SweepStart, Idle
  <2>3. ASSUME NEW t \in Tanks, SweepTank(t) PROVE <1>2!1 /\ <1>2!2
    <3>1. Recent(t) \subseteq Reading
      BY <2>1 DEF Recent
    <3> QED BY <2>1, <2>3, <3>1 DEF SweepTank
  <2>4. ASSUME NEW t \in Tanks, SweepRules(t) \/ SweepFails(t) PROVE <1>2!1 /\ <1>2!2
    BY <2>1, <2>4 DEF SweepRules, SweepFails, NextTank
  <2> QED BY <2>2, <2>3, <2>4 DEF SweepStep
<1>3. DevInv'
  BY <1>1, DevInvStutters DEF IngInv, IngTypeOK, DevInv
<1>4. RequestsOK' /\ AnswersAreStored' /\ HardwareIsAttributable'
  BY <1>1 DEF IngInv, RequestsOK, RequestOK, Attributable, RowsOf, AnswersAreStored,
              HardwareIsAttributable, devVars
<1> QED BY <1>1, <1>2, <1>3, <1>4 DEF IngInv, IngTypeOK, DevInv

LEMMA IngInitOK == IngInit => IngInv
<1> SUFFICES ASSUME IngInit PROVE IngInv
  OBVIOUS
<1>1. DevInv
  BY DevInitOK DEF IngInit
<1>2. IngTypeOK
  BY <1>1 DEF IngInit, IngTypeOK, DevInv, Answered, Request, ReqPc, Idle
<1>3. RequestsOK /\ HardwareIsAttributable /\ AnswersAreStored
  BY DEF IngInit, RequestsOK, RequestOK, Answered, HardwareIsAttributable, AnswersAreStored
<1> QED BY <1>1, <1>2, <1>3 DEF IngInv, DevInv

LEMMA IngNextOK == IngInv /\ [IngNext]_allVars => IngInv'
<1> SUFFICES ASSUME IngInv, [IngNext]_allVars PROVE IngInv'
  OBVIOUS
<1>1. CASE UNCHANGED allVars
  <2>1. StepOK /\ UNCHANGED ingVars
    BY <1>1, DevInvStutters DEF allVars, devVars, ingVars, StepOK, RowsKept, IngInv, IngTypeOK,
                                DevInv
  <2> QED BY <2>1, RegistryMoves
<1>2. ASSUME NEW c \in Callers, Begin(c) \/ Continue(c) \/ Crash(c), UNCHANGED ingVars
      PROVE  IngInv'
  <2>1. StepOK
    BY <1>2, CallerStep DEF IngInv, IngTypeOK, DevInv
  <2> QED BY <1>2, <2>1, RegistryMoves
<1>3. ASSUME NEW r \in Requests, NEW s \in Samples, Submit(r, s) PROVE IngInv'
  BY <1>3, SubmitStep
<1> QED BY <1>1, <1>2, <1>3, RequestStepOK, SweepOK, IngestAssumption DEF IngNext, Admin

LEMMA IngInvHolds == IngSpec => []IngInv
BY IngInitOK, IngNextOK, PTL DEF IngSpec

\* The tables, the requests and the sweep keep their types.
THEOREM IngTypeCorrect == IngSpec => []IngTypeOK
<1>1. IngInv => IngTypeOK
  BY DEF IngInv
<1> QED BY <1>1, IngInvHolds, PTL

\* An answer is never about a row that is not there, whichever adapter stores
\* it, however requests of one sample overlap.
THEOREM AnswersAreTrue == IngSpec => []AnswersAreStored
<1>1. IngInv => AnswersAreStored
  BY DEF IngInv
<1> QED BY <1>1, IngInvHolds, PTL

\* Every hardware reading has the assignment it was accepted under on record.
THEOREM HardwareReadingsAttributable == IngSpec => []HardwareIsAttributable
<1>1. IngInv => HardwareIsAttributable
  BY DEF IngInv
<1> QED BY <1>1, IngInvHolds, PTL

-----------------------------------------------------------------------------
(* The ledger                                                              *)

LEMMA RowsPerKey ==
  ASSUME Database, OneReadingPerKey, NEW r \in Requests, Append(r)
  PROVE  OneReadingPerKey'
BY DEF Append, OneReadingPerKey, RowsOf, NewRow

\* No step but Append touches the readings.
LEMMA ReadingsStay ==
  ASSUME IngInv, [IngNext]_allVars, \A r \in Requests : ~Append(r)
  PROVE  UNCHANGED readings
<1>1. CASE UNCHANGED allVars
  BY <1>1 DEF allVars, ingVars
<1>2. ASSUME NEW r \in Requests, RequestStep(r) PROVE UNCHANGED readings
  BY <1>2 DEF RequestStep, FindTank, FindDevice, RegisterSimulated, CheckAssignment,
     AssignSimulated, AssignReturns, LookupKey, RetainRawPayload, MarkSeen,
     MarkReturns, ListRecent, RunRules, Lose
<1> QED BY <1>1, <1>2 DEF IngNext, Admin, Submit, SweepStart, SweepStep, SweepTank, SweepRules,
           SweepFails, ingVars

LEMMA OneReadingStep == Database /\ IngInv /\ OneReadingPerKey /\ [IngNext]_allVars => OneReadingPerKey'
BY RowsPerKey, ReadingsStay DEF OneReadingPerKey

\* In the database a key has one row, for any number of requests of one sample
\* that overlap, are lost and are sent again: the lookup may be stale, the
\* unique index is not.
THEOREM OneReadingInDatabase ==
  ASSUME Database PROVE IngSpec => []OneReadingPerKey
<1>1. IngInit => OneReadingPerKey
  BY DEF IngInit, OneReadingPerKey
<1>2. IngInv /\ OneReadingPerKey /\ [IngNext]_allVars => OneReadingPerKey'
  BY OneReadingStep
<1> QED BY <1>1, <1>2, IngInvHolds, PTL DEF IngSpec

\* The replies, as the ledger sees them.
replies == [r \in Requests |-> req[r].reply]

LEMMA OneReply ==
  ASSUME IngInv, NEW r \in Requests, NEW q, req' = [req EXCEPT ![r] = q]
  PROVE  replies' = [replies EXCEPT ![r] = q.reply]
BY DEF IngInv, IngTypeOK, replies

\* A step of one request is a silence, an answer that names a row, a new row,
\* or nothing to the ledger.
LEMMA Simulated ==
  ASSUME Database, IngInv, [IngNext]_allVars
  PROVE  [Ledger!Next]_<<readings, replies>>
<1> DEFINE Mapped == Ledger!Next \/ UNCHANGED <<readings, replies>>
<1>1. ASSUME NEW r \in Requests, Append(r), RowsOf(req[r].sample.key) = {}
      PROVE  Ledger!Next
  <2>1. req[r].sample \in Sample /\ req[r].pc = "append"
    BY <1>1, AtRequest DEF Append, At, RequestOK
  <2>2. Inserts(r, req[r].sample)
    BY <1>1 DEF Append, Inserts
  <2>3. NewRow(req[r].sample) \in Reading /\ NewRow(req[r].sample).key = req[r].sample.key
    BY <2>1, <2>2, NewRowIsReading DEF Inserts, Stored
  <2>4. \A o \in Requests : req'[o].reply = req[o].reply
    BY <2>2 DEF Inserts, Stored, IngInv, IngTypeOK, Request
  <2>5. Ledger!Record(NewRow(req[r].sample))
    BY <1>1, <2>2, <2>3, <2>4 DEF Ledger!Record, Inserts, RowsOf, replies
  <2> QED BY <2>3, <2>5 DEF Ledger!Next
<1>2. ASSUME NEW r \in Requests, NEW answer, NEW row \in RowsOf(req[r].sample.key),
             Reply(r, answer, row), UNCHANGED readings
      PROVE  Ledger!Next
  <2> DEFINE q == Answered(req[r].sample, answer, row)
  <2>0. req' = [req EXCEPT ![r] = q] /\ q.reply = row
    BY <1>2 DEF Reply, Answered
  <2> HIDE DEF q
  <2>1. replies' = [replies EXCEPT ![r] = row]
    BY <2>0, OneReply
  <2>2. row \in readings /\ row \in Reading
    BY <1>2 DEF RowsOf, IngInv, IngTypeOK
  <2> QED BY <1>2, <2>1, <2>2 DEF Ledger!Next, Ledger!Accept, replies
<1>3. ASSUME NEW r \in Requests, NEW answer, Reply(r, answer, Nil), UNCHANGED readings
      PROVE  Ledger!Next
  <2> DEFINE q == Answered(req[r].sample, answer, Nil)
  <2>0. req' = [req EXCEPT ![r] = q] /\ q.reply = Nil
    BY <1>3 DEF Reply, Answered
  <2> HIDE DEF q
  <2>1. replies' = [replies EXCEPT ![r] = Nil]
    BY <2>0, OneReply
  <2> QED BY <1>3, <2>1 DEF Ledger!Next, Ledger!Silence, replies
<1>4. ASSUME NEW r \in Requests, NEW s \in Samples, Submit(r, s) PROVE Ledger!Next
  <2> DEFINE q == [Answered(s, "none", Nil) EXCEPT !.pc = "tank"]
  <2>0. req' = [req EXCEPT ![r] = q] /\ q.reply = Nil
    BY <1>4 DEF Submit, Answered
  <2> HIDE DEF q
  <2>1. replies' = [replies EXCEPT ![r] = Nil]
    BY <2>0, OneReply
  <2> QED BY <1>4, <2>1 DEF Ledger!Next, Ledger!Silence, replies, Submit
<1>5. ASSUME NEW r \in Requests, NEW pc, Goto(r, pc) PROVE UNCHANGED replies
  BY <1>5 DEF Goto, IngInv, IngTypeOK, Request, replies
<1>6. ASSUME NEW r \in Requests, ListRecent(r) PROVE UNCHANGED replies
  BY <1>6 DEF ListRecent, IngInv, IngTypeOK, Request, replies
<1>7. ASSUME NEW r \in Requests, RequestStep(r) PROVE Mapped
  <2>1. ASSUME LookupKey(r) PROVE Mapped
    <3>1. FoundByKey(req[r].sample.key) \subseteq RowsOf(req[r].sample.key)
      BY DEF FoundByKey
    <3> QED BY <1>2, <1>5, <2>1, <3>1 DEF LookupKey
  <2>2. ASSUME RunRules(r) PROVE Mapped
    BY <1>2, <2>2, AtRequest DEF RunRules, RequestOK, At
  <2>3. ASSUME Append(r) PROVE Mapped
    BY <1>1, <1>3, <2>3 DEF Append
  <2>4. ASSUME FindTank(r) \/ FindDevice(r) \/ RegisterSimulated(r) \/ CheckAssignment(r)
        PROVE  Mapped
    BY <1>3, <1>5, <2>4 DEF FindTank, FindDevice, RegisterSimulated, CheckAssignment
  <2>5. ASSUME AssignSimulated(r) \/ AssignReturns(r) \/ RetainRawPayload(r) \/ MarkSeen(r)
                 \/ MarkReturns(r) \/ ListRecent(r) \/ Lose(r)
        PROVE  Mapped
    BY <1>3, <1>5, <1>6, <2>5 DEF AssignSimulated, AssignReturns, RetainRawPayload, MarkSeen,
       MarkReturns, ListRecent, Lose
  <2> QED BY <1>7, <2>1, <2>2, <2>3, <2>4, <2>5 DEF RequestStep
<1>8. ASSUME UNCHANGED <<readings, req>> PROVE UNCHANGED <<readings, replies>>
  BY <1>8 DEF replies
<1> QED BY <1>4, <1>7, <1>8 DEF IngNext, Admin, allVars, ingVars, SweepStart, SweepStep,
           SweepTank, SweepRules, SweepFails

\* Ingestion into the database implements the write-once ledger: whatever
\* overlaps, fails or is retried, a row is recorded once per key, is never
\* changed, and an answer names a row that is there.
THEOREM IngestImplementsLedger ==
  ASSUME Database PROVE IngSpec => ImplementsLedger
<1>1. IngInit => Ledger!Init
  BY DEF IngInit, Answered, Ledger!Init
<1>2. IngInv /\ [IngNext]_allVars => [Ledger!Next]_<<readings, replies>>
  BY Simulated
<1>3. IngInv /\ [IngNext]_allVars => [Ledger!Next]_(Ledger!vars)
  BY <1>2 DEF Ledger!vars, replies
<1>4. QED
  BY <1>1, <1>3, IngInvHolds, PTL DEF IngSpec, ImplementsLedger, Ledger!Spec
=============================================================================
