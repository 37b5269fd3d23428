----------------------------- MODULE DevicesProofs -----------------------------
(* Theorems about the device registry, for any number of devices, tanks,   *)
(* callers and assignments.                                                *)
EXTENDS Devices, FiniteSetTheorems, TLAPS

\* What a call has read by the time it waits at its pc.  A device row that
\* was found stays a row: devices are never deleted.
CallOK(k) ==
  /\ k.pc \in {"register.save", "device.save"} => k.dev \in Devs /\ k.row \in DeviceRow
  /\ k.pc = "touch.write" => /\ k.dev \in Devs
                             /\ k.row \in DeviceRow
                             /\ device[k.dev] \in DeviceRow
  /\ k.pc = "tank.save" => k.tank \in Tanks /\ k.status \in TankStatus
  /\ k.pc \in {"assign.tank", "assign.current", "assign.end", "assign.save"} =>
       k.dev \in Devs /\ k.tank \in Tanks
  /\ k.pc = "assign.end" => k.asg \in 1..MaxAssignments
  /\ k.pc = "unassign.end" => k.dev \in Devs /\ k.asg \in 1..MaxAssignments
  /\ k.pc = "assign.save" => k.asg \in 1..MaxAssignments \/ k.asg = Nil

CallsOK == \A c \in Callers : CallOK(call[c])

DevInv == DevTypeOK /\ CallsOK

\* A device that has a row keeps one.
RowsKept == \A d \in Devs : device[d] \in DeviceRow => device'[d] \in DeviceRow

\* What every step of a call leaves true.
StepOK == DevInv' /\ RowsKept /\ assigned \subseteq assigned'

-----------------------------------------------------------------------------

\* A call that answers, or waits again, with the registry typed and its rows
\* kept, leaves the calls in order.
LEMMA CallMoves ==
  ASSUME DevInv, NEW c \in Callers, NEW k \in Call, CallOK(k)', RowsKept,
         call' = [call EXCEPT ![c] = k]
  PROVE  CallsOK' /\ call' \in [Callers -> Call]
<1>1. call' \in [Callers -> Call]
  BY DEF DevInv, DevTypeOK
<1>2. ASSUME NEW o \in Callers PROVE CallOK(call[o])'
  <2>1. CASE o = c
    BY <2>1 DEF DevInv, DevTypeOK, CallOK
  <2>2. CASE o # c
    <3>1. call'[o] = call[o] /\ CallOK(call[o])
      BY <2>2 DEF DevInv, DevTypeOK, CallsOK
    <3> QED BY <3>1 DEF CallOK, RowsKept
  <2> QED BY <2>1, <2>2
<1> QED BY <1>1, <1>2 DEF CallsOK

\* An answered call promises nothing.
LEMMA ReturnedOK ==
  ASSUME NEW result \in {"none", "ok", "refused"}
  PROVE  Returned(result) \in Call /\ CallOK(Returned(result)) /\ CallOK(Returned(result))'
BY DEF Returned, Call, CallPc, CallOK

\* A call that only answers.
LEMMA AnswerStep ==
  ASSUME DevInv, NEW c \in Callers, NEW result \in {"none", "ok", "refused"},
         Answer(c, result), RowsKept
  PROVE  CallsOK' /\ call' \in [Callers -> Call]
BY CallMoves, ReturnedOK DEF Answer

LEMMA RefuseStep ==
  ASSUME DevInv, NEW c \in Callers, Refuse(c)
  PROVE  StepOK
<1>1. RowsKept /\ assigned \subseteq assigned'
  BY DEF Refuse, RowsKept
<1> QED BY <1>1, AnswerStep DEF Refuse, StepOK, DevInv, DevTypeOK

\* A call that reads and waits.
LEMMA AwaitStep ==
  ASSUME DevInv, NEW c \in Callers, NEW pc \in CallPc, NEW next \in Call, Await(c, pc, next),
         CallOK([next EXCEPT !.pc = pc, !.result = "none"])
  PROVE  StepOK
<1> DEFINE k == [next EXCEPT !.pc = pc, !.result = "none"]
<1>1. k \in Call
  BY DEF Call
<1>2. RowsKept /\ assigned \subseteq assigned'
  BY DEF Await, RowsKept
<1>3. CallOK(k)'
  BY DEF CallOK, Await
<1>4. call' = [call EXCEPT ![c] = k]
  BY DEF Await
<1>5. CallsOK' /\ call' \in [Callers -> Call]
  BY <1>1, <1>2, <1>3, <1>4, CallMoves
<1> QED BY <1>2, <1>5 DEF Await, StepOK, DevInv, DevTypeOK

-----------------------------------------------------------------------------
(* Register, update and touch                                              *)

LEMMA WriteDeviceStep ==
  ASSUME DevInv, NEW c \in Callers, WriteDevice(c),
         call[c].dev \in Devs, call[c].row \in DeviceRow
  PROVE  StepOK
<1>1. CASE Database /\ InUse(call[c].row.serial, call[c].dev)
  BY <1>1, RefuseStep DEF WriteDevice
<1>2. CASE ~(Database /\ InUse(call[c].row.serial, call[c].dev))
  <2>1. /\ device' = [device EXCEPT ![call[c].dev] = call[c].row]
        /\ Answer(c, "ok")
        /\ UNCHANGED <<tank, assigned, ended, current>>
    BY <1>2 DEF WriteDevice
  <2>2. RowsKept
    BY <2>1 DEF RowsKept, DevInv, DevTypeOK
  <2>3. CallsOK' /\ call' \in [Callers -> Call]
    BY <2>1, <2>2, AnswerStep
  <2> QED BY <2>1, <2>2, <2>3 DEF StepOK, DevInv, DevTypeOK
<1> QED BY <1>1, <1>2

LEMMA RegisterStep ==
  ASSUME DevInv, NEW c \in Callers,
         NEW d \in Devs, NEW s \in Serials, BeginRegister(c, d, s)
  PROVE  StepOK
<1> DEFINE next == [call[c] EXCEPT !.dev = d, !.row = [serial |-> s, status |-> "registered"]]
<1>1. CASE Refuse(c)
  BY <1>1, RefuseStep
<1>2. CASE Await(c, "register.save", next)
  <2>1. next \in Call /\ "register.save" \in CallPc
    BY DEF DevInv, DevTypeOK, Call, CallPc, DeviceRow, DeviceStatus
  <2>2. CallOK([next EXCEPT !.pc = "register.save", !.result = "none"])
    BY <2>1 DEF Call, CallOK, DeviceRow, DeviceStatus, DevInv, DevTypeOK
  <2> QED BY <1>2, <2>1, <2>2, AwaitStep
<1> QED BY <1>1, <1>2 DEF BeginRegister

LEMMA UpdateDeviceStep ==
  ASSUME DevInv, NEW c \in Callers,
         NEW d \in Devs, NEW p \in Patches, BeginUpdateDevice(c, d, p)
  PROVE  StepOK
<1> DEFINE next == [call[c] EXCEPT !.dev = d, !.row = Patched(device[d], p)]
<1>1. CASE Refuse(c)
  BY <1>1, RefuseStep
<1>2. CASE device[d] # Nil /\ Await(c, "device.save", next)
  <2>1. Patched(device[d], p) \in DeviceRow
    BY <1>2, DevicesAssumption DEF Patched, DevInv, DevTypeOK, DeviceRow, DeviceStatus
  <2>2. next \in Call /\ "device.save" \in CallPc
    BY <2>1 DEF DevInv, DevTypeOK, Call, CallPc
  <2>3. CallOK([next EXCEPT !.pc = "device.save", !.result = "none"])
    BY <2>1, <2>2 DEF Call, CallOK, DevInv, DevTypeOK
  <2> QED BY <1>2, <2>2, <2>3, AwaitStep
<1> QED BY <1>1, <1>2 DEF BeginUpdateDevice

LEMMA UpdateTankStep ==
  ASSUME DevInv, NEW c \in Callers,
         NEW t \in Tanks, NEW p \in TankStatus \union {Nil}, BeginUpdateTank(c, t, p)
  PROVE  StepOK
<1> DEFINE status == IF p = Nil THEN tank[t] ELSE p
           next == [call[c] EXCEPT !.tank = t, !.status = status]
<1>1. status \in TankStatus
  BY DEF DevInv, DevTypeOK
<1>2. next \in Call /\ "tank.save" \in CallPc
  BY <1>1 DEF DevInv, DevTypeOK, Call, CallPc
<1>3. CallOK([next EXCEPT !.pc = "tank.save", !.result = "none"])
  BY <1>1, <1>2 DEF Call, CallOK, DevInv, DevTypeOK
<1> QED BY <1>2, <1>3, AwaitStep DEF BeginUpdateTank

LEMMA SaveTankStep ==
  ASSUME DevInv, NEW c \in Callers, SaveUpdatedTank(c)
  PROVE  StepOK
<1>1. call[c].tank \in Tanks /\ call[c].status \in TankStatus
  BY DEF DevInv, CallsOK, CallOK, SaveUpdatedTank
<1>2. RowsKept
  BY DEF RowsKept, SaveUpdatedTank
<1>3. CallsOK' /\ call' \in [Callers -> Call]
  BY <1>2, AnswerStep DEF SaveUpdatedTank
<1> QED BY <1>1, <1>2, <1>3 DEF SaveUpdatedTank, StepOK, DevInv, DevTypeOK

\* The writes of touch change the status of a row that is there.
LEMMA TouchWriteStep ==
  ASSUME DevInv, NEW c \in Callers, NEW d \in Devs, device[d] \in DeviceRow,
         device' = device \/ device' = [device EXCEPT ![d] = Promoted(@)],
         Answer(c, "ok"), UNCHANGED <<tank, assigned, ended, current>>
  PROVE  StepOK
<1>1. Promoted(device[d]) \in DeviceRow
  BY DEF Promoted, DeviceRow, DeviceStatus
<1>2. RowsKept /\ device' \in [Devs -> DeviceRow \union {Nil}]
  BY <1>1 DEF RowsKept, DevInv, DevTypeOK
<1>3. CallsOK' /\ call' \in [Callers -> Call]
  BY <1>2, AnswerStep
<1> QED BY <1>2, <1>3 DEF StepOK, DevInv, DevTypeOK

LEMMA TouchStep ==
  ASSUME DevInv, NEW c \in Callers, NEW d \in Devs, BeginTouch(c, d)
  PROVE  StepOK
<1>1. CASE device[d] = Nil
  <2>1. Answer(c, "ok") /\ UNCHANGED <<tank, device, assigned, ended, current>>
    BY <1>1 DEF BeginTouch
  <2>2. RowsKept
    BY <2>1 DEF RowsKept
  <2> QED BY <2>1, <2>2, AnswerStep DEF StepOK, DevInv, DevTypeOK
<1>2. CASE device[d] # Nil /\ Database
  <2> DEFINE next == [call[c] EXCEPT !.dev = d, !.row = device[d]]
  <2>1. Await(c, "touch.write", next) /\ device[d] \in DeviceRow
    BY <1>2 DEF BeginTouch, DevInv, DevTypeOK
  <2>2. next \in Call /\ "touch.write" \in CallPc
    BY <2>1 DEF DevInv, DevTypeOK, Call, CallPc
  <2>3. CallOK([next EXCEPT !.pc = "touch.write", !.result = "none"])
    BY <2>1, <2>2 DEF Call, CallOK, DevInv, DevTypeOK
  <2> QED BY <2>1, <2>2, <2>3, AwaitStep
<1>3. CASE device[d] # Nil /\ ~Database
  <2>1. TouchNow(c, d) /\ device[d] \in DeviceRow
    BY <1>3 DEF BeginTouch, DevInv, DevTypeOK
  <2>2. device' = device \/ device' = [device EXCEPT ![d] = Promoted(@)]
    BY <2>1 DEF TouchNow, DevInv, DevTypeOK
  <2> QED BY <2>1, <2>2, TouchWriteStep DEF TouchNow
<1> QED BY <1>1, <1>2, <1>3

LEMMA EndTouchStep ==
  ASSUME DevInv, NEW c \in Callers, EndTouch(c)
  PROVE  StepOK
<1>1. call[c].dev \in Devs /\ device[call[c].dev] \in DeviceRow
  BY DEF DevInv, CallsOK, CallOK, EndTouch
<1>2. device' = device \/ device' = [device EXCEPT ![call[c].dev] = Promoted(@)]
  BY DEF EndTouch
<1> QED BY <1>1, <1>2, TouchWriteStep DEF EndTouch

-----------------------------------------------------------------------------
(* Assign and unassign                                                     *)

\* A call that answers or waits, and touches no device.
LEMMA AssignStep ==
  ASSUME DevInv, NEW c \in Callers, NEW k \in Call, CallOK(k),
         call' = [call EXCEPT ![c] = k], UNCHANGED <<tank, device>>,
         assigned' \subseteq Assignment, assigned \subseteq assigned',
         ended' \subseteq 1..MaxAssignments,
         current' \in [Devs -> Tanks \union {Nil}]
  PROVE  StepOK
<1>1. RowsKept
  BY DEF RowsKept
<1>2. CallOK(k)'
  BY DEF CallOK
<1>3. CallsOK' /\ call' \in [Callers -> Call]
  BY <1>1, <1>2, CallMoves
<1> QED BY <1>1, <1>3 DEF StepOK, DevInv, DevTypeOK

LEMMA BeginAssignStep ==
  ASSUME DevInv, NEW c \in Callers, NEW d \in Devs, NEW t \in Tanks, BeginAssign(c, d, t)
  PROVE  StepOK
<1> DEFINE next == [call[c] EXCEPT !.dev = d, !.tank = t]
<1>1. CASE Refuse(c)
  BY <1>1, RefuseStep
<1>2. CASE Await(c, "assign.tank", next)
  <2>1. next \in Call /\ "assign.tank" \in CallPc
    BY DEF DevInv, DevTypeOK, Call, CallPc
  <2>2. CallOK([next EXCEPT !.pc = "assign.tank", !.result = "none"])
    BY <2>1 DEF Call, CallOK, DevInv, DevTypeOK
  <2> QED BY <1>2, <2>1, <2>2, AwaitStep
<1> QED BY <1>1, <1>2 DEF BeginAssign

LEMMA AssignReadsTankStep ==
  ASSUME DevInv, NEW c \in Callers, AssignReadsTank(c)
  PROVE  StepOK
<1>1. CASE Refuse(c)
  BY <1>1, RefuseStep
<1>2. CASE Await(c, "assign.current", call[c])
  <2>1. call[c] \in Call /\ "assign.current" \in CallPc
    BY DEF DevInv, DevTypeOK, CallPc
  <2>2. CallOK([call[c] EXCEPT !.pc = "assign.current", !.result = "none"])
    BY <2>1 DEF Call, CallOK, CallsOK, DevInv, AssignReadsTank
  <2> QED BY <1>2, <2>1, <2>2, AwaitStep
<1> QED BY <1>1, <1>2 DEF AssignReadsTank

LEMMA AssignReadsCurrentStep ==
  ASSUME DevInv, NEW c \in Callers, AssignReadsCurrent(c)
  PROVE  StepOK
<1> DEFINE d == call[c].dev
<1>1. call[c].pc = "assign.current" /\ call[c] \in Call /\ d \in Devs /\ call[c].tank \in Tanks
  BY DEF DevInv, DevTypeOK, CallsOK, CallOK, AssignReadsCurrent
<1>2. PICK a \in FoundActive(d) :
        IF a = Nil
        THEN Await(c, "assign.save", call[c])
        ELSE IF a.tank = call[c].tank
             THEN /\ Answer(c, "ok")
                  /\ current' = [current EXCEPT ![d] = call[c].tank]
                  /\ UNCHANGED <<tank, device, assigned, ended>>
             ELSE Await(c, "assign.end", [call[c] EXCEPT !.asg = a.id])
  BY DEF AssignReadsCurrent
<1>3. a = Nil \/ a \in assigned
  BY DEF FoundActive, ActiveOf
<1>4. CASE a = Nil
  <2>1. "assign.save" \in CallPc
    BY DEF CallPc
  <2>2. CallOK([call[c] EXCEPT !.pc = "assign.save", !.result = "none"])
    BY <1>1 DEF Call, CallOK
  <2> QED BY <1>1, <1>2, <1>4, <2>1, <2>2, AwaitStep
<1>5. CASE a # Nil /\ a.tank = call[c].tank
  <2>1. /\ call' = [call EXCEPT ![c] = Returned("ok")]
        /\ current' = [current EXCEPT ![d] = call[c].tank]
        /\ UNCHANGED <<tank, device, assigned, ended>>
    BY <1>2, <1>5 DEF Answer
  <2>2. current' \in [Devs -> Tanks \union {Nil}]
    BY <1>1, <2>1 DEF DevInv, DevTypeOK
  <2> QED BY <2>1, <2>2, ReturnedOK, AssignStep DEF DevInv, DevTypeOK
<1>6. CASE a # Nil /\ a.tank # call[c].tank
  <2> DEFINE next == [call[c] EXCEPT !.asg = a.id]
  <2>1. a.id \in 1..MaxAssignments
    BY <1>3, <1>6 DEF DevInv, DevTypeOK, Assignment
  <2>2. next \in Call /\ "assign.end" \in CallPc
    BY <1>1, <2>1 DEF Call, CallPc
  <2>3. CallOK([next EXCEPT !.pc = "assign.end", !.result = "none"])
    BY <1>1, <2>1 DEF Call, CallOK
  <2> QED BY <1>2, <1>6, <2>2, <2>3, AwaitStep
<1> QED BY <1>4, <1>5, <1>6

LEMMA AssignEndsCurrentStep ==
  ASSUME DevInv, NEW c \in Callers, AssignEndsCurrent(c)
  PROVE  StepOK
<1> DEFINE k == [call[c] EXCEPT !.pc = "assign.save"]
<1>1. /\ call[c] \in Call
      /\ call[c].dev \in Devs /\ call[c].tank \in Tanks
      /\ call[c].asg \in 1..MaxAssignments
  BY DEF DevInv, DevTypeOK, CallsOK, CallOK, AssignEndsCurrent
<1>2. k \in Call /\ CallOK(k)
  BY <1>1 DEF Call, CallPc, CallOK
<1>3. call' = [call EXCEPT ![c] = k]
  BY DEF AssignEndsCurrent, DevInv, DevTypeOK
<1>4. ended' \subseteq 1..MaxAssignments
  BY <1>1 DEF AssignEndsCurrent, DevInv, DevTypeOK
<1> QED BY <1>2, <1>3, <1>4, AssignStep DEF AssignEndsCurrent, DevInv, DevTypeOK

LEMMA AssignSavesStep ==
  ASSUME DevInv, NEW c \in Callers, AssignSaves(c)
  PROVE  StepOK
<1> DEFINE a == [id |-> Cardinality(assigned) + 1, dev |-> call[c].dev, tank |-> call[c].tank]
<1>1. call[c].dev \in Devs /\ call[c].tank \in Tanks /\ a.id \in 1..MaxAssignments
  BY DEF DevInv, CallsOK, CallOK, AssignSaves
<1>2. assigned' = assigned \union {a} /\ current' = [current EXCEPT ![a.dev] = a.tank]
  BY DEF AssignSaves
<1>3. assigned' \subseteq Assignment /\ assigned \subseteq assigned'
  BY <1>1, <1>2 DEF DevInv, DevTypeOK, Assignment
<1>4. current' \in [Devs -> Tanks \union {Nil}]
  BY <1>1, <1>2 DEF DevInv, DevTypeOK
<1>5. call' = [call EXCEPT ![c] = Returned("ok")] /\ UNCHANGED <<tank, device, ended>>
  BY DEF AssignSaves, Answer
<1> QED BY <1>3, <1>4, <1>5, ReturnedOK, AssignStep DEF DevInv, DevTypeOK

LEMMA BeginUnassignStep ==
  ASSUME DevInv, NEW c \in Callers, NEW d \in Devs, BeginUnassign(c, d)
  PROVE  StepOK
<1>1. CASE Refuse(c)
  BY <1>1, RefuseStep
<1>2. ASSUME NEW a \in FoundActive(d), a # Nil,
             Await(c, "unassign.end", [call[c] EXCEPT !.dev = d, !.asg = a.id])
      PROVE  StepOK
  <2> DEFINE next == [call[c] EXCEPT !.dev = d, !.asg = a.id]
  <2>1. a.id \in 1..MaxAssignments
    BY <1>2 DEF FoundActive, ActiveOf, DevInv, DevTypeOK, Assignment
  <2>2. next \in Call /\ "unassign.end" \in CallPc
    BY <2>1 DEF DevInv, DevTypeOK, Call, CallPc
  <2>3. CallOK([next EXCEPT !.pc = "unassign.end", !.result = "none"])
    BY <2>1, <2>2 DEF Call, CallOK, DevInv, DevTypeOK
  <2> QED BY <1>2, <2>2, <2>3, AwaitStep
<1> QED BY <1>1, <1>2 DEF BeginUnassign

LEMMA UnassignEndsStep ==
  ASSUME DevInv, NEW c \in Callers, UnassignEnds(c)
  PROVE  StepOK
<1>1. call[c].dev \in Devs /\ call[c].asg \in 1..MaxAssignments
  BY DEF DevInv, CallsOK, CallOK, UnassignEnds
<1>2. /\ ended' \subseteq 1..MaxAssignments
      /\ current' \in [Devs -> Tanks \union {Nil}]
  BY <1>1 DEF UnassignEnds, DevInv, DevTypeOK
<1>3. call' = [call EXCEPT ![c] = Returned("ok")] /\ UNCHANGED <<tank, device, assigned>>
  BY DEF UnassignEnds, Answer
<1> QED BY <1>2, <1>3, ReturnedOK, AssignStep DEF DevInv, DevTypeOK

LEMMA CrashStep ==
  ASSUME DevInv, NEW c \in Callers, Crash(c)
  PROVE  StepOK
<1>1. current' \in [Devs -> Tanks \union {Nil}]
  BY DEF Crash, DevInv, DevTypeOK
<1>2. /\ call' = [call EXCEPT ![c] = Returned("refused")]
      /\ UNCHANGED <<tank, device, assigned, ended>>
  BY DEF Crash, Answer
<1> QED BY <1>1, <1>2, ReturnedOK, AssignStep DEF DevInv, DevTypeOK

-----------------------------------------------------------------------------
(* The specification                                                       *)

LEMMA BeginStep ==
  ASSUME DevInv, NEW c \in Callers, Begin(c)
  PROVE  StepOK
BY RegisterStep, UpdateDeviceStep, UpdateTankStep, TouchStep, BeginAssignStep, BeginUnassignStep
   DEF Begin

LEMMA ContinueStep ==
  ASSUME DevInv, NEW c \in Callers, Continue(c)
  PROVE  StepOK
<1>1. CASE SaveRegistered(c) \/ SaveUpdatedDevice(c)
  <2>1. call[c].dev \in Devs /\ call[c].row \in DeviceRow
    BY <1>1 DEF DevInv, CallsOK, CallOK, SaveRegistered, SaveUpdatedDevice
  <2> QED BY <1>1, <2>1, WriteDeviceStep DEF SaveRegistered, SaveUpdatedDevice
<1> QED BY <1>1, SaveTankStep, EndTouchStep, AssignReadsTankStep, AssignReadsCurrentStep,
           AssignEndsCurrentStep, AssignSavesStep, UnassignEndsStep DEF Continue

LEMMA CallerStep ==
  ASSUME DevInv, NEW c \in Callers, Begin(c) \/ Continue(c) \/ Crash(c)
  PROVE  StepOK
BY BeginStep, ContinueStep, CrashStep

LEMMA DevInitOK == DevInit => DevInv
<1> SUFFICES ASSUME DevInit PROVE DevInv
  OBVIOUS
<1>1. DevTypeOK
  BY ReturnedOK DEF DevInit, DevTypeOK, TankStatus
<1>2. CallsOK
  BY ReturnedOK DEF DevInit, CallsOK
<1> QED BY <1>1, <1>2 DEF DevInv

LEMMA DevInvStutters ==
  ASSUME DevInv, UNCHANGED devVars
  PROVE  DevInv'
BY DEF DevInv, DevTypeOK, CallsOK, CallOK, devVars

LEMMA DevInvHolds == DevSpec => []DevInv
<1>1. DevInv /\ [DevNext]_devVars => DevInv'
  BY CallerStep, DevInvStutters DEF DevNext, StepOK
<1> QED BY <1>1, DevInitOK, PTL DEF DevSpec

\* Whatever overlaps and crashes, the registry and the calls keep their types:
\* no update clears a status and no touch makes a row of nothing.
THEOREM DevTypeCorrect == DevSpec => []DevTypeOK
<1>1. DevInv => DevTypeOK
  BY DEF DevInv
<1> QED BY <1>1, DevInvHolds, PTL

-----------------------------------------------------------------------------
(* Serial numbers                                                          *)

LEMMA WriteDeviceKeepsSerialsUnique ==
  ASSUME Database, DevInv, SerialsUnique, NEW c \in Callers, WriteDevice(c),
         call[c].dev \in Devs, call[c].row \in DeviceRow
  PROVE  SerialsUnique'
<1>1. CASE InUse(call[c].row.serial, call[c].dev)
  BY <1>1 DEF WriteDevice, Refuse, SerialsUnique
<1>2. CASE ~InUse(call[c].row.serial, call[c].dev)
  <2>1. device' = [device EXCEPT ![call[c].dev] = call[c].row]
    BY <1>2 DEF WriteDevice
  <2>2. \A e \in Devs \ {call[c].dev} : device[e] = Nil \/ device[e].serial # call[c].row.serial
    BY <1>2 DEF InUse
  <2> QED BY <2>1, <2>2 DEF SerialsUnique, DevInv, DevTypeOK
<1> QED BY <1>1, <1>2

LEMMA EndTouchKeepsSerialsUnique ==
  ASSUME DevInv, SerialsUnique, NEW c \in Callers, EndTouch(c)
  PROVE  SerialsUnique'
<1> DEFINE d == call[c].dev
<1>1. d \in Devs /\ device[d] \in DeviceRow /\ device \in [Devs -> DeviceRow \union {Nil}]
  BY DEF DevInv, DevTypeOK, CallsOK, CallOK, EndTouch
<1>2. CASE device' = device
  BY <1>2 DEF SerialsUnique
<1>3. CASE device' = [device EXCEPT ![d] = Promoted(@)]
  <2>1. Promoted(device[d]).serial = device[d].serial
    BY <1>1 DEF Promoted, DeviceRow
  <2>2. \A e \in Devs : device'[e].serial = device[e].serial /\ (e # d => device'[e] = device[e])
    BY <1>1, <1>3, <2>1
  <2>3. device[d] # Nil
    BY <1>1, DevicesAssumption
  <2> QED BY <2>2, <2>3 DEF SerialsUnique
<1> QED BY <1>2, <1>3 DEF EndTouch

\* In the database no interleaving of registrations and updates gives two
\* devices one serial number: the check before the write may be stale, the
\* unique index is not.
THEOREM SerialsUniqueInDatabase ==
  ASSUME Database PROVE DevSpec => []SerialsUnique
<1>1. DevInit => SerialsUnique
  BY DEF DevInit, SerialsUnique
<1>2. DevInv /\ SerialsUnique /\ [DevNext]_devVars => SerialsUnique'
  <2> SUFFICES ASSUME DevInv, SerialsUnique, [DevNext]_devVars PROVE SerialsUnique'
    OBVIOUS
  <2>1. CASE UNCHANGED device
    BY <2>1 DEF SerialsUnique
  <2>2. ASSUME NEW c \in Callers, SaveRegistered(c) \/ SaveUpdatedDevice(c)
        PROVE  SerialsUnique'
    <3>1. call[c].dev \in Devs /\ call[c].row \in DeviceRow
      BY <2>2 DEF DevInv, CallsOK, CallOK, SaveRegistered, SaveUpdatedDevice
    <3> QED BY <2>2, <3>1, WriteDeviceKeepsSerialsUnique DEF SaveRegistered, SaveUpdatedDevice
  <2>3. ASSUME NEW c \in Callers, EndTouch(c) PROVE SerialsUnique'
    BY <2>3, EndTouchKeepsSerialsUnique
  <2>4. ASSUME NEW c \in Callers, Begin(c) PROVE UNCHANGED device
    BY <2>4 DEF Begin, BeginRegister, BeginUpdateDevice, BeginUpdateTank, BeginTouch,
                BeginAssign, BeginUnassign, Refuse, Await
  <2>5. ASSUME NEW c \in Callers,
               SaveUpdatedTank(c) \/ AssignReadsTank(c) \/ AssignReadsCurrent(c)
                 \/ AssignEndsCurrent(c) \/ AssignSaves(c) \/ UnassignEnds(c) \/ Crash(c)
        PROVE  UNCHANGED device
    BY <2>5 DEF SaveUpdatedTank, AssignReadsTank, AssignReadsCurrent, AssignEndsCurrent,
                AssignSaves, UnassignEnds, Crash, Refuse, Await
  <2> QED BY <2>1, <2>2, <2>3, <2>4, <2>5 DEF DevNext, Continue, devVars
<1> QED BY <1>1, <1>2, DevInvHolds, PTL DEF DevSpec

-----------------------------------------------------------------------------
(* At most one active assignment                                           *)

\* Calls that do not overlap: the one that is ending an assignment knows the
\* only active one of its device, and the one that saves has none to leave.
OneCall == \A c, o \in Callers : call[c].pc # "idle" /\ call[o].pc # "idle" => c = o

EndsTheActive ==
  \A c \in Callers :
    /\ call[c].pc = "assign.end" => \A a \in ActiveOf(call[c].dev) : a.id = call[c].asg
    /\ call[c].pc = "assign.save" => ActiveOf(call[c].dev) = {}

SerialInv == OneActivePerDevice /\ OneCall /\ EndsTheActive

\* A call that moves alone.
Moves(c) == \A o \in Callers : o # c => call'[o] = call[o]

\* A step that adds no active assignment and leaves nobody waiting to end or
\* to save one.
LEMMA QuietStep ==
  ASSUME SerialInv, NEW c \in Callers, Moves(c),
         MayBegin(c) \/ call[c].pc # "idle", ~Overlap,
         UNCHANGED assigned, ended \subseteq ended',
         call'[c].pc \notin {"assign.end", "assign.save"}
  PROVE  SerialInv'
<1>1. OneActivePerDevice'
  BY DEF SerialInv, OneActivePerDevice, ActiveOf, Active
<1>2. \A o \in Callers : o # c => call[o].pc = "idle" /\ call'[o].pc = "idle"
  BY DEF MayBegin, SerialInv, OneCall, Moves
<1>3. OneCall'
  BY <1>2 DEF OneCall
<1>4. EndsTheActive'
  BY <1>2 DEF EndsTheActive
<1> QED BY <1>1, <1>3, <1>4 DEF SerialInv

LEMMA AnswerIsQuiet ==
  ASSUME DevInv, NEW c \in Callers, NEW result, Answer(c, result)
  PROVE  Moves(c) /\ call'[c].pc = "idle"
BY DEF Answer, Returned, Moves, DevInv, DevTypeOK

LEMMA AwaitMoves ==
  ASSUME DevInv, NEW c \in Callers, NEW pc, NEW next \in Call, Await(c, pc, next)
  PROVE  /\ Moves(c)
         /\ call'[c].pc = pc
         /\ call'[c].dev = next.dev
         /\ call'[c].asg = next.asg
BY DEF Await, Call, Moves, DevInv, DevTypeOK

LEMMA BeginKeepsOneActive ==
  ASSUME DevInv, SerialInv, ~Overlap, NEW c \in Callers, Begin(c)
  PROVE  SerialInv'
<1> DEFINE Quiet == Moves(c) /\ call'[c].pc \notin {"assign.end", "assign.save"}
<1>1. MayBegin(c) /\ UNCHANGED <<assigned, ended>>
  BY DEF Begin, BeginRegister, BeginUpdateDevice, BeginUpdateTank, BeginTouch,
         BeginAssign, BeginUnassign, Refuse, Await, TouchNow
<1>2. Quiet
  <2>1. call[c] \in Call /\ call \in [Callers -> Call]
    BY DEF DevInv, DevTypeOK
  <2>2. ASSUME NEW result, Answer(c, result) PROVE Quiet
    BY <2>2, AnswerIsQuiet
  <2>3. ASSUME NEW d \in Devs, BeginTouch(c, d) PROVE Quiet
    BY <2>1, <2>2, <2>3 DEF BeginTouch, TouchNow, Await, Call, Moves
  <2>4. ASSUME NEW d \in Devs, BeginUnassign(c, d) PROVE Quiet
    <3>1. CASE Refuse(c)
      BY <2>2, <3>1 DEF Refuse
    <3>2. ASSUME NEW a \in FoundActive(d), a # Nil,
                 Await(c, "unassign.end", [call[c] EXCEPT !.dev = d, !.asg = a.id])
          PROVE  Quiet
      <4>1. a.id \in 1..MaxAssignments
        BY <3>2 DEF FoundActive, ActiveOf, DevInv, DevTypeOK, Assignment
      <4>2. [call[c] EXCEPT !.dev = d, !.asg = a.id] \in Call
        BY <2>1, <4>1 DEF Call
      <4> QED BY <3>2, <4>2, AwaitMoves
    <3> QED BY <2>4, <3>1, <3>2 DEF BeginUnassign
  <2>5. ASSUME NEW d \in Devs, NEW s \in Serials, BeginRegister(c, d, s) PROVE Quiet
    BY <2>1, <2>2, <2>5 DEF BeginRegister, Refuse, Await, Call, Moves
  <2>6. ASSUME NEW d \in Devs, NEW p \in Patches, BeginUpdateDevice(c, d, p) PROVE Quiet
    BY <2>1, <2>2, <2>6 DEF BeginUpdateDevice, Refuse, Await, Call, Moves
  <2>7. ASSUME NEW t \in Tanks, NEW p, BeginUpdateTank(c, t, p) PROVE Quiet
    BY <2>1, <2>7 DEF BeginUpdateTank, Await, Call, Moves
  <2>8. ASSUME NEW d \in Devs, NEW t \in Tanks, BeginAssign(c, d, t) PROVE Quiet
    BY <2>1, <2>2, <2>8 DEF BeginAssign, Refuse, Await, Call, Moves
  <2> HIDE DEF Quiet
  <2> QED BY <2>3, <2>4, <2>5, <2>6, <2>7, <2>8 DEF Begin
<1> QED BY <1>1, <1>2, QuietStep

LEMMA AssignReadsCurrentKeepsOneActive ==
  ASSUME DevInv, SerialInv, ~Overlap, NEW c \in Callers, AssignReadsCurrent(c)
  PROVE  SerialInv'
<1> DEFINE d == call[c].dev
<1>1. call[c].pc = "assign.current" /\ call[c] \in Call /\ d \in Devs
  BY DEF DevInv, DevTypeOK, CallsOK, CallOK, AssignReadsCurrent
<1>2. PICK a \in FoundActive(d) :
        IF a = Nil
        THEN Await(c, "assign.save", call[c])
        ELSE IF a.tank = call[c].tank
             THEN /\ Answer(c, "ok")
                  /\ current' = [current EXCEPT ![d] = call[c].tank]
                  /\ UNCHANGED <<tank, device, assigned, ended>>
             ELSE Await(c, "assign.end", [call[c] EXCEPT !.asg = a.id])
  BY DEF AssignReadsCurrent
<1>3. UNCHANGED <<assigned, ended>>
  BY <1>2 DEF Await
<1>4. CASE a # Nil /\ a.tank = call[c].tank
  BY <1>1, <1>2, <1>3, <1>4, AnswerIsQuiet, QuietStep
<1>5. CASE a = Nil \/ a.tank # call[c].tank
  <2> DEFINE k == call'[c]
  <2>1. /\ Moves(c)
        /\ k.dev = d
        /\ k.pc = IF a = Nil THEN "assign.save" ELSE "assign.end"
        /\ k.pc = "assign.end" => k.asg = a.id
    <3>1. CASE a = Nil
      BY <1>1, <1>2, <3>1 DEF Await, Call, DevInv, DevTypeOK, Moves
    <3>2. CASE a # Nil
      <4>1. a.id \in 1..MaxAssignments
        BY <3>2 DEF FoundActive, ActiveOf, DevInv, DevTypeOK, Assignment
      <4>2. [call[c] EXCEPT !.asg = a.id] \in Call
        BY <1>1, <4>1 DEF Call
      <4>3. [call[c] EXCEPT !.asg = a.id].dev = d /\ [call[c] EXCEPT !.asg = a.id].asg = a.id
        BY <1>1 DEF Call
      <4> QED BY <1>2, <1>5, <3>2, <4>2, <4>3, AwaitMoves
    <3> QED BY <3>1, <3>2
  <2>2. a = Nil => ActiveOf(d) = {}
    BY DevicesAssumption DEF FoundActive, ActiveOf, DevInv, DevTypeOK
  <2>3. a # Nil => \A b \in ActiveOf(d) : b.id = a.id
    BY <1>1 DEF FoundActive, SerialInv, OneActivePerDevice
  <2>4. \A o \in Callers : o # c => call[o].pc = "idle" /\ call'[o] = call[o]
    BY <1>1, <2>1 DEF SerialInv, OneCall, Moves
  <2>5. OneActivePerDevice' /\ \A e \in Devs : ActiveOf(e)' = ActiveOf(e)
    BY <1>3 DEF SerialInv, OneActivePerDevice, ActiveOf, Active
  <2>6. OneCall'
    BY <2>4 DEF OneCall
  <2>7. EndsTheActive'
    BY <1>1, <2>1, <2>2, <2>3, <2>4, <2>5 DEF EndsTheActive
  <2> QED BY <2>5, <2>6, <2>7 DEF SerialInv
<1> QED BY <1>4, <1>5

LEMMA ContinueKeepsOneActive ==
  ASSUME DevInv, SerialInv, ~Overlap, NEW c \in Callers, Continue(c)
  PROVE  SerialInv'
<1>1. CASE AssignReadsCurrent(c)
  BY <1>1, AssignReadsCurrentKeepsOneActive
<1>2. CASE AssignReadsTank(c)
  <2>1. Moves(c) /\ call'[c].pc \notin {"assign.end", "assign.save"}
    BY <1>2, AnswerIsQuiet, AwaitMoves DEF AssignReadsTank, Refuse, DevInv, DevTypeOK
  <2> QED BY <1>2, <2>1, QuietStep DEF AssignReadsTank, Refuse, Await
<1>3. CASE AssignEndsCurrent(c)
  <2> DEFINE d == call[c].dev
  <2>1. /\ Moves(c)
        /\ call'[c].pc = "assign.save" /\ call'[c].dev = d
        /\ d \in Devs /\ call[c].pc = "assign.end"
    BY <1>3 DEF AssignEndsCurrent, DevInv, DevTypeOK, CallsOK, CallOK, Call, Moves
  <2>2. \A e \in Devs : ActiveOf(e)' = {a \in ActiveOf(e) : a.id # call[c].asg}
    BY <1>3 DEF AssignEndsCurrent, ActiveOf, Active
  <2>3. OneActivePerDevice'
    BY <2>2 DEF SerialInv, OneActivePerDevice
  <2>4. \A o \in Callers : o # c => call[o].pc = "idle" /\ call'[o].pc = "idle"
    BY <2>1 DEF SerialInv, OneCall, Moves
  <2>5. OneCall'
    BY <2>4 DEF OneCall
  <2>6. ActiveOf(d)' = {}
    BY <2>1, <2>2 DEF SerialInv, EndsTheActive
  <2>7. EndsTheActive'
    BY <2>1, <2>4, <2>6 DEF EndsTheActive
  <2> QED BY <2>3, <2>5, <2>7 DEF SerialInv
<1>4. CASE AssignSaves(c)
  <2> DEFINE d == call[c].dev
             n == [id |-> Cardinality(assigned) + 1, dev |-> d, tank |-> call[c].tank]
  <2>1. /\ Moves(c) /\ call'[c].pc = "idle" /\ call[c].pc = "assign.save"
        /\ assigned' = assigned \union {n} /\ ended' = ended
    BY <1>4, AnswerIsQuiet DEF AssignSaves
  <2>2. ActiveOf(d) = {}
    BY <2>1 DEF SerialInv, EndsTheActive
  <2>3. \A e \in Devs : ActiveOf(e)' \subseteq IF e = d THEN {n} ELSE ActiveOf(e)
    BY <2>1, <2>2 DEF ActiveOf, Active
  <2>4. OneActivePerDevice'
    BY <2>3 DEF SerialInv, OneActivePerDevice
  <2>5. \A o \in Callers : call'[o].pc = "idle"
    BY <2>1 DEF SerialInv, OneCall, Moves
  <2> QED BY <2>4, <2>5 DEF SerialInv, OneCall, EndsTheActive
<1>5. CASE SaveRegistered(c) \/ SaveUpdatedDevice(c) \/ SaveUpdatedTank(c) \/ EndTouch(c)
             \/ UnassignEnds(c)
  <2>1. /\ \E result : Answer(c, result)
        /\ call[c].pc # "idle" /\ assigned' = assigned /\ ended \subseteq ended'
    BY <1>5 DEF SaveRegistered, SaveUpdatedDevice, SaveUpdatedTank, EndTouch, UnassignEnds,
                WriteDevice, Refuse
  <2> QED BY <2>1, AnswerIsQuiet, QuietStep
<1> QED BY <1>1, <1>2, <1>3, <1>4, <1>5 DEF Continue

LEMMA CrashKeepsOneActive ==
  ASSUME DevInv, SerialInv, ~Overlap, NEW c \in Callers, Crash(c)
  PROVE  SerialInv'
BY AnswerIsQuiet, QuietStep DEF Crash

LEMMA SerialInvHolds ==
  ASSUME ~Overlap PROVE DevSpec => []SerialInv
<1>1. DevInit => SerialInv
  <2> SUFFICES ASSUME DevInit PROVE SerialInv
    OBVIOUS
  <2>1. \A c \in Callers : call[c].pc = "idle"
    BY DEF DevInit, Returned
  <2>2. \A d \in Devs : ActiveOf(d) = {}
    BY DEF DevInit, ActiveOf
  <2> QED BY <2>1, <2>2 DEF SerialInv, OneCall, EndsTheActive, OneActivePerDevice
<1>2. DevInv /\ SerialInv /\ [DevNext]_devVars => SerialInv'
  <2> SUFFICES ASSUME DevInv, SerialInv, [DevNext]_devVars PROVE SerialInv'
    OBVIOUS
  <2>1. CASE UNCHANGED devVars
    BY <2>1 DEF devVars, SerialInv, OneActivePerDevice, OneCall, EndsTheActive, ActiveOf, Active
  <2> QED BY <2>1, BeginKeepsOneActive, ContinueKeepsOneActive, CrashKeepsOneActive DEF DevNext
<1> QED BY <1>1, <1>2, DevInvHolds, PTL DEF DevSpec

\* As long as calls do not overlap, a device is attached to at most one tank,
\* wherever a call stops between ending the old assignment and saving the new.
THEOREM OneActiveWithoutOverlap ==
  ASSUME ~Overlap PROVE DevSpec => []OneActivePerDevice
<1>1. SerialInv => OneActivePerDevice
  BY DEF SerialInv
<1> QED BY <1>1, SerialInvHolds, PTL

-----------------------------------------------------------------------------
(* The history of assignments                                              *)

\* The rows are numbered as they are written, and only a row that was read is
\* ended.
NumberedInv ==
  /\ IsFiniteSet(assigned)
  /\ \A a \in assigned : a.id \in 1..Cardinality(assigned)
  /\ ended \subseteq 1..Cardinality(assigned)
  /\ \A c \in Callers : call[c].pc \in {"assign.end", "unassign.end"} =>
       call[c].asg \in 1..Cardinality(assigned)

OnlyEnds(c) ==
  /\ assigned' = assigned
  /\ ended' = ended \/ ended' = ended \union {call[c].asg}

LEMMA QuietIsNumbered ==
  ASSUME NumberedInv, NEW c \in Callers, Moves(c), OnlyEnds(c),
         ended' # ended => call[c].pc \in {"assign.end", "unassign.end"},
         call'[c].pc \in {"assign.end", "unassign.end"} => call'[c].asg \in 1..Cardinality(assigned)
  PROVE  NumberedInv'
BY DEF NumberedInv, OnlyEnds, Moves

LEMMA BeginIsNumbered ==
  ASSUME DevInv, NumberedInv, NEW c \in Callers, Begin(c)
  PROVE  NumberedInv' /\ UNCHANGED <<assigned, ended>>
<1>1. UNCHANGED <<assigned, ended>>
  BY DEF Begin, BeginRegister, BeginUpdateDevice, BeginUpdateTank, BeginTouch,
         BeginAssign, BeginUnassign, Refuse, Await, TouchNow
<1> DEFINE Numbered == /\ Moves(c)
                       /\ call'[c].pc \in {"assign.end", "unassign.end"} =>
                            call'[c].asg \in 1..Cardinality(assigned)
<1>2. call[c] \in Call /\ call \in [Callers -> Call]
  BY DEF DevInv, DevTypeOK
<1>3. ASSUME NEW d \in Devs, BeginUnassign(c, d) PROVE Numbered
  <2>1. CASE Refuse(c)
    BY <2>1, AnswerIsQuiet DEF Refuse
  <2>2. ASSUME NEW a \in FoundActive(d), a # Nil,
               Await(c, "unassign.end", [call[c] EXCEPT !.dev = d, !.asg = a.id])
        PROVE  Numbered
    <3>1. a.id \in 1..MaxAssignments /\ a.id \in 1..Cardinality(assigned)
      BY <2>2 DEF FoundActive, ActiveOf, DevInv, DevTypeOK, Assignment, NumberedInv
    <3>2. [call[c] EXCEPT !.dev = d, !.asg = a.id] \in Call
      BY <1>2, <3>1 DEF Call
    <3>3. [call[c] EXCEPT !.dev = d, !.asg = a.id].asg = a.id
      BY <1>2 DEF Call
    <3> QED BY <2>2, <3>1, <3>2, <3>3, AwaitMoves
  <2> QED BY <1>3, <2>1, <2>2 DEF BeginUnassign
<1>4. ASSUME ~\E d \in Devs : BeginUnassign(c, d) PROVE Numbered
  <2> DEFINE Quiet == Moves(c) /\ call'[c].pc \notin {"assign.end", "unassign.end"}
  <2>1. ASSUME NEW result, Answer(c, result) PROVE Quiet
    BY <2>1, AnswerIsQuiet
  <2>2. ASSUME NEW d \in Devs, BeginTouch(c, d) PROVE Quiet
    BY <1>2, <2>1, <2>2 DEF BeginTouch, TouchNow, Await, Call, Moves
  <2>3. ASSUME NEW d \in Devs, NEW s \in Serials, BeginRegister(c, d, s) PROVE Quiet
    BY <1>2, <2>1, <2>3 DEF BeginRegister, Refuse, Await, Call, Moves
  <2>4. ASSUME NEW d \in Devs, NEW p \in Patches, BeginUpdateDevice(c, d, p) PROVE Quiet
    BY <1>2, <2>1, <2>4 DEF BeginUpdateDevice, Refuse, Await, Call, Moves
  <2>5. ASSUME NEW t \in Tanks, NEW p, BeginUpdateTank(c, t, p) PROVE Quiet
    BY <1>2, <2>5 DEF BeginUpdateTank, Await, Call, Moves
  <2>6. ASSUME NEW d \in Devs, NEW t \in Tanks, BeginAssign(c, d, t) PROVE Quiet
    BY <1>2, <2>1, <2>6 DEF BeginAssign, Refuse, Await, Call, Moves
  <2> HIDE DEF Quiet
  <2>7. Quiet
    BY <1>4, <2>2, <2>3, <2>4, <2>5, <2>6 DEF Begin
  <2> QED BY <2>7 DEF Quiet
<1>5. Numbered
  BY <1>3, <1>4
<1> QED BY <1>1, <1>5, QuietIsNumbered DEF OnlyEnds

LEMMA AssignReadsCurrentIsNumbered ==
  ASSUME DevInv, NumberedInv, NEW c \in Callers, AssignReadsCurrent(c)
  PROVE  NumberedInv' /\ UNCHANGED <<assigned, ended>>
<1>1. PICK a \in FoundActive(call[c].dev) :
        IF a = Nil
        THEN Await(c, "assign.save", call[c])
        ELSE IF a.tank = call[c].tank
             THEN /\ Answer(c, "ok")
                  /\ current' = [current EXCEPT ![call[c].dev] = call[c].tank]
                  /\ UNCHANGED <<tank, device, assigned, ended>>
             ELSE Await(c, "assign.end", [call[c] EXCEPT !.asg = a.id])
  BY DEF AssignReadsCurrent
<1>2. UNCHANGED <<assigned, ended>>
  BY <1>1 DEF Await
<1>3. call[c] \in Call
  BY DEF DevInv, DevTypeOK
<1>4. CASE a = Nil
  BY <1>1, <1>2, <1>3, <1>4, AwaitMoves, QuietIsNumbered DEF OnlyEnds
<1>5. CASE a # Nil /\ a.tank = call[c].tank
  BY <1>1, <1>2, <1>5, AnswerIsQuiet, QuietIsNumbered DEF OnlyEnds
<1>6. CASE a # Nil /\ a.tank # call[c].tank
  <2>1. a.id \in 1..MaxAssignments /\ a.id \in 1..Cardinality(assigned)
    BY <1>6 DEF FoundActive, ActiveOf, DevInv, DevTypeOK, Assignment, NumberedInv
  <2>2. [call[c] EXCEPT !.asg = a.id] \in Call /\ [call[c] EXCEPT !.asg = a.id].asg = a.id
    BY <1>3, <2>1 DEF Call
  <2>3. Moves(c) /\ call'[c].asg = a.id
    BY <1>1, <1>6, <2>2, AwaitMoves
  <2> QED BY <1>2, <2>1, <2>3, QuietIsNumbered DEF OnlyEnds
<1> QED BY <1>2, <1>4, <1>5, <1>6

\* The row of one step, as HistoryKept says it.
Kept ==
  /\ assigned \subseteq assigned'
  /\ ended \subseteq ended'
  /\ \A a \in assigned' \ assigned : a.id \notin {b.id : b \in assigned} \union ended'

LEMMA ContinueIsNumbered ==
  ASSUME DevInv, NumberedInv, NEW c \in Callers, Continue(c)
  PROVE  NumberedInv' /\ Kept
<1>1. CASE AssignReadsCurrent(c)
  BY <1>1, AssignReadsCurrentIsNumbered DEF Kept
<1>2. CASE AssignReadsTank(c)
  <2>1. Moves(c) /\ call'[c].pc \notin {"assign.end", "unassign.end"}
    BY <1>2, AnswerIsQuiet, AwaitMoves DEF AssignReadsTank, Refuse, DevInv, DevTypeOK
  <2>2. UNCHANGED <<assigned, ended>>
    BY <1>2 DEF AssignReadsTank, Refuse, Await
  <2> QED BY <2>1, <2>2, QuietIsNumbered DEF Kept, OnlyEnds
<1>3. CASE AssignEndsCurrent(c)
  <2>1. /\ Moves(c) /\ call'[c].pc = "assign.save" /\ call[c].pc = "assign.end"
        /\ assigned' = assigned /\ ended' = ended \union {call[c].asg}
    BY <1>3 DEF AssignEndsCurrent, DevInv, DevTypeOK, Call, Moves
  <2> QED BY <2>1, QuietIsNumbered DEF Kept, OnlyEnds
<1>4. CASE AssignSaves(c)
  <2> DEFINE n == [id |-> Cardinality(assigned) + 1, dev |-> call[c].dev, tank |-> call[c].tank]
  <2>1. /\ Moves(c) /\ call'[c].pc = "idle"
        /\ assigned' = assigned \union {n} /\ ended' = ended
    BY <1>4, AnswerIsQuiet DEF AssignSaves
  <2>2. Cardinality(assigned) \in Nat
    BY FS_CardinalityType DEF NumberedInv
  <2>3. n \notin assigned
    BY <2>2 DEF NumberedInv
  <2>4. IsFiniteSet(assigned') /\ Cardinality(assigned') = Cardinality(assigned) + 1
    BY <2>1, <2>3, FS_AddElement DEF NumberedInv
  <2>5. \A a \in assigned' : a.id \in 1..Cardinality(assigned')
    BY <2>1, <2>2, <2>4 DEF NumberedInv
  <2>6. \A o \in Callers : call'[o].pc \in {"assign.end", "unassign.end"} =>
          call'[o].asg \in 1..Cardinality(assigned)
    BY <2>1 DEF NumberedInv, Moves
  <2>7. NumberedInv'
    <3>1. 1..Cardinality(assigned) \subseteq 1..Cardinality(assigned')
      BY <2>2, <2>4
    <3> QED BY <2>1, <2>4, <2>5, <2>6, <3>1 DEF NumberedInv
  <2>8. Kept
    BY <2>1, <2>2 DEF NumberedInv, Kept
  <2> QED BY <2>7, <2>8
<1>5. CASE SaveRegistered(c) \/ SaveUpdatedDevice(c) \/ SaveUpdatedTank(c) \/ EndTouch(c)
  <2>1. (\E result : Answer(c, result)) /\ UNCHANGED <<assigned, ended>>
    BY <1>5 DEF SaveRegistered, SaveUpdatedDevice, SaveUpdatedTank, EndTouch, WriteDevice, Refuse
  <2> QED BY <2>1, AnswerIsQuiet, QuietIsNumbered DEF Kept, OnlyEnds
<1>6. CASE UnassignEnds(c)
  <2>1. /\ Moves(c) /\ call'[c].pc = "idle" /\ call[c].pc = "unassign.end"
        /\ assigned' = assigned /\ ended' = ended \union {call[c].asg}
    BY <1>6, AnswerIsQuiet DEF UnassignEnds
  <2> QED BY <2>1, QuietIsNumbered DEF Kept, OnlyEnds
<1> QED BY <1>1, <1>2, <1>3, <1>4, <1>5, <1>6 DEF Continue

LEMMA NumberedInit == DevInit => NumberedInv
<1> SUFFICES ASSUME DevInit PROVE NumberedInv
  OBVIOUS
<1>1. \A c \in Callers : call[c].pc = "idle"
  BY DEF DevInit, Returned
<1>2. IsFiniteSet(assigned) /\ Cardinality(assigned) = 0
  BY FS_EmptySet DEF DevInit
<1> QED BY <1>1, <1>2 DEF DevInit, NumberedInv

LEMMA NumberedNext ==
  DevInv /\ NumberedInv /\ [DevNext]_devVars => NumberedInv' /\ [Kept]_devVars
<1> SUFFICES ASSUME DevInv, NumberedInv, [DevNext]_devVars PROVE NumberedInv' /\ [Kept]_devVars
  OBVIOUS
<1>1. CASE UNCHANGED devVars
  BY <1>1 DEF devVars, NumberedInv
<1>2. ASSUME NEW c \in Callers, Begin(c) PROVE NumberedInv' /\ Kept
  BY <1>2, BeginIsNumbered DEF Kept
<1>3. ASSUME NEW c \in Callers, Crash(c) PROVE NumberedInv' /\ Kept
  BY <1>3, AnswerIsQuiet, QuietIsNumbered DEF Crash, Kept, OnlyEnds
<1> QED BY <1>1, <1>2, <1>3, ContinueIsNumbered DEF DevNext

LEMMA NumberedHolds == DevSpec => []NumberedInv
BY NumberedInit, NumberedNext, DevInvHolds, PTL DEF DevSpec

\* Nothing that assign, unassign or a crash does, in any interleaving, deletes
\* or reopens an assignment: what a device measured once stays known.
THEOREM HistoryIsKept == DevSpec => HistoryKept
<1>1. DevInv /\ NumberedInv /\ [DevNext]_devVars => [Kept]_devVars
  BY NumberedNext
<1>2. HistoryKept <=> [][Kept]_devVars
  BY DEF HistoryKept, Kept
<1> QED BY <1>1, <1>2, NumberedHolds, DevInvHolds, PTL DEF DevSpec

-----------------------------------------------------------------------------
(* The current assignment                                                  *)

IdsUnique == \A a, b \in assigned : a.id = b.id => a = b

\* The assignment a call is about to end is one of its device, and the only
\* active one; a call that has yet to find one has none in hand.
EndsItsOwn ==
  \A c \in Callers :
    /\ call[c].pc \in {"assign.end", "unassign.end"} =>
         /\ \E a \in assigned : a.dev = call[c].dev /\ a.id = call[c].asg
         /\ \A a \in ActiveOf(call[c].dev) : a.id = call[c].asg
    /\ call[c].pc \in {"idle", "assign.tank", "assign.current"} => call[c].asg = Nil

Agrees(d) == {a.tank : a \in ActiveOf(d)} = {current[d]} \ {Nil}

\* The one moment at which the promise is not kept: the old assignment is
\* ended, and the new one not yet saved.
Reassigning(c, d) == call[c].pc = "assign.save" /\ call[c].dev = d /\ call[c].asg # Nil

CurrentInv ==
  /\ IdsUnique
  /\ EndsItsOwn
  /\ \A d \in Devs : Agrees(d) \/ \E c \in Callers : Reassigning(c, d)

-----------------------------------------------------------------------------
(* Retired devices                                                         *)

\* What touch has read is still so when it writes.
TouchFresh == \A c \in Callers : call[c].pc = "touch.write" => device[call[c].dev] = call[c].row

\* A call that begins moves alone, and if it waits to write a touch, it has
\* just read the device.
LEMMA BeginsToTouch ==
  ASSUME DevInv, NEW c \in Callers, Begin(c)
  PROVE  /\ Moves(c) /\ MayBegin(c)
         /\ call'[c].pc = "touch.write" =>
              Database /\ UNCHANGED device /\ device[call'[c].dev] = call'[c].row
<1> DEFINE Fresh == Moves(c) /\ (call'[c].pc = "touch.write" =>
                      Database /\ UNCHANGED device /\ device[call'[c].dev] = call'[c].row)
<1>1. MayBegin(c)
  BY DEF Begin, BeginRegister, BeginUpdateDevice, BeginUpdateTank, BeginTouch, BeginAssign,
         BeginUnassign
<1>2. call[c] \in Call /\ call \in [Callers -> Call]
  BY DEF DevInv, DevTypeOK
<1>3. ASSUME NEW result, Answer(c, result) PROVE Fresh
  BY <1>3, AnswerIsQuiet
<1>4. ASSUME NEW d \in Devs, BeginTouch(c, d) PROVE Fresh
  <2>1. CASE device[d] = Nil \/ ~Database
    <3>1. Answer(c, "ok") BY <1>4, <2>1 DEF BeginTouch, TouchNow
    <3> QED BY <3>1, <1>3
  <2>2. CASE device[d] # Nil /\ Database
    <3> DEFINE next == [call[c] EXCEPT !.dev = d, !.row = device[d]]
    <3>1. Await(c, "touch.write", next)
      BY <1>4, <2>2 DEF BeginTouch
    <3>2. next \in Call /\ next.dev = d /\ next.row = device[d]
      BY <1>2, <2>2 DEF Call, DevInv, DevTypeOK
    <3> HIDE DEF next
    <3>3. call' = [call EXCEPT ![c] = [next EXCEPT !.pc = "touch.write", !.result = "none"]]
      BY <3>1 DEF Await
    <3>4. call'[c].dev = d /\ call'[c].row = device[d] /\ Moves(c)
      BY <1>2, <3>2, <3>3 DEF Call, Moves
    <3> QED BY <2>2, <3>1, <3>4 DEF Await
  <2> QED BY <2>1, <2>2
<1>5. ASSUME ~\E d \in Devs : BeginTouch(c, d) PROVE Fresh
  <2> DEFINE Quiet == Moves(c) /\ call'[c].pc # "touch.write"
  <2>1. ASSUME NEW result, Answer(c, result) PROVE Quiet
    BY <2>1, AnswerIsQuiet
  <2>2. ASSUME NEW d \in Devs, BeginUnassign(c, d) PROVE Quiet
    <3>1. CASE Refuse(c)
      BY <2>1, <3>1 DEF Refuse
    <3>2. ASSUME NEW a \in FoundActive(d), a # Nil,
                 Await(c, "unassign.end", [call[c] EXCEPT !.dev = d, !.asg = a.id])
          PROVE  Quiet
      <4>1. a.id \in 1..MaxAssignments
        BY <3>2 DEF FoundActive, ActiveOf, DevInv, DevTypeOK, Assignment
      <4>2. [call[c] EXCEPT !.dev = d, !.asg = a.id] \in Call
        BY <1>2, <4>1 DEF Call
      <4> QED BY <3>2, <4>2, AwaitMoves
    <3> QED BY <2>2, <3>1, <3>2 DEF BeginUnassign
  <2>3. ASSUME NEW d \in Devs, NEW s \in Serials, BeginRegister(c, d, s) PROVE Quiet
    BY <1>2, <2>1, <2>3 DEF BeginRegister, Refuse, Await, Call, Moves
  <2>4. ASSUME NEW d \in Devs, NEW p \in Patches, BeginUpdateDevice(c, d, p) PROVE Quiet
    BY <1>2, <2>1, <2>4 DEF BeginUpdateDevice, Refuse, Await, Call, Moves
  <2>5. ASSUME NEW t \in Tanks, NEW p, BeginUpdateTank(c, t, p) PROVE Quiet
    BY <1>2, <2>5 DEF BeginUpdateTank, Await, Call, Moves
  <2>6. ASSUME NEW d \in Devs, NEW t \in Tanks, BeginAssign(c, d, t) PROVE Quiet
    BY <1>2, <2>1, <2>6 DEF BeginAssign, Refuse, Await, Call, Moves
  <2> HIDE DEF Quiet
  <2>7. Quiet
    BY <1>5, <2>2, <2>3, <2>4, <2>5, <2>6 DEF Begin
  <2> QED BY <2>7 DEF Quiet
<1>6. Fresh
  BY <1>4, <1>5
<1> QED BY <1>1, <1>6

LEMMA NobodyElseTouches ==
  ASSUME DevInv, NEW c \in Callers, Continue(c) \/ Crash(c)
  PROVE  Moves(c) /\ call[c].pc # "idle" /\ call'[c].pc # "touch.write"
<1> DEFINE Quiet == Moves(c) /\ call'[c].pc # "touch.write"
<1>1. call[c].pc # "idle"
  BY DEF Continue, Crash, SaveRegistered, SaveUpdatedDevice, SaveUpdatedTank, EndTouch,
         AssignReadsTank, AssignReadsCurrent, AssignEndsCurrent, AssignSaves, UnassignEnds
<1>2. call[c] \in Call /\ call \in [Callers -> Call]
  BY DEF DevInv, DevTypeOK
<1>3. ASSUME NEW result, Answer(c, result) PROVE Quiet
  BY <1>3, AnswerIsQuiet
<1>4. CASE AssignReadsTank(c)
  BY <1>1, <1>2, <1>3, <1>4, AwaitMoves DEF AssignReadsTank, Refuse
<1>5. CASE AssignReadsCurrent(c)
  <2>1. ASSUME Await(c, "assign.save", call[c]) PROVE Quiet
    BY <1>2, <2>1, AwaitMoves
  <2>2. ASSUME Answer(c, "ok") PROVE Quiet
    BY <1>3, <2>2
  <2>3. ASSUME NEW a \in assigned, Await(c, "assign.end", [call[c] EXCEPT !.asg = a.id])
        PROVE  Quiet
    <3>1. a.id \in 1..MaxAssignments
      BY DEF DevInv, DevTypeOK, Assignment
    <3>2. [call[c] EXCEPT !.asg = a.id] \in Call
      BY <1>2, <3>1 DEF Call
    <3> QED BY <2>3, <3>2, AwaitMoves
  <2> HIDE DEF Quiet
  <2>4. Quiet
    BY <1>5, <2>1, <2>2, <2>3 DEF AssignReadsCurrent, FoundActive, ActiveOf
  <2> QED BY <1>1, <2>4 DEF Quiet
<1>6. CASE AssignEndsCurrent(c)
  BY <1>1, <1>2, <1>6 DEF AssignEndsCurrent, Call, Moves
<1>7. CASE \/ SaveRegistered(c) \/ SaveUpdatedDevice(c) \/ SaveUpdatedTank(c) \/ EndTouch(c)
           \/ AssignSaves(c) \/ UnassignEnds(c) \/ Crash(c)
  <2>1. \E result : Answer(c, result)
    BY <1>7 DEF SaveRegistered, SaveUpdatedDevice, SaveUpdatedTank, EndTouch, AssignSaves,
                UnassignEnds, Crash, WriteDevice, Refuse
  <2> QED BY <1>1, <1>3, <2>1
<1> QED BY <1>1, <1>4, <1>5, <1>6, <1>7 DEF Continue

\* What a step may do to a retired device, as OnlyOperatorsRestore says it.
Restored ==
  \A d \in Devs :
    device[d] # Nil /\ device[d].status = "retired" /\ device'[d] # device[d] =>
      \E c \in Callers : call[c].pc \in {"device.save", "register.save"}
                         /\ call[c].dev = d /\ call'[c].pc = "idle"

\* As long as no touch writes on what is no longer so, only the updates and
\* registrations bring a retired device back.
LEMMA FreshRestores ==
  ASSUME DevInv, TouchFresh, [DevNext]_devVars
  PROVE  [Restored]_devVars
<1>1. ASSUME UNCHANGED device PROVE Restored
  BY <1>1 DEF Restored
<1>2. ASSUME NEW c \in Callers, SaveRegistered(c) \/ SaveUpdatedDevice(c) PROVE Restored
  <2>1. call[c].pc \in {"device.save", "register.save"} /\ WriteDevice(c)
    BY <1>2 DEF SaveRegistered, SaveUpdatedDevice
  <2>2. call'[c].pc = "idle"
    BY <2>1, AnswerIsQuiet DEF WriteDevice, Refuse
  <2>3. \A d \in Devs : device'[d] # device[d] => d = call[c].dev
    BY <2>1 DEF WriteDevice, Refuse, DevInv, DevTypeOK
  <2> QED BY <2>1, <2>2, <2>3 DEF Restored
<1>3. ASSUME NEW c \in Callers, EndTouch(c) PROVE Restored
  <2>1. device[call[c].dev] = call[c].row
    BY <1>3 DEF TouchFresh, EndTouch
  <2>2. \A d \in Devs : device'[d] # device[d] => d = call[c].dev /\ device[d].status = "registered"
    BY <1>3, <2>1 DEF EndTouch, DevInv, DevTypeOK
  <2> QED BY <2>2 DEF Restored
<1>4. ASSUME NEW c \in Callers, NEW d \in Devs, TouchNow(c, d) PROVE Restored
  BY <1>4 DEF TouchNow, Restored, DevInv, DevTypeOK
<1>5. ASSUME NEW c \in Callers, Begin(c) PROVE Restored
  <2>1. UNCHANGED device \/ \E d \in Devs : TouchNow(c, d)
    BY <1>5 DEF Begin, BeginRegister, BeginUpdateDevice, BeginUpdateTank, BeginTouch,
                BeginAssign, BeginUnassign, Refuse, Await
  <2> QED BY <1>1, <1>4, <2>1
<1>6. ASSUME NEW c \in Callers,
             \/ SaveUpdatedTank(c) \/ AssignReadsTank(c) \/ AssignReadsCurrent(c)
             \/ AssignEndsCurrent(c) \/ AssignSaves(c) \/ UnassignEnds(c) \/ Crash(c)
      PROVE  UNCHANGED device
  BY <1>6 DEF SaveUpdatedTank, AssignReadsTank, AssignReadsCurrent, AssignEndsCurrent,
              AssignSaves, UnassignEnds, Crash, Refuse, Await
<1> QED BY <1>1, <1>2, <1>3, <1>5, <1>6 DEF DevNext, Continue, devVars

LEMMA SerialTouchIsFresh ==
  ASSUME ~Overlap PROVE DevSpec => []TouchFresh
<1>1. DevInit => TouchFresh
  BY DEF DevInit, TouchFresh, Returned
<1>2. DevInv /\ SerialInv /\ TouchFresh /\ [DevNext]_devVars => TouchFresh'
  <2> SUFFICES ASSUME DevInv, SerialInv, TouchFresh, [DevNext]_devVars PROVE TouchFresh'
    OBVIOUS
  <2>1. CASE UNCHANGED devVars
    BY <2>1 DEF devVars, TouchFresh
  <2>2. ASSUME NEW c \in Callers, Begin(c) \/ Continue(c) \/ Crash(c) PROVE TouchFresh'
    <3>1. Moves(c) /\ (MayBegin(c) \/ call[c].pc # "idle")
      BY <2>2, BeginsToTouch, NobodyElseTouches
    <3>2. \A o \in Callers \ {c} : call'[o].pc = "idle"
      BY <3>1 DEF MayBegin, SerialInv, OneCall, Moves
    <3>3. call'[c].pc = "touch.write" => device'[call'[c].dev] = call'[c].row
      BY <2>2, BeginsToTouch, NobodyElseTouches
    <3> QED BY <3>2, <3>3 DEF TouchFresh
  <2> QED BY <2>1, <2>2 DEF DevNext
<1> QED BY <1>1, <1>2, DevInvHolds, SerialInvHolds, PTL DEF DevSpec

NoTouchWaits == \A c \in Callers : call[c].pc # "touch.write"

LEMMA MemoryTouchIsOneStep ==
  ASSUME ~Database PROVE DevSpec => []NoTouchWaits
<1>1. DevInit => NoTouchWaits
  BY DEF DevInit, NoTouchWaits, Returned
<1>2. DevInv /\ NoTouchWaits /\ [DevNext]_devVars => NoTouchWaits'
  <2> SUFFICES ASSUME DevInv, NoTouchWaits, [DevNext]_devVars PROVE NoTouchWaits'
    OBVIOUS
  <2>1. CASE UNCHANGED devVars
    BY <2>1 DEF devVars, NoTouchWaits
  <2>2. ASSUME NEW c \in Callers, Begin(c) \/ Continue(c) \/ Crash(c) PROVE NoTouchWaits'
    BY <2>2, BeginsToTouch, NobodyElseTouches DEF NoTouchWaits, Moves
  <2> QED BY <2>1, <2>2 DEF DevNext
<1> QED BY <1>1, <1>2, DevInvHolds, PTL DEF DevSpec

\* A retired device stays retired until an operator updates or registers it
\* (OnlyOperatorsRestore), as long as calls do not overlap.
THEOREM RetiredStayWithoutOverlap ==
  ASSUME ~Overlap PROVE DevSpec => OnlyOperatorsRestore
<1>1. DevInv /\ TouchFresh /\ [DevNext]_devVars => [Restored]_devVars
  BY FreshRestores
<1>2. OnlyOperatorsRestore <=> [][Restored]_devVars
  BY DEF OnlyOperatorsRestore, Restored
<1> QED BY <1>1, <1>2, DevInvHolds, SerialTouchIsFresh, PTL DEF DevSpec

\* Over the memory adapter it does so whatever overlaps (OnlyOperatorsRestore),
\* as touch reads and writes in one step there.
THEOREM RetiredStayInMemory ==
  ASSUME ~Database PROVE DevSpec => OnlyOperatorsRestore
<1>1. DevInv /\ NoTouchWaits /\ [DevNext]_devVars => [Restored]_devVars
  BY FreshRestores DEF NoTouchWaits, TouchFresh
<1>2. OnlyOperatorsRestore <=> [][Restored]_devVars
  BY DEF OnlyOperatorsRestore, Restored
<1> QED BY <1>1, <1>2, DevInvHolds, MemoryTouchIsOneStep, PTL DEF DevSpec
-----------------------------------------------------------------------------
(* What the last answer promised                                           *)

\* A step that writes no assignment and promises nothing, and leaves nobody in
\* the middle of ending or saving one.
LEMMA QuietIsCurrent ==
  ASSUME SerialInv, CurrentInv, NEW c \in Callers, Moves(c),
         MayBegin(c) \/ call[c].pc \notin {"idle", "assign.save"}, ~Overlap,
         UNCHANGED <<assigned, ended, current>>,
         call'[c].pc \notin {"assign.end", "unassign.end"},
         call'[c].pc \in {"idle", "assign.tank", "assign.current"} => call'[c].asg = Nil
  PROVE  CurrentInv'
<1>1. \A o \in Callers \ {c} : call[o].pc = "idle" /\ call'[o] = call[o]
  BY DEF MayBegin, SerialInv, OneCall, Moves
<1>2. IdsUnique'
  BY DEF CurrentInv, IdsUnique
<1>3. EndsItsOwn'
  BY <1>1 DEF CurrentInv, EndsItsOwn
<1>4. ASSUME NEW d \in Devs PROVE Agrees(d)'
  <2>1. ~\E o \in Callers : Reassigning(o, d)
    BY <1>1 DEF Reassigning, MayBegin
  <2>2. Agrees(d)
    BY <2>1 DEF CurrentInv
  <2> QED BY <2>2 DEF Agrees, ActiveOf, Active
<1> QED BY <1>2, <1>3, <1>4 DEF CurrentInv

\* With no call in the middle, every device has what was promised.
LEMMA OthersAgree ==
  ASSUME SerialInv, CurrentInv, NEW c \in Callers, call[c].pc # "idle", NEW d \in Devs,
         ~Reassigning(c, d)
  PROVE  Agrees(d)
BY DEF SerialInv, OneCall, CurrentInv, Reassigning

\* A call that has found the assignment it will end.
LEMMA OwnEnd ==
  ASSUME EndsItsOwn, NEW c \in Callers, NEW d \in Devs, NEW a \in assigned, a.dev = d,
         \A b \in ActiveOf(d) : b.id = a.id,
         UNCHANGED <<assigned, ended>>,
         call'[c].pc \in {"assign.end", "unassign.end"}, call'[c].dev = d, call'[c].asg = a.id,
         \A o \in Callers \ {c} : call'[o] = call[o] /\ call[o].pc = "idle"
  PROVE  EndsItsOwn'
<1>1. ActiveOf(d)' = ActiveOf(d)
  BY DEF ActiveOf, Active
<1>2. \A o \in Callers \ {c} : call'[o].pc = "idle" /\ call'[o].asg = Nil
  BY DEF EndsItsOwn
<1>3. \E b \in assigned' : b.dev = call'[c].dev /\ b.id = call'[c].asg
  OBVIOUS
<1>4. \A b \in ActiveOf(call[c].dev)' : b.id = call'[c].asg
  BY DEF ActiveOf, Active
<1>5. call'[c].pc \notin {"idle", "assign.tank", "assign.current"}
  OBVIOUS
<1> QED BY <1>2, <1>3, <1>4, <1>5 DEF EndsItsOwn

LEMMA BeginIsCurrent ==
  ASSUME DevInv, SerialInv, CurrentInv, ~Overlap, NEW c \in Callers, Begin(c)
  PROVE  CurrentInv'
<1>1. MayBegin(c) /\ Moves(c)
  BY BeginsToTouch
<1>2. UNCHANGED <<assigned, ended, current>>
  BY DEF Begin, BeginRegister, BeginUpdateDevice, BeginUpdateTank, BeginTouch,
         BeginAssign, BeginUnassign, Refuse, Await, TouchNow
<1>3. call[c] \in Call /\ call \in [Callers -> Call] /\ call[c].asg = Nil
  BY <1>1 DEF DevInv, DevTypeOK, MayBegin, CurrentInv, EndsItsOwn
<1> DEFINE Quiet == /\ call'[c].pc \notin {"assign.end", "unassign.end"}
                    /\ call'[c].pc \in {"idle", "assign.tank", "assign.current"} =>
                         call'[c].asg = Nil
<1>4. ASSUME Quiet PROVE CurrentInv'
  BY <1>1, <1>2, <1>4, QuietIsCurrent
<1>5. ASSUME NEW result, Answer(c, result) PROVE Quiet
  BY <1>3, <1>5 DEF Answer, Returned
<1>51. ASSUME NEW pc \in CallPc \ {"assign.end", "unassign.end"}, NEW next,
             Await(c, pc, next), next \in Call, next.asg = Nil
      PROVE  Quiet
  BY <1>51, AwaitMoves
<1>6. ASSUME NEW d \in Devs, BeginTouch(c, d) PROVE Quiet
  <2> DEFINE next == [call[c] EXCEPT !.dev = d, !.row = device[d]]
  <2>1. next \in Call /\ next.asg = Nil /\ "touch.write" \in CallPc
    BY <1>3 DEF Call, CallPc, DevInv, DevTypeOK
  <2> HIDE DEF next
  <2>2. Answer(c, "ok") \/ Await(c, "touch.write", next)
    BY <1>6 DEF BeginTouch, TouchNow, next
  <2> QED BY <1>5, <1>51, <2>1, <2>2
<1>7. ASSUME NEW d \in Devs, NEW s \in Serials, BeginRegister(c, d, s) PROVE Quiet
  <2> DEFINE next == [call[c] EXCEPT !.dev = d, !.row = [serial |-> s, status |-> "registered"]]
  <2>1. next \in Call /\ next.asg = Nil /\ "register.save" \in CallPc
    BY <1>3 DEF Call, CallPc, DeviceRow, DeviceStatus
  <2> HIDE DEF next
  <2>2. Answer(c, "refused") \/ Await(c, "register.save", next)
    BY <1>7 DEF BeginRegister, Refuse, next
  <2> QED BY <1>5, <1>51, <2>1, <2>2
<1>8. ASSUME NEW d \in Devs, NEW p \in Patches, BeginUpdateDevice(c, d, p) PROVE Quiet
  <2> DEFINE next == [call[c] EXCEPT !.dev = d, !.row = Patched(device[d], p)]
  <2>1. CASE Answer(c, "refused")
    BY <1>5, <2>1
  <2>2. CASE device[d] # Nil /\ Await(c, "device.save", next)
    <3>1. Patched(device[d], p) \in DeviceRow
      BY <2>2, DevicesAssumption DEF Patched, DevInv, DevTypeOK, DeviceRow, DeviceStatus
    <3>2. next \in Call /\ next.asg = Nil /\ "device.save" \in CallPc
      BY <1>3, <3>1 DEF Call, CallPc
    <3> HIDE DEF next
    <3> QED BY <1>51, <2>2, <3>2
  <2> QED BY <1>8, <2>1, <2>2 DEF BeginUpdateDevice, Refuse
<1>9. ASSUME NEW t \in Tanks, NEW p \in TankStatus \union {Nil}, BeginUpdateTank(c, t, p)
      PROVE  Quiet
  <2> DEFINE status == IF p = Nil THEN tank[t] ELSE p
  <2> DEFINE next == [call[c] EXCEPT !.tank = t, !.status = status]
  <2>0. next = [call[c] EXCEPT !.tank = t, !.status = IF p = Nil THEN tank[t] ELSE p]
    OBVIOUS
  <2>1. status \in TankStatus
    BY DEF DevInv, DevTypeOK
  <2> HIDE DEF status
  <2>2. next \in Call /\ next.asg = Nil /\ "tank.save" \in CallPc
    BY <1>3, <2>1 DEF Call, CallPc
  <2>3. Await(c, "tank.save", next)
    BY <1>9, <2>0 DEF BeginUpdateTank
  <2> HIDE DEF next
  <2> QED BY <1>51, <2>2, <2>3
<1>10. ASSUME NEW d \in Devs, NEW t \in Tanks, BeginAssign(c, d, t) PROVE Quiet
  <2> DEFINE next == [call[c] EXCEPT !.dev = d, !.tank = t]
  <2>1. next \in Call /\ next.asg = Nil /\ "assign.tank" \in CallPc
    BY <1>3 DEF Call, CallPc
  <2> HIDE DEF next
  <2>2. Answer(c, "refused") \/ Await(c, "assign.tank", next)
    BY <1>10 DEF BeginAssign, Refuse, next
  <2> QED BY <1>5, <1>51, <2>1, <2>2
<1>11. ASSUME NEW d \in Devs, BeginUnassign(c, d) PROVE CurrentInv'
  <2>1. CASE Refuse(c)
    BY <1>4, <1>5, <2>1 DEF Refuse
  <2>2. ASSUME NEW a \in FoundActive(d), a # Nil,
               Await(c, "unassign.end", [call[c] EXCEPT !.dev = d, !.asg = a.id])
        PROVE  CurrentInv'
    <3>1. a \in ActiveOf(d) /\ a \in assigned /\ a.dev = d /\ a.id \in 1..MaxAssignments
      BY <2>2 DEF FoundActive, ActiveOf, DevInv, DevTypeOK, Assignment
    <3> DEFINE next == [call[c] EXCEPT !.dev = d, !.asg = a.id]
    <3>2. next \in Call /\ next.dev = d /\ next.asg = a.id
      BY <1>3, <3>1 DEF Call
    <3> HIDE DEF next
    <3>3. call'[c].pc = "unassign.end" /\ call'[c].dev = d /\ call'[c].asg = a.id
      BY <2>2, <3>2, AwaitMoves DEF next
    <3>4. \A b \in ActiveOf(d) : b.id = a.id
      BY <3>1 DEF SerialInv, OneActivePerDevice
    <3>5. \A o \in Callers : call[o].pc = "idle"
      BY <1>1 DEF MayBegin
    <3>6. \A o \in Callers \ {c} : call'[o] = call[o]
      BY <1>1 DEF Moves
    <3>7. \A e \in Devs : ActiveOf(e)' = ActiveOf(e)
      BY <1>2 DEF ActiveOf, Active
    <3>8. EndsItsOwn'
      BY <1>2, <3>1, <3>3, <3>4, <3>5, <3>6, OwnEnd DEF CurrentInv
    <3>9. \A e \in Devs : Agrees(e)'
      BY <1>2, <3>5, <3>7 DEF CurrentInv, Reassigning, Agrees
    <3> QED BY <1>2, <3>8, <3>9 DEF CurrentInv, IdsUnique
  <2> QED BY <1>11, <2>1, <2>2 DEF BeginUnassign
<1> HIDE DEF Quiet
<1> QED BY <1>4, <1>6, <1>7, <1>8, <1>9, <1>10, <1>11 DEF Begin

LEMMA AssignReadsCurrentIsCurrent ==
  ASSUME DevInv, SerialInv, CurrentInv, ~Overlap, NEW c \in Callers, AssignReadsCurrent(c)
  PROVE  CurrentInv'
<1> DEFINE d == call[c].dev
<1>1. /\ call[c].pc = "assign.current" /\ call[c] \in Call /\ d \in Devs
      /\ call[c].tank \in Tanks /\ call[c].asg = Nil /\ call \in [Callers -> Call]
  BY DEF DevInv, DevTypeOK, CallsOK, CallOK, AssignReadsCurrent, CurrentInv, EndsItsOwn
<1>2. PICK a \in FoundActive(d) :
        IF a = Nil
        THEN Await(c, "assign.save", call[c])
        ELSE IF a.tank = call[c].tank
             THEN /\ Answer(c, "ok")
                  /\ current' = [current EXCEPT ![d] = call[c].tank]
                  /\ UNCHANGED <<tank, device, assigned, ended>>
             ELSE Await(c, "assign.end", [call[c] EXCEPT !.asg = a.id])
  BY DEF AssignReadsCurrent
<1>3. CASE a = Nil
  <2>1. Await(c, "assign.save", call[c])
    BY <1>2, <1>3
  <2>2. Moves(c) /\ call'[c].pc = "assign.save"
    BY <1>1, <2>1, AwaitMoves
  <2>3. UNCHANGED <<assigned, ended, current>>
    BY <2>1 DEF Await
  <2> QED BY <1>1, <2>2, <2>3, QuietIsCurrent
<1>4. CASE a # Nil /\ a.tank = call[c].tank
  <2>1. Agrees(d)
    BY <1>1, OthersAgree DEF Reassigning
  <2>2. a \in ActiveOf(d)
    BY <1>4 DEF FoundActive
  <2>3. current[d] = call[c].tank
    BY <1>4, <2>1, <2>2 DEF Agrees
  <2>4. current' = current
    BY <1>1, <1>2, <1>4, <2>3 DEF DevInv, DevTypeOK
  <2>5. Moves(c) /\ call'[c].pc = "idle" /\ call'[c].asg = Nil
    BY <1>1, <1>2, <1>4, AnswerIsQuiet DEF Answer, Returned
  <2> QED BY <1>1, <1>2, <1>4, <2>4, <2>5, QuietIsCurrent
<1>5. CASE a # Nil /\ a.tank # call[c].tank
  <2>1. a \in ActiveOf(d) /\ a \in assigned /\ a.dev = d /\ a.id \in 1..MaxAssignments
    BY <1>5 DEF FoundActive, ActiveOf, DevInv, DevTypeOK, Assignment
  <2> DEFINE next == [call[c] EXCEPT !.asg = a.id]
  <2>2. next \in Call /\ next.dev = d /\ next.asg = a.id
    BY <1>1, <2>1 DEF Call
  <2> HIDE DEF next
  <2>21. Await(c, "assign.end", next)
    BY <1>2, <1>5 DEF next
  <2>22. call'[c].pc = "assign.end" /\ call'[c].dev = d /\ call'[c].asg = a.id /\ Moves(c)
    BY <2>2, <2>21, AwaitMoves
  <2>3. /\ call'[c].pc = "assign.end" /\ call'[c].dev = d /\ call'[c].asg = a.id /\ Moves(c)
        /\ UNCHANGED <<assigned, ended, current>>
    BY <2>21, <2>22 DEF Await
  <2>4. \A b \in ActiveOf(d) : b.id = a.id
    BY <1>1, <2>1 DEF SerialInv, OneActivePerDevice
  <2>5. \A e \in Devs : ActiveOf(e)' = ActiveOf(e) /\ Agrees(e)
    BY <1>1, <2>3, OthersAgree DEF ActiveOf, Active, Reassigning
  <2>6. EndsItsOwn'
    <3>1. \A o \in Callers \ {c} : call'[o] = call[o] /\ call[o].pc = "idle"
      BY <1>1, <2>3 DEF Moves, SerialInv, OneCall
    <3> QED BY <1>1, <2>1, <2>3, <2>4, <3>1, OwnEnd DEF CurrentInv
  <2> QED BY <2>3, <2>5, <2>6 DEF CurrentInv, IdsUnique, Agrees
<1> QED BY <1>3, <1>4, <1>5
\* Ending the assignment in hand leaves its device without one, and no other
\* device's untouched: the ids tell the rows apart.
LEMMA EndsOne ==
  ASSUME SerialInv, CurrentInv, NEW c \in Callers, NEW d \in Devs, call[c].dev = d,
         call[c].pc \in {"assign.end", "unassign.end"},
         assigned' = assigned, ended' = ended \union {call[c].asg}
  PROVE  /\ ActiveOf(d)' = {}
         /\ \A e \in Devs \ {d} : ActiveOf(e)' = ActiveOf(e)
<1>1. PICK a \in assigned : a.dev = d /\ a.id = call[c].asg
  BY DEF CurrentInv, EndsItsOwn
<1>2. \A b \in ActiveOf(d) : b.id = call[c].asg
  BY DEF CurrentInv, EndsItsOwn
<1>3. \A e \in Devs : ActiveOf(e)' = {b \in ActiveOf(e) : b.id # call[c].asg}
  BY DEF ActiveOf, Active
<1>4. ASSUME NEW e \in Devs \ {d}, NEW b \in ActiveOf(e) PROVE b.id # call[c].asg
  BY <1>1 DEF CurrentInv, IdsUnique, ActiveOf
<1> QED BY <1>2, <1>3, <1>4

LEMMA AssignEndsCurrentIsCurrent ==
  ASSUME DevInv, SerialInv, CurrentInv, NEW c \in Callers, AssignEndsCurrent(c)
  PROVE  CurrentInv'
<1>0. PICK d \in Devs : call[c].dev = d
  BY DEF AssignEndsCurrent, DevInv, CallsOK, CallOK
<1>1. /\ call[c].pc = "assign.end" /\ call[c].asg \in 1..MaxAssignments
      /\ call[c] \in Call /\ call \in [Callers -> Call]
  BY DEF AssignEndsCurrent, DevInv, DevTypeOK, CallsOK, CallOK
<1>2. /\ call'[c].pc = "assign.save" /\ call'[c].dev = d /\ call'[c].asg = call[c].asg
      /\ \A o \in Callers \ {c} : call'[o] = call[o]
      /\ assigned' = assigned /\ ended' = ended \union {call[c].asg} /\ current' = current
  BY <1>0, <1>1 DEF AssignEndsCurrent, Call
<1>3. \A o \in Callers \ {c} : call[o].pc = "idle"
  BY <1>1 DEF SerialInv, OneCall
<1>4. call[c].asg # Nil
  BY <1>1, DevicesAssumption
<1>5. Reassigning(c, d)'
  BY <1>2, <1>4 DEF Reassigning
<1>6. ASSUME NEW e \in Devs \ {d} PROVE Agrees(e)'
  <2>1. ActiveOf(e)' = ActiveOf(e)
    BY <1>0, <1>1, <1>2, EndsOne
  <2>2. Agrees(e)
    BY <1>1, OthersAgree DEF Reassigning
  <2> QED BY <1>2, <2>1, <2>2 DEF Agrees
<1>7. EndsItsOwn'
  BY <1>2, <1>3 DEF CurrentInv, EndsItsOwn
<1>8. IdsUnique'
  BY <1>2 DEF CurrentInv, IdsUnique
<1> QED BY <1>5, <1>6, <1>7, <1>8 DEF CurrentInv

\* A call that answers after it has ended or saved an assignment.
LEMMA AnswerIsCurrent ==
  ASSUME DevInv, SerialInv, CurrentInv, NEW c \in Callers, call[c].pc # "idle",
         NEW result, Answer(c, result), IdsUnique', \A d \in Devs : Agrees(d)'
  PROVE  CurrentInv'
<1>1. call'[c].pc = "idle" /\ call'[c].asg = Nil /\ \A o \in Callers \ {c} : call'[o] = call[o]
  BY DEF Answer, Returned, DevInv, DevTypeOK
<1>2. \A o \in Callers \ {c} : call[o].pc = "idle"
  BY DEF SerialInv, OneCall
<1>3. EndsItsOwn'
  BY <1>1, <1>2 DEF CurrentInv, EndsItsOwn
<1> QED BY <1>3 DEF CurrentInv

LEMMA UnassignEndsIsCurrent ==
  ASSUME DevInv, SerialInv, CurrentInv, NEW c \in Callers, UnassignEnds(c)
  PROVE  CurrentInv'
<1>1. call[c].pc = "unassign.end" /\ call[c].dev \in Devs
  BY DEF UnassignEnds, DevInv, CallsOK, CallOK
<1>0. PICK d \in Devs : call[c].dev = d
  BY <1>1
<1>2. /\ Answer(c, "ok") /\ assigned' = assigned /\ ended' = ended \union {call[c].asg}
      /\ current' = [current EXCEPT ![d] = Nil]
  BY <1>0 DEF UnassignEnds
<1>3. /\ ActiveOf(d)' = {} /\ \A e \in Devs \ {d} : ActiveOf(e)' = ActiveOf(e)
  BY <1>0, <1>1, <1>2, EndsOne
<1>4. current'[d] = Nil /\ \A e \in Devs \ {d} : current'[e] = current[e]
  BY <1>1, <1>2 DEF DevInv, DevTypeOK
<1>5. \A e \in Devs : Agrees(e)
  BY <1>1, OthersAgree DEF Reassigning
<1>6. \A e \in Devs : Agrees(e)'
  BY <1>3, <1>4, <1>5 DEF Agrees
<1>7. IdsUnique'
  BY <1>2 DEF CurrentInv, IdsUnique
<1> QED BY <1>1, <1>2, <1>6, <1>7, AnswerIsCurrent

LEMMA AssignSavesIsCurrent ==
  ASSUME DevInv, SerialInv, NumberedInv, CurrentInv, NEW c \in Callers, AssignSaves(c)
  PROVE  CurrentInv'
<1>1. call[c].pc = "assign.save" /\ call[c].dev \in Devs /\ call[c].tank \in Tanks
  BY DEF AssignSaves, DevInv, CallsOK, CallOK
<1>0. PICK d \in Devs, t \in Tanks : call[c].dev = d /\ call[c].tank = t
  BY <1>1
<1> DEFINE n == [id |-> Cardinality(assigned) + 1, dev |-> d, tank |-> t]
<1>2. /\ Answer(c, "ok") /\ assigned' = assigned \union {n} /\ ended' = ended
      /\ current' = [current EXCEPT ![d] = t]
  BY <1>0 DEF AssignSaves
<1>3. Cardinality(assigned) \in Nat
  BY FS_CardinalityType DEF NumberedInv
<1>4. n.id \notin ended /\ \A a \in assigned : a.id # n.id
  BY <1>3 DEF NumberedInv
<1>5. n.dev = d /\ n.tank = t
  OBVIOUS
<1> HIDE DEF n
<1>6. ActiveOf(d) = {}
  BY <1>0, <1>1 DEF SerialInv, EndsTheActive
<1>7. ActiveOf(d)' = {n}
  BY <1>2, <1>4, <1>5, <1>6 DEF ActiveOf, Active
<1>8. \A e \in Devs \ {d} : ActiveOf(e)' = ActiveOf(e)
  BY <1>2, <1>5 DEF ActiveOf, Active
<1>9. current'[d] = t /\ \A e \in Devs \ {d} : current'[e] = current[e]
  BY <1>1, <1>2 DEF DevInv, DevTypeOK
<1>10. t # Nil
  BY <1>1, DevicesAssumption
<1>11. Agrees(d)'
  BY <1>5, <1>7, <1>9, <1>10 DEF Agrees
<1>12. ASSUME NEW e \in Devs \ {d} PROVE Agrees(e)'
  <2>1. Agrees(e)
    BY <1>0, <1>1, OthersAgree DEF Reassigning
  <2> QED BY <1>8, <1>9, <2>1 DEF Agrees
<1>13. IdsUnique'
  BY <1>2, <1>4 DEF CurrentInv, IdsUnique
<1> QED BY <1>1, <1>2, <1>11, <1>12, <1>13, AnswerIsCurrent

\* A call that ends between the two leaves its device without an assignment.
LEMMA CrashIsCurrent ==
  ASSUME DevInv, SerialInv, CurrentInv, NEW c \in Callers, Crash(c)
  PROVE  CurrentInv'
<1>1. Answer(c, "refused") /\ call[c].pc # "idle" /\ UNCHANGED <<assigned, ended>>
  BY DEF Crash
<1>2. IdsUnique' /\ \A e \in Devs : ActiveOf(e)' = ActiveOf(e)
  BY <1>1 DEF CurrentInv, IdsUnique, ActiveOf, Active
<1>3. CASE call[c].pc = "assign.save" /\ call[c].asg # Nil
  <2>0. PICK d \in Devs : call[c].dev = d
    BY <1>3 DEF DevInv, CallsOK, CallOK
  <2>1. ActiveOf(d) = {}
    BY <1>3, <2>0 DEF SerialInv, EndsTheActive
  <2>2. current'[d] = Nil /\ \A e \in Devs \ {d} : current'[e] = current[e]
    BY <1>3, <2>0 DEF Crash, DevInv, DevTypeOK
  <2>3. \A e \in Devs \ {d} : Agrees(e)
    BY <1>1, <2>0, OthersAgree DEF Reassigning
  <2>4. \A e \in Devs : Agrees(e)'
    BY <1>2, <2>1, <2>2, <2>3 DEF Agrees
  <2> QED BY <1>1, <1>2, <2>4, AnswerIsCurrent
<1>4. CASE ~(call[c].pc = "assign.save" /\ call[c].asg # Nil)
  <2>1. current' = current
    BY <1>4 DEF Crash
  <2>2. \A e \in Devs : Agrees(e)
    BY <1>1, <1>4, OthersAgree DEF Reassigning
  <2>3. \A e \in Devs : Agrees(e)'
    BY <1>2, <2>1, <2>2 DEF Agrees
  <2> QED BY <1>1, <1>2, <2>3, AnswerIsCurrent
<1> QED BY <1>3, <1>4

LEMMA ContinueIsCurrent ==
  ASSUME DevInv, SerialInv, NumberedInv, CurrentInv, ~Overlap, NEW c \in Callers, Continue(c)
  PROVE  CurrentInv'
<1>1. Moves(c)
  BY NobodyElseTouches
<1>2. CASE AssignReadsTank(c)
  <2>1. call[c].pc = "assign.tank" /\ call[c] \in Call /\ call[c].asg = Nil
    BY <1>2 DEF AssignReadsTank, DevInv, DevTypeOK, CurrentInv, EndsItsOwn
  <2>2. UNCHANGED <<assigned, ended, current>>
    BY <1>2 DEF AssignReadsTank, Refuse, Await
  <2>3. CASE Answer(c, "refused")
    <3>1. call'[c].pc = "idle" /\ call'[c].asg = Nil
      BY <2>3 DEF Answer, Returned, DevInv, DevTypeOK
    <3> QED BY <1>1, <2>1, <2>2, <3>1, QuietIsCurrent
  <2>4. CASE Await(c, "assign.current", call[c])
    <3>1. call'[c].pc = "assign.current" /\ call'[c].asg = Nil
      BY <2>1, <2>4, AwaitMoves
    <3> QED BY <1>1, <2>1, <2>2, <3>1, QuietIsCurrent
  <2> QED BY <1>2, <2>3, <2>4 DEF AssignReadsTank, Refuse
<1>3. CASE SaveRegistered(c) \/ SaveUpdatedDevice(c) \/ SaveUpdatedTank(c) \/ EndTouch(c)
  <2>1. /\ \E result : Answer(c, result)
        /\ call[c].pc \notin {"idle", "assign.save"} /\ UNCHANGED <<assigned, ended, current>>
    BY <1>3 DEF SaveRegistered, SaveUpdatedDevice, SaveUpdatedTank, EndTouch, WriteDevice, Refuse
  <2>2. call'[c].pc = "idle" /\ call'[c].asg = Nil
    BY <2>1 DEF Answer, Returned, DevInv, DevTypeOK
  <2> QED BY <1>1, <2>1, <2>2, QuietIsCurrent
<1> QED BY <1>2, <1>3, AssignReadsCurrentIsCurrent, AssignEndsCurrentIsCurrent,
           AssignSavesIsCurrent, UnassignEndsIsCurrent DEF Continue

LEMMA CurrentInvHolds ==
  ASSUME ~Overlap PROVE DevSpec => []CurrentInv
<1>1. DevInit => CurrentInv
  <2> SUFFICES ASSUME DevInit PROVE CurrentInv
    OBVIOUS
  <2>1. \A c \in Callers : call[c].pc = "idle" /\ call[c].asg = Nil
    BY DEF DevInit, Returned
  <2>2. assigned = {} /\ \A d \in Devs : ActiveOf(d) = {} /\ current[d] = Nil
    BY DEF DevInit, ActiveOf
  <2> QED BY <2>1, <2>2 DEF CurrentInv, IdsUnique, EndsItsOwn, Agrees
<1>2. DevInv /\ SerialInv /\ NumberedInv /\ CurrentInv /\ [DevNext]_devVars => CurrentInv'
  <2> SUFFICES ASSUME DevInv, SerialInv, NumberedInv, CurrentInv, [DevNext]_devVars
               PROVE  CurrentInv'
    OBVIOUS
  <2>1. CASE UNCHANGED devVars
    BY <2>1 DEF devVars, CurrentInv, IdsUnique, EndsItsOwn, Agrees, Reassigning, ActiveOf, Active
  <2> QED BY <2>1, BeginIsCurrent, ContinueIsCurrent, CrashIsCurrent DEF DevNext
<1> QED BY <1>1, <1>2, DevInvHolds, SerialInvHolds, NumberedHolds, PTL DEF DevSpec

\* With no call in progress, the active assignment of every device is the one
\* the last answered assign or unassign promised (CurrentIsLastAnswered), as
\* long as calls do not overlap and wherever they stopped.
THEOREM CurrentWithoutOverlap ==
  ASSUME ~Overlap PROVE DevSpec => []CurrentIsLastAnswered
<1>1. CurrentInv => CurrentIsLastAnswered
  BY DEF CurrentInv, CurrentIsLastAnswered, Reassigning, Agrees
<1> QED BY <1>1, CurrentInvHolds, PTL
=============================================================================
