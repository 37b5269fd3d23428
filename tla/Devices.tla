------------------------------- MODULE Devices -------------------------------
(***************************************************************************)
(* The device registry: devices, the history of which device measured      *)
(* which tank, and the tanks' status, as the device and fleet services     *)
(* read and write them.                                                    *)
(*                                                                         *)
(* Every repository call is one atomic step and every `await' between two  *)
(* of them lets other calls run, so a call carries what it has read in     *)
(* call[c] and may write it back long after it went stale.  A call can     *)
(* stop at any step (a dropped connection, an exception of the store, the  *)
(* end of the process): Crash.                                             *)
(*                                                                         *)
(* Left out: the descriptive fields of a device, lastSeenAt and            *)
(* connectionState, and the read-only views.                               *)
(***************************************************************************)
EXTENDS Integers, FiniteSets

CONSTANTS
  Devs,           \* device ids
  Serials,        \* serial numbers
  Tanks,          \* tank ids
  Callers,        \* concurrent executions of a service method
  Ops,            \* the operations the callers perform
  Patches,        \* the statuses an update of a device sets, Nil for none
  Database,       \* TRUE: PostgreSQL through Prisma, FALSE: the memory adapter
  Overlap,        \* TRUE: calls interleave, FALSE: one call at a time
  MaxAssignments, \* bound on the assignment rows ever written
  Nil             \* JavaScript's null

AllOps == {"register", "updateDevice", "updateTank", "assign", "unassign", "touch"}

TankStatus == {"active", "decommissioned"}
DeviceStatus == {"registered", "active", "maintenance", "retired"}
DeviceRow == [serial: Serials, status: DeviceStatus]
Assignment == [id: 1..MaxAssignments, dev: Devs, tank: Tanks]

ASSUME DevicesAssumption ==
  /\ Ops \subseteq AllOps
  /\ Patches \subseteq DeviceStatus \union {Nil}
  /\ Database \in BOOLEAN
  /\ Overlap \in BOOLEAN
  /\ MaxAssignments \in Nat
  /\ Nil \notin Devs \union Serials \union Tanks \union DeviceRow \union Assignment
  /\ Nil \notin 1..MaxAssignments

VARIABLES
  tank,      \* tank[t]: the status of tank t
  device,    \* device[d]: the row of device d, Nil before it is registered
  assigned,  \* every assignment row ever written
  ended,     \* the ids of the assignments whose status is 'ended'
  call,      \* call[c]: the call in progress and what it has read
  current    \* history: the tank the last answered assign or unassign left d on

devVars == <<tank, device, assigned, ended, call, current>>

\* A call waits for the repository access its pc names.
CallPc == {"idle", "register.save", "device.save", "tank.save", "touch.write",
           "assign.tank", "assign.current", "assign.end", "assign.save", "unassign.end"}

Call == [pc: CallPc,
         dev: Devs \union {Nil},
         tank: Tanks \union {Nil},
         row: DeviceRow \union {Nil},
         status: TankStatus \union {Nil},
         asg: (1..MaxAssignments) \union {Nil},
         result: {"none", "ok", "refused"}]

Returned(result) == [pc |-> "idle", dev |-> Nil, tank |-> Nil,
                     row |-> Nil, status |-> Nil, asg |-> Nil, result |-> result]

DevTypeOK ==
  /\ tank \in [Tanks -> TankStatus]
  /\ device \in [Devs -> DeviceRow \union {Nil}]
  /\ assigned \subseteq Assignment
  /\ ended \subseteq 1..MaxAssignments
  /\ call \in [Callers -> Call]
  /\ current \in [Devs -> Tanks \union {Nil}]

DevInit ==
  /\ tank = [t \in Tanks |-> "active"]
  /\ device = [d \in Devs |-> Nil]
  /\ assigned = {}
  /\ ended = {}
  /\ call = [c \in Callers |-> Returned("none")]
  /\ current = [d \in Devs |-> Nil]

-----------------------------------------------------------------------------
(* Repository reads.                                                       *)

Active(a) == a.id \notin ended
ActiveOf(d) == {a \in assigned : a.dev = d /\ Active(a)}

\* assignments.findActiveByDevice.  The newest assignedAt wins, and that
\* instant is read from the clock of whichever process assigned, before its
\* row is written, so any active row may be the one returned.
FoundActive(d) == IF ActiveOf(d) = {} THEN {Nil} ELSE ActiveOf(d)

InUse(s, d) == \E e \in Devs \ {d} : device[e] # Nil /\ device[e].serial = s

MayBegin(c) ==
  /\ call[c].pc = "idle"
  /\ Overlap \/ \A o \in Callers : call[o].pc = "idle"

Answer(c, result) == call' = [call EXCEPT ![c] = Returned(result)]
Refuse(c) == Answer(c, "refused") /\ UNCHANGED <<tank, device, assigned, ended, current>>

\* The call reads, remembers what it needs in `next' and waits at `pc'.
Await(c, pc, next) ==
  /\ call' = [call EXCEPT ![c] = [next EXCEPT !.pc = pc, !.result = "none"]]
  /\ UNCHANGED <<tank, device, assigned, ended, current>>

-----------------------------------------------------------------------------
(* DeviceService.register                                                  *)

BeginRegister(c, d, s) ==
  /\ MayBegin(c)
  /\ IF \E e \in Devs : device[e] # Nil /\ device[e].serial = s
     THEN Refuse(c)
     ELSE Await(c, "register.save",
                [call[c] EXCEPT !.dev = d, !.row = [serial |-> s, status |-> "registered"]])

\* Mutant: no unique index.
WriteDeviceNoIndex(c) ==
  /\ device' = [device EXCEPT ![call[c].dev] = call[c].row]
  /\ Answer(c, "ok")
  /\ UNCHANGED <<tank, assigned, ended, current>>

\* devices.save is an upsert by id that writes every column; the unique index
\* on (tenantId, serialNumber) exists in the database only.
WriteDevice(c) ==
  LET d == call[c].dev IN
  IF Database /\ InUse(call[c].row.serial, d)
  THEN Refuse(c)
  ELSE /\ device' = [device EXCEPT ![d] = call[c].row]
       /\ Answer(c, "ok")
       /\ UNCHANGED <<tank, assigned, ended, current>>

SaveRegistered(c) ==
  /\ call[c].pc = "register.save"
  /\ WriteDevice(c)

(* DeviceService.update: the row that was read, with the patch applied.  A  *)
(* patch without a status keeps the status that was read.                   *)

Patched(row, patch) == IF patch = Nil THEN row ELSE [row EXCEPT !.status = patch]

BeginUpdateDevice(c, d, patch) ==
  /\ MayBegin(c)
  /\ IF device[d] = Nil
     THEN Refuse(c)
     ELSE Await(c, "device.save",
                [call[c] EXCEPT !.dev = d, !.row = Patched(device[d], patch)])

SaveUpdatedDevice(c) ==
  /\ call[c].pc = "device.save"
  /\ WriteDevice(c)

(* FleetService.updateTank, of which the status alone matters here.         *)

BeginUpdateTank(c, t, patch) ==
  /\ MayBegin(c)
  /\ Await(c, "tank.save",
           [call[c] EXCEPT !.tank = t, !.status = IF patch = Nil THEN tank[t] ELSE patch])

SaveUpdatedTank(c) ==
  /\ call[c].pc = "tank.save"
  /\ tank' = [tank EXCEPT ![call[c].tank] = call[c].status]
  /\ Answer(c, "ok")
  /\ UNCHANGED <<device, assigned, ended, current>>

-----------------------------------------------------------------------------
(* devices.touch, called by markSeen.  Prisma reads the status and then     *)
(* writes in a second query; the memory adapter does both at once.          *)

Promoted(row) == [row EXCEPT !.status = "active"]

TouchNow(c, d) ==
  /\ device' = [device EXCEPT ![d] = IF @.status = "registered" THEN Promoted(@) ELSE @]
  /\ Answer(c, "ok")
  /\ UNCHANGED <<tank, assigned, ended, current>>

BeginTouch(c, d) ==
  /\ MayBegin(c)
  /\ IF device[d] = Nil
     THEN Answer(c, "ok") /\ UNCHANGED <<tank, device, assigned, ended, current>>
     ELSE IF Database
          THEN Await(c, "touch.write", [call[c] EXCEPT !.dev = d, !.row = device[d]])
          ELSE TouchNow(c, d)

\* Mutant: the status that was read is not looked at.
EndTouchAlways(c) ==
  /\ call[c].pc = "touch.write"
  /\ device' = [device EXCEPT ![call[c].dev] = Promoted(@)]
  /\ Answer(c, "ok")
  /\ UNCHANGED <<tank, assigned, ended, current>>

EndTouch(c) ==
  /\ call[c].pc = "touch.write"
  /\ device' = IF call[c].row.status = "registered"
               THEN [device EXCEPT ![call[c].dev] = Promoted(@)]
               ELSE device
  /\ Answer(c, "ok")
  /\ UNCHANGED <<tank, assigned, ended, current>>

-----------------------------------------------------------------------------
(* DeviceService.assignToTank                                              *)

BeginAssign(c, d, t) ==
  /\ MayBegin(c)
  /\ IF device[d] = Nil \/ device[d].status = "retired"
     THEN Refuse(c)
     ELSE Await(c, "assign.tank", [call[c] EXCEPT !.dev = d, !.tank = t])

AssignReadsTank(c) ==
  /\ call[c].pc = "assign.tank"
  /\ IF tank[call[c].tank] # "active"
     THEN Refuse(c)
     ELSE Await(c, "assign.current", call[c])

\* Mutant: the old assignment is not ended.
AssignForgetsCurrent(c) ==
  /\ call[c].pc = "assign.current"
  /\ Await(c, "assign.save", call[c])

\* Mutant: any active assignment is taken for the one asked for.
AssignKeepsCurrent(c) ==
  /\ call[c].pc = "assign.current"
  /\ \E a \in FoundActive(call[c].dev) :
       IF a = Nil
       THEN Await(c, "assign.save", call[c])
       ELSE /\ Answer(c, "ok")
            /\ current' = [current EXCEPT ![call[c].dev] = call[c].tank]
            /\ UNCHANGED <<tank, device, assigned, ended>>

\* A device that is already on the tank is left there.
AssignReadsCurrent(c) ==
  /\ call[c].pc = "assign.current"
  /\ \E a \in FoundActive(call[c].dev) :
       IF a = Nil
       THEN Await(c, "assign.save", call[c])
       ELSE IF a.tank = call[c].tank
            THEN /\ Answer(c, "ok")
                 /\ current' = [current EXCEPT ![call[c].dev] = call[c].tank]
                 /\ UNCHANGED <<tank, device, assigned, ended>>
            ELSE Await(c, "assign.end", [call[c] EXCEPT !.asg = a.id])

\* Mutant: the old assignment is deleted.
AssignDeletesCurrent(c) ==
  /\ call[c].pc = "assign.end"
  /\ assigned' = {a \in assigned : a.id # call[c].asg}
  /\ call' = [call EXCEPT ![c].pc = "assign.save"]
  /\ UNCHANGED <<tank, device, ended, current>>

AssignEndsCurrent(c) ==
  /\ call[c].pc = "assign.end"
  /\ ended' = ended \union {call[c].asg}
  /\ call' = [call EXCEPT ![c].pc = "assign.save"]
  /\ UNCHANGED <<tank, device, assigned, current>>

AssignSaves(c) ==
  LET a == [id |-> Cardinality(assigned) + 1, dev |-> call[c].dev, tank |-> call[c].tank] IN
  /\ call[c].pc = "assign.save"
  /\ a.id \in 1..MaxAssignments
  /\ assigned' = assigned \union {a}
  /\ current' = [current EXCEPT ![a.dev] = a.tank]
  /\ Answer(c, "ok")
  /\ UNCHANGED <<tank, device, ended>>

(* DeviceService.unassign.  A device is never deleted, so its lookup and    *)
(* that of its assignment are one step.                                     *)

BeginUnassign(c, d) ==
  /\ MayBegin(c)
  /\ \E a \in FoundActive(d) :
       IF device[d] = Nil \/ a = Nil
       THEN Refuse(c)
       ELSE Await(c, "unassign.end", [call[c] EXCEPT !.dev = d, !.asg = a.id])

UnassignEnds(c) ==
  /\ call[c].pc = "unassign.end"
  /\ ended' = ended \union {call[c].asg}
  /\ current' = [current EXCEPT ![call[c].dev] = Nil]
  /\ Answer(c, "ok")
  /\ UNCHANGED <<tank, device, assigned>>

-----------------------------------------------------------------------------

\* Between ending the old assignment and saving the new one, nothing is left.
Crash(c) ==
  /\ call[c].pc # "idle"
  /\ Answer(c, "refused")
  /\ current' = IF call[c].pc = "assign.save" /\ call[c].asg # Nil
                THEN [current EXCEPT ![call[c].dev] = Nil]
                ELSE current
  /\ UNCHANGED <<tank, device, assigned, ended>>

\* One repository access of a call that has begun.
Continue(c) ==
  \/ SaveRegistered(c)
  \/ SaveUpdatedDevice(c)
  \/ SaveUpdatedTank(c)
  \/ EndTouch(c)
  \/ AssignReadsTank(c)
  \/ AssignReadsCurrent(c)
  \/ AssignEndsCurrent(c)
  \/ AssignSaves(c)
  \/ UnassignEnds(c)

Begin(c) ==
  \/ "register" \in Ops /\ \E d \in Devs, s \in Serials : BeginRegister(c, d, s)
  \/ "updateDevice" \in Ops /\ \E d \in Devs, p \in Patches : BeginUpdateDevice(c, d, p)
  \/ "updateTank" \in Ops /\ \E t \in Tanks, p \in TankStatus \union {Nil} : BeginUpdateTank(c, t, p)
  \/ "touch" \in Ops /\ \E d \in Devs : BeginTouch(c, d)
  \/ "assign" \in Ops /\ \E d \in Devs, t \in Tanks : BeginAssign(c, d, t)
  \/ "unassign" \in Ops /\ \E d \in Devs : BeginUnassign(c, d)

DevNext == \E c \in Callers : Begin(c) \/ Continue(c) \/ Crash(c)

DevSpec == DevInit /\ [][DevNext]_devVars

-----------------------------------------------------------------------------
(* Properties                                                              *)

\* A device is attached to at most one tank at a time (the doc of
\* DeviceAssignment).  It holds when calls do not overlap, whatever crashes.
OneActivePerDevice == \A d \in Devs : \A a, b \in ActiveOf(d) : a = b

\* When no call is in progress, the active assignment of a device is the one
\* the last answered assign or unassign promised; the one crash that changes
\* it is between ending the old row and saving the new one, and leaves none.
CurrentIsLastAnswered ==
  (\A c \in Callers : call[c].pc = "idle") =>
    \A d \in Devs : {a.tank : a \in ActiveOf(d)} = {current[d]} \ {Nil}

\* The history of which device measured which tank survives: no assignment is
\* deleted, rewritten or reopened, by any interleaving of assign and unassign.
HistoryKept ==
  [][/\ assigned \subseteq assigned'
     /\ ended \subseteq ended'
     /\ \A a \in assigned' \ assigned : a.id \notin {b.id : b \in assigned} \union ended']_devVars

\* A retired device stays so until an operator updates or registers it: that
\* it is heard from does not bring it back.  It holds when calls do not
\* overlap, or over the memory adapter, where touch is one step.
OnlyOperatorsRestore ==
  [][\A d \in Devs :
       device[d] # Nil /\ device[d].status = "retired" /\ device'[d] # device[d] =>
         \E c \in Callers : call[c].pc \in {"device.save", "register.save"}
                            /\ call[c].dev = d /\ call'[c].pc = "idle"]_devVars

\* Two devices never share a serial number, even when two registrations of one
\* serial number pass the lookup together.
SerialsUnique ==
  \A d, e \in Devs :
    device[d] # Nil /\ device[e] # Nil /\ device[d].serial = device[e].serial => d = e
=============================================================================
