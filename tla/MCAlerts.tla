------------------------------- MODULE MCAlerts -------------------------------
(* Conditions and movements of a tank for the model checker.               *)
EXTENDS Alerts

CONSTANTS tank, probe1, probe2

Found(type, subject, severity) == [type |-> type, of |-> subject, severity |-> severity]

Suspect == Found("probe_quality", tank, "warning")
Invalid == Found("probe_quality", tank, "critical")

FaultyProbe == {Suspect, Invalid}
FaultyAndOffline == {Suspect, Invalid, Found("device_offline", probe1, "warning"),
                     Found("device_offline", probe2, "warning")}

Rise(last) == [type |-> "candidate_delivery", last |-> last]
Fall(last) == [type |-> "candidate_unexplained_decrease", last |-> last]

RiseThenFall == {Rise(0), Fall(1)}
RecentRise == {Rise(MaxChanges)}
==============================================================================
