------------------------------- MODULE MCIngest -------------------------------
(* Samples and devices for the model checker.                              *)
EXTENDS Ingest

CONSTANTS d1, d2, t1, t2, k1, k2, s1

Sent(k, t, d, source, at) == [key |-> k, tank |-> t, dev |-> d, source |-> source, at |-> at]

\* Uploads of a probe, and a simulated reading of another device, for two tanks.
ProbeAndSimulated == {Sent(k1, t1, d1, "device", 1), Sent(k2, t2, d2, "simulated", 1)}

\* Two dips of one tank, the second taken before the first.
LateDips == {Sent(k1, t1, Nil, "manual", 2), Sent(k2, t1, Nil, "manual", 1)}

OneSerial == [d \in Devs |-> s1]
==============================================================================
