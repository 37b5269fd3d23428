------------------------------ MODULE MCClients ------------------------------
(* Drafts at the limits of every field, two keys, and a small tank, for    *)
(* the model checker.                                                      *)
EXTENDS Clients, TLC

Typed(len, plain) == [len |-> len, plain |-> plain]
Texts(max) == {Typed(0, FALSE), Typed(1, TRUE), Typed(1, FALSE), Typed(max, TRUE), Typed(max + 1, TRUE)}

SomeStations ==
  [name: Texts(120), code: Texts(32) \union Texts(2), timezone: Texts(64) \union Texts(2)]

AnyVolume(diameter, span) == diameter * span

GoodTank ==
  [station |-> 9, name |-> Typed(5, TRUE), diameter |-> 10, span |-> 10, capacity |-> 90,
   percents |-> [critical |-> 20, low |-> 40, high |-> 190], amount |-> 600, minutes |-> 60,
   calibration |-> 0, cylinder |-> TRUE]

Edges == {NotANumber, 0, 1, Whole(100), Whole(100) + 1}

\* The texts, the shape or the thresholds of a good tank are typed anew.
SomeTanks ==
  {[GoodTank EXCEPT !.station = i, !.name = t, !.calibration = c] :
     i \in {0, 9}, t \in Texts(120), c \in {0, 200, 201}}
  \union
  {[GoodTank EXCEPT !.diameter = d, !.span = n, !.capacity = c, !.cylinder = b] :
     d \in {NotANumber, 0, 10, 4000}, n \in {NotANumber, 0, 10, 4000},
     c \in {NotANumber, 0, 100, 101, 102, 10000000, 10000001}, b \in BOOLEAN}
  \union
  {[GoodTank EXCEPT !.percents = p, !.amount = a, !.minutes = m] :
     p \in [critical: Edges, low: Edges, high: Edges], a \in {NotANumber, 0},
     m \in {NotANumber, 0, 1}}

SomeDevices ==
  [manufacturer: Texts(80), model: Texts(80), serial: Texts(80), firmware: {0, 40, 41}]

SomeDips ==
  [level: {NotANumber, 0, 2, Whole(100000) + 1}, water: {NotANumber, 0, 2, 3},
   temperature: {-61, -60, 120, 121}, future: BOOLEAN]

\* A key that may do everything, and one of a station.
TwoKeys ==
  [k \in Keys |->
     IF k = "owner" THEN {ReadScope(l) : l \in Loads} \union {WriteScope(o) : o \in Ops}
     ELSE {"stations:read", "tanks:read", "stations:write", "readings:read"}]

\* The bottom of the tank is wider than the rest of it, and its height is no
\* whole number of grains.
SmallTank == <<[level |-> 0, vol |-> 0], [level |-> 2, vol |-> 300], [level |-> 7, vol |-> 800]>>
TwoTanks == <<"t1", "t2">>
Around == {-2, 2}

SlotSymmetry == Permutations(Slots)

===============================================================================
