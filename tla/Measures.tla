------------------------------- MODULE Measures -------------------------------
(***************************************************************************)
(* From what a probe or a person measures in a tank to a volume and its    *)
(* quality: the geometry of domain/geometry.ts and the normalizer of       *)
(* domain/normalize.ts, for a tank with a strapping table.  A cylinder is  *)
(* a table of its own; its formula is left out.                            *)
(*                                                                         *)
(* Levels are whole millimetres and volumes whole units of the precision   *)
(* the platform stores (roundLitres3).                                     *)
(***************************************************************************)
EXTENDS Integers, Sequences

CONSTANT Points   \* the strapping table: pairs of level and volume

\* geometrySchema: from level 0, and strictly up; the volumes may be any.
ASSUME MeasuresAssumption ==
  /\ Points \in Seq([level: Nat, vol: Nat])
  /\ Len(Points) >= 2
  /\ Points[1].level = 0
  /\ \A k \in 2..Len(Points) : Points[k - 1].level < Points[k].level

MaxLevel == Points[Len(Points)].level
TankCapacity == Points[Len(Points)].vol

Clamp(x, low, high) == IF x < low THEN low ELSE IF x > high THEN high ELSE x

\* The interpolation between the two points around a level of the table.
StrappingVolume(level) ==
  LET k == CHOOSE j \in 2..Len(Points) :
             level <= Points[j].level /\ (j = 2 \/ Points[j - 1].level < level)
      low == Points[k - 1]
      up == Points[k]
      span == up.level - low.level
  IN low.vol + (2 * (level - low.level) * (up.vol - low.vol) + span) \div (2 * span)

\* volumeAtLevelLitres: nothing at the bottom, whatever the table starts with.
VolumeAt(level) == IF level <= 0 THEN 0 ELSE StrappingVolume(Clamp(level, 0, MaxLevel))

\* levelForVolumeLitres: the bisection ends where the volume is reached, at any
\* such level of a table whose volumes do not only rise.
LevelsFor(vol) ==
  IF vol <= 0 THEN {0}
  ELSE IF vol >= TankCapacity THEN {MaxLevel}
  ELSE {level \in 1..MaxLevel : VolumeAt(level - 1) < vol /\ vol <= VolumeAt(level)}

-----------------------------------------------------------------------------

\* What is measured: the level of product and of the water under it, and
\* whether the signal is weak or the temperature out of range.
Sample(level, water, doubtful) == [level |-> level, water |-> water, doubtful |-> doubtful]

\* ingestReadingSchema refuses the rest, and classifyProbeSample would.
Admissible(s) == s.level >= 0 /\ s.water >= 0 /\ s.water <= s.level

\* classifyProbeSample.
Quality(s) ==
  IF ~Admissible(s) \/ s.level > MaxLevel THEN "invalid"
  ELSE IF s.doubtful THEN "suspect" ELSE "ok"

\* normalizeProbeSample: the water is at most as high as the product, and the
\* product is what is above it.  What is measured above the top of the tank
\* counts as a full tank, although it is invalid.
SafeLevel(s) == IF s.level > 0 THEN s.level ELSE 0
SafeWater(s) == Clamp(s.water, 0, SafeLevel(s))

NetVolume(s) ==
  LET net == VolumeAt(SafeLevel(s)) - VolumeAt(SafeWater(s)) IN IF net < 0 THEN 0 ELSE net

===============================================================================
