------------------------------ MODULE Simulator ------------------------------
(***************************************************************************)
(* The simulator of probes: a process that, at every tick of a timer or a  *)
(* given number of times, goes over its tanks, fetches each one, polls the *)
(* simulated gauge and posts the sample to the API as any client would.    *)
(* A slow run is not waited for, so the next tick may overlap it.          *)
(*                                                                         *)
(* The API is what the runner uses of it: it refuses a sample with more    *)
(* water than product, and stores one reading of a tank and an instant.    *)
(* A step of the simulation is one poll; the random numbers are any of     *)
(* their range; the temperature is left out.  The simulation is finer than *)
(* what it reports: a level is a whole number of its units here, and what  *)
(* is reported is rounded to the grain of a hundredth of a millimetre.     *)
(***************************************************************************)
EXTENDS Measures

CONSTANTS
  TankIds,       \* the tanks of the command line, in their order
  SimCapacity,   \* what a tank is said to hold, whatever its table says
  Grain,         \* the units of a level in a hundredth of a millimetre
  FillPercent,   \* how full a simulated tank is at first
  InitialWater,  \* and the water in it
  Draws,         \* what may be dispensed in a step
  Slow, Fast,    \* what a leak takes, and what a theft takes or a delivery brings, in a step
  Growth,        \* the water that enters in a step
  Noises,        \* the noise on a level
  Failures,      \* every how many polls the probe does not answer, 0: it always does
  Slots,         \* the runs that may overlap
  MaxRuns, MaxClock   \* bounds on the runs, and on the instants

ASSUME SimulatorAssumption ==
  /\ TankIds \in Seq(STRING) /\ TankIds # <<>>
  /\ SimCapacity \in Nat /\ Grain \in Nat \ {0}
  /\ FillPercent \in 0..100 /\ InitialWater \in Nat
  /\ Draws \subseteq Nat /\ {Slow, Fast, Growth} \subseteq Nat
  /\ Noises \subseteq Int
  /\ Failures \subseteq Nat
  /\ MaxRuns \in Nat /\ MaxClock \in Nat

VARIABLES
  config,   \* what the command line says
  gauge,    \* gauge[t]: the simulated state of tank t
  polls,    \* pollCount of the adapter
  runs,     \* runs[s]: the run in slot s
  started,  \* how many runs were
  clock,
  readings    \* the readings the API stored

simVars == <<config, gauge, polls, runs, started, clock, readings>>

Effect(draw, fill, water, freeze, offline) ==
  [draw |-> draw, fill |-> fill, water |-> water, freeze |-> freeze, offline |-> offline]

ScenarioEffects ==
  [nominal |-> Effect(0, 0, 0, FALSE, FALSE),
   delivery |-> Effect(0, Fast, 0, FALSE, FALSE),
   leak |-> Effect(Slow, 0, 0, FALSE, FALSE),
   theft |-> Effect(Fast, 0, 0, FALSE, FALSE),
   waterIngress |-> Effect(0, 0, Growth, FALSE, FALSE),
   sensorStuck |-> Effect(0, 0, 0, TRUE, FALSE),
   offline |-> Effect(0, 0, 0, FALSE, TRUE)]

\* parseArgs: a scenario, the failures, and a number of steps or a timer.
Configs == [scenario: DOMAIN ScenarioEffects, every: Failures, timer: BOOLEAN]
effect == ScenarioEffects[config.scenario]

Tanks == {TankIds[i] : i \in 1..Len(TankIds)}
Levels == 0..MaxLevel
Dry == [known |-> FALSE, level |-> 0, water |-> 0, frozen |-> -1]
NoSample == [level |-> -1, water |-> -1, at |-> -1]
Idle == [pc |-> "idle", tank |-> 1, sample |-> NoSample, outcomes |-> <<>>]
Statuses == {"sent", "rejected", "probe-unavailable"}

SimTypeOK ==
  /\ config \in Configs
  /\ gauge \in [Tanks -> [known: BOOLEAN, level: Levels, water: Levels, frozen: Levels \union {-1}]]
  /\ polls \in 0..MaxRuns * Len(TankIds)
  /\ \A s \in Slots :
       /\ runs[s].pc \in {"idle", "fetch", "post", "ended"}
       /\ runs[s].tank \in 1..Len(TankIds) + 1
       /\ runs[s].outcomes \in Seq([tank: Tanks, status: Statuses, at: -1..MaxClock])
  /\ started \in 0..MaxRuns
  /\ clock \in 0..MaxClock
  /\ \A r \in readings : r.tank \in Tanks /\ r.at \in 0..MaxClock

SimInit ==
  /\ config \in Configs
  /\ gauge = [t \in Tanks |-> Dry]
  /\ polls = 0
  /\ runs = [s \in Slots |-> Idle]
  /\ started = 0
  /\ clock = 0
  /\ readings = {}

-----------------------------------------------------------------------------
(* The simulated tank                                                      *)

\* ensureState
Ensured(t) ==
  IF gauge[t].known THEN {gauge[t]}
  ELSE {[known |-> TRUE, level |-> level, water |-> Clamp(InitialWater, 0, MaxLevel),
         frozen |-> -1] : level \in LevelsFor((SimCapacity * FillPercent) \div 100)}

\* Mutant: the noise is added after the level was clamped.
NoisyLevel(level, noise) == IF level + noise < 0 THEN 0 ELSE level + noise

TrueLevel(level, noise) == Clamp(level + noise, 0, MaxLevel)

\* step: every state a poll of a gauge may leave it in.
Stepped(g) ==
  UNION {
    LET volume == Clamp(VolumeAt(g.level) - draw - effect.draw + effect.fill, 0, VolumeAt(MaxLevel))
    IN {LET level == TrueLevel(exact, noise) IN
        [known |-> TRUE, level |-> level,
         water |-> Clamp(g.water + effect.water, 0, MaxLevel),
         frozen |-> IF ~effect.freeze THEN -1 ELSE IF g.frozen # -1 THEN g.frozen ELSE level] :
          exact \in LevelsFor(volume), noise \in Noises}
    : draw \in Draws}

\* round2, to the nearest hundredth, and up from the middle.
Rounded(level) == Grain * ((2 * level + Grain) \div (2 * Grain))

\* What is reported of it: a tank whose height is no whole number of hundredths
\* may be reported fuller than full.
Reported(g) ==
  [level |-> Rounded(IF effect.freeze THEN g.frozen ELSE g.level),
   water |-> Rounded(g.water), at |-> clock]

\* shouldFail, of the poll that is being counted.
ShouldFail == config.every # 0 /\ (polls + 1) % config.every = 0

-----------------------------------------------------------------------------
(* A run                                                                   *)

\* runOnce, for each tick of the timer, or when the run before it ended.
StartRun(s) ==
  /\ runs[s].pc \in {"idle", "ended"}
  /\ started < MaxRuns
  /\ config.timer \/ \A other \in Slots : runs[other].pc \in {"idle", "ended"}
  /\ started' = started + 1
  /\ runs' = [runs EXCEPT ![s] = [Idle EXCEPT !.pc = "fetch"]]
  /\ UNCHANGED <<config, gauge, polls, clock, readings>>

\* The outcome for the tank at hand, and on to the next.
Told(s, status) ==
  LET r == runs[s]
      last == r.tank = Len(TankIds)
  IN runs' = [runs EXCEPT ![s] =
       [pc |-> IF last THEN "ended" ELSE "fetch", tank |-> r.tank + 1, sample |-> NoSample,
        outcomes |-> Append(r.outcomes,
          [tank |-> TankIds[r.tank], status |-> status, at |-> r.sample.at])]]

\* Mutant: a tank that cannot be fetched ends the run.
FetchFailsEnding(s) ==
  /\ runs[s].pc = "fetch"
  /\ runs' = [runs EXCEPT ![s].pc = "ended"]
  /\ UNCHANGED <<config, gauge, polls, started, clock, readings>>

FetchFails(s) ==
  /\ runs[s].pc = "fetch"
  /\ Told(s, "rejected")
  /\ UNCHANGED <<config, gauge, polls, started, clock, readings>>

\* The tank is fetched, and the probe does not answer.
ProbeUnavailable(s) ==
  /\ runs[s].pc = "fetch"
  /\ ShouldFail \/ effect.offline
  /\ polls' = polls + 1
  /\ Told(s, "probe-unavailable")
  /\ UNCHANGED <<config, gauge, started, clock, readings>>

\* The tank is fetched, and readTank steps the simulation, in one go.
Polled(s) ==
  /\ runs[s].pc = "fetch"
  /\ ~ShouldFail /\ ~effect.offline
  /\ polls' = polls + 1
  /\ LET t == TankIds[runs[s].tank] IN
     \E before \in Ensured(t) : \E after \in Stepped(before) :
       /\ gauge' = [gauge EXCEPT ![t] = after]
       /\ runs' = [runs EXCEPT ![s].pc = "post", ![s].sample = Reported(after)]
  /\ UNCHANGED <<config, started, clock, readings>>

\* One reading of a tank and an instant.
Stored(t, sample) ==
  IF \E r \in readings : r.tank = t /\ r.at = sample.at THEN readings
  ELSE readings \union {[tank |-> t, at |-> sample.at, level |-> sample.level, water |-> sample.water]}

Taken(sample) == Admissible(Sample(sample.level, sample.water, FALSE))

\* The API stores the sample, or had it, and answers 2xx.
PostAnswered(s) ==
  /\ runs[s].pc = "post"
  /\ Taken(runs[s].sample)
  /\ readings' = Stored(TankIds[runs[s].tank], runs[s].sample)
  /\ Told(s, "sent")
  /\ UNCHANGED <<config, gauge, polls, started, clock>>

\* It refuses the sample, or its answer is lost.
PostFails(s) ==
  /\ runs[s].pc = "post"
  /\ \/ UNCHANGED readings
     \/ Taken(runs[s].sample) /\ readings' = Stored(TankIds[runs[s].tank], runs[s].sample)
  /\ Told(s, "rejected")
  /\ UNCHANGED <<config, gauge, polls, started, clock>>

\* A signal ends the process: the runs under way and the gauges are gone.  It
\* may be started again.
Restart ==
  /\ started # 0
  /\ gauge' = [t \in Tanks |-> Dry]
  /\ polls' = 0
  /\ runs' = [s \in Slots |-> Idle]
  /\ UNCHANGED <<config, started, clock, readings>>

Tick ==
  /\ clock < MaxClock
  /\ clock' = clock + 1
  /\ UNCHANGED <<config, gauge, polls, runs, started, readings>>

-----------------------------------------------------------------------------

SimNext ==
  \/ \E s \in Slots :
       \/ StartRun(s) \/ FetchFails(s) \/ ProbeUnavailable(s) \/ Polled(s)
       \/ PostAnswered(s) \/ PostFails(s)
  \/ Restart
  \/ Tick

SimSpec == SimInit /\ [][SimNext]_simVars

-----------------------------------------------------------------------------

(* A run that ended tells of each of its tanks once and in their order,    *)
(* whatever failed for the others, and what it calls sent is stored        *)
(* (runner.ts).                                                            *)
OutcomesAreTrue ==
  \A s \in Slots :
    LET told == runs[s].outcomes IN
    runs[s].pc = "ended" =>
      /\ [i \in 1..Len(told) |-> told[i].tank] = TankIds
      /\ \A i \in 1..Len(told) :
           told[i].status = "sent" =>
             \E r \in readings : r.tank = told[i].tank /\ r.at = told[i].at

(* Whatever the scenario, the noise and the length of the simulation, a    *)
(* stored reading is one the platform calls invalid only if it is of a     *)
(* full tank whose height is no whole number of hundredths, and then it is *)
(* above the top by no more than the rounding (tank-simulator.ts against   *)
(* normalize.ts).                                                          *)
SimulatedIsPhysical ==
  \A r \in readings :
    Quality(Sample(r.level, r.water, FALSE)) = "invalid" =>
      /\ MaxLevel % Grain # 0
      /\ MaxLevel < r.level /\ 2 * (r.level - MaxLevel) <= Grain

===============================================================================
