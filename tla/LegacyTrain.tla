---------------------------- MODULE LegacyTrain ----------------------------
(***************************************************************************)
(* A compressor train on a common shaft (compressor/core/train), over the   *)
(* time steps of an evaluation: the lowest speed that reaches the discharge *)
(* pressure, pressure control at that speed, two parts on one shaft when    *)
(* there is a pressure target between stages, and the maximum rate.  The    *)
(* parts, the searches and the maximum rate share the shaft and the rate    *)
(* modifiers of the stages.                                                 *)
(*                                                                          *)
(* Pressures are logarithms on a grid, so that ratios are differences; the  *)
(* flow of a mass falls with pressure, the head of a stage with its flow.   *)
(* Searches on the grid find what is nearest.  Power is left out.           *)
(***************************************************************************)
EXTENDS Integers, Sequences, FiniteSetsExt, Functions

CONSTANTS LegacyTrains,     \* [stages, control, first, last, split, sideStage, maximum, inputs]
          Density,          \* pressure that lowers the flow of a mass by one
          Notches,          \* parts of the available capacity to recirculate
          PressureSlack     \* PRESSURE_CALCULATION_TOLERANCE

VARIABLES legacy,     \* the train
          timeStep,
          task,       \* what the evaluation of the time step does next
          shaft,      \* speed; 0 while undefined
          modifiers,  \* RateModifier of every stage
          needs,      \* speed and result of each part on its own
          results,    \* of the time steps
          maxRates    \* max_standard_rate, and what was left in the modifiers

legacyVars == <<legacy, timeStep, task, shaft, modifiers, needs, results, maxRates>>

NoPressure == 0

Stages == DOMAIN legacy.stages
Input == legacy.inputs[timeStep]

Abs(x) == IF x < 0 THEN -x ELSE x

(***************************************************************************)
(* Stages and parts of a train.                                             *)
(***************************************************************************)
Unmodified == [mass |-> 0, fraction |-> 0]

\* reset_rate_modifiers.
Reset == [i \in Stages |-> Unmodified]

Capacity(i, speed) == legacy.stages[i].wall + speed \div 2

\* CompressorTrainStage.evaluate with RateModifier.add_rate: recirculated mass,
\* then a share of what is left of the capacity, then up to the minimum flow.
\* Only the flow before recirculation is held against the capacity.
Point(i, speed, mass, pressure, modifier) ==
  LET s == legacy.stages[i]
      before == mass - pressure \div Density
      fixed == before + modifier.mass
      shared == fixed + (modifier.fraction * Max({0, Capacity(i, speed) - fixed})) \div Notches
      flow == Max({shared, s.surge})
  IN  [speed |-> speed, inlet |-> pressure,
       outlet |-> pressure + s.head + speed - (Min({flow, Capacity(i, speed)}) - s.surge),
       mass |-> mass + flow - before, flow |-> flow, valid |-> before <= Capacity(i, speed)]

PartOf(low, high, control, maximum) ==
  [low |-> low, high |-> high, control |-> control, maximum |-> maximum]

Whole == PartOf(1, Len(legacy.stages), legacy.control, legacy.maximum)

\* split_train_on_stage_number.
FirstPart == PartOf(1, legacy.split, legacy.first, NoPressure)
LastPart  == PartOf(legacy.split + 1, Len(legacy.stages), legacy.last, NoPressure)

\* A side stream enters, or with a negative rate leaves, ahead of its stage.
SideRate(low, high, in) == IF legacy.sideStage \in low..high THEN in.side ELSE 0

\* The inputs of the parts, with split_rates_on_stage_number.
FirstInput(in) == [in EXCEPT !.discharge = in.interstage, !.interstage = NoPressure]
LastInput(in) ==
  [in EXCEPT !.suction = in.interstage, !.interstage = NoPressure,
             !.rate = in.rate + SideRate(1, legacy.split, in)]

DischargeStatus(in, outlet) ==
  IF outlet > in.discharge + PressureSlack THEN "ABOVE_TARGET_DISCHARGE_PRESSURE"
  ELSE IF outlet < in.discharge - PressureSlack THEN "BELOW_TARGET_DISCHARGE_PRESSURE"
  ELSE "TARGET_PRESSURES_MET"

\* check_target_pressures.  Part of a train looks for the pressure between
\* stages where the whole train has it.
Status(part, in, r) ==
  LET between == part.low + legacy.split - 1
      inlet == r.points[part.low].inlet
  IN  IF legacy.split > 0 /\ between > part.high THEN "RAISED"
      ELSE IF inlet > r.suction + PressureSlack THEN "ABOVE_TARGET_SUCTION_PRESSURE"
      ELSE IF DischargeStatus(in, r.outlet) # "TARGET_PRESSURES_MET" \/ in.interstage = NoPressure
           THEN DischargeStatus(in, r.outlet)
      ELSE IF r.points[between].outlet > in.interstage + PressureSlack
           THEN "ABOVE_TARGET_INTERMEDIATE_PRESSURE"
      ELSE IF r.points[between].outlet < in.interstage - PressureSlack
           THEN "BELOW_TARGET_INTERMEDIATE_PRESSURE"
      ELSE "TARGET_PRESSURES_MET"

ReturnedStatus(part, in, r) == [r EXCEPT !.status = Status(part, in, r)]

\* calculate_compressor_train: the stages one after the other, and the
\* discharge pressure alone against its target.
Calculated(part, in, speed, mods) ==
  LET points[i \in part.low..part.high] ==
        Point(i, speed, in.rate + SideRate(part.low, i, in),
              IF i = part.low THEN in.suction ELSE points[i - 1].outlet, mods[i])
      outlet == points[part.high].outlet
  IN  [suction |-> in.suction, outlet |-> outlet, points |-> points, speed |-> speed,
       status |-> DischargeStatus(in, outlet)]

Empty == [suction |-> 0, outlet |-> 0, points |-> <<>>, speed |-> 0, status |-> "NOT_CALCULATED"]

WithinCapacity(r) == \A i \in DOMAIN r.points : r.points[i].valid

\* failure_status is NO_FAILURE.
HasNoFailure(r) ==
  WithinCapacity(r) /\ r.status \in {"TARGET_PRESSURES_MET", "NOT_CALCULATED"}

(***************************************************************************)
(* Searches (common/numeric_methods.py) over a grid.                        *)
(***************************************************************************)

\* find_root: nearest to zero where the bounds bracket it, else the bounded
\* secant method, which ends anywhere between them.
Roots(f) ==
  LET D == DOMAIN f
  IN  IF \E x, y \in D : f[x] <= 0 /\ f[y] >= 0
      THEN {x \in D : \A y \in D : Abs(f[x]) <= Abs(f[y])}
      ELSE D

\* maximize_x_given_boolean_condition_function: the lower bound, or a point of
\* the set, with no point of the set next above it.
Maximized(low, high, good) ==
  {x \in low..high : x \in good \cup {low} /\ ~(x < high /\ x + 1 \in good)}

\* The same with the sign of x turned around it.
Minimized(low, high, good) ==
  {x \in low..high : x \in good \cup {high} /\ ~(x > low /\ x - 1 \in good)}

(***************************************************************************)
(* find_fixed_shaft_speed_given_constraints.                                *)
(***************************************************************************)
MinimumSpeed(low, high) == Max({legacy.stages[i].low : i \in low..high})
MaximumSpeed(low, high) == Min({legacy.stages[i].high : i \in low..high})

\* A part keeps to the bounds of the whole train.
SpeedsOf(part) ==
  Max({MinimumSpeed(part.low, part.high), MinimumSpeed(Whole.low, Whole.high)})
    ..Min({MaximumSpeed(part.low, part.high), MaximumSpeed(Whole.low, Whole.high)})

FixedSpeeds(part, in, mods) ==
  LET S == SpeedsOf(part)
      at == [x \in S |-> Calculated(part, in, x, mods)]
      within == {x \in S : WithinCapacity(at[x])}
      above(lowest) ==
        IF at[lowest].outlet <= in.discharge /\ in.discharge <= at[Max(S)].outlet
        THEN Roots([x \in lowest..Max(S) |-> at[x].outlet - in.discharge])
        ELSE IF in.discharge < at[lowest].outlet THEN {lowest} ELSE {Max(S)}
  IN  IF Max(S) \notin within THEN {Max(S)}
      ELSE IF Min(S) \in within THEN above(Min(S))
      ELSE UNION {above(x) : x \in Minimized(Min(S), Max(S), within)}

(***************************************************************************)
(* Pressure control at a fixed speed: the results it may give, and what it  *)
(* leaves in the rate modifiers.                                            *)
(***************************************************************************)
Left(r, mods) == [result |-> r, mods |-> mods]

\* Some of the modifiers are set, those of the other part stay.
SetIn(part, mods, modifier) ==
  [i \in DOMAIN mods |-> IF i \in part.low..part.high THEN modifier ELSE mods[i]]

\* _evaluate_train_with_upstream_choking: a lower inlet pressure that gives the
\* discharge pressure; the result keeps the inlet that was asked for.
UpstreamChoked(part, in, speed, mods) ==
  LET at(p) == Calculated(part, [in EXCEPT !.suction = p], speed, mods)
      outlets == [p \in 0..in.discharge |-> at(p).outlet - in.discharge]
  IN  {ReturnedStatus(part, in, [at(p) EXCEPT !.suction = in.suction]) : p \in Roots(outlets)}

\* _evaluate_train_with_downstream_choking: a train with a maximum discharge
\* pressure is choked upstream down to it, the rest of the drop is at the outlet.
DownstreamChoked(part, in, speed, mods) ==
  LET r == Calculated(part, in, speed, mods)
      limited ==
        {ReturnedStatus(part, in, [r EXCEPT !.points = u.points, !.outlet = u.outlet]) :
           u \in UpstreamChoked(part, [in EXCEPT !.discharge = part.maximum], speed, mods)}
      released == IF part.maximum # NoPressure /\ r.outlet + PressureSlack > part.maximum
                  THEN limited ELSE {r}
  IN  {IF c.status = "ABOVE_TARGET_DISCHARGE_PRESSURE"
       THEN ReturnedStatus(part, in, [c EXCEPT !.outlet = in.discharge]) ELSE c : c \in released}

\* _evaluate_train_with_individual_asv_rate: the same share of the available
\* capacity is recirculated at every stage.
SharedRecirculation(part, in, speed, mods) ==
  LET with(f) == SetIn(part, mods, [mass |-> 0, fraction |-> f])
      at == [f \in 0..Notches |-> Calculated(part, in, speed, with(f))]
      used == IF ~WithinCapacity(at[0]) \/ in.discharge > at[0].outlet THEN {0}
              ELSE IF in.discharge < at[Notches].outlet THEN {Notches}
              ELSE Roots([f \in 0..Notches |-> at[f].outlet - in.discharge])
  IN  {Left(at[f], with(f)) : f \in used}

\* evaluate_given_speed_and_target_discharge_pressure: the mass to recirculate,
\* and the one its modifier is left with.
StageRecirculation(i, speed, mass, pressure, target) ==
  LET most == Max({0, Capacity(i, speed) + pressure \div Density - mass})
      at(x) == Point(i, speed, mass, pressure, [Unmodified EXCEPT !.mass = x]).outlet
  IN  IF at(0) < target THEN {[used |-> 0, left |-> most]}
      ELSE IF at(most) > target THEN {[used |-> most, left |-> most]}
      ELSE {[used |-> x, left |-> x] : x \in Roots([x \in 0..most |-> at(x) - target])}

\* _evaluate_train_with_individual_asv_pressure: every stage brings the same
\* pressure ratio.
BalancedRecirculation(part, in, speed, mods) ==
  LET ratio == (in.discharge - in.suction) \div (part.high - part.low + 1)
      start == [points |-> <<>>, mods |-> mods, outlet |-> in.suction]
      add(o, i, x) ==
        LET point == Point(i, speed, in.rate, o.outlet, [Unmodified EXCEPT !.mass = x.used])
        IN  [points |-> [j \in part.low..i |-> IF j = i THEN point ELSE o.points[j]],
             mods |-> [o.mods EXCEPT ![i] = [Unmodified EXCEPT !.mass = x.left]],
             outlet |-> point.outlet]
      upTo[i \in (part.low - 1)..part.high] ==
        IF i < part.low THEN {start}
        ELSE UNION {{add(o, i, x) :
                       x \in StageRecirculation(i, speed, in.rate, o.outlet, o.outlet + ratio)} :
                    o \in upTo[i - 1]}
  IN  {Left([Calculated(part, in, speed, o.mods) EXCEPT !.points = o.points, !.outlet = o.outlet,
              !.status = DischargeStatus(in, o.outlet)], o.mods) : o \in upTo[part.high]}

\* _evaluate_train_with_common_asv: one mass through all stages.  The bounds of
\* the search are masses no stage has to add to.
CommonRecirculation(part, in, speed, mods) ==
  LET reset == SetIn(part, mods, Unmodified)
      at(m) == Calculated(part, [in EXCEPT !.rate = m], speed, reset)
      density == in.suction \div Density
      least == Max({in.rate, legacy.stages[part.low].surge + density})
      most == Capacity(part.low, speed) + density
      constant == {m \in 0..most : Cardinality({at(m).points[i].mass : i \in part.low..part.high}) = 1}
      found == Min(constant \cap least..most)
      above(low) == low + ((found - least) * (most - low)) \div (most - least)
      bounds ==
        IF least \in constant
        THEN {<<least, m>> : m \in IF most \in constant THEN {most} ELSE Maximized(0, most, constant)}
        ELSE IF most \in constant THEN {<<m, most>> : m \in Minimized(least, most, constant)}
        ELSE UNION {{<<low, m>> : m \in Maximized(above(low), most, constant)} :
                    low \in Minimized(least, found, constant)}
      between(b) == Roots([m \in Min({b[1], b[2]})..Max({b[1], b[2]}) |-> at(m).outlet - in.discharge])
      extra(m) == SetIn(part, mods, [Unmodified EXCEPT !.mass = m - in.rate])
  IN  IF in.rate > most THEN {Left(at(in.rate), reset)}
      ELSE UNION {IF in.discharge > at(b[1]).outlet THEN {Left(at(b[1]), reset)}
                  ELSE IF in.discharge < at(b[2]).outlet THEN {Left(at(b[2]), reset)}
                  ELSE {Left(Calculated(part, in, speed, extra(m)), extra(m)) : m \in between(b)} :
                  b \in bounds}

\* evaluate_with_pressure_control_given_constraints.
Controlled(part, in, speed, mods) ==
  CASE part.control = "DOWNSTREAM_CHOKE" ->
         {Left(r, mods) : r \in DownstreamChoked(part, in, speed, mods)}
    [] part.control = "UPSTREAM_CHOKE" ->
         {Left(r, mods) : r \in UpstreamChoked(part, in, speed, mods)}
    [] part.control = "INDIVIDUAL_ASV_RATE" -> SharedRecirculation(part, in, speed, mods)
    [] part.control = "INDIVIDUAL_ASV_PRESSURE" -> BalancedRecirculation(part, in, speed, mods)
    [] part.control = "COMMON_ASV" -> CommonRecirculation(part, in, speed, mods)

\* The part of evaluate_given_constraints after the search for the speed.
Evaluated(in, speed, mods) ==
  LET r == Calculated(Whole, in, speed, mods)
  IN  IF r.status # "ABOVE_TARGET_DISCHARGE_PRESSURE" \/ Whole.control = "NONE"
      THEN {Left(r, mods)} ELSE Controlled(Whole, in, speed, mods)

(***************************************************************************)
(* The evaluation of the time steps.                                        *)
(***************************************************************************)
NoNeeds == [first |-> Empty, last |-> Empty]

InitLegacy ==
  /\ timeStep = 1
  /\ task = "start"
  /\ shaft = 0
  /\ modifiers = Reset
  /\ needs = NoNeeds
  /\ results = <<>>
  /\ maxRates = <<>>

\* _validate_nonnegative_stage_rates, _validate_positive_ingoing_rates.
HasNegativeRate(in) == in.rate < 0 \/ in.rate + SideRate(1, Len(legacy.stages), in) < 0
HasIngoingRate(in) == in.rate > 0 \/ SideRate(1, Len(legacy.stages), in) > 0

\* The answer to a time step.
Answer(r) ==
  /\ results' = Append(results, r)
  /\ timeStep' = timeStep + 1
  /\ task' = IF timeStep < Len(legacy.inputs) THEN "start" ELSE "rate"

Raise ==
  /\ results' = Append(results, [Empty EXCEPT !.status = "RAISED"])
  /\ task' = "raised"
  /\ UNCHANGED timeStep

StartTimeStep ==
  /\ task = "start"
  /\ modifiers' = Reset
  /\ needs' = NoNeeds
  /\ \/ HasNegativeRate(Input) /\ Raise
     \/ ~HasNegativeRate(Input) /\ ~HasIngoingRate(Input) /\ Answer(Empty)
     \/ /\ ~HasNegativeRate(Input) /\ HasIngoingRate(Input)
        /\ task' = IF legacy.split = 0 THEN "search" ELSE "first"
        /\ UNCHANGED <<timeStep, results>>
  /\ UNCHANGED <<legacy, shaft, maxRates>>

\* One discharge pressure.
FindSpeed ==
  /\ task = "search"
  /\ \E x \in FixedSpeeds(Whole, Input, modifiers) : shaft' = x
  /\ task' = "evaluate"
  /\ UNCHANGED <<legacy, timeStep, modifiers, needs, results, maxRates>>

EvaluateAtSpeed ==
  /\ task = "evaluate"
  /\ \E e \in Evaluated(Input, shaft, modifiers) : Answer(e.result) /\ modifiers' = e.mods
  /\ UNCHANGED <<legacy, shaft, needs, maxRates>>

\* Mutant: a part is not controlled before the speed of the train is known.
AloneUncontrolled(part, in, speed) ==
  {Left(Calculated(part, in, speed, modifiers), modifiers)}

\* Two discharge pressures: each part is first solved for the speed it needs.
\* At the lowest speed it is controlled, whether its pressure is too high or not.
Alone(part, in, speed) ==
  IF speed = MinimumSpeed(Whole.low, Whole.high) THEN Controlled(part, in, speed, modifiers)
  ELSE {Left(Calculated(part, in, speed, modifiers), modifiers)}

SolveFirstPart ==
  /\ task = "first"
  /\ \E x \in FixedSpeeds(FirstPart, FirstInput(Input), modifiers) :
       \E o \in Alone(FirstPart, FirstInput(Input), x) :
         /\ shaft' = x
         /\ modifiers' = o.mods
         /\ needs' = [needs EXCEPT !.first = o.result]
  /\ task' = "last"
  /\ UNCHANGED <<legacy, timeStep, results, maxRates>>

SolveLastPart ==
  /\ task = "last"
  /\ \E x \in FixedSpeeds(LastPart, LastInput(Input), modifiers) :
       \E o \in Alone(LastPart, LastInput(Input), x) :
         /\ shaft' = x
         /\ modifiers' = o.mods
         /\ needs' = [needs EXCEPT !.last = o.result]
         /\ \/ o.result.status = "RAISED" /\ Raise
            \/ o.result.status # "RAISED" /\ task' = "join" /\ UNCHANGED <<timeStep, results>>
  /\ UNCHANGED <<legacy, maxRates>>

\* The result of the two parts.
Joined(first, last, speed) ==
  ReturnedStatus(Whole, Input,
    [suction |-> first.suction, outlet |-> last.outlet, speed |-> speed, status |-> "NOT_CALCULATED",
     points |-> [i \in Stages |-> IF i \in DOMAIN first.points THEN first.points[i] ELSE last.points[i]]])

\* Mutant: the part that needs the lower speed keeps its own result.
JoinedAsTheyAre(first, last, speed) == {Left(Joined(first, last, speed), modifiers)}

\* The part that needs the lower speed is controlled at the speed of the other.
RunTogetherAt(first, last, speed) ==
  IF first.speed > last.speed
  THEN {Left(IF o.result.status = "RAISED" THEN o.result ELSE Joined(first, o.result, speed), o.mods) :
          o \in Controlled(LastPart, LastInput(Input), speed, modifiers)}
  ELSE {Left(Joined(o.result, last, speed), o.mods) :
          o \in Controlled(FirstPart, FirstInput(Input), speed, modifiers)}

JoinPartsAtSpeed ==
  /\ task = "join"
  /\ shaft' = Max({needs.first.speed, needs.last.speed})
  /\ \E o \in RunTogetherAt(needs.first, needs.last, shaft') :
       /\ modifiers' = o.mods
       /\ IF o.result.status = "RAISED" THEN Raise ELSE Answer(o.result)
  /\ UNCHANGED <<legacy, needs, maxRates>>

(***************************************************************************)
(* get_max_standard_rate, for trains with one stream.  A rate is -1 for NaN *)
(* and 0 where nothing works.  The modifiers are those the last time step   *)
(* left; only evaluate_given_constraints, probed upstream, clears them.     *)
(***************************************************************************)
EvaluatedAlone(in) == UNION {Evaluated(in, x, Reset) : x \in FixedSpeeds(Whole, in, Reset)}

\* Mutant: the first stage alone limits the rate.
FirstStoneWall(in, speed, mods, low) == {Capacity(1, speed) + in.suction \div Density}

\* The largest rates within capacity at a speed.
StoneWall(in, speed, mods, low) ==
  LET density == in.suction \div Density
      within == {m \in 0..(Capacity(1, speed) + density) :
                   WithinCapacity(Calculated(Whole, [in EXCEPT !.rate = m], speed, mods))}
  IN  Maximized(low, Capacity(1, speed) + density, within)

MaxStandardRates(in, mods) ==
  LET slow == MinimumSpeed(1, Len(legacy.stages))
      fast == MaximumSpeed(1, Len(legacy.stages))
      density == in.suction \div Density
      low == legacy.stages[1].surge + density
      at(m, speed) == Calculated(Whole, [in EXCEPT !.rate = m], speed, mods)
      probed == {m \in 0..(Capacity(1, fast) + density) :
                   \A e \in EvaluatedAlone([in EXCEPT !.rate = m]) : WithinCapacity(e.result)}
      onStoneWall(m, wall) ==
        IF at(m, fast).outlet >= in.discharge /\ in.discharge >= at(wall, slow).outlet
        THEN UNION {StoneWall(in, x, mods, low) :
                      x \in Roots([x \in slow..fast |->
                             at(Max(StoneWall(in, x, mods, low)), x).outlet - in.discharge])}
        ELSE IF at(wall, slow).outlet > in.discharge THEN {0} ELSE {-1}
      from(m) ==
        IF in.discharge >= at(m, fast).outlet
        THEN Roots([x \in low..m |-> at(x, fast).outlet - in.discharge])
        ELSE CASE legacy.control = "DOWNSTREAM_CHOKE" -> {m}
               [] legacy.control = "UPSTREAM_CHOKE" ->
                    Maximized(0, Capacity(1, fast) + density, probed)
               [] OTHER -> UNION {onStoneWall(m, wall) : wall \in StoneWall(in, slow, mods, 0)}
  IN  IF ~WithinCapacity(at(low, fast)) \/ at(low, fast).outlet < in.discharge THEN {0}
      ELSE UNION {from(m) : m \in StoneWall(in, fast, mods, low)}

HasOneStream == legacy.split = 0 /\ legacy.sideStage = 0

FindMaxRate ==
  LET in == legacy.inputs[Len(maxRates) + 1]
  IN  /\ task = "rate"
      /\ HasOneStream
      /\ Len(maxRates) < Len(legacy.inputs)
      /\ \E rate \in MaxStandardRates(in, modifiers) :
           maxRates' = Append(maxRates, [rate |-> rate, mods |-> modifiers])
      /\ \E x \in SpeedsOf(Whole) : shaft' = x
      /\ UNCHANGED <<legacy, timeStep, task, modifiers, needs, results>>

NextLegacy ==
  \/ StartTimeStep
  \/ FindSpeed
  \/ EvaluateAtSpeed
  \/ SolveFirstPart
  \/ SolveLastPart
  \/ JoinPartsAtSpeed
  \/ FindMaxRate

(***************************************************************************)
(* Properties.                                                              *)
(***************************************************************************)

Answered == {t \in DOMAIN results : results[t].points # <<>>}

\* What a result without failure says of the machine: the stages run at the
\* one speed of the shaft, which all of their charts have; each takes in what
\* the one before delivers, or the pressure between the parts; the train takes
\* in no more than the suction pressure; and the pressures asked for are met.
Between(t, i) == legacy.split > 0 /\ i = legacy.split

IsReal(t, r) ==
  LET in == legacy.inputs[t]
      near(p, q) == Abs(p - q) <= PressureSlack
  IN  /\ \A i \in Stages :
           /\ r.points[i].speed = r.speed
           /\ r.speed \in legacy.stages[i].low..legacy.stages[i].high
           /\ i > 1 => \/ r.points[i].inlet = r.points[i - 1].outlet
                       \/ Between(t, i - 1) /\ r.points[i].inlet <= in.interstage + PressureSlack
      /\ r.points[1].inlet <= in.suction + PressureSlack
      /\ near(r.outlet, in.discharge)
      /\ r.outlet <= r.points[Len(legacy.stages)].outlet
      /\ legacy.split > 0 => near(r.points[legacy.split].outlet, in.interstage)
      /\ legacy.maximum > 0 => r.points[Len(legacy.stages)].outlet <= legacy.maximum + PressureSlack

\* A time step the train reports no failure for is one it can run.
TrainSuccessIsReal ==
  \A t \in Answered : HasNoFailure(results[t]) => IsReal(t, results[t])

\* Some setting of the control meets the discharge pressure exactly at a speed,
\* with every stage within its capacity.
Reaches(part, in, speed) ==
  LET at(modifier) == Calculated(part, in, speed, SetIn(part, Reset, modifier))
      exact(r) == /\ r.outlet = in.discharge
                  /\ \A i \in DOMAIN r.points : r.points[i].flow <= Capacity(i, speed)
  IN  CASE part.control = "DOWNSTREAM_CHOKE" ->
             LET r == at(Unmodified)
             IN  WithinCapacity(r) /\ r.outlet >= in.discharge
                 /\ (part.maximum > 0 => r.outlet + PressureSlack <= part.maximum)
        [] part.control = "INDIVIDUAL_ASV_RATE" ->
             \E f \in 0..Notches : exact(at([mass |-> 0, fraction |-> f]))
        [] part.control = "COMMON_ASV" ->
             \E m \in 0..Capacity(part.low, speed) :
               LET r == at([Unmodified EXCEPT !.mass = m])
               IN  exact(r) /\ \A i \in DOMAIN r.points : r.points[i].mass = in.rate + m
        [] OTHER -> exact(at(Unmodified))

CanRunTimeStep(in) ==
  /\ ~HasNegativeRate(in)
  /\ \E x \in SpeedsOf(Whole) :
       IF legacy.split = 0 THEN Reaches(Whole, in, x)
       ELSE Reaches(FirstPart, FirstInput(in), x) /\ Reaches(LastPart, LastInput(in), x)

\* A time step the train can run at some speed, with some setting of its
\* pressure control, gets a result without failure.  (An upstream choke is only
\* tried at the lowest speed, and a downstream choke ahead of a pressure
\* between stages leaves that pressure where it was.)
FeasibleIsFound ==
  legacy.first # "DOWNSTREAM_CHOKE" =>
    \A t \in DOMAIN results :
      CanRunTimeStep(legacy.inputs[t]) /\ results[t].status # "RAISED" => HasNoFailure(results[t])

\* A maximum rate of a train that was left with no recirculation is one the
\* train can be run at; with a choke it can meet the pressures at no higher one.
MaxRateIsTheLimit ==
  \A t \in DOMAIN maxRates :
    LET rate == maxRates[t].rate
        in(m) == [legacy.inputs[t] EXCEPT !.rate = m]
    IN  maxRates[t].mods = Reset /\ rate > -1 =>
          /\ \A e \in EvaluatedAlone(in(rate)) : rate > 0 => HasNoFailure(e.result)
          /\ legacy.control \in {"DOWNSTREAM_CHOKE", "UPSTREAM_CHOKE"} =>
               \A m \in (rate + 1)..(Capacity(1, MaximumSpeed(Whole.low, Whole.high)) + in(rate).suction) :
                 ~CanRunTimeStep(in(m))

\* A stage number the train accepts for the pressure between stages can be
\* evaluated with either choke.
StageNumberIsEvaluated ==
  legacy.split \in 1..(Len(legacy.stages) - 1) =>
    \A t \in DOMAIN results :
      legacy.inputs[t].rate > 0 => results[t].status # "RAISED"

=============================================================================
