-------------------------- MODULE PipelineSection --------------------------
(***************************************************************************)
(* The vocabulary of the process solver: one pipeline section, the         *)
(* handlers through which its units are configured, and the runner that    *)
(* propagates a stream through them.                                       *)
(*                                                                         *)
(* Pressures, standard rates and speeds lie on integer lattices whose unit *)
(* is the resolution of the solver (its pressure tolerance, the relative   *)
(* tolerance of its searches).  The thermodynamics of the units is not     *)
(* fixed here: RunTo and RecirculationRange are parameters, so that what   *)
(* is proved about the solver holds whatever the charts and the fluid.     *)
(* CompressorTrain gives the definitions used for model checking.          *)
(***************************************************************************)
EXTENDS Integers

CONSTANTS
  Stages,       \* the number of compressors of a section, in flow order
  Trains,       \* the sets of compressor charts under study
  Controls,     \* the pressure-control types under study
  MinSpeed, MaxSpeed,     \* PipelineSection.speed_boundary
  MaxRate,      \* the largest recirculation rate of the lattice
  MaxPressure,  \* the largest pressure of the lattice
  Tolerance,    \* PRESSURE_CALCULATION_TOLERANCE, in lattice units
  Inlets,       \* the inlet streams, records of a pressure and a standard rate
  RunTo(_, _, _, _),    \* (section, plant, inlet, i) |-> stream at compressor i
  RecirculationRange(_, _, _, _)  \* (train, i, speed, stream) |-> boundary

PressureControlTypes ==
  {"UPSTREAM_CHOKE", "DOWNSTREAM_CHOKE", "COMMON_ASV",
   "INDIVIDUAL_ASV_RATE", "INDIVIDUAL_ASV_PRESSURE"}

Sections  == [train : Trains, control : Controls]
Speeds    == {0} \cup (MinSpeed .. MaxSpeed)   \* 0: no speed set yet
Rates     == 0 .. MaxRate
Pressures == 0 .. MaxPressure

(***************************************************************************)
(* Configuration handlers: the shaft, one recirculation loop per stage (or *)
(* the first one alone, around the whole train, under COMMON_ASV) and the  *)
(* choke.  A plant gives each handler its present setting; a configuration *)
(* is a setting for some of the handlers.                                  *)
(***************************************************************************)
Shaft    == 0
Choke    == Stages + 1
Handlers == Shaft .. Choke

Setting(h) ==
  IF h = Shaft THEN Speeds ELSE IF h = Choke THEN Pressures ELSE Rates

Settings == Speeds \cup Rates \cup Pressures
Plants   == {p \in [Handlers -> Settings] : \A h \in Handlers : p[h] \in Setting(h)}

HasChoke(section) == section.control \in {"UPSTREAM_CHOKE", "DOWNSTREAM_CHOKE"}
Loops(section)    == IF section.control = "COMMON_ASV" THEN {1} ELSE 1 .. Stages

\* The handlers that the assembled section registers with its runner.
HandlersOf(section) ==
  {Shaft} \cup Loops(section) \cup (IF HasChoke(section) THEN {Choke} ELSE {})

Set(h, x)         == [k \in {h} |-> x]
ResetLoops(section) == [h \in Loops(section) |-> 0]

\* Later entries win, handler by handler.  Applying configurations to a plant
\* is the same merge.
merge_configurations(first, second) ==
  [h \in DOMAIN first \cup DOMAIN second |->
     IF h \in DOMAIN second THEN second[h] ELSE first[h]]

Apply(plant, configuration) == merge_configurations(plant, configuration)

FreshPlant == [h \in Handlers |-> 0]

(***************************************************************************)
(* What a run of the section produces: a stream, or the error that stopped *)
(* it.                                                                     *)
(***************************************************************************)
RunStatuses == {"ok", "RateTooLow", "RateTooHigh", "OutsideCapacity", "Eos", "ValueError"}
Outcomes    == [status : RunStatuses, pressure : Pressures, rate : Nat]

Run(section, plant, inlet) == RunTo(section, plant, inlet, Stages + 1)

\* FloatConstraint: comparisons of a pressure with a target, within tolerance.
Close(p, target) == p - target <= Tolerance /\ target - p <= Tolerance
Below(p, target) == p < target /\ ~Close(p, target)
Above(p, target) == p > target /\ ~Close(p, target)

ASSUME SectionAssumption ==
  /\ Stages \in Nat \ {0}
  /\ MinSpeed \in Nat \ {0} /\ MaxSpeed \in Nat /\ MinSpeed <= MaxSpeed
  /\ MaxRate \in Nat /\ MaxPressure \in Nat /\ Tolerance \in Nat
  /\ Controls \subseteq PressureControlTypes
  /\ Inlets \subseteq [pressure : Pressures, rate : Nat]

\* Boundaries of recirculation rates.
Boundaries == {b \in [min : Rates, max : Rates] : b.min <= b.max}

\* The units answer every configuration the solver can give them: a stream or
\* one of the process errors, and at a compressor that turns and is reached, a
\* boundary of recirculation rates on the lattice.
ASSUME UnitsAssumption ==
  \A section \in Sections, plant \in Plants, inlet \in Inlets, i \in 1 .. Stages + 1 :
    LET stream == RunTo(section, plant, inlet, i)
    IN  /\ stream \in Outcomes
        /\ (i <= Stages /\ plant[Shaft] # 0 /\ stream.status = "ok") =>
             RecirculationRange(section.train, i, plant[Shaft], stream) \in Boundaries
=============================================================================
