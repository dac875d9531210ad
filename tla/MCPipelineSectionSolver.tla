---------------------- MODULE MCPipelineSectionSolver ----------------------
(***************************************************************************)
(* Two-stage sections for TLC.  The wide train has room for recirculation  *)
(* at every speed; the narrow one has little, and chokes at low speed; the *)
(* tapered one has a second stage that chokes before the first does.  The  *)
(* fluid of the fragile train cannot be flashed at the highest speed and   *)
(* at high suction pressures, that of the cold one at the lowest speed.    *)
(***************************************************************************)
EXTENDS PipelineSectionSolver, CompressorTrain

MCMinimumFlow(train, i, speed) ==
  IF train = "narrow" THEN speed - 1 ELSE speed \div 2

MCMaximumFlow(train, i, speed) ==
  IF train = "narrow" THEN speed
  ELSE IF train = "tapered" /\ i = 2 THEN speed + 1
  ELSE speed + 2

\* The first stage gains with speed; both lose as the rate grows from surge.
MCHead(train, i, speed, actual) ==
  (IF i = 1 THEN 1 + speed ELSE 3)
  - (actual - MCMinimumFlow(train, i, speed)) \div 2

MCFlashFails(train, i, speed, pressure) ==
  i = 2 /\ \/ train = "fragile" /\ (speed = MaxSpeed \/ pressure > 11)
           \/ train = "cold" /\ speed = MinSpeed

MCTrains   == {"wide", "narrow", "fragile", "tapered", "cold"}
MCControls == PressureControlTypes
MCFewInlets == {[pressure |-> 6, rate |-> q] : q \in {3, 7}}
MCInlets   == {[pressure |-> 6, rate |-> q] : q \in {1, 3, 4, 6, 7, 9}}
MCTargets  == {7, 9, 10, 12, 14, 16}
=============================================================================
