-------------------------- MODULE MCProcessNetwork --------------------------
(***************************************************************************)
(* Three trains with equal and unequal fractions, overflow in and against   *)
(* the order of the trains, and limits below, at and above their rates; a   *)
(* train that can only operate between two rates.  Two and three sections   *)
(* in series, on one shaft or on their own.  Trains of two and three stages *)
(* over one and two time steps, with every pressure control, side streams   *)
(* in and out, a maximum discharge pressure, and a pressure between stages, *)
(* at rates from none to above capacity; sampled compressors.  Charts of    *)
(* one curve, of two and of three, which bulge beyond the line between the  *)
(* outer two: swept, for pumps, and for trains of one and two stages.       *)
(***************************************************************************)
EXTENDS ProcessNetwork

CONSTANTS trainA, trainB, trainC

MCTrains == <<trainA, trainB, trainC>>

Edge(from, to) == [from |-> from, to |-> to]

MCOverflows == {<<>>, <<Edge(trainA, trainB)>>, <<Edge(trainA, trainC), Edge(trainB, trainC)>>, <<Edge(trainC, trainA)>>,
                <<Edge(trainA, trainB), Edge(trainB, trainC)>>, <<Edge(trainA, trainB), Edge(trainA, trainC)>>}

FirstSettings(o) == [fractions : {<<1, 1, 2>>, <<2, 1, 1>>}, overflows : {o}]
LastSetting(o)   == [fractions |-> <<4, 0, 0>>, overflows |-> o]

MCHandles == {0..x : x \in {50, 100, 300}} \cup {100..200}

MCDistributions ==
  {[rate |-> 400, settings |-> <<s, LastSetting(o)>>, handles |-> h] :
     s \in UNION {FirstSettings(o) : o \in MCOverflows}, o \in {<<>>, <<Edge(trainA, trainB), Edge(trainB, trainC)>>},
     h \in [{trainA, trainB, trainC} -> MCHandles]}

MCSections == [control : {COMMON_ASV, UPSTREAM_CHOKE, DOWNSTREAM_CHOKE}, surge : {3, 6}, wall : {-9, 0, 4}, eos : {2, MaxSpeed}]

MCSeries ==
  {[sections |-> s, targets |-> t, inlet |-> [pressure |-> 3, rate |-> 4], job |-> j] :
     s \in [1..2 -> MCSections],
     t \in {<<5, 14>>, <<8, 24>>, <<13, 34>>, <<15, 40>>, EqualRatioTargets(2, 3, 3, 27)},
     j \in {SAME_SHAFT, OWN_SHAFTS}}
  \cup
  {[sections |-> s, targets |-> t, inlet |-> [pressure |-> 3, rate |-> 4], job |-> j] :
     s \in [1..3 -> [control : {COMMON_ASV}, surge : {3, 6}, wall : {0, 4}, eos : {MaxSpeed}]],
     t \in {<<10, 22, 46>>, <<8, 16, 40>>},
     j \in {SAME_SHAFT, OWN_SHAFTS}}

Stage(surge, wall, head) == [low |-> 1, high |-> 6, surge |-> surge, wall |-> wall, head |-> head]

MCStages2 == {<<Stage(4, 8, 5), [Stage(1, 5, 5) EXCEPT !.low = 2, !.high = 5]>>,
              <<Stage(4, 8, 5), Stage(3, 7, 6)>>}
MCStages3 == <<Stage(4, 8, 5), [Stage(1, 5, 5) EXCEPT !.low = 2, !.high = 5], Stage(0, 3, 5)>>

TimeStep(discharge, between, rate, side) ==
  [suction |-> 6, discharge |-> discharge, interstage |-> between, rate |-> rate, side |-> side]

Chokes == {"DOWNSTREAM_CHOKE", "UPSTREAM_CHOKE"}
Controls == Chokes \cup {"INDIVIDUAL_ASV_RATE", "INDIVIDUAL_ASV_PRESSURE", "COMMON_ASV"}

Train(stages, control, inputs) ==
  [stages |-> stages, control |-> control, first |-> "NONE", last |-> "NONE", split |-> 0,
   sideStage |-> 0, maximum |-> 0, inputs |-> inputs]

\* One discharge pressure, without and with a maximum.
MCTrainsOne ==
  {Train(s, k, <<TimeStep(p, 0, r, 0), TimeStep(q, 0, r2, 0)>>) :
     s \in MCStages2, k \in Controls \cup {"NONE"},
     p \in {14, 20, 26}, r \in {3, 7, 9, 12, 14}, q \in {16, 19}, r2 \in {0, 5, 8, 11}}
  \cup
  {[Train(s, "DOWNSTREAM_CHOKE", <<TimeStep(p, 0, r, 0), TimeStep(20, 0, 6, 0)>>) EXCEPT !.maximum = m] :
     s \in MCStages2, p \in {14, 18}, r \in {3, 7, 9, 12, 14}, m \in {19, 23}}

\* A side stream ahead of the second stage.
MCTrainsSide ==
  {[Train(s, k, <<TimeStep(p, 0, r, x), TimeStep(20, 0, 6, x)>>) EXCEPT !.sideStage = 2] :
     s \in MCStages2, k \in Chokes \cup {"INDIVIDUAL_ASV_RATE"},
     p \in {14, 18, 22}, r \in {0, 3, 7, 9, 12}, x \in {-4, 2}}

\* A pressure between the stages.
MCTrainsTwo ==
  {[Train(s, "NONE", <<TimeStep(q, p, r, 0), TimeStep(24, 14, 8, 0)>>)
      EXCEPT !.first = f, !.last = l, !.split = 1] :
     s \in MCStages2, f \in Controls, l \in Controls,
     p \in {12, 14, 16}, q \in {20, 24, 28}, r \in {4, 8, 12}}
  \cup
  {[Train(MCStages3, "NONE", <<TimeStep(q, p, r, -1)>>)
      EXCEPT !.first = f, !.last = l, !.split = k, !.sideStage = x] :
     f \in {"UPSTREAM_CHOKE", "INDIVIDUAL_ASV_RATE"},
     l \in {"DOWNSTREAM_CHOKE", "INDIVIDUAL_ASV_RATE"}, k \in {1, 2}, x \in {0, 3},
     p \in {12, 16, 20}, q \in {24, 28, 32}, r \in {4, 8, 12}}

\* Tables of one, two and three columns: a box and two slanted bodies, polygons
\* of every pair of variables, a diagonal through the middle of the box, a
\* column with one value, and tables that are too flat or not unique.
Table(given, rows) == [given |-> given, rows |-> rows]

MCTables ==
  {Table({RATE, PS, PD}, r) : r \in
     {<<<<1, 1, 1>>, <<3, 1, 1>>, <<1, 3, 1>>, <<3, 3, 1>>, <<1, 1, 3>>, <<3, 1, 3>>, <<1, 3, 3>>, <<3, 3, 3>>>>,
      <<<<1, 1, 2>>, <<1, 1, 5>>, <<3, 1, 3>>, <<3, 1, 4>>, <<1, 2, 3>>, <<1, 2, 6>>, <<4, 2, 4>>>>,
      <<<<1, 1, 3>>, <<3, 1, 3>>, <<5, 2, 1>>, <<1, 2, 1>>, <<1, 1, 5>>, <<4, 2, 4>>, <<1, 2, 4>>>>,
      <<<<1, 2, 2>>, <<2, 2, 1>>, <<5, 2, 2>>, <<4, 2, 4>>, <<2, 2, 5>>>>}}
  \cup
  {Table({RATE, PD}, r) : r \in
     {<<<<1, 0, 2>>, <<2, 0, 1>>, <<5, 0, 2>>, <<4, 0, 4>>, <<2, 0, 5>>>>,
      <<<<1, 0, 1>>, <<3, 0, 1>>, <<1, 0, 3>>>>, <<<<1, 0, 1>>, <<3, 0, 3>>, <<1, 0, 3>>>>,
      <<<<1, 0, 1>>, <<2, 0, 2>>, <<3, 0, 3>>>>, <<<<1, 0, 2>>, <<3, 0, 2>>>>}}
  \cup
  {Table({RATE, PS}, <<<<1, 2, 0>>, <<2, 1, 0>>, <<4, 3, 0>>, <<3, 5, 0>>, <<1, 4, 0>>>>),
   Table({PS, PD}, <<<<0, 1, 2>>, <<0, 2, 1>>, <<0, 4, 3>>, <<0, 3, 5>>, <<0, 1, 4>>>>),
   Table({PS}, <<<<0, 3, 0>>, <<0, 2, 0>>>>), Table({RATE}, <<<<1, 0, 0>>, <<1, 0, 0>>, <<2, 0, 0>>>>),
   Table({RATE}, <<<<1, 0, 0>>>>)}

MCRequests == (0..6) \X (0..4) \X (0..6)

Numbers(points) == [i \in DOMAIN points |-> <<<<points[i][1], 1>>, <<points[i][2], 1>>>>]
Curve(speed, points) == [speed |-> <<speed, 1>>, points |-> Numbers(points)]

SlowCurve == Curve(2, <<<<2, 6>>, <<4, 5>>, <<6, 2>>>>)
FastCurve == Curve(4, <<<<4, 12>>, <<7, 10>>, <<9, 6>>>>)

MCCharts == {<<SlowCurve>>, <<SlowCurve, FastCurve>>,
             <<SlowCurve, Curve(3, <<<<3, 9>>, <<5, 8>>, <<8, 4>>>>), FastCurve>>}

MCSweeps == {[chart |-> c, margin |-> m, around |-> a] : c \in MCCharts, m \in {<<0, 1>>, <<1, 4>>}, a \in {<<0, 1>>, <<1, 2>>}}

MCPumps == {[chart |-> c, margin |-> m, lift |-> l, density |-> 2] :
              c \in MCCharts, m \in {<<0, 1>>, <<1, 1>>}, l \in 0..27}

MCPumpRates == {<<n, 1>> : n \in 0..10} \cup {<<2 * n + 1, 2>> : n \in 0..9}

MCSimplifiedTrains ==
  {[charts |-> s, suction |-> 1, ratio |-> r, gas |-> g, unflashed |-> u] :
     s \in {<<c>> : c \in MCCharts} \cup (MCCharts \X MCCharts), r \in 1..3, g \in 2..6, u \in 0..1}

MCMassRates == {<<n, 1>> : n \in 0..30} \cup {<<n, 2>> : n \in {5, 7, 9, 11, 13, 17}}

MCLegacyTrains == MCTrainsOne \cup MCTrainsSide \cup MCTrainsTwo

=============================================================================
