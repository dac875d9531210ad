-------------------------- MODULE EnergyModelInputs --------------------------
(***************************************************************************)
(* Runs of three or four periods.  The yaml models vary in one respect at a *)
(* time: the variables and the order they are written in, the fuels and the *)
(* models of a generator set, the models of the consumers, the settings of  *)
(* a consumer system, the installations, and what cannot be read.  Models   *)
(* start before, at, during and after the run.                              *)
(***************************************************************************)
EXTENDS EnergyModel

Dated(d, m)    == [date |-> d, model |-> m]
Undated(m)      == <<Dated(DateMin, m)>>
Uses(names, n) == [uses |-> names, plus |-> n]
Var(n, entries) == [name |-> n, entries |-> entries]
Once(e)        == <<[date |-> DateMin, value |-> e]>>
Twice(e, f)    == <<[date |-> 20, value |-> e], [date |-> 30, value |-> f]>>

Direct(l)      == [kind |-> DIRECT, load |-> l, capacities |-> <<>>, settings |-> <<>>]
Process(l, c)  == [kind |-> PROCESS, load |-> l, capacities |-> <<c>>, settings |-> <<>>]
Unusable       == [kind |-> INVALID, load |-> "ts", capacities |-> <<>>, settings |-> <<>>]
System(l, c, s) == [kind |-> SYSTEM, load |-> l, capacities |-> c, settings |-> s]
Setting(shares, crossover, discharge) ==
  [shares |-> shares, crossover |-> crossover, discharge |-> discharge]

Genset(cap)       == [capacity |-> cap, slope |-> 3]
Consumer(id, f, m) == [id |-> id, fuel |-> f, models |-> m]
GeneratorSet(id, f, m, cs) == [id |-> id, fuel |-> f, models |-> m, consumers |-> cs]
Platform(id, f, gs, cs, vs) ==
  [id |-> id, fuel |-> f, generators |-> gs, consumers |-> cs, emitters |-> vs]
Venting(id) == [id |-> id]

\* A profile of the reservoir, and a tariff that is not given a date of its own.
Reservoir == [name |-> "ts", points |-> (10 :> 2 @@ 20 :> 4 @@ 30 :> 6),
              interpolation |-> RIGHT, extrapolate |-> FALSE, influences |-> TRUE]
Late      == [name |-> "late", points |-> (15 :> 5 @@ 25 :> 1),
              interpolation |-> LEFT, extrapolate |-> TRUE, influences |-> FALSE]

Yaml(start, variables, installations) ==
  [readable |-> {TRUE}, start |-> start, end |-> 40, series |-> {Reservoir, Late},
   variables |-> variables, installations |-> installations]

Plain == <<Var("x", Once(Uses({"ts"}, 1)))>>

TwoUnits(crossover) ==
  System("x", <<9, 5>>, <<Setting(<<2, 1>>, crossover, <<1, 1>>), Setting(<<1, 1>>, <<0, 0>>, <<1, 1>>)>>)

(***************************************************************************)
(* The families of models.                                                  *)
(***************************************************************************)
MCUses == {{"ts"}, {"late"}, {"x"}, {"y"}, {"z"}, {"x", "y"}, {"nowhere"}}

Burner(load) == Platform("i1", Undated(2), <<>>, <<Consumer("f1", <<>>, Undated(Direct(load)))>>, <<>>)

VariableModels ==
  {Yaml(10, <<Var("x", Once(Uses(a, 1))), Var("y", Twice(Uses(b, 2), Uses({}, 7))), Var("z", Once(Uses(c, 0)))>>,
        <<Burner("ts")>>) : a, b, c \in MCUses}

SomeFuels == {<<>>, Undated(2), <<Dated(10, 2), Dated(20, 3)>>, <<Dated(20, 3)>>, <<Dated(50, 3)>>, <<Dated(30, 2), Dated(20, 3)>>}

GensetModels ==
  {Undated(Genset(8)), <<Dated(10, Genset(3)), Dated(20, Genset(9))>>, <<Dated(20, Genset(9))>>, <<Dated(50, Genset(9))>>}

FuelModels ==
  {Yaml(start, Plain,
        <<Platform("i1", f, <<GeneratorSet("g1", h, m, <<Consumer("c1", <<>>, Undated(Direct("x")))>>)>>,
                       <<Consumer("f1", <<>>, Undated(Process("x", 5)))>>, <<Venting("v1")>>)>>) :
     start \in {10, NoDate}, f \in SomeFuels, h \in {<<>>, <<Dated(20, 5)>>}, m \in GensetModels}

UsageModels ==
  {Undated(Direct("late")),
   <<Dated(5, Process("x", 4)), Dated(20, Process("ts", 4))>>,
   <<Dated(20, Direct("x")), Dated(30, Direct("ts"))>>,
   <<Dated(3, Process("x", 9)), Dated(6, Process("ts", 9))>>,
   <<Dated(50, Process("x", 9))>>,
   <<Dated(10, Process("x", 9)), Dated(30, Unusable)>>,
   <<Dated(30, Process("x", 9)), Dated(20, Process("ts", 9))>>,
   Undated(TwoUnits(<<2, 0>>))}

ConsumerModels ==
  {Yaml(start, Plain,
        <<Platform("i1", Undated(2),
            <<GeneratorSet("g1", <<>>, Undated(Genset(14)), <<Consumer("c1", <<>>, m), Consumer("c2", <<>>, n)>>)>>,
            <<Consumer("f1", fuel, Undated(Direct("x")))>>, <<>>)>>) :
     start \in {10, NoDate}, m, n \in UsageModels, fuel \in {<<>>, <<Dated(20, 7)>>}}

Crossovers == {<<0, 0, 0>>, <<2, 0, 0>>, <<2, 3, 0>>, <<3, 3, 0>>, <<2, 1, 0>>, <<0, 0, 1>>}

SystemModels ==
  {Yaml(10, Plain,
        <<Platform("i1", Undated(2), <<>>,
            <<Consumer("f1", <<>>, <<Dated(20, System("x", c, <<Setting(<<3, 1, 1>>, o, d), Setting(<<2, 2, 1>>, p, <<1, 1, 1>>),
                                                  Setting(<<1, 1, 1>>, <<0, 0, 0>>, <<1, 1, 1>>)>>))>>)>>, <<>>)>>) :
     c \in {<<8, 8, 8>>, <<12, 8, 6>>, <<15, 15, 15>>}, o, p \in Crossovers, d \in {<<1, 1, 1>>, <<2, 1, 2>>}}

InstallationModels ==
  {Yaml(10, Plain, <<Burner("x"), i>>) :
     i \in {Platform("i2", <<>>, <<>>, <<>>, <<Venting("v1")>>),
            Platform("i2", Undated(3), <<>>, <<Consumer("f2", <<>>, <<Dated(50, Direct("x"))>>)>>, <<>>),
            Platform("i2", Undated(3), <<GeneratorSet("g1", <<>>, Undated(Genset(9)), <<>>)>>, <<>>, <<>>),
            Platform("i2", Undated(3),
              <<GeneratorSet("g1", <<>>, Undated(Genset(9)), <<Consumer("c1", <<>>, Undated(Direct("x")))>>),
                GeneratorSet("g2", <<Dated(10, 4)>>, <<Dated(10, Genset(9))>>, <<Consumer("c2", <<>>, Undated(TwoUnits(<<2, 0>>)))>>)>>,
              <<Consumer("f2", <<>>, <<Dated(30, Process("x", 5))>>)>>, <<Venting("v1")>>)}}

UnreadableModels ==
  {[Yaml(start, Plain, <<Burner("x")>>) EXCEPT !.readable = r, !.end = e, !.series = s] :
     start \in {10, NoDate}, r \in {{FALSE}, {TRUE, FALSE}}, e \in {10, 40},
     s \in {{Reservoir}, {[Reservoir EXCEPT !.influences = FALSE]}}}

MCYamls ==
  VariableModels \cup FuelModels \cup ConsumerModels \cup SystemModels
    \cup InstallationModels \cup UnreadableModels

=============================================================================
