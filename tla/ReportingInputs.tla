--------------------------- MODULE ReportingInputs ---------------------------
(***************************************************************************)
(* Results and plans on eight days, with months that start on even days     *)
(* and years on days 0 and 4.  Time series: a result over the periods       *)
(* [1, 3) and [3, 6) and a second one over the same periods, the days       *)
(* before or the days after.  Export: a fixed and a mobile installation     *)
(* whose categories and fuels change on various days.                       *)
(***************************************************************************)
EXTENDS TimeSeries, Exporter, DeltaProfile

MCDateMin == -1
MCHorizon == 0..7
MCGrids   == {{0, 2, 4, 6}, {0, 4}}
MCExportGrids == {{}, {0, 2, 4, 6}, {0, 4}}

SomeRates    == {Zero, Whole(2)}
Regularities == {Zero, <<1, 2>>, One}

Series(ps, rates, regularities, flags, values) ==
  {[periods |-> ps, type |-> STREAM_DAY, rates |-> q, regularity |-> g,
    valid |-> v, value |-> values] : q \in rates, g \in regularities, v \in flags}

Uniform(n, S) == {[i \in 1..n |-> x] : x \in S}

MCInputs ==
  LET both == <<<<1, 3>>, <<3, 6>>>>
  IN  [first  |-> Series(both, [1..2 -> SomeRates], [1..2 -> Regularities],
                         {<<TRUE, FALSE>>, <<FALSE, TRUE>>}, <<"low", "high">>),
       second |-> Series(both, [1..2 -> SomeRates], Uniform(2, Regularities), {<<TRUE, TRUE>>},
                         <<"low", "high">>)
                  \cup Series(<<<<6, 8>>>>, Uniform(1, {Whole(2)}), Uniform(1, {<<1, 2>>}),
                              Uniform(1, BOOLEAN), <<"rest">>)
                  \cup Series(<<<<0, 1>>>>, Uniform(1, {Whole(1)}), Uniform(1, {One}),
                              Uniform(1, {FALSE}), <<"rest">>)]

-----------------------------------------------------------------------------
MCFuelCategory == [gas |-> "FUEL-GAS", diesel |-> "DIESEL", bio |-> None]
MCFuelFactors  == [gas |-> [co2 |-> Whole(2), nox |-> One, nmvoc |-> One, ch4 |-> <<1, 2>>],
                   diesel |-> [co2 |-> Whole(3), nox |-> Whole(2)],
                   bio |-> [ch4 |-> One]]

\* Rates and the regularity step on the dates of the time series, 1 and 4.
Stepped(before, after) == [d \in 0..8 |-> IF d < 4 THEN before ELSE after]
Constant(x) == Stepped(x, x)

Always(x)      == <<[date |-> -1, model |-> x]>>
From(d, x)     == <<[date |-> d, model |-> x]>>
Then(x, d, y)  == <<[date |-> 0, model |-> x], [date |-> d, model |-> y]>>

User(id, category, fuel, rate, power) ==
  [id |-> id, category |-> category, fuel |-> fuel, rate |-> rate, power |-> power]

Load(id, category, power) == [id |-> id, category |-> category, power |-> power]

Generator(id, category, fuel, rate, loss, peak, loads) ==
  [id |-> id, category |-> category, fuel |-> fuel, rate |-> rate, loss |-> loss,
   peak |-> peak, consumers |-> loads]

Emitter(id, category, oil, type, rate, factors) ==
  [id |-> id, category |-> Always(category), oil |-> oil, type |-> type, rate |-> rate,
   factors |-> factors]

\* The generator set, which may be turned into power from shore.
Sets ==
  {Generator("genset", c[1], fuel, Stepped(Whole(2), One), <<1, 10>>, <<Stepped(One, Whole(3))>>,
             <<Load("base", Always("BASE-LOAD"), <<Stepped(Whole(5), One)>>),
               Load("wind", c[2], <<Constant(Whole(-1))>>)>>) :
     c \in {<<Always("TURBINE-GENERATOR"), Then("OFFSHORE-WIND", 2, "STEAM-TURBINE-GENERATOR")>>,
            <<Then("TURBINE-GENERATOR", 3, "POWER-FROM-SHORE"), Always("OFFSHORE-WIND")>>},
     fuel \in {Always("gas"), Then("gas", 5, "diesel")}}

\* A fuel consumer with power and one without, whose category may start late or
\* be written out of order.
Drivers ==
  {<<User("compressor", c[1], Then("gas", 5, "bio"), Constant(One), <<Stepped(Whole(4), Whole(3))>>),
     User("burner", c[2], Then("diesel", 2, "gas"), Stepped(One, Whole(4)), <<>>)>> :
     c \in {<<Always("GAS-DRIVEN-COMPRESSOR"), Then("FLARE", 3, "BOILER")>>,
            <<From(2, "GAS-DRIVEN-COMPRESSOR"), Then("HEATER", 5, "FLARE")>>,
            <<Then("MISCELLANEOUS", 6, "GAS-DRIVEN-COMPRESSOR"), Then("FLARE", 3, "BOILER")>>,
            <<<<[date |-> 3, model |-> "FLARE"], [date |-> 2, model |-> "BOILER"]>>, Always("HEATER")>>}}

OilTank == Emitter("tank", "LOADING", TRUE, CALENDAR_DAY, Stepped(Whole(3), One),
                   [nmvoc |-> <<1, 2>>, ch4 |-> One])
Vent    == Emitter("vent", "COLD-VENTING-FUGITIVE", FALSE, CALENDAR_DAY, Constant(Whole(2)),
                   [co2 |-> One, ch4 |-> One])

Site(category, generators, consumers, emitters) ==
  [category |-> category, generators |-> generators, consumers |-> consumers, emitters |-> emitters]

MCPlans ==
  {[start |-> s, end |-> 7, seriesDates |-> {1, 4}, regularity |-> r,
    installations |-> <<Site("FIXED", <<g>>, c, <<OilTank, Vent>>), Site("MOBILE", <<>>, c, <<Vent>>)>>] :
     s \in {0, NoDate}, r \in {Stepped(<<1, 2>>, One), Stepped(One, Zero)}, g \in Sets, c \in Drivers}
  \cup
  {[start |-> NoDate, end |-> 7, seriesDates |-> {1, 4}, regularity |-> Constant(One),
    installations |-> <<Site(None, <<g>>, c, <<Vent>>)>>] : g \in Sets, c \in Drivers}

MCExports == {LTPColumns, STPColumns}

-----------------------------------------------------------------------------
\* Two results to compare: one inside, around, beside, before or like the other,
\* with a component or an emission that only one of them has, and a unit or a
\* power that only one of them gives.
MCComponent(unit, parent, power, emissions, valid, ps, scale) ==
  [unit |-> unit, parent |-> parent, energy |-> [i \in DOMAIN ps |-> scale * i],
   power |-> IF power THEN [i \in DOMAIN ps |-> scale + i] ELSE NoPower,
   emissions |-> [e \in emissions |-> [i \in DOMAIN ps |-> scale * i + 1]],
   valid |-> [i \in DOMAIN ps |-> i # valid]]

MCComparedPeriods ==
  {<<<<1, 3>>, <<3, 6>>>>, <<<<2, 4>>, <<4, 5>>>>, <<<<0, 2>>, <<2, 4>>, <<4, 8>>>>, <<<<5, 8>>>>, <<<<6, 8>>>>, <<<<7, 8>>>>}

MCCompared(ps, scale) ==
  {[periods |-> ps, components |-> f] :
     f \in {[train |-> t] : t \in {MCComponent(u, "platform", w, e, v, ps, scale) :
              u \in {"t/d", "MW"}, w \in BOOLEAN, e \in {{"co2"}, {"co2", "ch4"}}, v \in 1..2}}
           \cup {[train |-> MCComponent("MW", "platform", TRUE, {"ch4"}, v, ps, scale),
                  flare |-> MCComponent("t/d", "field", FALSE, {"co2"}, 2, ps, scale)] : v \in 1..2}
           \cup {[flare |-> MCComponent("t/d", "field", FALSE, {"co2"}, 1, ps, scale)]}}

MCComparisons ==
  UNION {[changed : MCCompared(c, 10), reference : MCCompared(r, 3)] :
           c \in {<<<<1, 3>>, <<3, 6>>>>}, r \in MCComparedPeriods}
  \cup UNION {[changed : MCCompared(c, 10), reference : {r \in MCCompared(<<<<1, 3>>, <<3, 6>>>>, 3) :
                  DOMAIN r.components = {"train", "flare"}}] : c \in MCComparedPeriods}

=============================================================================
