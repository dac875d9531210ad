------------------------------ MODULE Exporter ------------------------------
(***************************************************************************)
(* The prognosis exports (presentation/exporter): for every installation    *)
(* and every column of a prognosis, the volumes of the components whose     *)
(* categories match the column are added up by reporting period.            *)
(*                                                                         *)
(* A plan is a record [start, end, seriesDates, regularity, installations]. *)
(* An installation has a category, generators, consumers and emitters.      *)
(* Categories and fuels are dated: sequences of [date, model], where what   *)
(* is written without a date has the date DateMin.  A generator             *)
(* [id, category, fuel, rate, loss, peak, consumers] and a fuel consumer    *)
(* [id, category, fuel, rate, power] burn fuel at a stream day rate; peak   *)
(* and power are sequences of at most one rate.  An emitter                 *)
(* [id, category, oil, type, rate, factors] emits its rate, or its oil      *)
(* rate, times a factor.  A rate is a function of the day.  What a          *)
(* component has evaluated to is taken as given.                            *)
(***************************************************************************)
EXTENDS Rates

CONSTANTS Plans,          \* the models that may be exported
          ExportGrids,    \* frequencies; Frequency.NONE is the empty grid
          FuelCategory,   \* a fuel to its category, or to None
          FuelFactors     \* a fuel to its emission factors by emission

VARIABLES plan,
          timeline,    \* the global periods
          frequency,
          columns,     \* the columns of the prognosis
          place,       \* the installation and the column that come next
          exported,    \* [installation, column, values] in the order they were made
          exportError

exporterVars == <<plan, timeline, frequency, columns, place, exported, exportError>>

(***************************************************************************)
(* Columns.                                                                 *)
(***************************************************************************)
None == "none"

Fuels     == {"FUEL-GAS", "DIESEL"}
AnyFuel   == Fuels \cup {None}
Consumers == {"BASE-LOAD", "COLD-VENTING-FUGITIVE", "FLARE", "MISCELLANEOUS",
              "GAS-DRIVEN-COMPRESSOR", "TURBINE-GENERATOR", "POWER-FROM-SHORE",
              "OFFSHORE-WIND", "LOADING", "STORAGE", "STEAM-TURBINE-GENERATOR",
              "BOILER", "HEATER"}
Anything  == Consumers \cup {None}
AnyPlace  == {"FIXED", "MOBILE", None}

FUEL == "FuelQuery"  EMISSION == "EmissionQuery"  STORAGE == "StorageVolumeQuery"
GENERATED == "ElectricityGeneratedQuery"  POWER == "PowerConsumptionQuery"
PEAK == "MaxUsageFromShoreQuery"

\* A query: what it adds up, where, and the categories it is for.
Query(kind, place_, fuels, consumers, producers, emission) ==
  [kind |-> kind, places |-> place_, fuels |-> fuels, consumers |-> consumers,
   producers |-> producers, emission |-> emission]

Column(name, query) == [name |-> name, query |-> query, inverted |-> FALSE]
Inverted(column)    == [column EXCEPT !.inverted = TRUE]

\* Gas turbines, flare, engines, boilers and heaters, for a kind of query.
Combustion(prefix, kind, emission) ==
  LET Of(name, place_, fuels, consumers) ==
        Column(<<name, prefix>>, Query(kind, {place_}, fuels, consumers, Anything, emission))
  IN  <<Of("turbineFuelGas", "FIXED", {"FUEL-GAS"}, {"TURBINE-GENERATOR", "GAS-DRIVEN-COMPRESSOR"}),
        Of("flareGas", "FIXED", AnyFuel, {"FLARE"}),
        Of("engineDiesel", "FIXED", {"DIESEL"}, Anything),
        Of("engineNoCo2TaxDiesel", "MOBILE", {"DIESEL"}, Anything),
        Of("boilerFuelGas", "FIXED", {"FUEL-GAS"}, {"BOILER"}),
        Of("boilerDiesel", "FIXED", {"DIESEL"}, {"BOILER"}),
        Of("heaterFuelGas", "FIXED", {"FUEL-GAS"}, {"HEATER"}),
        Of("heaterDiesel", "FIXED", {"DIESEL"}, {"HEATER"})>>

EmittedBy(name, place_, consumers, emission) ==
  Column(<<name, emission>>, Query(EMISSION, {place_}, AnyFuel, consumers, Anything, emission))

\* Cold venting, storage and loading, of the emissions that evaporate.
Evaporation(emission) ==
  <<EmittedBy("coldVentAndFugitives", "FIXED", {"COLD-VENTING-FUGITIVE"}, emission),
    EmittedBy("coldVentAndFugitivesNoCo2Tax", "MOBILE", {"COLD-VENTING-FUGITIVE"}, emission),
    EmittedBy("storage", "FIXED", {"STORAGE"}, emission),
    EmittedBy("loading", "FIXED", {"LOADING"}, emission)>>

FuelColumns  == Combustion("Consumption", FUEL, None)
Co2Columns   == Append(Combustion("co2", EMISSION, "co2"),
                       EmittedBy("co2Venting", "FIXED", {"COLD-VENTING-FUGITIVE"}, "co2"))
NoxColumns   == Combustion("nox", EMISSION, "nox")
NmvocColumns == Combustion("nmvoc", EMISSION, "nmvoc") \o Evaporation("nmvoc")
Ch4Columns   == Combustion("ch4", EMISSION, "ch4") \o Evaporation("ch4")

ByProducer(kind, places, producers) == Query(kind, places, AnyFuel, Anything, producers, None)
ByConsumer(kind, consumers) == Query(kind, {"FIXED"}, AnyFuel, consumers, Anything, None)

EnergyColumns ==
  <<Column("loadedAndStoredOil", ByConsumer(STORAGE, {"LOADING"})),
    Column("gasTurbineGenerator", ByProducer(GENERATED, {"FIXED"}, {"TURBINE-GENERATOR"})),
    Column("gasTurbineCompressor", ByConsumer(POWER, {"GAS-DRIVEN-COMPRESSOR"})),
    Inverted(Column("offshoreWind", ByConsumer(POWER, {"OFFSHORE-WIND"}))),
    Column("fromShore", ByProducer(POWER, AnyPlace, {"POWER-FROM-SHORE"})),
    Column("powerSupplyOnshore", ByProducer(GENERATED, AnyPlace, {"POWER-FROM-SHORE"})),
    Column("fromShorePeakMaximum", ByProducer(PEAK, AnyPlace, {"POWER-FROM-SHORE"})),
    Inverted(Column("steamTurbineGenerator", ByConsumer(POWER, {"STEAM-TURBINE-GENERATOR"})))>>

LTPColumns == FuelColumns \o Co2Columns \o NoxColumns \o NmvocColumns \o Ch4Columns \o EnergyColumns

STPColumns ==
  <<EmittedBy("co2Emission", "FIXED", Anything, "co2"),
    EmittedBy("co2FromMobileUnits", "MOBILE", Anything, "co2"),
    EmittedBy("methaneEmission", "FIXED", Anything, "ch4"),
    EmittedBy("flareGas", "FIXED", {"FLARE"}, "co2"),
    EmittedBy("flareGas", "FIXED", {"FLARE"}, "ch4"),
    Column("powerSupplyOnshore", ByProducer(GENERATED, AnyPlace, {"POWER-FROM-SHORE"})),
    Column("flare", ByConsumer(FUEL, {"FLARE"}))>>

(***************************************************************************)
(* The model that is exported.                                              *)
(***************************************************************************)
Installation == plan.installations[place[1]]

FuelBurners(installation) == ToSet(installation.generators) \cup ToSet(installation.consumers)

PowerUsers(installation) ==
  UNION {{[of |-> c.id, category |-> c.category, producer |-> g.category, rate |-> c.power[1]] :
            c \in {c \in ToSet(g.consumers) : c.power # <<>>}} : g \in ToSet(installation.generators)}
  \cup {[of |-> c.id, category |-> c.category, producer |-> <<>>, rate |-> c.power[1]] :
            c \in {c \in ToSet(installation.consumers) : c.power # <<>>}}

DatesIn(entries) == {e.date : e \in ToSet(entries)} \ {DateMin}

\* Mutant: the dates of fuels only.
FuelDates ==
  UNION {UNION {DatesIn(u.fuel) : u \in FuelBurners(x)} : x \in ToSet(plan.installations)}

\* YamlConfiguration.dates: every date in the yaml.
PlanDates ==
  UNION {UNION {DatesIn(u.category) \cup DatesIn(u.fuel) : u \in FuelBurners(x)}
           \cup UNION {DatesIn(u.category) : u \in PowerUsers(x)} : x \in ToSet(plan.installations)}

PlanPeriods ==
  CreatePeriods(SortedDates(GlobalDates(plan.seriesDates, plan.start, plan.end, PlanDates)), FALSE, FALSE)

PlanTarget == <<IF plan.start = NoDate THEN DefaultStart ELSE plan.start, plan.end>>

\* The rates of a component in the global periods.
InPeriods(rate) == [i \in DOMAIN timeline |-> rate[Start(timeline[i])]]

VolumesOf(streamRates) ==
  PeriodVolumes(timeline, CalendarRates(streamRates, InPeriods(plan.regularity)))

\* EmissionRate and OilVolumeRate: the stream day rate of an emitter.
EmitterRates(emitter) ==
  IF emitter.type = STREAM_DAY THEN InPeriods(emitter.rate)
  ELSE StreamRates(InPeriods(emitter.rate), InPeriods(plan.regularity))

ProducedPower(g) ==
  [i \in DOMAIN timeline |->
     Times(SumOver({c \in ToSet(g.consumers) : c.power # <<>>}, LAMBDA c : InPeriods(c.power[1])[i]),
           Plus(One, g.loss))]

(***************************************************************************)
(* Categories in time.                                                      *)
(***************************************************************************)
\* MappingContext.get_category.
CategoryInTime(entries) == ForTarget(FromDateKeys(entries), PlanTarget)

\* The category of a fuel has no dates of its own.
FuelCategoryInTime(entries) ==
  LET tm == CategoryInTime(entries)
  IN  [i \in DOMAIN tm |-> [tm[i] EXCEPT !.model = FuelCategory[@]]]

CategoryIn(tm, p) ==
  LET found == ModelFor(tm, p)
  IN  IF found = {} THEN None ELSE tm[CHOOSE i \in found : TRUE].model

\* Mutant: the dates of the first temporal model only.
CombinedByFirst(tms) ==
  [i \in DOMAIN tms[1] |->
     [period |-> tms[1][i].period,
      categories |-> [k \in DOMAIN tms |-> CategoryIn(tms[k], tms[1][i].period)]]]

\* _combine_categories: the periods between all dates of the temporal models,
\* with the category each has there.
Combined(tms) ==
  LET dates == UNION {UNION {{Start(e.period), End(e.period)} : e \in ToSet(tms[k])} : k \in DOMAIN tms}
      ps == CreatePeriods(SortedDates(dates), FALSE, FALSE)
  IN  [i \in DOMAIN ps |->
         [period |-> ps[i], categories |-> [k \in DOMAIN tms |-> CategoryIn(tms[k], ps[i])]]]

Meta(fuel, consumer, producer, emission) ==
  [fuel |-> fuel, consumer |-> consumer, producer |-> producer, emission |-> emission]

(***************************************************************************)
(* What an installation can be asked for: attributes [of, period, meta,     *)
(* values], where values has an entry for every global period and only      *)
(* those within the attribute's own period count.                           *)
(***************************************************************************)
Attribute(of, part, meta, values) ==
  [of |-> of, period |-> part.period, meta |-> meta, values |-> values]

FuelParts(u) == ToSet(Combined(<<FuelCategoryInTime(u.fuel), CategoryInTime(u.category)>>))
OwnParts(u)  == ToSet(Combined(<<CategoryInTime(u.category)>>))

FuelAttributes ==
  UNION {{Attribute(u.id, part, Meta(part.categories[1], part.categories[2], None, None),
                    VolumesOf(InPeriods(u.rate))) : part \in FuelParts(u)} : u \in FuelBurners(Installation)}

\* FuelModel.evaluate_emissions: the factor of the fuel in force.
FuelEmission(u, emission) ==
  LET fuels == CategoryInTime(u.fuel)
      FactorIn(p) == LET fuel == CategoryIn(fuels, p)
                     IN  IF fuel # None /\ emission \in DOMAIN FuelFactors[fuel]
                         THEN FuelFactors[fuel][emission] ELSE Zero
  IN  [i \in DOMAIN timeline |-> Times(InPeriods(u.rate)[i], FactorIn(timeline[i]))]

EmissionsOf(u) == UNION {DOMAIN FuelFactors[e.model] : e \in ToSet(u.fuel)}

EmissionAttributes ==
  UNION {{Attribute(<<u.id, e>>, part, Meta(part.categories[1], part.categories[2], None, e),
                    VolumesOf(FuelEmission(u, e))) : part \in FuelParts(u), e \in EmissionsOf(u)} :
         u \in FuelBurners(Installation)}
  \cup
  UNION {{Attribute(<<v.id, e>>, part, Meta(None, part.categories[1], None, e),
                    VolumesOf([i \in DOMAIN timeline |-> Times(EmitterRates(v)[i], v.factors[e])])) :
            part \in OwnParts(v), e \in DOMAIN v.factors} : v \in ToSet(Installation.emitters)}

GeneratedAttributes ==
  UNION {{Attribute(g.id, part, Meta(None, None, part.categories[1], None), VolumesOf(ProducedPower(g))) :
            part \in OwnParts(g)} : g \in ToSet(Installation.generators)}

PeakAttributes ==
  UNION {{Attribute(g.id, part, Meta(None, None, part.categories[1], None), InPeriods(g.peak[1])) :
            part \in OwnParts(g)} : g \in {g \in ToSet(Installation.generators) : g.peak # <<>>}}

OilEmitters == {v \in ToSet(Installation.emitters) : v.oil}

StorageAttributes ==
  UNION {{Attribute(v.id, part, Meta(None, part.categories[1], None, None), VolumesOf(EmitterRates(v))) :
            part \in OwnParts(v)} : v \in OilEmitters}

PowerAttributes ==
  LET Parts(u) == IF u.producer = <<>> THEN OwnParts(u)
                  ELSE ToSet(Combined(<<CategoryInTime(u.category), CategoryInTime(u.producer)>>))
      Producer(u, part) == IF u.producer = <<>> THEN None ELSE part.categories[2]
  IN  UNION {{Attribute(u.of, part, Meta(None, part.categories[1], Producer(u, part), None),
                        VolumesOf(InPeriods(u.rate))) : part \in Parts(u)} : u \in PowerUsers(Installation)}

AttributesFor(kind) ==
  CASE kind = FUEL      -> FuelAttributes
    [] kind = EMISSION  -> EmissionAttributes
    [] kind = GENERATED -> GeneratedAttributes
    [] kind = PEAK      -> PeakAttributes
    [] kind = STORAGE   -> StorageAttributes
    [] kind = POWER     -> PowerAttributes

\* The temporal categories a query builds, whatever its filters are.
CategoriesFor(kind) ==
  LET FuelUsed == UNION {{u.fuel, u.category} : u \in FuelBurners(Installation)}
      Emitting(S) == {v.category : v \in S}
  IN  CASE kind = FUEL      -> FuelUsed
        [] kind = EMISSION  -> FuelUsed \cup Emitting(ToSet(Installation.emitters))
        [] kind = GENERATED -> {g.category : g \in ToSet(Installation.generators)}
        [] kind = PEAK      -> {g.category : g \in {g \in ToSet(Installation.generators) : g.peak # <<>>}}
        [] kind = STORAGE   -> Emitting(OilEmitters)
        [] kind = POWER     -> UNION {{u.category, u.producer} : u \in PowerUsers(Installation)} \ {<<>>}

(***************************************************************************)
(* Queries.                                                                 *)
(***************************************************************************)
Matches(meta, query) ==
  /\ meta.fuel \in query.fuels
  /\ meta.consumer \in query.consumers
  /\ meta.producer \in query.producers
  /\ query.emission # None => meta.emission = query.emission

\* TimeSeriesRate.for_period: the global periods in p.
IndicesIn(p) ==
  IF ~Intersects(Span(timeline), p) THEN {}
  ELSE LET bounds == PeriodIndices(p, timeline)
       IN  IF bounds = Misaligned THEN {} ELSE bounds[1]..bounds[2]

Aggregated(query) ==
  LET matching == {a \in AttributesFor(query.kind) : Matches(a.meta, query)}
  IN  [i \in DOMAIN timeline |->
         SumOver({a \in matching : i \in IndicesIn(a.period)}, LAMBDA a : a.values[i])]

\* resample_periods.
ReportPeriods ==
  IF frequency = {} THEN timeline ELSE ResamplePeriods(timeline, frequency, TRUE, TRUE)

\* A volume is taken apart between the reporting periods; the maximum usage
\* from shore is the value last observed where a reporting period starts.
QueryValues(query) ==
  LET InReports(total) ==
        CASE frequency = {}     -> total
          [] query.kind = PEAK  -> ResampledValues(timeline, total, ReportPeriods)
          [] OTHER              -> ResampledVolumes(timeline, total, ReportPeriods)
  IN  InReports(Aggregated(query))

Shown(column) ==
  LET Signed(values) == IF column.inverted THEN [i \in DOMAIN values |-> Minus(Zero, values[i])] ELSE values
  IN  Signed(QueryValues(column.query))

\* What the export is stopped by: dates that are out of order, a date that is
\* no date of the time vector, and stored volumes, which are only given for a
\* period whose ends are dates of the time vector.
QueryError(kind) ==
  LET tms == {CategoryInTime(entries) : entries \in CategoriesFor(kind)}
      dates == Range(AllDates(timeline))
  IN  CASE \E tm \in tms : ~IsSortedModel(tm) -> "UnsortedKeys"
        [] \E a \in AttributesFor(kind) :
             /\ Intersects(Span(timeline), a.period)
             /\ PeriodIndices(a.period, timeline) = Misaligned -> Misaligned
        [] /\ kind = STORAGE
           /\ \E a \in StorageAttributes : ~({Start(a.period), End(a.period)} \subseteq dates) -> "ValueError"
        [] OTHER -> NoError

-----------------------------------------------------------------------------
InitExporter ==
  /\ timeline = PlanPeriods
  /\ place = <<1, 1>>
  /\ exported = <<>>
  /\ exportError = NoError

HasPlace == exportError = NoError /\ place[1] <= Len(plan.installations)
ThisColumn == columns[place[2]]
InColumns  == HasPlace /\ place[2] <= Len(columns)
Applies    == Installation.category \in ThisColumn.query.places

NextColumn == place' = [place EXCEPT ![2] = @ + 1]

SkipColumn ==
  /\ InColumns
  /\ ~Applies
  /\ NextColumn
  /\ UNCHANGED <<exported, exportError>>

ExportColumn ==
  /\ InColumns
  /\ Applies
  /\ QueryError(ThisColumn.query.kind) = NoError
  /\ exported' = Append(exported, [installation |-> place[1], column |-> ThisColumn,
                                   values |-> Shown(ThisColumn)])
  /\ NextColumn
  /\ UNCHANGED exportError

\* Nothing catches what a query raises: there is no export.
ExportFails ==
  /\ InColumns
  /\ Applies
  /\ exportError' = QueryError(ThisColumn.query.kind)
  /\ exportError' # NoError
  /\ UNCHANGED <<place, exported>>

NextInstallation ==
  /\ HasPlace
  /\ place[2] > Len(columns)
  /\ place' = <<place[1] + 1, 1>>
  /\ UNCHANGED <<exported, exportError>>

NextExporter ==
  /\ SkipColumn \/ ExportColumn \/ ExportFails \/ NextInstallation
  /\ UNCHANGED <<plan, timeline, frequency, columns>>

-----------------------------------------------------------------------------
(***************************************************************************)
(* What a column should say, day by day.                                    *)
(***************************************************************************)
\* What is in force on the day d: the entry with the latest date.
InForceOn(entries, d) ==
  LET begun == {e \in ToSet(entries) : e.date <= d}
  IN  IF begun = {} THEN None
      ELSE (CHOOSE e \in begun : \A f \in begun : f.date <= e.date).model

OnDay(rate, d) == Times(rate[d], plan.regularity[d])

EmittedOnDay(v, d) ==
  IF v.type = STREAM_DAY THEN OnDay(v.rate, d)
  ELSE IF plan.regularity[d] = Zero THEN Zero ELSE v.rate[d]

FuelOnDay(u, d) == InForceOn(u.fuel, d)

\* The components of installation x that count in the query on the day d, with
\* the volume of that day.
CountedOnDay(query, x, d) ==
  LET Burners == {u \in FuelBurners(x) :
                    /\ FuelOnDay(u, d) # None
                    /\ FuelCategory[FuelOnDay(u, d)] \in query.fuels
                    /\ InForceOn(u.category, d) \in query.consumers}
      Vents(S) == {v \in S : None \in query.fuels /\ InForceOn(v.category, d) \in query.consumers}
      Supply(g) == SumOver({c \in ToSet(g.consumers) : c.power # <<>>}, LAMBDA c : OnDay(c.power[1], d))
      ProducerOf(u) == IF u.producer = <<>> THEN None ELSE InForceOn(u.producer, d)
      FactorOf(u) == FuelFactors[FuelOnDay(u, d)]
  IN  CASE query.kind = FUEL -> {<<u.id, OnDay(u.rate, d)>> : u \in Burners}
        [] query.kind = EMISSION ->
             {<<u.id, Times(OnDay(u.rate, d), FactorOf(u)[query.emission])>> :
                u \in {u \in Burners : query.emission \in DOMAIN FactorOf(u)}}
             \cup {<<v.id, Times(EmittedOnDay(v, d), v.factors[query.emission])>> :
                     v \in {v \in Vents(ToSet(x.emitters)) : query.emission \in DOMAIN v.factors}}
        [] query.kind = STORAGE ->
             {<<v.id, EmittedOnDay(v, d)>> : v \in Vents({v \in ToSet(x.emitters) : v.oil})}
        [] query.kind = GENERATED ->
             {<<g.id, Times(Supply(g), Plus(One, g.loss))>> :
                g \in {g \in ToSet(x.generators) : InForceOn(g.category, d) \in query.producers}}
        [] query.kind = POWER ->
             {<<u.of, OnDay(u.rate, d)>> :
                u \in {u \in PowerUsers(x) : /\ InForceOn(u.category, d) \in query.consumers
                                             /\ ProducerOf(u) \in query.producers}}

CountsTheDays(entry) ==
  LET query   == entry.column.query
      reports == ReportPeriods
      x       == plan.installations[entry.installation]
      OnDays(p) == SumOver(DaysOf(p), LAMBDA d : SumOver(CountedOnDay(query, x, d), LAMBDA c : c[2]))
  IN  query.kind # PEAK =>
        \A i \in DOMAIN reports :
          entry.values[i] = IF entry.column.inverted THEN Minus(Zero, OnDays(reports[i]))
                            ELSE OnDays(reports[i])

HasUnsortedDates ==
  \E x \in ToSet(plan.installations) :
    \E u \in FuelBurners(x) \cup PowerUsers(x) :
      ~IsSorted([i \in DOMAIN u.category |-> u.category[i].date], <)

\* What is stored of an oil has no period when the model states no start.
HasNoPeriod == plan.start = NoDate /\ exportError = "ValueError" /\ OilEmitters # {}

\* A column of volumes reports, for each of its periods, what was used, made or
\* emitted on the days of the period by the components whose categories in
\* force on that day match the column: no change of category or of fuel, no
\* late start of the time vector and no reporting frequency adds a volume,
\* loses one or moves it to another column or period.  It says so of the column
\* exported last; every column is the last once.  No such change makes the export
\* raise either: that takes dated categories that are out of order, or no start.
ColumnsCountTheDays ==
  /\ exported # <<>> => CountsTheDays(Last(exported))
  /\ exportError # NoError => HasUnsortedDates \/ HasNoPeriod

=============================================================================
