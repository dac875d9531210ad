------------------------- MODULE StreamDistribution -------------------------
(***************************************************************************)
(* How a common stream is shared between trains (process/stream_distribu-   *)
(* tion, feasibility_solver.py): each train gets a fraction, what it cannot *)
(* handle overflows to the train an edge names, and of several settings the *)
(* first one that every train can operate at is used.  What a train can     *)
(* operate at is the set of rates its section solver succeeds for.          *)
(***************************************************************************)
EXTENDS Integers, Sequences, SequencesExt, FiniteSetsExt, Functions

CONSTANTS Trains,          \* the items of the mapping, in insertion order
          Distributions,   \* [rate, settings, handles], rate in Fractions parts
          Fractions,       \* denominator of the rate fractions
          MaxIterations,   \* _RATE_SEARCH_MAX_ITERATIONS
          Precision,       \* 1 / _RATE_SEARCH_TOLERANCE
          UnitRate         \* 1 Sm3/day

VARIABLES distribution,  \* the scenario
          tried,         \* the setting that is tried
          position,      \* items already visited in it
          received,      \* overflow_map: the overflow every train received, in order
          adjusted,      \* adjusted_rates
          chosen         \* the setting used; 0 before it is known

distributionVars == <<distribution, tried, position, received, adjusted, chosen>>

Items == Range(Trains)

(***************************************************************************)
(* The overflows between the trains, a sequence of edges, and the order in  *)
(* which networkx goes through the trains: generation by generation, a      *)
(* train in the generation after that of its last predecessor.              *)
(***************************************************************************)
Children(overflows, train) ==
  LET out == SelectSeq(overflows, LAMBDA e : e.from = train)
  IN  [i \in DOMAIN out |-> out[i].to]

Predecessors(overflows, train) == {e.from : e \in {f \in Range(overflows) : f.to = train}}

TopologicalSort(overflows) ==
  LET freed(seen, t) ==
        SelectSeq(Children(overflows, t), LAMBDA c : Predecessors(overflows, c) \subseteq Range(seen))
      following(seen, generation) ==
        FlattenSeq([i \in DOMAIN generation |->
                      freed(seen \o SubSeq(generation, 1, i), generation[i])])
      upTo[n \in 0..Len(Trains)] ==
        IF n = 0
        THEN [seen |-> <<>>,
              generation |-> SelectSeq(Trains, LAMBDA t : Predecessors(overflows, t) = {})]
        ELSE LET before == upTo[n - 1]
             IN  [seen |-> before.seen \o before.generation,
                  generation |-> following(before.seen, before.generation)]
  IN  upTo[Len(Trains)].seen

\* What networkx promises of an acyclic graph, and of no other: every train once,
\* after those that overflow to it.
IsTopological(order, overflows) ==
  /\ order \in [1..Len(Trains) -> Items]
  /\ IsInjective(order)
  /\ \A e \in Range(overflows) : \A i, j \in DOMAIN order :
       order[i] = e.from /\ order[j] = e.to => i < j

\* A setting gives every train a fraction, and its overflows are not cyclic.
IsSetting(setting) ==
  /\ setting.fractions \in [1..Len(Trains) -> Nat]
  /\ setting.overflows \in Seq([from : Items, to : Items])
  /\ IsTopological(TopologicalSort(setting.overflows), setting.overflows)

\* The number that MaxIterations halvings divide a width by.
Halvings[n \in 0..MaxIterations] == IF n = 0 THEN 1 ELSE 2 * Halvings[n - 1]

\* The rate search may halve as often as it takes to reach its tolerance: 40 times
\* for one of 1/10000.
ASSUME DistributionsAssumption ==
  /\ Trains \in Seq(Items)
  /\ Fractions \in Nat \ {0} /\ UnitRate \in Nat
  /\ MaxIterations \in Nat /\ Precision \in Nat \ {0}
  /\ Precision <= Halvings[MaxIterations]
  /\ \A d \in Distributions :
       /\ d.rate \in Nat
       /\ d.handles \in [Items -> SUBSET Nat]
       /\ d.settings \in Seq(Range(d.settings)) /\ d.settings # <<>>
       /\ \A setting \in Range(d.settings) : IsSetting(setting)

(***************************************************************************)
(* FeasibilitySolver.                                                       *)
(***************************************************************************)
IsFeasible(train, rate) == rate \in distribution.handles[train]

Larger(x, y) == IF x < y THEN y ELSE x

\* The relative width at which Bisect stops.
RelativelyClose(low, high) ==
  (high - low) * Precision < Larger(high, UnitRate)

\* Mutant: the search goes on below a rate that works.
BisectedDown(train, upper) ==
  LET bracket[n \in 0..MaxIterations] ==
        IF n = 0 THEN [low |-> 0, high |-> upper, probe |-> 0, over |-> FALSE]
        ELSE LET last == bracket[n - 1]
                 middle == (last.low + last.high) \div 2
                 next == IF IsFeasible(train, middle) THEN [last EXCEPT !.high = middle]
                         ELSE [last EXCEPT !.low = middle]
             IN  IF last.over THEN last
                 ELSE [next EXCEPT !.probe = middle, !.over = RelativelyClose(next.low, next.high)]
  IN  bracket[MaxIterations].probe

\* _largest_feasible_rate: every probe is accepted, so the search returns the
\* last one.
LargestFeasibleRate(train, upper) ==
  LET bracket[n \in 0..MaxIterations] ==
        IF n = 0 THEN [low |-> 0, high |-> upper, probe |-> 0, over |-> FALSE]
        ELSE LET last == bracket[n - 1]
                 middle == (last.low + last.high) \div 2
                 next == IF IsFeasible(train, middle) THEN [last EXCEPT !.low = middle]
                         ELSE [last EXCEPT !.high = middle]
             IN  IF last.over THEN last
                 ELSE [next EXCEPT !.probe = middle, !.over = RelativelyClose(next.low, next.high)]
  IN  bracket[MaxIterations].probe

ExcessRate(train, rate) ==
  IF rate <= 0 \/ IsFeasible(train, rate) THEN 0
  ELSE Larger(0, rate - LargestFeasibleRate(train, rate))

IsValid(train, rate) == ExcessRate(train, rate) = 0

(***************************************************************************)
(* CommonStreamDistribution.                                                *)
(***************************************************************************)
Setting == distribution.settings[tried]
Rates   == [i \in DOMAIN Trains |-> (distribution.rate * Setting.fractions[i]) \div Fractions]

SortedItems == TopologicalSort(Setting.overflows)

\* _get_overflow_out: the first overflow out of a train; 0 if there is none.
OverflowOut(train) == SelectInSeq(Setting.overflows, LAMBDA e : e.from = train)
Receiver(train)    == Setting.overflows[OverflowOut(train)].to

\* Mutant: the overflow of one train replaces that of another.
ReplaceOverflow(train, to, excess) ==
  [received EXCEPT ![to] = <<[from |-> train, rate |-> excess]>>]

AddOverflow(train, to, excess) ==
  [received EXCEPT ![to] = Append(@, [from |-> train, rate |-> excess])]

\* The rate a train gets from others.
OverflowInto ==
  [t \in Items |-> SumFunction([i \in DOMAIN received[t] |-> received[t][i].rate])]

\* The rate a train is left with.
Adjust(train, rate) ==
  adjusted' = [t \in DOMAIN adjusted \cup {train} |-> IF t = train THEN rate ELSE adjusted[t]]

StartSetting(k) ==
  /\ tried' = k
  /\ position' = 0
  /\ received' = [t \in Items |-> <<>>]
  /\ adjusted' = [t \in {} |-> 0]

InitDistribution ==
  /\ distribution \in Distributions
  /\ tried = 1
  /\ position = 0
  /\ received = [t \in Items |-> <<>>]
  /\ adjusted = [t \in {} |-> 0]
  /\ chosen = 0

\* _adjust_for_overflow, one item of the zip: the items in topological order,
\* the rates in the order they were given.
VisitItem ==
  /\ chosen = 0 /\ position < Len(Trains)
  /\ LET train   == SortedItems[position + 1]
         current == Rates[position + 1] + OverflowInto[train]
     IN  IF OverflowOut(train) = 0
         THEN Adjust(train, current) /\ UNCHANGED received
         ELSE LET excess == ExcessRate(train, current)
              IN  /\ Adjust(train, current - excess)
                  /\ received' = AddOverflow(train, Receiver(train), excess)
  /\ position' = position + 1
  /\ UNCHANGED <<distribution, tried, chosen>>

\* find_first_valid: without a setting that works, the last one is used.
JudgeSetting ==
  /\ chosen = 0 /\ position = Len(Trains)
  /\ IF (\A t \in Items : IsValid(t, adjusted[t])) \/ tried = Len(distribution.settings)
     THEN /\ chosen' = tried
          /\ UNCHANGED <<tried, position, received, adjusted>>
     ELSE /\ StartSetting(tried + 1)
          /\ UNCHANGED chosen
  /\ UNCHANGED distribution

NextDistribution == VisitItem \/ JudgeSetting

-----------------------------------------------------------------------------
Visited == {SortedItems[i] : i \in 1..position}

NothingIsLost ==
  SumFunctionOnSet(Rates, 1..position) =
    SumFunctionOnSet(adjusted, Visited) + SumFunctionOnSet(OverflowInto, Items \ Visited)

ExcessOf(train) ==
  LET into == received[Receiver(train)]
  IN  into[CHOOSE i \in DOMAIN into : into[i].from = train].rate

KeepsItsCapacity ==
  \A t \in Visited : \A limit \in distribution.handles[t] :
    /\ OverflowOut(t) # 0
    /\ ExcessOf(t) > 0
    /\ distribution.handles[t] = 0..limit
    => LET offered   == adjusted[t] + ExcessOf(t)
           tolerance == Larger(offered, UnitRate) \div Precision + 1
       IN  adjusted[t] - limit \in -tolerance..tolerance

\* Whatever overflows on whatever edges, the trains together receive the rates that
\* were handed out, and what is still on its way to a train.  What a train sends on
\* is no more than it must: the rate search returns a probe whose outcome it did not
\* look at, and yet a train that can operate at every rate up to a limit keeps a rate
\* within the tolerance of the search from that limit.
OverflowIsTheExcess == NothingIsLost /\ KeepsItsCapacity

\* The fractions are listed per train (OPERATIONAL_SETTINGS.md, and the order the
\* tests of the distribution expect): when nothing overflows each train is given
\* its own fraction, whatever edges there are.
EachTrainGetsItsFraction ==
  chosen # 0 /\ (\A t \in Items : \A i \in DOMAIN received[t] : received[t][i].rate = 0) =>
    \A i \in DOMAIN Trains : adjusted[Trains[i]] = Rates[i]

=============================================================================
