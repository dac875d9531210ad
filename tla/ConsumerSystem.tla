---------------------------- MODULE ConsumerSystem ----------------------------
(***************************************************************************)
(* A system of compressors or pumps that share a load under prioritised     *)
(* operational settings (legacy_consumer/system).  A system has the         *)
(* capacity of each of its units and a sequence of settings; a setting gives*)
(* each unit a share of the load, the number of the unit its excess crosses *)
(* over to (0 for none) and a discharge pressure.  The chart of a unit is   *)
(* its capacity, and its energy is its rate.                                *)
(***************************************************************************)
EXTENDS Integers, Sequences, SequencesExt

\* A setting gives every unit a share and, if any, a unit its excess crosses over to.
\* The schema counts the shares and not the cross-overs: one that names no unit
\* ends the evaluation in an IndexError, and is not modelled.
IsSystem(system) ==
  /\ system.settings # <<>> /\ system.settings \in Seq(ToSet(system.settings))
  /\ \A setting \in ToSet(system.settings) :
       /\ IsFiniteSet(DOMAIN setting.shares)
       /\ \A k \in DOMAIN setting.shares :
            /\ setting.shares[k] \in Int /\ system.capacities[k] \in Int
            /\ setting.crossover[k] # 0 => setting.crossover[k] \in DOMAIN setting.shares

AskedRates(setting, load) == [k \in DOMAIN setting.shares |-> setting.shares[k] * load]

\* What crosses over from unit k: its excess over its maximum rate, measured on
\* the rate it was asked for, and only to a unit that discharges as high.
Transfer(system, setting, load, k) ==
  LET excess   == AskedRates(setting, load)[k] - system.capacities[k]
      receiver == setting.crossover[k]
  IN  IF /\ receiver # 0
         /\ excess > 0
         /\ setting.discharge[receiver] >= setting.discharge[k]
      THEN excess ELSE 0

RatesAfterCrossOver(system, setting, load) ==
  [k \in DOMAIN setting.shares |->
     AskedRates(setting, load)[k] - Transfer(system, setting, load, k)
       + SumFunction([j \in {u \in DOMAIN setting.shares : setting.crossover[u] = k} |->
                        Transfer(system, setting, load, j)])]

WithinCapacity(system, setting, load) ==
  \A k \in DOMAIN system.capacities :
    RatesAfterCrossOver(system, setting, load)[k] <= system.capacities[k]

OutsideCapacity(system, setting, loads) ==
  {t \in DOMAIN loads : ~WithinCapacity(system, setting, loads[t])}

\* Mutant: a period that one setting served may move on from the next.
OutsideAnyway(remaining, outside) == outside

StillRemaining(remaining, outside) == remaining \cap outside

\* Every period starts on the first setting; those a setting leaves outside its
\* capacity move on to the next one, and stay there when it is the last.
SettingsUsed(system, loads) ==
  LET last == Len(system.settings) - 1
      MoveOn(acc, i) ==
        LET left == StillRemaining(acc.remaining, OutsideCapacity(system, system.settings[i], loads))
        IN  [remaining |-> left,
             used |-> [t \in DOMAIN loads |-> IF t \in left THEN i + 1 ELSE acc.used[t]]]
      after[i \in 0..last] ==
        IF i = 0 THEN [remaining |-> DOMAIN loads, used |-> [t \in DOMAIN loads |-> 1]]
        ELSE MoveOn(after[i - 1], i)
  IN  after[last].used

SystemResult(system, loads) ==
  LET used == SettingsUsed(system, loads)
      Setting(t) == system.settings[used[t]]
  IN  [used   |-> used,
       energy |-> [t \in DOMAIN loads |-> SumFunction(RatesAfterCrossOver(system, Setting(t), loads[t]))],
       valid  |-> [t \in DOMAIN loads |-> WithinCapacity(system, Setting(t), loads[t])]]

=============================================================================
