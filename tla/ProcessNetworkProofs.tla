------------------------- MODULE ProcessNetworkProofs -------------------------
(***************************************************************************)
(* Theorems about the calls of ProcessNetwork, for every scenario.  First   *)
(* sections in series: what the invariant of their solvers says, and the    *)
(* lemmas that each action keeps it, for any number of sections, handlers'  *)
(* ranges, targets and tolerance.  Then what the distribution of a common   *)
(* stream keeps, for every setting, every set of rates the trains can       *)
(* operate at and every tolerance of the rate search: the rates handed out  *)
(* and those received balance, and a train with a capacity keeps a rate     *)
(* close to it.                                                             *)
(***************************************************************************)
EXTENDS ProcessNetwork, Induction

UnitSettings == [speed : Int, loop : Int, up : Int, down : Int]
Kinds == {"speed", "loop", "up", "down"}

LEMMA DefaultIsASetting == Default \in UnitSettings /\ DOMAIN Default = Kinds
BY SeriesAssumption DEF Default, UnitSettings, Kinds

LEMMA KindsOfASetting ==
  ASSUME NEW s \in UnitSettings PROVE DOMAIN s = Kinds /\ \A k \in Kinds : s[k] \in Int
BY DEF UnitSettings, Kinds

\* Two settings with the same values are the same.
LEMMA SameSetting ==
  ASSUME NEW s \in UnitSettings, NEW t \in UnitSettings, \A k \in Kinds : s[k] = t[k]
  PROVE  s = t
BY DEF UnitSettings, Kinds

\* A setting with one handler set anew.
Changed(s, k, x) == [s EXCEPT ![k] = x]

LEMMA SettingChanged ==
  ASSUME NEW s \in UnitSettings, NEW x \in Int, NEW k \in Kinds
  PROVE  /\ Changed(s, k, x) \in UnitSettings
         /\ Changed(s, k, x)[k] = x
         /\ \A h \in Kinds \ {k} : Changed(s, k, x)[h] = s[h]
<1>1. DOMAIN s = Kinds
  BY KindsOfASetting
<1>2. \A h \in Kinds : [s EXCEPT ![k] = x][h] = IF h = k THEN x ELSE s[h]
  BY <1>1
<1>3. [s EXCEPT ![k] = x] \in UnitSettings
  BY DEF UnitSettings, Kinds
<1> QED
  BY <1>2, <1>3 DEF Changed

\* A set of speeds that is not empty has a least and a greatest.
LEMMA LeastSpeed ==
  ASSUME NEW V \in SUBSET (MinSpeed .. MaxSpeed), V # {}
  PROVE  \E v \in V : \A w \in V : v <= w
<1> DEFINE D == {n \in Nat : MinSpeed + n \in V}
<1>1. D # {} /\ D \subseteq Nat
  <2>1. PICK v \in V : TRUE
    OBVIOUS
  <2>2. v - MinSpeed \in Nat /\ MinSpeed + (v - MinSpeed) = v
    BY SeriesAssumption
  <2> QED
    BY <2>2
<1>2. PICK d \in D : \A e \in D : ~ (<<e, d>> \in OpToRel(<, Nat))
  <2> HIDE DEF D
  <2> QED
    BY <1>1, NatLessThanWellFounded, WFMin
<1>3. ASSUME NEW w \in V PROVE MinSpeed + d <= w
  <2>1. w - MinSpeed \in Nat /\ MinSpeed + (w - MinSpeed) = w
    BY SeriesAssumption
  <2>2. w - MinSpeed \in D
    BY <2>1
  <2>3. ~ (w - MinSpeed < d)
    BY <1>2, <2>1, <2>2 DEF OpToRel
  <2> QED
    BY <2>1, <2>3, SeriesAssumption
<1> QED
  BY <1>3

LEMMA GreatestSpeed ==
  ASSUME NEW V \in SUBSET (MinSpeed .. MaxSpeed), V # {}
  PROVE  \E v \in V : \A w \in V : w <= v
<1> DEFINE U == {v \in MinSpeed .. MaxSpeed : MinSpeed + MaxSpeed - v \in V}
<1>1. \A v \in V : MinSpeed + MaxSpeed - v \in U
  BY SeriesAssumption
<1>2. U # {} /\ U \in SUBSET (MinSpeed .. MaxSpeed)
  BY <1>1
<1>3. PICK u \in U : \A w \in U : u <= w
  <2> HIDE DEF U
  <2> QED
    BY <1>2, LeastSpeed
<1>4. \A w \in V : w <= MinSpeed + MaxSpeed - u
  BY <1>1, <1>3, SeriesAssumption
<1> QED
  BY <1>3, <1>4

\* The entries of a section leave the other sections as they were, and give its
\* own handlers the values they stand for.
LEMMA MergedElsewhere ==
  ASSUME NEW c, NEW i, NEW j, i # j, NEW s, NEW t, NEW kinds
  PROVE  Applied(j, t, Merge(c, Entries(i, s, kinds))) = Applied(j, t, c)
<1> DEFINE m == Merge(c, Entries(i, s, kinds))
<1>1. DOMAIN Entries(i, s, kinds) = {<<k, i>> : k \in kinds}
  BY DEF Entries
<1>2. ASSUME NEW k PROVE /\ <<k, j>> \in DOMAIN m <=> <<k, j>> \in DOMAIN c
                         /\ <<k, j>> \in DOMAIN c => m[<<k, j>>] = c[<<k, j>>]
  BY <1>1 DEF Merge
<1> HIDE DEF m
<1>3. Applied(j, t, m) = Applied(j, t, c)
  BY <1>2 DEF Applied
<1> QED
  BY <1>3 DEF m

LEMMA MergedHere ==
  ASSUME NEW c, NEW i, NEW s, NEW kinds, NEW k
  PROVE  LET m == Merge(c, Entries(i, s, kinds))
         IN  /\ <<k, i>> \in DOMAIN m <=> k \in kinds \/ <<k, i>> \in DOMAIN c
             /\ k \in kinds => m[<<k, i>>] = s[k]
             /\ k \notin kinds => (<<k, i>> \in DOMAIN c => m[<<k, i>>] = c[<<k, i>>])
<1>1. DOMAIN Entries(i, s, kinds) = {<<h, i>> : h \in kinds}
  BY DEF Entries
<1>2. ASSUME NEW h \in kinds PROVE Entries(i, s, kinds)[<<h, i>>] = s[h]
  BY DEF Entries
<1> QED
  BY <1>1, <1>2 DEF Merge

LEMMA OwnEntriesChangeNothing ==
  ASSUME NEW s \in UnitSettings, NEW i, NEW kinds
  PROVE  Applied(i, s, Entries(i, s, kinds)) = s
<1>1. DOMAIN Entries(i, s, kinds) = {<<h, i>> : h \in kinds}
  BY DEF Entries
<1>2. ASSUME NEW h \in kinds PROVE Entries(i, s, kinds)[<<h, i>>] = s[h]
  BY DEF Entries
<1>3. ASSUME NEW k \in DOMAIN s
      PROVE  (IF <<k, i>> \in DOMAIN Entries(i, s, kinds) THEN Entries(i, s, kinds)[<<k, i>>] ELSE s[k]) = s[k]
  BY <1>1, <1>2
<1>4. Applied(i, s, Entries(i, s, kinds)) = [k \in DOMAIN s |-> s[k]]
  BY <1>3 DEF Applied
<1> QED
  BY <1>4 DEF UnitSettings

(***************************************************************************)
(* One section.                                                             *)
(***************************************************************************)
SectionType == [control : {COMMON_ASV, UPSTREAM_CHOKE, DOWNSTREAM_CHOKE}, surge : Int, wall : Int, eos : Int]

LEMMA AntiSurgeRuns ==
  ASSUME NEW sec, NEW s, NEW p
  PROVE  /\ AntiSurge(sec, s, p).failure = None <=> CanRun(sec, AntiSurge(sec, s, p).setting, p)
         /\ AntiSurge(sec, s, p).failure \in {None, "capacity"}
BY DEF AntiSurge, None

LEMMA LeastLoopInt ==
  ASSUME NEW sec, sec.surge \in Int, Rate \in Int, NEW s, s.up \in Int
  PROVE  LeastLoop(sec, s) \in Int
BY DEF LeastLoop

LEMMA AntiSurgeSets ==
  ASSUME NEW sec, sec.surge \in Int, Rate \in Int, NEW s \in UnitSettings, NEW p
  PROVE  LET t == AntiSurge(sec, s, p).setting
         IN  t \in UnitSettings /\ \A k \in Kinds \ {"loop"} : t[k] = s[k]
<1>1. LeastLoop(sec, s) \in Int
  BY LeastLoopInt DEF UnitSettings
<1>2. AntiSurge(sec, s, p).setting = Changed(s, "loop", LeastLoop(sec, s))
  BY DEF AntiSurge, Changed
<1>3. "loop" \in Kinds
  BY DEF Kinds
<1>4. /\ Changed(s, "loop", LeastLoop(sec, s)) \in UnitSettings
      /\ \A k \in Kinds \ {"loop"} : Changed(s, "loop", LeastLoop(sec, s))[k] = s[k]
  BY <1>1, <1>3, SettingChanged
<1> QED
  BY <1>2, <1>4

\* A drop of an upstream choke, and the recirculation that goes with it.
LEMMA ChokedSets ==
  ASSUME NEW sec, sec.surge \in Int, Rate \in Int, NEW s \in UnitSettings, NEW d \in Int
  PROVE  LET t == Choked(sec, s, d)
         IN  /\ t \in UnitSettings
             /\ \A k \in Kinds \ {"loop", "up"} : t[k] = s[k]
             /\ t.up = d
             /\ t.loop = IF Rate + d < sec.surge THEN sec.surge - Rate - d ELSE 0
<1> DEFINE c == Changed(s, "up", d)
           loop == LeastLoop(sec, c)
<1>1. c \in UnitSettings /\ c.up = d /\ \A k \in Kinds \ {"up"} : c[k] = s[k]
  BY SettingChanged DEF Kinds
<1>2. Choked(sec, s, d) = Changed(c, "loop", loop)
  BY DEF Choked, Changed
<1> HIDE DEF c
<1>3. loop \in Int /\ loop = IF Rate + d < sec.surge THEN sec.surge - Rate - d ELSE 0
  BY <1>1, LeastLoopInt DEF LeastLoop
<1> HIDE DEF loop
<1>4. /\ Changed(c, "loop", loop) \in UnitSettings
      /\ Changed(c, "loop", loop)["loop"] = loop
      /\ \A k \in Kinds \ {"loop"} : Changed(c, "loop", loop)[k] = c[k]
  BY <1>1, <1>3, SettingChanged DEF Kinds
<1>5. Choked(sec, s, d)["up"] = d /\ \A k \in Kinds \ {"loop", "up"} : Choked(sec, s, d)[k] = s[k]
  BY <1>1, <1>2, <1>4 DEF Kinds
<1> QED
  BY <1>2, <1>3, <1>4, <1>5

\* Pressure control changes the handlers it controls.
LEMMA ThrottledSets ==
  ASSUME NEW sec \in SectionType, Rate \in Int, NEW s \in UnitSettings, NEW p, NEW t \in Throttled(sec, s, p)
  PROVE  t \in UnitSettings /\ \A k \in Kinds \ ControlledBy(sec) : t[k] = s[k]
<1>0. sec.surge \in Int /\ sec.control \in {COMMON_ASV, UPSTREAM_CHOKE, DOWNSTREAM_CHOKE}
  BY DEF SectionType
<1>1. CASE sec.control = COMMON_ASV
  <2>1. PICK l \in 0 .. (sec.wall + s.speed + p) : t = Changed(s, "loop", l)
    BY <1>1 DEF Throttled, Changed, COMMON_ASV, UPSTREAM_CHOKE, DOWNSTREAM_CHOKE
  <2>2. "loop" \in Kinds /\ "loop" \in ControlledBy(sec) /\ l \in Int
    BY <1>1 DEF ControlledBy, Kinds, COMMON_ASV, UPSTREAM_CHOKE, DOWNSTREAM_CHOKE
  <2> QED
    BY <2>1, <2>2, SettingChanged
<1>2. CASE sec.control = UPSTREAM_CHOKE
  <2>1. PICK d \in 1 .. (p - 1) : t = Choked(sec, s, d)
    BY <1>2 DEF Throttled, COMMON_ASV, UPSTREAM_CHOKE, DOWNSTREAM_CHOKE
  <2>2. ControlledBy(sec) = {"loop", "up"} /\ d \in Int
    BY <1>2 DEF ControlledBy, COMMON_ASV, UPSTREAM_CHOKE, DOWNSTREAM_CHOKE
  <2>3. Choked(sec, s, d) \in UnitSettings /\ \A k \in Kinds \ {"loop", "up"} : Choked(sec, s, d)[k] = s[k]
    BY <1>0, <2>2, ChokedSets
  <2> QED
    BY <2>1, <2>2, <2>3
<1>3. CASE sec.control = DOWNSTREAM_CHOKE
  <2>1. PICK d \in 0 .. (Ratio * p + Gain * s.speed) : t = Changed(s, "down", d)
    BY <1>3 DEF Throttled, Changed, COMMON_ASV, UPSTREAM_CHOKE, DOWNSTREAM_CHOKE
  <2>2. "down" \in Kinds /\ "down" \in ControlledBy(sec) /\ d \in Int
    BY <1>3 DEF ControlledBy, Kinds, COMMON_ASV, UPSTREAM_CHOKE, DOWNSTREAM_CHOKE
  <2> QED
    BY <2>1, <2>2, SettingChanged
<1> QED
  BY <1>0, <1>1, <1>2, <1>3

\* A section delivers: it meets its target, or it recirculates under an upstream
\* choke.
Delivered(sec, s, out, target) == Meets(out, target) \/ Recirculates(sec, s)

\* When pressure control succeeds it has found a setting that meets the target,
\* and returns it, or the drop of it with the recirculation of another probe.
LEMMA PressureControlFound ==
  ASSUME NEW sec, NEW s, NEW p, NEW target, NEW c \in PressureControl(sec, s, p, target),
         c.failure = None
  PROVE  \E t, u \in Throttled(sec, s, p) :
           /\ Meets(OutletOf(sec, t, p), target)
           /\ c.setting = t \/ (sec.control = UPSTREAM_CHOKE /\ c.setting = Changed(t, "loop", u.loop))
<1> DEFINE runs == {t \in Throttled(sec, s, p) : CanRun(sec, t, p)}
           lowest == CHOOSE t \in runs \cup {s} :
                       \A u \in runs \cup {s} : OutletOf(sec, t, p) <= OutletOf(sec, u, p)
           kind == IF sec.control = UPSTREAM_CHOKE /\ runs # Throttled(sec, s, p) THEN "capacity" ELSE "above"
           found == {t \in runs : Meets(OutletOf(sec, t, p), target)}
<1>1. PressureControl(sec, s, p, target) =
        IF OutletOf(sec, lowest, p) > target
        THEN {[setting |-> lowest, failure |-> kind]}
        ELSE {[setting |-> r, failure |-> None] : r \in UNION {Returned(sec, t, runs) : t \in found}}
  BY DEF PressureControl
<1>2. kind # None
  BY DEF None
<1> HIDE DEF lowest, kind, found
<1>3. c # [setting |-> lowest, failure |-> kind]
  <2>1. [setting |-> lowest, failure |-> kind].failure = kind
    OBVIOUS
  <2> QED
    BY <1>2, <2>1
<1>4. c \in {[setting |-> r, failure |-> None] : r \in UNION {Returned(sec, t, runs) : t \in found}}
  <2> HIDE DEF runs
  <2> QED
    BY <1>1, <1>3
<1>5. PICK r \in UNION {Returned(sec, t, runs) : t \in found} : c = [setting |-> r, failure |-> None]
  BY <1>4
<1>6. PICK t \in found : r \in Returned(sec, t, runs)
  <2> HIDE DEF runs
  <2> QED
    BY <1>5
<1>7. t \in runs /\ Meets(OutletOf(sec, t, p), target) /\ c.setting = r
  BY <1>5, <1>6 DEF found
<1>8. r = t \/ \E u \in runs : sec.control = UPSTREAM_CHOKE /\ r = Changed(t, "loop", u.loop)
  <2> HIDE DEF runs
  <2> QED
    BY <1>6 DEF Returned, Changed
<1> QED
  BY <1>7, <1>8

\* What it returns changes the handlers it controls, and delivers: where nothing is
\* recirculated every probe recirculates as much.
LEMMA PressureControlSound ==
  ASSUME NEW sec \in SectionType, Rate \in Int, NEW s \in UnitSettings, NEW p, NEW target,
         NEW c \in PressureControl(sec, s, p, target), c.failure = None
  PROVE  /\ c.setting \in UnitSettings
         /\ \A k \in Kinds \ ControlledBy(sec) : c.setting[k] = s[k]
         /\ Delivered(sec, c.setting, OutletOf(sec, c.setting, p), target)
<1>1. PICK t, u \in Throttled(sec, s, p) :
        /\ Meets(OutletOf(sec, t, p), target)
        /\ c.setting = t \/ (sec.control = UPSTREAM_CHOKE /\ c.setting = Changed(t, "loop", u.loop))
  BY PressureControlFound
<1>2. /\ t \in UnitSettings /\ \A k \in Kinds \ ControlledBy(sec) : t[k] = s[k]
      /\ u \in UnitSettings /\ u.loop \in Int
  BY ThrottledSets DEF UnitSettings
<1>3. CASE c.setting = t
  BY <1>1, <1>2, <1>3 DEF Delivered
<1>4. CASE sec.control = UPSTREAM_CHOKE /\ c.setting = Changed(t, "loop", u.loop)
  <2>1. PICK d \in 1 .. (p - 1) : t = Choked(sec, s, d)
    BY <1>4 DEF Throttled, COMMON_ASV, UPSTREAM_CHOKE, DOWNSTREAM_CHOKE
  <2>2. PICK e \in 1 .. (p - 1) : u = Choked(sec, s, e)
    BY <1>4 DEF Throttled, COMMON_ASV, UPSTREAM_CHOKE, DOWNSTREAM_CHOKE
  <2>3. sec.surge \in Int /\ d \in Int /\ d >= 1 /\ e \in Int /\ e >= 1
    BY DEF SectionType
  <2>4. /\ t.up = d
        /\ t.loop = IF Rate + d < sec.surge THEN sec.surge - Rate - d ELSE 0
        /\ u.loop = IF Rate + e < sec.surge THEN sec.surge - Rate - e ELSE 0
    BY <2>1, <2>2, <2>3, ChokedSets
  <2>5. /\ c.setting \in UnitSettings
        /\ c.setting["loop"] = u.loop
        /\ \A k \in Kinds \ {"loop"} : c.setting[k] = t[k]
    <3>1. "loop" \in Kinds
      BY DEF Kinds
    <3>2. /\ Changed(t, "loop", u.loop) \in UnitSettings
          /\ Changed(t, "loop", u.loop)["loop"] = u.loop
          /\ \A k \in Kinds \ {"loop"} : Changed(t, "loop", u.loop)[k] = t[k]
      BY <1>2, <3>1, SettingChanged
    <3> QED
      BY <1>4, <3>2
  <2>6. \A k \in Kinds \ ControlledBy(sec) : c.setting[k] = s[k]
    <3>1. "loop" \in ControlledBy(sec)
      BY <1>4 DEF ControlledBy, COMMON_ASV, UPSTREAM_CHOKE, DOWNSTREAM_CHOKE
    <3> QED
      BY <1>2, <2>5, <3>1
  <2>7. CASE Rate < sec.surge
    <3>1. c.setting.up = d /\ d # 0
      BY <2>3, <2>4, <2>5 DEF Kinds
    <3> QED
      BY <2>5, <2>6, <2>7, <3>1 DEF Delivered, Recirculates
  <2>8. CASE ~ (Rate < sec.surge)
    <3>1. t.loop = u.loop
      BY <2>3, <2>4, <2>8
    <3>2. \A k \in Kinds : c.setting[k] = t[k]
      BY <2>5, <3>1
    <3>3. c.setting = t
      BY <1>2, <2>5, <3>2, SameSetting
    <3> QED
      BY <1>1, <2>5, <2>6, <3>3 DEF Delivered
  <2> QED
    BY <2>7, <2>8
<1> QED
  BY <1>1, <1>3, <1>4

\* The speeds a section can run at, when it starts from the default setting.
SurgeAt(i, p, v) == AntiSurge(Section(i), [Default EXCEPT !.speed = v], p)
Able(i, p) == {v \in MinSpeed .. MaxSpeed : SurgeAt(i, p, v).failure = None}
Least(i, p) == CHOOSE v \in Able(i, p) : \A w \in Able(i, p) : v <= w

Highest(i, p) == CHOOSE v \in Able(i, p) : \A w \in Able(i, p) : w <= v

LEMMA LeastIsAble ==
  ASSUME NEW i, NEW p, MinSpeed \in Able(i, p) \/ MaxSpeed \in Able(i, p)
  PROVE  Least(i, p) \in Able(i, p)
<1>1. Able(i, p) # {} /\ Able(i, p) \in SUBSET (MinSpeed .. MaxSpeed)
  BY DEF Able
<1>2. \E v \in Able(i, p) : \A w \in Able(i, p) : v <= w
  BY <1>1, LeastSpeed
<1> QED
  BY <1>2 DEF Least

\* A solution ends at a speed the section runs at, and within the tolerance, or
\* after pressure control at the least such speed.
LEMMA OutcomeCases ==
  ASSUME NEW i, NEW p, NEW target, NEW o \in Outcomes(i, p, target), o.failure = None
  PROVE  \/ \E v \in Able(i, p) :
              /\ o.setting = SurgeAt(i, p, v).setting
              /\ o.kinds = {"speed", "loop"}
              /\ Meets(OutletOf(Section(i), o.setting, p), target)
         \/ \E c \in PressureControl(Section(i), SurgeAt(i, p, Least(i, p)).setting, p, target) :
              /\ Least(i, p) \in Able(i, p)
              /\ c.failure = None
              /\ o.setting = c.setting
              /\ o.kinds = {"speed", "loop"} \cup ControlledBy(Section(i))
<1> DEFINE outlet(v) == OutletOf(Section(i), SurgeAt(i, p, v).setting, p)
           end(v, failure) == [setting |-> SurgeAt(i, p, v).setting, kinds |-> {"speed", "loop"}, failure |-> failure]
           kind == IF MaxSpeed > Section(i).eos THEN "eos" ELSE "capacity"
           controlled == {[setting |-> c.setting, kinds |-> {"speed", "loop"} \cup ControlledBy(Section(i)),
                           failure |-> c.failure] :
                            c \in PressureControl(Section(i), SurgeAt(i, p, Least(i, p)).setting, p, target)}
           atSpeed == {end(v, None) : v \in {v \in Able(i, p) : Meets(outlet(v), target)}}
<1>1. Outcomes(i, p, target) =
        IF MinSpeed \notin Able(i, p) /\ MaxSpeed \notin Able(i, p)
        THEN {[end(MaxSpeed, kind) EXCEPT !.kinds = {"speed"}]}
        ELSE IF outlet(Highest(i, p)) < target THEN {end(Highest(i, p), "below")}
        ELSE IF outlet(Least(i, p)) > target
        THEN IF Meets(outlet(Least(i, p)), target) THEN {end(Least(i, p), None)} ELSE controlled
        ELSE atSpeed
  BY DEF Outcomes, SurgeAt, Able, Least, Highest
<1>2. [end(MaxSpeed, kind) EXCEPT !.kinds = {"speed"}].failure = kind
  OBVIOUS
<1>3. end(Highest(i, p), "below").failure = "below"
  OBVIOUS
<1>4. kind # None /\ None # "below"
  BY DEF None
<1> HIDE DEF controlled, atSpeed, end, outlet, kind
<1>5. /\ MinSpeed \in Able(i, p) \/ MaxSpeed \in Able(i, p)
      /\ \/ o = end(Least(i, p), None) /\ Meets(outlet(Least(i, p)), target)
         \/ o \in controlled
         \/ o \in atSpeed
  BY <1>1, <1>2, <1>3, <1>4
<1>6. Least(i, p) \in Able(i, p)
  BY <1>5, LeastIsAble
<1>7. CASE o = end(Least(i, p), None) /\ Meets(outlet(Least(i, p)), target)
  BY <1>6, <1>7 DEF end, outlet
<1>8. CASE o \in controlled
  <2>1. PICK c \in PressureControl(Section(i), SurgeAt(i, p, Least(i, p)).setting, p, target) :
          o = [setting |-> c.setting, kinds |-> {"speed", "loop"} \cup ControlledBy(Section(i)),
               failure |-> c.failure]
    BY <1>8 DEF controlled
  <2>2. o.setting = c.setting /\ o.failure = c.failure /\ o.kinds = {"speed", "loop"} \cup ControlledBy(Section(i))
    BY <2>1
  <2> QED
    BY <1>6, <2>2
<1>9. CASE o \in atSpeed
  <2>1. PICK v \in Able(i, p) : Meets(outlet(v), target) /\ o = end(v, None)
    BY <1>9 DEF atSpeed
  <2> QED
    BY <2>1 DEF end, outlet
<1> QED
  BY <1>5, <1>7, <1>8, <1>9

LEMMA SeriesTypes ==
  ASSUME series \in Series
  PROVE  /\ N \in Nat
         /\ Rate \in Int /\ series.inlet.pressure \in Int
         /\ series.job \in {SAME_SHAFT, OWN_SHAFTS}
         /\ \A i \in 1 .. N : Section(i) \in SectionType /\ Target(i) \in Int
<1>1. /\ series.sections \in Seq(SectionType)
      /\ series.targets \in Seq(Int)
      /\ Len(series.targets) = Len(series.sections)
      /\ series.inlet \in [pressure : Int, rate : Int]
      /\ series.job \in {SAME_SHAFT, OWN_SHAFTS}
  BY SeriesAssumption DEF IsSeries, SectionType
<1>2. N \in Nat /\ \A i \in 1 .. N : series.sections[i] \in SectionType /\ series.targets[i] \in Int
  <2> HIDE DEF SectionType
  <2> QED
    BY <1>1 DEF N
<1> QED
  BY <1>1, <1>2 DEF Section, Target, Rate

\* A section that is solved delivers, and what its configuration does not set is as
\* it was before.
LEMMA SolvedMeets ==
  ASSUME series \in Series, NEW i \in 1 .. N, NEW p, NEW target,
         NEW o \in Outcomes(i, p, target), o.failure = None
  PROVE  /\ o.setting \in UnitSettings
         /\ o.setting.speed \in MinSpeed .. MaxSpeed
         /\ Delivered(Section(i), o.setting, OutletOf(Section(i), o.setting, p), target)
         /\ {"speed", "loop"} \subseteq o.kinds
         /\ o.kinds \subseteq {"speed", "loop"} \cup ControlledBy(Section(i))
         /\ \A k \in Kinds \ o.kinds : o.setting[k] = Default[k]
<1>1. /\ Section(i) \in SectionType /\ Section(i).surge \in Int /\ Rate \in Int
      /\ Section(i).control \in {COMMON_ASV, UPSTREAM_CHOKE, DOWNSTREAM_CHOKE}
  BY SeriesTypes DEF SectionType
<1>2. ASSUME NEW v \in Able(i, p)
      PROVE  LET s == SurgeAt(i, p, v).setting
             IN  s \in UnitSettings /\ s.speed = v /\ \A k \in Kinds \ {"speed", "loop"} : s[k] = Default[k]
  <2> DEFINE start == Changed(Default, "speed", v)
  <2>1. v \in Int
    BY SeriesAssumption DEF Able
  <2>2. start \in UnitSettings /\ start["speed"] = v /\ \A k \in Kinds \ {"speed"} : start[k] = Default[k]
    BY <2>1, DefaultIsASetting, SettingChanged DEF Kinds
  <2>3. SurgeAt(i, p, v) = AntiSurge(Section(i), start, p)
    BY DEF SurgeAt, Changed
  <2> HIDE DEF start
  <2>4. /\ SurgeAt(i, p, v).setting \in UnitSettings
        /\ \A k \in Kinds \ {"loop"} : SurgeAt(i, p, v).setting[k] = start[k]
    BY <1>1, <2>2, <2>3, AntiSurgeSets
  <2> QED
    BY <2>2, <2>4 DEF Kinds
<1>3. CASE \E v \in Able(i, p) :
             /\ o.setting = SurgeAt(i, p, v).setting
             /\ o.kinds = {"speed", "loop"}
             /\ Meets(OutletOf(Section(i), o.setting, p), target)
  BY <1>2, <1>3 DEF Able, Delivered
<1>4. CASE \E c \in PressureControl(Section(i), SurgeAt(i, p, Least(i, p)).setting, p, target) :
             /\ Least(i, p) \in Able(i, p)
             /\ c.failure = None
             /\ o.setting = c.setting
             /\ o.kinds = {"speed", "loop"} \cup ControlledBy(Section(i))
  <2>1. PICK c \in PressureControl(Section(i), SurgeAt(i, p, Least(i, p)).setting, p, target) :
             /\ Least(i, p) \in Able(i, p)
             /\ c.failure = None
             /\ o.setting = c.setting
             /\ o.kinds = {"speed", "loop"} \cup ControlledBy(Section(i))
    BY <1>4
  <2> DEFINE s == SurgeAt(i, p, Least(i, p)).setting
  <2>2. s \in UnitSettings /\ s.speed = Least(i, p) /\ \A k \in Kinds \ {"speed", "loop"} : s[k] = Default[k]
    BY <1>2, <2>1
  <2>3. c \in PressureControl(Section(i), s, p, target)
    BY <2>1
  <2> HIDE DEF s
  <2>4. /\ c.setting \in UnitSettings /\ \A k \in Kinds \ ControlledBy(Section(i)) : c.setting[k] = s[k]
        /\ Delivered(Section(i), c.setting, OutletOf(Section(i), c.setting, p), target)
    BY <1>1, <2>1, <2>2, <2>3, PressureControlSound
  <2>5. "speed" \in Kinds /\ "speed" \notin ControlledBy(Section(i)) /\ Least(i, p) \in MinSpeed .. MaxSpeed
    BY <1>1, <2>1 DEF ControlledBy, Kinds, Able, COMMON_ASV, UPSTREAM_CHOKE, DOWNSTREAM_CHOKE
  <2> QED
    BY <2>1, <2>2, <2>4, <2>5
<1> QED
  BY <1>3, <1>4, OutcomeCases
-----------------------------------------------------------------------------
(***************************************************************************)
(* Failures.                                                                *)
(***************************************************************************)
IsSolution(sol) == sol = [configuration |-> sol.configuration, failure |-> sol.failure]

SeriesTypeOK ==
  /\ series \in Series
  /\ section \in 1 .. N + 1
  /\ failed \in Seq(Nat)
  /\ IsSolution(solution)
  /\ pass = "together" => series.job = SAME_SHAFT

\* The failure that is reported for the sections that failed.
Reports(job, f, g) ==
  IF f = <<>> THEN g = NoFailure
  ELSE /\ g # NoFailure
       /\ \/ g.section = f[1]
          \/ job = SAME_SHAFT /\ g.kind = "below" /\ g.section \in Range(f)

\* At every step and not only at the end.
ReportedSoFar == Reports(series.job, failed, solution.failure)

\* On one shaft a failure of the first loop is returned at once.
NoneFailedYet == series.job = SAME_SHAFT /\ pass = "solve" => failed = <<>>

ReportedInv == SeriesTypeOK /\ ReportedSoFar /\ NoneFailedYet

LEMMA FailureIsNotNone ==
  ASSUME NEW i, NEW kind, kind # None
  PROVE  FailureOf(i, kind) # NoFailure /\ FailureOf(i, kind).section = i
<1>1. FailureOf(i, kind) = [section |-> i, kind |-> kind]
  BY DEF FailureOf
<1>2. FailureOf(i, kind).kind = kind /\ FailureOf(i, kind).section = i /\ NoFailure.kind = None
  BY <1>1 DEF NoFailure
<1> QED
  BY <1>2

LEMMA AppendTo ==
  ASSUME NEW s \in Seq(Nat), NEW n \in Nat
  PROVE  /\ Append(s, n) \in Seq(Nat)
         /\ Append(s, n) # <<>>
         /\ s = <<>> => Append(s, n)[1] = n
         /\ s # <<>> => Append(s, n)[1] = s[1]
         /\ \A x \in Range(s) : x \in Range(Append(s, n))
         /\ n \in Range(Append(s, n))
<1>1. /\ Append(s, n) \in Seq(Nat)
      /\ Append(s, n) # <<>>
      /\ s = <<>> => Append(s, n)[1] = n
      /\ s # <<>> => Append(s, n)[1] = s[1]
      /\ DOMAIN Append(s, n) = 1 .. Len(s) + 1 /\ DOMAIN s = 1 .. Len(s) /\ Len(s) \in Nat
      /\ Append(s, n)[Len(s) + 1] = n
      /\ \A j \in 1 .. Len(s) : Append(s, n)[j] = s[j]
  OBVIOUS
<1>2. \A j \in 1 .. Len(s) : j \in 1 .. Len(s) + 1
  BY <1>1
<1>3. Len(s) + 1 \in 1 .. Len(s) + 1
  BY <1>1
<1> QED
  BY <1>1, <1>2, <1>3 DEF Range

\* A further section that fails does not displace the failure that is reported.
LEMMA ReportsOneMore ==
  ASSUME NEW job, NEW f \in Seq(Nat), NEW g, Reports(job, f, g), NEW i \in Nat, NEW kind
  PROVE  Reports(job, IF kind = None THEN f ELSE Append(f, i), IF g # NoFailure THEN g ELSE FailureOf(i, kind))
<1>1. CASE kind = None
  BY <1>1 DEF Reports, FailureOf
<1>2. CASE kind # None
  <2>1. FailureOf(i, kind) # NoFailure /\ FailureOf(i, kind).section = i
    BY <1>2, FailureIsNotNone
  <2>2. CASE f = <<>>
    BY <1>2, <2>1, <2>2, AppendTo DEF Reports
  <2>3. CASE f # <<>>
    BY <1>2, <2>3, AppendTo DEF Reports
  <2> QED
    BY <2>2, <2>3
<1> QED
  BY <1>1, <1>2

\* Below its target it does, on one shaft.
LEMMA ReportsBelow ==
  ASSUME NEW f \in Seq(Nat), NEW i \in Nat
  PROVE  Reports(SAME_SHAFT, Append(f, i), FailureOf(i, "below"))
<1>1. "below" # None
  BY DEF None
<1>2. FailureOf(i, "below") # NoFailure /\ FailureOf(i, "below").section = i
  BY <1>1, FailureIsNotNone
<1>3. FailureOf(i, "below").kind = "below"
  BY <1>1 DEF FailureOf
<1> QED
  BY <1>2, <1>3, AppendTo DEF Reports

\* Combining keeps a failure, and adds one.
LEMMA CombineSolution ==
  ASSUME NEW sol, IsSolution(sol), NEW d, NEW g
  PROVE  /\ IsSolution(Combine(sol, d, g))
         /\ sol.failure # NoFailure => Combine(sol, d, g) = sol
         /\ sol.failure = NoFailure => /\ Combine(sol, d, g).configuration = Merge(sol.configuration, d)
                                       /\ Combine(sol, d, g).failure = g
         /\ g # NoFailure => Combine(sol, d, g).failure # NoFailure
         /\ Combine(sol, d, g).failure = IF sol.failure # NoFailure THEN sol.failure ELSE g
<1>1. CASE sol.failure # NoFailure
  BY <1>1 DEF Combine
<1>2. CASE sol.failure = NoFailure
  <2>1. Combine(sol, d, g) = [configuration |-> Merge(sol.configuration, d), failure |-> g]
    BY <1>2 DEF Combine
  <2> QED
    BY <1>2, <2>1 DEF IsSolution
<1> QED
  BY <1>1, <1>2

WithFailure(sol, g) == [sol EXCEPT !.failure = g]

LEMMA FailureReplaced ==
  ASSUME NEW sol, IsSolution(sol), NEW g
  PROVE  /\ IsSolution(WithFailure(sol, g))
         /\ WithFailure(sol, g).configuration = sol.configuration
         /\ WithFailure(sol, g).failure = g
<1>1. PICK c, f : sol = [configuration |-> c, failure |-> f]
  BY DEF IsSolution
<1>2. [sol EXCEPT !.failure = g] = [configuration |-> c, failure |-> g]
  BY <1>1
<1> QED
  BY <1>1, <1>2 DEF IsSolution, WithFailure

LEMMA InitReported ==
  ASSUME series \in Series, InitSeries
  PROVE  ReportedInv
<1>1. /\ pass = "solve" /\ section = 1 /\ failed = <<>>
      /\ solution = [configuration |-> << >>, failure |-> NoFailure]
  BY DEF InitSeries
<1>2. SeriesTypeOK
  <2>1. IsSolution(solution)
    BY <1>1 DEF IsSolution
  <2>2. N \in Nat
    BY SeriesTypes
  <2> QED
    BY <1>1, <2>1, <2>2 DEF SeriesTypeOK
<1>3. solution.failure = NoFailure
  BY <1>1
<1> QED
  BY <1>1, <1>2, <1>3 DEF ReportedInv, ReportedSoFar, Reports, NoneFailedYet

\* A run that is feasible moves on; any other raises.
LEMMA ProceedSteps ==
  ASSUME SeriesTypeOK, section <= N, series' = series, NEW s, Proceed(section, s)
  PROVE  /\ section' \in 1 .. N' + 1
         /\ pass' = "raised" \/ (CanRun(Section(section), s, inlet) /\ pass' = pass /\ section' = section + 1)
<1>1. section \in Nat /\ N \in Nat /\ N' = N /\ section \in 1 .. N
  <2>1. series \in Series /\ section \in 1 .. N + 1
    BY DEF SeriesTypeOK
  <2>2. N \in Nat
    BY <2>1, SeriesTypes
  <2>3. N' = N
    BY DEF N
  <2> QED
    BY <2>1, <2>2, <2>3
<1>2. \/ CanRun(Section(section), s, inlet) /\ section' = section + 1 /\ pass' = pass
      \/ ~ CanRun(Section(section), s, inlet) /\ section' = section /\ pass' = "raised"
  BY DEF Proceed
<1> QED
  BY <1>1, <1>2

LEMMA SolveForSpeedReports ==
  ASSUME ReportedInv, SolveForSpeed PROVE ReportedInv'
<1>1. PICK o \in Outcomes(section, inlet, Target(section)) :
        IF o.failure = None
        THEN /\ Proceed(section, o.setting)
             /\ speeds' = speeds \cup {o.setting.speed}
             /\ UNCHANGED <<solution, failed>>
        ELSE /\ solution' = [configuration |-> Entries(section, o.setting, o.kinds),
                             failure |-> FailureOf(section, o.failure)]
             /\ failed' = <<section>>
             /\ pass' = "done"
             /\ UNCHANGED <<section, inlet, setting, speeds>>
  BY DEF SolveForSpeed
<1>2. series' = series /\ series.job = SAME_SHAFT /\ section <= N /\ pass = "solve" /\ SAME_SHAFT # OWN_SHAFTS
  BY DEF SolveForSpeed, SAME_SHAFT, OWN_SHAFTS
<1>3. CASE o.failure = None
  <2>1. section' \in 1 .. N' + 1 /\ pass' \in {pass, "raised"}
    BY <1>1, <1>2, <1>3, ProceedSteps DEF ReportedInv
  <2> QED
    BY <1>1, <1>2, <1>3, <2>1 DEF ReportedInv, SeriesTypeOK, ReportedSoFar, NoneFailedYet
<1>4. CASE o.failure # None
  <2>1. /\ solution' = [configuration |-> Entries(section, o.setting, o.kinds), failure |-> FailureOf(section, o.failure)]
        /\ failed' = <<section>> /\ pass' = "done" /\ section' = section
    BY <1>1, <1>4
  <2>2. section \in 1 .. N + 1 /\ N \in Nat /\ N' = N /\ series \in Series
    BY <1>2, SeriesTypes DEF ReportedInv, SeriesTypeOK, N
  <2>3. failed' \in Seq(Nat) /\ IsSolution(solution')
    BY <2>1, <2>2 DEF IsSolution
  <2>4. Reports(series.job, failed', solution'.failure)
    <3>1. failed' # <<>> /\ failed'[1] = section /\ solution'.failure = FailureOf(section, o.failure)
      BY <2>1
    <3> QED
      BY <1>4, <3>1, FailureIsNotNone DEF Reports
  <2> QED
    BY <1>2, <2>1, <2>2, <2>3, <2>4 DEF ReportedInv, SeriesTypeOK, ReportedSoFar, NoneFailedYet
<1> QED
  BY <1>3, <1>4

LEMMA RunTogetherReports ==
  ASSUME ReportedInv, RunTogether PROVE ReportedInv'
<1> DEFINE i == section
           surge == AntiSurge(Section(i), Cleared(i), inlet)
           safe == Combine(solution, Entries(i, surge.setting, {"loop"}), FailureOf(i, surge.failure))
           outlet == OutletOf(Section(i), surge.setting, inlet)
<1>1. series' = series /\ series.job = SAME_SHAFT /\ section <= N /\ section \in Nat
      /\ pass = "together" /\ SAME_SHAFT # OWN_SHAFTS
  <2>1. series' = series /\ section <= N /\ pass = "together"
    BY DEF RunTogether
  <2>2. series \in Series /\ section \in 1 .. N + 1 /\ series.job = SAME_SHAFT
    BY <2>1 DEF ReportedInv, SeriesTypeOK
  <2>3. N \in Nat /\ section \in Nat
    <3>1. N \in Nat
      BY <2>2, SeriesTypes
    <3> QED
      BY <2>2, <3>1
  <2>4. SAME_SHAFT # OWN_SHAFTS
    BY DEF SAME_SHAFT, OWN_SHAFTS
  <2> QED
    BY <2>1, <2>2, <2>3, <2>4
<1>2. IsSolution(solution)
  BY DEF ReportedInv, SeriesTypeOK
<1>3. /\ IsSolution(safe)
      /\ safe.failure = IF solution.failure # NoFailure THEN solution.failure ELSE FailureOf(i, surge.failure)
  <2> DEFINE entries == Entries(i, surge.setting, {"loop"})
             failure == FailureOf(i, surge.failure)
  <2> HIDE DEF entries, failure
  <2>1. /\ IsSolution(Combine(solution, entries, failure))
        /\ Combine(solution, entries, failure).failure =
             IF solution.failure # NoFailure THEN solution.failure ELSE failure
    BY <1>2, CombineSolution
  <2> QED
    BY <2>1 DEF entries, failure
<1>4. surge.failure = None <=> CanRun(Section(i), surge.setting, inlet)
  BY AntiSurgeRuns
<1>5. /\ Append(failed, i) \in Seq(Nat)
      /\ failed \in Seq(Nat)
      /\ Reports(SAME_SHAFT, failed, solution.failure)
  BY <1>1, AppendTo DEF ReportedInv, SeriesTypeOK, ReportedSoFar, NoneFailedYet
<1>6. \/ /\ ~ CanRun(Section(i), surge.setting, inlet)
         /\ solution' = safe
         /\ failed' = Append(failed, i)
         /\ Proceed(i, surge.setting)
      \/ \E k \in PressureControl(Section(i), surge.setting, inlet, Target(i)) :
           /\ CanRun(Section(i), surge.setting, inlet)
           /\ solution' = Combine(safe, Entries(i, k.setting, ControlledBy(Section(i))), FailureOf(i, k.failure))
           /\ failed' = IF k.failure = None THEN failed ELSE Append(failed, i)
           /\ Proceed(i, k.setting)
      \/ /\ CanRun(Section(i), surge.setting, inlet)
         /\ \/ /\ solution' = WithFailure(safe, FailureOf(i, "below"))
               /\ failed' = Append(failed, i)
            \/ solution' = safe /\ failed' = failed
         /\ Proceed(i, surge.setting)
  BY DEF RunTogether, WithFailure
<1> SUFFICES /\ failed' \in Seq(Nat)
             /\ IsSolution(solution')
             /\ section' \in 1 .. N' + 1
             /\ pass' \in {pass, "raised"}
             /\ Reports(SAME_SHAFT, failed', solution'.failure)
  BY <1>1 DEF ReportedInv, SeriesTypeOK, ReportedSoFar, NoneFailedYet
<1> HIDE DEF safe, surge, outlet
<1>7. Reports(SAME_SHAFT, IF surge.failure = None THEN failed ELSE Append(failed, i), safe.failure)
  <2>1. \A kind : Reports(SAME_SHAFT, IF kind = None THEN failed ELSE Append(failed, i),
                          IF solution.failure # NoFailure THEN solution.failure ELSE FailureOf(i, kind))
    BY <1>1, <1>5, ReportsOneMore
  <2> QED
    BY <1>3, <2>1
<1>8. CASE /\ ~ CanRun(Section(i), surge.setting, inlet)
           /\ solution' = safe
           /\ failed' = Append(failed, i)
           /\ Proceed(i, surge.setting)
  BY <1>1, <1>3, <1>4, <1>5, <1>7, <1>8, ProceedSteps DEF ReportedInv
<1>9. ASSUME NEW k \in PressureControl(Section(i), surge.setting, inlet, Target(i)),
             CanRun(Section(i), surge.setting, inlet),
             solution' = Combine(safe, Entries(i, k.setting, ControlledBy(Section(i))), FailureOf(i, k.failure)),
             failed' = IF k.failure = None THEN failed ELSE Append(failed, i),
             Proceed(i, k.setting)
      PROVE  /\ failed' \in Seq(Nat)
             /\ IsSolution(solution')
             /\ section' \in 1 .. N' + 1
             /\ pass' \in {pass, "raised"}
             /\ Reports(SAME_SHAFT, failed', solution'.failure)
  <2>1. Reports(SAME_SHAFT, failed, safe.failure)
    BY <1>4, <1>7, <1>9
  <2> DEFINE entries == Entries(i, k.setting, ControlledBy(Section(i)))
             failure == FailureOf(i, k.failure)
  <2> HIDE DEF entries, failure
  <2>2. /\ IsSolution(Combine(safe, entries, failure))
        /\ Combine(safe, entries, failure).failure = IF safe.failure # NoFailure THEN safe.failure ELSE failure
    BY <1>3, CombineSolution
  <2>3. solution' = Combine(safe, entries, failure)
    BY <1>9 DEF entries, failure
  <2>4. Reports(SAME_SHAFT, failed', IF safe.failure # NoFailure THEN safe.failure ELSE failure)
    BY <1>1, <1>5, <1>9, <2>1, ReportsOneMore DEF failure
  <2>5. section' \in 1 .. N' + 1 /\ pass' \in {pass, "raised"}
    BY <1>1, <1>9, ProceedSteps DEF ReportedInv
  <2> QED
    BY <1>5, <1>9, <2>2, <2>3, <2>4, <2>5
<1>10. CASE /\ CanRun(Section(i), surge.setting, inlet)
            /\ \/ /\ solution' = WithFailure(safe, FailureOf(i, "below"))
                  /\ failed' = Append(failed, i)
               \/ solution' = safe /\ failed' = failed
            /\ Proceed(i, surge.setting)
  <2>1. IsSolution(solution')
    BY <1>3, <1>10, FailureReplaced
  <2>2. Reports(SAME_SHAFT, failed', solution'.failure)
    <3>1. CASE solution' = WithFailure(safe, FailureOf(i, "below")) /\ failed' = Append(failed, i)
      BY <1>1, <1>3, <1>5, <3>1, FailureReplaced, ReportsBelow
    <3>2. CASE solution' = safe /\ failed' = failed
      BY <1>4, <1>7, <1>10, <3>2
    <3> QED
      BY <1>10, <3>1, <3>2
  <2>3. section' \in 1 .. N' + 1 /\ pass' \in {pass, "raised"}
    BY <1>1, <1>10, ProceedSteps DEF ReportedInv
  <2> QED
    BY <1>5, <1>10, <2>1, <2>2, <2>3
<1> QED
  BY <1>6, <1>8, <1>9, <1>10

LEMMA SolveOwnShaftReports ==
  ASSUME ReportedInv, SolveOwnShaft PROVE ReportedInv'
<1>1. PICK o \in Outcomes(section, inlet, Target(section)) :
        /\ solution' = [configuration |-> Merge(solution.configuration, Entries(section, o.setting, o.kinds)),
                        failure |-> FirstFailure(section, o.failure)]
        /\ failed' = IF o.failure = None THEN failed ELSE Append(failed, section)
        /\ Proceed(section, Applied(section, o.setting, Entries(section, o.setting, o.kinds)))
  BY DEF SolveOwnShaft
<1>2. /\ series' = series /\ series.job = OWN_SHAFTS /\ section \in 1 .. N /\ section \in Nat
      /\ pass = "solve" /\ SAME_SHAFT # OWN_SHAFTS
  <2>1. series' = series /\ series.job = OWN_SHAFTS /\ section <= N /\ pass = "solve"
    BY DEF SolveOwnShaft
  <2>2. series \in Series /\ section \in 1 .. N + 1
    BY DEF ReportedInv, SeriesTypeOK
  <2>3. N \in Nat
    BY <2>2, SeriesTypes
  <2>4. SAME_SHAFT # OWN_SHAFTS
    BY DEF SAME_SHAFT, OWN_SHAFTS
  <2> QED
    BY <2>1, <2>2, <2>3, <2>4
<1>3. section' \in 1 .. N' + 1
  BY <1>1, <1>2, ProceedSteps DEF ReportedInv
<1>4. \/ pass' = "solve" \/ pass' = "raised"
  BY <1>1, <1>2, ProceedSteps DEF ReportedInv
<1>5. failed \in Seq(Nat) /\ Reports(series.job, failed, solution.failure)
  BY DEF ReportedInv, SeriesTypeOK, ReportedSoFar, NoneFailedYet
<1>6. failed' \in Seq(Nat)
  BY <1>1, <1>2, <1>5, AppendTo
<1>7. Reports(series.job, failed', solution'.failure)
  <2>1. solution'.failure = IF solution.failure # NoFailure THEN solution.failure ELSE FailureOf(section, o.failure)
    BY <1>1 DEF FirstFailure
  <2>2. Reports(series.job, IF o.failure = None THEN failed ELSE Append(failed, section),
                IF solution.failure # NoFailure THEN solution.failure ELSE FailureOf(section, o.failure))
    BY <1>2, <1>5, ReportsOneMore
  <2> QED
    BY <1>1, <2>1, <2>2
<1>8. IsSolution(solution')
  BY <1>1 DEF IsSolution
<1> QED
  BY <1>2, <1>3, <1>4, <1>6, <1>7, <1>8 DEF ReportedInv, SeriesTypeOK, ReportedSoFar, NoneFailedYet

\* Every step of a call keeps it.
LEMMA SeriesReports ==
  ASSUME ReportedInv, [NextSeries]_seriesVars PROVE ReportedInv'
<1>1. CASE StartTogether
  <2>1. /\ series' = series /\ series.job = SAME_SHAFT /\ SAME_SHAFT # OWN_SHAFTS
        /\ pass' = "together" /\ section' = 1 /\ failed' = failed
        /\ solution'.failure = NoFailure /\ IsSolution(solution') /\ failed = <<>>
    BY <1>1 DEF StartTogether, SAME_SHAFT, OWN_SHAFTS, IsSolution, ReportedInv, NoneFailedYet
  <2>2. N' = N /\ series \in Series
    BY <2>1 DEF ReportedInv, SeriesTypeOK, N
  <2>3. section' \in 1 .. N' + 1
    <3>1. N \in Nat
      BY <2>2, SeriesTypes
    <3>2. 1 \in 1 .. N + 1
      BY <3>1
    <3> QED
      BY <2>1, <2>2, <3>2
  <2> QED
    BY <2>1, <2>2, <2>3 DEF ReportedInv, SeriesTypeOK, ReportedSoFar, Reports, NoneFailedYet
<1>2. CASE Finish
  BY <1>2 DEF ReportedInv, SeriesTypeOK, ReportedSoFar, NoneFailedYet, Finish, N
<1>0. CASE Escape
  BY <1>0 DEF ReportedInv, SeriesTypeOK, ReportedSoFar, NoneFailedYet, Escape, N
<1>3. CASE UNCHANGED seriesVars
  BY <1>3 DEF ReportedInv, SeriesTypeOK, ReportedSoFar, NoneFailedYet, seriesVars, N
<1> QED
  BY <1>0, <1>1, <1>2, <1>3, SolveForSpeedReports, RunTogetherReports, SolveOwnShaftReports DEF NextSeries

LEMMA ReportedIsEnough ==
  ASSUME ReportedInv PROVE FailuresAreReported
BY DEF ReportedInv, ReportedSoFar, Reports, FailuresAreReported
-----------------------------------------------------------------------------
(***************************************************************************)
(* Successes.                                                               *)
(***************************************************************************)
\* Under a configuration the first k sections run, have these outlets and deliver.
Delivers(c, k, outlets) ==
  /\ outlets \in [0 .. k -> Int]
  /\ outlets[0] = series.inlet.pressure
  /\ \A j \in 1 .. k :
       /\ CanRun(Section(j), Applied(j, Default, c), outlets[j - 1])
       /\ outlets[j] = OutletOf(Section(j), Applied(j, Default, c), outlets[j - 1])
       /\ Delivered(Section(j), Applied(j, Default, c), outlets[j], Target(j))

LEMMA OutletType ==
  ASSUME series \in Series, NEW i \in 1 .. N, NEW s \in UnitSettings, NEW p \in Int
  PROVE  OutletOf(Section(i), s, p) \in Int
<1>1. Section(i) \in SectionType /\ Rate \in Int
  BY SeriesTypes
<1>2. Section(i).surge \in Int
  BY <1>1 DEF SectionType
<1>3. s.speed \in Int /\ s.loop \in Int /\ s.up \in Int /\ s.down \in Int
  BY DEF UnitSettings
<1> QED
  BY <1>1, <1>2, <1>3, SeriesAssumption DEF OutletOf, Flow

\* One section more, under a configuration that is the same for those before.
LEMMA DeliversOneMore ==
  ASSUME NEW i \in Nat \ {0}, NEW c, NEW d, NEW outlets, Delivers(c, i - 1, outlets),
         \A j \in 1 .. i - 1 : Applied(j, Default, d) = Applied(j, Default, c),
         NEW out \in Int,
         CanRun(Section(i), Applied(i, Default, d), outlets[i - 1]),
         out = OutletOf(Section(i), Applied(i, Default, d), outlets[i - 1]),
         Delivered(Section(i), Applied(i, Default, d), out, Target(i))
  PROVE  \E more : Delivers(d, i, more) /\ more[i] = out
<1> DEFINE more == [j \in 0 .. i |-> IF j = i THEN out ELSE outlets[j]]
<1>1. outlets \in [0 .. i - 1 -> Int] /\ outlets[0] = series.inlet.pressure
  BY DEF Delivers
<1>2. more \in [0 .. i -> Int] /\ more[0] = series.inlet.pressure /\ more[i] = out
  BY <1>1
<1>3. ASSUME NEW j \in 1 .. i
      PROVE  /\ CanRun(Section(j), Applied(j, Default, d), more[j - 1])
             /\ more[j] = OutletOf(Section(j), Applied(j, Default, d), more[j - 1])
             /\ Delivered(Section(j), Applied(j, Default, d), more[j], Target(j))
  <2>1. CASE j = i
    <3>1. more[j - 1] = outlets[i - 1] /\ more[j] = out
      BY <2>1
    <3> HIDE DEF more
    <3> QED
      BY <2>1, <3>1
  <2>2. CASE j \in 1 .. i - 1
    <3>1. more[j - 1] = outlets[j - 1] /\ more[j] = outlets[j]
      BY <2>2
    <3> HIDE DEF more
    <3> QED
      BY <2>2, <3>1 DEF Delivers
  <2> QED
    BY <2>1, <2>2
<1> HIDE DEF more
<1> QED
  BY <1>2, <1>3 DEF Delivers

LEMMA DeliversNone ==
  ASSUME series \in Series, NEW c
  PROVE  \E outlets : Delivers(c, 0, outlets) /\ outlets[0] = series.inlet.pressure
<1> DEFINE outlets == [j \in 0 .. 0 |-> series.inlet.pressure]
<1>1. outlets \in [0 .. 0 -> Int] /\ outlets[0] = series.inlet.pressure
  BY SeriesTypes
<1> HIDE DEF outlets
<1> QED
  BY <1>1 DEF Delivers

\* Outlets like these are what a replay gives.
LEMMA DeliveredIsReplayed ==
  ASSUME series \in Series, NEW c, NEW outlets, Delivers(c, N, outlets)
  PROVE  \A i \in 1 .. N : /\ Replayed(c)[i].ok
                           /\ Replayed(c)[i].outlet = outlets[i]
<1> DEFINE Body(f) ==
             [i \in 0 .. N |->
                IF i = 0 THEN [ok |-> TRUE, outlet |-> series.inlet.pressure]
                ELSE [ok     |-> f[i - 1].ok /\ CanRun(Section(i), Applied(i, Default, c), f[i - 1].outlet),
                      outlet |-> OutletOf(Section(i), Applied(i, Default, c), f[i - 1].outlet)]]
           g == [i \in 0 .. N |-> [ok |-> TRUE, outlet |-> outlets[i]]]
<1>1. N \in Nat
  BY SeriesTypes
<1>2. g = Body(g)
  <2>1. ASSUME NEW i \in 0 .. N PROVE g[i] = Body(g)[i]
    <3>1. CASE i = 0
      BY <3>1 DEF Delivers
    <3>2. CASE i # 0
      <4>1. i \in 1 .. N /\ i - 1 \in 0 .. N
        BY <1>1, <3>2
      <4>2. g[i - 1].ok = TRUE /\ g[i - 1].outlet = outlets[i - 1]
        BY <4>1
      <4>3. CanRun(Section(i), Applied(i, Default, c), outlets[i - 1])
            /\ outlets[i] = OutletOf(Section(i), Applied(i, Default, c), outlets[i - 1])
        BY <4>1 DEF Delivers
      <4>4. Body(g)[i] = [ok     |-> g[i - 1].ok /\ CanRun(Section(i), Applied(i, Default, c), g[i - 1].outlet),
                          outlet |-> OutletOf(Section(i), Applied(i, Default, c), g[i - 1].outlet)]
        BY <3>2
      <4>5. g[i] = [ok |-> TRUE, outlet |-> outlets[i]]
        OBVIOUS
      <4> HIDE DEF g, Body
      <4> QED
        BY <4>2, <4>3, <4>4, <4>5
    <3> QED
      BY <3>1, <3>2
  <2>2. g = [i \in 0 .. N |-> g[i]] /\ Body(g) = [i \in 0 .. N |-> Body(g)[i]]
    OBVIOUS
  <2> HIDE DEF g, Body
  <2> QED
    BY <2>1, <2>2
<1>3. Replayed(c) = CHOOSE f : f = Body(f)
  BY DEF Replayed
<1> DEFINE r == Replayed(c)
<1>4. r = Body(r)
  <2> HIDE DEF g, Body
  <2> QED
    BY <1>2, <1>3
<1> DEFINE S == {n \in Nat : n <= N => r[n] = [ok |-> TRUE, outlet |-> outlets[n]]}
<1>5. 0 \in S
  <2>1. r[0] = [ok |-> TRUE, outlet |-> series.inlet.pressure]
    <3>1. Body(r)[0] = [ok |-> TRUE, outlet |-> series.inlet.pressure]
      BY <1>1
    <3> HIDE DEF r, Body
    <3> QED
      BY <1>4, <3>1
  <2> HIDE DEF r
  <2> QED
    BY <2>1 DEF Delivers
<1>6. ASSUME NEW n \in Nat, n \in S PROVE n + 1 \in S
  <2> SUFFICES ASSUME n + 1 <= N PROVE r[n + 1] = [ok |-> TRUE, outlet |-> outlets[n + 1]]
    OBVIOUS
  <2>1. n + 1 \in 1 .. N /\ (n + 1) - 1 = n
    BY <1>1
  <2>2. r[n].ok = TRUE /\ r[n].outlet = outlets[n]
    <3>1. r[n] = [ok |-> TRUE, outlet |-> outlets[n]]
      BY <1>1, <1>6
    <3> QED
      BY <3>1
  <2>3. CanRun(Section(n + 1), Applied(n + 1, Default, c), outlets[n])
        /\ outlets[n + 1] = OutletOf(Section(n + 1), Applied(n + 1, Default, c), outlets[n])
    BY <2>1 DEF Delivers
  <2>4. Body(r)[n + 1] = [ok     |-> r[n].ok /\ CanRun(Section(n + 1), Applied(n + 1, Default, c), r[n].outlet),
                          outlet |-> OutletOf(Section(n + 1), Applied(n + 1, Default, c), r[n].outlet)]
    <3> HIDE DEF r
    <3> QED
      BY <2>1
  <2> HIDE DEF r, Body
  <2>5. r[n + 1] = [ok     |-> r[n].ok /\ CanRun(Section(n + 1), Applied(n + 1, Default, c), r[n].outlet),
                    outlet |-> OutletOf(Section(n + 1), Applied(n + 1, Default, c), r[n].outlet)]
    BY <1>4, <2>4
  <2>6. (r[n].ok /\ CanRun(Section(n + 1), Applied(n + 1, Default, c), r[n].outlet)) = TRUE
    BY <2>2, <2>3, Zenon
  <2>7. OutletOf(Section(n + 1), Applied(n + 1, Default, c), r[n].outlet) = outlets[n + 1]
    BY <2>2, <2>3
  <2> QED
    BY <2>5, <2>6, <2>7, Zenon
<1>7. \A n \in Nat : n \in S
  <2> HIDE DEF S
  <2> QED
    BY <1>5, <1>6, FromZero
<1>8. ASSUME NEW i \in 1 .. N PROVE r[i].ok /\ r[i].outlet = outlets[i]
  <2>1. r[i] = [ok |-> TRUE, outlet |-> outlets[i]]
    BY <1>1, <1>7
  <2> QED
    BY <2>1
<1> HIDE DEF r
<1> QED
  BY <1>8 DEF r

\* A setting comes out of a configuration that has its entries, if the entries
\* that were there, and the defaults, agree with it.
LEMMA AppliedAfterMerge ==
  ASSUME NEW c, NEW i, NEW s \in UnitSettings, NEW kinds,
         \A k \in Kinds \ kinds :
            (IF <<k, i>> \in DOMAIN c THEN c[<<k, i>>] ELSE Default[k]) = s[k]
  PROVE  Applied(i, Default, Merge(c, Entries(i, s, kinds))) = s
<1> DEFINE m == Merge(c, Entries(i, s, kinds))
<1>1. ASSUME NEW k \in Kinds
      PROVE  (IF <<k, i>> \in DOMAIN m THEN m[<<k, i>>] ELSE Default[k]) = s[k]
  <2>1. /\ <<k, i>> \in DOMAIN m <=> k \in kinds \/ <<k, i>> \in DOMAIN c
        /\ k \in kinds => m[<<k, i>>] = s[k]
        /\ k \notin kinds => (<<k, i>> \in DOMAIN c => m[<<k, i>>] = c[<<k, i>>])
    BY MergedHere
  <2> HIDE DEF m
  <2> QED
    BY <2>1
<1> HIDE DEF m
<1>2. Applied(i, Default, m) = [k \in Kinds |-> s[k]]
  BY <1>1, DefaultIsASetting DEF Applied
<1>3. s = [k \in Kinds |-> s[k]]
  BY DEF UnitSettings, Kinds
<1> QED
  BY <1>2, <1>3 DEF m

\* Nothing but pressure control chokes a section.
Unthrottled(s, i) ==
  s \in UnitSettings /\ \A k \in Kinds \ ({"speed", "loop"} \cup ControlledBy(Section(i))) : s[k] = Default[k]

\* The sections before the next one deliver, and the next one is fed by them.
DeliversSoFar ==
  \E outlets : Delivers(solution.configuration, section - 1, outlets) /\ outlets[section - 1] = inlet

SolvingInv ==
  series.job = SAME_SHAFT /\ pass = "solve" =>
    /\ inlet \in Int
    /\ setting \in [1 .. N -> UnitSettings]
    /\ \A i \in 1 .. N : Unthrottled(setting[i], i)
    /\ speeds \in SUBSET (MinSpeed .. MaxSpeed)
    /\ section > 1 => speeds # {}

OnlySpeedIsSet(c, j) ==
  /\ \A k \in Kinds : <<k, j>> \in DOMAIN c <=> k = "speed"
  /\ c[<<"speed", j>>] = CommonSpeed

TogetherInv ==
  pass = "together" =>
    /\ N > 0 => CommonSpeed \in Int
    /\ DOMAIN setting = 1 .. N
    /\ \A i \in section .. N : Unthrottled(setting[i], i)
    /\ solution.failure = NoFailure =>
         DeliversSoFar /\ \A j \in section .. N : OnlySpeedIsSet(solution.configuration, j)

OwnShaftsInv ==
  series.job = OWN_SHAFTS /\ pass = "solve" /\ solution.failure = NoFailure =>
    DeliversSoFar /\ \A j \in section .. N, k \in Kinds : <<k, j>> \notin DOMAIN solution.configuration

DoneInv ==
  pass = "done" /\ solution.failure = NoFailure =>
    \E outlets : Delivers(solution.configuration, N, outlets)

SuccessInv == SolvingInv /\ TogetherInv /\ OwnShaftsInv /\ DoneInv

LEMMA SuccessIsEnough ==
  ASSUME SeriesTypeOK, SuccessInv PROVE SuccessMeetsEveryTarget
<1> SUFFICES ASSUME pass = "done", solution.failure = NoFailure, NEW i \in 1 .. N
             PROVE  /\ Replayed(solution.configuration)[i].ok
                    /\ Delivered(Section(i), Applied(i, Default, solution.configuration),
                                 Replayed(solution.configuration)[i].outlet, Target(i))
  BY DEF SuccessMeetsEveryTarget, Delivered
<1>1. PICK outlets : Delivers(solution.configuration, N, outlets)
  BY DEF SuccessInv, DoneInv
<1>2. series \in Series
  BY DEF SeriesTypeOK
<1>3. Replayed(solution.configuration)[i].ok /\ Replayed(solution.configuration)[i].outlet = outlets[i]
  BY <1>1, <1>2, DeliveredIsReplayed
<1>4. Delivered(Section(i), Applied(i, Default, solution.configuration), outlets[i], Target(i))
  BY <1>1 DEF Delivers
<1> QED
  BY <1>3, <1>4

LEMMA InitSuccess ==
  ASSUME series \in Series, InitSeries PROVE SuccessInv
<1>1. /\ pass = "solve" /\ section = 1 /\ inlet = series.inlet.pressure
      /\ setting = [i \in 1 .. N |-> Default] /\ speeds = {}
      /\ solution = [configuration |-> << >>, failure |-> NoFailure]
  BY DEF InitSeries
<1>2. solution.configuration = << >> /\ section - 1 = 0
  BY <1>1
<1>3. DeliversSoFar
  BY <1>1, <1>2, DeliversNone DEF DeliversSoFar
<1>4. Unthrottled(Default, 1) /\ \A i \in 1 .. N : Unthrottled(setting[i], i)
  BY <1>1, DefaultIsASetting DEF Unthrottled
<1>5. SolvingInv
  BY <1>1, <1>4, SeriesTypes, DefaultIsASetting DEF SolvingInv
<1>6. OwnShaftsInv
  BY <1>1, <1>2, <1>3 DEF OwnShaftsInv
<1> QED
  BY <1>1, <1>5, <1>6 DEF SuccessInv, TogetherInv, DoneInv

\* What is said of a series stays so while the series does.
LEMMA SameSeries ==
  ASSUME series' = series
  PROVE  /\ N' = N
         /\ \A c, k, outlets : Delivers(c, k, outlets)' <=> Delivers(c, k, outlets)
         /\ \A s, i : Unthrottled(s, i)' <=> Unthrottled(s, i)
<1>1. N' = N
  BY DEF N
<1>2. ASSUME NEW c, NEW k, NEW outlets PROVE Delivers(c, k, outlets)' <=> Delivers(c, k, outlets)
  BY DEF Delivers, Delivered, Recirculates, Meets, CanRun, OutletOf, Flow, Section, Target, Rate
<1>3. ASSUME NEW s, NEW i PROVE Unthrottled(s, i)' <=> Unthrottled(s, i)
  BY DEF Unthrottled, Section
<1> QED
  BY <1>1, <1>2, <1>3

\* The section that is next, and the run that feeds the one after it.
LEMMA NextSection ==
  ASSUME SeriesTypeOK, section <= N
  PROVE  /\ series \in Series
         /\ N \in Nat /\ section \in 1 .. N /\ section \in Nat \ {0}
         /\ Section(section).control \in {COMMON_ASV, UPSTREAM_CHOKE, DOWNSTREAM_CHOKE}
<1>1. series \in Series /\ section \in 1 .. N + 1
  BY DEF SeriesTypeOK
<1>2. N \in Nat
  BY <1>1, SeriesTypes
<1>3. section \in 1 .. N /\ section \in Nat \ {0}
  BY <1>1, <1>2
<1>4. Section(section) \in SectionType
  BY <1>1, <1>3, SeriesTypes
<1> QED
  BY <1>1, <1>2, <1>3, <1>4 DEF SectionType

LEMMA ProceedFeeds ==
  ASSUME NEW i, NEW s, CanRun(Section(i), s, inlet), Proceed(i, s)
  PROVE  /\ inlet' = OutletOf(Section(i), s, inlet)
         /\ section' = i + 1
         /\ pass' = pass
         /\ setting' = [setting EXCEPT ![i] = s]
BY DEF Proceed

\* A solver that raises returns nothing.
LEMMA RaisedSucceeds ==
  ASSUME pass' = "raised" PROVE SuccessInv'
BY DEF SuccessInv, SolvingInv, TogetherInv, OwnShaftsInv, DoneInv

LEMMA SolveForSpeedSucceeds ==
  ASSUME ReportedInv, SuccessInv, SolveForSpeed PROVE SuccessInv'
<1>1. PICK o \in Outcomes(section, inlet, Target(section)) :
        IF o.failure = None
        THEN /\ Proceed(section, o.setting)
             /\ speeds' = speeds \cup {o.setting.speed}
             /\ UNCHANGED <<solution, failed>>
        ELSE /\ solution' = [configuration |-> Entries(section, o.setting, o.kinds),
                             failure |-> FailureOf(section, o.failure)]
             /\ failed' = <<section>>
             /\ pass' = "done"
             /\ UNCHANGED <<section, inlet, setting, speeds>>
  BY DEF SolveForSpeed
<1>2. series' = series /\ series.job = SAME_SHAFT /\ section <= N /\ pass = "solve"
  BY DEF SolveForSpeed
<1>3. SAME_SHAFT # OWN_SHAFTS
  BY DEF SAME_SHAFT, OWN_SHAFTS
<1>4. series \in Series /\ N \in Nat /\ section \in 1 .. N /\ N' = N
  BY <1>2, NextSection, SameSeries DEF ReportedInv
<1>5. ASSUME pass' # "raised", o.failure = None PROVE SuccessInv'
  <2>1. CanRun(Section(section), o.setting, inlet) /\ Proceed(section, o.setting)
    BY <1>1, <1>5 DEF Proceed
  <2>2. /\ o.setting \in UnitSettings /\ o.setting.speed \in MinSpeed .. MaxSpeed
        /\ o.kinds \subseteq {"speed", "loop"} \cup ControlledBy(Section(section))
        /\ \A k \in Kinds \ o.kinds : o.setting[k] = Default[k]
    BY <1>4, <1>5, SolvedMeets
  <2>3. Unthrottled(o.setting, section)
    BY <2>2 DEF Unthrottled
  <2>4. /\ inlet' = OutletOf(Section(section), o.setting, inlet)
        /\ pass' = "solve"
        /\ setting' = [setting EXCEPT ![section] = o.setting]
    BY <1>2, <2>1, ProceedFeeds
  <2>5. /\ inlet \in Int
        /\ setting \in [1 .. N -> UnitSettings]
        /\ \A i \in 1 .. N : Unthrottled(setting[i], i)
        /\ speeds \in SUBSET (MinSpeed .. MaxSpeed)
    BY <1>2 DEF SuccessInv, SolvingInv
  <2>6. inlet' \in Int
    BY <1>4, <2>2, <2>4, <2>5, OutletType
  <2>7. setting' \in [1 .. N' -> UnitSettings] /\ \A i \in 1 .. N' : Unthrottled(setting'[i], i)
    <3>1. setting' \in [1 .. N -> UnitSettings]
      BY <1>4, <2>2, <2>4, <2>5
    <3>2. \A i \in 1 .. N : setting'[i] = IF i = section THEN o.setting ELSE setting[i]
      BY <1>4, <2>4, <2>5
    <3> QED
      BY <1>4, <2>3, <2>5, <3>1, <3>2
  <2>8. \A i \in 1 .. N' : Unthrottled(setting[i], i)'
    BY <1>2, <2>7, SameSeries
  <2>9. speeds' \in SUBSET (MinSpeed .. MaxSpeed) /\ speeds' # {}
    BY <1>1, <1>5, <2>2, <2>5
  <2> QED
    BY <1>2, <1>3, <2>4, <2>6, <2>7, <2>8, <2>9
    DEF SuccessInv, SolvingInv, TogetherInv, OwnShaftsInv, DoneInv
<1>6. CASE o.failure # None
  <2>1. solution'.failure = FailureOf(section, o.failure) /\ pass' = "done"
    BY <1>1, <1>6
  <2>2. solution'.failure # NoFailure
    BY <1>6, <2>1, FailureIsNotNone
  <2> QED
    BY <2>1, <2>2 DEF SuccessInv, SolvingInv, TogetherInv, OwnShaftsInv, DoneInv
<1>7. CASE pass' = "raised"
  BY <1>7, RaisedSucceeds
<1> QED
  BY <1>5, <1>6, <1>7

LEMMA StartTogetherSucceeds ==
  ASSUME ReportedInv, SuccessInv, StartTogether PROVE SuccessInv'
<1>1. /\ series' = series /\ series.job = SAME_SHAFT /\ pass = "solve" /\ section = N + 1
      /\ solution' = [configuration |-> [h \in {<<"speed", i>> : i \in 1 .. N} |-> CommonSpeed], failure |-> NoFailure]
      /\ pass' = "together" /\ section' = 1 /\ inlet' = series.inlet.pressure
      /\ setting' = setting /\ speeds' = speeds
  BY DEF StartTogether
<1>2. series \in Series /\ N \in Nat /\ N' = N
  BY <1>1, SeriesTypes, SameSeries DEF ReportedInv, SeriesTypeOK
<1>3. /\ setting \in [1 .. N -> UnitSettings]
      /\ \A i \in 1 .. N : Unthrottled(setting[i], i)
      /\ speeds \in SUBSET (MinSpeed .. MaxSpeed)
      /\ section > 1 => speeds # {}
  BY <1>1 DEF SuccessInv, SolvingInv
<1>4. N > 0 => CommonSpeed \in Int
  <2> SUFFICES ASSUME N > 0 PROVE CommonSpeed \in Int
    OBVIOUS
  <2>1. speeds # {}
    <3>1. section = N + 1 /\ N \in Nat
      BY <1>1, <1>2
    <3>2. section > 1
      BY <3>1
    <3> QED
      BY <1>3, <3>2
  <2>2. \E v \in speeds : \A w \in speeds : w <= v
    BY <1>3, <2>1, GreatestSpeed
  <2>3. CommonSpeed \in speeds
    BY <2>2 DEF CommonSpeed
  <2> QED
    BY <1>3, <2>3, SeriesAssumption
<1>5. CommonSpeed' = CommonSpeed
  BY <1>1 DEF CommonSpeed
<1> DEFINE c == [h \in {<<"speed", i>> : i \in 1 .. N} |-> CommonSpeed]
<1>6. solution'.configuration = c /\ section' - 1 = 0
  <2>1. solution' = [configuration |-> c, failure |-> NoFailure]
    BY <1>1
  <2>2. section' = 1
    BY <1>1
  <2> HIDE DEF c
  <2> QED
    BY <2>1, <2>2
<1>7. ASSUME NEW j \in 1 .. N PROVE OnlySpeedIsSet(c, j)
  <2> HIDE DEF c
  <2>1. DOMAIN c = {<<"speed", i>> : i \in 1 .. N} /\ c[<<"speed", j>>] = CommonSpeed
    BY DEF c
  <2> QED
    BY <2>1 DEF OnlySpeedIsSet
<1> HIDE DEF c
<1>8. \A j \in section' .. N' : OnlySpeedIsSet(solution.configuration, j)'
  BY <1>1, <1>2, <1>5, <1>6, <1>7 DEF OnlySpeedIsSet
<1>9. DeliversSoFar'
  <2>1. PICK outlets : Delivers(c, 0, outlets) /\ outlets[0] = series.inlet.pressure
    BY <1>2, DeliversNone
  <2>2. Delivers(solution'.configuration, section' - 1, outlets) /\ outlets[section' - 1] = inlet'
    BY <1>1, <1>6, <2>1
  <2> QED
    BY <1>1, <2>2, SameSeries DEF DeliversSoFar
<1>10. \A i \in section' .. N' : Unthrottled(setting[i], i)'
  BY <1>1, <1>2, <1>3, SameSeries
<1>11. N' > 0 => CommonSpeed' \in Int
  BY <1>2, <1>4, <1>5
<1>12. DOMAIN setting' = 1 .. N'
  BY <1>1, <1>2, <1>3
<1> QED
  BY <1>1, <1>8, <1>9, <1>10, <1>11, <1>12
  DEF SuccessInv, SolvingInv, TogetherInv, OwnShaftsInv, DoneInv

\* Two configurations that differ at most in the handlers of one section.
SameElsewhere(c, d, i) ==
  \A j, k : j # i => /\ <<k, j>> \in DOMAIN d <=> <<k, j>> \in DOMAIN c
                     /\ <<k, j>> \in DOMAIN c => d[<<k, j>>] = c[<<k, j>>]

LEMMA MergeIsLocal ==
  ASSUME NEW c, NEW i, NEW s, NEW kinds
  PROVE  SameElsewhere(c, Merge(c, Entries(i, s, kinds)), i)
<1>1. DOMAIN Entries(i, s, kinds) = {<<k, i>> : k \in kinds}
  BY DEF Entries
<1>2. ASSUME NEW j, NEW k, j # i
      PROVE  LET m == Merge(c, Entries(i, s, kinds))
             IN  /\ <<k, j>> \in DOMAIN m <=> <<k, j>> \in DOMAIN c
                 /\ <<k, j>> \in DOMAIN c => m[<<k, j>>] = c[<<k, j>>]
  BY <1>1, <1>2 DEF Merge
<1> QED
  BY <1>2 DEF SameElsewhere

LEMMA LocalTwice ==
  ASSUME NEW c, NEW d, NEW e, NEW i, SameElsewhere(c, d, i), SameElsewhere(d, e, i)
  PROVE  SameElsewhere(c, e, i)
BY DEF SameElsewhere

LEMMA AppliedElsewhere ==
  ASSUME NEW c, NEW d, NEW i, SameElsewhere(c, d, i), NEW j, j # i, NEW s
  PROVE  Applied(j, s, d) = Applied(j, s, c)
BY DEF Applied, SameElsewhere

\* A section that is run as the configuration says and meets its target feeds
\* the next.
LEMMA DeliversNext ==
  ASSUME series' = series, SeriesTypeOK, section <= N, DeliversSoFar,
         NEW s \in UnitSettings, CanRun(Section(section), s, inlet), Proceed(section, s),
         SameElsewhere(solution.configuration, solution'.configuration, section),
         Applied(section, Default, solution'.configuration) = s,
         Delivered(Section(section), s, OutletOf(Section(section), s, inlet), Target(section))
  PROVE  DeliversSoFar'
<1>1. series \in Series /\ section \in 1 .. N /\ section \in Nat \ {0}
  BY NextSection
<1>2. PICK outlets : Delivers(solution.configuration, section - 1, outlets) /\ outlets[section - 1] = inlet
  BY DEF DeliversSoFar
<1>3. inlet \in Int
  <2>1. section - 1 \in 0 .. section - 1 /\ outlets \in [0 .. section - 1 -> Int]
    BY <1>1, <1>2 DEF Delivers
  <2> QED
    BY <1>2, <2>1
<1> DEFINE out == OutletOf(Section(section), s, inlet)
           c == solution.configuration
           d == solution'.configuration
<1>4. out \in Int
  BY <1>1, <1>3, OutletType
<1>5. \A j \in 1 .. section - 1 : Applied(j, Default, d) = Applied(j, Default, c)
  <2> SUFFICES ASSUME NEW j \in 1 .. section - 1 PROVE Applied(j, Default, d) = Applied(j, Default, c)
    OBVIOUS
  <2>1. j # section
    BY <1>1
  <2>2. SameElsewhere(c, d, section)
    OBVIOUS
  <2> HIDE DEF c, d
  <2> QED
    BY <2>1, <2>2, AppliedElsewhere
<1>6. PICK more : Delivers(d, section, more) /\ more[section] = out
  <2>1. Delivers(c, section - 1, outlets)
    BY <1>2
  <2>2. /\ CanRun(Section(section), Applied(section, Default, d), outlets[section - 1])
        /\ out = OutletOf(Section(section), Applied(section, Default, d), outlets[section - 1])
        /\ Delivered(Section(section), Applied(section, Default, d), out, Target(section))
    BY <1>2
  <2> HIDE DEF c, d, out
  <2> QED
    BY <1>1, <1>4, <1>5, <2>1, <2>2, DeliversOneMore
<1>7. inlet' = out /\ section' - 1 = section
  BY <1>1, ProceedFeeds
<1>8. Delivers(solution'.configuration, section' - 1, more) /\ more[section' - 1] = inlet'
  BY <1>6, <1>7
<1> QED
  BY <1>8, SameSeries DEF DeliversSoFar

LEMMA SolveOwnShaftSucceeds ==
  ASSUME ReportedInv, SuccessInv, SolveOwnShaft PROVE SuccessInv'
<1>1. PICK o \in Outcomes(section, inlet, Target(section)) :
        /\ solution' = [configuration |-> Merge(solution.configuration, Entries(section, o.setting, o.kinds)),
                        failure |-> FirstFailure(section, o.failure)]
        /\ Proceed(section, Applied(section, o.setting, Entries(section, o.setting, o.kinds)))
  BY DEF SolveOwnShaft
<1>2. series' = series /\ series.job = OWN_SHAFTS /\ section <= N /\ pass = "solve"
  BY DEF SolveOwnShaft
<1>3. SAME_SHAFT # OWN_SHAFTS
  BY DEF SAME_SHAFT, OWN_SHAFTS
<1>4. SeriesTypeOK /\ series \in Series /\ N \in Nat /\ section \in 1 .. N /\ N' = N
  BY <1>2, NextSection, SameSeries DEF ReportedInv
<1> DEFINE c == solution.configuration
           d == Merge(c, Entries(section, o.setting, o.kinds))
<1>5. solution'.configuration = d /\ solution'.failure = FirstFailure(section, o.failure)
  BY <1>1
<1>6. pass' \in {"solve", "raised"}
  BY <1>1, <1>2, <1>4, ProceedSteps
<1> SUFFICES ASSUME solution'.failure = NoFailure, pass' = "solve" PROVE OwnShaftsInv'
  BY <1>2, <1>3, <1>6 DEF SuccessInv, SolvingInv, TogetherInv, OwnShaftsInv, DoneInv
<1>7. solution.failure = NoFailure /\ o.failure = None
  BY <1>5, FailureIsNotNone DEF FirstFailure
<1>8. /\ DeliversSoFar
      /\ \A j \in section .. N, k \in Kinds : <<k, j>> \notin DOMAIN c
  BY <1>2, <1>7 DEF SuccessInv, OwnShaftsInv
<1>9. /\ o.setting \in UnitSettings
      /\ Delivered(Section(section), o.setting, OutletOf(Section(section), o.setting, inlet), Target(section))
      /\ \A k \in Kinds \ o.kinds : o.setting[k] = Default[k]
  BY <1>4, <1>7, SolvedMeets
<1>10. Proceed(section, o.setting) /\ CanRun(Section(section), o.setting, inlet)
  <2>1. Proceed(section, o.setting)
    BY <1>1, <1>9, OwnEntriesChangeNothing
  <2>2. pass' # "raised"
    OBVIOUS
  <2> QED
    BY <2>1, <2>2 DEF Proceed
<1> HIDE DEF c
<1>11. Applied(section, Default, d) = o.setting
  <2>1. \A k \in Kinds : <<k, section>> \notin DOMAIN c
    BY <1>4, <1>8
  <2>2. \A k \in Kinds \ o.kinds :
          (IF <<k, section>> \in DOMAIN c THEN c[<<k, section>>] ELSE Default[k]) = o.setting[k]
    BY <1>9, <2>1
  <2> QED
    BY <1>9, <2>2, AppliedAfterMerge
<1>12. SameElsewhere(c, d, section)
  BY MergeIsLocal
<1> HIDE DEF d
<1>13. DeliversSoFar'
  <2>1. SameElsewhere(solution.configuration, solution'.configuration, section)
    BY <1>5, <1>12 DEF c
  <2>2. Applied(section, Default, solution'.configuration) = o.setting
    BY <1>5, <1>11
  <2> QED
    BY <1>2, <1>4, <1>8, <1>9, <1>10, <2>1, <2>2, DeliversNext
<1>14. section' = section + 1
  BY <1>9, <1>10, ProceedFeeds
<1>15. \A j \in section' .. N', k \in Kinds : <<k, j>> \notin DOMAIN solution'.configuration
  <2> SUFFICES ASSUME NEW j \in section' .. N', NEW k \in Kinds PROVE <<k, j>> \notin DOMAIN d
    BY <1>5
  <2>1. j \in section .. N /\ j # section
    BY <1>4, <1>14
  <2> QED
    BY <1>8, <1>12, <2>1 DEF SameElsewhere
<1> QED
  BY <1>13, <1>15 DEF OwnShaftsInv

\* Ahead of the second run the chokes of a section are open.
LEMMA ClearedIsOpen ==
  ASSUME SeriesTypeOK, TogetherInv, pass = "together", section <= N
  PROVE  /\ Cleared(section) \in UnitSettings
         /\ Cleared(section)["speed"] = CommonSpeed
         /\ \A k \in {"up", "down"} : Cleared(section)[k] = Default[k]
<1>1. series \in Series /\ N \in Nat /\ section \in 1 .. N /\ section \in Nat \ {0}
  BY NextSection
<1>2. N > 0
  BY <1>1
<1>3. CommonSpeed \in Int /\ Unthrottled(setting[section], section)
  BY <1>1, <1>2 DEF TogetherInv
<1>4. Default["up"] = 0 /\ Default["down"] = 0
  BY DEF Default
<1>5. ASSUME NEW k \in Kinds
      PROVE  Cleared(section)[k] = IF k = "speed" THEN CommonSpeed
                                   ELSE IF k \in ControlledBy(Section(section)) THEN 0 ELSE setting[section][k]
  BY DefaultIsASetting DEF Cleared
<1>6. \A k \in Kinds : setting[section][k] \in Int
  BY <1>3, KindsOfASetting DEF Unthrottled
<1>7. \A k \in Kinds : Cleared(section)[k] \in Int
  BY <1>3, <1>5, <1>6
<1>8. Cleared(section) = [k \in Kinds |-> Cleared(section)[k]]
  BY DefaultIsASetting DEF Cleared
<1>9. Cleared(section) \in UnitSettings
  BY <1>7, <1>8 DEF UnitSettings, Kinds
<1>10. \A k \in {"up", "down"} : Cleared(section)[k] = Default[k]
  BY <1>3, <1>4, <1>5 DEF Unthrottled, Kinds
<1> QED
  BY <1>5, <1>9, <1>10 DEF Kinds

\* The next section runs, and if nothing failed it delivers under the configuration.
LEMMA TogetherNext ==
  ASSUME ReportedInv, SuccessInv, pass = "together", section <= N,
         UNCHANGED <<series, speeds>>,
         NEW s, CanRun(Section(section), s, inlet), Proceed(section, s),
         solution'.failure = NoFailure =>
           /\ s \in UnitSettings
           /\ solution.failure = NoFailure
           /\ SameElsewhere(solution.configuration, solution'.configuration, section)
           /\ Applied(section, Default, solution'.configuration) = s
           /\ Delivered(Section(section), s, OutletOf(Section(section), s, inlet), Target(section))
  PROVE  SuccessInv'
<1>1. /\ SeriesTypeOK /\ series' = series /\ series \in Series /\ N \in Nat /\ section \in 1 .. N
      /\ section \in Nat \ {0} /\ N' = N
  BY NextSection, SameSeries DEF ReportedInv
<1>2. /\ section' = section + 1 /\ pass' = "together" /\ setting' = [setting EXCEPT ![section] = s]
  BY ProceedFeeds
<1>3. CommonSpeed' = CommonSpeed
  BY DEF CommonSpeed
<1>4. /\ N > 0 => CommonSpeed \in Int
      /\ DOMAIN setting = 1 .. N
      /\ \A i \in section .. N : Unthrottled(setting[i], i)
      /\ solution.failure = NoFailure =>
           DeliversSoFar /\ \A j \in section .. N : OnlySpeedIsSet(solution.configuration, j)
  BY DEF SuccessInv, TogetherInv
<1>5. (N > 0 => CommonSpeed \in Int)'
  BY <1>1, <1>3, <1>4
<1>6. DOMAIN setting' = 1 .. N'
  BY <1>1, <1>2, <1>4
<1>7. \A i \in section' .. N' : Unthrottled(setting[i], i)'
  <2>1. \A i \in section + 1 .. N : setting'[i] = setting[i] /\ Unthrottled(setting[i], i)
    BY <1>1, <1>2, <1>4
  <2>2. \A i \in section' .. N' : Unthrottled(setting'[i], i)
    BY <1>1, <1>2, <2>1
  <2> QED
    BY <1>1, <2>2, SameSeries
<1>8. ASSUME solution'.failure = NoFailure
      PROVE  DeliversSoFar' /\ \A j \in section' .. N' : OnlySpeedIsSet(solution.configuration, j)'
  <2>1. DeliversSoFar'
    BY <1>1, <1>4, <1>8, DeliversNext
  <2>2. ASSUME NEW j \in section + 1 .. N PROVE OnlySpeedIsSet(solution'.configuration, j)
    <3>1. OnlySpeedIsSet(solution.configuration, j) /\ j # section
      BY <1>1, <1>4, <1>8
    <3>2. SameElsewhere(solution.configuration, solution'.configuration, section)
      BY <1>8
    <3>3. "speed" \in Kinds
      BY DEF Kinds
    <3> QED
      BY <3>1, <3>2, <3>3 DEF OnlySpeedIsSet, SameElsewhere
  <2>3. \A j \in section' .. N' : OnlySpeedIsSet(solution'.configuration, j)
    BY <1>1, <1>2, <2>2
  <2> QED
    BY <1>3, <2>1, <2>3 DEF OnlySpeedIsSet
<1> QED
  BY <1>2, <1>5, <1>6, <1>7, <1>8 DEF SuccessInv, SolvingInv, TogetherInv, OwnShaftsInv, DoneInv

\* A section that neither exceeds nor misses its target meets it.
LEMMA NeitherAboveNorBelow ==
  ASSUME NEW p \in Int, NEW target \in Int, ~ Exceeds(p, target), ~ Misses(p, target)
  PROVE  Meets(p, target)
BY SeriesAssumption DEF Exceeds, Misses, Meets

LEMMA RunTogetherSucceeds ==
  ASSUME ReportedInv, SuccessInv, RunTogether PROVE SuccessInv'
<1> DEFINE sec == Section(section)
           surge == AntiSurge(sec, Cleared(section), inlet)
           loops == Entries(section, surge.setting, {"loop"})
           safe == Combine(solution, loops, FailureOf(section, surge.failure))
           outlet == OutletOf(sec, surge.setting, inlet)
<1>1. /\ pass = "together" /\ section <= N /\ series' = series /\ speeds' = speeds
  BY DEF RunTogether
<1>2. \/ ~ CanRun(sec, surge.setting, inlet) /\ Proceed(section, surge.setting)
      \/ /\ CanRun(sec, surge.setting, inlet)
         /\ \E c \in PressureControl(sec, surge.setting, inlet, Target(section)) :
              /\ solution' = Combine(safe, Entries(section, c.setting, ControlledBy(sec)),
                                     FailureOf(section, c.failure))
              /\ Proceed(section, c.setting)
      \/ /\ CanRun(sec, surge.setting, inlet)
         /\ \/ solution' = WithFailure(safe, FailureOf(section, "below"))
            \/ ~ Exceeds(outlet, Target(section)) /\ ~ Misses(outlet, Target(section)) /\ solution' = safe
         /\ Proceed(section, surge.setting)
  BY DEF RunTogether, WithFailure
<1>3. /\ SeriesTypeOK /\ series \in Series /\ N \in Nat /\ section \in 1 .. N
      /\ sec.control \in {COMMON_ASV, UPSTREAM_CHOKE, DOWNSTREAM_CHOKE}
      /\ IsSolution(solution)
  BY <1>1, NextSection DEF ReportedInv, SeriesTypeOK
<1>4. sec.surge \in Int /\ Rate \in Int /\ Target(section) \in Int
  <2>1. sec \in SectionType /\ Rate \in Int /\ Target(section) \in Int
    BY <1>3, SeriesTypes
  <2> QED
    BY <2>1 DEF SectionType
<1>5. /\ Cleared(section) \in UnitSettings
      /\ Cleared(section)["speed"] = CommonSpeed
      /\ \A k \in {"up", "down"} : Cleared(section)[k] = Default[k]
  BY <1>1, <1>3, ClearedIsOpen DEF SuccessInv
<1>6. /\ surge.setting \in UnitSettings
      /\ surge.setting["speed"] = CommonSpeed
      /\ \A k \in {"up", "down"} : surge.setting[k] = Default[k]
  <2>1. surge.setting \in UnitSettings /\ \A k \in Kinds \ {"loop"} : surge.setting[k] = Cleared(section)[k]
    BY <1>4, <1>5, AntiSurgeSets
  <2> HIDE DEF surge
  <2> QED
    BY <1>5, <2>1 DEF Kinds
<1>7. /\ IsSolution(safe)
      /\ safe.failure = NoFailure => /\ solution.failure = NoFailure
                                     /\ safe.configuration = Merge(solution.configuration, loops)
  BY <1>3, CombineSolution
<1> DEFINE c0 == solution.configuration
           c1 == Merge(c0, loops)
<1>8. solution.failure = NoFailure => DeliversSoFar /\ OnlySpeedIsSet(c0, section)
  BY <1>1, <1>3 DEF SuccessInv, TogetherInv
\* What the anti-surge strategy has put in the configuration.
<1>9. solution.failure = NoFailure =>
        /\ SameElsewhere(c0, c1, section)
        /\ \A k \in Kinds :
             (IF <<k, section>> \in DOMAIN c1 THEN c1[<<k, section>>] ELSE Default[k]) = surge.setting[k]
  <2> SUFFICES ASSUME solution.failure = NoFailure
               PROVE  /\ SameElsewhere(c0, c1, section)
                      /\ \A k \in Kinds :
                           (IF <<k, section>> \in DOMAIN c1 THEN c1[<<k, section>>] ELSE Default[k]) = surge.setting[k]
    OBVIOUS
  <2> HIDE DEF c0, surge
  <2>1. SameElsewhere(c0, c1, section)
    BY MergeIsLocal
  <2>2. ASSUME NEW k \in Kinds
        PROVE  (IF <<k, section>> \in DOMAIN c1 THEN c1[<<k, section>>] ELSE Default[k]) = surge.setting[k]
    <3>1. /\ <<k, section>> \in DOMAIN c1 <=> k = "loop" \/ <<k, section>> \in DOMAIN c0
          /\ k = "loop" => c1[<<k, section>>] = surge.setting[k]
          /\ k # "loop" => (<<k, section>> \in DOMAIN c0 => c1[<<k, section>>] = c0[<<k, section>>])
      <4>1. LET m == Merge(c0, Entries(section, surge.setting, {"loop"}))
            IN  /\ <<k, section>> \in DOMAIN m <=> k \in {"loop"} \/ <<k, section>> \in DOMAIN c0
                /\ k \in {"loop"} => m[<<k, section>>] = surge.setting[k]
                /\ k \notin {"loop"} => (<<k, section>> \in DOMAIN c0 => m[<<k, section>>] = c0[<<k, section>>])
        BY MergedHere
      <4> QED
        BY <4>1
    <3> HIDE DEF c1
    <3>2. <<k, section>> \in DOMAIN c0 <=> k = "speed"
      BY <1>8 DEF OnlySpeedIsSet
    <3>3. c0[<<"speed", section>>] = CommonSpeed
      BY <1>8 DEF OnlySpeedIsSet
    <3>4. k \in {"speed", "loop", "up", "down"}
      BY DEF Kinds
    <3> QED
      BY <1>6, <3>1, <3>2, <3>3, <3>4
  <2> QED
    BY <2>1, <2>2
<1>10. CASE ~ CanRun(sec, surge.setting, inlet) /\ Proceed(section, surge.setting)
  <2>1. pass' = "raised"
    BY <1>10 DEF Proceed
  <2> QED
    BY <2>1 DEF SuccessInv, SolvingInv, TogetherInv, OwnShaftsInv, DoneInv
<1>11. ASSUME NEW c \in PressureControl(sec, surge.setting, inlet, Target(section)),
              CanRun(sec, surge.setting, inlet),
              solution' = Combine(safe, Entries(section, c.setting, ControlledBy(sec)),
                                  FailureOf(section, c.failure)),
              Proceed(section, c.setting)
       PROVE  SuccessInv'
  <2>1. CASE c.failure = None
    <3>1. sec \in SectionType
      BY <1>3, SeriesTypes
    <3>2. /\ c.setting \in UnitSettings /\ \A k \in Kinds \ ControlledBy(sec) : c.setting[k] = surge.setting[k]
          /\ Delivered(sec, c.setting, OutletOf(sec, c.setting, inlet), Target(section))
      <4> HIDE DEF sec, surge
      <4> QED
        BY <1>4, <1>6, <1>11, <2>1, <3>1, PressureControlSound
    <3> DEFINE c2 == Merge(c1, Entries(section, c.setting, ControlledBy(sec)))
    <3>3. ASSUME solution'.failure = NoFailure
          PROVE  /\ solution.failure = NoFailure
                 /\ solution'.configuration = c2
                 /\ SameElsewhere(c0, c2, section)
                 /\ Applied(section, Default, c2) = c.setting
      <4>1. safe.failure = NoFailure /\ solution'.configuration = Merge(safe.configuration, Entries(section, c.setting, ControlledBy(sec)))
        <5> HIDE DEF safe
        <5> QED
          BY <1>7, <1>11, <3>3, CombineSolution
      <4>2. solution.failure = NoFailure /\ solution'.configuration = c2
        BY <1>7, <4>1
      <4> HIDE DEF c0, c1, surge, safe
      <4>3. SameElsewhere(c0, c2, section)
        BY <1>9, <4>2, MergeIsLocal, LocalTwice
      <4>4. \A k \in Kinds \ ControlledBy(sec) :
              (IF <<k, section>> \in DOMAIN c1 THEN c1[<<k, section>>] ELSE Default[k]) = c.setting[k]
        BY <1>9, <3>2, <4>2
      <4>5. Applied(section, Default, c2) = c.setting
        BY <3>2, <4>4, AppliedAfterMerge
      <4> QED
        BY <4>2, <4>3, <4>5
    <3>4. solution'.failure = NoFailure =>
            /\ c.setting \in UnitSettings
            /\ solution.failure = NoFailure
            /\ SameElsewhere(solution.configuration, solution'.configuration, section)
            /\ Applied(section, Default, solution'.configuration) = c.setting
            /\ Delivered(Section(section), c.setting, OutletOf(Section(section), c.setting, inlet), Target(section))
      <4> HIDE DEF c2
      <4> QED
        BY <3>2, <3>3
    <3>5. CASE CanRun(Section(section), c.setting, inlet)
      <4> HIDE DEF c2, surge, safe
      <4> QED
        BY <1>1, <1>11, <3>4, <3>5, TogetherNext
    <3>6. CASE ~ CanRun(Section(section), c.setting, inlet)
      BY <1>11, <3>6, RaisedSucceeds DEF Proceed
    <3> QED
      BY <3>5, <3>6
  <2>2. CASE c.failure # None
    <3>1. solution'.failure # NoFailure
      <4>1. FailureOf(section, c.failure) # NoFailure
        BY <2>2, FailureIsNotNone
      <4> HIDE DEF safe
      <4> QED
        BY <1>7, <1>11, <4>1, CombineSolution
    <3>2. CASE CanRun(Section(section), c.setting, inlet)
      BY <1>1, <1>11, <3>1, <3>2, TogetherNext
    <3>3. CASE ~ CanRun(Section(section), c.setting, inlet)
      <4>1. pass' = "raised"
        BY <1>11, <3>3 DEF Proceed
      <4> QED
        BY <4>1 DEF SuccessInv, SolvingInv, TogetherInv, OwnShaftsInv, DoneInv
    <3> QED
      BY <3>2, <3>3
  <2> QED
    BY <2>1, <2>2
<1>12. ASSUME CanRun(sec, surge.setting, inlet),
              \/ solution' = WithFailure(safe, FailureOf(section, "below"))
              \/ ~ Exceeds(outlet, Target(section)) /\ ~ Misses(outlet, Target(section)) /\ solution' = safe,
              Proceed(section, surge.setting)
       PROVE  SuccessInv'
  <2>1. ASSUME solution'.failure = NoFailure
        PROVE  /\ surge.setting \in UnitSettings
               /\ solution.failure = NoFailure
               /\ SameElsewhere(solution.configuration, solution'.configuration, section)
               /\ Applied(section, Default, solution'.configuration) = surge.setting
               /\ Delivered(Section(section), surge.setting, OutletOf(Section(section), surge.setting, inlet),
                            Target(section))
    <3>1. solution' # WithFailure(safe, FailureOf(section, "below"))
      <4>1. FailureOf(section, "below") # NoFailure
        BY FailureIsNotNone DEF None
      <4>2. WithFailure(safe, FailureOf(section, "below")).failure = FailureOf(section, "below")
        BY <1>7, FailureReplaced
      <4> HIDE DEF safe
      <4> QED
        BY <2>1, <4>1, <4>2
    <3>2. ~ Exceeds(outlet, Target(section)) /\ ~ Misses(outlet, Target(section)) /\ solution' = safe
      BY <1>12, <3>1
    <3>3. solution.failure = NoFailure /\ solution'.configuration = c1
      BY <1>7, <2>1, <3>2
    <3>4. SameElsewhere(c0, c1, section)
      BY <1>9, <3>3
    <3>5. Applied(section, Default, c1) = surge.setting
      <4>1. \A k \in Kinds \ {"loop"} :
              (IF <<k, section>> \in DOMAIN c0 THEN c0[<<k, section>>] ELSE Default[k]) = surge.setting[k]
        <5>1. OnlySpeedIsSet(c0, section)
          BY <1>8, <3>3
        <5> HIDE DEF c0, surge
        <5> QED
          BY <1>6, <5>1 DEF OnlySpeedIsSet, Kinds
      <4> HIDE DEF surge, c0
      <4> QED
        BY <1>6, <4>1, AppliedAfterMerge
    <3>6. inlet \in Int
      <4>1. PICK outlets : Delivers(solution.configuration, section - 1, outlets) /\ outlets[section - 1] = inlet
        BY <1>8, <3>3 DEF DeliversSoFar
      <4>2. outlets \in [0 .. section - 1 -> Int] /\ section - 1 \in 0 .. section - 1
        BY <1>3, <4>1 DEF Delivers
      <4> QED
        BY <4>1, <4>2
    <3>7. outlet \in Int
      BY <1>3, <1>6, <3>6, OutletType
    <3>8. Meets(outlet, Target(section))
      <4> HIDE DEF outlet
      <4> QED
        BY <1>4, <3>2, <3>7, NeitherAboveNorBelow
    <3>9. Delivered(sec, surge.setting, outlet, Target(section))
      BY <3>8 DEF Delivered
    <3> HIDE DEF c1, surge
    <3> QED
      BY <1>6, <3>3, <3>4, <3>5, <3>9
  <2> HIDE DEF surge, safe
  <2> QED
    BY <1>1, <1>12, <2>1, TogetherNext
<1> HIDE DEF surge, safe, outlet, sec
<1> QED
  BY <1>2, <1>10, <1>11, <1>12

LEMMA FinishSucceeds ==
  ASSUME ReportedInv, SuccessInv, Finish PROVE SuccessInv'
<1>1. /\ series' = series /\ section = N + 1 /\ solution' = solution /\ pass' = "done"
      /\ pass = IF series.job = SAME_SHAFT THEN "together" ELSE "solve"
  BY DEF Finish
<1>2. series \in Series
  BY DEF ReportedInv, SeriesTypeOK
<1>3. N \in Nat /\ series.job \in {SAME_SHAFT, OWN_SHAFTS}
  BY <1>2, SeriesTypes
<1> SUFFICES ASSUME solution.failure = NoFailure
             PROVE  \E outlets : Delivers(solution.configuration, N, outlets)'
  BY <1>1 DEF SuccessInv, SolvingInv, TogetherInv, OwnShaftsInv, DoneInv
<1>4. DeliversSoFar
  BY <1>1, <1>3 DEF SuccessInv, TogetherInv, OwnShaftsInv
<1>5. section - 1 = N
  BY <1>1, <1>3
<1>6. PICK outlets : Delivers(solution.configuration, N, outlets)
  BY <1>4, <1>5 DEF DeliversSoFar
<1>7. Delivers(solution'.configuration, N', outlets)
  BY <1>1, <1>6, SameSeries
<1> QED
  BY <1>1, <1>7, SameSeries

LEMMA StutterSucceeds ==
  ASSUME SuccessInv, UNCHANGED seriesVars PROVE SuccessInv'
<1>1. /\ series' = series /\ pass' = pass /\ section' = section /\ inlet' = inlet /\ setting' = setting
      /\ speeds' = speeds /\ solution' = solution
  BY DEF seriesVars
<1>2. N' = N /\ CommonSpeed' = CommonSpeed
  BY <1>1 DEF N, CommonSpeed
<1>3. DeliversSoFar' <=> DeliversSoFar
  BY <1>1, SameSeries DEF DeliversSoFar
<1>4. \A i : Unthrottled(setting[i], i)' <=> Unthrottled(setting[i], i)
  BY <1>1, SameSeries
<1>5. \A j : OnlySpeedIsSet(solution.configuration, j)' <=> OnlySpeedIsSet(solution.configuration, j)
  BY <1>1, <1>2 DEF OnlySpeedIsSet
<1>6. SolvingInv'
  BY <1>1, <1>2, <1>4 DEF SuccessInv, SolvingInv
<1>7. TogetherInv'
  BY <1>1, <1>2, <1>3, <1>4, <1>5 DEF SuccessInv, TogetherInv
<1>8. OwnShaftsInv'
  BY <1>1, <1>2, <1>3 DEF SuccessInv, OwnShaftsInv
<1>9. DoneInv'
  BY <1>1, <1>2, SameSeries DEF SuccessInv, DoneInv
<1> QED
  BY <1>6, <1>7, <1>8, <1>9 DEF SuccessInv

\* Every step of a call keeps it.
LEMMA SeriesSucceeds ==
  ASSUME ReportedInv, SuccessInv, [NextSeries]_seriesVars PROVE SuccessInv'
BY SolveForSpeedSucceeds, StartTogetherSucceeds, RunTogetherSucceeds, SolveOwnShaftSucceeds, FinishSucceeds,
   StutterSucceeds, RaisedSucceeds DEF NextSeries, Escape

(***************************************************************************)
(* The rate search.                                                         *)
(***************************************************************************)
LEMMA HalvingsDouble ==
  /\ Halvings[0] = 1
  /\ \A n \in 1 .. MaxIterations : Halvings[n] = 2 * Halvings[n - 1]
  /\ \A n \in 0 .. MaxIterations : Halvings[n] \in Nat \ {0}
<1> DEFINE Body(f) == [n \in 0 .. MaxIterations |-> IF n = 0 THEN 1 ELSE 2 * f[n - 1]]
           R == Nat \ {0}
           G == [x \in R \X (1 .. MaxIterations) |-> 2 * x[1]]
<1>1. MaxIterations \in Nat
  BY DistributionsAssumption
<1>2. G \in [R \X (1 .. MaxIterations) -> R] /\ 1 \in R
  OBVIOUS
<1>3. PICK f : Iterates(f, R, MaxIterations, 1, G)
  <2> HIDE DEF R, G
  <2> QED
    BY <1>1, <1>2, Recursion
<1>4. f \in [0 .. MaxIterations -> R] /\ f[0] = 1
  BY <1>3 DEF Iterates
<1>5. \A n \in 1 .. MaxIterations : f[n] = 2 * f[n - 1]
  <2> SUFFICES ASSUME NEW n \in 1 .. MaxIterations PROVE f[n] = 2 * f[n - 1]
    OBVIOUS
  <2>1. f[n - 1] \in R
    <3>1. n - 1 \in 0 .. MaxIterations
      BY <1>1
    <3> QED
      BY <1>4, <3>1
  <2>2. f[n] = G[<<f[n - 1], n>>]
    <3> HIDE DEF G, R
    <3> QED
      BY <1>3 DEF Iterates
  <2> QED
    BY <2>1, <2>2
<1>6. f = Body(f)
  BY <1>1, <1>4, <1>5
<1>7. Halvings = CHOOSE g : g = Body(g)
  BY DEF Halvings
<1>8. Halvings = Body(Halvings)
  <2> HIDE DEF Body
  <2> QED
    BY <1>6, <1>7
<1>9. /\ Halvings[0] = 1
      /\ \A n \in 1 .. MaxIterations : Halvings[n] = 2 * Halvings[n - 1]
  BY <1>1, <1>8
<1> DEFINE S == {n \in Nat : n <= MaxIterations => Halvings[n] \in R}
<1>10. 0 \in S
  BY <1>9
<1>11. ASSUME NEW n \in Nat, n \in S PROVE n + 1 \in S
  <2> SUFFICES ASSUME n + 1 <= MaxIterations PROVE Halvings[n + 1] \in R
    OBVIOUS
  <2>1. n + 1 \in 1 .. MaxIterations /\ (n + 1) - 1 = n /\ Halvings[n] \in R
    BY <1>1, <1>11
  <2>2. Halvings[n + 1] = 2 * Halvings[n]
    BY <1>9, <2>1
  <2> QED
    BY <2>1, <2>2
<1>12. \A n \in Nat : n \in S
  <2> HIDE DEF S
  <2> QED
    BY <1>10, <1>11, FromZero
<1> QED
  BY <1>1, <1>9, <1>12

Bracket(low, high, rate, over) == [low |-> low, high |-> high, probe |-> rate, over |-> over]

Brackets == [low : Nat, high : Nat, probe : Nat, over : BOOLEAN]

Halved(train, last) ==
  LET middle == (last.low + last.high) \div 2
      next == IF IsFeasible(train, middle) THEN [last EXCEPT !.low = middle]
              ELSE [last EXCEPT !.high = middle]
  IN  IF last.over THEN last
      ELSE [next EXCEPT !.probe = middle, !.over = RelativelyClose(next.low, next.high)]

\* What one halving does.
LEMMA HalvedOnce ==
  ASSUME NEW train, NEW last \in Brackets, ~ last.over
  PROVE  LET middle == (last.low + last.high) \div 2
             low  == IF IsFeasible(train, middle) THEN middle ELSE last.low
             high == IF IsFeasible(train, middle) THEN last.high ELSE middle
         IN  Halved(train, last) = Bracket(low, high, middle, RelativelyClose(low, high))
<1> DEFINE middle == (last.low + last.high) \div 2
<1>1. CASE IsFeasible(train, middle)
  BY <1>1 DEF Halved, Brackets, Bracket
<1>2. CASE ~ IsFeasible(train, middle)
  BY <1>2 DEF Halved, Brackets, Bracket
<1> QED
  BY <1>1, <1>2

LEMMA HalvedTypes ==
  ASSUME NEW train, NEW last \in Brackets PROVE Halved(train, last) \in Brackets
<1>1. CASE last.over
  BY <1>1 DEF Halved
<1>2. CASE ~ last.over
  <2> DEFINE middle == (last.low + last.high) \div 2
             low  == IF IsFeasible(train, middle) THEN middle ELSE last.low
             high == IF IsFeasible(train, middle) THEN last.high ELSE middle
  <2>1. middle \in Nat /\ last.low \in Nat /\ last.high \in Nat
    BY DEF Brackets
  <2>2. low \in Nat /\ high \in Nat
    BY <2>1
  <2>3. RelativelyClose(low, high) \in BOOLEAN
    BY DEF RelativelyClose
  <2>4. Halved(train, last) = Bracket(low, high, middle, RelativelyClose(low, high))
    BY <1>2, HalvedOnce
  <2> HIDE DEF middle, low, high
  <2> QED
    BY <2>1, <2>2, <2>3, <2>4 DEF Brackets, Bracket
<1> QED
  BY <1>1, <1>2

\* b is the run of the search below upper.
Searched(b, train, upper) ==
  /\ b \in [0 .. MaxIterations -> Brackets]
  /\ b[0] = Bracket(0, upper, 0, FALSE)
  /\ \A n \in 1 .. MaxIterations : b[n] = Halved(train, b[n - 1])

LEMMA SearchSolved ==
  ASSUME NEW train, NEW upper \in Nat
  PROVE  \E b : Searched(b, train, upper) /\ LargestFeasibleRate(train, upper) = b[MaxIterations].probe
<1> DEFINE first == Bracket(0, upper, 0, FALSE)
           Body(f) == [n \in 0 .. MaxIterations |-> IF n = 0 THEN first ELSE Halved(train, f[n - 1])]
           G == [x \in Brackets \X (1 .. MaxIterations) |-> Halved(train, x[1])]
           found == CHOOSE f : f = Body(f)
<1>1. MaxIterations \in Nat
  BY DistributionsAssumption
<1>2. G \in [Brackets \X (1 .. MaxIterations) -> Brackets] /\ first \in Brackets
  <2>1. first \in Brackets
    BY DEF Bracket, Brackets
  <2>2. \A x \in Brackets \X (1 .. MaxIterations) : Halved(train, x[1]) \in Brackets
    BY HalvedTypes
  <2> QED
    BY <2>1, <2>2
<1>3. PICK f : Iterates(f, Brackets, MaxIterations, first, G)
  <2> HIDE DEF first, G
  <2> QED
    BY <1>1, <1>2, Recursion
<1>4. f \in [0 .. MaxIterations -> Brackets] /\ f[0] = first
  BY <1>3 DEF Iterates
<1>5. \A n \in 1 .. MaxIterations : f[n] = Halved(train, f[n - 1])
  <2> SUFFICES ASSUME NEW n \in 1 .. MaxIterations PROVE f[n] = Halved(train, f[n - 1])
    OBVIOUS
  <2>1. f[n - 1] \in Brackets
    <3>1. n - 1 \in 0 .. MaxIterations
      BY <1>1
    <3> QED
      BY <1>4, <3>1
  <2>2. f[n] = G[<<f[n - 1], n>>]
    <3> HIDE DEF G
    <3> QED
      BY <1>3 DEF Iterates
  <2> QED
    BY <2>1, <2>2
<1>6. f = Body(f)
  <2> HIDE DEF first
  <2> QED
    BY <1>1, <1>4, <1>5
<1>7. found = Body(found)
  <2> HIDE DEF Body
  <2> QED
    BY <1>6
<1>8. LargestFeasibleRate(train, upper) = found[MaxIterations].probe
  BY DEF LargestFeasibleRate, Halved, Bracket
<1>9. found[0] = first /\ \A n \in 1 .. MaxIterations : found[n] = Halved(train, found[n - 1])
  <2> HIDE DEF found, first
  <2> QED
    BY <1>1, <1>7
<1>10. found \in [0 .. MaxIterations -> Brackets]
  <2> DEFINE S == {n \in Nat : n <= MaxIterations => found[n] \in Brackets}
  <2>1. 0 \in S
    <3> HIDE DEF found, first
    <3> QED
      BY <1>2, <1>9
  <2>2. ASSUME NEW n \in Nat, n \in S PROVE n + 1 \in S
    <3> HIDE DEF found, first
    <3> SUFFICES ASSUME n + 1 <= MaxIterations PROVE found[n + 1] \in Brackets
      OBVIOUS
    <3>1. n + 1 \in 1 .. MaxIterations /\ (n + 1) - 1 = n /\ found[n] \in Brackets
      BY <1>1, <2>2
    <3>2. found[n + 1] = Halved(train, found[n])
      BY <1>9, <3>1
    <3> QED
      BY <3>1, <3>2, HalvedTypes
  <2>3. \A n \in Nat : n \in S
    <3> HIDE DEF S
    <3> QED
      BY <2>1, <2>2, FromZero
  <2>4. \A n \in 0 .. MaxIterations : found[n] \in Brackets
    <3>1. \A n \in 0 .. MaxIterations : n \in Nat /\ n <= MaxIterations
      BY <1>1
    <3> HIDE DEF found
    <3> QED
      BY <2>3, <3>1
  <2>5. found = [n \in 0 .. MaxIterations |-> found[n]]
    <3> HIDE DEF found, first
    <3> QED
      BY <1>7
  <2> HIDE DEF found
  <2> QED
    BY <2>4, <2>5
<1> HIDE DEF found
<1> QED
  BY <1>8, <1>9, <1>10 DEF Searched

\* The search stays between 0 and the rate it starts from.
LEMMA SearchIsBetween ==
  ASSUME NEW train, NEW upper \in Nat
  PROVE  LargestFeasibleRate(train, upper) \in 0 .. upper
<1>1. PICK b : Searched(b, train, upper) /\ LargestFeasibleRate(train, upper) = b[MaxIterations].probe
  BY SearchSolved
<1> DEFINE WithinRange(last) == /\ last \in Brackets /\ last.low <= last.high
                            /\ last.high <= upper /\ last.probe <= upper
           S == {n \in Nat : n <= MaxIterations => WithinRange(b[n])}
<1>2. MaxIterations \in Nat
  BY DistributionsAssumption
<1>3. 0 \in S
  <2>1. b[0] = Bracket(0, upper, 0, FALSE)
    BY <1>1 DEF Searched
  <2>2. WithinRange(Bracket(0, upper, 0, FALSE))
    BY DEF Bracket, Brackets
  <2> QED
    BY <2>1, <2>2
<1>4. ASSUME NEW n \in Nat, n \in S PROVE n + 1 \in S
  <2> SUFFICES ASSUME n + 1 <= MaxIterations PROVE WithinRange(b[n + 1])
    OBVIOUS
  <2>1. n + 1 \in 1 .. MaxIterations /\ (n + 1) - 1 = n /\ WithinRange(b[n])
    BY <1>2, <1>4
  <2>2. b[n + 1] = Halved(train, b[n])
    BY <1>1, <2>1 DEF Searched
  <2> DEFINE last == b[n]
             middle == (last.low + last.high) \div 2
             low  == IF IsFeasible(train, middle) THEN middle ELSE last.low
             high == IF IsFeasible(train, middle) THEN last.high ELSE middle
  <2>3. CASE last.over
    BY <2>1, <2>2, <2>3 DEF Halved
  <2>4. CASE ~ last.over
    <3>1. Halved(train, last) = Bracket(low, high, middle, RelativelyClose(low, high))
      BY <2>1, <2>4, HalvedOnce
    <3>2. last.low \in Nat /\ last.high \in Nat
      BY <2>1 DEF Brackets
    <3>3. middle \in Nat /\ last.low <= middle /\ middle <= last.high
      BY <2>1, <3>2
    <3>4. low \in Nat /\ high \in Nat /\ low <= high /\ high <= upper /\ middle <= upper
      BY <2>1, <3>2, <3>3
    <3>5. Halved(train, last) \in Brackets
      BY <2>1, HalvedTypes
    <3> HIDE DEF middle, low, high
    <3> QED
      BY <2>2, <3>1, <3>3, <3>4, <3>5 DEF Bracket
  <2> QED
    BY <2>3, <2>4
<1>5. \A n \in Nat : n \in S
  <2> HIDE DEF S
  <2> QED
    BY <1>3, <1>4, FromZero
<1>6. WithinRange(b[MaxIterations])
  BY <1>2, <1>5
<1>7. b[MaxIterations].probe \in Nat
  BY <1>6 DEF Brackets
<1> QED
  BY <1>1, <1>6, <1>7

LEMMA ExcessIsBetween ==
  ASSUME NEW train, NEW rate \in Int
  PROVE  /\ ExcessRate(train, rate) \in Nat
         /\ ExcessRate(train, rate) > 0 =>
              /\ rate \in Nat /\ ~ IsFeasible(train, rate)
              /\ rate - ExcessRate(train, rate) = LargestFeasibleRate(train, rate)
<1>1. CASE rate <= 0 \/ IsFeasible(train, rate)
  BY <1>1 DEF ExcessRate
<1>2. CASE ~ (rate <= 0 \/ IsFeasible(train, rate))
  <2>1. rate \in Nat
    BY <1>2
  <2>2. LargestFeasibleRate(train, rate) \in 0 .. rate
    BY <2>1, SearchIsBetween
  <2> DEFINE found == LargestFeasibleRate(train, rate)
  <2>3. ExcessRate(train, rate) = IF 0 < rate - found THEN rate - found ELSE 0
    BY <1>2 DEF ExcessRate, Larger
  <2> HIDE DEF found
  <2>4. found \in 0 .. rate
    BY <2>2 DEF found
  <2>5. ExcessRate(train, rate) = rate - found
    BY <2>1, <2>3, <2>4
  <2> QED
    BY <1>2, <2>1, <2>4, <2>5 DEF found
<1> QED
  BY <1>1, <1>2

\* Twice the width of the next bracket is at most one more than this width.
LEMMA WidthHalves ==
  ASSUME NEW low \in Nat, NEW high \in Nat, low <= high
  PROVE  LET middle == (low + high) \div 2
         IN  /\ middle \in Nat /\ low <= middle /\ middle <= high
             /\ 2 * (high - middle) <= (high - low) + 1
             /\ 2 * (middle - low) <= (high - low) + 1
OBVIOUS

\* A step of the search under the bound on the width.
LEMMA BoundHalves ==
  ASSUME NEW w \in Nat \ {0}, NEW v \in Nat \ {0}, NEW h \in Nat, NEW upper \in Nat,
         2 * v <= w + 1, (w - 1) * h <= upper
  PROVE  (v - 1) * (2 * h) <= upper
<1>1. PICK x \in Nat : x = w - 1
  OBVIOUS
<1>2. PICK y \in Nat : y = v - 1
  OBVIOUS
<1>3. 2 * y <= x /\ x * h <= upper
  BY <1>1, <1>2
<1>4. PICK d \in Nat : x = 2 * y + d
  <2>1. x - 2 * y \in Nat /\ x = 2 * y + (x - 2 * y)
    BY <1>3
  <2> QED
    BY <2>1
<1>5. x * h = y * (2 * h) + d * h /\ d * h \in Nat /\ y * (2 * h) \in Nat
  BY <1>4
<1> QED
  BY <1>2, <1>3, <1>5

\* At every step the limit of a train is in the bracket, the last probe is an end of
\* it, and its width has been halved as often as there were steps.
LEMMA SearchIsClose ==
  ASSUME NEW train, NEW upper \in Nat, NEW limit \in Nat, limit < upper,
         \A rate \in Nat : IsFeasible(train, rate) <=> rate <= limit
  PROVE  LET tolerance == Larger(upper, UnitRate) \div Precision + 1
         IN  LargestFeasibleRate(train, upper) - limit \in -tolerance .. tolerance
<1>1. PICK b : Searched(b, train, upper) /\ LargestFeasibleRate(train, upper) = b[MaxIterations].probe
  BY SearchSolved
<1> DEFINE Around(last) == /\ last \in Brackets
                           /\ last.low <= limit /\ limit < last.high /\ last.high <= upper
                           /\ last.probe \in {last.low, last.high}
                           /\ last.over => RelativelyClose(last.low, last.high)
           Narrow(last, n) == ~ last.over => (last.high - last.low - 1) * Halvings[n] <= upper
           S == {n \in Nat : n <= MaxIterations => Around(b[n]) /\ Narrow(b[n], n)}
<1>2. MaxIterations \in Nat /\ Precision \in Nat \ {0} /\ UnitRate \in Nat
      /\ Precision <= Halvings[MaxIterations]
  BY DistributionsAssumption
<1>3. 0 \in S
  <2>1. b[0] = Bracket(0, upper, 0, FALSE)
    BY <1>1 DEF Searched
  <2>2. Around(Bracket(0, upper, 0, FALSE))
    BY DEF Bracket, Brackets
  <2>3. Narrow(Bracket(0, upper, 0, FALSE), 0)
    BY HalvingsDouble DEF Bracket
  <2> HIDE DEF Around, Narrow
  <2> QED
    BY <2>1, <2>2, <2>3
<1>4. ASSUME NEW n \in Nat, n \in S PROVE n + 1 \in S
  <2> SUFFICES ASSUME n + 1 <= MaxIterations PROVE Around(b[n + 1]) /\ Narrow(b[n + 1], n + 1)
    OBVIOUS
  <2>1. n + 1 \in 1 .. MaxIterations /\ (n + 1) - 1 = n /\ n \in 0 .. MaxIterations
    BY <1>2
  <2>2. Around(b[n]) /\ Narrow(b[n], n)
    BY <1>2, <1>4
  <2>3. b[n + 1] = Halved(train, b[n])
    BY <1>1, <2>1 DEF Searched
  <2> DEFINE last == b[n]
             middle == (last.low + last.high) \div 2
             low  == IF IsFeasible(train, middle) THEN middle ELSE last.low
             high == IF IsFeasible(train, middle) THEN last.high ELSE middle
  <2>4. CASE last.over
    <3>1. b[n + 1] = last
      BY <2>3, <2>4 DEF Halved
    <3> QED
      BY <2>2, <2>4, <3>1
  <2>5. CASE ~ last.over
    <3>1. Halved(train, last) = Bracket(low, high, middle, RelativelyClose(low, high))
      BY <2>2, <2>5, HalvedOnce
    <3>2. last.low \in Nat /\ last.high \in Nat /\ last.low <= limit /\ limit < last.high
          /\ last.high <= upper
      BY <2>2 DEF Brackets
    <3>3. /\ middle \in Nat /\ last.low <= middle /\ middle <= last.high
          /\ 2 * (last.high - middle) <= (last.high - last.low) + 1
          /\ 2 * (middle - last.low) <= (last.high - last.low) + 1
      BY <3>2, WidthHalves
    <3>4. /\ low \in Nat /\ high \in Nat
          /\ low <= limit /\ limit < high /\ high <= upper
          /\ middle \in {low, high}
          /\ 2 * (high - low) <= (last.high - last.low) + 1
      <4> HIDE DEF middle
      <4> QED
        BY <3>2, <3>3
    <3>5. Halved(train, last) \in Brackets
      BY <2>2, HalvedTypes
    <3> DEFINE w == last.high - last.low
               v == high - low
               h == Halvings[n]
    <3>6. (v - 1) * (2 * h) <= upper
      <4>1. w \in Nat \ {0}
        BY <3>2
      <4>2. v \in Nat \ {0} /\ 2 * v <= w + 1
        <5> HIDE DEF low, high, last
        <5> QED
          BY <3>4
      <4>3. h \in Nat
        BY <2>1, HalvingsDouble
      <4>4. (w - 1) * h <= upper
        BY <2>2, <2>5
      <4> HIDE DEF w, v, h
      <4> QED
        BY <4>1, <4>2, <4>3, <4>4, BoundHalves
    <3>7. Halvings[n + 1] = 2 * h
      BY <2>1, HalvingsDouble
    <3> DEFINE now == Bracket(low, high, middle, RelativelyClose(low, high))
    <3>8. /\ now.low = low /\ now.high = high /\ now.probe = middle
          /\ now.over = RelativelyClose(low, high)
      BY DEF Bracket
    <3>9. now \in Brackets /\ b[n + 1] = now
      BY <2>3, <3>1, <3>5
    <3> HIDE DEF now, middle, low, high, last, h
    <3>10. Around(now)
      BY <3>4, <3>8, <3>9
    <3>11. Narrow(now, n + 1)
      BY <3>6, <3>7, <3>8
    <3> HIDE DEF Around, Narrow
    <3> QED
      BY <3>9, <3>10, <3>11
  <2> QED
    BY <2>4, <2>5
<1>5. \A n \in Nat : n \in S
  <2> HIDE DEF S
  <2> QED
    BY <1>3, <1>4, FromZero
<1>6. Around(b[MaxIterations]) /\ Narrow(b[MaxIterations], MaxIterations)
  BY <1>2, <1>5
<1> DEFINE last == b[MaxIterations]
           most == Larger(upper, UnitRate)
           width == last.high - last.low
<1>7. /\ last.low \in Nat /\ last.high \in Nat /\ last.low <= limit /\ limit < last.high
      /\ last.high <= upper /\ last.probe \in {last.low, last.high}
  BY <1>6 DEF Brackets
<1>8. most \in Nat /\ upper <= most /\ UnitRate <= most
  BY <1>2 DEF Larger
<1>9. (width - 1) * Precision <= most
  <2>1. CASE last.over
    <3>1. width * Precision < Larger(last.high, UnitRate)
      BY <1>6, <2>1 DEF RelativelyClose
    <3>2. Larger(last.high, UnitRate) <= most /\ Larger(last.high, UnitRate) \in Nat
      <4> HIDE DEF last
      <4> QED
        BY <1>2, <1>7 DEF Larger
    <3> HIDE DEF last, most
    <3>3. width \in Nat
      BY <1>7
    <3> HIDE DEF width
    <3>4. (width - 1) * Precision = width * Precision - Precision /\ width * Precision \in Nat
      BY <1>2, <3>3
    <3> QED
      BY <1>2, <1>8, <3>1, <3>2, <3>4
  <2>2. CASE ~ last.over
    <3> DEFINE h == Halvings[MaxIterations]
    <3>1. (width - 1) * h <= upper
      BY <1>6, <2>2
    <3>2. h \in Nat /\ Precision <= h
      BY <1>2, HalvingsDouble
    <3> HIDE DEF last, most, h
    <3>3. PICK x \in Nat : x = width - 1
      BY <1>7
    <3>4. PICK d \in Nat : h = Precision + d
      <4>1. h - Precision \in Nat /\ h = Precision + (h - Precision)
        BY <1>2, <3>2
      <4> QED
        BY <4>1
    <3> HIDE DEF width
    <3>5. x * h = x * Precision + x * d /\ x * d \in Nat /\ x * Precision \in Nat
      BY <1>2, <3>4
    <3> QED
      BY <1>8, <3>1, <3>3, <3>5
  <2> QED
    BY <2>1, <2>2
<1> HIDE DEF last, most
<1>10. width - 1 <= most \div Precision
  <2>1. PICK x \in Nat : x = width - 1
    BY <1>7
  <2>2. x * Precision <= most
    BY <1>9, <2>1
  <2> HIDE DEF width
  <2>3. x <= most \div Precision
    BY <1>2, <1>8, <2>2
  <2> QED
    BY <2>1, <2>3
<1>11. most \div Precision \in Nat
  BY <1>2, <1>8
<1> DEFINE tolerance == most \div Precision + 1
<1>12. last.probe - limit \in -tolerance .. tolerance
  <2> DEFINE q == most \div Precision
  <2> HIDE DEF q
  <2>1. width - 1 <= q /\ q \in Nat
    BY <1>10, <1>11 DEF q
  <2>2. last.probe - limit \in -(q + 1) .. (q + 1)
    BY <1>7, <2>1
  <2> QED
    BY <2>2 DEF q
<1> QED
  BY <1>1, <1>12 DEF last, most

(***************************************************************************)
(* The trains and the order they are visited in.                            *)
(***************************************************************************)
LEMMA ItemsOfTrains ==
  /\ Len(Trains) \in Nat
  /\ Items = {Trains[i] : i \in 1 .. Len(Trains)}
  /\ IsFiniteSet(Items)
  /\ Cardinality(Items) <= Len(Trains)
<1>1. Trains \in Seq(Items)
  BY DistributionsAssumption
<1>2. Len(Trains) \in Nat /\ DOMAIN Trains = 1 .. Len(Trains) /\ Trains \in [1 .. Len(Trains) -> Items]
  BY <1>1
<1>3. Items = {Trains[i] : i \in 1 .. Len(Trains)}
  BY <1>2 DEF Items, Range
<1> DEFINE n == Len(Trains)
<1>4. Trains \in Surjection(1 .. n, Items)
  BY <1>2, <1>3 DEF Surjection
<1>5. IsFiniteSet(1 .. n) /\ Cardinality(1 .. n) = n
  <2> HIDE DEF n
  <2>1. n \in Nat
    BY <1>2 DEF n
  <2>2. IsFiniteSet(1 .. n) /\ Cardinality(1 .. n) = IF 1 > n THEN 0 ELSE n - 1 + 1
    BY <2>1, FS_Interval
  <2> QED
    BY <2>1, <2>2
<1>6. IsFiniteSet(Items) /\ Cardinality(Items) <= n
  <2> HIDE DEF n
  <2> QED
    BY <1>4, <1>5, FS_Surjection
<1> QED
  BY <1>2, <1>3, <1>6

\* A topological order has every train, once.
LEMMA OrderHasAll ==
  ASSUME NEW order, NEW overflows, IsTopological(order, overflows)
  PROVE  \A t \in Items : \E i \in 1 .. Len(Trains) : order[i] = t
<1> DEFINE n == Len(Trains)
<1>1. order \in Injection(1 .. n, Items)
  BY DEF IsTopological, Injection
<1>2. n \in Nat /\ IsFiniteSet(Items) /\ Cardinality(Items) <= n
  BY ItemsOfTrains
<1> HIDE DEF n
<1>3. IsFiniteSet(1 .. n) /\ Cardinality(1 .. n) = n
  <2>1. IsFiniteSet(1 .. n) /\ Cardinality(1 .. n) = IF 1 > n THEN 0 ELSE n - 1 + 1
    BY <1>2, FS_Interval
  <2> QED
    BY <1>2, <2>1
<1>4. Cardinality(1 .. n) <= Cardinality(Items)
  BY <1>1, <1>2, FS_Injection
<1>5. Cardinality(Items) \in Nat
  BY <1>2, FS_CardinalityType
<1>6. Cardinality(1 .. n) = Cardinality(Items)
  BY <1>2, <1>3, <1>4, <1>5
<1>7. order \in Surjection(1 .. n, Items)
  BY <1>1, <1>2, <1>6, FS_Injection
<1> QED
  BY <1>7 DEF Surjection, n

\* The scenario and the setting that is tried.
Placed ==
  /\ distribution \in Distributions
  /\ tried \in 1 .. Len(distribution.settings)

LEMMA SettingOf ==
  ASSUME Placed
  PROVE  /\ IsSetting(Setting)
         /\ Setting.overflows \in Seq([from : Items, to : Items])
         /\ SortedItems \in [1 .. Len(Trains) -> Items]
         /\ \A i, j \in 1 .. Len(Trains) : SortedItems[i] = SortedItems[j] => i = j
         /\ \A t \in Items : \E i \in 1 .. Len(Trains) : SortedItems[i] = t
         /\ Rates \in [1 .. Len(Trains) -> Nat]
         /\ distribution.handles \in [Items -> SUBSET Nat]
<1>1. /\ distribution.rate \in Nat /\ distribution.handles \in [Items -> SUBSET Nat]
      /\ distribution.settings \in Seq(Range(distribution.settings))
      /\ \A s \in Range(distribution.settings) : IsSetting(s)
      /\ Fractions \in Nat \ {0} /\ Trains \in Seq(Items)
  BY DistributionsAssumption DEF Placed
<1>2. Setting \in Range(distribution.settings)
  <2>1. tried \in DOMAIN distribution.settings
    BY <1>1 DEF Placed
  <2> QED
    BY <2>1 DEF Setting, Range
<1>3. IsSetting(Setting)
  BY <1>1, <1>2
<1>4. Setting.overflows \in Seq([from : Items, to : Items]) /\ Setting.fractions \in [1 .. Len(Trains) -> Nat]
      /\ IsTopological(SortedItems, Setting.overflows)
  BY <1>3 DEF IsSetting, SortedItems
<1>5. \A t \in Items : \E i \in 1 .. Len(Trains) : SortedItems[i] = t
  BY <1>4, OrderHasAll
<1>6. SortedItems \in [1 .. Len(Trains) -> Items]
      /\ \A i, j \in 1 .. Len(Trains) : SortedItems[i] = SortedItems[j] => i = j
  BY <1>4 DEF IsTopological, IsInjective
<1>7. Rates \in [1 .. Len(Trains) -> Nat]
  <2>1. DOMAIN Trains = 1 .. Len(Trains)
    BY <1>1
  <2>2. \A i \in 1 .. Len(Trains) : (distribution.rate * Setting.fractions[i]) \div Fractions \in Nat
    <3> SUFFICES ASSUME NEW i \in 1 .. Len(Trains)
                 PROVE  (distribution.rate * Setting.fractions[i]) \div Fractions \in Nat
      OBVIOUS
    <3>1. PICK f \in Nat : f = Setting.fractions[i]
      BY <1>4
    <3>2. PICK r \in Nat : r = distribution.rate
      BY <1>1
    <3>3. r * f \in Nat
      OBVIOUS
    <3>4. (r * f) \div Fractions \in Nat
      BY <1>1, <3>3
    <3> QED
      BY <3>1, <3>2, <3>4
  <2> QED
    BY <2>1, <2>2 DEF Rates
<1> QED
  BY <1>1, <1>3, <1>4, <1>5, <1>6, <1>7

\* The train that takes an overflow comes later in the order.
LEMMA ReceiverIsLater ==
  ASSUME Placed, NEW p \in 1 .. Len(Trains), OverflowOut(SortedItems[p]) # 0
  PROVE  /\ Receiver(SortedItems[p]) \in Items
         /\ \A i \in 1 .. p : SortedItems[i] # Receiver(SortedItems[p])
<1> DEFINE t == SortedItems[p]
           edges == Setting.overflows
           I == {i \in 1 .. Len(edges) : edges[i].from = t}
           out == OverflowOut(t)
<1>1. edges \in Seq([from : Items, to : Items])
  BY SettingOf
<1>2. out = IF I # {} THEN CHOOSE x \in I : \A y \in I : x <= y ELSE 0
  BY DEF OverflowOut, SelectInSeq, Min
<1>3. I # {}
  BY <1>2
<1>4. I \in SUBSET Nat
  BY <1>1
<1>5. out \in I
  <2>1. \E x \in I : \A y \in I : x <= y
    <3> HIDE DEF I
    <3> QED
      BY <1>3, <1>4, LeastMember
  <2> HIDE DEF I, out
  <2> QED
    BY <1>2, <1>3, <2>1
<1>6. edges[out] \in [from : Items, to : Items] /\ edges[out] \in Range(edges) /\ edges[out].from = t
  <2>1. out \in DOMAIN edges /\ edges[out].from = t
    BY <1>1, <1>5
  <2>2. edges[out] \in Range(edges)
    BY <2>1, Zenon DEF Range
  <2>3. DOMAIN edges = 1 .. Len(edges) /\ \A i \in 1 .. Len(edges) : edges[i] \in [from : Items, to : Items]
    <3> DEFINE R == [from : Items, to : Items]
    <3>1. edges \in Seq(R)
      BY <1>1
    <3> HIDE DEF edges, R
    <3>2. DOMAIN edges = 1 .. Len(edges) /\ \A i \in 1 .. Len(edges) : edges[i] \in R
      BY <3>1
    <3> QED
      BY <3>2 DEF R
  <2> HIDE DEF edges, out
  <2> QED
    BY <2>1, <2>2, <2>3
<1>7. Receiver(t) = edges[out].to /\ Receiver(t) \in Items
  BY <1>6 DEF Receiver
<1>8. IsTopological(SortedItems, edges)
  BY SettingOf DEF IsSetting, SortedItems
<1>9. DOMAIN SortedItems = 1 .. Len(Trains)
  BY SettingOf
<1> HIDE DEF edges, out, I
<1>10. ASSUME NEW i \in 1 .. p, SortedItems[i] = Receiver(t) PROVE FALSE
  <2>1. Len(Trains) \in Nat /\ i \in DOMAIN SortedItems /\ p \in DOMAIN SortedItems
    BY <1>9, ItemsOfTrains
  <2>2. SortedItems[p] = edges[out].from /\ SortedItems[i] = edges[out].to
    BY <1>6, <1>7, <1>10
  <2>3. \A k, l \in DOMAIN SortedItems :
          SortedItems[k] = edges[out].from /\ SortedItems[l] = edges[out].to => k < l
    BY <1>6, <1>8 DEF IsTopological
  <2>4. p < i
    BY <2>1, <2>2, <2>3
  <2> QED
    BY <2>4
<1> QED
  BY <1>7, <1>10

(***************************************************************************)
(* The rates on their way.                                                  *)
(***************************************************************************)
Overflow == [from : Items, rate : Nat]

SumOf(entries) == SumFunction([i \in DOMAIN entries |-> entries[i].rate])

Into(r) == [t \in Items |-> SumOf(r[t])]

LEMMA SumOfInt ==
  ASSUME NEW entries \in Seq(Overflow) PROVE SumOf(entries) \in Int
<1> DEFINE f == [i \in DOMAIN entries |-> entries[i].rate]
           S == DOMAIN entries
<1>1. \A i \in S : entries[i] \in Overflow
  OBVIOUS
<1>2. \A i \in S : f[i] \in Int
  BY <1>1 DEF Overflow
<1>3. IsFiniteSet(S)
  <2>1. S = 1 .. Len(entries) /\ Len(entries) \in Int
    OBVIOUS
  <2> HIDE DEF S
  <2> QED
    BY <2>1, FS_Interval
<1>4. SumOf(entries) = SumFunctionOnSet(f, S)
  BY DEF SumOf, SumFunction
<1> HIDE DEF f, S
<1> QED
  BY <1>2, <1>3, <1>4, SumInt

LEMMA SumOfAppended ==
  ASSUME NEW entries \in Seq(Overflow), NEW e \in Overflow
  PROVE  SumOf(Append(entries, e)) = SumOf(entries) + e.rate
<1> DEFINE f == [i \in DOMAIN entries |-> entries[i].rate]
           more == Append(entries, e)
           g == [i \in DOMAIN more |-> more[i].rate]
           S == DOMAIN entries
           n == Len(entries)
<1>1. /\ n \in Nat /\ S = 1 .. n /\ DOMAIN more = S \cup {n + 1}
      /\ more[n + 1] = e /\ \A i \in S : more[i] = entries[i] /\ entries[i] \in Overflow
  OBVIOUS
<1>2. \A i \in S : f[i] \in Int /\ f[i] = g[i]
  BY <1>1 DEF Overflow
<1>3. g[n + 1] = e.rate /\ e.rate \in Int
  BY <1>1 DEF Overflow
<1>4. SumOf(entries) = SumFunctionOnSet(f, S) /\ SumOf(more) = SumFunctionOnSet(g, S \cup {n + 1})
  <2>1. SumOf(entries) = SumFunctionOnSet(f, S)
    BY DEF SumOf, SumFunction
  <2>2. SumOf(more) = SumFunctionOnSet(g, DOMAIN more)
    BY DEF SumOf, SumFunction
  <2> HIDE DEF f, g, S, more
  <2> QED
    BY <1>1, <2>1, <2>2
<1>5. IsFiniteSet(S) /\ n + 1 \notin S
  <2>1. n + 1 \notin 1 .. n
    BY <1>1
  <2> HIDE DEF S, n
  <2>2. 1 \in Int /\ n \in Int
    BY <1>1
  <2> QED
    BY <1>1, <2>1, <2>2, FS_Interval
<1>6. \A i \in S \cup {n + 1} : g[i] \in Int
  <2> HIDE DEF f, g, S, n
  <2> QED
    BY <1>2, <1>3
<1> HIDE DEF f, g, S, n, more
<1>7. SumFunctionOnSet(g, S \cup {n + 1}) = SumFunctionOnSet(g, S) + g[n + 1]
  BY <1>5, <1>6, SumAdd
<1>8. SumFunctionOnSet(f, S) = SumFunctionOnSet(g, S)
  BY <1>2, <1>5, SumSame
<1> QED
  BY <1>3, <1>4, <1>7, <1>8 DEF more

(***************************************************************************)
(* The invariant.  An entry of the overflow map stands for the train it is  *)
(* from: the rate is the excess of what the train was given, which is what  *)
(* it was left with and the entry together.                                 *)
(***************************************************************************)
Counted ==
  /\ position \in 0 .. Len(Trains)
  /\ received \in [Items -> Seq(Overflow)]
  /\ adjusted \in [Visited -> Int]

\* Entry i of what a train received is all that t sent on, when it kept a rate.
SentBy(t, entries, i, kept) ==
  /\ entries[i].from = t
  /\ \A j \in 1 .. Len(entries) : entries[j].from = t => j = i
  /\ entries[i].rate = ExcessRate(t, kept + entries[i].rate)

SentOn ==
  /\ \A t \in Items : \A i \in 1 .. Len(received[t]) : received[t][i].from \in Visited
  /\ \A t \in Visited :
       OverflowOut(t) # 0 =>
         /\ Receiver(t) \in Items
         /\ \E i \in 1 .. Len(received[Receiver(t)]) : SentBy(t, received[Receiver(t)], i, adjusted[t])

DistributionInv == Placed /\ Counted /\ NothingIsLost /\ SentOn

\* What depends on the scenario and the setting only.
LEMMA SameSettingSame ==
  ASSUME distribution' = distribution, tried' = tried
  PROVE  /\ SortedItems' = SortedItems /\ Rates' = Rates
         /\ \A t : OverflowOut(t)' = OverflowOut(t) /\ Receiver(t)' = Receiver(t)
         /\ \A t, r : ExcessRate(t, r)' = ExcessRate(t, r)
<1>1. Setting' = Setting
  BY DEF Setting
<1>2. SortedItems' = SortedItems
  BY <1>1 DEF SortedItems
<1>3. Rates' = Rates
  BY <1>1 DEF Rates
<1>4. ASSUME NEW t PROVE OverflowOut(t)' = OverflowOut(t)
  BY <1>1 DEF OverflowOut, SelectInSeq, Min
<1>5. ASSUME NEW t PROVE Receiver(t)' = Receiver(t)
  BY <1>1, <1>4 DEF Receiver
<1>6. ASSUME NEW t, NEW r PROVE ExcessRate(t, r)' = ExcessRate(t, r)
  <2>1. LargestFeasibleRate(t, r)' = LargestFeasibleRate(t, r)
    BY DEF LargestFeasibleRate, IsFeasible
  <2>2. IsFeasible(t, r)' = IsFeasible(t, r)
    BY DEF IsFeasible
  <2> QED
    BY <2>1, <2>2 DEF ExcessRate
<1> QED
  BY <1>2, <1>3, <1>4, <1>5, <1>6

LEMMA OverflowIntoIs ==
  /\ OverflowInto = Into(received)
  /\ OverflowInto' = Into(received')
<1>1. OverflowInto = Into(received)
  BY DEF OverflowInto, Into, SumOf
<1>2. OverflowInto' = Into(received')
  BY DEF OverflowInto, Into, SumOf
<1> QED
  BY <1>1, <1>2

(***************************************************************************)
(* A visit.                                                                 *)
(***************************************************************************)
LEMMA VisitedItems ==
  ASSUME Placed, Counted
  PROVE  Visited \in SUBSET Items /\ IsFiniteSet(Visited) /\ IsFiniteSet(Items \ Visited)
<1>1. Visited \in SUBSET Items
  <2>1. \A i \in 1 .. position : i \in 1 .. Len(Trains)
    BY ItemsOfTrains DEF Counted
  <2>2. \A i \in 1 .. Len(Trains) : SortedItems[i] \in Items
    BY SettingOf
  <2> QED
    BY <2>1, <2>2 DEF Visited
<1>2. Items \ Visited \in SUBSET Items
  OBVIOUS
<1> QED
  BY <1>1, <1>2, ItemsOfTrains, FS_Subset

LEMMA IntoInt ==
  ASSUME Counted PROVE \A u \in Items : OverflowInto[u] \in Int /\ OverflowInto[u] = SumOf(received[u])
<1> SUFFICES ASSUME NEW u \in Items PROVE OverflowInto[u] \in Int /\ OverflowInto[u] = SumOf(received[u])
  OBVIOUS
<1>1. OverflowInto[u] = SumOf(received[u])
  BY OverflowIntoIs DEF Into
<1>2. received[u] \in Seq(Overflow)
  BY DEF Counted
<1> QED
  BY <1>1, <1>2, SumOfInt

\* t is visited as number p: it was given c, keeps c - e and sends e on, if it can.
Visits(p, t, c, e) ==
  /\ p \in 1 .. Len(Trains) /\ p = position + 1
  /\ t = SortedItems[p]
  /\ c \in Int /\ c = Rates[p] + OverflowInto[t]
  /\ e \in Nat
  /\ \/ OverflowOut(t) = 0 /\ e = 0 /\ received' = received
     \/ /\ OverflowOut(t) # 0 /\ e = ExcessRate(t, c)
        /\ Receiver(t) \in Items
        /\ Receiver(t) \notin Visited \cup {t}
        /\ received' = AddOverflow(t, Receiver(t), e)
  /\ adjusted' = [u \in Visited \cup {t} |-> IF u = t THEN c - e ELSE adjusted[u]]
  /\ t \in Items \ Visited
  /\ Visited' = Visited \cup {t}
  /\ distribution' = distribution /\ tried' = tried /\ position' = p

LEMMA VisitIs ==
  ASSUME DistributionInv, VisitItem PROVE \E p, t, c, e : Visits(p, t, c, e)
<1>1. position < Len(Trains) /\ position \in 0 .. Len(Trains) /\ Len(Trains) \in Nat
  BY ItemsOfTrains DEF VisitItem, DistributionInv, Counted
<1>2. PICK p \in 1 .. Len(Trains) : p = position + 1
  BY <1>1
<1>3. /\ SortedItems \in [1 .. Len(Trains) -> Items]
      /\ \A i, j \in 1 .. Len(Trains) : SortedItems[i] = SortedItems[j] => i = j
      /\ Rates \in [1 .. Len(Trains) -> Nat]
  BY SettingOf DEF DistributionInv
<1>4. PICK t \in Items : t = SortedItems[p]
  BY <1>3
<1>5. PICK c \in Int : c = Rates[p] + OverflowInto[t]
  <2>1. Rates[p] \in Int /\ OverflowInto[t] \in Int
    BY <1>3, IntoInt DEF DistributionInv
  <2> QED
    BY <2>1
<1>6. /\ adjusted \in [Visited -> Int]
      /\ distribution' = distribution /\ tried' = tried /\ position' = p
      /\ IF OverflowOut(t) = 0
         THEN Adjust(t, c) /\ received' = received
         ELSE /\ Adjust(t, c - ExcessRate(t, c))
              /\ received' = AddOverflow(t, Receiver(t), ExcessRate(t, c))
  BY <1>2, <1>4, <1>5, Zenon DEF VisitItem, DistributionInv, Counted
<1>7. Visited = {SortedItems[i] : i \in 1 .. position}
  BY DEF Visited
<1>8. t \notin Visited
  BY <1>1, <1>2, <1>3, <1>4, <1>7
<1>9. Visited' = Visited \cup {t}
  <2>1. SortedItems' = SortedItems
    BY <1>6, SameSettingSame
  <2>2. Visited' = {SortedItems[i] : i \in 1 .. p}
    BY <1>6, <2>1 DEF Visited
  <2>3. 1 .. p = (1 .. position) \cup {p}
    BY <1>1, <1>2
  <2> HIDE DEF Visited
  <2> QED
    BY <1>4, <1>7, <2>2, <2>3
<1>10. CASE OverflowOut(t) = 0
  <2>1. Visits(p, t, c, 0)
    <3>1. adjusted' = [u \in Visited \cup {t} |-> IF u = t THEN c - 0 ELSE adjusted[u]]
      BY <1>6, <1>10 DEF Adjust
    <3> QED
      BY <1>2, <1>4, <1>5, <1>6, <1>8, <1>9, <1>10, <3>1 DEF Visits
  <2> QED
    BY <2>1
<1>11. CASE OverflowOut(t) # 0
  <2>1. PICK e \in Nat : e = ExcessRate(t, c)
    BY ExcessIsBetween
  <2>2. Receiver(t) \in Items /\ \A i \in 1 .. p : SortedItems[i] # Receiver(t)
    BY <1>4, <1>11, ReceiverIsLater DEF DistributionInv
  <2>3. Receiver(t) \notin Visited \cup {t}
    <3>1. \A i \in 1 .. position : i \in 1 .. p
      BY <1>1, <1>2
    <3>2. p \in 1 .. p
      BY <1>1, <1>2
    <3> QED
      BY <1>4, <1>7, <2>2, <3>1, <3>2
  <2>4. Visits(p, t, c, e)
    <3>1. adjusted' = [u \in Visited \cup {t} |-> IF u = t THEN c - e ELSE adjusted[u]]
      BY <1>6, <1>11, <2>1 DEF Adjust
    <3>2. received' = AddOverflow(t, Receiver(t), e)
      BY <1>6, <1>11, <2>1
    <3> QED
      BY <1>2, <1>4, <1>5, <1>6, <1>8, <1>9, <1>11, <2>1, <2>2, <2>3, <3>1, <3>2 DEF Visits
  <2> QED
    BY <2>4
<1> QED
  BY <1>10, <1>11

LEMMA VisitCounts ==
  ASSUME DistributionInv, NEW p, NEW t, NEW c, NEW e, Visits(p, t, c, e)
  PROVE  Placed' /\ Counted'
<1>1. Placed'
  BY DEF DistributionInv, Placed, Visits
<1>2. position' \in 0 .. Len(Trains)
  BY ItemsOfTrains DEF Visits
<1>3. received' \in [Items -> Seq(Overflow)]
  <2>1. received \in [Items -> Seq(Overflow)]
    BY DEF DistributionInv, Counted
  <2>2. CASE received' = received
    BY <2>1, <2>2
  <2>3. CASE Receiver(t) \in Items /\ received' = AddOverflow(t, Receiver(t), e)
    <3>1. [from |-> t, rate |-> e] \in Overflow
      BY DEF Visits, Overflow
    <3>2. Append(received[Receiver(t)], [from |-> t, rate |-> e]) \in Seq(Overflow)
      BY <2>1, <2>3, <3>1
    <3> QED
      BY <2>1, <2>3, <3>2 DEF AddOverflow
  <2> QED
    BY <2>2, <2>3 DEF Visits
<1>4. adjusted' \in [Visited' -> Int]
  <2>1. adjusted \in [Visited -> Int]
    BY DEF DistributionInv, Counted
  <2>2. c - e \in Int
    BY DEF Visits
  <2> QED
    BY <2>1, <2>2 DEF Visits
<1> QED
  BY <1>1, <1>2, <1>3, <1>4 DEF Counted

LEMMA VisitBalances ==
  ASSUME DistributionInv, NEW p, NEW t, NEW c, NEW e, Visits(p, t, c, e)
  PROVE  NothingIsLost'
<1> DEFINE V == Visited
           left == Items \ V
           rest == left \ {t}
           before == OverflowInto
           after == OverflowInto'
           was == adjusted
           is == adjusted'
<1>1. /\ IsFiniteSet(V) /\ IsFiniteSet(left) /\ V \in SUBSET Items
      /\ t \in left /\ t \notin V
  BY VisitedItems DEF DistributionInv, Visits
<1>2. IsFiniteSet(rest)
  <2> HIDE DEF left
  <2> QED
    BY <1>1, FS_RemoveElement
<1>3. /\ \A u \in Items : before[u] \in Int
      /\ \A u \in Items : after[u] = SumOf(received'[u])
  BY IntoInt, OverflowIntoIs DEF DistributionInv, Into
<1>4. \A u \in Items : received[u] \in Seq(Overflow) /\ before[u] = SumOf(received[u])
  BY IntoInt DEF DistributionInv, Counted
<1>5. c \in Int /\ e \in Nat /\ c = Rates[p] + before[t]
  BY DEF Visits
<1>6. SumFunctionOnSet(after, rest) = SumFunctionOnSet(before, rest) + e
  <2>1. CASE e = 0 /\ received' = received
    <3>1. \A u \in rest : before[u] \in Int /\ before[u] = after[u]
      BY <1>3, <1>4, <2>1
    <3> HIDE DEF rest, before, after
    <3>2. SumFunctionOnSet(before, rest) = SumFunctionOnSet(after, rest)
      BY <1>2, <3>1, SumSame
    <3>3. SumFunctionOnSet(before, rest) \in Int
      BY <1>2, <3>1, SumInt
    <3> QED
      BY <2>1, <3>2, <3>3
  <2>2. CASE /\ Receiver(t) \in Items
             /\ Receiver(t) \notin V \cup {t}
             /\ received' = AddOverflow(t, Receiver(t), e)
    <3>1. PICK r \in rest : r = Receiver(t)
      BY <2>2
    <3>2. [from |-> t, rate |-> e] \in Overflow
      BY <1>1, <1>5 DEF Overflow
    <3>3. received'[r] = Append(received[r], [from |-> t, rate |-> e])
      BY <2>2, <3>1 DEF AddOverflow, DistributionInv, Counted
    <3>4. \A u \in rest : u # r => received'[u] = received[u]
      BY <2>2, <3>1 DEF AddOverflow, DistributionInv, Counted
    <3>5. after[r] = before[r] + e
      <4>1. SumOf(Append(received[r], [from |-> t, rate |-> e])) = SumOf(received[r]) + [from |-> t, rate |-> e].rate
        BY <1>4, <3>2, SumOfAppended
      <4> QED
        BY <1>3, <1>4, <3>3, <4>1
    <3>6. \A u \in rest : before[u] \in Int /\ after[u] = IF u = r THEN before[u] + e ELSE before[u]
      BY <1>3, <1>4, <3>4, <3>5
    <3>7. e \in Int
      BY <1>5
    <3> HIDE DEF rest, before, after
    <3> QED
      BY <1>2, <3>1, <3>6, <3>7, SumRaised
  <2> QED
    BY <2>1, <2>2 DEF Visits
<1>7. SumFunctionOnSet(before, left) = before[t] + SumFunctionOnSet(before, rest)
  <2>1. \A u \in left : before[u] \in Int
    BY <1>3
  <2> HIDE DEF left, before
  <2> QED
    BY <1>1, <2>1, SumRemove
<1>8. SumFunctionOnSet(is, V \cup {t}) = SumFunctionOnSet(was, V) + (c - e)
  <2>1. was \in [V -> Int] /\ is = [u \in V \cup {t} |-> IF u = t THEN c - e ELSE was[u]]
    BY DEF DistributionInv, Counted, Visits
  <2> HIDE DEF V, is, was
  <2>2. \A u \in V : was[u] \in Int /\ was[u] = is[u]
    BY <1>1, <2>1
  <2>3. is[t] = c - e /\ c - e \in Int
    BY <1>5, <2>1
  <2>4. \A u \in V \cup {t} : is[u] \in Int
    BY <2>2, <2>3
  <2>5. SumFunctionOnSet(is, V \cup {t}) = SumFunctionOnSet(is, V) + is[t]
    BY <1>1, <2>4, SumAdd
  <2>6. SumFunctionOnSet(was, V) = SumFunctionOnSet(is, V)
    BY <1>1, <2>2, SumSame
  <2> QED
    BY <2>3, <2>5, <2>6
<1>9. SumFunctionOnSet(Rates, 1 .. p) = SumFunctionOnSet(Rates, 1 .. position) + Rates[p]
  <2>1. position \in Nat /\ p = position + 1 /\ Len(Trains) \in Nat /\ p \in 1 .. Len(Trains)
    BY ItemsOfTrains DEF DistributionInv, Counted, Visits
  <2> DEFINE S == 1 .. position
             f == Rates
  <2>2. 1 .. p = S \cup {p} /\ p \notin S
    BY <2>1
  <2>3. IsFiniteSet(S)
    BY <2>1, FS_Interval
  <2>4. \A i \in S \cup {p} : f[i] \in Int
    <3>1. \A i \in S \cup {p} : i \in 1 .. Len(Trains)
      BY <2>1
    <3> QED
      BY <3>1, SettingOf DEF DistributionInv
  <2> HIDE DEF S, f
  <2>5. SumFunctionOnSet(f, S \cup {p}) = SumFunctionOnSet(f, S) + f[p]
    BY <2>2, <2>3, <2>4, SumAdd
  <2> QED
    BY <2>2, <2>5 DEF S, f
<1>10. /\ SumFunctionOnSet(before, rest) \in Int
       /\ SumFunctionOnSet(was, V) \in Int
  <2>1. \A u \in rest : before[u] \in Int
    BY <1>3
  <2>2. \A u \in V : was[u] \in Int
    BY DEF DistributionInv, Counted
  <2> HIDE DEF rest, before, was, V
  <2> QED
    BY <1>1, <1>2, <2>1, <2>2, SumInt
<1>11. Rates[p] \in Int /\ before[t] \in Int
  BY <1>1, <1>3, SettingOf DEF DistributionInv, Visits
<1>12. SumFunctionOnSet(Rates, 1 .. position) = SumFunctionOnSet(was, V) + SumFunctionOnSet(before, left)
  BY DEF DistributionInv, NothingIsLost
<1>13. /\ Visited' = V \cup {t} /\ Items \ Visited' = rest
       /\ Rates' = Rates /\ position' = p
  BY SameSettingSame DEF Visits
<1>14. NothingIsLost' <=>
         SumFunctionOnSet(Rates', 1 .. position') =
           SumFunctionOnSet(is, Visited') + SumFunctionOnSet(after, Items \ Visited')
  BY DEF NothingIsLost
<1>15. SumFunctionOnSet(Rates, 1 .. p) = SumFunctionOnSet(is, V \cup {t}) + SumFunctionOnSet(after, rest)
  <2> DEFINE a == SumFunctionOnSet(before, rest)
             b == SumFunctionOnSet(was, V)
             x == Rates[p]
             y == before[t]
             sumBefore == SumFunctionOnSet(Rates, 1 .. position)
             sumLeft == SumFunctionOnSet(before, left)
             sumIs == SumFunctionOnSet(is, V \cup {t})
             sumAfter == SumFunctionOnSet(after, rest)
             sumNow == SumFunctionOnSet(Rates, 1 .. p)
  <2>1. /\ a \in Int /\ b \in Int /\ x \in Int /\ y \in Int /\ e \in Int
        /\ sumBefore = b + sumLeft /\ sumLeft = y + a
        /\ sumIs = b + (c - e) /\ sumAfter = a + e /\ sumNow = sumBefore + x
        /\ c = x + y
    BY <1>5, <1>6, <1>7, <1>8, <1>9, <1>10, <1>11, <1>12
  <2> HIDE DEF a, b, x, y, sumBefore, sumLeft, sumIs, sumAfter, sumNow
  <2>2. sumNow = sumIs + sumAfter
    BY <2>1
  <2> QED
    BY <2>2 DEF sumIs, sumAfter, sumNow
<1> HIDE DEF V, left, rest, before, after, was, is
<1> QED
  BY <1>13, <1>14, <1>15

\* An entry of another train more does not change what a train sent.
LEMMA SentByStands ==
  ASSUME NEW u, NEW kept, NEW entries \in Seq(Overflow), NEW x \in Overflow, x.from # u,
         NEW i \in 1 .. Len(entries), SentBy(u, entries, i, kept)
  PROVE  /\ i \in 1 .. Len(Append(entries, x))
         /\ SentBy(u, Append(entries, x), i, kept)
<1> DEFINE more == Append(entries, x)
           n == Len(entries)
<1>1. /\ n \in Nat /\ Len(more) = n + 1 /\ more[n + 1] = x
      /\ \A j \in 1 .. n : more[j] = entries[j]
  OBVIOUS
<1> HIDE DEF more, n
<1>2. i \in 1 .. n
  BY DEF n
<1>3. more[i] = entries[i]
  BY <1>1, <1>2
<1>4. \A j \in 1 .. n + 1 : more[j].from = u => j = i
  <2> SUFFICES ASSUME NEW j \in 1 .. n + 1, more[j].from = u PROVE j = i
    OBVIOUS
  <2>1. j # n + 1
    BY <1>1
  <2>2. j \in 1 .. n
    BY <1>1, <2>1
  <2> QED
    BY <1>1, <2>2 DEF SentBy, n
<1>5. SentBy(u, more, i, kept)
  BY <1>1, <1>3, <1>4 DEF SentBy
<1> QED
  BY <1>1, <1>2, <1>5 DEF more

LEMMA VisitSends ==
  ASSUME DistributionInv, NEW p, NEW t, NEW c, NEW e, Visits(p, t, c, e)
  PROVE  SentOn'
<1> DEFINE x == [from |-> t, rate |-> e]
<1>1. /\ received \in [Items -> Seq(Overflow)] /\ adjusted \in [Visited -> Int]
      /\ Visited \in SUBSET Items /\ t \in Items /\ t \notin Visited /\ Visited' = Visited \cup {t}
      /\ c \in Int /\ e \in Nat
  BY VisitedItems DEF DistributionInv, Counted, Visits
<1>2. x \in Overflow /\ x.from = t /\ x.rate = e
  BY <1>1 DEF Overflow
<1>3. adjusted' = [u \in Visited \cup {t} |-> IF u = t THEN c - e ELSE adjusted[u]]
  BY DEF Visits
<1>4. /\ \A u : OverflowOut(u)' = OverflowOut(u) /\ Receiver(u)' = Receiver(u)
      /\ \A u, r : ExcessRate(u, r)' = ExcessRate(u, r)
  BY SameSettingSame DEF Visits
<1>5. \A u \in Items : received'[u] = received[u] \/ received'[u] = Append(received[u], x)
  BY <1>1 DEF Visits, AddOverflow
<1>6. \A u \in Items : \A i \in 1 .. Len(received[u]) : received[u][i].from \in Visited
  BY DEF DistributionInv, SentOn
<1>7. OverflowOut(t) # 0 =>
        /\ Receiver(t) \in Items
        /\ received'[Receiver(t)] = Append(received[Receiver(t)], x)
        /\ e = ExcessRate(t, c)
  BY <1>1 DEF Visits, AddOverflow
<1> HIDE DEF x
<1>8. \A u \in Items : \A i \in 1 .. Len(received'[u]) : received'[u][i].from \in Visited'
  <2> SUFFICES ASSUME NEW u \in Items, NEW i \in 1 .. Len(received'[u])
               PROVE  received'[u][i].from \in Visited'
    OBVIOUS
  <2>1. CASE received'[u] = received[u]
    BY <1>1, <1>6, <2>1
  <2>2. CASE received'[u] = Append(received[u], x)
    <3>1. received[u] \in Seq(Overflow)
      BY <1>1
    <3>2. PICK entries \in Seq(Overflow) : entries = received[u]
      BY <3>1
    <3>3. i \in 1 .. Len(Append(entries, x)) /\ received'[u] = Append(entries, x)
      BY <2>2, <3>2
    <3>4. CASE i = Len(entries) + 1
      BY <1>1, <1>2, <3>3, <3>4
    <3>5. CASE i \in 1 .. Len(entries)
      BY <1>1, <1>2, <1>6, <3>2, <3>3, <3>5
    <3> QED
      BY <1>2, <3>3, <3>4, <3>5
  <2> QED
    BY <1>5, <2>1, <2>2
<1>9. ASSUME NEW u \in Visited', OverflowOut(u)' # 0
      PROVE  /\ Receiver(u)' \in Items
             /\ \E i \in 1 .. Len(received'[Receiver(u)']) :
                  SentBy(u, received[Receiver(u)], i, adjusted[u])'
  <2>1. OverflowOut(u) # 0 /\ Receiver(u)' = Receiver(u)
    BY <1>4, <1>9
  <2>2. \A i : SentBy(u, received[Receiver(u)], i, adjusted[u])' <=>
                 SentBy(u, received'[Receiver(u)], i, adjusted'[u])
    BY <1>4, <2>1 DEF SentBy
  <2>3. CASE u \in Visited
    <3>1. u # t /\ adjusted'[u] = adjusted[u]
      BY <1>1, <1>3, <2>3
    <3>2. PICK r \in Items : r = Receiver(u)
      BY <2>1, <2>3 DEF DistributionInv, SentOn
    <3>3. PICK i \in 1 .. Len(received[r]) : SentBy(u, received[r], i, adjusted[u])
      BY <2>1, <2>3, <3>2 DEF DistributionInv, SentOn
    <3>4. received[r] \in Seq(Overflow)
      BY <1>1
    <3>5. i \in 1 .. Len(received'[r]) /\ SentBy(u, received'[r], i, adjusted[u])
      <4>1. CASE received'[r] = received[r]
        BY <3>3, <4>1
      <4>2. CASE received'[r] = Append(received[r], x)
        BY <1>2, <3>1, <3>3, <3>4, <4>2, SentByStands
      <4> QED
        BY <1>5, <4>1, <4>2
    <3> QED
      BY <2>1, <2>2, <3>1, <3>2, <3>5
  <2>4. CASE u = t
    <3>1. PICK r \in Items : r = Receiver(t) /\ received'[r] = Append(received[r], x)
      BY <1>7, <2>1, <2>4
    <3>2. e = ExcessRate(t, c)
      BY <1>7, <2>1, <2>4
    <3>3. PICK kept \in Int : kept = adjusted'[t] /\ kept + e = c
      <4>1. adjusted'[t] = c - e
        BY <1>3
      <4>2. c - e \in Int /\ (c - e) + e = c
        BY <1>1
      <4> QED
        BY <4>1, <4>2
    <3>4. PICK entries \in Seq(Overflow) : entries = received[r]
      BY <1>1
    <3> DEFINE more == Append(entries, x)
               n == Len(entries) + 1
    <3>5. /\ n \in 1 .. Len(more) /\ more[n] = x
          /\ \A j \in 1 .. Len(more) : j # n => j \in 1 .. Len(entries) /\ more[j] = entries[j]
      BY <1>2
    <3> HIDE DEF more, n
    <3>6. \A j \in 1 .. Len(more) : more[j].from = t => j = n
      BY <1>1, <1>6, <3>4, <3>5
    <3>7. SentBy(t, more, n, kept)
      BY <1>2, <3>2, <3>3, <3>5, <3>6 DEF SentBy
    <3>8. received'[r] = more
      BY <3>1, <3>4 DEF more
    <3> QED
      BY <2>1, <2>2, <2>4, <3>1, <3>3, <3>5, <3>7, <3>8
  <2> QED
    BY <1>1, <2>3, <2>4
<1> QED
  BY <1>8, <1>9 DEF SentOn

(***************************************************************************)
(* A setting that nothing has been visited in yet.                          *)
(***************************************************************************)
Fresh ==
  /\ position = 0
  /\ received = [t \in Items |-> <<>>]
  /\ adjusted = [t \in {} |-> 0]

LEMMA FreshBalances ==
  ASSUME Fresh PROVE Counted /\ NothingIsLost /\ SentOn /\ KeepsItsCapacity
<1>1. Visited = {}
  BY DEF Fresh, Visited
<1>2. \A t \in Items : received[t] = <<>>
  BY DEF Fresh
<1>3. Counted
  <2>1. received \in [Items -> Seq(Overflow)]
    BY DEF Fresh
  <2>2. adjusted \in [Visited -> Int]
    BY <1>1 DEF Fresh
  <2>3. position \in 0 .. Len(Trains)
    BY ItemsOfTrains DEF Fresh
  <2> QED
    BY <2>1, <2>2, <2>3 DEF Counted
<1>4. SentOn
  BY <1>1, <1>2 DEF SentOn
<1>5. \A t \in Items : OverflowInto[t] = 0
  <2> SUFFICES ASSUME NEW t \in Items PROVE OverflowInto[t] = 0
    OBVIOUS
  <2>1. OverflowInto[t] = SumOf(<<>>)
    BY <1>2, <1>3, IntoInt
  <2> DEFINE f == [i \in DOMAIN <<>> |-> <<>>[i].rate]
  <2>2. SumOf(<<>>) = SumFunctionOnSet(f, DOMAIN f)
    BY DEF SumOf, SumFunction
  <2>3. DOMAIN f = {}
    OBVIOUS
  <2> HIDE DEF f
  <2> QED
    BY <2>1, <2>2, <2>3, SumEmpty
<1>6. SumFunctionOnSet(OverflowInto, Items \ Visited) = 0
  <2> DEFINE zero == [t \in Items |-> 0]
             sum(S) == SumFunctionOnSet(OverflowInto, S)
             T == {n \in Nat : \A S \in SUBSET Items : Cardinality(S) = n => sum(S) = 0}
  <2>1. \A S \in SUBSET Items : IsFiniteSet(S) /\ Cardinality(S) \in Nat
    BY ItemsOfTrains, FS_Subset, FS_CardinalityType
  <2>2. 0 \in T
    <3> SUFFICES ASSUME NEW S \in SUBSET Items, Cardinality(S) = 0 PROVE sum(S) = 0
      OBVIOUS
    <3>1. S = {}
      BY <2>1, FS_EmptySet
    <3> QED
      BY <3>1, SumEmpty
  <2>3. ASSUME NEW n \in Nat, n \in T PROVE n + 1 \in T
    <3> SUFFICES ASSUME NEW S \in SUBSET Items, Cardinality(S) = n + 1 PROVE sum(S) = 0
      OBVIOUS
    <3>1. PICK y \in S : TRUE
      BY <2>1, FS_EmptySet
    <3>2. S \ {y} \in SUBSET Items /\ Cardinality(S \ {y}) = n
      <4>1. Cardinality(S \ {y}) = Cardinality(S) - 1
        BY <2>1, FS_RemoveElement
      <4> QED
        BY <4>1
    <3>3. sum(S \ {y}) = 0
      BY <2>3, <3>2
    <3>4. \A x \in S : OverflowInto[x] \in Int
      BY <1>5
    <3>5. sum(S) = OverflowInto[y] + sum(S \ {y})
      BY <2>1, <3>4, SumRemove
    <3> QED
      BY <1>5, <3>3, <3>5
  <2>4. \A n \in Nat : n \in T
    <3> HIDE DEF T
    <3> QED
      BY <2>2, <2>3, FromZero
  <2>5. Items \ Visited \in SUBSET Items
    OBVIOUS
  <2> QED
    BY <2>1, <2>4, <2>5
<1>7. SumFunctionOnSet(adjusted, Visited) = 0
  BY <1>1, SumEmpty
<1>8. 1 .. position = {}
  BY DEF Fresh
<1>9. SumFunctionOnSet(Rates, 1 .. position) = 0
  BY <1>8, SumEmpty
<1>10. NothingIsLost
  BY <1>6, <1>7, <1>9 DEF NothingIsLost
<1>11. KeepsItsCapacity
  BY <1>1 DEF KeepsItsCapacity
<1> QED
  BY <1>3, <1>4, <1>10, <1>11

LEMMA FreshIsEnough ==
  ASSUME Fresh PROVE OverflowIsTheExcess
BY FreshBalances DEF OverflowIsTheExcess

LEMMA FreshIsCounted ==
  ASSUME Placed, Fresh PROVE DistributionInv
BY FreshBalances DEF DistributionInv

LEMMA FreshIsCountedNext ==
  (Placed /\ Fresh => DistributionInv)'
<1>1. Placed /\ Fresh => DistributionInv
  BY FreshIsCounted
<1> QED
  BY <1>1, PTL

LEMMA InitDistributes ==
  ASSUME InitDistribution PROVE DistributionInv
<1>1. Placed
  <2>1. distribution \in Distributions /\ tried = 1
    BY DEF InitDistribution
  <2>2. /\ distribution.settings \in Seq(Range(distribution.settings))
        /\ distribution.settings # <<>>
    BY <2>1, DistributionsAssumption
  <2>3. 1 \in 1 .. Len(distribution.settings)
    BY <2>2
  <2> QED
    BY <2>1, <2>3 DEF Placed
<1> QED
  BY <1>1, FreshIsCounted DEF InitDistribution, Fresh

LEMMA JudgeKeeps ==
  ASSUME DistributionInv, JudgeSetting PROVE DistributionInv'
<1>1. distribution' = distribution
  BY DEF JudgeSetting
<1>2. CASE UNCHANGED <<tried, position, received, adjusted>>
  <2>1. SortedItems' = SortedItems /\ Rates' = Rates
        /\ (\A t : OverflowOut(t)' = OverflowOut(t) /\ Receiver(t)' = Receiver(t))
        /\ (\A t, r : ExcessRate(t, r)' = ExcessRate(t, r))
    BY <1>1, <1>2, SameSettingSame
  <2>2. Visited' = Visited /\ OverflowInto' = OverflowInto
    BY <1>2, <2>1, OverflowIntoIs DEF Visited
  <2>3. Placed' /\ Counted'
    BY <1>1, <1>2, <2>2 DEF DistributionInv, Placed, Counted
  <2>4. NothingIsLost'
    BY <1>2, <2>1, <2>2 DEF DistributionInv, NothingIsLost
  <2>5. SentOn'
    BY <1>2, <2>1, <2>2 DEF DistributionInv, SentOn, SentBy
  <2> QED
    BY <2>3, <2>4, <2>5 DEF DistributionInv
<1>3. CASE StartSetting(tried + 1) /\ tried # Len(distribution.settings)
  <2>1. Fresh'
    BY <1>3 DEF StartSetting, Fresh
  <2>2. Placed'
    <3>1. tried \in 1 .. Len(distribution.settings)
      BY DEF DistributionInv, Placed
    <3>2. distribution.settings \in Seq(Range(distribution.settings))
      BY DistributionsAssumption DEF DistributionInv, Placed
    <3>3. Len(distribution.settings) \in Nat
      BY <3>2
    <3> QED
      BY <1>1, <1>3, <3>1, <3>3 DEF DistributionInv, Placed, StartSetting
  <2> QED
    BY <2>1, <2>2, FreshIsCountedNext
<1> QED
  BY <1>2, <1>3 DEF JudgeSetting

LEMMA DistributionKeeps ==
  ASSUME DistributionInv, [NextDistribution]_distributionVars PROVE DistributionInv'
<1>1. CASE VisitItem
  <2>1. PICK p, t, c, e : Visits(p, t, c, e)
    BY <1>1, VisitIs
  <2> QED
    BY <2>1, VisitCounts, VisitBalances, VisitSends DEF DistributionInv
<1>2. CASE JudgeSetting
  BY <1>2, JudgeKeeps
<1>3. CASE UNCHANGED distributionVars
  <2>1. /\ distribution' = distribution /\ tried' = tried /\ position' = position
        /\ received' = received /\ adjusted' = adjusted
    BY <1>3 DEF distributionVars
  <2>2. SortedItems' = SortedItems /\ Rates' = Rates
        /\ (\A t : OverflowOut(t)' = OverflowOut(t) /\ Receiver(t)' = Receiver(t))
        /\ (\A t, r : ExcessRate(t, r)' = ExcessRate(t, r))
    BY <2>1, SameSettingSame
  <2>3. Visited' = Visited /\ OverflowInto' = OverflowInto
    BY <2>1, <2>2, OverflowIntoIs DEF Visited
  <2>4. Placed' /\ Counted'
    BY <2>1, <2>3 DEF DistributionInv, Placed, Counted
  <2>5. NothingIsLost'
    BY <2>1, <2>2, <2>3 DEF DistributionInv, NothingIsLost
  <2>6. SentOn'
    BY <2>1, <2>2, <2>3 DEF DistributionInv, SentOn, SentBy
  <2> QED
    BY <2>4, <2>5, <2>6 DEF DistributionInv
<1> QED
  BY <1>1, <1>2, <1>3 DEF NextDistribution

(***************************************************************************)
(* What the invariant says of a train with a capacity.                      *)
(***************************************************************************)
LEMMA KeepsCapacity ==
  ASSUME DistributionInv PROVE KeepsItsCapacity
<1> SUFFICES ASSUME NEW t \in Visited, NEW limit \in distribution.handles[t],
                    OverflowOut(t) # 0, ExcessOf(t) > 0, distribution.handles[t] = 0 .. limit
             PROVE  LET offered   == adjusted[t] + ExcessOf(t)
                        tolerance == Larger(offered, UnitRate) \div Precision + 1
                    IN  adjusted[t] - limit \in -tolerance .. tolerance
  BY DEF KeepsItsCapacity
<1>1. t \in Items /\ adjusted[t] \in Int
  BY VisitedItems DEF DistributionInv, Counted
<1>2. limit \in Nat
  BY <1>1, SettingOf DEF DistributionInv
<1> DEFINE into == received[Receiver(t)]
<1>3. PICK i \in 1 .. Len(into) : SentBy(t, into, i, adjusted[t])
  BY DEF DistributionInv, SentOn
<1>4. into \in Seq(Overflow)
  BY DEF DistributionInv, Counted, SentOn
<1>5. ExcessOf(t) = into[i].rate /\ into[i].rate \in Nat
  <2>1. ExcessOf(t) = into[CHOOSE j \in DOMAIN into : into[j].from = t].rate
    BY DEF ExcessOf
  <2> HIDE DEF into
  <2>2. DOMAIN into = 1 .. Len(into) /\ into[i] \in Overflow
    BY <1>4
  <2>3. i \in DOMAIN into /\ into[i].from = t /\ \A j \in DOMAIN into : into[j].from = t => j = i
    BY <1>3, <2>2 DEF SentBy
  <2>4. (CHOOSE j \in DOMAIN into : into[j].from = t) = i
    BY <2>3
  <2> QED
    BY <2>1, <2>2, <2>4 DEF Overflow
<1>6. PICK e \in Nat : e = ExcessOf(t)
  BY <1>5
<1>7. PICK kept \in Int : kept = adjusted[t]
  BY <1>1
<1>8. e = ExcessRate(t, kept + e) /\ e > 0
  BY <1>3, <1>5, <1>6, <1>7 DEF SentBy
<1>9. PICK offered \in Nat : /\ offered = kept + e /\ ~ IsFeasible(t, offered)
                             /\ kept = LargestFeasibleRate(t, offered)
  <2>1. kept + e \in Int
    OBVIOUS
  <2>2. /\ kept + e \in Nat /\ ~ IsFeasible(t, kept + e)
        /\ (kept + e) - e = LargestFeasibleRate(t, kept + e)
    BY <1>8, <2>1, ExcessIsBetween
  <2>3. (kept + e) - e = kept
    OBVIOUS
  <2> QED
    BY <2>2, <2>3
<1>10. \A rate \in Nat : IsFeasible(t, rate) <=> rate <= limit
  BY <1>2 DEF IsFeasible
<1>11. limit < offered
  BY <1>2, <1>9, <1>10
<1>12. LET tolerance == Larger(offered, UnitRate) \div Precision + 1
       IN  LargestFeasibleRate(t, offered) - limit \in -tolerance .. tolerance
  BY <1>2, <1>10, <1>11, SearchIsClose
<1> QED
  BY <1>6, <1>7, <1>9, <1>12

LEMMA DistributionIsEnough ==
  ASSUME DistributionInv PROVE OverflowIsTheExcess
BY KeepsCapacity DEF OverflowIsTheExcess, DistributionInv

(***************************************************************************)
(* The calls.                                                               *)
(***************************************************************************)
\* Only a call that solves sections in series touches them.
SeriesInv == IF call = "series" THEN ReportedInv /\ SuccessInv ELSE pass = "solve"

LEMMA InitSeriesInv ==
  ASSUME Init PROVE SeriesInv
<1>1. InitSeries
  BY DEF Init
<1>2. CASE call = "series"
  <2>1. series \in Series
    BY <1>2 DEF Init, PlacedSeries
  <2> QED
    BY <1>1, <1>2, <2>1, InitReported, InitSuccess DEF SeriesInv
<1>3. CASE call # "series"
  BY <1>1, <1>3 DEF SeriesInv, InitSeries
<1> QED
  BY <1>2, <1>3

LEMMA NextSeriesInv ==
  ASSUME SeriesInv, [Next]_vars PROVE SeriesInv'
<1>1. /\ call' = call
      /\ (call = "series" /\ NextSeries) \/ UNCHANGED seriesVars
  BY DEF Next, vars
<1>2. CASE call = "series"
  <2>1. ReportedInv /\ SuccessInv /\ [NextSeries]_seriesVars
    BY <1>1, <1>2 DEF SeriesInv
  <2> QED
    BY <1>1, <1>2, <2>1, SeriesReports, SeriesSucceeds DEF SeriesInv
<1>3. CASE call # "series"
  BY <1>1, <1>3 DEF SeriesInv, seriesVars
<1> QED
  BY <1>2, <1>3

\* The invariant of sections in series: what their solver reported so far, and under
\* which configuration the sections solved so far deliver what they found.
THEOREM SeriesInductive == Spec => []SeriesInv
<1>1. Init => SeriesInv
  BY InitSeriesInv
<1>2. SeriesInv /\ [Next]_vars => SeriesInv'
  BY NextSeriesInv
<1> QED
  BY <1>1, <1>2, PTL DEF Spec

\* MultiPressureSolver and MultiShaftSolver: a success is a configuration under
\* which fresh sections, run one after the other, all run and meet their targets,
\* but for a section that recirculates under an upstream choke; whatever a section
\* solver ends with, and wherever an exception leaves the solver.
THEOREM SeriesSolved == Spec => []SuccessMeetsEveryTarget
<1>1. SeriesInv => SuccessMeetsEveryTarget
  <2> SUFFICES ASSUME SeriesInv PROVE SuccessMeetsEveryTarget
    OBVIOUS
  <2>1. CASE call = "series"
    BY <2>1, SuccessIsEnough DEF SeriesInv, ReportedInv
  <2>2. CASE call # "series"
    BY <2>2 DEF SeriesInv, SuccessMeetsEveryTarget
  <2> QED
    BY <2>1, <2>2
<1> QED
  BY <1>1, SeriesInductive, PTL

\* MultiPressureSolver and MultiShaftSolver: a solver that returns reports a failure
\* if and only if a section failed, that of the first section that failed or, on one
\* shaft, of one that ended below its target.
THEOREM SeriesFailures == Spec => []FailuresAreReported
<1>1. SeriesInv => FailuresAreReported
  <2> SUFFICES ASSUME SeriesInv PROVE FailuresAreReported
    OBVIOUS
  <2>1. CASE call = "series"
    BY <2>1, ReportedIsEnough DEF SeriesInv
  <2>2. CASE call # "series"
    BY <2>2 DEF SeriesInv, FailuresAreReported
  <2> QED
    BY <2>1, <2>2
<1> QED
  BY <1>1, SeriesInductive, PTL

\* Only a call that shares a stream between trains goes through them.
NetworkInv == IF call = "distribution" THEN DistributionInv ELSE Fresh

LEMMA InitNetworkInv ==
  ASSUME Init PROVE NetworkInv
<1>1. CASE call = "distribution"
  BY <1>1, InitDistributes DEF Init, NetworkInv
<1>2. CASE call # "distribution"
  <2>1. /\ position = 0
        /\ received = [t \in Items |-> <<>>]
        /\ adjusted = [t \in {} |-> 0]
    BY DEF Init, InitDistribution
  <2> QED
    BY <1>2, <2>1 DEF NetworkInv, Fresh
<1> QED
  BY <1>1, <1>2

LEMMA NextNetworkInv ==
  ASSUME NetworkInv, [Next]_vars PROVE NetworkInv'
<1>1. /\ call' = call
      /\ (call = "distribution" /\ NextDistribution) \/ UNCHANGED distributionVars
  BY DEF Next, vars
<1>2. CASE call = "distribution"
  <2>1. DistributionInv /\ [NextDistribution]_distributionVars
    BY <1>1, <1>2 DEF NetworkInv
  <2> QED
    BY <1>1, <1>2, <2>1, DistributionKeeps DEF NetworkInv
<1>3. CASE call # "distribution"
  <2>1. Fresh
    BY <1>3 DEF NetworkInv
  <2>2. position' = position /\ received' = received /\ adjusted' = adjusted
    BY <1>1, <1>3 DEF distributionVars
  <2>3. Fresh'
    BY <2>1, <2>2 DEF Fresh
  <2> QED
    BY <1>1, <1>3, <2>3 DEF NetworkInv
<1> QED
  BY <1>2, <1>3

\* CommonStreamDistribution and FeasibilitySolver: whatever the settings, the edges
\* and what each train can operate at, the rates handed out balance, and a train with
\* a capacity is left with it, to the tolerance of the rate search.
THEOREM OverflowKept == Spec => []OverflowIsTheExcess
<1>1. Init => NetworkInv
  BY InitNetworkInv
<1>2. NetworkInv /\ [Next]_vars => NetworkInv'
  BY NextNetworkInv
<1>3. NetworkInv => OverflowIsTheExcess
  BY DistributionIsEnough, FreshIsEnough DEF NetworkInv
<1> QED
  BY <1>1, <1>2, <1>3, PTL DEF Spec

=============================================================================
