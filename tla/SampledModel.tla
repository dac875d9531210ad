---------------------------- MODULE SampledModel ----------------------------
(***************************************************************************)
(* A compressor given as a table of samples (compressor/core/sampled): the  *)
(* rows are points of rate, suction and discharge pressure with an energy   *)
(* usage.  Inside the convex hull of the points the usage is interpolated;  *)
(* a request outside is first moved to the hull by recirculating (the rate  *)
(* goes up), by choking the inlet (the suction pressure goes down) or the   *)
(* outlet (the discharge pressure goes up), if that is possible.            *)
(*                                                                          *)
(* An answer is the point at which the usage is taken.  Interpolation in    *)
(* the interior, the usage itself, the turbine, the margins for rounding    *)
(* (EPSILON, EPSILON_MAX_RATE) and the scaling of the rate are left out.    *)
(***************************************************************************)
EXTENDS Integers, Sequences, SequencesExt, FiniteSetsExt

LOCAL INSTANCE Rational

CONSTANTS Tables,       \* [given, rows]: the columns, and their values by row
          Requests      \* <<rate, suction pressure, discharge pressure>>

RATE == 1
PS == 2
PD == 3

VARIABLES table,
          fit,          \* the interpolator, or why there is none
          request,
          reply         \* to the last call: where the usage is taken, or a maximum rate

sampledVars == <<table, fit, request, reply>>

Rows == DOMAIN table.rows
At(i) == table.rows[i]

\* _non_degenerated_variables: columns with more than one value.
Varying == {a \in table.given : \E i \in Rows : At(i)[a] # At(1)[a]}

\* Points of the table as points of fractions.
Exact(p) == <<Whole(p[RATE]), Whole(p[PS]), Whole(p[PD])>>

Higher(x, y) == IF AtMost(x, y) THEN y ELSE x
Lower(x, y) == IF AtMost(x, y) THEN x ELSE y

\* np.fmax, np.fmin: a NaN bound does not move the value.  A suction pressure
\* can only be lowered, the other two only be raised.
Moved(a, x, bound) ==
  IF ~IsFinite(bound) THEN x
  ELSE IF a = PS THEN Lower(x, bound) ELSE Higher(x, bound)

(***************************************************************************)
(* Curves: interp1d on a sequence of points <<x, y>>.                       *)
(***************************************************************************)
\* The line through two points, at x.
OnLine(p, q, x) ==
  LET slope == IF p[1] < q[1] THEN Fraction(q[2] - p[2], q[1] - p[1])
                              ELSE Fraction(p[2] - q[2], p[1] - q[1])
  IN  Plus(Whole(p[2]), Times(slope, Minus(x, Whole(p[1]))))

\* Between two of its points a curve is a line; of points with one x the last counts.
OnCurve(curve, x) ==
  LET points == curve.points
      last == Len(points)
      low == Max({i \in 1..last : AtMost(Whole(points[i][1]), x)})
  IN  IF ~AtMost(Whole(points[1][1]), x) THEN curve.left
      ELSE IF ~AtMost(x, Whole(points[last][1])) THEN curve.right
      ELSE IF Whole(points[low][1]) = x THEN Whole(points[low][2])
      ELSE OnLine(points[low], points[low + 1], x)

\* sort_ndarray_by_column.
SortedBy(points, a) ==
  SetToSortSeq(points, LAMBDA i, j : At(i)[a] < At(j)[a] \/ (At(i)[a] = At(j)[a] /\ i < j))

(***************************************************************************)
(* The convex hull in two variables, ConvexHull and get_lower_upper_qhull.  *)
(***************************************************************************)
\* On which side of the line through i and j a point lies.
Side(i, j, p, a, b) ==
  Minus(Times(Whole(At(j)[a] - At(i)[a]), Minus(p[b], Whole(At(i)[b]))),
        Times(Whole(At(j)[b] - At(i)[b]), Minus(p[a], Whole(At(i)[a]))))[1]

Sides(i, j, points, a, b) == {Side(i, j, Exact(At(k)), a, b) : k \in points}

Edges(points, a, b) ==
  {e \in points \X points :
     /\ <<At(e[1])[a], At(e[1])[b]>> # <<At(e[2])[a], At(e[2])[b]>>
     /\ \A s \in Sides(e[1], e[2], points, a, b) : s >= 0}

\* "Select one point in the middle of the convex hull": the middle of its box.
Middle(points, a) ==
  Fraction(Min({At(i)[a] : i \in points}) + Max({At(i)[a] : i \in points}), 2)

\* The edges above (below) the middle in the direction a; both hold those that
\* run through it, neither those that are parallel to a.
OnEdge(e, a, b, x) == OnLine(<<At(e[1])[b], At(e[1])[a]>>, <<At(e[2])[b], At(e[2])[a]>>, x)

Across(points, a, b) == {e \in Edges(points, a, b) : At(e[1])[b] # At(e[2])[b]}

UpperEdges(points, a, b) ==
  {e \in Across(points, a, b) : AtMost(Middle(points, a), OnEdge(e, a, b, Middle(points, b)))}

LowerEdges(points, a, b) ==
  {e \in Across(points, a, b) : AtMost(OnEdge(e, a, b, Middle(points, b)), Middle(points, a))}

Ends(edges) == UNION {{e[1], e[2]} : e \in edges}

\* Along which the rate goes up with the suction pressure and down with the
\* discharge pressure.
RisesRightly(e, b) ==
  LET rates == At(e[2])[RATE] - At(e[1])[RATE]
      pressures == At(e[2])[b] - At(e[1])[b]
  IN  IF b = PS THEN rates * pressures >= 0 ELSE rates * pressures <= 0

\* Over b, what a is; beyond its ends the curve keeps its last value.
CurveOf(points, a, b) ==
  LET sorted == SortedBy(points, b)
  IN  [points |-> [i \in DOMAIN sorted |-> <<At(sorted[i])[b], At(sorted[i])[a]>>],
       left |-> Whole(At(Head(sorted))[a]), right |-> Whole(At(Last(sorted))[a])]

\* Mutant: a suction pressure has a lower limit like the others.
LowerLimitCurve(points, a, b) == CurveOf(Ends(LowerEdges(points, a, b)), a, b)

\* How far the other variable lets a variable be left where it is: its lower
\* limit, for a suction pressure the upper one.
LimitCurve(points, a, b) ==
  CurveOf(Ends(IF a = PS THEN UpperEdges(points, a, b) ELSE LowerEdges(points, a, b)), a, b)

\* The order in which two variables are moved.
Order(axes) ==
  IF axes = {PS, PD} THEN <<PD, PS>> ELSE IF axes = {RATE, PS} THEN <<RATE, PS>> ELSE <<RATE, PD>>

Projection(points, order) ==
  [order |-> order,
   first |-> LimitCurve(points, order[1], order[2]),
   second |-> LimitCurve(points, order[2], order[1])]

\* _project_variables_for_evaluation in two variables, and the first two steps of
\* _project_on_rate, _project_on_pd and _project_on_ps.
Projected(projection, p) ==
  LET a == projection.order[1]
      b == projection.order[2]
      q == [p EXCEPT ![a] = Moved(a, p[a], OnCurve(projection.first, p[b]))]
  IN  [q EXCEPT ![b] = Moved(b, p[b], OnCurve(projection.second, q[a]))]

(***************************************************************************)
(* The convex hull in three variables.                                      *)
(***************************************************************************)
\* Coefficients <<rate, ps, pd, constant>> of the plane through three points.
PlaneOf(i, j, k) ==
  LET u == [a \in RATE..PD |-> At(j)[a] - At(i)[a]]
      v == [a \in RATE..PD |-> At(k)[a] - At(i)[a]]
      n == <<u[2] * v[3] - u[3] * v[2], u[3] * v[1] - u[1] * v[3], u[1] * v[2] - u[2] * v[1]>>
  IN  Append(n, -(n[1] * At(i)[1] + n[2] * At(i)[2] + n[3] * At(i)[3]))

Triangles(points) ==
  {[corners |-> <<i, j, k>>, plane |-> PlaneOf(i, j, k)] : i, j, k \in points}

Distance(plane, p) ==
  Plus(Plus(Times(Whole(plane[1]), p[1]), Times(Whole(plane[2]), p[2])),
       Plus(Times(Whole(plane[3]), p[3]), Whole(plane[4])))

\* Triangles on the surface, with the plane turned inwards.
Facets ==
  {f \in Triangles(Rows) :
     /\ f.corners[1] < f.corners[2] /\ f.corners[1] < f.corners[3]
     /\ \E a \in RATE..PD : f.plane[a] # 0
     /\ \A i \in Rows : Distance(f.plane, Exact(At(i)))[1] >= 0}

\* The two variables other than a, in the order in which they are moved.
Others(a) == Order((RATE..PD) \ {a})

\* Where the plane of a facet lies in the direction a.
OnPlane(f, a, p) ==
  LET rest == Distance(f.plane, [p EXCEPT ![a] = Zero])
  IN  Times(rest, IF f.plane[a] > 0 THEN Fraction(-1, f.plane[a]) ELSE Fraction(1, -f.plane[a]))

MiddlePoint == [a \in RATE..PD |-> Middle(Rows, a)]

UpperFacets(a) ==
  {f \in Facets : f.plane[a] # 0 /\ AtMost(MiddlePoint[a], OnPlane(f, a, MiddlePoint))}

LowerFacets(a) ==
  {f \in Facets : f.plane[a] # 0 /\ AtMost(OnPlane(f, a, MiddlePoint), MiddlePoint[a])}

\* The upper facets on which the maximum rate rises with the suction pressure and
\* falls with the discharge pressure.
MonotonicFacets ==
  {f \in UpperFacets(RATE) : f.plane[PS] * f.plane[RATE] <= 0 /\ f.plane[PD] * f.plane[RATE] >= 0}

Corners(facets) == UNION {Range(f.corners) : f \in facets}

InTriangle(f, p, a, b) ==
  \A n \in 1..3 :
    LET i == f.corners[n]
        j == f.corners[(n % 3) + 1]
        k == f.corners[((n + 1) % 3) + 1]
    IN  Side(i, j, p, a, b) * Side(i, j, Exact(At(k)), a, b) >= 0

\* Whether a point lies within the circle through a triangle's corners.
InCircle(t, p, a, b) ==
  LET x == [n \in 1..3 |-> At(t.corners[n])[a] - p[a]]
      y == [n \in 1..3 |-> At(t.corners[n])[b] - p[b]]
      square == [n \in 1..3 |-> x[n] * x[n] + y[n] * y[n]]
  IN    square[1] * (x[2] * y[3] - x[3] * y[2]) - square[2] * (x[1] * y[3] - x[3] * y[1])
      + square[3] * (x[1] * y[2] - x[2] * y[1]) > 0

\* The triangles with which LinearNDInterpolator fills what facets leave open.
Delaunay(points, a, b) ==
  {t \in Triangles(points) :
     /\ Side(t.corners[1], t.corners[2], Exact(At(t.corners[3])), a, b) > 0
     /\ ~\E i \in points : InCircle(t, At(i), a, b)}

\* LinearInterpolatorSimplicesDefined: the facet a point lies under, else a
\* triangle that fills, else the fill value.
OnSurface(surface, a, p, fill) ==
  LET b == Others(a)[1]
      c == Others(a)[2]
      under(triangles) == {f \in triangles : InTriangle(f, p, b, c)}
  IN  IF under(surface.facets) # {} THEN OnPlane(CHOOSE f \in under(surface.facets) : TRUE, a, p)
      ELSE IF under(surface.filling) # {} THEN OnPlane(CHOOSE f \in under(surface.filling) : TRUE, a, p)
      ELSE fill

\* Beyond the ends of the pressure limits of the maximum rate the code has the
\* least and the greatest limit: it sorts by the limits, not by the variable.
ByValue(curve) ==
  LET values == {curve.points[i][2] : i \in DOMAIN curve.points}
  IN  [curve EXCEPT !.left = Whole(Min(values)), !.right = Whole(Max(values))]

SurfaceOf(facets, a) ==
  [facets |-> facets, filling |-> Delaunay(Corners(facets), Others(a)[1], Others(a)[2]),
   projection |-> Projection(Corners(facets), Others(a))]

MaximumSurface ==
  LET surface == SurfaceOf(MonotonicFacets, RATE)
  IN  [surface EXCEPT !.projection.first = ByValue(@), !.projection.second = ByValue(@)]

(***************************************************************************)
(* CompressorModelSampled.__init__                                          *)
(***************************************************************************)
Rejected(why) == [status |-> why]

FitCurve(a) ==
  IF Cardinality({At(i)[a] : i \in Rows}) < Len(table.rows) THEN Rejected("TypeError")
  ELSE [status |-> "ready", axes |-> {a}, low |-> Min({At(i)[a] : i \in Rows}), high |-> Max({At(i)[a] : i \in Rows})]

\* Mutant: the last rate of the curve holds beyond it.
UnboundedCurve(points, b) == CurveOf(points, RATE, b)

\* A discharge pressure above the curve, or a suction pressure below it, leaves
\* no rate.
MaximumCurve(points, b) ==
  LET curve == CurveOf(points, RATE, b)
  IN  IF b = PS THEN [curve EXCEPT !.left = Zero] ELSE [curve EXCEPT !.right = Zero]

FitPolygon(axes) ==
  LET order == Order(axes)
      b == order[2]
      rising == IF RATE \in axes THEN {e \in UpperEdges(Rows, RATE, b) : RisesRightly(e, b)} ELSE {}
  IN  IF \E e \in Edges(Rows, order[1], b) : \A i \in Rows : Side(e[1], e[2], Exact(At(i)), order[1], b) = 0
      THEN Rejected("QhullError")
      ELSE IF RATE \in axes /\ rising = {} THEN Rejected("IndexError")
      ELSE [status |-> "ready", axes |-> axes, projection |-> Projection(Rows, order),
            edges |-> Edges(Rows, order[1], b),
            maximum |-> IF RATE \in axes THEN MaximumCurve(Ends(rising), b) ELSE <<>>]

FitPolyhedron ==
  IF Facets = {} \/ (\E f \in Facets : \A i \in Rows : Distance(f.plane, Exact(At(i))) = Zero)
  THEN Rejected("QhullError")
  ELSE IF {} \in {LowerFacets(RATE), MonotonicFacets, LowerFacets(PD), UpperFacets(PS)}
  THEN Rejected("ValueError")
  ELSE [status |-> "ready", axes |-> RATE..PD, facets |-> Facets,
        rate |-> SurfaceOf(LowerFacets(RATE), RATE),
        maximum |-> MaximumSurface,
        pd |-> SurfaceOf(LowerFacets(PD), PD),
        ps |-> SurfaceOf(UpperFacets(PS), PS)]

Fit ==
  CASE Cardinality(Varying) = 0 -> Rejected("NotImplementedError")
    [] Cardinality(Varying) = 1 -> FitCurve(CHOOSE a \in Varying : TRUE)
    [] Cardinality(Varying) = 2 -> FitPolygon(Varying)
    [] OTHER -> FitPolyhedron

(***************************************************************************)
(* Evaluation                                                               *)
(***************************************************************************)
Undefined == <<>>
Off == <<0>>
Raised == <<"TypeError">>

\* CompressorModelSampled1D.evaluate: fill_value on the side the machine can be
\* moved from.
OnCurveFit(p) ==
  LET a == CHOOSE x \in fit.axes : TRUE
      moved == Moved(a, p[a], Whole(IF a = PS THEN fit.high ELSE fit.low))
  IN  IF AtMost(Whole(fit.low), moved) /\ AtMost(moved, Whole(fit.high))
      THEN [p EXCEPT ![a] = moved] ELSE Undefined

InPolygon(edges, p, a, b) == \A e \in edges : Side(e[1], e[2], p, a, b) >= 0

OnPolygon(p) ==
  LET q == Projected(fit.projection, p)
  IN  IF InPolygon(fit.edges, q, fit.projection.order[1], fit.projection.order[2]) THEN q ELSE Undefined

InPolyhedron(p) == \A f \in fit.facets : Distance(f.plane, p)[1] >= 0

\* The interpolators of the energy on a part of the surface are defined where
\* the points of that part have an interior.
Covers(surface, a, p) ==
  InPolygon(Edges(Corners(surface.facets), Others(a)[1], Others(a)[2]), p, Others(a)[1], Others(a)[2])

\* _project_and_calculate_outsiders_rate, _pd and _ps: the request lies outside
\* in the direction a when it does after the other two are moved.
OutsideRate(p) ==
  LET low == Projected(fit.rate.projection, p)
      least == OnSurface(fit.rate, RATE, low, Zero)
      high == Projected(fit.maximum.projection, p)
      most == OnSurface(fit.maximum, RATE, high, Zero)
      taken(surface, q, r) == IF Covers(surface, RATE, q) THEN [q EXCEPT ![RATE] = r] ELSE Undefined
  IN  IF p[RATE] = most THEN taken(fit.maximum, high, most)
      ELSE IF AtMost(p[RATE], least) THEN taken(fit.rate, low, least)
      ELSE Undefined

OutsidePd(p) ==
  LET q == Projected(fit.pd.projection, p)
      least == OnSurface(fit.pd, PD, q, Zero)
  IN  IF AtMost(p[PD], least) /\ Covers(fit.pd, PD, q) THEN [q EXCEPT ![PD] = least] ELSE Undefined

OutsidePs(p) ==
  LET q == Projected(fit.ps.projection, p)
      most == OnSurface(fit.ps, PS, q, Inf)
  IN  IF most # Inf /\ AtMost(most, p[PS]) /\ Covers(fit.ps, PS, q) THEN [q EXCEPT ![PS] = most] ELSE Undefined

OnPolyhedron(p) ==
  IF InPolyhedron(p) THEN p
  ELSE IF OutsideRate(p) # Undefined THEN OutsideRate(p)
  ELSE IF OutsidePd(p) # Undefined THEN OutsidePd(p)
  ELSE OutsidePs(p)

\* Columns with one value: what the machine can be moved to, or not.
DegeneratedOk(r) ==
  \A a \in table.given \ Varying : IF a = PS THEN r[a] >= At(1)[a] ELSE r[a] <= At(1)[a]

Interpolated(p) ==
  CASE Cardinality(fit.axes) = 1 -> OnCurveFit(p)
    [] Cardinality(fit.axes) = 2 -> OnPolygon(p)
    [] OTHER -> OnPolyhedron(p)

\* No rate means that the machine is off.
UsagePoint(r) ==
  IF RATE \in table.given /\ r[RATE] = 0 THEN Off
  ELSE IF DegeneratedOk(r) THEN Interpolated(Exact(r)) ELSE Undefined

\* get_max_rate of the interpolators in two and three variables.
MaxRate(r) ==
  IF Cardinality(fit.axes) = 3
  THEN OnSurface(fit.maximum, RATE, Projected(fit.maximum.projection, Exact(r)), Zero)
  ELSE OnCurve(fit.maximum, Whole(r[fit.projection.order[2]]))

\* CompressorModelSampled.get_max_standard_rate, which a consumer system with a
\* cross-over asks for: get_max_rate is called without the pressures it needs.
MaxStandardRate ==
  IF RATE \notin table.given THEN NaN
  ELSE IF RATE \notin fit.axes THEN Whole(At(1)[RATE])
  ELSE IF Cardinality(fit.axes) = 1 THEN Whole(fit.high)
  ELSE Raised

-----------------------------------------------------------------------------
InitSampled ==
  /\ fit = [status |-> "none"]
  /\ request = [call |-> "none"]
  /\ reply = Undefined

Build ==
  /\ fit.status = "none"
  /\ fit' = Fit
  /\ UNCHANGED <<table, request, reply>>

\* A column the table does not have is not asked for.
Asked == {r \in Requests : \A a \in (RATE..PD) \ table.given : r[a] = 0}

Ask(call) ==
  /\ fit.status = "ready" /\ request.call = "none"
  /\ \E r \in Asked : request' = [call |-> call, at |-> r]
  /\ UNCHANGED <<table, fit>>

Evaluate ==
  /\ Ask("evaluate")
  /\ reply' = UsagePoint(request'.at)

AskMaxRate ==
  /\ Ask("get_max_rate")
  /\ RATE \in fit.axes /\ Cardinality(fit.axes) > 1
  /\ reply' = MaxRate(request'.at)

AskMaxStandardRate ==
  /\ Ask("get_max_standard_rate")
  /\ reply' = MaxStandardRate

NextSampled == Build \/ Evaluate \/ AskMaxRate \/ AskMaxStandardRate

-----------------------------------------------------------------------------
IsInside(p) ==
  CASE Cardinality(fit.axes) = 1 ->
         \A a \in fit.axes : AtMost(Whole(fit.low), p[a]) /\ AtMost(p[a], Whole(fit.high))
    [] Cardinality(fit.axes) = 2 -> InPolygon(fit.edges, p, fit.projection.order[1], fit.projection.order[2])
    [] OTHER -> InPolyhedron(p)

\* Recirculation and chokes turn the request into the point.
Serves(p, r) ==
  \A a \in table.given : IF a = PS THEN AtMost(p[a], r[a]) ELSE AtMost(r[a], p[a])

IsServed(r) == DegeneratedOk(r) /\ \E p \in Asked : IsInside(Exact(p)) /\ Serves(Exact(p), Exact(r))

\* "Select one point in the middle of the convex hull" (convex_hull_common.py:109)
\* takes the middle of the bounding box, which the hull need not contain.
MiddleIsInside ==
  CASE Cardinality(fit.axes) = 1 -> TRUE
    [] Cardinality(fit.axes) = 2 ->
         \A e \in fit.edges : Side(e[1], e[2], MiddlePoint, fit.projection.order[1], fit.projection.order[2]) > 0
    [] OTHER -> \A f \in fit.facets : Distance(f.plane, MiddlePoint)[1] > 0

\* "Outside the input_data, there are extrapolations consistent with ASV and
\* choking": whenever some sampled point serves a request it is answered, always
\* at a point that serves it, and a request that needs no help is left alone.
SampledRunsWhatItCan ==
  request.call = "evaluate" /\ reply # Off /\ MiddleIsInside =>
    /\ IsServed(request.at) => reply # Undefined
    /\ reply # Undefined =>
         /\ IsInside(reply)
         /\ DegeneratedOk(request.at) /\ Serves(reply, Exact(request.at))
         /\ IsInside(Exact(request.at)) => reply = Exact(request.at)

InRange(r) == \A a \in {PS, PD} : \E i, j \in Rows : At(i)[a] <= r[a] /\ r[a] <= At(j)[a]

\* The maximum rate at some pressures can be run, and no rate above it can.  In
\* three variables this holds within the sampled pressures, where the maximum
\* rate of the samples rises and falls with the pressures as it should.
SampledMaxRateIsReal ==
  /\ request.call = "get_max_rate" /\ MiddleIsInside
  /\ Cardinality(fit.axes) = 3 => UpperFacets(RATE) = MonotonicFacets /\ InRange(request.at)
  =>
    /\ reply # Zero => Interpolated([Exact(request.at) EXCEPT ![RATE] = reply]) # Undefined
    /\ \A r \in Asked :
         r[PS] = request.at[PS] /\ r[PD] = request.at[PD] /\ r[RATE] > 0 /\ IsServed(r) =>
           AtMost(Whole(r[RATE]), reply)

=============================================================================
