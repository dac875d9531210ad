-------------------------------- MODULE Chart --------------------------------
(***************************************************************************)
(* The chart of a pump or a compressor (value_objects/chart): curves of the *)
(* head over the volume rate, one per speed, and the lines that bound the   *)
(* area they span.                                                          *)
(*                                                                         *)
(* A chart is a sequence of curves [speed, points] by increasing speed, the *)
(* points of a curve pairs <<rate, head>> of fractions, by increasing rate. *)
(* The model assumes what the code assumes and only warns about: along a    *)
(* curve the head falls, and speed moves both ends of a curve up and right. *)
(* Efficiencies are left out.                                               *)
(***************************************************************************)
EXTENDS Integers, Sequences, SequencesExt, FiniteSetsExt

LOCAL INSTANCE Rational

Below(x, y) == ~AtMost(y, x)
GreaterOf(x, y) == IF AtMost(x, y) THEN y ELSE x

(***************************************************************************)
(* interp1d: a polyline through points <<x, y>> by increasing x, constant   *)
(* beyond its ends.                                                         *)
(***************************************************************************)
Segment(p, q, x) ==
  Plus(p[2], Times(Over(Minus(q[2], p[2]), Minus(q[1], p[1])), Minus(x, p[1])))

Along(points, x) ==
  LET UpTo(i) == IF i = 1 THEN points[1][2]
                 ELSE IF i > Len(points) THEN Last(points)[2]
                 ELSE Segment(points[i - 1], points[i], x)
  IN  UpTo(Min({i \in DOMAIN points : AtMost(x, points[i][1])} \cup {Len(points) + 1}))

Turned(point) == <<point[2], point[1]>>

\* The rate over the head, by increasing head.
ByHead(curve) == [i \in DOMAIN curve.points |-> Turned(Reverse(curve.points)[i])]

(***************************************************************************)
(* Curves.                                                                  *)
(***************************************************************************)
LeftEnd(curve)  == Head(curve.points)
RightEnd(curve) == Last(curve.points)
Slowest(chart)  == Head(chart)
Fastest(chart)  == Last(chart)

\* adjust_for_control_margin: a share of the rates is cut off a curve's left end.
CutBy(curve, margin) ==
  LET least == LeftEnd(curve)[1]
      cut   == Plus(least, Times(Minus(RightEnd(curve)[1], least), margin))
      Kept(p) == Below(cut, p[1])
  IN  IF margin = Zero THEN curve
      ELSE [curve EXCEPT !.points = <<<<cut, Along(@, cut)>>>> \o SelectSeq(@, Kept)]

\* UserDefinedChartData.get_adjusted_curves
AdjustedCurves(chart, margin) == [i \in DOMAIN chart |-> CutBy(chart[i], margin)]

(***************************************************************************)
(* The bounds of the area.                                                  *)
(***************************************************************************)
\* Along the slowest curve and then up the stone wall, the line between the right
\* ends of the slowest and the fastest curve.
MinimumHead(chart, rate) ==
  LET wall == RightEnd(Fastest(chart))
  IN  IF Below(RightEnd(Slowest(chart))[1], wall[1])
      THEN Along(Append(Slowest(chart).points, wall), rate)
      ELSE Along(Slowest(chart).points, rate)

MaximumHead(chart, rate) == Along(Fastest(chart).points, rate)

\* Along the flow line, between the left ends of the slowest and the fastest curve.
MinimumFlow(chart, head) ==
  Along(<<Turned(LeftEnd(Slowest(chart))), Turned(LeftEnd(Fastest(chart)))>>, head)

\* The same where a head below the flow line is not choked up to it.
MinimumFlowUnchoked(chart, head) ==
  Along(Append(ByHead(Slowest(chart)), Turned(LeftEnd(Fastest(chart)))), head)

MaximumFlow(chart, head) == Along(ByHead(Fastest(chart)), head)

\* The same where a head right of the stone wall is not choked up to it.
MaximumFlowUnchoked(chart, head) ==
  Along(<<Turned(RightEnd(Slowest(chart)))>> \o ByHead(Fastest(chart)), head)

\* Over the speed: the ends of the curves, straight lines from one to the next.
MinimumFlowAt(chart, speed) ==
  Along([i \in DOMAIN chart |-> <<chart[i].speed, LeftEnd(chart[i])[1]>>], speed)

MaximumFlowAt(chart, speed) ==
  Along([i \in DOMAIN chart |-> <<chart[i].speed, RightEnd(chart[i])[1]>>], speed)

RightHeadAt(chart, speed) ==
  Along([i \in DOMAIN chart |-> <<chart[i].speed, RightEnd(chart[i])[2]>>], speed)

\* What the chart can deliver when more may be pumped round and the pressure choked:
\* some point of the fastest curve lies as far right and as high.
CanDeliver(chart, rate, head) ==
  LET fast == Fastest(chart).points
  IN  \/ \E i \in DOMAIN fast : AtMost(rate, fast[i][1]) /\ AtMost(head, fast[i][2])
      \/ \E i \in 2..Len(fast) :
           /\ AtMost(fast[i - 1][1], rate) /\ AtMost(rate, fast[i][1])
           /\ AtMost(Times(Minus(head, fast[i - 1][2]), Minus(fast[i][1], fast[i - 1][1])),
                     Times(Minus(rate, fast[i - 1][1]), Minus(fast[i][2], fast[i - 1][2])))

\* The point lies on the area between the curves.
InArea(chart, rate, head) ==
  /\ AtMost(MinimumFlow(chart, head), rate)
  /\ AtMost(MinimumHead(chart, rate), head)
  /\ CanDeliver(chart, rate, head)

==============================================================================
