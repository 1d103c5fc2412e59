----------------------------- MODULE FanFloor -----------------------------
(***************************************************************************)
(* The high-TDP fan floor: which fan curve a sustained power limit (PL1)   *)
(* needs.  Pure functions of internal/cli/tdp.go and internal/cli/fan.go.  *)
(* A curve is eight points; the absent curve, nil in Go, is NoCurve.       *)
(***************************************************************************)
EXTENDS Integers

TDPMin == 5
TDPMaxSafe == 75
TDPMaxForced == 93
HighTDPMinPWM == 127

Point == [temp : 0..120, pwm : 0..255]
Index == 1..8

\* What ParseFanCurve accepts: temperatures rise, PWM never falls.
FanCurve ==
  { c \in [Index -> Point] :
      \A i, j \in Index : i < j => /\ c[i].temp < c[j].temp
                                   /\ c[i].pwm <= c[j].pwm }

NoCurve == <<>>

At(t, p) == [temp |-> t, pwm |-> p]

HighTDPFanCurve ==
  << At(30, HighTDPMinPWM), At(40, HighTDPMinPWM), At(50, 140), At(60, 165),
     At(65, 190), At(70, 215), At(75, 235), At(80, 255) >>

\* The PWM a controller runs at temp t on the segment from lo to hi.  Go's
\* integer division truncates, and no operand here is negative.
OnSegment(lo, hi, t) ==
  lo.pwm + ((hi.pwm - lo.pwm) * (t - lo.temp)) \div (hi.temp - lo.temp)

\* The piecewise-linear reading of a curve: flat before the first point and
\* after the last one.
PWMAt(c, t) ==
  IF t <= c[1].temp THEN c[1].pwm
  ELSE IF t > c[8].temp THEN c[8].pwm
  ELSE LET i == CHOOSE k \in 1..7 : c[k].temp < t /\ t <= c[k + 1].temp
       IN  OnSegment(c[i], c[i + 1], t)

\* A defect the checks must catch: the last segment is extended upwards.
FloorPastTop(t) ==
  IF t <= 80 THEN PWMAt(HighTDPFanCurve, t)
  ELSE OnSegment(HighTDPFanCurve[7], HighTDPFanCurve[8], t)

FloorPWMAt(t) == PWMAt(HighTDPFanCurve, t)

MeetsFloor(c) == \A i \in Index : c[i].pwm >= FloorPWMAt(c[i].temp)

\* A defect the checks must catch: the scalar minimum in place of the ramp.
RaiseToScalar(p) == IF p.pwm < HighTDPMinPWM THEN At(p.temp, HighTDPMinPWM) ELSE p

RaisePoint(p) ==
  IF p.pwm < FloorPWMAt(p.temp) THEN At(p.temp, FloorPWMAt(p.temp)) ELSE p

\* A defect the checks must catch: the floor replaces every curve.
FloorReplaces(pl1, want) == IF pl1 <= TDPMaxSafe THEN NoCurve ELSE HighTDPFanCurve

\* A defect the checks must catch: a curve of the user's own is not raised.
FloorTrustsUser(pl1, want) ==
  IF pl1 <= TDPMaxSafe THEN NoCurve
  ELSE IF want = NoCurve THEN HighTDPFanCurve ELSE want

\* The curve that must be in force under pl1; NoCurve when pl1 imposes nothing.
FanCurveForTDP(pl1, want) ==
  IF pl1 <= TDPMaxSafe THEN NoCurve
  ELSE IF want = NoCurve THEN HighTDPFanCurve
  ELSE [i \in Index |-> RaisePoint(want[i])]

\* TRUE when the request is accepted.
CheckCurveAgainstTDP(points, pl1) == pl1 <= TDPMaxSafe \/ MeetsFloor(points)

CheckFanFloorReleaseAt(pl1) == pl1 <= TDPMaxSafe

\* The curve reconcileOnce writes for the limit now in force.
ReconcileCurveFor(floorLimit, want) ==
  IF FanCurveForTDP(floorLimit, want) # NoCurve
  THEN FanCurveForTDP(floorLimit, want)
  ELSE want

=============================================================================
