-------------------------- MODULE FanFloor_proofs --------------------------
(***************************************************************************)
(* What the high-TDP floor guarantees for every curve and every limit.     *)
(***************************************************************************)
EXTENDS FanFloor, TLAPS

\* The ramp itself is a curve ParseFanCurve would accept.
LEMMA RampIsCurve == HighTDPFanCurve \in FanCurve
  BY DEF HighTDPFanCurve, FanCurve, Index, Point, At, HighTDPMinPWM

\* FloorPWMAt, unfolded over the ramp's segments.
Ramp(t) ==
  IF t <= 40 THEN 127
  ELSE IF t <= 50 THEN 127 + (13 * (t - 40)) \div 10
  ELSE IF t <= 60 THEN 140 + (25 * (t - 50)) \div 10
  ELSE IF t <= 65 THEN 165 + (25 * (t - 60)) \div 5
  ELSE IF t <= 70 THEN 190 + (25 * (t - 65)) \div 5
  ELSE IF t <= 75 THEN 215 + (20 * (t - 70)) \div 5
  ELSE IF t <= 80 THEN 235 + (20 * (t - 75)) \div 5
  ELSE 255

LEMMA RampSegments ==
  ASSUME NEW t \in 0..120
  PROVE  FloorPWMAt(t) = Ramp(t)
<1> DEFINE H == HighTDPFanCurve
<1>1. /\ H[1] = At(30, 127) /\ H[2] = At(40, 127) /\ H[3] = At(50, 140)
      /\ H[4] = At(60, 165) /\ H[5] = At(65, 190) /\ H[6] = At(70, 215)
      /\ H[7] = At(75, 235) /\ H[8] = At(80, 255)
  BY DEF HighTDPFanCurve, HighTDPMinPWM
<1>2. CASE t <= 30
  BY <1>1, <1>2 DEF FloorPWMAt, PWMAt, Ramp, At
<1>3. CASE t > 80
  BY <1>1, <1>3 DEF FloorPWMAt, PWMAt, Ramp, At
<1>4. CASE t > 30 /\ t <= 80
  <2> DEFINE On(k) == H[k].temp < t /\ t <= H[k + 1].temp
             I == CHOOSE k \in 1..7 : On(k)
  <2>1. FloorPWMAt(t) = OnSegment(H[I], H[I + 1], t)
    BY <1>1, <1>4 DEF FloorPWMAt, PWMAt, At
  <2>2. \E k \in 1..7 : On(k)
    BY <1>1, <1>4 DEF At
  <2>3. I \in 1..7 /\ On(I)
    BY <2>2
  <2>4. ASSUME NEW k \in 1..7, On(k)
        PROVE  OnSegment(H[k], H[k + 1], t) = Ramp(t)
    <3>1. CASE k = 1 BY <1>1, <2>4, <3>1 DEF OnSegment, Ramp, At
    <3>2. CASE k = 2 BY <1>1, <2>4, <3>2 DEF OnSegment, Ramp, At
    <3>3. CASE k = 3 BY <1>1, <2>4, <3>3 DEF OnSegment, Ramp, At
    <3>4. CASE k = 4 BY <1>1, <2>4, <3>4 DEF OnSegment, Ramp, At
    <3>5. CASE k = 5 BY <1>1, <2>4, <3>5 DEF OnSegment, Ramp, At
    <3>6. CASE k = 6 BY <1>1, <2>4, <3>6 DEF OnSegment, Ramp, At
    <3>7. CASE k = 7 BY <1>1, <2>4, <3>7 DEF OnSegment, Ramp, At
    <3> QED BY <3>1, <3>2, <3>3, <3>4, <3>5, <3>6, <3>7
  <2> QED
    BY <2>1, <2>3, <2>4
<1> QED BY <1>2, <1>3, <1>4

\* The floor is a PWM, and it never falls as the temperature rises.
LEMMA FloorMonotone ==
  /\ \A t \in 0..120 : FloorPWMAt(t) \in 0..255
  /\ \A t, u \in 0..120 : t <= u => FloorPWMAt(t) <= FloorPWMAt(u)
<1>1. ASSUME NEW t \in 0..120 PROVE Ramp(t) \in 127..255
  BY DEF Ramp
<1>2. ASSUME NEW t \in 0..120, NEW u \in 0..120, t <= u PROVE Ramp(t) <= Ramp(u)
  BY <1>2 DEF Ramp
<1>3. ASSUME NEW t \in 0..120 PROVE FloorPWMAt(t) \in 0..255
  BY <1>1, RampSegments
<1>4. ASSUME NEW t \in 0..120, NEW u \in 0..120, t <= u
      PROVE  FloorPWMAt(t) <= FloorPWMAt(u)
  <2>1. FloorPWMAt(t) = Ramp(t) BY RampSegments
  <2>2. FloorPWMAt(u) = Ramp(u) BY RampSegments
  <2> QED BY <1>2, <1>4, <2>1, <2>2
<1> QED BY <1>3, <1>4

\* A raised point stays at its temperature, at the higher of its own PWM and
\* the floor's.
LEMMA RaisedPoint ==
  ASSUME NEW p \in Point
  PROVE  /\ RaisePoint(p) \in Point
         /\ RaisePoint(p).temp = p.temp
         /\ RaisePoint(p).pwm >= p.pwm
         /\ RaisePoint(p).pwm >= FloorPWMAt(p.temp)
         /\ RaisePoint(p).pwm \in {p.pwm, FloorPWMAt(p.temp)}
<1>1. PICK w \in 0..255 : w = p.pwm
  BY DEF Point
<1>2. p.temp \in 0..120
  BY DEF Point
<1>3. PICK f \in 0..255 : f = FloorPWMAt(p.temp)
  BY <1>2, FloorMonotone
<1>4. CASE w < f
  <2>1. RaisePoint(p) = [temp |-> p.temp, pwm |-> f]
    BY <1>1, <1>3, <1>4 DEF RaisePoint, At
  <2>2. RaisePoint(p) \in Point
    BY <1>2, <2>1 DEF Point
  <2>3. RaisePoint(p).temp = p.temp /\ RaisePoint(p).pwm = f
    BY <2>1
  <2>4. f >= w /\ f >= f
    BY <1>4
  <2> QED BY <1>1, <1>3, <2>2, <2>3, <2>4, Zenon
<1>5. CASE ~(w < f)
  <2>1. RaisePoint(p) = p
    BY <1>1, <1>3, <1>5 DEF RaisePoint
  <2>2. w >= w /\ w >= f
    BY <1>5
  <2> QED BY <1>1, <1>3, <2>1, <2>2, Zenon
<1> QED BY <1>4, <1>5

\* Raising keeps two points in order.
LEMMA RaisedPair ==
  ASSUME NEW p \in Point, NEW q \in Point, p.temp < q.temp, p.pwm <= q.pwm
  PROVE  /\ RaisePoint(p).temp < RaisePoint(q).temp
         /\ RaisePoint(p).pwm <= RaisePoint(q).pwm
<1>1. p.temp \in 0..120 /\ q.temp \in 0..120
  BY DEF Point
<1>2. p.temp <= q.temp
  BY DEF Point
<1>3. PICK w \in 0..255, v \in 0..255 : w = p.pwm /\ v = q.pwm
  BY DEF Point
<1>4. PICK f \in 0..255, g \in 0..255 :
        f = FloorPWMAt(p.temp) /\ g = FloorPWMAt(q.temp)
  BY <1>1, FloorMonotone
<1>5. f <= g
  BY <1>1, <1>2, <1>4, FloorMonotone
<1>6. RaisePoint(p).temp < RaisePoint(q).temp
  BY RaisedPoint
<1>7. RaisePoint(p).pwm \in {w, f}
  BY <1>3, <1>4, RaisedPoint
<1>8. PICK x \in 0..255 : x = RaisePoint(q).pwm
  <2>1. RaisePoint(q) \in Point
    BY RaisedPoint
  <2> QED BY <2>1 DEF Point
<1>9. x >= v /\ x >= g
  BY <1>3, <1>4, <1>8, RaisedPoint, Zenon
<1>10. w <= x /\ f <= x
  <2>1. w <= v
    BY <1>3, Zenon
  <2> QED BY <1>5, <1>9, <2>1
<1>11. RaisePoint(p).pwm <= x
  BY <1>7, <1>10, Zenon
<1> QED BY <1>6, <1>8, <1>11, Zenon

\* Raising a curve point by point keeps it a curve (FanCurveForTDP writes only
\* what ParseFanCurve would accept), puts every point at or above the floor,
\* and lowers none.
THEOREM RaisedCurve ==
  ASSUME NEW c \in FanCurve
  PROVE  LET r == [i \in Index |-> RaisePoint(c[i])]
         IN  /\ r \in FanCurve
             /\ MeetsFloor(r)
             /\ \A i \in Index : r[i].pwm >= c[i].pwm /\ r[i].temp = c[i].temp
<1> DEFINE r == [i \in Index |-> RaisePoint(c[i])]
<1>1. \A i \in Index : c[i] \in Point
  BY DEF FanCurve
<1>2. ASSUME NEW i \in Index
      PROVE  /\ r[i] \in Point
             /\ r[i].temp = c[i].temp
             /\ r[i].pwm >= c[i].pwm
             /\ r[i].pwm >= FloorPWMAt(r[i].temp)
  <2>1. c[i] \in Point
    BY <1>1
  <2>2. r[i] = RaisePoint(c[i])
    OBVIOUS
  <2> QED BY <2>1, <2>2, RaisedPoint
<1>3. ASSUME NEW i \in Index, NEW j \in Index, i < j
      PROVE  r[i].temp < r[j].temp /\ r[i].pwm <= r[j].pwm
  <2>1. c[i] \in Point /\ c[j] \in Point
    BY <1>1
  <2>2. c[i].temp < c[j].temp /\ c[i].pwm <= c[j].pwm
    BY <1>3 DEF FanCurve
  <2>3. r[i] = RaisePoint(c[i]) /\ r[j] = RaisePoint(c[j])
    OBVIOUS
  <2> QED BY <2>1, <2>2, <2>3, RaisedPair
<1>4. r \in FanCurve
  <2>1. r \in [Index -> Point]
    BY <1>2
  <2> QED BY <1>3, <2>1 DEF FanCurve
<1>5. MeetsFloor(r)
  BY <1>2 DEF MeetsFloor
<1> QED
  BY <1>2, <1>4, <1>5

\* The ramp meets the floor: it is the floor.
LEMMA RampMeetsFloor == MeetsFloor(HighTDPFanCurve)
<1> DEFINE H == HighTDPFanCurve
<1>1. /\ H[1] = At(30, 127) /\ H[2] = At(40, 127) /\ H[3] = At(50, 140)
      /\ H[4] = At(60, 165) /\ H[5] = At(65, 190) /\ H[6] = At(70, 215)
      /\ H[7] = At(75, 235) /\ H[8] = At(80, 255)
  BY DEF HighTDPFanCurve, HighTDPMinPWM
<1>2. ASSUME NEW i \in Index PROVE H[i].pwm = Ramp(H[i].temp)
  BY <1>1 DEF Ramp, At, Index
<1>3. ASSUME NEW i \in Index PROVE H[i].temp \in 0..120 /\ H[i].pwm \in 0..255
  BY <1>1 DEF At, Index
<1>4. ASSUME NEW i \in Index PROVE H[i].pwm >= FloorPWMAt(H[i].temp)
  <2>1. FloorPWMAt(H[i].temp) = Ramp(H[i].temp)
    BY <1>3, RampSegments
  <2> QED BY <1>2, <1>3, <2>1
<1> QED BY <1>4 DEF MeetsFloor

\* The fan curve a limit demands exists exactly above TDPMaxSafe; it is a
\* curve, and it meets the floor.
THEOREM FloorForTDP ==
  ASSUME NEW pl1 \in Int, NEW want \in FanCurve \cup {NoCurve}
  PROVE  /\ pl1 <= TDPMaxSafe => FanCurveForTDP(pl1, want) = NoCurve
         /\ pl1 > TDPMaxSafe =>
              /\ FanCurveForTDP(pl1, want) \in FanCurve
              /\ MeetsFloor(FanCurveForTDP(pl1, want))
  BY RaisedCurve, RampIsCurve, RampMeetsFloor DEF FanCurveForTDP, TDPMaxSafe

\* The absent curve is not a curve.
LEMMA NoCurveIsNone == NoCurve \notin FanCurve
<1>1. ASSUME NoCurve \in FanCurve PROVE FALSE
  <2>1. DOMAIN NoCurve = 1..8
    BY <1>1 DEF FanCurve, Index
  <2>2. DOMAIN NoCurve = {}
    BY DEF NoCurve
  <2> QED BY <2>1, <2>2
<1> QED BY <1>1

\* On a curve that meets the floor no point is below HighTDPMinPWM.
LEMMA FloorIsMinimum ==
  ASSUME NEW c \in FanCurve, MeetsFloor(c), NEW i \in Index
  PROVE  c[i].pwm >= HighTDPMinPWM
<1>1. c[i] \in Point
  BY DEF FanCurve
<1>2. PICK t \in 0..120, w \in 0..255 : t = c[i].temp /\ w = c[i].pwm
  BY <1>1 DEF Point
<1>3. w >= FloorPWMAt(t)
  BY <1>2 DEF MeetsFloor
<1>4. Ramp(t) \in 127..255
  BY DEF Ramp
<1>5. FloorPWMAt(t) = Ramp(t)
  BY RampSegments
<1> QED BY <1>2, <1>3, <1>4, <1>5 DEF HighTDPMinPWM

=============================================================================
