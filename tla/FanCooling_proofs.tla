------------------------- MODULE FanCooling_proofs -------------------------
(***************************************************************************)
(* What a floor that is checked and raised at the points guarantees for    *)
(* the temperatures between them: the piecewise-linear reading, integer    *)
(* division included, is monotone in the points.                           *)
(***************************************************************************)
EXTENDS FanCooling, FanFloor_proofs

-----------------------------------------------------------------------------
(* Reading a curve between its points.                                     *)

\* Integer division by a positive number, between its neighbours.
LEMMA Quotient ==
  ASSUME NEW a \in Nat, NEW b \in Nat \ {0}
  PROVE  /\ a \div b \in Nat
         /\ b * (a \div b) <= a
         /\ a < b * (a \div b) + b
  OBVIOUS

\* A factor is cancelled from an inequality.
LEMMA Cancel ==
  ASSUME NEW b \in Nat \ {0}, NEW x \in Int, NEW y \in Int, b * x < b * y
  PROVE  x < y
<1>1. ASSUME y <= x PROVE FALSE
  <2>1. PICK d \in Nat : x = y + d
    BY <1>1
  <2>2. b * x = b * y + b * d
    BY <2>1
  <2>3. b * d >= 0 /\ b * x \in Int /\ b * y \in Int
    OBVIOUS
  <2> QED BY <2>2, <2>3
<1> QED BY <1>1

\* The value at k steps of n on a segment that rises from l to h.
On(l, h, k, n) == l + ((h - l) * k) \div n

LEMMA SegmentAbove ==
  ASSUME NEW l \in Nat, NEW h \in Nat, l <= h, NEW k \in Nat, NEW n \in Nat \ {0}
  PROVE  On(l, h, k, n) \in Nat /\ On(l, h, k, n) >= l
<1>1. (h - l) * k \in Nat
  <2>1. h - l \in Nat OBVIOUS
  <2> QED BY <2>1
<1> QED BY <1>1, Quotient DEF On

\* Raising both ends raises the segment everywhere between them.
LEMMA SegmentMonotone ==
  ASSUME NEW l \in Nat, NEW h \in Nat, l <= h,
         NEW m \in Nat, NEW g \in Nat, m <= g,
         l <= m, h <= g,
         NEW n \in Nat \ {0}, NEW k \in 0..n
  PROVE  On(m, g, k, n) >= On(l, h, k, n)
<1>1. PICK u \in Nat : u = (h - l) * k
  <2>1. h - l \in Nat OBVIOUS
  <2> QED BY <2>1
<1>2. PICK v \in Nat : v = (g - m) * k
  <2>1. g - m \in Nat OBVIOUS
  <2> QED BY <2>1
<1>3. v >= u - n * (m - l)
  <2>1. PICK d \in Nat : g = h + d
    BY SMT
  <2>2. PICK e \in Nat : m = l + e
    BY SMT
  <2>3. PICK r \in Nat : n = k + r
    BY SMT
  <2>4. v = u + d * k - e * k
    BY <1>1, <1>2, <2>1, <2>2
  <2>5. n * (m - l) = k * e + r * e
    BY <2>2, <2>3
  <2>6. d * k \in Nat /\ r * e \in Nat /\ k * e = e * k /\ k * e \in Nat
    BY <2>1, <2>2, <2>3
  <2> QED BY <2>4, <2>5, <2>6
<1>4. PICK q \in Nat : q = u \div n /\ n * q <= u
  BY Quotient
<1>5. PICK p \in Nat : p = v \div n /\ v < n * p + n
  BY Quotient
<1>6. n * (q - (m - l)) < n * (p + 1)
  <2>1. n * (q - (m - l)) = n * q - n * (m - l) /\ n * (p + 1) = n * p + n
    OBVIOUS
  <2>2. n * q \in Int /\ n * (m - l) \in Int /\ n * p \in Int
    OBVIOUS
  <2> QED BY <1>3, <1>4, <1>5, <2>1, <2>2
<1>7. q - (m - l) < p + 1
  BY <1>6, Cancel
<1> QED BY <1>1, <1>2, <1>4, <1>5, <1>7 DEF On

\* Where the controller reads a curve at temperature t.
Around(c, t, k) == c[k].temp < t /\ t <= c[k + 1].temp

LEMMA CurvePoints ==
  ASSUME NEW c \in FanCurve, NEW i \in Index
  PROVE  c[i].temp \in Nat /\ c[i].pwm \in Nat
<1>1. c[i] \in Point
  BY DEF FanCurve
<1> QED BY <1>1 DEF Point

LEMMA CurveRises ==
  ASSUME NEW c \in FanCurve, NEW k \in 1..7
  PROVE  c[k].temp < c[k + 1].temp /\ c[k].pwm <= c[k + 1].pwm
<1>1. k \in Index /\ k + 1 \in Index /\ k < k + 1
  BY DEF Index
<1> QED BY <1>1 DEF FanCurve

\* Between the first and the last point a segment is found.
LEMMA SegmentExists ==
  ASSUME NEW c \in FanCurve, NEW t \in Nat, t > c[1].temp, t <= c[8].temp
  PROVE  \E k \in 1..7 : Around(c, t, k)
<1>1. \A k \in 1..8 : c[k].temp \in Nat
  BY CurvePoints DEF Index
<1>2. ASSUME \A k \in 1..7 : ~Around(c, t, k) PROVE FALSE
  <2>1. \A k \in 1..7 : t > c[k].temp => t > c[k + 1].temp
    BY <1>1, <1>2 DEF Around
  <2>2. t > c[2].temp BY <2>1
  <2>3. t > c[3].temp BY <2>1, <2>2
  <2>4. t > c[4].temp BY <2>1, <2>3
  <2>5. t > c[5].temp BY <2>1, <2>4
  <2>6. t > c[6].temp BY <2>1, <2>5
  <2>7. t > c[7].temp BY <2>1, <2>6
  <2>8. t > c[8].temp BY <2>1, <2>7
  <2> QED BY <1>1, <2>8
<1> QED BY <1>2

\* Every temperature is read before the first point, after the last one, or on
\* a segment of its own.
LEMMA Reading ==
  ASSUME NEW c \in FanCurve, NEW t \in Nat
  PROVE  \/ t <= c[1].temp /\ PWMAt(c, t) = c[1].pwm
         \/ t > c[8].temp /\ PWMAt(c, t) = c[8].pwm
         \/ /\ t > c[1].temp /\ t <= c[8].temp
            /\ LET k == CHOOSE j \in 1..7 : Around(c, t, j) IN
               /\ k \in 1..7 /\ Around(c, t, k)
               /\ PWMAt(c, t) = On(c[k].pwm, c[k + 1].pwm, t - c[k].temp, c[k + 1].temp - c[k].temp)
<1>0. c[1].temp \in Nat /\ c[8].temp \in Nat
  BY CurvePoints DEF Index
<1>1. c[1].temp < c[8].temp
  BY DEF FanCurve, Index
<1>2. CASE t <= c[1].temp
  BY <1>2 DEF PWMAt
<1>3. CASE t > c[8].temp
  <2>1. ~(t <= c[1].temp)
    BY <1>0, <1>1, <1>3
  <2> QED BY <1>3, <2>1 DEF PWMAt
<1>4. CASE t > c[1].temp /\ t <= c[8].temp
  <2> DEFINE K == CHOOSE j \in 1..7 : Around(c, t, j)
  <2>1. K \in 1..7 /\ Around(c, t, K)
    BY <1>4, SegmentExists
  <2>2. ~(t <= c[1].temp) /\ ~(t > c[8].temp)
    BY <1>0, <1>4
  <2>3. PWMAt(c, t) = OnSegment(c[K], c[K + 1], t)
    BY <2>2 DEF PWMAt, Around
  <2>4. PWMAt(c, t) = On(c[K].pwm, c[K + 1].pwm, t - c[K].temp, c[K + 1].temp - c[K].temp)
    BY <2>3 DEF OnSegment, On
  <2> QED BY <1>4, <2>1, <2>4
<1> QED BY <1>0, <1>2, <1>3, <1>4

\* A curve that is nowhere below another at the temperatures they share is
\* nowhere below it between them.
LEMMA ReadingMonotone ==
  ASSUME NEW c \in FanCurve, NEW d \in FanCurve, NEW t \in Nat,
         \A i \in Index : c[i].temp = d[i].temp,
         \A i \in Index : c[i].pwm <= d[i].pwm
  PROVE  PWMAt(c, t) <= PWMAt(d, t)
<1>1. \A i \in Index : /\ c[i].temp \in Nat /\ c[i].pwm \in Nat
                       /\ d[i].temp \in Nat /\ d[i].pwm \in Nat
  BY CurvePoints
<1>2. 1 \in Index /\ 8 \in Index /\ \A k \in 1..7 : k \in Index /\ k + 1 \in Index
  BY DEF Index
<1>3. c[1].temp < c[8].temp
  BY <1>2 DEF FanCurve
<1>4. CASE t <= c[1].temp
  <2>1. t <= d[1].temp
    BY <1>2, <1>4
  <2>2. PWMAt(c, t) = c[1].pwm /\ PWMAt(d, t) = d[1].pwm
    BY <1>4, <2>1 DEF PWMAt
  <2> QED BY <1>2, <2>2
<1>5. CASE t > c[8].temp
  <2>1. ~(t <= c[1].temp)
    BY <1>1, <1>2, <1>3, <1>5
  <2>2. ~(t <= d[1].temp) /\ t > d[8].temp
    BY <1>2, <1>5, <2>1
  <2>3. PWMAt(c, t) = c[8].pwm /\ PWMAt(d, t) = d[8].pwm
    BY <1>5, <2>1, <2>2 DEF PWMAt
  <2> QED BY <1>2, <2>3
<1>6. CASE t > c[1].temp /\ t <= c[8].temp
  <2> DEFINE K == CHOOSE j \in 1..7 : Around(c, t, j)
             L == CHOOSE j \in 1..7 : Around(d, t, j)
  <2>1. \A j \in 1..7 : Around(c, t, j) <=> Around(d, t, j)
    BY <1>2 DEF Around
  <2>2. K = L
    BY <2>1
  <2>3. /\ K \in 1..7 /\ Around(c, t, K)
        /\ PWMAt(c, t) = On(c[K].pwm, c[K + 1].pwm, t - c[K].temp, c[K + 1].temp - c[K].temp)
    BY <1>1, <1>2, <1>6, Reading
  <2>4. PWMAt(d, t) = On(d[L].pwm, d[L + 1].pwm, t - d[L].temp, d[L + 1].temp - d[L].temp)
    <3>1. d[1].temp = c[1].temp /\ d[8].temp = c[8].temp
      BY <1>2
    <3> QED BY <1>1, <1>2, <1>6, <3>1, Reading
  <2> HIDE DEF K, L
  <2>5. K \in Index /\ K + 1 \in Index
    BY <1>2, <2>3
  <2>6. PICK x \in Nat, y \in Nat : x = c[K].temp /\ y = c[K + 1].temp
    BY <1>1, <2>5
  <2>7. x = d[K].temp /\ y = d[K + 1].temp
    BY <2>5, <2>6
  <2>8. x < t /\ t <= y
    BY <2>3, <2>6 DEF Around
  <2>9. t - x \in 0..(y - x) /\ y - x \in Nat \ {0}
    BY <2>8
  <2>10. PICK l \in Nat, h \in Nat, m \in Nat, g \in Nat :
           /\ l = c[K].pwm /\ h = c[K + 1].pwm
           /\ m = d[K].pwm /\ g = d[K + 1].pwm
    BY <1>1, <2>5
  <2>11. l <= h /\ m <= g /\ l <= m /\ h <= g
    BY <2>3, <2>5, <2>10, CurveRises
  <2>12. On(m, g, t - x, y - x) >= On(l, h, t - x, y - x)
    BY <2>9, <2>11, SegmentMonotone
  <2>13. On(m, g, t - x, y - x) \in Nat /\ On(l, h, t - x, y - x) \in Nat
    <3>1. t - x \in Nat
      BY <2>8
    <3>2. On(m, g, t - x, y - x) \in Nat
      BY <2>9, <2>11, <3>1, SegmentAbove
    <3>3. On(l, h, t - x, y - x) \in Nat
      BY <2>9, <2>11, <3>1, SegmentAbove
    <3> QED BY <3>2, <3>3
  <2>14. PWMAt(c, t) = On(l, h, t - x, y - x)
    BY <2>3, <2>6, <2>10
  <2>15. PWMAt(d, t) = On(m, g, t - x, y - x)
    BY <2>2, <2>4, <2>7, <2>10
  <2> QED BY <2>12, <2>13, <2>14, <2>15
<1> QED BY <1>1, <1>2, <1>4, <1>5, <1>6

\* A curve whose points are all at a minimum or above is read at the minimum or
\* above.
LEMMA ReadingAbove ==
  ASSUME NEW c \in FanCurve, NEW t \in Nat, NEW w \in Nat,
         \A i \in Index : w <= c[i].pwm
  PROVE  PWMAt(c, t) >= w
<1>1. \A i \in Index : c[i].temp \in Nat /\ c[i].pwm \in Nat
  BY CurvePoints
<1>2. 1 \in Index /\ 8 \in Index /\ \A k \in 1..7 : k \in Index /\ k + 1 \in Index
  BY DEF Index
<1>3. CASE PWMAt(c, t) = c[1].pwm
  BY <1>1, <1>2, <1>3
<1>4. CASE PWMAt(c, t) = c[8].pwm
  BY <1>1, <1>2, <1>4
<1>5. ASSUME NEW k \in 1..7, Around(c, t, k),
             PWMAt(c, t) = On(c[k].pwm, c[k + 1].pwm, t - c[k].temp, c[k + 1].temp - c[k].temp)
      PROVE  PWMAt(c, t) >= w
  <2>1. PICK x \in Nat, y \in Nat, l \in Nat, h \in Nat :
          x = c[k].temp /\ y = c[k + 1].temp /\ l = c[k].pwm /\ h = c[k + 1].pwm
    BY <1>1, <1>2
  <2>2. x < t /\ t <= y /\ l <= h /\ w <= l
    BY <1>2, <1>5, <2>1, CurveRises DEF Around
  <2>3. t - x \in Nat /\ y - x \in Nat \ {0}
    BY <2>2
  <2>4. On(l, h, t - x, y - x) \in Nat /\ On(l, h, t - x, y - x) >= l
    BY <2>2, <2>3, SegmentAbove
  <2> QED BY <1>5, <2>1, <2>2, <2>4
<1> QED BY <1>3, <1>4, <1>5, Reading

\* What is read is a PWM.
LEMMA ReadingIsPWM ==
  ASSUME NEW c \in FanCurve, NEW t \in Nat
  PROVE  PWMAt(c, t) \in Nat
<1>1. \A i \in Index : c[i].temp \in Nat /\ c[i].pwm \in Nat
  BY CurvePoints
<1>2. 1 \in Index /\ 8 \in Index /\ \A k \in 1..7 : k \in Index /\ k + 1 \in Index
  BY DEF Index
<1>3. ASSUME NEW k \in 1..7, Around(c, t, k),
             PWMAt(c, t) = On(c[k].pwm, c[k + 1].pwm, t - c[k].temp, c[k + 1].temp - c[k].temp)
      PROVE  PWMAt(c, t) \in Nat
  <2>1. PICK x \in Nat, y \in Nat, l \in Nat, h \in Nat :
          x = c[k].temp /\ y = c[k + 1].temp /\ l = c[k].pwm /\ h = c[k + 1].pwm
    BY <1>1, <1>2
  <2>2. x < t /\ t <= y /\ l <= h
    BY <1>2, <1>3, <2>1, CurveRises DEF Around
  <2>3. t - x \in Nat /\ y - x \in Nat \ {0}
    BY <2>2
  <2>4. On(l, h, t - x, y - x) \in Nat
    BY <2>2, <2>3, SegmentAbove
  <2> QED BY <1>3, <2>1, <2>4
<1> QED BY <1>1, <1>2, <1>3, Reading

-----------------------------------------------------------------------------
(* The fans as they run.                                                   *)

\* The ramp's points lie on the floor.
LEMMA RampIsItsFloor ==
  ASSUME NEW i \in Index
  PROVE  FloorPWMAt(HighTDPFanCurve[i].temp) = HighTDPFanCurve[i].pwm
<1> DEFINE H == HighTDPFanCurve
<1>1. /\ H[1] = At(30, 127) /\ H[2] = At(40, 127) /\ H[3] = At(50, 140)
      /\ H[4] = At(60, 165) /\ H[5] = At(65, 190) /\ H[6] = At(70, 215)
      /\ H[7] = At(75, 235) /\ H[8] = At(80, 255)
  BY DEF HighTDPFanCurve, HighTDPMinPWM
<1>2. H[i].pwm = Ramp(H[i].temp) /\ H[i].temp \in 0..120
  BY <1>1 DEF Ramp, At, Index
<1> QED BY <1>2, RampSegments

\* A curve that meets the floor is not changed by raising it.
LEMMA RaisedIsItself ==
  ASSUME NEW c \in FanCurve, MeetsFloor(c)
  PROVE  [i \in Index |-> RaisePoint(c[i])] = c
<1>1. ASSUME NEW i \in Index PROVE RaisePoint(c[i]) = c[i]
  <2>1. c[i] \in Point
    BY DEF FanCurve
  <2>2. PICK w \in 0..255, t \in 0..120 : w = c[i].pwm /\ t = c[i].temp
    BY <2>1 DEF Point
  <2>3. w >= FloorPWMAt(t)
    BY <2>2 DEF MeetsFloor
  <2>4. FloorPWMAt(t) \in 0..255
    BY FloorMonotone
  <2>5. ~(w < FloorPWMAt(t))
    BY <2>3, <2>4
  <2> QED BY <2>2, <2>5 DEF RaisePoint
<1>2. c \in [Index -> Point]
  BY DEF FanCurve
<1> QED BY <1>1, <1>2

\* What is on the fans is the drawn curve over the floor of the limit in force:
\* an accepted curve is one the floor would not have changed.
FloorInForce == points = ReconcileCurveFor(pl1, drawn)

IInv == TypeOK /\ FloorInForce

LEMMA LimitIsInt == TypeOK => pl1 \in Int
  BY CoolingAssumption DEF TypeOK

LEMMA Reconciled ==
  ASSUME NEW w \in Int, NEW c \in FanCurve \cup {NoCurve}
  PROVE  /\ ReconcileCurveFor(w, c) \in FanCurve \cup {NoCurve}
         /\ w > TDPMaxSafe =>
              /\ ReconcileCurveFor(w, c) = FanCurveForTDP(w, c)
              /\ ReconcileCurveFor(w, c) \in FanCurve
              /\ MeetsFloor(ReconcileCurveFor(w, c))
<1>1. CASE w <= TDPMaxSafe
  BY <1>1, FloorForTDP DEF ReconcileCurveFor, TDPMaxSafe
<1>2. CASE w > TDPMaxSafe
  <2>1. FanCurveForTDP(w, c) \in FanCurve /\ MeetsFloor(FanCurveForTDP(w, c))
    BY <1>2, FloorForTDP
  <2>2. ReconcileCurveFor(w, c) = FanCurveForTDP(w, c)
    BY <2>1, NoCurveIsNone DEF ReconcileCurveFor
  <2> QED BY <2>1, <2>2
<1> QED BY <1>1, <1>2 DEF TDPMaxSafe

LEMMA Start == Init => IInv
<1> SUFFICES ASSUME Init PROVE IInv
  OBVIOUS
<1>1. pl1 \in Int /\ drawn \in FanCurve \cup {NoCurve} /\ temp \in 0..MaxTemp
  BY CoolingAssumption DEF Init
<1>2. points \in FanCurve \cup {NoCurve}
  BY <1>1, Reconciled DEF Init
<1> QED BY <1>1, <1>2 DEF Init, IInv, TypeOK, FloorInForce

LEMMA Step == IInv /\ [Next]_vars => IInv'
<1> SUFFICES ASSUME IInv, [Next]_vars PROVE IInv'
  OBVIOUS
<1>1. ASSUME NEW w \in Watts, NEW c \in UserCurves, ApplyProfile(w, c) PROVE IInv'
  <2>1. w \in Int /\ c \in FanCurve \cup {NoCurve}
    BY CoolingAssumption
  <2>2. points' \in FanCurve \cup {NoCurve}
    BY <1>1, <2>1, Reconciled DEF ApplyProfile
  <2> QED BY <1>1, <2>2 DEF IInv, TypeOK, FloorInForce, ApplyProfile
<1>2. ASSUME NEW c \in UserCurves \ {NoCurve}, SetFanCurve(c) PROVE IInv'
  <2>1. c \in FanCurve /\ pl1 \in Int
    BY CoolingAssumption, LimitIsInt DEF IInv
  <2>2. ReconcileCurveFor(pl1, c) = c
    <3>1. CASE pl1 <= TDPMaxSafe
      BY <3>1 DEF ReconcileCurveFor, FanCurveForTDP
    <3>2. CASE ~(pl1 <= TDPMaxSafe)
      <4>1. MeetsFloor(c)
        BY <1>2, <3>2 DEF SetFanCurve, CheckCurveAgainstTDP
      <4>2. FanCurveForTDP(pl1, c) = [i \in Index |-> RaisePoint(c[i])]
        BY <3>2 DEF FanCurveForTDP
      <4>3. FanCurveForTDP(pl1, c) = c
        BY <2>1, <4>1, <4>2, RaisedIsItself
      <4> QED BY <4>3 DEF ReconcileCurveFor
    <3> QED BY <3>1, <3>2
  <2> QED BY <1>2, <2>1, <2>2 DEF IInv, TypeOK, FloorInForce, SetFanCurve
<1>3. CASE TemperatureMoves
  BY <1>3 DEF IInv, TypeOK, FloorInForce, TemperatureMoves
<1>4. CASE UNCHANGED vars
  BY <1>4 DEF IInv, TypeOK, FloorInForce, vars
<1> QED BY <1>1, <1>2, <1>3, <1>4 DEF Next

LEMMA Invariant == Spec => []IInv
  BY Start, Step, PTL DEF Spec

\* Above TDPMaxSafe a curve is on the fans, and it meets the floor.
LEMMA HighHasFloor ==
  ASSUME IInv, High
  PROVE  /\ points \in FanCurve /\ MeetsFloor(points)
         /\ points = FanCurveForTDP(pl1, drawn)
         /\ drawn \in FanCurve \cup {NoCurve} /\ temp \in Nat
<1>1. pl1 \in Int /\ drawn \in FanCurve \cup {NoCurve} /\ pl1 > TDPMaxSafe
  BY LimitIsInt, CoolingAssumption DEF IInv, TypeOK, High
<1>2. temp \in Nat
  BY CoolingAssumption DEF IInv, TypeOK
<1> QED BY <1>1, <1>2, Reconciled DEF IInv, FloorInForce

\* MinimumHeld: above TDPMaxSafe no temperature is read below HighTDPMinPWM.
THEOREM MinimumAlwaysHeld == Spec => []MinimumHeld
<1>1. ASSUME IInv, High PROVE PWMAt(points, temp) >= HighTDPMinPWM
  <2>1. points \in FanCurve /\ MeetsFloor(points) /\ temp \in Nat
    BY <1>1, HighHasFloor
  <2>2. \A i \in Index : HighTDPMinPWM <= points[i].pwm
    BY <2>1, FloorIsMinimum, CurvePoints DEF HighTDPMinPWM
  <2>3. HighTDPMinPWM \in Nat
    BY DEF HighTDPMinPWM
  <2> QED BY <2>1, <2>2, <2>3, ReadingAbove
<1>2. IInv => MinimumHeld
  BY <1>1 DEF MinimumHeld
<1> QED BY <1>2, Invariant, PTL

\* NeverQuieter: what the floor makes of a user's curve is read nowhere below
\* the curve as it was drawn.
THEOREM NeverQuieterThanDrawn == Spec => []NeverQuieter
<1>1. ASSUME IInv, High, drawn # NoCurve
      PROVE  PWMAt(points, temp) >= PWMAt(drawn, temp)
  <2>1. drawn \in FanCurve /\ points \in FanCurve /\ temp \in Nat
    BY <1>1, HighHasFloor
  <2>2. points = [i \in Index |-> RaisePoint(drawn[i])]
    <3>1. ~(pl1 <= TDPMaxSafe)
      BY <1>1, LimitIsInt DEF High, IInv, TDPMaxSafe
    <3> QED BY <1>1, <3>1, HighHasFloor DEF FanCurveForTDP
  <2>3. ASSUME NEW i \in Index
        PROVE  drawn[i].temp = points[i].temp /\ drawn[i].pwm <= points[i].pwm
    <3>1. drawn[i] \in Point /\ points[i] = RaisePoint(drawn[i])
      BY <2>1, <2>2 DEF FanCurve
    <3>2. points[i].temp = drawn[i].temp /\ points[i].pwm >= drawn[i].pwm
      BY <3>1, RaisedPoint
    <3>3. points[i].pwm \in Nat /\ drawn[i].pwm \in Nat
      BY <2>1, CurvePoints
    <3> QED BY <3>2, <3>3
  <2>4. PWMAt(drawn, temp) <= PWMAt(points, temp)
    BY <2>1, <2>3, ReadingMonotone
  <2>5. PWMAt(drawn, temp) \in Nat /\ PWMAt(points, temp) \in Nat
    BY <2>1, ReadingIsPWM
  <2> QED BY <2>4, <2>5
<1>2. IInv => NeverQuieter
  BY <1>1 DEF NeverQuieter
<1> QED BY <1>2, Invariant, PTL

\* OverRampOnItsGrid: at the ramp's own temperatures the ramp is held between
\* the points too.
THEOREM OverRampOnItsOwnGrid == Spec => []OverRampOnItsGrid
<1>1. ASSUME IInv, High, \A i \in Index : points[i].temp = HighTDPFanCurve[i].temp
      PROVE  PWMAt(points, temp) >= FloorPWMAt(temp)
  <2>1. points \in FanCurve /\ MeetsFloor(points) /\ temp \in Nat /\ HighTDPFanCurve \in FanCurve
    BY <1>1, HighHasFloor, RampIsCurve
  <2>2. ASSUME NEW i \in Index
        PROVE  HighTDPFanCurve[i].pwm <= points[i].pwm
    <3>1. FloorPWMAt(HighTDPFanCurve[i].temp) = HighTDPFanCurve[i].pwm
      BY RampIsItsFloor
    <3>2. points[i].pwm >= HighTDPFanCurve[i].pwm
      BY <1>1, <2>1, <3>1 DEF MeetsFloor
    <3>3. points[i].pwm \in Nat /\ HighTDPFanCurve[i].pwm \in Nat
      BY <2>1, CurvePoints
    <3> QED BY <3>2, <3>3
  <2>3. PWMAt(HighTDPFanCurve, temp) <= PWMAt(points, temp)
    BY <1>1, <2>1, <2>2, ReadingMonotone
  <2>4. PWMAt(HighTDPFanCurve, temp) \in Nat /\ PWMAt(points, temp) \in Nat
    BY <2>1, ReadingIsPWM
  <2> QED BY <2>3, <2>4 DEF FloorPWMAt
<1>2. IInv => OverRampOnItsGrid
  BY <1>1 DEF OverRampOnItsGrid
<1> QED BY <1>2, Invariant, PTL

=============================================================================
