---------------------------- MODULE FanCooling ----------------------------
(***************************************************************************)
(* What the fans really run at under a power limit: the controller reads   *)
(* the eight points as a piecewise-linear curve while the temperature      *)
(* moves, and the floor is checked and raised at the points alone.         *)
(***************************************************************************)
EXTENDS FanFloor

CONSTANTS
  Watts,       \* the limits a profile may carry
  UserCurves,  \* the curves a user may draw, NoCurve for a profile without
  MaxTemp,     \* the hottest temperature reached
  TempStep     \* how far the temperature moves at a time

ASSUME CoolingAssumption ==
  /\ Watts \subseteq TDPMin..TDPMaxForced
  /\ UserCurves \subseteq FanCurve \cup {NoCurve}
  /\ MaxTemp \in Nat /\ TempStep \in Nat \ {0}

VARIABLES
  pl1,     \* the sustained limit in force
  drawn,   \* the profile's curve as the user drew it
  points,  \* the curve on the fans; NoCurve in firmware auto
  temp

vars == <<pl1, drawn, points, temp>>

TypeOK ==
  /\ pl1 \in Watts
  /\ drawn \in UserCurves
  /\ points \in FanCurve \cup {NoCurve}
  /\ temp \in 0..MaxTemp

\* A profile is applied: the limit, and the curve over its floor.
ApplyProfile(w, want) ==
  /\ pl1' = w
  /\ drawn' = want
  /\ points' = ReconcileCurveFor(w, want)
  /\ UNCHANGED temp

\* handleFanCurve on the running profile: refused or written as drawn.
SetFanCurve(c) ==
  /\ CheckCurveAgainstTDP(c, pl1)
  /\ drawn' = c
  /\ points' = c
  /\ UNCHANGED <<pl1, temp>>

TemperatureMoves ==
  /\ temp' \in {temp - TempStep, temp + TempStep} \cap 0..MaxTemp
  /\ UNCHANGED <<pl1, drawn, points>>

Init ==
  /\ pl1 \in Watts
  /\ drawn \in UserCurves
  /\ points = ReconcileCurveFor(pl1, drawn)
  /\ temp = 0

Next ==
  \/ \E w \in Watts, c \in UserCurves : ApplyProfile(w, c)
  \/ \E c \in UserCurves \ {NoCurve} : SetFanCurve(c)
  \/ TemperatureMoves

Spec == Init /\ [][Next]_vars

-----------------------------------------------------------------------------
High == pl1 > TDPMaxSafe

\* Above TDPMaxSafe the fans never run below HighTDPMinPWM, at any temperature
\* and not just at the points (docs/daemon.md: "both fans are held to a minimum
\* of 127 PWM").
MinimumHeld == High => PWMAt(points, temp) >= HighTDPMinPWM

\* The floor never makes a machine quieter than its user's curve, at any
\* temperature (docs/commands.md: "Nothing is ever lowered").
NeverQuieter == (High /\ drawn # NoCurve) => PWMAt(points, temp) >= PWMAt(drawn, temp)

\* A curve drawn at the ramp's own temperatures is over the ramp everywhere.
OverRampOnItsGrid ==
  (High /\ \A i \in Index : points[i].temp = HighTDPFanCurve[i].temp)
    => PWMAt(points, temp) >= FloorPWMAt(temp)

\* docs/commands.md: "The comparison is by temperature and not by position in
\* the list, so a curve whose points sit at unusual temperatures cannot slip
\* under the ramp".
OverRamp == High => PWMAt(points, temp) >= FloorPWMAt(temp)

=============================================================================
