----------------------------- MODULE MCThermal -----------------------------
(***************************************************************************)
(* Finite instances of ThermalControl.  QuietCurve lies below the high-TDP *)
(* floor at every point; FullCurve lies above it and is not the ramp.      *)
(***************************************************************************)
EXTENDS ThermalControl

MCFactoryCurve == [i \in Index |-> At(20 + 10 * i, 20 + 5 * i)]
QuietCurve == [i \in Index |-> At(25 + 9 * i, 5 * i)]
FullCurve == [i \in Index |-> At(30 + 5 * i, 255)]

QuietOnly == {QuietCurve}

TwoStock == [p \in {"balanced", "performance"} |-> IF p = "balanced" THEN 52 ELSE 70]
OneStock == [p \in {"balanced"} |-> 52]

=============================================================================
