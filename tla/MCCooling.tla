----------------------------- MODULE MCCooling -----------------------------
(* Curves of four kinds for FanCooling: silent on the ramp's temperatures,  *)
(* loud, drawn between the ramp's rows, and ending below 80 degrees.        *)
EXTENDS FanCooling

Silent == [i \in Index |-> At(HighTDPFanCurve[i].temp, 10 * i)]
Loud == [i \in Index |-> At(10 * i, IF i < 4 THEN 204 ELSE 255)]
Between == << At(20, 100), At(35, 128), At(45, 135), At(57, 158),
              At(63, 181), At(67, 201), At(72, 223), At(90, 255) >>
Short == [i \in Index |-> At(20 + 5 * i, 127 + 5 * i)]

MCCurves == {NoCurve, Silent, Loud, Between, Short}

=============================================================================
