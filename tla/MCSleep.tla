------------------------------ MODULE MCSleep ------------------------------
(***************************************************************************)
(* Finite instances of SleepCycle: hot runs its own curve at a limit that  *)
(* needs the floor, and an offset.                                         *)
(***************************************************************************)
EXTENDS SleepCycle

OnlyHot == [p \in {"hot"} |-> [curve |-> TRUE, tdp |-> 90, offset |-> TRUE]]

=============================================================================
