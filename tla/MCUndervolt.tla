---------------------------- MODULE MCUndervolt ----------------------------
(***************************************************************************)
(* The instance of Undervolt that TLC checks: the default profile and one  *)
(* more, one firmware profile, and one request in range and one below it.  *)
(***************************************************************************)
EXTENDS Undervolt

TwoRequests == {-41, -20}
=============================================================================
