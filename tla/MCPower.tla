------------------------------ MODULE MCPower ------------------------------
(***************************************************************************)
(* The instance of PowerSource that TLC checks: two adapters, one custom   *)
(* and one firmware profile, so that every target can be told from the     *)
(* profile it replaces.                                                    *)
(***************************************************************************)
EXTENDS PowerSource

=============================================================================
