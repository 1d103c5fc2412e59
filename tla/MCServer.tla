------------------------------ MODULE MCServer ------------------------------
(***************************************************************************)
(* Server for model checking: two looks, off and full brightness.          *)
(***************************************************************************)
EXTENDS Server
=============================================================================
