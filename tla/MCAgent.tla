------------------------------ MODULE MCAgent ------------------------------
(* Small instances of Agent for TLC.                                       *)
EXTENDS Agent

CONSTANTS m1, m2, e1, e2, a1, a2
=============================================================================
