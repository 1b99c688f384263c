----------------------------- MODULE MCAlerts ------------------------------
(* Small instances of Alerts for TLC.                                      *)
EXTENDS Alerts

CONSTANTS k1, k2, e1, e2
=============================================================================
