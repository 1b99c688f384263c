---------------------------- MODULE MCLimiter -----------------------------
(* Small instances of Limiter for TLC.                                     *)
EXTENDS Limiter
=============================================================================
