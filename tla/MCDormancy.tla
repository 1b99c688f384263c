---------------------------- MODULE MCDormancy ----------------------------
(* Small instances of Dormancy for TLC.                                    *)
EXTENDS Dormancy

CONSTANTS m1, m2, m3, e1, e2

(* The first machine on a concentrator of its own when there are two.      *)
OnTwo == [m \in Machines |-> IF m = m1 THEN e1 ELSE e2]
OnOne == [m \in Machines |-> e1]
=============================================================================
