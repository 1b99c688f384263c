--------------------------- MODULE MCOffboarding ---------------------------
(* Small instances of Offboarding for TLC.                                 *)
EXTENDS Offboarding

CONSTANTS u1, u2, u3, u4, m1, m2, m3, m4

(* The first owner has two machines when there is one to spare.            *)
OneEach == [m \in Machines |-> CASE m = m1 -> u1 [] m = m2 -> u2
                                 [] m = m3 -> u3 [] OTHER -> u4]
TwoOfOne == [m \in Machines |-> CASE m \in {m1, m2} -> u1 [] OTHER -> u2]
=============================================================================
