--------------------------- MODULE MCStatusStore ---------------------------
(* Small instances of StatusStore for TLC.                                 *)
EXTENDS StatusStore, TLC

CONSTANTS m1, k1, k2, e1, e2

OneMachine == [m \in Machines |-> k1]

(* Concentrators carry every key, or only those of registered machines: a  *)
(* new key is not carried anywhere yet.                                    *)
Everything == Endpoints \X Keys
KeptKeys == Endpoints \X {k1}

(* Concentrators are interchangeable.                                      *)
Alike == Permutations(Endpoints)
=============================================================================
