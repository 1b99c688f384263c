------------------------------ MODULE MCRoster ------------------------------
(* Small instances of Roster for TLC: symmetric sets of ids, two networks  *)
(* and the AllowedIPs lists that can be written over them.                 *)
EXTENDS Roster, TLC

CONSTANTS n1, n2

MCNets == {n1, n2}
MCAllowedLists == {{n1}, {n2}, {n1, n2}}
MCOneList == {{n1}}

(* Ids carry no order in the model; addresses do, and are not symmetric.   *)
Symmetry ==
    Permutations(Machines) \cup Permutations(Owners) \cup Permutations(Keys)
    \cup Permutations(Endpoints) \cup Permutations(Workers)

(* No action reads the history variables: a run whose properties do not    *)
(* mention them may identify the states that differ only there.            *)
WithoutHistory == <<storeVars, req>>
ClockView == <<storeVars, req, submitted, queuedAt>>
=============================================================================
