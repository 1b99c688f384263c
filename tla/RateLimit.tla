----------------------------- MODULE RateLimit -----------------------------
(***************************************************************************)
(* What the login limiter promises: every key has a credit that starts     *)
(* full, grows at a steady rate up to the burst, and pays for each call.   *)
(* Nothing is ever forgotten.  A call is granted exactly when the credit   *)
(* covers it.                                                              *)
(***************************************************************************)
EXTENDS Naturals

CONSTANTS
    Keys,       \* what is limited: client addresses, user names
    Full,       \* the credit of a burst
    Rate,       \* the credit gained in one unit of time
    Cost        \* the credit one call takes

VARIABLES
    credit,     \* what each key may still spend
    granted     \* calls granted to each key so far

vars == <<credit, granted>>

AtMost(n, bound) == IF n < bound THEN n ELSE bound

Init ==
    /\ credit = [k \in Keys |-> Full]
    /\ granted = [k \in Keys |-> 0]

Wait ==
    /\ credit' = [k \in Keys |-> AtMost(credit[k] + Rate, Full)]
    /\ UNCHANGED granted

Grant(k) ==
    /\ credit[k] >= Cost
    /\ credit' = [credit EXCEPT ![k] = @ - Cost]
    /\ granted' = [granted EXCEPT ![k] = @ + 1]

Next == Wait \/ \E k \in Keys : Grant(k)

Spec == Init /\ [][Next]_vars
=============================================================================
