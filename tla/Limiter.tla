------------------------------ MODULE Limiter ------------------------------
(***************************************************************************)
(* The login limiter: a token bucket per key, refilled when it is used,    *)
(* and dropped when it has not been used for an hour.  One call of allow   *)
(* is one action (it holds the mutex); time passes between calls.          *)
(*                                                                         *)
(* Tokens are counted in fractions (Cost of them make one token), so that  *)
(* one unit of time brings a whole number, Rate, of them.                  *)
(***************************************************************************)
EXTENDS Naturals

CONSTANTS
    Keys,           \* client addresses or user names
    Full,           \* burst
    Rate,           \* refill in one unit of time
    Cost,           \* one token
    SweepEvery,     \* units of time between sweeps: ten minutes
    IdleLimit,      \* a bucket unused for longer is dropped: an hour
    MaxTime         \* bound: units of time in a behaviour

ASSUME LimiterAssumption ==
    /\ Full \in Nat /\ Rate \in Nat /\ Cost \in Nat \ {0}
    /\ SweepEvery \in Nat /\ IdleLimit \in Nat
    /\ MaxTime \in Nat

(* The numbers newLimiter is called with: in an hour at five tokens a      *)
(* minute, a bucket of ten is long full.                                   *)
ASSUME RefillAssumption == Full <= IdleLimit * Rate

VARIABLES
    now,            \* the clock
    bucket,         \* buckets: tokens at the time of the last use
    lastSweep,      \* when idle buckets were last dropped
    granted         \* calls granted to each key so far

limiterVars == <<now, bucket, lastSweep, granted>>

Bucket == [known : BOOLEAN, tokens : 0..Full, last : Nat]
NoBucket == [known |-> FALSE, tokens |-> Full, last |-> 0]

(* Type invariant.                                                         *)
LimiterTypeOK ==
    /\ now \in Nat
    /\ bucket \in [Keys -> Bucket]
    /\ \A k \in Keys : bucket[k].last <= now
    /\ lastSweep \in Nat /\ lastSweep <= now
    /\ granted \in [Keys -> Nat]

(* The zero time of lastSweep lies far back: the first call sweeps.        *)
Start == SweepEvery + 1

LimiterInit ==
    /\ now = Start
    /\ bucket = [k \in Keys |-> NoBucket]
    /\ lastSweep = 0
    /\ granted = [k \in Keys |-> 0]

UpTo(n, bound) == IF n < bound THEN n ELSE bound

LimiterTick ==
    /\ now < Start + MaxTime
    /\ now' = now + 1
    /\ UNCHANGED <<bucket, lastSweep, granted>>

(* Mutant of Dropped: idle since the last sweep is taken for idle enough.  *)
DroppedEarly(b) == b.known /\ now - b.last > SweepEvery

Dropped(b) == b.known /\ now - b.last > IdleLimit

SweepDue == now - lastSweep > SweepEvery

(* The map after the sweep that a call begins with, when one is due.       *)
Swept == [k \in Keys |-> IF SweepDue /\ Dropped(bucket[k]) THEN NoBucket ELSE bucket[k]]

(* Mutant of Filled: the bucket is filled up by whatever passed.           *)
FilledUncapped(b) == IF b.known THEN b.tokens + (now - b.last) * Rate ELSE Full

(* The tokens of a bucket at this moment; a new one is full.               *)
Filled(b) ==
    IF b.known THEN UpTo(b.tokens + (now - b.last) * Rate, Full) ELSE Full

(* allow: sweep, find or make the bucket, refill it, take a token or not.  *)
Allow(k) ==
    LET tokens == Filled(Swept[k])
        left == IF tokens < Cost THEN tokens ELSE tokens - Cost
    IN
    /\ bucket' = [Swept EXCEPT ![k] = [known |-> TRUE, tokens |-> left, last |-> now]]
    /\ lastSweep' = IF SweepDue THEN now ELSE lastSweep
    /\ granted' = IF tokens < Cost THEN granted ELSE [granted EXCEPT ![k] = @ + 1]
    /\ UNCHANGED now

LimiterNext == LimiterTick \/ \E k \in Keys : Allow(k)

LimiterSpec == LimiterInit /\ [][LimiterNext]_limiterVars

-----------------------------------------------------------------------------
(* Properties.                                                             *)

Credit == [k \in Keys |-> Filled(bucket[k])]

Abstract == INSTANCE RateLimit WITH credit <- Credit

(* Buckets that are refilled only when used, and forgotten when idle,      *)
(* grant a call exactly when a credit that is kept for ever would: neither *)
(* eviction nor a refused call gives anything away or takes it.            *)
GrantsAsPromised == Abstract!Spec

(* Over any time, no key is granted more than a burst and the refill.      *)
NeverOverBudget ==
    \A k \in Keys : granted[k] * Cost <= Full + (now - Start) * Rate
=============================================================================
