------------------------------- MODULE Alerts ------------------------------
(***************************************************************************)
(* The fleet status and the alerts made from it: buildStatus, which reads  *)
(* the tables one query after the other, the cache that pages, metrics and *)
(* alerts share under a lock, evalAlerts with its map of firing alerts,    *)
(* and the webhook.                                                        *)
(*                                                                         *)
(* Uploads and administrators change the tables between any two queries.   *)
(* The process may crash, which forgets the cache and the firing alerts;   *)
(* a post may fail, which nobody notices.                                  *)
(***************************************************************************)
EXTENDS Naturals, FiniteSets

CONSTANTS
    Keys,           \* public keys
    Endpoints,      \* concentrators
    Types,          \* the types of alert followed
    Aged,           \* those whose age is kept
    TTL,            \* statusCacheTTL
    Torn,           \* whether the tables may change during a build
    MayFail,        \* whether the queries of a build may fail
    LookupFails,    \* whether the lookup of a machine may
    MayLose,        \* whether posts may fail
    MaxCrashes      \* bound: process crashes

ASSUME AlertsAssumption ==
    /\ Types \subseteq {"stale", "missing", "unlinked", "unexpected", "mismatch"}
    /\ Aged \subseteq Types
    /\ TTL \in Nat \ {0}
    /\ {Torn, MayFail, LookupFails, MayLose} \subseteq BOOLEAN
    /\ MaxCrashes \in Nat

VARIABLES
    known,          \* keys of machines
    active,         \* per endpoint, keys of its active machines
    reported,       \* per endpoint, keys in its last report
    off,            \* those whose AllowedIPs do not cover the address
    last,           \* per endpoint, its last report: never, fresh or stale
    build,          \* the build in progress, under statusMu
    cache,          \* statusCache: the alerts it gives, and its age
    eval,           \* RunAlerts' goroutine
    firing,         \* the map of firing alerts
    crashes,        \* crashes so far
    pager,          \* history: alerts the receiver believes to be firing
    missed,         \* history: those whose last transition it never heard of
    ago             \* history: seconds since each alert last held

vars == <<known, active, reported, off, last, build, cache, eval, firing, crashes,
          pager, missed, ago>>

world == <<known, active, reported, off, last>>

Alert == Endpoints \X Types

NoBuild == [pc |-> "none", by |-> "page", todo |-> {}, out |-> {}, ep |-> {},
            expected |-> {}, reported |-> {}, off |-> {}, look |-> {}]

Build == [pc : {"none", "next", "expected", "reported", "lookup"}, by : {"page", "alerts"},
          todo : SUBSET Endpoints, out : SUBSET Alert, ep : SUBSET Endpoints,
          expected : SUBSET Keys, reported : SUBSET Keys, off : SUBSET Keys, look : SUBSET Keys]

(* Age TTL: the cache has expired, or there is none.                       *)
NoCache == [alerts |-> {}, age |-> TTL]

Idle == [pc |-> "idle", current |-> {}, left |-> {}]

Obtained(alerts) == [pc |-> "post", current |-> alerts, left |-> {}]

(* Type invariant.                                                         *)
TypeOK ==
    /\ known \subseteq Keys
    /\ active \in [Endpoints -> SUBSET Keys]
    /\ reported \in [Endpoints -> SUBSET Keys]
    /\ off \in [Endpoints -> SUBSET Keys]
    /\ last \in [Endpoints -> {"never", "fresh", "stale"}]
    /\ build \in Build
    /\ cache \in [alerts : SUBSET Alert, age : 0..TTL]
    /\ eval \in [pc : {"idle", "want", "post", "resolve"}, current : SUBSET Alert,
                 left : SUBSET Alert]
    /\ firing \subseteq Alert
    /\ crashes \in 0..MaxCrashes
    /\ pager \subseteq Alert /\ missed \subseteq Alert
    /\ ago \in [Endpoints \X Aged -> 0..TTL + 1]

(* What is wrong with an endpoint, all tables read at once.                *)
Wrong(e) ==
    LET R == reported[e] IN
    {t \in Types :
        \/ t = "stale" /\ last[e] = "stale"
        \/ t = "missing" /\ active[e] \ R # {}
        \/ t = "unlinked" /\ (R \cap known) \ active[e] # {}
        \/ t = "unexpected" /\ R \ known # {}
        \/ t = "mismatch" /\ off[e] \cap known # {}}

Holding == {a \in Alert : a[2] \in Wrong(a[1])}

Init ==
    /\ known = {}
    /\ active = [e \in Endpoints |-> {}]
    /\ reported = [e \in Endpoints |-> {}]
    /\ off = [e \in Endpoints |-> {}]
    /\ last = [e \in Endpoints |-> "never"]
    /\ build = NoBuild
    /\ cache = NoCache
    /\ eval = Idle
    /\ firing = {}
    /\ crashes = 0
    /\ pager = {} /\ missed = {}
    /\ ago = [a \in Endpoints \X Aged |-> TTL + 1]

-----------------------------------------------------------------------------
(* The tables.                                                             *)

Changes ==
    /\ Torn \/ build.pc = "none"
    /\ ago' = [a \in DOMAIN ago |-> IF a \in Holding' THEN 0 ELSE ago[a]]
    /\ UNCHANGED <<build, cache, eval, firing, crashes, pager, missed>>

(* ReplaceStatus.                                                          *)
Report(e, R, O) ==
    /\ O \subseteq R
    /\ reported' = [reported EXCEPT ![e] = R]
    /\ off' = [off EXCEPT ![e] = O]
    /\ last' = [last EXCEPT ![e] = "fresh"]
    /\ UNCHANGED <<known, active>>
    /\ Changes

(* No report for onlineThreshold.                                          *)
Silence(e) ==
    /\ last[e] = "fresh"
    /\ last' = [last EXCEPT ![e] = "stale"]
    /\ UNCHANGED <<known, active, reported, off>>
    /\ Changes

(* A machine is registered, or deleted with its links.                     *)
Register(k) ==
    /\ known' = IF k \in known THEN known \ {k} ELSE known \cup {k}
    /\ active' = [e \in Endpoints |-> active[e] \ {k}]
    /\ UNCHANGED <<reported, off, last>>
    /\ Changes

(* It is put into service on an endpoint, or taken out.                    *)
Activate(k, e) ==
    /\ k \in known
    /\ active' = [active EXCEPT ![e] = IF k \in @ THEN @ \ {k} ELSE @ \cup {k}]
    /\ UNCHANGED <<known, reported, off, last>>
    /\ Changes

-----------------------------------------------------------------------------
(* status and buildStatus.                                                 *)

Valid == cache.age < TTL

Start(by) == build' = [NoBuild EXCEPT !.pc = "next", !.by = by, !.todo = Endpoints]

(* Mutant of ServePage: being served makes the cache fresh again.          *)
ServeAndRenew ==
    /\ build.pc = "none"
    /\ IF Valid THEN cache' = [cache EXCEPT !.age = 0] /\ UNCHANGED build
       ELSE Start("page") /\ UNCHANGED cache
    /\ UNCHANGED <<world, eval, firing, crashes, pager, missed, ago>>

(* The status page or a /metrics scrape.                                   *)
ServePage ==
    /\ build.pc = "none"
    /\ ~Valid
    /\ Start("page")
    /\ UNCHANGED <<world, cache, eval, firing, crashes, pager, missed, ago>>

(* The alert the members of a set give.                                    *)
Some(e, t, S) == IF S = {} THEN {} ELSE {<<e, t>>} \cap Alert

(* LastReport of the next endpoint.                                        *)
ReadReport(e) ==
    /\ build.pc = "next" /\ e \in build.todo
    /\ build' = [build EXCEPT !.pc = "expected", !.todo = @ \ {e}, !.ep = {e},
           !.out = @ \cup Some(e, "stale", {d \in {e} : last[d] = "stale"})]
    /\ UNCHANGED <<world, cache, eval, firing, crashes, pager, missed, ago>>

(* ActiveMachinesForEndpoint.                                              *)
ReadExpected(e) ==
    /\ build.pc = "expected" /\ e \in build.ep
    /\ build' = [build EXCEPT !.pc = "reported", !.expected = active[e]]
    /\ UNCHANGED <<world, cache, eval, firing, crashes, pager, missed, ago>>

(* PeersForEndpoint, and the rows of the expected peers.                   *)
ReadReported(e) ==
    /\ build.pc = "reported" /\ e \in build.ep
    /\ build' = [build EXCEPT !.pc = "lookup", !.reported = reported[e], !.off = off[e],
           !.look = reported[e] \ build.expected,
           !.out = @ \cup Some(e, "missing", build.expected \ reported[e])
                     \cup Some(e, "mismatch", build.expected \cap off[e])]
    /\ UNCHANGED <<world, cache, eval, firing, crashes, pager, missed, ago>>

(* MachineByPublicKey of a peer that is not expected here; a query that    *)
(* fails is taken for no such machine.                                     *)
Lookup(e, k, found) ==
    /\ build.pc = "lookup" /\ e \in build.ep /\ k \in build.look
    /\ found => k \in known
    /\ found \/ k \notin known \/ LookupFails
    /\ build' = [build EXCEPT !.look = @ \ {k},
           !.out = @ \cup Some(e, IF found THEN "unlinked" ELSE "unexpected", {k})
                     \cup Some(e, "mismatch", {j \in {k} : found /\ j \in build.off})]
    /\ UNCHANGED <<world, cache, eval, firing, crashes, pager, missed, ago>>

(* The end of an endpoint's turn: the next one's, or the result is cached  *)
(* and returned.                                                           *)
Built ==
    /\ build.pc = "lookup" /\ build.look = {}
    /\ IF build.todo # {}
       THEN /\ build' = [build EXCEPT !.pc = "next", !.ep = {}, !.expected = {},
                                      !.reported = {}, !.off = {}]
            /\ UNCHANGED <<cache, eval>>
       ELSE /\ cache' = [alerts |-> build.out, age |-> 0]
            /\ eval' = IF build.by = "alerts" THEN Obtained(build.out) ELSE eval
            /\ build' = NoBuild
    /\ UNCHANGED <<world, firing, crashes, pager, missed, ago>>

(* A query fails: the build gives up, and so does its caller.              *)
BuildFails ==
    /\ MayFail
    /\ build.pc \in {"next", "expected", "reported"}
    /\ build' = NoBuild
    /\ eval' = IF build.by = "alerts" THEN Idle ELSE eval
    /\ UNCHANGED <<world, cache, firing, crashes, pager, missed, ago>>

BuildStep ==
    \/ \E e \in Endpoints :
          \/ ReadReport(e) \/ ReadExpected(e) \/ ReadReported(e)
          \/ \E k \in Keys, found \in BOOLEAN : Lookup(e, k, found)
    \/ Built \/ BuildFails

Later(n, most) == IF n < most THEN n + 1 ELSE n

(* A second passes.                                                        *)
Tick ==
    /\ cache' = [cache EXCEPT !.age = Later(@, TTL)]
    /\ ago' = [a \in DOMAIN ago |-> IF a \in Holding THEN 0 ELSE Later(ago[a], TTL + 1)]
    /\ UNCHANGED <<world, build, eval, firing, crashes, pager, missed>>

-----------------------------------------------------------------------------
(* RunAlerts and evalAlerts.                                               *)

(* The ticker: the status is asked for.                                    *)
Evaluate ==
    /\ eval.pc = "idle"
    /\ eval' = [Idle EXCEPT !.pc = "want"]
    /\ UNCHANGED <<world, build, cache, firing, crashes, pager, missed, ago>>

(* It comes from the cache, or a build is begun.                           *)
Ask ==
    /\ eval.pc = "want" /\ build.pc = "none"
    /\ IF Valid
       THEN eval' = Obtained(cache.alerts) /\ UNCHANGED build
       ELSE Start("alerts") /\ UNCHANGED eval
    /\ UNCHANGED <<world, cache, firing, crashes, pager, missed, ago>>

(* The receiver hears of the transition of an alert, or the post is lost.  *)
Post(a, now) ==
    \/ pager' = now /\ missed' = missed \ {a}
    \/ MayLose /\ missed' = missed \cup {a} /\ UNCHANGED pager

(* Newly firing alerts are posted, in any order.                           *)
PostFiring(a) ==
    /\ eval.pc = "post" /\ a \in eval.current \ firing
    /\ Post(a, pager \cup {a})
    /\ firing' = firing \cup {a}
    /\ UNCHANGED <<world, build, cache, eval, crashes, ago>>

(* Then those that no longer hold.                                         *)
Resolve ==
    /\ eval.pc = "post" /\ eval.current \subseteq firing
    /\ eval' = [eval EXCEPT !.pc = "resolve", !.left = firing \ eval.current]
    /\ UNCHANGED <<world, build, cache, firing, crashes, pager, missed, ago>>

(* Mutant of PostResolved: the alert stays in the map.                     *)
PostResolvedOnly(a) ==
    /\ eval.pc = "resolve" /\ a \in eval.left
    /\ Post(a, pager \ {a})
    /\ eval' = [eval EXCEPT !.left = @ \ {a}]
    /\ UNCHANGED <<world, build, cache, firing, crashes, ago>>

PostResolved(a) ==
    /\ eval.pc = "resolve" /\ a \in eval.left
    /\ Post(a, pager \ {a})
    /\ firing' = firing \ {a}
    /\ eval' = [eval EXCEPT !.left = @ \ {a}]
    /\ UNCHANGED <<world, build, cache, crashes, ago>>

Rest ==
    /\ eval.pc = "resolve" /\ eval.left = {}
    /\ eval' = Idle
    /\ UNCHANGED <<world, build, cache, firing, crashes, pager, missed, ago>>

AlertStep ==
    \/ Evaluate \/ Ask \/ Resolve \/ Rest
    \/ \E a \in Alert : PostFiring(a) \/ PostResolved(a)

(* The process dies and is started again: of what fired it knows nothing.  *)
Crash ==
    /\ crashes < MaxCrashes
    /\ crashes' = crashes + 1
    /\ build' = NoBuild /\ cache' = NoCache /\ eval' = Idle /\ firing' = {}
    /\ missed' = missed \cup firing
    /\ UNCHANGED <<world, pager, ago>>

Next ==
    \/ BuildStep \/ AlertStep \/ ServePage \/ Tick \/ Crash
    \/ \E e \in Endpoints : Silence(e) \/ \E R, O \in SUBSET Keys : Report(e, R, O)
    \/ \E k \in Keys : Register(k) \/ \E e \in Endpoints : Activate(k, e)

Spec == Init /\ [][Next]_vars

(* The alert loop and the builds run, and time passes; nobody has to look  *)
(* at a page.  The lock goes to each of its waiters in the end, and the    *)
(* queries of the builds do not fail for ever.                             *)
Fairness ==
    /\ WF_vars(Tick) /\ WF_vars(BuildStep)
    /\ SF_vars(Ask) /\ WF_vars(AlertStep)
    /\ <>[][~BuildFails]_vars

FairSpec == Spec /\ Fairness

-----------------------------------------------------------------------------
(* Properties.                                                             *)

(* The alerts an evaluation acts on have all held no longer ago than the   *)
(* time a status may be kept (statusCacheTTL: "bounds how stale a served   *)
(* fleet status may be"), whoever built the status they come from.         *)
EvaluatesRecentTruth ==
    [][eval.pc = "want" /\ eval'.pc = "post" =>
          \A a \in eval'.current \cap DOMAIN ago : ago[a] <= TTL]_vars

(* What the receiver believes to be firing is what the map of firing       *)
(* alerts says, whatever posts were lost and whenever the process died,    *)
(* but for the alerts whose last transition it never heard of (evalAlerts  *)
(* writes the map whether its post succeeded or not).                      *)
PagerMatchesMap == pager \ missed = firing \ missed

(* The receiver ends up believing what is the case: an alert that goes on  *)
(* holding fires there, one that has ceased is resolved, whatever queries  *)
(* failed in between; but not the alerts whose last transition was posted  *)
(* in vain, or that fired when the process died (evalAlerts).              *)
PagerFollows ==
    \A a \in Alert :
        /\ <>[](a \in Holding) => <>[](a \in pager \/ a \in missed)
        /\ <>[](a \notin Holding) => <>[](a \notin pager \/ a \in missed)

(* README: the webhook "is POSTed on transitions": no exception.           *)
PagerAlwaysFollows ==
    \A a \in Alert :
        /\ <>[](a \in Holding) => <>[](a \in pager)
        /\ <>[](a \notin Holding) => <>[](a \notin pager)
=============================================================================
