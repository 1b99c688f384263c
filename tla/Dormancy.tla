----------------------------- MODULE Dormancy ------------------------------
(***************************************************************************)
(* The dormancy part of the maintenance sweep: machines no concentrator    *)
(* has seen a handshake of for dormant_days are flagged or disabled.       *)
(*                                                                         *)
(* The evidence comes from the concentrators' agents, which may stop and   *)
(* resume; the truth, which devices are in use, is part of the model, so   *)
(* that the properties can compare what the sweep does with it.  The sweep *)
(* is a process with a program counter, one action per store call; reports,*)
(* administrators and owners move between its steps.  Times are ages in    *)
(* sweep periods, cut off where the code no longer tells them apart.       *)
(***************************************************************************)
EXTENDS Naturals, FiniteSets

CONSTANTS
    Machines,       \* machine rows
    Endpoints,      \* concentrators
    HubOf,          \* the concentrator each machine is linked to
    Days,           \* dormant_days, in sweep periods
    Action,         \* dormant_action: "flag" or "disable"
    Steady,         \* machines whose devices are always in use
    Together,       \* whether agents stop and resume only all at once
    MidSweep,       \* whether they may while a sweep gathers its evidence
    AdminOps,       \* what administrators and owners do to machines
    FirstStatus,    \* statuses the machines may start with
    MayFail,        \* whether the sweep's store calls may fail
    MaxCrashes      \* bound: process crashes in a behaviour

ASSUME DormancyAssumption ==
    /\ HubOf \in [Machines -> Endpoints]
    /\ Days \in Nat \ {0}
    /\ Action \in {"flag", "disable"}
    /\ Steady \subseteq Machines
    /\ Together \in BOOLEAN /\ MidSweep \in BOOLEAN
    /\ AdminOps \subseteq {"approve", "enable", "disable", "requeue", "delete"}
    /\ FirstStatus \subseteq {"pending", "active", "disabled"}
    /\ MayFail \in BOOLEAN
    /\ MaxCrashes \in Nat

VARIABLES
    status,         \* status column of the machines
    seen,           \* age of last_seen
    since,          \* age of approved_at
    flagged,        \* machines with dormant_since set
    inUse,          \* devices in use
    idle,           \* age of the device's latest handshake
    up,             \* endpoints whose agent runs and holds a valid token
    fresh,          \* endpoints that have reported within this period
    round,          \* the sweep in progress: locals of sweepDormant
    crashes,        \* crashes so far
    activated,      \* history: machines put into service in this period
    alerts,         \* history: alerts sent since the flag was last clear
    cut             \* history: machines disabled by the sweep, unannounced

vars == <<status, seen, since, flagged, inUse, idle, up, fresh, round, crashes,
          activated, alerts, cut>>

devices == <<inUse, idle>>
rows == <<status, seen, since, flagged>>
history == <<activated, alerts, cut>>

Statuses == {"none", "pending", "active", "disabled"}

(* Ages: beyond Days + 1 nothing changes; Never is no handshake at all.    *)
Never == Days + 2
Older(age) == IF age <= Days THEN age + 1 ELSE age

NoRound == [pc |-> "idle", active |-> {}, flagged |-> {}, old |-> {},
            clear |-> {}, todo |-> {}, acting |-> {}]

Round == [pc : {"idle", "clear", "resolve", "act", "disable", "flag", "alert"},
          active : SUBSET Machines, flagged : SUBSET Machines, old : SUBSET Machines,
          clear : SUBSET Machines, todo : SUBSET Machines, acting : SUBSET Machines]

(* Type invariant.                                                         *)
TypeOK ==
    /\ status \in [Machines -> Statuses]
    /\ seen \in [Machines -> 0..Never]
    /\ since \in [Machines -> 0..Days + 1]
    /\ flagged \subseteq Machines
    /\ inUse \subseteq Machines
    /\ idle \in [Machines -> 0..Never]
    /\ up \subseteq Endpoints
    /\ fresh \subseteq Endpoints
    /\ round \in Round
    /\ crashes \in 0..MaxCrashes
    /\ activated \subseteq Machines
    /\ alerts \in [Machines -> Nat]
    /\ cut \subseteq Machines

Init ==
    /\ status \in [Machines -> FirstStatus]
    /\ seen = [m \in Machines |-> Never]
    /\ since = [m \in Machines |-> 0]
    /\ flagged = {}
    /\ inUse = Steady
    /\ idle = [m \in Machines |-> IF m \in Steady /\ status[m] = "active" THEN 0 ELSE Never]
    /\ up = Endpoints
    /\ fresh = {}
    /\ round = NoRound
    /\ crashes = 0
    /\ activated = {m \in Machines : status[m] = "active"}
    /\ alerts = [m \in Machines |-> 0]
    /\ cut = {}

-----------------------------------------------------------------------------
(* Devices, agents, administrators, the clock.                             *)

Connect(m) ==
    /\ m \notin inUse
    /\ inUse' = inUse \cup {m}
    /\ idle' = IF status[m] = "active" THEN [idle EXCEPT ![m] = 0] ELSE idle
    /\ UNCHANGED <<rows, up, fresh, round, crashes, history>>

PutAway(m) ==
    /\ m \in inUse \ Steady
    /\ inUse' = inUse \ {m}
    /\ UNCHANGED <<rows, idle, up, fresh, round, crashes, history>>

(* Agents report every half minute: within a period every one that runs    *)
(* has been heard.                                                         *)
Prompt == up \subseteq fresh

(* An agent stops or its token is rotated, and comes back.                 *)
ChangeAgents(E) ==
    /\ E # up
    /\ Together => E \in {{}, Endpoints} /\ Prompt
    /\ MidSweep \/ round.pc \notin {"clear", "resolve"}
    /\ up' = E
    /\ UNCHANGED <<rows, devices, fresh, round, crashes, history>>

(* A report is stored: last_seen moves forward only.  The hub carries its  *)
(* active machines, and others (M) it has not dropped yet.                 *)
Report(e, M) ==
    LET carried == {m \in Machines : HubOf[m] = e /\ (m \in M \/ status[m] = "active")} IN
    /\ e \in up
    /\ fresh' = fresh \cup {e}
    /\ seen' = [m \in Machines |->
                   IF m \in carried /\ idle[m] < seen[m] /\ status[m] # "none"
                   THEN idle[m] ELSE seen[m]]
    /\ UNCHANGED <<status, since, flagged, devices, up, round, crashes, history>>

SetStatus(m, from, to) ==
    /\ status[m] \in from
    /\ status' = [status EXCEPT ![m] = to]
    /\ since' = IF to = "active" THEN [since EXCEPT ![m] = 0] ELSE since
    /\ activated' = IF to = "active" THEN activated \cup {m} ELSE activated
    /\ cut' = cut \ {m}
    /\ UNCHANGED <<seen, flagged, devices, up, fresh, round, crashes, alerts>>

(* What a handler takes a machine from, and to; "none" is no row.           *)
Operations ==
    {[op |-> "approve", from |-> {"pending"}, to |-> "active"],
     [op |-> "enable", from |-> {"disabled"}, to |-> "active"],
     [op |-> "disable", from |-> {"active", "pending"}, to |-> "disabled"],
     [op |-> "requeue", from |-> {"active", "disabled"}, to |-> "pending"],
     [op |-> "delete", from |-> Statuses \ {"none"}, to |-> "none"]}

Administer(m) ==
    \E o \in Operations : o.op \in AdminOps /\ SetStatus(m, o.from, o.to)

(* A sweep period passes.  Devices in use keep up their handshakes as long *)
(* as the hub lets them.                                                   *)
Tick ==
    /\ round.pc = "idle"
    /\ Prompt
    /\ seen' = [m \in Machines |-> Older(seen[m])]
    /\ since' = [m \in Machines |-> Older(since[m])]
    /\ idle' = [m \in Machines |->
                   IF m \in inUse /\ status[m] = "active" THEN 0 ELSE Older(idle[m])]
    /\ fresh' = {}
    /\ activated' = {}
    /\ UNCHANGED <<status, flagged, inUse, up, round, crashes, alerts, cut>>

Crash ==
    /\ round.pc # "idle"
    /\ crashes < MaxCrashes
    /\ crashes' = crashes + 1
    /\ round' = NoRound
    /\ UNCHANGED <<rows, devices, up, fresh, history>>

-----------------------------------------------------------------------------
(* One sweep.                                                              *)

(* SeenOrSince: the last handshake, else the approval.                     *)
SeenOrSince(m) == IF seen[m] = Never THEN since[m] ELSE seen[m]

Dormant(m) == m \in flagged

(* Mutant of StartRound: flagged machines that are in service are skipped. *)
StartRoundSkipsActive ==
    /\ round.pc = "idle"
    /\ Prompt
    /\ round' = [NoRound EXCEPT
          !.pc = "clear",
          !.active = {m \in Machines : status[m] = "active"},
          !.flagged = flagged,
          !.old = {m \in Machines : SeenOrSince(m) > Days},
          !.clear = {m \in flagged : status[m] = "disabled" /\ seen[m] < Days}]
    /\ UNCHANGED <<rows, devices, up, fresh, crashes, history>>

(* The machines are listed; flags of those seen again are to be cleared.   *)
StartRound ==
    /\ round.pc = "idle"
    /\ Prompt
    /\ round' = [NoRound EXCEPT
          !.pc = "clear",
          !.active = {m \in Machines : status[m] = "active"},
          !.flagged = flagged,
          !.old = {m \in Machines : SeenOrSince(m) > Days},
          !.clear = {m \in Machines : status[m] # "none" /\ Dormant(m) /\ seen[m] < Days}]
    /\ UNCHANGED <<rows, devices, up, fresh, crashes, history>>

ClearDormant(m) ==
    /\ round.pc = "clear" /\ m \in round.clear
    /\ flagged' = flagged \ {m}
    /\ alerts' = [alerts EXCEPT ![m] = 0]
    /\ round' = [round EXCEPT !.pc = "resolve", !.clear = @ \ {m}, !.acting = {m}]
    /\ UNCHANGED <<status, seen, since, devices, up, fresh, crashes, activated, cut>>

ClearFails(m) ==
    /\ MayFail
    /\ round.pc = "clear" /\ m \in round.clear
    /\ round' = [round EXCEPT !.clear = @ \ {m}]
    /\ UNCHANGED <<rows, devices, up, fresh, crashes, history>>

PostResolved ==
    /\ round.pc = "resolve"
    /\ round' = [round EXCEPT !.pc = "clear", !.acting = {}]
    /\ UNCHANGED <<rows, devices, up, fresh, crashes, history>>

(* dormantDecision: the candidates, and the two refusals.                  *)
Candidates(R) == (R.active \cap R.old) \ R.flagged

(* Mutant of Refused: silence everywhere is taken for evidence.            *)
RefusedByMajorityOnly(R) == Cardinality(Candidates(R)) * 2 > Cardinality(R.active)

(* Mutant of Refused: half of the machines is already too many.            *)
RefusedAtHalf(R) ==
    fresh = {} \/ Cardinality(Candidates(R)) * 2 >= Cardinality(R.active)

Refused(R) ==
    \/ fresh = {}
    \/ Cardinality(Candidates(R)) * 2 > Cardinality(R.active)

Decide ==
    /\ round.pc = "clear" /\ round.clear = {}
    /\ round' = IF Candidates(round) = {} \/ Refused(round) THEN NoRound
                ELSE [round EXCEPT !.pc = "act", !.todo = Candidates(round)]
    /\ UNCHANGED <<rows, devices, up, fresh, crashes, history>>

(* dormantMachine.                                                         *)
TakeMachine(m) ==
    /\ round.pc = "act" /\ m \in round.todo
    /\ round' = [round EXCEPT !.pc = IF Action = "disable" THEN "disable" ELSE "flag",
                              !.todo = @ \ {m}, !.acting = {m}]
    /\ UNCHANGED <<rows, devices, up, fresh, crashes, history>>

DisableMachine ==
    /\ round.pc = "disable"
    /\ status' = [m \in Machines |->
                     IF m \in round.acting /\ status[m] # "none" THEN "disabled" ELSE status[m]]
    /\ cut' = cut \cup {m \in round.acting : status[m] # "none"}
    /\ round' = [round EXCEPT !.pc = "flag"]
    /\ UNCHANGED <<seen, since, flagged, devices, up, fresh, crashes, activated, alerts>>

DisableFails ==
    /\ MayFail
    /\ round.pc = "disable"
    /\ round' = [round EXCEPT !.pc = "act", !.acting = {}]
    /\ UNCHANGED <<rows, devices, up, fresh, crashes, history>>

(* Mutant of FlagMachine: the flag is not saved.                           *)
FlagLost ==
    /\ round.pc = "flag"
    /\ round' = [round EXCEPT !.pc = "alert"]
    /\ UNCHANGED <<rows, devices, up, fresh, crashes, history>>

FlagMachine ==
    /\ round.pc = "flag"
    /\ flagged' = flagged \cup {m \in round.acting : status[m] # "none"}
    /\ round' = [round EXCEPT !.pc = "alert"]
    /\ UNCHANGED <<status, seen, since, devices, up, fresh, crashes, history>>

FlagFails ==
    /\ MayFail
    /\ round.pc = "flag"
    /\ round' = [round EXCEPT !.pc = "act", !.acting = {}]
    /\ UNCHANGED <<rows, devices, up, fresh, crashes, history>>

(* Audit entry and webhook, one attempt.                                   *)
PostAlert ==
    /\ round.pc = "alert"
    /\ alerts' = [m \in Machines |-> IF m \in round.acting THEN alerts[m] + 1 ELSE alerts[m]]
    /\ cut' = cut \ round.acting
    /\ round' = [round EXCEPT !.pc = "act", !.acting = {}]
    /\ UNCHANGED <<rows, devices, up, fresh, crashes, activated>>

EndRound ==
    /\ round.pc = "act" /\ round.todo = {}
    /\ round' = NoRound
    /\ UNCHANGED <<rows, devices, up, fresh, crashes, history>>

RoundStep ==
    \/ StartRound \/ PostResolved \/ Decide \/ DisableMachine \/ DisableFails
    \/ FlagMachine \/ FlagFails \/ PostAlert \/ EndRound
    \/ \E m \in Machines : ClearDormant(m) \/ ClearFails(m) \/ TakeMachine(m)

Next ==
    \/ RoundStep
    \/ Tick \/ Crash
    \/ \E m \in Machines : Connect(m) \/ PutAway(m) \/ Administer(m)
    \/ \E E \in SUBSET Endpoints : ChangeAgents(E)
    \/ \E e \in Endpoints, M \in SUBSET Machines : Report(e, M)

Spec == Init /\ [][Next]_vars

(* The maintenance goroutine is scheduled, agents that run report, and     *)
(* time goes on between rounds; nothing is assumed of anybody else.        *)
(* (Strong fairness where the clock and the reports take turns.)           *)
Fairness ==
    /\ WF_vars(RoundStep) /\ SF_vars(StartRound)
    /\ SF_vars(Tick)
    /\ \A e \in Endpoints : WF_vars(Report(e, {}))

FairSpec == Spec /\ Fairness

(* With store calls that may fail: none fails for ever.                    *)
RetryFairness ==
    /\ Fairness
    /\ SF_vars(DisableMachine) /\ SF_vars(FlagMachine)
    /\ \A m \in Machines : SF_vars(ClearDormant(m))

RetrySpec == Spec /\ RetryFairness

-----------------------------------------------------------------------------
(* Properties.                                                             *)

(* A device in use is left alone, however long an outage of all agents or  *)
(* of the portal lasted before, and however the reports come in after it:  *)
(* what the refusals of dormantDecision are for.  The exception is a       *)
(* machine put into service within this very period, whose device has had  *)
(* no time to connect.  (Both Together and ~MidSweep are needed: an outage *)
(* of one agent, or one that ends between the listing of the machines and  *)
(* the look at the reports, gets past the refusals.)                       *)
InUseKept ==
    round.pc \in {"disable", "flag", "alert"} => round.acting \cap Steady \subseteq activated

(* One spell of dormancy is announced at most once, over all rounds,       *)
(* failures and crashes (FlagMachineDormant: "so it is reported once       *)
(* rather than on every pass").                                            *)
AlertOnce == \A m \in Machines : alerts[m] <= 1

(* An idle machine is acted upon in the end, as long as nobody puts it     *)
(* into service again, devices in use corroborate it and the agents run.   *)
IdleActedOn ==
    \A m \in Machines \ Steady :
        <>[](/\ m \notin inUse \cup activated
             /\ up = Endpoints
             /\ \A s \in Steady : status[s] = "active") =>
            <>[](status[m] = "active" => Dormant(m))

(* A flag clears by itself once the device is in use again (README, "If    *)
(* the device shows up again the flag clears on its own").                 *)
FlagClears ==
    \A m \in Machines :
        <>[](m \in inUse /\ status[m] = "active" /\ up = Endpoints) => <>[]~Dormant(m)

(* The comment on dormantMachine: "a failed write is retried on the next   *)
(* sweep instead of being lost".  A machine the sweep disabled is flagged  *)
(* and announced in the end.                                               *)
CutAnnounced == \A m \in Machines : m \in cut ~> m \notin cut

(* The comment on sweepDormant: it takes out of service "the machines that *)
(* have not handshaked for dormant_days", judged when it does so.          *)
DisablesOnlyDormant ==
    [][DisableMachine => \A m \in round.acting : status[m] # "active" \/ SeenOrSince(m) > Days]_vars

(* The comment on sweepDormant: without it "a device that stopped being    *)
(* used keeps a working peer forever".                                     *)
IdleTakenOut ==
    \A m \in Machines \ Steady :
        <>[](m \notin inUse /\ up = Endpoints) => <>[](status[m] # "active")
=============================================================================
