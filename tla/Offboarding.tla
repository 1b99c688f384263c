---------------------------- MODULE Offboarding ----------------------------
(***************************************************************************)
(* The offboarding part of the maintenance sweep: once a day each machine  *)
(* owner is looked up in the directory, and owners absent for the grace    *)
(* period lose their machines.                                             *)
(*                                                                         *)
(* The maintenance goroutine is a process with a program counter: one      *)
(* action per answer recorded, machine disabled, owner flagged.  The       *)
(* directory, the clock and the administrators move between its steps, and *)
(* the process may crash anywhere: owner_check survives, the round does    *)
(* not.  Time is kept as ages in sweep periods, cut off where the code no  *)
(* longer tells them apart, so behaviours need no bound on time.           *)
(***************************************************************************)
EXTENDS Naturals, FiniteSets

CONSTANTS
    Owners,         \* user ids
    Machines,       \* machine rows
    OwnerOf,        \* the owner of each machine
    Grace,          \* orphan_grace_days
    Day,            \* orphanCheckInterval, in sweep periods
    Action,         \* orphan_action: "flag" or "disable"
    Leavers,        \* owners whose directory entry may come and go
    AdminOps,       \* what administrators and owners do to machines
    Directories,    \* conditions the directory may be in
    FirstStatus,    \* statuses the machines may start with
    MayFail,        \* whether store calls may fail
    MaxCrashes      \* bound: process crashes in a behaviour

ASSUME OffboardingAssumption ==
    /\ OwnerOf \in [Machines -> Owners]
    /\ Grace \in Nat \ {0}
    /\ Day \in Nat \ {0}
    /\ Action \in {"flag", "disable"}
    /\ Leavers \subseteq Owners
    /\ AdminOps \subseteq {"add", "approve", "enable", "disable", "delete"}
    /\ Directories \subseteq {"ok", "down", "broken"}
    /\ FirstStatus \subseteq {"pending", "active", "disabled"}
    /\ MayFail \in BOOLEAN
    /\ MaxCrashes \in Nat

VARIABLES
    present,        \* owners that have a directory entry
    directory,      \* "ok", "down" (no usable answer), "broken" (absent for all)
    status,         \* status column of the machines
    check,          \* table owner_check
    round,          \* the round in progress: locals of sweepOrphans
    crashes,        \* crashes so far
    absentFor,      \* history: age of the current run of recorded absences
    innocent,       \* history: owners in good standing when the directory broke,
                    \* as long as every answer since was kept
    alerts,         \* history: alerts sent in the current absence
    reactivated     \* history: machines activated since their owner's turn began

vars == <<present, directory, status, check, round, crashes,
          absentFor, innocent, alerts, reactivated>>

history == <<absentFor, innocent, alerts, reactivated>>

Live == {"pending", "active", "disabled"}
MachinesOf(u) == {m \in Machines : OwnerOf[m] = u /\ status[m] \in Live}
Active(u) == {m \in MachinesOf(u) : status[m] = "active"}

AtMost(n, bound) == IF n < bound THEN n ELSE bound

(* A row of owner_check; absent_since only feeds the admin page.           *)
Row == [known : BOOLEAN, misses : 0..Grace, flagged : BOOLEAN, age : 0..Day]
NoCheck == [known |-> FALSE, misses |-> 0, flagged |-> FALSE, age |-> 0]

NoRound == [pc |-> "idle", owners |-> {}, due |-> {}, view |-> [u \in Owners |-> NoCheck],
            confirmed |-> {}, orphans |-> {}, acting |-> {}, todo |-> {}, failed |-> FALSE]

Round ==
    [pc : {"idle", "refresh", "act", "disable", "flag", "alert", "prune"},
     owners : SUBSET Owners, due : SUBSET Owners, view : [Owners -> Row],
     confirmed : SUBSET Owners, orphans : SUBSET Owners, acting : SUBSET Owners,
     todo : SUBSET Machines, failed : BOOLEAN]

(* Ages of a run of absences that is still too short to act on.            *)
Full == (Grace - 1) * Day
NoRun == Full + 1

(* Type invariant.                                                         *)
TypeOK ==
    /\ present \subseteq Owners
    /\ directory \in {"ok", "down", "broken"}
    /\ status \in [Machines -> Live \cup {"none"}]
    /\ check \in [Owners -> Row]
    /\ round \in Round
    /\ crashes \in 0..MaxCrashes
    /\ absentFor \in [Owners -> 0..NoRun]
    /\ innocent \subseteq Owners
    /\ alerts \in [Owners -> Nat]
    /\ reactivated \subseteq Machines

Init ==
    /\ present = Owners
    /\ directory = "ok"
    /\ status \in [Machines -> FirstStatus]
    /\ check = [u \in Owners |-> NoCheck]
    /\ round = NoRound
    /\ crashes = 0
    /\ absentFor = [u \in Owners |-> NoRun]
    /\ innocent = {}
    /\ alerts = [u \in Owners |-> 0]
    /\ reactivated = {}

-----------------------------------------------------------------------------
(* Surroundings: the directory, the clock, administrators, crashes.        *)

Leave(u) ==
    /\ u \in Leavers /\ u \in present
    /\ present' = present \ {u}
    /\ UNCHANGED <<directory, status, check, round, crashes, history>>

Return(u) ==
    /\ u \in Leavers \ present
    /\ present' = present \cup {u}
    /\ UNCHANGED <<directory, status, check, round, crashes, history>>

(* LookupPresence's three outcomes depend on the state of the directory.   *)
ChangeDirectory(d) ==
    /\ d \in Directories \ {directory}
    /\ directory' = d
    /\ innocent' = IF d = "broken"
                   THEN {u \in present : check[u].known /\ check[u].misses = 0}
                   ELSE {}
    /\ UNCHANGED <<present, status, check, round, crashes, absentFor, alerts, reactivated>>

(* A sweep period passes.  Rounds are short against it: lookups and the    *)
(* webhook have timeouts of seconds.                                       *)
Tick ==
    /\ round.pc = "idle"
    /\ check' = [u \in Owners |->
                    IF check[u].known THEN [check[u] EXCEPT !.age = AtMost(@ + 1, Day)]
                    ELSE check[u]]
    /\ absentFor' = [u \in Owners |->
                        IF absentFor[u] < Full THEN absentFor[u] + 1 ELSE absentFor[u]]
    /\ UNCHANGED <<present, directory, status, round, crashes, innocent, alerts, reactivated>>

SetStatus(m, from, to) ==
    /\ status[m] \in from
    /\ status' = [status EXCEPT ![m] = to]
    /\ reactivated' = IF to = "active" THEN reactivated \cup {m} ELSE reactivated
    /\ UNCHANGED <<present, directory, check, round, crashes, absentFor, innocent, alerts>>

(* What a handler takes a machine from, and to; "none" is no row.           *)
Operations ==
    {[op |-> "add", from |-> {"none"}, to |-> "pending"],
     [op |-> "approve", from |-> {"pending"}, to |-> "active"],
     [op |-> "enable", from |-> {"disabled"}, to |-> "active"],
     [op |-> "disable", from |-> {"active", "pending"}, to |-> "disabled"],
     [op |-> "delete", from |-> Live, to |-> "none"]}

Administer(m) ==
    \E o \in Operations : o.op \in AdminOps /\ SetStatus(m, o.from, o.to)

(* The process dies and is started again; its first round comes at once.   *)
Crash ==
    /\ round.pc # "idle"
    /\ crashes < MaxCrashes
    /\ crashes' = crashes + 1
    /\ round' = NoRound
    /\ UNCHANGED <<present, directory, status, check, history>>

-----------------------------------------------------------------------------
(* One round of sweepOrphans.                                              *)

(* Mutant of AgedOut: every owner is asked about in every round.           *)
AgedOutAlways(c) == TRUE

(* An answer is trusted for orphanCheckInterval.                           *)
AgedOut(c) == ~c.known \/ c.age >= Day

(* The owners with machines, their rows, and whom to ask about.            *)
StartRound ==
    LET owners == {u \in Owners : MachinesOf(u) # {}} IN
    /\ round.pc = "idle"
    /\ owners # {}
    /\ round' = [NoRound EXCEPT
                    !.pc = "refresh", !.owners = owners, !.view = check,
                    !.due = {u \in owners : AgedOut(check[u])}]
    /\ UNCHANGED <<present, directory, status, check, crashes, history>>

(* What the directory says of an owner.                                    *)
Answer(u) ==
    CASE directory = "down" -> "unknown"
      [] directory = "broken" -> "absent"
      [] OTHER -> IF u \in present THEN "present" ELSE "absent"

PresentRow == [known |-> TRUE, misses |-> 0, flagged |-> FALSE, age |-> 0]

(* One more absence, counted up to the grace period.                       *)
AbsentRow(c) ==
    [known |-> TRUE, misses |-> AtMost(c.misses + 1, Grace), flagged |-> c.flagged, age |-> 0]

(* MarkOwnerPresent succeeds.                                              *)
RecordPresent(u) ==
    /\ round.pc = "refresh" /\ u \in round.due /\ Answer(u) = "present"
    /\ check' = [check EXCEPT ![u] = PresentRow]
    /\ round' = [round EXCEPT !.due = @ \ {u}, !.view[u] = PresentRow,
                              !.confirmed = @ \cup {u}]
    /\ absentFor' = [absentFor EXCEPT ![u] = NoRun]
    /\ alerts' = [alerts EXCEPT ![u] = 0]
    /\ UNCHANGED <<present, directory, status, crashes, innocent, reactivated>>

(* MarkOwnerAbsent succeeds; the row it reads back may be lost.            *)
RecordAbsent(u) ==
    /\ round.pc = "refresh" /\ u \in round.due /\ Answer(u) = "absent"
    /\ check' = [check EXCEPT ![u] = AbsentRow(@)]
    /\ \/ /\ round' = [round EXCEPT !.due = @ \ {u}, !.view[u] = AbsentRow(check[u])]
          /\ UNCHANGED innocent
       \/ /\ MayFail
          /\ round' = [round EXCEPT !.due = @ \ {u}]
          /\ innocent' = {}
    /\ absentFor' = [absentFor EXCEPT ![u] = IF @ = NoRun THEN 0 ELSE @]
    /\ UNCHANGED <<present, directory, status, crashes, alerts, reactivated>>

(* No usable answer, or it could not be recorded: nothing changes.         *)
SkipOwner(u) ==
    /\ round.pc = "refresh" /\ u \in round.due
    /\ Answer(u) = "unknown" \/ MayFail
    /\ round' = [round EXCEPT !.due = @ \ {u}]
    /\ innocent' = {}
    /\ UNCHANGED <<present, directory, status, check, crashes, absentFor, alerts, reactivated>>

(* orphanDecision, on the rows of this round.                              *)
PastGrace(R) == {u \in R.owners : R.view[u].known /\ R.view[u].misses >= Grace}
ConfirmedPresent(R) == {u \in R.owners : R.view[u].known /\ R.view[u].misses = 0}

(* Mutant of Refused: the round acts without anyone confirmed present.     *)
RefusedByMajorityOnly(R) == Cardinality(PastGrace(R)) * 2 > Cardinality(R.owners)

(* Mutant of Refused: half of the owners is already too many.              *)
RefusedAtHalf(R) ==
    \/ ConfirmedPresent(R) = {}
    \/ Cardinality(PastGrace(R)) * 2 >= Cardinality(R.owners)

Refused(R) ==
    \/ ConfirmedPresent(R) = {}
    \/ Cardinality(PastGrace(R)) * 2 > Cardinality(R.owners)

Decide ==
    /\ round.pc = "refresh" /\ round.due = {}
    /\ round' = IF PastGrace(round) = {} \/ Refused(round) THEN NoRound
                ELSE [round EXCEPT !.pc = "act",
                        !.orphans = {u \in PastGrace(round) : ~round.view[u].flagged}]
    /\ UNCHANGED <<present, directory, status, check, crashes, history>>

(* orphanOwner: the machines of one owner are listed.                      *)
ListMachines(u) ==
    /\ round.pc = "act" /\ u \in round.orphans
    /\ round' = IF Action = "disable"
                THEN [round EXCEPT !.pc = "disable", !.acting = {u}, !.todo = Active(u),
                                   !.orphans = @ \ {u}, !.failed = FALSE]
                ELSE [round EXCEPT !.pc = "flag", !.acting = {u}, !.orphans = @ \ {u}]
    /\ reactivated' = {}
    /\ UNCHANGED <<present, directory, status, check, crashes, absentFor, innocent, alerts>>

ListFails(u) ==
    /\ MayFail
    /\ round.pc = "act" /\ u \in round.orphans
    /\ round' = [round EXCEPT !.orphans = @ \ {u}]
    /\ UNCHANGED <<present, directory, status, check, crashes, history>>

(* SetMachineDisabled; the row may have been deleted meanwhile.            *)
DisableMachine(m) ==
    /\ round.pc = "disable" /\ m \in round.todo
    /\ status' = [status EXCEPT ![m] = IF @ = "none" THEN @ ELSE "disabled"]
    /\ round' = [round EXCEPT !.todo = @ \ {m}]
    /\ UNCHANGED <<present, directory, check, crashes, history>>

(* Mutant of DisableFails: the failure is forgotten.                       *)
DisableFailsUnnoticed(m) ==
    /\ MayFail
    /\ round.pc = "disable" /\ m \in round.todo
    /\ round' = [round EXCEPT !.todo = @ \ {m}]
    /\ UNCHANGED <<present, directory, status, check, crashes, history>>

DisableFails(m) ==
    /\ MayFail
    /\ round.pc = "disable" /\ m \in round.todo
    /\ round' = [round EXCEPT !.todo = @ \ {m}, !.failed = TRUE]
    /\ UNCHANGED <<present, directory, status, check, crashes, history>>

(* A half-done owner is left unflagged, for the next round to retry.       *)
EndDisabling ==
    /\ round.pc = "disable" /\ round.todo = {}
    /\ round' = [round EXCEPT !.pc = IF round.failed THEN "act" ELSE "flag"]
    /\ UNCHANGED <<present, directory, status, check, crashes, history>>

FlagOwner ==
    /\ round.pc = "flag"
    /\ check' = [u \in Owners |->
                    IF u \in round.acting /\ check[u].known
                    THEN [check[u] EXCEPT !.flagged = TRUE] ELSE check[u]]
    /\ round' = [round EXCEPT !.pc = "alert"]
    /\ UNCHANGED <<present, directory, status, crashes, history>>

(* Mutant of FlagFails: the owner is announced all the same.               *)
AlertUnflagged ==
    /\ MayFail
    /\ round.pc = "flag"
    /\ round' = [round EXCEPT !.pc = "alert"]
    /\ UNCHANGED <<present, directory, status, check, crashes, history>>

FlagFails ==
    /\ MayFail
    /\ round.pc = "flag"
    /\ round' = [round EXCEPT !.pc = "act", !.acting = {}]
    /\ UNCHANGED <<present, directory, status, check, crashes, history>>

(* postAlert: one attempt, not retried whatever becomes of it.             *)
PostAlert ==
    /\ round.pc = "alert"
    /\ alerts' = [u \in Owners |-> IF u \in round.acting THEN alerts[u] + 1 ELSE alerts[u]]
    /\ round' = [round EXCEPT !.pc = "act", !.acting = {}]
    /\ UNCHANGED <<present, directory, status, check, crashes, absentFor, innocent, reactivated>>

(* PruneOwnerChecks ends a round that acted; owners without machines go.   *)
Prune ==
    LET gone == {u \in Owners : MachinesOf(u) = {}} IN
    /\ round.pc = "act" /\ round.orphans = {}
    /\ check' = [u \in Owners |-> IF u \in gone THEN NoCheck ELSE check[u]]
    /\ alerts' = [u \in Owners |-> IF u \in gone THEN 0 ELSE alerts[u]]
    /\ round' = NoRound
    /\ UNCHANGED <<present, directory, status, crashes, absentFor, innocent, reactivated>>

PruneFails ==
    /\ MayFail
    /\ round.pc = "act" /\ round.orphans = {}
    /\ round' = NoRound
    /\ UNCHANGED <<present, directory, status, check, crashes, history>>

RoundStep ==
    \/ StartRound \/ Decide \/ EndDisabling \/ FlagOwner \/ FlagFails
    \/ PostAlert \/ Prune \/ PruneFails
    \/ \E u \in Owners : \/ RecordPresent(u) \/ RecordAbsent(u) \/ SkipOwner(u)
                         \/ ListMachines(u) \/ ListFails(u)
    \/ \E m \in Machines : DisableMachine(m) \/ DisableFails(m)

Next ==
    \/ RoundStep
    \/ Tick \/ Crash
    \/ \E u \in Owners : Leave(u) \/ Return(u)
    \/ \E d \in Directories : ChangeDirectory(d)
    \/ \E m \in Machines : Administer(m)

Spec == Init /\ [][Next]_vars

(* The maintenance goroutine is scheduled, and time goes on between its    *)
(* rounds; nothing is assumed of administrators or the directory.          *)
Fairness == WF_vars(RoundStep) /\ SF_vars(Tick)

FairSpec == Spec /\ Fairness

(* With store calls that may fail: none fails for ever.                    *)
RetryFairness ==
    /\ Fairness
    /\ \A u \in Leavers : SF_vars(RecordAbsent(u)) /\ SF_vars(ListMachines(u))
    /\ \A u \in Owners \ Leavers : SF_vars(RecordPresent(u))
    /\ \A m \in Machines : OwnerOf[m] \in Leavers => SF_vars(DisableMachine(m))
    /\ SF_vars(FlagOwner)

RetrySpec == Spec /\ RetryFairness

-----------------------------------------------------------------------------
(* Properties.                                                             *)

(* The sweep takes machines from an owner, flags or announces them, only   *)
(* when every answer the directory gave and the store kept has been absent *)
(* for the whole grace period: days are counted by answers at least        *)
(* orphanCheckInterval apart, across crashes, outages and pruning.         *)
NoHastyCut ==
    round.pc \in {"disable", "flag", "alert"} =>
        \A u \in round.acting : absentFor[u] = Full

(* An owner is flagged and announced as cut off only when every machine    *)
(* that was active then is out of service, unless an administrator put it  *)
(* back meanwhile (orphanOwner: "do not announce a disable that only half  *)
(* happened").                                                             *)
AnnouncedCut ==
    round.pc \in {"flag", "alert"} /\ Action = "disable" =>
        \A u \in round.acting : Active(u) \subseteq reactivated

(* One absence is announced at most once, although rounds repeat, fail and *)
(* crash (FlagOwnerOrphaned: "so it does not fire again on every sweep").  *)
AlertOnce == \A u \in Owners : alerts[u] <= 1

(* A directory that starts to answer absent for everyone cuts nobody off   *)
(* who was in good standing: with a grace period of two days or more, the  *)
(* owner who corroborates is asked again before anyone's second absence.   *)
(* (As long as the store keeps the answers: the row of an owner whose      *)
(* answer was lost goes on corroborating.)                                 *)
BrokenDirectoryHarmless ==
    \A u \in innocent :
        /\ ~check[u].flagged
        /\ round.pc \in {"disable", "flag"} => u \notin round.acting

(* With another owner to corroborate, an owner who has left for good ends  *)
(* up with no active machine, whatever outages, crashes and failed calls   *)
(* come before.                                                            *)
DepartedCutOff ==
    \A u \in Leavers :
        <>[](u \notin present /\ directory = "ok") => <>[](Active(u) = {})

(* What the comment on sweepOrphans says: absence is never acted upon      *)
(* "unless the same round confirmed at least one other owner as present".  *)
SameRoundConfirmation ==
    round.pc \in {"disable", "flag", "alert"} => round.confirmed # {}

(* What README says: a round where "a majority look absent, is refused".   *)
MajorityRefused ==
    round.pc \in {"disable", "flag", "alert"} =>
        2 * Cardinality({u \in round.owners : round.view[u].misses > 0})
            <= Cardinality(round.owners)
=============================================================================
