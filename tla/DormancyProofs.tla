--------------------------- MODULE DormancyProofs ---------------------------
(***************************************************************************)
(* Type correctness of Dormancy, that one spell of dormancy is announced   *)
(* at most once (AlertOnce), and that a device in use is left alone        *)
(* (InUseKept), for any number of machines, concentrators and days.        *)
(*                                                                         *)
(* AlertOnce: a machine announced is flagged, or its row is gone, so no    *)
(* later round can take it for a candidate; and within a round a machine   *)
(* leaves todo before it is acted upon.                                    *)
(*                                                                         *)
(* InUseKept: when the hub of a machine in use has reported in this        *)
(* period, the machine was seen in it and is no candidate; when no hub has *)
(* by the time the round starts, none does until the decision, and the     *)
(* decision refuses.  This is where agents have to stop and resume         *)
(* together, and not between the start of a round and its decision.        *)
(***************************************************************************)
EXTENDS Dormancy, TLAPS

(* Steps of the round before its decision, and those in which a machine is *)
(* being acted upon.                                                       *)
Deciding == round.pc \in {"clear", "resolve"}
Acting == round.pc \in {"disable", "flag", "alert"}

(* Machines this round may still act upon.                                 *)
Due ==
    IF Deciding THEN Candidates(round)
    ELSE IF Acting THEN round.todo \cup round.acting
    ELSE IF round.pc = "act" THEN round.todo ELSE {}

(* What is announced is flagged or gone, what is due is not announced.     *)
AlertInv ==
    /\ \A m \in Machines : alerts[m] <= 1
    /\ \A m \in Machines : alerts[m] = 1 => m \in flagged \/ status[m] = "none"
    /\ \A m \in Due : alerts[m] = 0
    /\ Acting => round.todo \cap round.acting = {}
    /\ round.pc = "alert" =>
         \A m \in round.acting : m \in flagged \/ status[m] = "none"

(* Ages stay in their range. *)
LEMMA Ages ==
  /\ 0 \in 0..Never /\ 0 \in 0..Days + 1 /\ Never \in 0..Never
  /\ \A a \in 0..Never : Older(a) \in 0..Never
  /\ \A a \in 0..Days + 1 : Older(a) \in 0..Days + 1
  BY DormancyAssumption DEF Older, Never

(* No round is a round. *)
LEMMA RoundType == NoRound \in Round
  BY DEF NoRound, Round

(* The initial states have their types. *)
LEMMA InitTypeOK == Init => TypeOK
  <1> SUFFICES ASSUME Init PROVE TypeOK
    OBVIOUS
  <1>1. status \in [Machines -> Statuses]
    BY DormancyAssumption DEF Init, Statuses
  <1>2. seen \in [Machines -> 0..Never] /\ idle \in [Machines -> 0..Never]
        /\ since \in [Machines -> 0..Days + 1]
    BY Ages DEF Init
  <1>3. crashes \in 0..MaxCrashes /\ alerts \in [Machines -> Nat]
    BY DormancyAssumption DEF Init
  <1>4. QED
    BY <1>1, <1>2, <1>3, RoundType, DormancyAssumption DEF Init, TypeOK

(* Every step keeps the types. *)
LEMMA NextTypeOK == TypeOK /\ [Next]_vars => TypeOK'
  <1> SUFFICES ASSUME TypeOK, [Next]_vars PROVE TypeOK'
    OBVIOUS
  <1> USE DEF rows, devices, history
  <1>1. CASE UNCHANGED vars
    BY <1>1 DEF vars, TypeOK
  <1>2. CASE Tick
    BY <1>2, Ages DEF Tick, TypeOK
  <1>3. CASE Crash
    BY <1>3, DormancyAssumption, RoundType DEF Crash, TypeOK
  <1>4. ASSUME NEW m \in Machines, Connect(m) PROVE TypeOK'
    BY <1>4, Ages DEF Connect, TypeOK
  <1>5. ASSUME NEW m \in Machines, PutAway(m) PROVE TypeOK'
    BY <1>5 DEF PutAway, TypeOK
  <1>6. ASSUME NEW m \in Machines, Administer(m) PROVE TypeOK'
    <2>1. PICK o \in Operations : SetStatus(m, o.from, o.to)
      BY <1>6 DEF Administer
    <2>2. o.to \in Statuses
      BY DEF Operations, Statuses
    <2>3. QED
      BY <2>1, <2>2, Ages DEF SetStatus, TypeOK
  <1>7. ASSUME NEW E \in SUBSET Endpoints, ChangeAgents(E) PROVE TypeOK'
    BY <1>7 DEF ChangeAgents, TypeOK
  <1>8. ASSUME NEW e \in Endpoints, NEW M \in SUBSET Machines, Report(e, M) PROVE TypeOK'
    BY <1>8 DEF Report, TypeOK
  <1>9. CASE StartRound
    BY <1>9 DEF StartRound, NoRound, Round, TypeOK
  <1>10. CASE DisableMachine
    <2>1. status' \in [Machines -> Statuses] /\ cut' \subseteq Machines
      BY <1>10 DEF DisableMachine, Round, TypeOK, Statuses
    <2>2. round' \in Round
      BY <1>10 DEF DisableMachine, Round, TypeOK
    <2>3. QED
      BY <1>10, <2>1, <2>2 DEF DisableMachine, TypeOK
  <1>11. CASE FlagMachine
    BY <1>11 DEF FlagMachine, Round, TypeOK
  <1>12. CASE PostAlert
    <2>1. alerts' \in [Machines -> Nat] /\ cut' \subseteq Machines
      BY <1>12 DEF PostAlert, TypeOK
    <2>2. round' \in Round
      BY <1>12 DEF PostAlert, Round, TypeOK
    <2>3. QED
      BY <1>12, <2>1, <2>2 DEF PostAlert, TypeOK
  <1>13. CASE Decide
    <2>1. Candidates(round) \subseteq Machines
      BY DEF Candidates, TypeOK, Round
    <2>2. round' \in Round
      BY <1>13, <2>1, RoundType DEF Decide, Round, TypeOK
    <2>3. QED
      BY <1>13, <2>2 DEF Decide, TypeOK
  <1>14. CASE PostResolved \/ DisableFails \/ FlagFails \/ EndRound
    <2>1. CASE EndRound
      BY <2>1, RoundType DEF EndRound, TypeOK
    <2>2. CASE PostResolved \/ DisableFails \/ FlagFails
      BY <2>2 DEF PostResolved, DisableFails, FlagFails, Round, TypeOK
    <2>3. QED
      BY <1>14, <2>1, <2>2
  <1>15. ASSUME NEW m \in Machines, ClearDormant(m) PROVE TypeOK'
    BY <1>15 DEF ClearDormant, Round, TypeOK
  <1>16. ASSUME NEW m \in Machines, ClearFails(m) PROVE TypeOK'
    BY <1>16 DEF ClearFails, Round, TypeOK
  <1>17. ASSUME NEW m \in Machines, TakeMachine(m) PROVE TypeOK'
    BY <1>17 DEF TakeMachine, Round, TypeOK
  <1>18. QED
    BY <1>1, <1>2, <1>3, <1>4, <1>5, <1>6, <1>7, <1>8, <1>9, <1>10, <1>11, <1>12,
       <1>13, <1>14, <1>15, <1>16, <1>17 DEF Next, RoundStep

(* Type correctness of the sweep. *)
THEOREM TypeCorrect == Spec => []TypeOK
  BY InitTypeOK, NextTypeOK, PTL DEF Spec

-----------------------------------------------------------------------------
(* Steps outside the round only ever delete machines that are not due, or  *)
(* leave everything AlertInv speaks of. *)
LEMMA AlertOthers ==
  ASSUME TypeOK, AlertInv, UNCHANGED <<round, flagged, alerts>>,
         \A m \in Machines : status[m] = "none" => status'[m] = "none"
  PROVE  AlertInv'
  BY DEF AlertInv, Due, Deciding, Acting, TypeOK, Round

(* A step of the sweep keeps what is known of alerts and flags. *)
LEMMA AlertRound ==
  ASSUME TypeOK, AlertInv, RoundStep
  PROVE  AlertInv'
  <1> USE DEF rows, devices, history
  <1>1. round \in Round /\ alerts \in [Machines -> Nat]
    BY DEF TypeOK
  <1>2. \A m \in Machines : alerts[m] # 1 => alerts[m] = 0
    BY <1>1 DEF AlertInv
  <1>3. ASSUME UNCHANGED <<status, flagged, alerts>>, round' = NoRound
        PROVE  AlertInv'
    BY <1>3 DEF AlertInv, Due, Deciding, Acting, NoRound
  <1>4. CASE StartRound
    <2>1. /\ round'.pc = "clear" /\ UNCHANGED <<status, flagged, alerts>>
          /\ round'.active = {m \in Machines : status[m] = "active"}
          /\ round'.flagged = flagged
      BY <1>4 DEF StartRound, NoRound
    <2>2. \A m \in Candidates(round') : m \in Machines /\ status[m] # "none" /\ m \notin flagged
      BY <2>1 DEF Candidates
    <2>3. \A m \in Due' : m \in Machines /\ alerts[m] = 0
      BY <1>2, <2>1, <2>2 DEF Due, Deciding, AlertInv
    <2>4. QED
      BY <2>1, <2>3 DEF AlertInv, Acting
  <1>5. ASSUME NEW m \in Machines, ClearDormant(m) PROVE AlertInv'
    <2>1. /\ round.pc = "clear" /\ round'.pc = "resolve" /\ UNCHANGED status
          /\ flagged' = flagged \ {m} /\ alerts' = [alerts EXCEPT ![m] = 0]
          /\ round'.active = round.active /\ round'.old = round.old
          /\ round'.flagged = round.flagged
      BY <1>1, <1>5 DEF ClearDormant, Round
    <2>2. Due' = Due /\ Due \subseteq Machines
      BY <1>1, <2>1 DEF Due, Deciding, Candidates, Round
    <2>3. \A n \in Machines : alerts'[n] = IF n = m THEN 0 ELSE alerts[n]
      BY <1>1, <2>1
    <2>4. QED
      BY <2>1, <2>2, <2>3 DEF AlertInv, Acting
  <1>6. CASE PostResolved \/ \E m \in Machines : ClearFails(m)
    <2>1. /\ Deciding /\ round'.pc = "clear" /\ UNCHANGED <<status, flagged, alerts>>
          /\ round'.active = round.active /\ round'.old = round.old
          /\ round'.flagged = round.flagged
      BY <1>1, <1>6 DEF PostResolved, ClearFails, Round, Deciding
    <2>2. Due' = Due
      BY <2>1 DEF Due, Deciding, Candidates
    <2>3. QED
      BY <2>1, <2>2 DEF AlertInv, Acting
  <1>7. CASE Decide
    <2>1. CASE round' = NoRound
      BY <1>3, <1>7, <2>1 DEF Decide
    <2>2. CASE round' # NoRound
      <3>1. /\ round.pc = "clear" /\ round'.pc = "act" /\ round'.todo = Candidates(round)
            /\ UNCHANGED <<status, flagged, alerts>>
        BY <1>1, <1>7, <2>2 DEF Decide, Round
      <3>2. Due' = Due
        BY <3>1 DEF Due, Deciding, Acting
      <3>3. QED
        BY <3>1, <3>2 DEF AlertInv, Acting
    <2>3. QED
      BY <2>1, <2>2
  <1>8. ASSUME NEW m \in Machines, TakeMachine(m) PROVE AlertInv'
    <2>1. /\ round.pc = "act" /\ m \in round.todo /\ round'.pc \in {"disable", "flag"}
          /\ round'.todo = round.todo \ {m} /\ round'.acting = {m}
          /\ UNCHANGED <<status, flagged, alerts>>
      BY <1>1, <1>8 DEF TakeMachine, Round
    <2>2. Due' = Due
      BY <2>1 DEF Due, Deciding, Acting
    <2>3. QED
      BY <2>1, <2>2 DEF AlertInv, Acting
  <1>9. CASE DisableMachine
    <2>1. /\ round.pc = "disable" /\ round'.pc = "flag" /\ UNCHANGED <<flagged, alerts>>
          /\ round'.todo = round.todo /\ round'.acting = round.acting
          /\ \A m \in Machines : status[m] = "none" => status'[m] = "none"
      BY <1>1, <1>9 DEF DisableMachine, Round
    <2>2. Due' = Due
      BY <2>1 DEF Due, Deciding, Acting
    <2>3. QED
      BY <2>1, <2>2 DEF AlertInv, Acting
  <1>10. CASE FlagMachine
    <2>1. /\ round.pc = "flag" /\ round'.pc = "alert" /\ UNCHANGED <<status, alerts>>
          /\ round'.todo = round.todo /\ round'.acting = round.acting
          /\ flagged' = flagged \cup {m \in round.acting : status[m] # "none"}
      BY <1>1, <1>10 DEF FlagMachine, Round
    <2>2. Due' = Due
      BY <2>1 DEF Due, Deciding, Acting
    <2>3. QED
      BY <2>1, <2>2 DEF AlertInv, Acting
  <1>11. CASE PostAlert
    <2>1. /\ round.pc = "alert" /\ round'.pc = "act" /\ UNCHANGED <<status, flagged>>
          /\ round'.todo = round.todo
          /\ alerts' = [m \in Machines |->
                           IF m \in round.acting THEN alerts[m] + 1 ELSE alerts[m]]
      BY <1>1, <1>11 DEF PostAlert, Round
    <2>2. /\ \A m \in round.todo \cup round.acting : m \in Machines /\ alerts[m] = 0
          /\ round.todo \cap round.acting = {}
          /\ \A m \in round.acting : m \in flagged \/ status[m] = "none"
      BY <1>1, <2>1 DEF AlertInv, Due, Deciding, Acting, Round
    <2>3. \A m \in Machines : alerts'[m] = IF m \in round.acting THEN 1 ELSE alerts[m]
      BY <2>1, <2>2
    <2>4. Due' = round.todo
      BY <2>1 DEF Due, Deciding, Acting
    <2>5. QED
      BY <2>1, <2>2, <2>3, <2>4 DEF AlertInv, Acting
  <1>12. CASE DisableFails \/ FlagFails
    <2>1. /\ Acting /\ round'.pc = "act" /\ UNCHANGED <<status, flagged, alerts>>
          /\ round'.todo = round.todo
      BY <1>1, <1>12 DEF DisableFails, FlagFails, Acting, Round
    <2>2. Due' \subseteq Due
      BY <2>1 DEF Due, Deciding, Acting
    <2>3. QED
      BY <2>1, <2>2 DEF AlertInv, Acting
  <1>13. CASE EndRound
    BY <1>3, <1>13 DEF EndRound
  <1>14. QED
    BY <1>4, <1>5, <1>6, <1>7, <1>8, <1>9, <1>10, <1>11, <1>12, <1>13 DEF RoundStep

(* So does every other step. *)
LEMMA AlertStep == TypeOK /\ AlertInv /\ [Next]_vars => AlertInv'
  <1> SUFFICES ASSUME TypeOK, AlertInv, [Next]_vars PROVE AlertInv'
    OBVIOUS
  <1> USE DEF rows, devices, history
  <1>1. CASE RoundStep
    BY <1>1, AlertRound
  <1>2. CASE Crash
    BY <1>2 DEF Crash, NoRound, AlertInv, Due, Deciding, Acting
  <1>3. ASSUME NEW m \in Machines, Administer(m) PROVE AlertInv'
    <2>1. PICK o \in Operations : SetStatus(m, o.from, o.to)
      BY <1>3 DEF Administer
    <2>2. "none" \notin o.from
      BY DEF Operations
    <2>3. /\ UNCHANGED <<round, flagged, alerts>>
          /\ \A n \in Machines : status[n] = "none" => status'[n] = "none"
      BY <2>1, <2>2 DEF SetStatus, TypeOK
    <2>4. QED
      BY <2>3, AlertOthers
  <1>4. CASE UNCHANGED <<round, flagged, alerts, status>>
    BY <1>4, AlertOthers
  <1>5. QED
    BY <1>1, <1>2, <1>3, <1>4
    DEF Next, vars, Tick, Connect, PutAway, ChangeAgents, Report

(* One spell of dormancy is announced at most once, over all rounds,       *)
(* failures of store calls and crashes.                                    *)
THEOREM AnnouncedOnce == Spec => []AlertOnce
  <1>1. Init => AlertInv
    BY DEF Init, NoRound, AlertInv, Due, Deciding, Acting
  <1>2. AlertInv => AlertOnce
    BY DEF AlertInv, AlertOnce
  <1>3. QED
    BY <1>1, <1>2, AlertStep, TypeCorrect, PTL DEF Spec

-----------------------------------------------------------------------------
(* A machine in use that is not new in this period has been seen by its    *)
(* hub if the hub has reported; agents stop and resume all at once, after  *)
(* all have reported; and a round that starts without any report makes no  *)
(* decision.                                                               *)
UseInv ==
    /\ Steady \subseteq inUse
    /\ up \in {{}, Endpoints}
    /\ fresh \in {{}, Endpoints} \/ up = Endpoints
    /\ \A m \in Steady : status[m] = "active" /\ m \notin activated =>
          idle[m] = 0 /\ (HubOf[m] \in fresh => seen[m] = 0)
    /\ Due \cap Steady \subseteq activated \/ (Deciding /\ fresh = {} /\ up = {})

(* Steps outside the round: nobody but the clock takes a machine off the   *)
(* list of those put into service in this period. *)
LEMMA DueKept ==
  ASSUME UseInv, UNCHANGED <<round, up, fresh>>, activated \subseteq activated'
  PROVE  /\ Due' \cap Steady \subseteq activated' \/ (Deciding' /\ fresh' = {} /\ up' = {})
         /\ up' \in {{}, Endpoints} /\ (fresh' \in {{}, Endpoints} \/ up' = Endpoints)
  BY DEF UseInv, Due, Deciding, Acting, Candidates

(* What everybody else does, to machines in use. *)
LEMMA UseOthers ==
  ASSUME TypeOK, UseInv, Together, ~MidSweep,
         \/ Tick \/ Crash
         \/ \E m \in Machines : Connect(m) \/ PutAway(m) \/ Administer(m)
         \/ \E E \in SUBSET Endpoints : ChangeAgents(E)
         \/ \E e \in Endpoints, M \in SUBSET Machines : Report(e, M)
  PROVE  UseInv'
  <1> USE DEF rows, devices, history
  <1>1. /\ Steady \subseteq Machines /\ HubOf \in [Machines -> Endpoints]
        /\ idle \in [Machines -> 0..Never] /\ seen \in [Machines -> 0..Never]
        /\ up \subseteq Endpoints /\ fresh \subseteq Endpoints
    BY DormancyAssumption DEF TypeOK
  <1>2. CASE Tick
    <2>1. /\ round.pc = "idle" /\ fresh' = {} /\ UNCHANGED <<status, inUse, up, round>>
          /\ \A m \in Machines : m \in inUse /\ status[m] = "active" => idle'[m] = 0
      BY <1>2 DEF Tick
    <2>2. Due' = {}
      BY <2>1 DEF Due, Deciding, Acting
    <2>3. QED
      BY <1>1, <2>1, <2>2 DEF UseInv
  <1>3. CASE Crash
    <2>1. UNCHANGED <<rows, devices, up, fresh, history>> /\ round' = NoRound
      BY <1>3 DEF Crash
    <2>2. Due' = {}
      BY <2>1 DEF Due, Deciding, Acting, NoRound
    <2>3. QED
      BY <2>1, <2>2 DEF UseInv
  <1>4. ASSUME NEW m \in Machines, Connect(m) \/ PutAway(m) PROVE UseInv'
    <2>1. UNCHANGED <<rows, round, up, fresh, history>>
      BY <1>4 DEF Connect, PutAway
    <2>2. Steady \subseteq inUse' /\ \A n \in Steady : idle'[n] = idle[n]
      BY <1>1, <1>4 DEF Connect, PutAway, UseInv
    <2>3. QED
      BY <2>1, <2>2, DueKept DEF UseInv
  <1>5. ASSUME NEW m \in Machines, Administer(m) PROVE UseInv'
    <2>1. PICK o \in Operations : SetStatus(m, o.from, o.to)
      BY <1>5 DEF Administer
    <2>2. /\ UNCHANGED <<seen, devices, up, fresh, round>> /\ activated \subseteq activated'
          /\ \A n \in Machines : status'[n] = "active" /\ n \notin activated' =>
                status[n] = "active" /\ n \notin activated
      BY <2>1 DEF SetStatus, TypeOK
    <2>3. QED
      BY <1>1, <2>2, DueKept DEF UseInv
  <1>6. ASSUME NEW E \in SUBSET Endpoints, ChangeAgents(E) PROVE UseInv'
    <2>1. /\ UNCHANGED <<rows, devices, fresh, round, history>> /\ up' = E
          /\ up \subseteq fresh /\ E \in {{}, Endpoints} /\ ~Deciding
      BY <1>6 DEF ChangeAgents, Prompt, Deciding
    <2>2. fresh \in {{}, Endpoints}
      BY <1>1, <2>1 DEF UseInv
    <2>3. Due' = Due /\ Due \cap Steady \subseteq activated
      BY <2>1 DEF UseInv, Due, Deciding, Acting, Candidates
    <2>4. QED
      BY <2>1, <2>2, <2>3 DEF UseInv
  <1>7. ASSUME NEW e \in Endpoints, NEW M \in SUBSET Machines, Report(e, M) PROVE UseInv'
    <2>1. /\ UNCHANGED <<status, devices, up, round, history>>
          /\ e \in up /\ fresh' = fresh \cup {e}
      BY <1>7 DEF Report
    <2>2. up = Endpoints
      BY <2>1 DEF UseInv
    <2>3. Due' = Due /\ Due \cap Steady \subseteq activated
      BY <2>1, <2>2 DEF UseInv, Due, Deciding, Acting, Candidates
    <2>4. ASSUME NEW m \in Steady, status[m] = "active", m \notin activated, HubOf[m] \in fresh'
          PROVE  seen'[m] = 0
      <3>1. idle[m] = 0 /\ (HubOf[m] \in fresh => seen[m] = 0) /\ m \in Machines
        BY <1>1, <2>4 DEF UseInv
      <3>2. seen[m] \in 0..Never /\ Never \in Nat
        BY <1>1, <3>1, DormancyAssumption DEF Never
      <3>3. seen'[m] = IF HubOf[m] = e /\ 0 < seen[m] THEN 0 ELSE seen[m]
        <4>1. seen'[m] = IF /\ m \in {n \in Machines : HubOf[n] = e
                                        /\ (n \in M \/ status[n] = "active")}
                            /\ idle[m] < seen[m] /\ status[m] # "none"
                         THEN idle[m] ELSE seen[m]
          BY <1>7, <3>1 DEF Report
        <4>2. QED
          BY <2>4, <3>1, <4>1
      <3>4. QED
        BY <2>1, <2>4, <3>1, <3>2, <3>3
    <2>5. QED
      BY <2>1, <2>2, <2>3, <2>4 DEF UseInv
  <1>8. QED
    BY <1>2, <1>3, <1>4, <1>5, <1>6, <1>7

(* What the sweep does, to machines in use. *)
LEMMA UseRound ==
  ASSUME TypeOK, UseInv, RoundStep
  PROVE  UseInv'
  <1> USE DEF rows, devices, history
  <1>1. /\ round \in Round /\ Steady \subseteq Machines /\ HubOf \in [Machines -> Endpoints]
        /\ fresh \subseteq Endpoints
    BY DormancyAssumption DEF TypeOK
  <1>2. /\ UNCHANGED <<seen, devices, up, fresh, activated>>
        /\ \A m \in Machines : status'[m] = "active" => status[m] = "active"
    <2>1. CASE DisableMachine
      BY <2>1 DEF DisableMachine
    <2>2. CASE UNCHANGED status
      BY <2>2 DEF RoundStep, StartRound, PostResolved, Decide, DisableMachine, DisableFails,
         FlagMachine, FlagFails, PostAlert, EndRound, ClearDormant, ClearFails, TakeMachine
    <2>3. QED
      BY <2>1, <2>2 DEF RoundStep, StartRound, PostResolved, Decide, DisableFails,
         FlagMachine, FlagFails, PostAlert, EndRound, ClearDormant, ClearFails, TakeMachine
  <1>3. ASSUME \/ Due' \cap Steady \subseteq activated
               \/ Deciding' /\ fresh = {} /\ up = {}
        PROVE  UseInv'
    BY <1>1, <1>2, <1>3 DEF UseInv
  <1>4. CASE StartRound
    <2>1. /\ round'.pc = "clear" /\ up \subseteq fresh
          /\ round'.active = {m \in Machines : status[m] = "active"}
          /\ round'.old = {m \in Machines : SeenOrSince(m) > Days}
      BY <1>4 DEF StartRound, NoRound, Prompt
    <2>2. Deciding' /\ Due' = Candidates(round')
      BY <2>1 DEF Due, Deciding
    <2>3. (fresh = {} /\ up = {}) \/ fresh = Endpoints
      BY <1>1, <2>1 DEF UseInv
    <2>4. CASE fresh = Endpoints
      <3>1. ASSUME NEW m \in Due' \cap Steady, m \notin activated PROVE FALSE
        <4>1. status[m] = "active" /\ SeenOrSince(m) > Days /\ m \in Machines
          BY <2>1, <2>2, <3>1 DEF Candidates
        <4>2. seen[m] = 0
          BY <1>1, <2>4, <3>1, <4>1 DEF UseInv
        <4>3. QED
          BY <4>1, <4>2, DormancyAssumption DEF SeenOrSince, Never
      <3>2. QED
        BY <1>3, <3>1
    <2>5. QED
      BY <1>3, <2>2, <2>3, <2>4
  <1>5. CASE PostResolved \/ \E m \in Machines : ClearDormant(m) \/ ClearFails(m)
    <2>1. /\ Deciding /\ Deciding' /\ round'.active = round.active
          /\ round'.old = round.old /\ round'.flagged = round.flagged
      BY <1>1, <1>5 DEF PostResolved, ClearDormant, ClearFails, Round, Deciding
    <2>2. Due' = Due
      BY <2>1 DEF Due, Candidates
    <2>3. QED
      BY <1>3, <2>1, <2>2 DEF UseInv
  <1>6. CASE Decide
    <2>1. CASE round' = NoRound
      <3>1. Due' = {}
        BY <2>1 DEF Due, Deciding, Acting, NoRound
      <3>2. QED
        BY <1>3, <3>1
    <2>2. CASE round' # NoRound
      <3>1. /\ round.pc = "clear" /\ round'.pc = "act" /\ round'.todo = Candidates(round)
            /\ fresh # {}
        BY <1>1, <1>6, <2>2 DEF Decide, Round, Refused
      <3>2. Due' = Due
        BY <3>1 DEF Due, Deciding, Acting
      <3>3. QED
        BY <1>3, <3>1, <3>2 DEF UseInv
    <2>3. QED
      BY <2>1, <2>2
  <1>7. ASSUME NEW m \in Machines, TakeMachine(m) PROVE UseInv'
    <2>1. /\ round.pc = "act" /\ m \in round.todo /\ round'.pc \in {"disable", "flag"}
          /\ round'.todo = round.todo \ {m} /\ round'.acting = {m}
      BY <1>1, <1>7 DEF TakeMachine, Round
    <2>2. Due' = Due /\ ~Deciding
      BY <2>1 DEF Due, Deciding, Acting
    <2>3. QED
      BY <1>3, <2>2 DEF UseInv
  <1>8. CASE DisableMachine \/ DisableFails \/ FlagMachine \/ FlagFails \/ PostAlert \/ EndRound
    <2>1. CASE EndRound
      <3>1. Due' = {}
        BY <2>1 DEF EndRound, NoRound, Due, Deciding, Acting
      <3>2. QED
        BY <1>3, <3>1
    <2>2. CASE ~EndRound
      <3>1. /\ Acting /\ ~Deciding /\ round'.pc \in {"act", "flag", "alert"}
            /\ round'.todo = round.todo
            /\ round'.pc # "act" => round'.acting = round.acting
        BY <1>1, <1>8, <2>2
        DEF DisableMachine, DisableFails, FlagMachine, FlagFails, PostAlert, Round, Deciding, Acting
      <3>2. Due' \subseteq Due
        BY <3>1 DEF Due, Deciding, Acting
      <3>3. QED
        BY <1>3, <3>1, <3>2 DEF UseInv
    <2>3. QED
      BY <2>1, <2>2
  <1>9. QED
    BY <1>4, <1>5, <1>6, <1>7, <1>8 DEF RoundStep

(* When agents stop and resume together, and not between the start of a    *)
(* round and its decision, a device in use is left alone: no machine is    *)
(* disabled or flagged whose device is in use, unless it was put into      *)
(* service in this very period.                                            *)
THEOREM DevicesInUseKept ==
  ASSUME Together, ~MidSweep PROVE Spec => []InUseKept
  <1>1. Init => UseInv
    BY DormancyAssumption DEF Init, NoRound, UseInv, Due, Deciding, Acting
  <1>2. TypeOK /\ UseInv /\ [Next]_vars => UseInv'
    <2> SUFFICES ASSUME TypeOK, UseInv, [Next]_vars PROVE UseInv'
      OBVIOUS
    <2>1. CASE UNCHANGED vars
      BY <2>1 DEF vars, UseInv, Due, Deciding, Acting, Candidates
    <2>2. CASE Next
      BY <2>2, UseOthers, UseRound DEF Next
    <2>3. QED
      BY <2>1, <2>2
  <1>3. UseInv => InUseKept
    BY DEF UseInv, InUseKept, Due, Deciding, Acting
  <1>4. QED
    BY <1>1, <1>2, <1>3, TypeCorrect, PTL DEF Spec
=============================================================================
