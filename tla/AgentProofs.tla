---------------------------- MODULE AgentProofs ----------------------------
(***************************************************************************)
(* Type correctness of Agent, that no concentrator routes one address to   *)
(* two machines (OneRoute), and that a run only ever applies what was      *)
(* expected during it (AppliesWhatWasExpected), for any number of          *)
(* machines, concentrators and administrators' operations.                 *)
(*                                                                         *)
(* The argument: assignments keep addresses unique in the machine table,   *)
(* so every list the portal renders has one machine per address, and the   *)
(* files and hubs only ever hold such lists, however old.  The histories   *)
(* enclose the list expected now while a run is under way, and the file    *)
(* once it is there, since changes shrink the one and grow the other.      *)
(***************************************************************************)
EXTENDS Agent, TLAPS

(* No two machines have one address (the unique index of the table).       *)
AddrsUnique == \A m, n \in Machines : addr[m] = addr[n] /\ addr[m] # NoAddr => m = n

(* A list of peers with one machine per address.                           *)
OneEach(S) == \A p, q \in S : p[2] = q[2] /\ p[2] # NoAddr => p = q

(* What is expected now lies between the histories of a run under way, and *)
(* so does its file once it has one.                                       *)
Enclosed(e) ==
    /\ run[e].pc # "idle" => always[e] \subseteq Expected(e) /\ Expected(e) \subseteq sometime[e]
    /\ run[e].pc = "apply" => always[e] \subseteq run[e].file /\ run[e].file \subseteq sometime[e]

(* The inductive invariant: types, routes and what runs carry. *)
AgentInv ==
    /\ TypeOK
    /\ AddrsUnique
    /\ \A e \in Endpoints : OneEach(hub[e]) /\ OneEach(run[e].file) /\ Enclosed(e)

(* The portal's list is one of machines with their addresses, and has one  *)
(* machine per address because the table has.                              *)
LEMMA ExpectedPeers ==
  ASSUME TypeOK, NEW e \in Endpoints
  PROVE  Expected(e) \subseteq Peer /\ (AddrsUnique => OneEach(Expected(e)))
  <1>1. Expected(e) \subseteq Peer
    <2>1. \A m \in Machines : <<m, addr[m]>> \in Peer
      BY DEF TypeOK, Peer
    <2>2. QED
      BY <2>1 DEF TypeOK, Expected
  <1>2. ASSUME AddrsUnique, NEW p \in Expected(e), NEW q \in Expected(e),
               p[2] = q[2], p[2] # NoAddr
        PROVE  p = q
    <2>1. PICK m \in Machines : p = <<m, addr[m]>>
      BY DEF TypeOK, Expected
    <2>2. PICK n \in Machines : q = <<n, addr[n]>>
      BY DEF TypeOK, Expected
    <2>3. QED
      BY <1>2, <2>1, <2>2 DEF AddrsUnique
  <1>3. QED
    BY <1>1, <1>2 DEF OneEach

(* Before the first run nothing is applied and nobody is routed. *)
LEMMA InitAgentInv == Init => AgentInv
  BY AgentAssumption DEF Init, AgentInv, TypeOK, Run, Idle, AddrsUnique, OneEach, Enclosed

(* A change of the tables by administrators, whatever it is, is recorded   *)
(* in the histories of the runs under way.                                 *)
LEMMA ChangedInv ==
  ASSUME AgentInv, Changed, AddrsUnique', ops' \in 0..MaxOps,
         active' \subseteq Machines, links' \subseteq Machines \X Endpoints,
         addr' \in [Machines -> Addrs \cup {NoAddr}]
  PROVE  AgentInv'
  <1>1. ASSUME NEW e \in Endpoints
        PROVE  Expected(e)' \subseteq Peer
    <2>1. \A m \in Machines : <<m, addr'[m]>> \in Peer
      BY DEF Peer
    <2>2. QED
      BY <2>1 DEF Expected
  <1>2. /\ always' \in [Endpoints -> SUBSET Peer]
        /\ sometime' \in [Endpoints -> SUBSET Peer]
        /\ \A e \in Endpoints :
              /\ always'[e] = always[e] \cap Expected(e)'
              /\ sometime'[e] = IF run[e].pc = "idle" THEN {} ELSE sometime[e] \cup Expected(e)'
    BY <1>1 DEF Changed, AgentInv, TypeOK
  <1>3. UNCHANGED <<valid, hub, run>>
    BY DEF Changed
  <1>4. TypeOK'
    BY <1>2, <1>3 DEF AgentInv, TypeOK
  <1>5. ASSUME NEW e \in Endpoints
        PROVE  OneEach(hub'[e]) /\ OneEach(run'[e].file) /\ Enclosed(e)'
    BY <1>2, <1>3 DEF AgentInv, OneEach, Enclosed
  <1>6. QED
    BY <1>4, <1>5 DEF AgentInv, OneEach

(* Administrators: only SetAddress touches addresses, and refuses one in   *)
(* use. *)
LEMMA AdminInv ==
  ASSUME AgentInv, NEW m \in Machines,
         \/ SetStatus(m)
         \/ \E e \in Endpoints : SetLink(m, e)
         \/ \E a \in Addrs \cup {NoAddr} : SetAddress(m, a)
  PROVE  AgentInv'
  <1>1. ASSUME NEW op, Count(op) PROVE ops' \in 0..MaxOps
    BY <1>1, AgentAssumption DEF Count, AgentInv, TypeOK
  <1>2. CASE SetStatus(m)
    <2>1. active' \subseteq Machines /\ UNCHANGED <<links, addr>> /\ Changed
      BY <1>2 DEF SetStatus, AgentInv, TypeOK
    <2>2. QED
      BY <1>1, <1>2, <2>1, ChangedInv DEF SetStatus, AgentInv, TypeOK, AddrsUnique
  <1>3. ASSUME NEW e \in Endpoints, SetLink(m, e) PROVE AgentInv'
    <2>1. links' \subseteq Machines \X Endpoints /\ UNCHANGED <<active, addr>> /\ Changed
      BY <1>3 DEF SetLink, AgentInv, TypeOK
    <2>2. QED
      BY <1>1, <1>3, <2>1, ChangedInv DEF SetLink, AgentInv, TypeOK, AddrsUnique
  <1>4. ASSUME NEW a \in Addrs \cup {NoAddr}, SetAddress(m, a) PROVE AgentInv'
    <2>1. /\ a # NoAddr => \A n \in Machines \ {m} : addr[n] # a
          /\ addr' = [addr EXCEPT ![m] = a]
          /\ UNCHANGED <<active, links>> /\ Changed
      BY <1>4 DEF SetAddress
    <2>2. addr' \in [Machines -> Addrs \cup {NoAddr}] /\ AddrsUnique'
      BY <2>1 DEF AgentInv, TypeOK, AddrsUnique
    <2>3. QED
      BY <1>1, <1>4, <2>1, <2>2, ChangedInv DEF SetAddress, AgentInv, TypeOK
  <1>5. QED
    BY <1>2, <1>3, <1>4

(* The token, and a concentrator set up anew: the histories are untouched. *)
LEMMA EndpointInv ==
  ASSUME AgentInv, NEW e \in Endpoints, RotateToken(e) \/ InstallToken(e) \/ Boot(e)
  PROVE  AgentInv'
  <1>1. /\ UNCHANGED <<portal, run, always, sometime>>
        /\ valid' \subseteq Endpoints /\ ops' \in 0..MaxOps
    BY AgentAssumption DEF RotateToken, InstallToken, Boot, Count, AgentInv, TypeOK
  <1>2. hub' \in [Endpoints -> SUBSET Peer] /\ \A d \in Endpoints : OneEach(hub'[d])
    <2>1. CASE hub' = hub
      BY <2>1 DEF AgentInv, TypeOK
    <2>2. CASE hub' = [hub EXCEPT ![e] = Expected(e)]
      BY <2>2, ExpectedPeers DEF AgentInv, TypeOK
    <2>3. QED
      BY <2>1, <2>2 DEF RotateToken, InstallToken, Boot
  <1>3. \A d \in Endpoints : Expected(d)' = Expected(d)
    BY <1>1 DEF portal, Expected
  <1>4. TypeOK' /\ AddrsUnique'
    BY <1>1, <1>2 DEF AgentInv, TypeOK, AddrsUnique, portal
  <1>5. ASSUME NEW d \in Endpoints PROVE OneEach(run'[d].file) /\ Enclosed(d)'
    BY <1>1, <1>3 DEF AgentInv, Enclosed
  <1>6. QED
    BY <1>2, <1>4, <1>5 DEF AgentInv, OneEach

(* The agent's script: it is enough to look at the run that takes a step,  *)
(* at the list it leaves on its concentrator and at its histories. *)
LEMMA RunStep ==
  ASSUME AgentInv, NEW e \in Endpoints, UNCHANGED <<portal, ops, valid>>,
         NEW r \in Run, OneEach(r.file), run' = [run EXCEPT ![e] = r],
         NEW H \in SUBSET Peer, OneEach(H), hub' = [hub EXCEPT ![e] = H],
         NEW A \in SUBSET Peer, always' = [always EXCEPT ![e] = A],
         NEW S \in SUBSET Peer, sometime' = [sometime EXCEPT ![e] = S],
         r.pc # "idle" => A \subseteq Expected(e) /\ Expected(e) \subseteq S,
         r.pc = "apply" => A \subseteq r.file /\ r.file \subseteq S
  PROVE  AgentInv'
  <1>1. \A d \in Endpoints : Expected(d)' = Expected(d)
    BY DEF portal, Expected
  <1>2. TypeOK' /\ AddrsUnique'
    BY DEF AgentInv, TypeOK, AddrsUnique, portal
  <1>3. ASSUME NEW d \in Endpoints
        PROVE  OneEach(hub'[d]) /\ OneEach(run'[d].file) /\ Enclosed(d)'
    <2>1. CASE d = e
      BY <1>1, <2>1 DEF AgentInv, TypeOK, Enclosed
    <2>2. CASE d # e
      BY <1>1, <2>2 DEF AgentInv, TypeOK, Enclosed
    <2>3. QED
      BY <2>1, <2>2
  <1>4. QED
    BY <1>2, <1>3 DEF AgentInv, OneEach

(* A step of an agent run. *)
LEMMA AgentStepInv ==
  ASSUME AgentInv, NEW e \in Endpoints, AgentStep(e)
  PROVE  AgentInv'
  <1>1. /\ run[e] \in Run /\ OneEach(run[e].file) /\ Enclosed(e)
        /\ hub[e] \in SUBSET Peer /\ OneEach(hub[e])
        /\ always[e] \in SUBSET Peer /\ sometime[e] \in SUBSET Peer
        /\ hub = [hub EXCEPT ![e] = hub[e]]
        /\ always = [always EXCEPT ![e] = always[e]]
        /\ sometime = [sometime EXCEPT ![e] = sometime[e]]
    BY DEF AgentInv, TypeOK
  <1>2. Expected(e) \in SUBSET Peer /\ OneEach(Expected(e))
    BY ExpectedPeers DEF AgentInv
  <1> DEFINE r(pc, F) == [pc |-> pc, file |-> F]
  <1>3. ASSUME NEW pc \in {"idle", "push", "pull", "apply"}, NEW F \in SUBSET Peer
        PROVE  r(pc, F) \in Run /\ r(pc, F).pc = pc /\ r(pc, F).file = F
    BY DEF Run
  <1>4. OneEach({})
    BY DEF OneEach
  <1>5. CASE Start(e)
    <2>1. /\ UNCHANGED <<portal, ops, valid>> /\ hub' = [hub EXCEPT ![e] = hub[e]]
          /\ run' = [run EXCEPT ![e] = r("push", {})]
          /\ always' = [always EXCEPT ![e] = Expected(e)]
          /\ sometime' = [sometime EXCEPT ![e] = Expected(e)]
      BY <1>1, <1>5 DEF Start, Go
    <2> HIDE DEF r
    <2>2. r("push", {}) \in Run /\ r("push", {}).pc = "push" /\ r("push", {}).file = {}
      BY <1>3
    <2>3. QED
      BY <1>1, <1>2, <1>4, <2>1, <2>2, RunStep
  <1>6. CASE Push(e)
    <2>1. /\ UNCHANGED <<portal, ops, valid>> /\ hub' = [hub EXCEPT ![e] = hub[e]]
          /\ run' = [run EXCEPT ![e] = r("pull", {})]
          /\ always' = [always EXCEPT ![e] = always[e]]
          /\ sometime' = [sometime EXCEPT ![e] = sometime[e]]
          /\ run[e].pc = "push"
      BY <1>1, <1>6 DEF Push, Go
    <2>2. always[e] \subseteq Expected(e) /\ Expected(e) \subseteq sometime[e]
      BY <1>1, <2>1 DEF Enclosed
    <2> HIDE DEF r
    <2>3. r("pull", {}) \in Run /\ r("pull", {}).pc = "pull" /\ r("pull", {}).file = {}
      BY <1>3
    <2>4. QED
      BY <1>1, <1>4, <2>1, <2>2, <2>3, RunStep
  <1>7. CASE Pull(e)
    <2>1. /\ UNCHANGED <<portal, ops, valid>> /\ hub' = [hub EXCEPT ![e] = hub[e]]
          /\ run' = [run EXCEPT ![e] = r("apply", Expected(e))]
          /\ always' = [always EXCEPT ![e] = always[e]]
          /\ sometime' = [sometime EXCEPT ![e] = sometime[e]]
          /\ run[e].pc = "pull"
      BY <1>1, <1>7 DEF Pull, Go
    <2>2. always[e] \subseteq Expected(e) /\ Expected(e) \subseteq sometime[e]
      BY <1>1, <2>1 DEF Enclosed
    <2> HIDE DEF r
    <2>3. PICK q \in Run : q = r("apply", Expected(e)) /\ q.file = Expected(e)
      BY <1>2, <1>3
    <2>4. /\ OneEach(q.file) /\ run' = [run EXCEPT ![e] = q]
          /\ always[e] \subseteq q.file /\ q.file \subseteq sometime[e]
      BY <1>2, <2>1, <2>2, <2>3
    <2>5. QED
      BY <1>1, <2>1, <2>2, <2>4, RunStep
  <1>8. CASE CurlFails(e) \/ Apply(e)
    <2>1. PICK H \in {hub[e], run[e].file} : hub' = [hub EXCEPT ![e] = H]
      BY <1>1, <1>8 DEF CurlFails, Apply
    <2>2. H \in SUBSET Peer /\ OneEach(H)
      BY <1>1, <2>1 DEF Run
    <2>3. /\ UNCHANGED <<portal, ops, valid>>
          /\ run' = [run EXCEPT ![e] = r("idle", {})]
          /\ always' = [always EXCEPT ![e] = {}]
          /\ sometime' = [sometime EXCEPT ![e] = {}]
      BY <1>8 DEF CurlFails, Apply, End, Go
    <2> HIDE DEF r
    <2>4. r("idle", {}) \in Run /\ r("idle", {}).pc = "idle" /\ r("idle", {}).file = {}
      BY <1>3
    <2>5. QED
      BY <1>4, <2>1, <2>2, <2>3, <2>4, RunStep
  <1>9. QED
    BY <1>5, <1>6, <1>7, <1>8 DEF AgentStep

(* Every step preserves the invariant, by who takes it. *)
LEMMA NextAgentInv == AgentInv /\ [Next]_vars => AgentInv'
  <1> SUFFICES ASSUME AgentInv, [Next]_vars PROVE AgentInv'
    OBVIOUS
  <1>1. CASE UNCHANGED vars
    <2>1. \A e \in Endpoints : Expected(e)' = Expected(e)
      BY <1>1 DEF vars, Expected
    <2>2. TypeOK' /\ AddrsUnique'
      BY <1>1 DEF vars, AgentInv, TypeOK, AddrsUnique
    <2>3. QED
      BY <1>1, <2>1, <2>2 DEF vars, AgentInv, OneEach, Enclosed
  <1>2. ASSUME NEW e \in Endpoints, AgentStep(e) PROVE AgentInv'
    BY <1>2, AgentStepInv
  <1>3. ASSUME NEW e \in Endpoints, RotateToken(e) \/ InstallToken(e) \/ Boot(e) PROVE AgentInv'
    BY <1>3, EndpointInv
  <1>4. ASSUME NEW m \in Machines,
               \/ SetStatus(m)
               \/ \E e \in Endpoints : SetLink(m, e)
               \/ \E a \in Addrs \cup {NoAddr} : SetAddress(m, a)
        PROVE  AgentInv'
    BY <1>4, AdminInv
  <1>5. QED
    BY <1>1, <1>2, <1>3, <1>4 DEF Next

(* Types, routes and runs stay as AgentInv says in every behaviour. *)
THEOREM AgentInvariance == Spec => []AgentInv
  BY InitAgentInv, NextAgentInv, PTL DEF Spec

(* A concentrator never routes an address to two machines, though the list *)
(* was read while addresses moved from machine to machine.                 *)
THEOREM AlwaysOneRoute == Spec => []OneRoute
  <1>1. AgentInv => OneRoute
    BY DEF AgentInv, OneRoute, OneEach
  <1>2. QED
    BY <1>1, AgentInvariance, PTL

(* A run drops no peer that was expected throughout it and leaves none     *)
(* that was expected at no moment of it.                                   *)
THEOREM RunsApplyWhatWasExpected == Spec => AppliesWhatWasExpected
  <1> DEFINE Applies == \A e \in Endpoints :
                 run[e].pc # "idle" /\ hub'[e] # hub[e] =>
                    always[e] \subseteq hub'[e] /\ hub'[e] \subseteq sometime[e]
  <1>1. ASSUME AgentInv, [Next]_vars PROVE Applies
    <2> SUFFICES ASSUME NEW e \in Endpoints, run[e].pc # "idle", hub'[e] # hub[e]
                 PROVE  always[e] \subseteq hub'[e] /\ hub'[e] \subseteq sometime[e]
      OBVIOUS
    <2>1. hub \in [Endpoints -> SUBSET Peer] /\ Enclosed(e)
      BY <1>1 DEF AgentInv, TypeOK
    <2>2. hub' # hub
      OBVIOUS
    <2>3. PICK d \in Endpoints : Boot(d) \/ Apply(d)
      BY <1>1, <2>2
      DEF Next, vars, AgentStep, Start, Push, Pull, CurlFails, RotateToken, InstallToken,
          SetStatus, SetLink, SetAddress, Changed
    <2>4. d = e
      BY <2>1, <2>3 DEF Boot, Apply
    <2>5. Apply(e)
      BY <2>3, <2>4 DEF Boot
    <2>6. run[e].pc = "apply" /\ hub'[e] = run[e].file
      BY <2>1, <2>5 DEF Apply
    <2>7. QED
      BY <2>1, <2>6 DEF Enclosed
  <1>2. AgentInv /\ [Next]_vars => [Applies]_vars
    BY <1>1
  <1>3. QED
    BY <1>2, AgentInvariance, PTL DEF Spec, AppliesWhatWasExpected
=============================================================================
