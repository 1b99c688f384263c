------------------------------- MODULE Agent -------------------------------
(***************************************************************************)
(* The concentrator agent's reconcile loop against the expected-peer API.  *)
(*                                                                         *)
(* A run of wgroster-agent.sh pushes the status, pulls the expected peers  *)
(* into a file and applies the file with `wg syncconf`; `set -e` ends it   *)
(* at the first command that fails.  Administrators change machines        *)
(* between any two of its steps.  A peer is a machine with its address;    *)
(* rendering the list as text and parsing it again keeps exactly that.     *)
(***************************************************************************)
EXTENDS Naturals, FiniteSets

CONSTANTS
    Machines,       \* machine rows
    Endpoints,      \* concentrators that reconcile (WG_RECONCILE=1)
    Addrs,          \* tunnel addresses
    NoAddr,         \* a machine without one
    AdminOps,       \* what administrators do
    MaxOps          \* bound: administrators' operations

ASSUME AgentAssumption ==
    /\ NoAddr \notin Addrs
    /\ AdminOps \subseteq {"status", "links", "address", "token", "boot"}
    /\ MaxOps \in Nat

VARIABLES
    active,         \* machines with status "active"
    links,          \* machine_endpoint
    addr,           \* machine.address
    valid,          \* endpoints whose agent holds the current upload token
    hub,            \* per endpoint, the peers WireGuard carries
    run,            \* per endpoint, the agent's run
    ops,            \* operations so far
    always,         \* history: peers expected at every moment of the run
    sometime        \* history: peers expected at some moment of the run

vars == <<active, links, addr, valid, hub, run, ops, always, sometime>>

portal == <<active, links, addr>>

Peer == Machines \X (Addrs \cup {NoAddr})

Run == [pc : {"idle", "push", "pull", "apply"}, file : SUBSET Peer]

Idle == [pc |-> "idle", file |-> {}]

(* Type invariant.                                                         *)
TypeOK ==
    /\ active \subseteq Machines
    /\ links \subseteq Machines \X Endpoints
    /\ addr \in [Machines -> Addrs \cup {NoAddr}]
    /\ valid \subseteq Endpoints
    /\ hub \in [Endpoints -> SUBSET Peer]
    /\ run \in [Endpoints -> Run]
    /\ ops \in 0..MaxOps
    /\ always \in [Endpoints -> SUBSET Peer]
    /\ sometime \in [Endpoints -> SUBSET Peer]

(* ActiveMachinesForEndpoint.                                              *)
Expected(e) == {<<m, addr[m]>> : m \in {n \in active : <<n, e>> \in links}}

(* All machines in service everywhere, without an address; the hubs bare.  *)
Init ==
    /\ active = Machines
    /\ links = Machines \X Endpoints
    /\ addr = [m \in Machines |-> NoAddr]
    /\ valid = Endpoints
    /\ hub = [e \in Endpoints |-> {}]
    /\ run = [e \in Endpoints |-> Idle]
    /\ ops = 0
    /\ always = [e \in Endpoints |-> {}] /\ sometime = [e \in Endpoints |-> {}]

-----------------------------------------------------------------------------
(* Administrators.                                                         *)

Count(op) == op \in AdminOps /\ ops < MaxOps /\ ops' = ops + 1

(* What a change of the portal's tables means to the runs under way.       *)
Changed ==
    /\ always' = [e \in Endpoints |-> always[e] \cap Expected(e)']
    /\ sometime' = [e \in Endpoints |->
          IF run[e].pc = "idle" THEN {} ELSE sometime[e] \cup Expected(e)']
    /\ UNCHANGED <<valid, hub, run>>

(* Approved, enabled; disabled, sent back, deleted, by hand or by a sweep. *)
SetStatus(m) ==
    /\ Count("status")
    /\ active' = IF m \in active THEN active \ {m} ELSE active \cup {m}
    /\ UNCHANGED <<links, addr>>
    /\ Changed

SetLink(m, e) ==
    /\ Count("links")
    /\ links' = IF <<m, e>> \in links THEN links \ {<<m, e>>} ELSE links \cup {<<m, e>>}
    /\ UNCHANGED <<active, addr>>
    /\ Changed

(* Mutant of SetAddress: an address in use elsewhere is not refused.       *)
SetAnyAddress(m, a) ==
    /\ Count("address")
    /\ addr' = [addr EXCEPT ![m] = a]
    /\ UNCHANGED <<active, links>>
    /\ Changed

(* An address assigned to another machine is refused.                      *)
SetAddress(m, a) ==
    /\ Count("address")
    /\ a # NoAddr => \A n \in Machines \ {m} : addr[n] # a
    /\ addr' = [addr EXCEPT ![m] = a]
    /\ UNCHANGED <<active, links>>
    /\ Changed

(* The upload token is rotated; later the agent is given the new one.      *)
RotateToken(e) ==
    /\ Count("token")
    /\ valid' = valid \ {e}
    /\ UNCHANGED <<portal, hub, run, always, sometime>>

InstallToken(e) ==
    /\ valid' = valid \cup {e}
    /\ UNCHANGED <<portal, hub, run, ops, always, sometime>>

(* A concentrator is set up anew from the config the portal renders.       *)
Boot(e) ==
    /\ Count("boot")
    /\ e \in valid
    /\ run[e].pc = "idle"
    /\ hub' = [hub EXCEPT ![e] = Expected(e)]
    /\ UNCHANGED <<portal, valid, run, always, sometime>>

-----------------------------------------------------------------------------
(* wgroster-agent.sh.                                                      *)

Go(e, pc, file) == run' = [run EXCEPT ![e] = [pc |-> pc, file |-> file]]

Start(e) ==
    /\ run[e].pc = "idle"
    /\ Go(e, "push", {})
    /\ always' = [always EXCEPT ![e] = Expected(e)]
    /\ sometime' = [sometime EXCEPT ![e] = Expected(e)]
    /\ UNCHANGED <<portal, valid, hub, ops>>

End(e) ==
    /\ Go(e, "idle", {})
    /\ always' = [always EXCEPT ![e] = {}]
    /\ sometime' = [sometime EXCEPT ![e] = {}]
    /\ UNCHANGED <<portal, valid, ops>>

(* handleStatusUpload; without a valid token the run ends here.            *)
Push(e) ==
    /\ run[e].pc = "push" /\ e \in valid
    /\ Go(e, "pull", {})
    /\ UNCHANGED <<portal, valid, hub, ops, always, sometime>>

(* handleExpectedPeers, one query.                                         *)
Pull(e) ==
    /\ run[e].pc = "pull" /\ e \in valid
    /\ Go(e, "apply", Expected(e))
    /\ UNCHANGED <<portal, valid, hub, ops, always, sometime>>

(* Mutant of CurlFails: a failed download is applied as far as it came.    *)
AppliesWhatCame(e) ==
    /\ run[e].pc \in {"push", "pull"}
    /\ \E part \in SUBSET Expected(e) : Go(e, "apply", part)
    /\ UNCHANGED <<portal, valid, hub, ops, always, sometime>>

(* curl -f fails: refused, unreachable, cut off; set -e ends the run.      *)
CurlFails(e) ==
    /\ run[e].pc \in {"push", "pull"}
    /\ End(e)
    /\ UNCHANGED hub

(* Mutant of Apply: peers are added and updated, none is removed.          *)
ApplyAddsOnly(e) ==
    /\ run[e].pc = "apply"
    /\ hub' = [hub EXCEPT ![e] =
                  run[e].file \cup {p \in @ : \A q \in run[e].file : q[1] # p[1]}]
    /\ End(e)

(* [ -s "$peers" ], then wg syncconf.                                      *)
Apply(e) ==
    /\ run[e].pc = "apply"
    /\ hub' = IF run[e].file # {} THEN [hub EXCEPT ![e] = run[e].file] ELSE hub
    /\ End(e)

AgentStep(e) == Start(e) \/ Push(e) \/ Pull(e) \/ CurlFails(e) \/ Apply(e)

Next ==
    \/ \E e \in Endpoints : AgentStep(e) \/ RotateToken(e) \/ InstallToken(e) \/ Boot(e)
    \/ \E m \in Machines :
          \/ SetStatus(m)
          \/ \E e \in Endpoints : SetLink(m, e)
          \/ \E a \in Addrs \cup {NoAddr} : SetAddress(m, a)

Spec == Init /\ [][Next]_vars

(* The timer starts runs, commands end, and no curl fails for ever while   *)
(* the token is valid.                                                     *)
Fairness ==
    \A e \in Endpoints :
        /\ WF_vars(Start(e)) /\ WF_vars(Apply(e))
        /\ WF_vars(Push(e) \/ Pull(e) \/ CurlFails(e))
        /\ SF_vars(Push(e)) /\ SF_vars(Pull(e))

FairSpec == Spec /\ Fairness

-----------------------------------------------------------------------------
(* Properties.                                                             *)

(* A run drops no peer that was expected throughout it and leaves none     *)
(* that was expected at no moment of it, whatever administrators did       *)
(* between its steps and however its requests failed.                      *)
AppliesWhatWasExpected ==
    [][\A e \in Endpoints :
          run[e].pc # "idle" /\ hub'[e] # hub[e] =>
              always[e] \subseteq hub'[e] /\ hub'[e] \subseteq sometime[e]]_vars

(* A concentrator routes an address to one machine, though the list was    *)
(* read while addresses moved from machine to machine: the list is read at *)
(* once and applied at once.                                               *)
OneRoute ==
    \A e \in Endpoints : \A p, q \in hub[e] : p[2] = q[2] /\ p[2] # NoAddr => p = q

(* When administrators rest, a concentrator ends up with exactly the peers *)
(* expected of it, unless those are none: new peers are added, revoked     *)
(* ones dropped, moved ones updated.                                       *)
Converges ==
    \A e \in Endpoints :
        <>[](e \in valid) => <>[](Expected(e) # {} => hub[e] = Expected(e))

(* README: a disabled machine is removed from expected-peers "(the agent   *)
(* then drops the peer on its next run)".                                  *)
RevokedDropped ==
    \A e \in Endpoints, m \in Machines :
        <>[](e \in valid /\ m \notin active) => <>[](\A p \in hub[e] : p[1] # m)
=============================================================================
