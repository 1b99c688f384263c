---------------------------- MODULE MachineStore ----------------------------
(***************************************************************************)
(* The roster tables of internal/store: machines, endpoints and the links  *)
(* between them.  The database has one connection, so every store call is  *)
(* one atomic step; each operator below is one call that succeeded, and    *)
(* its guard is what the schema and the statement require for that.        *)
(* Handlers, which make several calls, are in module Roster.               *)
(***************************************************************************)
EXTENDS Naturals, FiniteSets

CONSTANTS
    Machines,       \* machine row ids; AUTOINCREMENT never reuses one
    Owners,         \* user ids owning machines
    Keys,           \* WireGuard public keys
    Addrs,          \* the addresses of the pool, as numbers in pool order
    Endpoints,      \* endpoint row ids
    Nets,           \* networks an endpoint can route to
    AllowedLists,   \* the AllowedIPs lists an endpoint form may carry
    None            \* no owner, no key, no machine

NoAddr == 0

ASSUME StoreAssumption ==
    /\ Addrs \subseteq Nat \ {NoAddr}
    /\ AllowedLists \subseteq SUBSET Nets
    /\ None \notin Machines \cup Owners \cup Keys \cup Endpoints

VARIABLES
    machine,        \* the machine table
    links,          \* the machine_endpoint table, by machine
    endpoint,       \* the endpoint table
    now             \* the wall clock, in sweep periods

storeVars == <<machine, links, endpoint, now>>

Statuses == {"pending", "active", "disabled"}

(* A row that was never inserted ("none") or has been deleted.             *)
NoRow(s) == [status |-> s, owner |-> None, key |-> None,
             addr |-> NoAddr, since |-> 0]

LiveRow ==
    [status : Statuses, owner : Owners, key : Keys,
     addr : Addrs \cup {NoAddr}, since : Nat]

MachineRow == LiveRow \cup {NoRow("none"), NoRow("deleted")}

EndpointRow == [state : {"none", "live", "deleted"}, nets : SUBSET Nets]

StoreTypeOK ==
    /\ machine \in [Machines -> MachineRow]
    /\ links \in [Machines -> SUBSET Endpoints]
    /\ endpoint \in [Endpoints -> EndpointRow]
    /\ now \in Nat

StoreInit ==
    /\ machine = [m \in Machines |-> NoRow("none")]
    /\ links = [m \in Machines |-> {}]
    /\ endpoint = [e \in Endpoints |-> [state |-> "none", nets |-> {}]]
    /\ now = 0

-----------------------------------------------------------------------------
(* What queries return. *)

Exists(m) == machine[m].status \in Statuses

LiveEndpoint(e) == endpoint[e].state = "live"

UsedAddresses == {machine[m].addr : m \in Machines} \ {NoAddr}

CountPendingByOwner(u) ==
    Cardinality({m \in Machines : machine[m].owner = u /\ machine[m].status = "pending"})

ActiveOf(u) == {m \in Machines : machine[m].owner = u /\ machine[m].status = "active"}

(* The two unique constraints of the machine table, for a write to row m.  *)
KeyFree(k, m) == \A n \in Machines \ {m} : machine[n].key # k

AddrFree(a, m) == \A n \in Machines \ {m} : machine[n].addr # a

-----------------------------------------------------------------------------
(* What writes do.  An UPDATE of a row that is gone touches nothing and    *)
(* succeeds; an INSERT that names it fails on the foreign key.             *)

CreateMachine(m, u, k) ==
    /\ machine[m].status = "none"
    /\ KeyFree(k, m)
    /\ machine' = [machine EXCEPT ![m] =
         [status |-> "pending", owner |-> u, key |-> k, addr |-> NoAddr, since |-> now]]
    /\ UNCHANGED <<links, endpoint, now>>

UpdateMachineIdentity(m, k) ==
    /\ Exists(m) => KeyFree(k, m)
    /\ machine' = IF Exists(m) THEN [machine EXCEPT ![m].key = k] ELSE machine
    /\ UNCHANGED <<links, endpoint, now>>

(* Mutant of UpdateOwnMachine: a key change does not requeue the machine.   *)
KeyChangeStaysInService(m, k) ==
    /\ Exists(m) /\ KeyFree(k, m)
    /\ machine' = [machine EXCEPT ![m].key = k]
    /\ UNCHANGED <<links, endpoint, now>>

(* Mutant of UpdateOwnMachine: requeuing does not restart the review window. *)
RequeueKeepsOldClock(m, k) ==
    /\ Exists(m) /\ KeyFree(k, m)
    /\ LET requeued == k # machine[m].key /\ machine[m].status # "pending" IN
       machine' = [machine EXCEPT
         ![m].key = k,
         ![m].status = IF requeued THEN "pending" ELSE @]
    /\ UNCHANGED <<links, endpoint, now>>

UpdateOwnMachine(m, k) ==
    /\ Exists(m) /\ KeyFree(k, m)
    /\ LET requeued == k # machine[m].key /\ machine[m].status # "pending" IN
       machine' = [machine EXCEPT
         ![m].key = k,
         ![m].status = IF requeued THEN "pending" ELSE @,
         ![m].since = IF requeued THEN now ELSE @]
    /\ UNCHANGED <<links, endpoint, now>>

SetMachineAddress(m, a) ==
    /\ Exists(m) => AddrFree(a, m)
    /\ machine' = IF Exists(m) THEN [machine EXCEPT ![m].addr = a] ELSE machine
    /\ UNCHANGED <<links, endpoint, now>>

(* Mutant of SetStatus: an UPDATE that inserts the row when it is gone.    *)
UpsertStatus(m, s) ==
    /\ machine' = [machine EXCEPT ![m].status = s]
    /\ UNCHANGED <<links, endpoint, now>>

SetStatus(m, s) ==
    /\ machine' = IF Exists(m) THEN [machine EXCEPT ![m].status = s] ELSE machine
    /\ UNCHANGED <<links, endpoint, now>>

SetMachineDisabled(m) == SetStatus(m, "disabled")

SetMachineActive(m) == SetStatus(m, "active")

(* replaceEndpoints, alone or inside the transaction of assign. *)
CanLink(m, E) == Exists(m) /\ \A e \in E : LiveEndpoint(e)

SetMachineEndpoints(m, E) ==
    /\ CanLink(m, E)
    /\ links' = [links EXCEPT ![m] = E]
    /\ UNCHANGED <<machine, endpoint, now>>

(* Mutant of CanAssign: no unique index on the address.                    *)
AssignWithoutIndex(m, a, E) == CanLink(m, E)

CanAssign(m, a, E) == CanLink(m, E) /\ AddrFree(a, m)

Assign(m, a, E, s) ==
    /\ CanAssign(m, a, E)
    /\ machine' = [machine EXCEPT ![m].addr = a, ![m].status = s]
    /\ links' = [links EXCEPT ![m] = E]
    /\ UNCHANGED <<endpoint, now>>

ApproveMachine(m, a, E) == Assign(m, a, E, "active")

SetMachineAssignment(m, a, E) == Assign(m, a, E, machine[m].status)

DeleteMachines(M) ==
    /\ machine' = [m \in Machines |->
         IF m \in M /\ Exists(m) THEN NoRow("deleted") ELSE machine[m]]
    /\ links' = [m \in Machines |-> IF m \in M THEN {} ELSE links[m]]
    /\ UNCHANGED <<endpoint, now>>

DeleteMachine(m) == DeleteMachines({m})

DeleteExpiredPending(cutoff) ==
    DeleteMachines({m \in Machines :
        machine[m].status = "pending" /\ machine[m].since < cutoff})

CreateEndpoint(e, nets) ==
    /\ endpoint[e].state = "none"
    /\ endpoint' = [endpoint EXCEPT ![e] = [state |-> "live", nets |-> nets]]
    /\ UNCHANGED <<machine, links, now>>

UpdateEndpoint(e, nets) ==
    /\ endpoint' = IF LiveEndpoint(e) THEN [endpoint EXCEPT ![e].nets = nets] ELSE endpoint
    /\ UNCHANGED <<machine, links, now>>

DeleteEndpoint(e) ==
    /\ endpoint' = [endpoint EXCEPT ![e] = [state |-> "deleted", nets |-> {}]]
    /\ links' = [m \in Machines |-> links[m] \ {e}]
    /\ UNCHANGED <<machine, now>>

-----------------------------------------------------------------------------
(* What every store call preserves, whoever makes it: the schema's unique  *)
(* and foreign keys, and that a machine in service has an address.         *)
KeysUnique ==
    \A m, n \in Machines :
        m # n /\ machine[m].key # None => machine[m].key # machine[n].key

AddrsUnique ==
    \A m, n \in Machines :
        m # n /\ machine[m].addr # NoAddr => machine[m].addr # machine[n].addr

LinksLive == \A m \in Machines : \A e \in links[m] : LiveEndpoint(e)

ActiveAddressed ==
    \A m \in Machines : machine[m].status = "active" => machine[m].addr # NoAddr

StoreInv == StoreTypeOK /\ KeysUnique /\ AddrsUnique /\ LinksLive /\ ActiveAddressed

(* A machine that has an address keeps having one until it is deleted.     *)
Addressed(m) == machine[m].addr # NoAddr \/ machine[m].status = "deleted"

AddressesKept == \A m \in Machines : Addressed(m) => Addressed(m)'
=============================================================================
