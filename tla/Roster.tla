------------------------------- MODULE Roster -------------------------------
(***************************************************************************)
(* The HTTP handlers and maintenance sweeps that change the roster, run by *)
(* concurrent goroutines over the tables of MachineStore.  A request is a  *)
(* record saying which handler runs, which store call it makes next (pc)   *)
(* and what it has read or was given so far; between two store calls any   *)
(* other request may run, so what a request holds may be out of date.      *)
(*                                                                         *)
(* Refuse ends a request at any point: an early return on a failed check,  *)
(* a store error, or the process dying.  What is already written stays.    *)
(***************************************************************************)
EXTENDS MachineStore

CONSTANTS
    Workers,            \* requests that can be in progress at once
    Handlers,           \* the handlers in use; "enroll" only if self_enroll
    MaxPendingPerUser,  \* max_pending_per_user, 0 lifting the cap
    Retention,          \* pending_expiry_days, in clock ticks; 0 = never
    MaxTime             \* bound: the clock stops here

AllHandlers ==
    {"add", "enroll", "edit", "delete", "create", "update", "enable",
     "disable", "adopt", "link", "sweep", "expire", "endpoint"}

ASSUME RosterAssumption ==
    /\ IsFiniteSet(Workers)
    /\ Handlers \subseteq AllHandlers
    /\ MaxPendingPerUser \in Nat
    /\ Retention \in Nat
    /\ MaxTime \in Nat

VARIABLES
    req,        \* the requests in progress
    submitted,  \* history: machines queued by their owner, never approved or requeued since
    reviewed,   \* history: <<machine, key>> an administrator submitted or linked
    queuedAt    \* history: when a pending machine entered the review queue

history == <<submitted, reviewed, queuedAt>>
vars == <<storeVars, req, history>>

Idle == [op |-> "none", pc |-> "idle", machine |-> None, owner |-> None,
         key |-> None, addr |-> NoAddr, status |-> "none", eps |-> {},
         nets |-> {}, groups |-> {}, seen |-> {}, covered |-> {}, todo |-> {}]

Request ==
    [op : AllHandlers \cup {"none"},
     pc : {"idle", "create", "used", "address", "cleanup", "link", "conflict",
           "identity", "assign", "lookup", "links", "activate", "disable",
           "sweep", "save"},
     machine : Machines \cup {None}, owner : Owners \cup {None},
     key : Keys \cup {None}, addr : Addrs \cup {NoAddr},
     status : Statuses \cup {"none"}, eps : SUBSET Endpoints,
     nets : SUBSET Nets, groups : SUBSET (SUBSET Endpoints),
     seen : SUBSET Endpoints, covered : SUBSET Nets, todo : SUBSET Machines]

(* Type invariant: tables, requests and history have the shape the schema  *)
(* (store.go) and the handlers give them.                                  *)
TypeOK ==
    /\ StoreTypeOK
    /\ req \in [Workers -> Request]
    /\ submitted \subseteq Machines
    /\ reviewed \subseteq Machines \X Keys
    /\ queuedAt \in [Machines -> Nat]

Init ==
    /\ StoreInit
    /\ req = [w \in Workers |-> Idle]
    /\ submitted = {}
    /\ reviewed = {}
    /\ queuedAt = [m \in Machines |-> 0]

(* What the history records of a step in which S was submitted by its      *)
(* owner and the pairs R passed an administrator's hands.                  *)
Observe(S, R) ==
    /\ submitted' = {m \in submitted \cup S : machine'[m].status = "pending"}
    /\ reviewed' = {p \in reviewed \cup R : machine'[p[1]].status \in Statuses}
    /\ queuedAt' = [m \in Machines |->
         IF machine'[m].status # "pending" THEN 0
         ELSE IF machine[m].status = "pending" THEN queuedAt[m] ELSE now]

-----------------------------------------------------------------------------
(* Requests. *)

Start(w, r) ==
    /\ r.op \in Handlers
    /\ req[w] = Idle
    /\ req' = [req EXCEPT ![w] = r]

At(w, pc) == req[w].pc = pc

Goto(w, pc) == req' = [req EXCEPT ![w].pc = pc]

Done(w) == req' = [req EXCEPT ![w] = Idle]

Refuse(w) ==
    /\ req[w] # Idle
    /\ Done(w)
    /\ UNCHANGED storeVars

(* Comparing the AllowedIPs of every group of endpoints comes first, when  *)
(* there is one; a group is a set of at least two endpoint ids.            *)
AfterConflict(op) ==
    CASE op \in {"create", "update"} -> "used"
      [] op = "link" -> "assign"
      [] OTHER -> "save"

Several(E) == \E d, e \in E : d # e

Compare(r, groups) ==
    [r EXCEPT !.groups = groups,
              !.pc = IF groups = {} THEN AfterConflict(r.op) ELSE "conflict"]

FormGroups(E) == {G \in {E} : Several(G)}

-----------------------------------------------------------------------------
(* An owner adds a machine, or self-enrolls a device: the cap is checked   *)
(* first.                                                                  *)

(* Mutant of BelowCap: the cap itself is let through.                      *)
CapOffByOne(u) ==
    MaxPendingPerUser > 0 => CountPendingByOwner(u) <= MaxPendingPerUser

BelowCap(u) ==
    MaxPendingPerUser > 0 => CountPendingByOwner(u) < MaxPendingPerUser

AddMachine(w) ==
    \E u \in Owners, k \in Keys :
        /\ BelowCap(u)
        /\ Start(w, [Idle EXCEPT !.op = "add", !.pc = "create", !.owner = u, !.key = k])
        /\ UNCHANGED storeVars

Enroll(w) ==
    \E u \in Owners, k \in Keys, e \in Endpoints :
        /\ LiveEndpoint(e)
        /\ BelowCap(u)
        /\ Start(w, [Idle EXCEPT !.op = "enroll", !.pc = "used", !.owner = u,
                                 !.key = k, !.eps = {e}])
        /\ UNCHANGED storeVars

EnrollAddress(w) ==
    /\ At(w, "address")
    /\ SetMachineAddress(req[w].machine, req[w].addr)
    /\ Goto(w, "link")

(* Setting the address failed: on the unique index, or for any other reason. *)
EnrollAddressFailed(w) ==
    /\ At(w, "address")
    /\ Goto(w, "cleanup")
    /\ UNCHANGED storeVars

EnrollCleanup(w) ==
    /\ At(w, "cleanup")
    /\ DeleteMachine(req[w].machine)
    /\ Done(w)

EnrollLink(w) ==
    /\ At(w, "link")
    /\ SetMachineEndpoints(req[w].machine, req[w].eps)
    /\ Done(w)

-----------------------------------------------------------------------------
(* An administrator creates or edits a machine, adopts or links a peer.    *)

(* A form offers the endpoints there were when its page was rendered; some *)
(* may be gone by the time it is submitted.                                *)
FormEndpoints == SUBSET {e \in Endpoints : endpoint[e].state # "none"} \ {{}}

AdminCreate(w) ==
    \E u \in Owners, k \in Keys, E \in FormEndpoints :
        /\ Start(w, Compare([Idle EXCEPT !.op = "create", !.owner = u,
                                         !.key = k, !.eps = E], FormGroups(E)))
        /\ UNCHANGED storeVars

UpdateMachine(w) ==
    \E m \in Machines, k \in Keys, E \in FormEndpoints :
        /\ Exists(m)
        /\ Start(w, Compare([Idle EXCEPT !.op = "update", !.machine = m, !.key = k,
                                         !.eps = E, !.status = machine[m].status,
                                         !.addr = machine[m].addr], FormGroups(E)))
        /\ UNCHANGED storeVars

(* The hub of endpoint e reports a peer with any key at all.               *)
Peer(w) ==
    \E op \in {"adopt", "link"}, e \in Endpoints, k \in Keys :
        /\ LiveEndpoint(e)
        /\ Start(w, [Idle EXCEPT !.op = op, !.pc = "lookup", !.key = k, !.eps = {e}])
        /\ UNCHANGED storeVars

AdoptLookup(w) ==
    /\ At(w, "lookup") /\ req[w].op = "adopt"
    /\ \A m \in Machines : machine[m].key # req[w].key
    /\ \E u \in Owners : req' = [req EXCEPT ![w].pc = "used", ![w].owner = u]
    /\ UNCHANGED storeVars

LinkLookup(w) ==
    /\ At(w, "lookup") /\ req[w].op = "link"
    /\ \E m \in Machines :
        /\ machine[m].key = req[w].key
        /\ req' = [req EXCEPT ![w].pc = "used", ![w].machine = m, ![w].addr = machine[m].addr]
    /\ UNCHANGED storeVars

LinkEndpoints(w) ==
    /\ At(w, "links") /\ req[w].op = "link"
    /\ LET E == links[req[w].machine] \cup req[w].eps IN
       req' = [req EXCEPT ![w] = Compare([req[w] EXCEPT !.eps = E], FormGroups(E))]
    /\ UNCHANGED storeVars

(* One GetEndpoint of the overlap check.  An endpoint that is gone is      *)
(* skipped; the one being edited counts with its new list.  Overlap with a *)
(* list read before refuses the request.                                   *)
ReadEndpoint(w) ==
    /\ At(w, "conflict")
    /\ \E G \in req[w].groups : \E e \in G \ req[w].seen :
        LET edited == req[w].op = "endpoint" /\ e \in req[w].eps
            nets == IF ~LiveEndpoint(e) THEN {}
                    ELSE IF edited THEN req[w].nets ELSE endpoint[e].nets
        IN
        /\ req[w].seen \subseteq G
        /\ nets \cap req[w].covered = {}
        /\ IF G = req[w].seen \cup {e}
           THEN req' = [req EXCEPT ![w] =
                  Compare([@ EXCEPT !.seen = {}, !.covered = {}], @.groups \ {G})]
           ELSE req' = [req EXCEPT ![w].seen = @ \cup {e}, ![w].covered = @ \cup nets]
    /\ UNCHANGED storeVars

-----------------------------------------------------------------------------
(* Steps several handlers share. *)

(* UsedAddresses, then NextFree for an enrollment or Validate of the       *)
(* address typed in a form; the address the machine had when it was read   *)
(* may be kept.                                                            *)
PickAddress(w) ==
    LET free == Addrs \ (UsedAddresses \ {req[w].addr}) IN
    /\ At(w, "used")
    /\ \E a \in free :
        /\ req[w].op = "enroll" => \A b \in free : a <= b
        /\ req' = [req EXCEPT
             ![w].addr = a,
             ![w].pc = CASE req[w].op = "update" -> "identity"
                         [] req[w].op = "link" -> "links"
                         [] OTHER -> "create"]
    /\ UNCHANGED storeVars

Create(w) ==
    \E m \in Machines :
        /\ At(w, "create")
        /\ CreateMachine(m, req[w].owner, req[w].key)
        /\ Observe(IF req[w].op \in {"add", "enroll"} THEN {m} ELSE {}, {})
        /\ CASE req[w].op = "add" -> Done(w)
             [] req[w].op = "enroll" ->
                  req' = [req EXCEPT ![w].pc = "address", ![w].machine = m]
             [] OTHER -> req' = [req EXCEPT ![w].pc = "assign", ![w].machine = m]

(* Mutant of Identity: the form goes on to approve without saving the key. *)
IdentityLost(w) ==
    /\ At(w, "identity")
    /\ UNCHANGED storeVars
    /\ Observe({}, {<<req[w].machine, req[w].key>>})
    /\ Goto(w, "assign")

Identity(w) ==
    /\ At(w, "identity")
    /\ UpdateMachineIdentity(req[w].machine, req[w].key)
    /\ Observe({}, {<<req[w].machine, req[w].key>>})
    /\ Goto(w, "assign")

(* Mutant of AssignMachine: saving the form of a disabled machine activates it. *)
AlwaysApprove(w) ==
    LET r == req[w] IN
    /\ At(w, "assign")
    /\ ApproveMachine(r.machine, r.addr, r.eps)
    /\ Observe({}, {<<r.machine, r.key>>})
    /\ Done(w)

(* The last write: a machine read as disabled keeps the status it has now. *)
AssignMachine(w) ==
    LET r == req[w] IN
    /\ At(w, "assign")
    /\ IF r.op = "update" /\ r.status = "disabled"
       THEN SetMachineAssignment(r.machine, r.addr, r.eps)
       ELSE ApproveMachine(r.machine, r.addr, r.eps)
    /\ Observe({}, {<<r.machine, r.key>>})
    /\ Done(w)

-----------------------------------------------------------------------------
(* Taking a machine out of service and back.                               *)

DisableMachine(w) ==
    \E m \in Machines :
        /\ machine[m].status \in {"pending", "active"}
        /\ Start(w, [Idle EXCEPT !.op = "disable", !.pc = "disable", !.machine = m])
        /\ UNCHANGED storeVars

DisableWrite(w) ==
    /\ At(w, "disable")
    /\ SetMachineDisabled(req[w].machine)
    /\ Done(w)

EnableMachine(w) ==
    \E m \in Machines :
        /\ machine[m].status = "disabled"
        /\ Start(w, [Idle EXCEPT !.op = "enable", !.pc = "links", !.machine = m,
                                 !.key = machine[m].key, !.addr = machine[m].addr])
        /\ UNCHANGED storeVars

EnableLinks(w) ==
    /\ At(w, "links") /\ req[w].op = "enable"
    /\ req[w].addr # NoAddr
    /\ links[req[w].machine] # {}
    /\ Goto(w, "activate")
    /\ UNCHANGED storeVars

EnableWrite(w) ==
    /\ At(w, "activate")
    /\ SetMachineActive(req[w].machine)
    /\ Done(w)

(* The offboarding sweep lists the active machines of one owner, the       *)
(* dormancy sweep picks at most half of all active machines; either        *)
(* disables them one store call at a time.                                 *)
ActiveMachines == {m \in Machines : machine[m].status = "active"}

OrphanLists == {ActiveOf(u) : u \in Owners}

DormantLists ==
    {D \in SUBSET ActiveMachines : Cardinality(D) * 2 <= Cardinality(ActiveMachines)}

Sweep(w) ==
    \E M \in (OrphanLists \cup DormantLists) \ {{}} :
        /\ Start(w, [Idle EXCEPT !.op = "sweep", !.pc = "sweep", !.todo = M])
        /\ UNCHANGED storeVars

SweepDisable(w) ==
    /\ At(w, "sweep")
    /\ \E m \in req[w].todo :
        /\ SetMachineDisabled(m) \/ UNCHANGED storeVars   \* a failed write is logged and skipped
        /\ IF req[w].todo = {m} THEN Done(w)
           ELSE req' = [req EXCEPT ![w].todo = @ \ {m}]

-----------------------------------------------------------------------------
(* Handlers whose only effect is one store call.  Their earlier reads are  *)
(* of the owner, which never changes, and of whether the row exists, which *)
(* the call itself finds out again.                                        *)

EditMachine ==
    \E m \in Machines, k \in Keys : "edit" \in Handlers /\ UpdateOwnMachine(m, k)

DeleteMachineRow ==
    \E m \in Machines : "delete" \in Handlers /\ Exists(m) /\ DeleteMachine(m)

ExpirePending ==
    /\ "expire" \in Handlers /\ Retention > 0 /\ now >= Retention
    /\ DeleteExpiredPending(now - Retention)

EndpointCreate ==
    \E e \in Endpoints, n \in AllowedLists : CreateEndpoint(e, n)

EndpointDelete ==
    \E e \in Endpoints : "endpoint" \in Handlers /\ LiveEndpoint(e) /\ DeleteEndpoint(e)

Tick ==
    /\ now < MaxTime
    /\ now' = now + 1
    /\ UNCHANGED <<machine, links, endpoint>>

(* Mutant of EditEndpoint: an edit is not checked against linked machines. *)
EditUnchecked(w) ==
    \E e \in Endpoints, n \in AllowedLists :
        /\ LiveEndpoint(e)
        /\ Start(w, [Idle EXCEPT !.op = "endpoint", !.pc = "save", !.eps = {e}, !.nets = n])
        /\ UNCHANGED storeVars

(* Editing an endpoint: the links are read once, then each machine         *)
(* combining it with another endpoint is checked against the new list.     *)
EditEndpoint(w) ==
    \E e \in Endpoints, n \in AllowedLists :
        /\ LiveEndpoint(e)
        /\ Start(w, Compare([Idle EXCEPT !.op = "endpoint", !.eps = {e}, !.nets = n],
                            {G \in {links[m] : m \in Machines} : e \in G /\ Several(G)}))
        /\ UNCHANGED storeVars

SaveEndpoint(w) ==
    /\ At(w, "save")
    /\ \E e \in req[w].eps : UpdateEndpoint(e, req[w].nets)
    /\ Done(w)

-----------------------------------------------------------------------------
RequestStep(w) ==
    \/ AddMachine(w) \/ Enroll(w) \/ EnrollAddress(w) \/ EnrollAddressFailed(w)
    \/ EnrollCleanup(w) \/ EnrollLink(w)
    \/ AdminCreate(w) \/ UpdateMachine(w) \/ Peer(w) \/ AdoptLookup(w)
    \/ LinkLookup(w) \/ LinkEndpoints(w) \/ ReadEndpoint(w) \/ PickAddress(w)
    \/ DisableMachine(w) \/ DisableWrite(w)
    \/ EnableMachine(w) \/ EnableLinks(w) \/ EnableWrite(w)
    \/ Sweep(w) \/ SweepDisable(w) \/ EditEndpoint(w) \/ SaveEndpoint(w)
    \/ Refuse(w)

SingleStep ==
    \/ EditMachine \/ DeleteMachineRow \/ ExpirePending
    \/ EndpointCreate \/ EndpointDelete \/ Tick

Next ==
    \/ \E w \in Workers : RequestStep(w) /\ Observe({}, {})
    \/ \E w \in Workers : Create(w) \/ Identity(w) \/ AssignMachine(w)
    \/ SingleStep /\ UNCHANGED req /\ Observe({}, {})

Spec == Init /\ [][Next]_vars

(* Handlers one after the other: with a single worker, and single-step     *)
(* handlers (the steps that leave req alone) only between two requests.    *)
SerialNext == Next /\ (req' = req => \A w \in Workers : req[w] = Idle)

SerialSpec == Init /\ [][SerialNext]_vars

-----------------------------------------------------------------------------
(* The inductive strengthening of TypeOK and PeersSound: which handler can *)
(* be at which store call, holding what; and a machine about to be enabled *)
(* has an address, unless it was deleted meanwhile.                        *)
ReqOK(r) ==
    /\ r.op = "none" => r.pc = "idle"
    /\ r.pc = "create" => r.op \in {"add", "enroll", "create", "adopt"}
    /\ r.pc = "used" => r.op \in {"enroll", "create", "update", "adopt", "link"}
    /\ r.pc \in {"address", "cleanup", "link"} => r.op = "enroll"
    /\ r.pc = "conflict" => r.op \in {"create", "update", "link", "endpoint"}
    /\ r.pc = "identity" => r.op = "update"
    /\ r.pc = "assign" => r.op \in {"create", "update", "adopt", "link"}
    /\ r.pc \in {"links", "activate"} => r.op \in {"link", "enable"}
    /\ r.pc = "sweep" => r.op = "sweep"
    /\ r.pc = "activate" => r.op = "enable" /\ r.addr \in Addrs
    /\ r.op \in {"add", "enroll", "create"} => r.owner \in Owners
    /\ r.op = "adopt" /\ r.pc # "lookup" => r.owner \in Owners
    /\ r.op \in {"add", "enroll", "create", "update", "adopt", "link"} => r.key \in Keys
    /\ r.op \in {"update", "enable"} => r.machine \in Machines
    /\ r.op = "link" /\ r.pc # "lookup" => r.machine \in Machines
    /\ r.pc \in {"address", "cleanup", "link", "assign", "disable"} => r.machine \in Machines
    /\ r.pc = "create" /\ r.op # "add" => r.addr \in Addrs
    /\ r.pc \in {"address", "identity", "assign"} => r.addr \in Addrs
    /\ r.op = "link" /\ r.pc \in {"links", "conflict"} => r.addr \in Addrs

EnableOK(r) == r.op = "enable" /\ r.addr # NoAddr => Addressed(r.machine)

RosterInv ==
    /\ TypeOK
    /\ StoreInv
    /\ \A w \in Workers : ReqOK(req[w]) /\ EnableOK(req[w])

(* A machine in service can be rendered as a concentrator peer: it has an  *)
(* address of the pool, its links name endpoints that exist, and no other  *)
(* machine holds its key or its address -- whatever handlers interleave,   *)
(* since they check all this some calls before they write.                 *)
PeersSound ==
    \A m \in Machines : machine[m].status = "active" =>
        /\ machine[m].addr \in Addrs
        /\ \A e \in links[m] : LiveEndpoint(e)
        /\ \A n \in Machines \ {m} : /\ machine[n].addr # machine[m].addr
                                     /\ machine[n].key # machine[m].key

(* The cap on an owner's queue is checked before the insert, so concurrent *)
(* submissions overshoot it, but never by more than the requests that can  *)
(* be in progress.                                                         *)
QueueBound ==
    MaxPendingPerUser > 0 =>
        \A u \in Owners :
            Cardinality({m \in submitted : machine[m].owner = u})
                < MaxPendingPerUser + Cardinality(Workers)

(* A machine in service only changes key by the hand of the administrator  *)
(* whose update form carries the new key; an owner's edit takes it out of  *)
(* service in the same transaction, and no sweep or enable undoes that.    *)
KeyChangeLeavesService ==
    [][\A m \in Machines :
        /\ machine[m].status = "active" /\ machine'[m].status = "active"
        /\ machine'[m].key # machine[m].key
        => \E w \in Workers : /\ req[w].op = "update" /\ req[w].machine = m
                              /\ req[w].key = machine'[m].key]_vars

(* Pending expiry only deletes a machine that stayed in the review queue   *)
(* for a full retention period, counted from when it last entered it.      *)
ExpiryGivesFullWindow ==
    [][ExpirePending => \A m \in Machines :
        Exists(m) /\ machine'[m].status = "deleted" =>
            /\ machine[m].status = "pending"
            /\ now - queuedAt[m] > Retention]_vars

(* The handler that puts a machine into service does so with the key it    *)
(* read or was given, so nobody else's key slips in.                       *)
ActivatesKeyItSaw ==
    [][\A m \in Machines :
        machine[m].status # "active" /\ machine'[m].status = "active" =>
            \E w \in Workers : req[w].machine = m /\ req[w].key = machine'[m].key]_vars

(* A machine in service carries a key an administrator submitted or linked *)
(* on this machine (README.md:319-321, machines.go:66-71).                 *)
ActiveKeyReviewed ==
    \A m \in Machines :
        machine[m].status = "active" => <<m, machine[m].key>> \in reviewed

(* Only an explicit enable or "Enable & link" puts a disabled machine back *)
(* into service: saving the edit form never does.                          *)
DisabledStaysOut ==
    [][\A m \in Machines :
        machine[m].status = "disabled" /\ machine'[m].status = "active" =>
            \E w \in Workers : req[w].op \in {"enable", "link"} /\ req[w].machine = m]_vars

(* No machine is linked to two endpoints whose AllowedIPs overlap.         *)
NoOverlap ==
    \A m \in Machines : \A d, e \in links[m] :
        d # e => endpoint[d].nets \cap endpoint[e].nets = {}

(* The cap on pending machines per user, as documented (config.go:76).     *)
PendingCap ==
    MaxPendingPerUser > 0 =>
        \A u \in Owners : CountPendingByOwner(u) <= MaxPendingPerUser

(* Enrollment cleanup drops a row that is still as enrollment made it:     *)
(* pending and without an address (enroll_handler.go:77).                  *)
CleanupDropsOwnRow ==
    [][\A w \in Workers : EnrollCleanup(w) =>
        LET row == machine[req[w].machine] IN
        row.status \in Statuses => row.status = "pending" /\ row.addr = NoAddr]_vars
=============================================================================
