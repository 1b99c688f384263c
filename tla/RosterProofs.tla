---------------------------- MODULE RosterProofs ----------------------------
(***************************************************************************)
(* What is proved of the roster's handlers, for any number of machines,    *)
(* owners, keys, addresses and endpoints.                                  *)
(*                                                                         *)
(* With any number of concurrent requests:                                 *)
(*   PeersAlwaysSound     every machine in service can be served as a peer *)
(*   KeysLeaveService     a machine whose key changes is out of service    *)
(*   ExpiryKeepsItsWindow the sweep lets a queued machine its full window  *)
(*   CapOvershootBounded  the cap is exceeded by at most the racing        *)
(*                        requests                                         *)
(* With one request at a time (SerialSpec):                                *)
(*   SerialNoOverlap, SerialActivatesKeyItSaw, SerialDisabledStaysOut      *)
(*                                                                         *)
(* The arguments.  A store call preserves StoreInv whatever its arguments, *)
(* with one exception: activating a machine needs it to have an address.   *)
(* ReqOK and EnableOK say that a request that got that far still knows it  *)
(* has one, because addresses are kept (AddressesKept) by every call any   *)
(* other request makes.  Status, key and time of a row change together in  *)
(* few calls; every other one is Calm.  The cap holds with the requests    *)
(* that have passed it counted in (QueueInv).  A request that is alone     *)
(* finds the tables as it read them: ListsOK says so of the AllowedIPs its *)
(* overlap check has compared, RowsOK of the row it is about to write.     *)
(***************************************************************************)
EXTENDS Roster, FiniteSetTheorems, TLAPS

-----------------------------------------------------------------------------
(***************************************************************************)
(* Store calls.  Every one that succeeds preserves StoreInv, and no        *)
(* machine loses its address before it is deleted; one lemma per call.     *)
(***************************************************************************)

(* The empty tables satisfy the invariant. *)
LEMMA StoreInitInv == StoreInit => StoreInv
  BY StoreAssumption
  DEF StoreInit, StoreInv, StoreTypeOK, MachineRow, LiveRow, EndpointRow, NoRow, NoAddr, Statuses,
      KeysUnique, AddrsUnique, LinksLive, LiveEndpoint, ActiveAddressed

(* A step that leaves the three tables alone preserves it; the clock may run. *)
LEMMA StoreStutter ==
  ASSUME StoreInv, UNCHANGED <<machine, links, endpoint>>, now' \in Nat
  PROVE  StoreInv' /\ AddressesKept
  BY DEF StoreInv, StoreTypeOK, KeysUnique, AddrsUnique, LinksLive, LiveEndpoint,
         ActiveAddressed, AddressesKept, Addressed

(* CreateMachine: a fresh row takes a key nobody holds and has no address. *)
LEMMA CreateMachineInv ==
  ASSUME StoreInv, NEW m \in Machines, NEW u \in Owners, NEW k \in Keys,
         CreateMachine(m, u, k)
  PROVE  StoreInv' /\ AddressesKept
  <1>1. /\ machine' = [machine EXCEPT ![m] =
             [status |-> "pending", owner |-> u, key |-> k, addr |-> NoAddr, since |-> now]]
        /\ UNCHANGED <<links, endpoint, now>>
        /\ machine[m].status = "none"
        /\ KeyFree(k, m)
    BY DEF CreateMachine
  <1>2. StoreTypeOK'
    BY <1>1 DEF StoreInv, StoreTypeOK, MachineRow, LiveRow, Statuses
  <1>3. KeysUnique' /\ AddrsUnique'
    BY <1>1 DEF StoreInv, StoreTypeOK, KeysUnique, AddrsUnique, KeyFree
  <1>4. LinksLive' /\ ActiveAddressed' /\ AddressesKept
    BY <1>1 DEF StoreInv, StoreTypeOK, MachineRow, LiveRow, Statuses, NoRow, LinksLive, LiveEndpoint,
                ActiveAddressed, AddressesKept, Addressed
  <1>5. QED
    BY <1>2, <1>3, <1>4 DEF StoreInv

(* The row of a machine that exists. *)
LEMMA ExistingRow ==
  ASSUME StoreInv, NEW m \in Machines, Exists(m)
  PROVE  machine[m] \in LiveRow
  BY DEF StoreInv, StoreTypeOK, Exists, MachineRow, LiveRow, NoRow, Statuses

(* A write r of one existing row m, the shape of most calls: what r has to *)
(* satisfy for the invariant to survive it.                                *)
LEMMA RowWriteInv ==
  ASSUME StoreInv, NEW m \in Machines, Exists(m), NEW r \in LiveRow,
         machine' = [machine EXCEPT ![m] = r],
         UNCHANGED <<endpoint, now>>,
         KeyFree(r.key, m),
         r.addr # NoAddr => AddrFree(r.addr, m),
         r.status = "active" \/ machine[m].addr # NoAddr => r.addr # NoAddr,
         links' \in [Machines -> SUBSET Endpoints],
         LinksLive'
  PROVE  StoreInv' /\ AddressesKept
  <1>1. StoreTypeOK'
    BY DEF StoreInv, StoreTypeOK, MachineRow
  <1>2. KeysUnique' /\ AddrsUnique'
    BY DEF StoreInv, StoreTypeOK, KeysUnique, AddrsUnique, KeyFree, AddrFree
  <1>3. ActiveAddressed' /\ AddressesKept
    BY DEF StoreInv, StoreTypeOK, ActiveAddressed, AddressesKept, Addressed, Exists, Statuses
  <1>4. QED
    BY <1>1, <1>2, <1>3 DEF StoreInv

(* An existing row already satisfies the unique constraints itself, and    *)
(* its address, if it is in service, is one.                               *)
LEMMA OwnColumnsFree ==
  ASSUME StoreInv, NEW m \in Machines, Exists(m)
  PROVE  /\ KeyFree(machine[m].key, m)
         /\ machine[m].addr # NoAddr => AddrFree(machine[m].addr, m)
         /\ machine[m].status = "active" => machine[m].addr # NoAddr
  <1>1. machine[m].key # None
    BY ExistingRow, StoreAssumption DEF LiveRow
  <1>2. QED
    BY <1>1 DEF StoreInv, KeysUnique, AddrsUnique, KeyFree, AddrFree, ActiveAddressed

(* A call that leaves the links and endpoints alone keeps the links live. *)
LEMMA LinksKept ==
  ASSUME StoreInv, UNCHANGED <<links, endpoint>>
  PROVE  links' \in [Machines -> SUBSET Endpoints] /\ LinksLive'
  BY DEF StoreInv, StoreTypeOK, LinksLive, LiveEndpoint

(* An UPDATE of a row that is gone changes nothing. *)
LEMMA UnchangedInv ==
  ASSUME StoreInv, UNCHANGED storeVars
  PROVE  StoreInv' /\ AddressesKept
  <1>1. UNCHANGED <<machine, links, endpoint>> /\ now' \in Nat
    BY DEF storeVars, StoreInv, StoreTypeOK
  <1>2. QED
    BY <1>1, StoreStutter

(* UpdateMachineIdentity and UpdateOwnMachine write the key, and the latter *)
(* may requeue; the unique constraint makes the new key nobody else's.     *)
LEMMA UpdateMachineIdentityInv ==
  ASSUME StoreInv, NEW m \in Machines, NEW k \in Keys, UpdateMachineIdentity(m, k)
  PROVE  StoreInv' /\ AddressesKept
  <1>1. CASE ~Exists(m)
    BY <1>1, UnchangedInv DEF UpdateMachineIdentity, storeVars
  <1>2. CASE Exists(m)
    <2> DEFINE r == [machine[m] EXCEPT !.key = k]
    <2>1. /\ r \in LiveRow
          /\ r.key = k /\ r.addr = machine[m].addr /\ r.status = machine[m].status
      BY <1>2, ExistingRow DEF LiveRow
    <2>2. /\ machine' = [machine EXCEPT ![m] = r]
          /\ KeyFree(k, m)
          /\ UNCHANGED <<links, endpoint, now>>
      BY <1>2 DEF UpdateMachineIdentity
    <2> HIDE DEF r
    <2>3. QED
      BY <1>2, <2>1, <2>2, OwnColumnsFree, LinksKept, RowWriteInv
  <1>3. QED
    BY <1>1, <1>2

(* An owner's edit. *)
LEMMA UpdateOwnMachineInv ==
  ASSUME StoreInv, NEW m \in Machines, NEW k \in Keys, UpdateOwnMachine(m, k)
  PROVE  StoreInv' /\ AddressesKept
  <1> DEFINE requeued == k # machine[m].key /\ machine[m].status # "pending"
             s == IF requeued THEN "pending" ELSE machine[m].status
             t == IF requeued THEN now ELSE machine[m].since
             r == [machine[m] EXCEPT !.key = k, !.status = s, !.since = t]
  <1>1. Exists(m) /\ KeyFree(k, m) /\ UNCHANGED <<links, endpoint, now>>
    BY DEF UpdateOwnMachine
  <1>2. machine[m] \in LiveRow /\ now \in Nat
    BY <1>1, ExistingRow DEF StoreInv, StoreTypeOK
  <1>3. s \in Statuses /\ t \in Nat /\ (s = "active" => machine[m].status = "active")
    BY <1>2 DEF LiveRow, Statuses
  <1>4. machine' = [machine EXCEPT ![m] = r]
    BY DEF UpdateOwnMachine
  <1> HIDE DEF s, t
  <1>5. r \in LiveRow /\ r.key = k /\ r.addr = machine[m].addr /\ r.status = s
    BY <1>2, <1>3 DEF LiveRow
  <1> HIDE DEF r
  <1>6. QED
    BY <1>1, <1>3, <1>4, <1>5, OwnColumnsFree, LinksKept, RowWriteInv

(* SetMachineAddress gives the row an address nobody else holds. *)
LEMMA SetMachineAddressInv ==
  ASSUME StoreInv, NEW m \in Machines, NEW a \in Addrs, SetMachineAddress(m, a)
  PROVE  StoreInv' /\ AddressesKept
  <1>1. CASE ~Exists(m)
    BY <1>1, UnchangedInv DEF SetMachineAddress, storeVars
  <1>2. CASE Exists(m)
    <2> DEFINE r == [machine[m] EXCEPT !.addr = a]
    <2>1. /\ r \in LiveRow
          /\ r.key = machine[m].key /\ r.addr = a /\ r.status = machine[m].status
      BY <1>2, ExistingRow DEF LiveRow
    <2>2. /\ machine' = [machine EXCEPT ![m] = r]
          /\ AddrFree(a, m)
          /\ UNCHANGED <<links, endpoint, now>>
      BY <1>2 DEF SetMachineAddress
    <2>3. a # NoAddr
      BY StoreAssumption
    <2> HIDE DEF r
    <2>4. QED
      BY <1>2, <2>1, <2>2, <2>3, OwnColumnsFree, LinksKept, RowWriteInv
  <1>3. QED
    BY <1>1, <1>2

(* A change of status alone; only a machine with an address may become active. *)
LEMMA SetStatusInv ==
  ASSUME StoreInv, NEW m \in Machines, NEW s \in Statuses, SetStatus(m, s),
         s = "active" => Addressed(m)
  PROVE  StoreInv' /\ AddressesKept
  <1>1. CASE ~Exists(m)
    BY <1>1, UnchangedInv DEF SetStatus, storeVars
  <1>2. CASE Exists(m)
    <2> DEFINE r == [machine[m] EXCEPT !.status = s]
    <2>1. /\ r \in LiveRow
          /\ r.key = machine[m].key /\ r.addr = machine[m].addr /\ r.status = s
      BY <1>2, ExistingRow DEF LiveRow
    <2>2. /\ machine' = [machine EXCEPT ![m] = r]
          /\ UNCHANGED <<links, endpoint, now>>
      BY <1>2 DEF SetStatus
    <2>3. s = "active" => machine[m].addr # NoAddr
      BY <1>2 DEF Addressed, Exists, Statuses
    <2> HIDE DEF r
    <2>4. QED
      BY <1>2, <2>1, <2>2, <2>3, OwnColumnsFree, LinksKept, RowWriteInv
  <1>3. QED
    BY <1>1, <1>2

(* SetMachineEndpoints links an existing machine to existing endpoints. *)
LEMMA SetMachineEndpointsInv ==
  ASSUME StoreInv, NEW m \in Machines, NEW E \in SUBSET Endpoints, SetMachineEndpoints(m, E)
  PROVE  StoreInv' /\ AddressesKept
  BY DEF SetMachineEndpoints, CanLink, StoreInv, StoreTypeOK, KeysUnique, AddrsUnique,
         LinksLive, LiveEndpoint, ActiveAddressed, AddressesKept, Addressed

(* assign: address, status and links in one transaction. *)
LEMMA AssignInv ==
  ASSUME StoreInv, NEW m \in Machines, NEW a \in Addrs, NEW E \in SUBSET Endpoints,
         NEW s, Exists(m) => s \in Statuses, Assign(m, a, E, s)
  PROVE  StoreInv' /\ AddressesKept
  <1> DEFINE r == [machine[m] EXCEPT !.addr = a, !.status = s]
  <1>1. /\ Exists(m) /\ AddrFree(a, m) /\ s \in Statuses
        /\ \A e \in E : LiveEndpoint(e)
        /\ machine' = [machine EXCEPT ![m] = r]
        /\ links' = [links EXCEPT ![m] = E]
        /\ UNCHANGED <<endpoint, now>>
    BY DEF Assign, CanAssign, CanLink
  <1>2. r \in LiveRow /\ r.key = machine[m].key /\ r.addr = a /\ r.status = s
    BY <1>1, ExistingRow DEF LiveRow
  <1>3. links' \in [Machines -> SUBSET Endpoints] /\ LinksLive'
    BY <1>1 DEF StoreInv, StoreTypeOK, LinksLive, LiveEndpoint
  <1>4. a # NoAddr
    BY StoreAssumption
  <1> HIDE DEF r
  <1>5. QED
    BY <1>1, <1>2, <1>3, <1>4, OwnColumnsFree, RowWriteInv

(* Deleting rows, with their links. *)
LEMMA DeleteMachinesInv ==
  ASSUME StoreInv, NEW M \in SUBSET Machines, DeleteMachines(M)
  PROVE  StoreInv' /\ AddressesKept
  BY StoreAssumption
  DEF DeleteMachines, StoreInv, StoreTypeOK, MachineRow, LiveRow, NoRow, Statuses, KeysUnique,
      AddrsUnique, LinksLive, LiveEndpoint, ActiveAddressed, AddressesKept, Addressed

(* The endpoint table: creating, editing and deleting a row.  Deleting one *)
(* cascades to the links, so none is left dangling.                        *)
LEMMA CreateEndpointInv ==
  ASSUME StoreInv, NEW e \in Endpoints, NEW n \in SUBSET Nets, CreateEndpoint(e, n)
  PROVE  StoreInv' /\ AddressesKept
  BY DEF CreateEndpoint, StoreInv, StoreTypeOK, EndpointRow, KeysUnique, AddrsUnique,
         LinksLive, LiveEndpoint, ActiveAddressed, AddressesKept, Addressed

(* An edit of an endpoint leaves the roster alone. *)
LEMMA UpdateEndpointInv ==
  ASSUME StoreInv, NEW e \in Endpoints, NEW n \in SUBSET Nets, UpdateEndpoint(e, n)
  PROVE  StoreInv' /\ AddressesKept
  BY DEF UpdateEndpoint, StoreInv, StoreTypeOK, EndpointRow, KeysUnique, AddrsUnique,
         LinksLive, LiveEndpoint, ActiveAddressed, AddressesKept, Addressed

(* Deleting an endpoint removes its links with it. *)
LEMMA DeleteEndpointInv ==
  ASSUME StoreInv, NEW e \in Endpoints, DeleteEndpoint(e)
  PROVE  StoreInv' /\ AddressesKept
  BY DEF DeleteEndpoint, StoreInv, StoreTypeOK, EndpointRow, KeysUnique, AddrsUnique,
         LinksLive, LiveEndpoint, ActiveAddressed, AddressesKept, Addressed

-----------------------------------------------------------------------------
(***************************************************************************)
(* Requests.  RosterInv is inductive: one lemma per step of a handler.     *)
(***************************************************************************)

(* Every request is one a handler can be in. *)
ReqsOK ==
    /\ req \in [Workers -> Request]
    /\ \A w \in Workers : ReqOK(req[w]) /\ EnableOK(req[w])

(* The types of the history variables. *)
HistoryOK ==
    /\ submitted \subseteq Machines
    /\ reviewed \subseteq Machines \X Keys
    /\ queuedAt \in [Machines -> Nat]

(* RosterInv by the parts the steps below preserve one at a time. *)
LEMMA InvParts == RosterInv <=> StoreInv /\ ReqsOK /\ HistoryOK
  BY DEF RosterInv, TypeOK, StoreInv, ReqsOK, HistoryOK

(* An idle worker holds nothing. *)
LEMMA IdleOK == Idle \in Request /\ ReqOK(Idle) /\ EnableOK(Idle)
  BY DEF Idle, Request, ReqOK, EnableOK

(* Replacing one request by a legal one, in a step of the tables that keeps *)
(* addresses, leaves all requests legal.                                   *)
LEMMA RequestUpdate ==
  ASSUME ReqsOK, AddressesKept, StoreInv, NEW w \in Workers,
         NEW r \in Request, ReqOK(r), EnableOK(r),
         req' = [req EXCEPT ![w] = r]
  PROVE  ReqsOK'
  <1>1. req' \in [Workers -> Request]
    BY DEF ReqsOK
  <1>2. ASSUME NEW v \in Workers PROVE (ReqOK(req[v]) /\ EnableOK(req[v]))'
    <2> DEFINE q == req'[v]
    <2>1. q \in Request /\ ReqOK(q) /\ EnableOK(q)
      BY DEF ReqsOK
    <2>2. q.op = "enable" => q.machine \in Machines
      BY <2>1 DEF ReqOK
    <2>3. q.op = "enable" /\ q.addr # NoAddr =>
             machine'[q.machine].addr # NoAddr \/ machine'[q.machine].status = "deleted"
      BY <2>1, <2>2 DEF EnableOK, AddressesKept, Addressed
    <2>4. QED
      BY <2>1, <2>3 DEF ReqOK, EnableOK, Addressed
  <1>3. QED
    BY <1>1, <1>2 DEF ReqsOK

(* Steps that leave the requests alone. *)
LEMMA RequestsKept ==
  ASSUME ReqsOK, AddressesKept, StoreInv, req' = req
  PROVE  ReqsOK'
  <1>1. ASSUME NEW v \in Workers PROVE EnableOK(req[v])'
    BY DEF ReqsOK, ReqOK, EnableOK, AddressesKept, Addressed
  <1>2. QED
    BY <1>1 DEF ReqsOK, ReqOK

(* A request that ends. *)
LEMMA DoneOK ==
  ASSUME ReqsOK, AddressesKept, StoreInv, NEW w \in Workers, Done(w)
  PROVE  ReqsOK'
  BY IdleOK, RequestUpdate DEF Done

(* What the history records keeps its shape. *)
LEMMA ObserveOK ==
  ASSUME HistoryOK, StoreInv, NEW S \in SUBSET Machines,
         NEW R \in SUBSET (Machines \X Keys), Observe(S, R)
  PROVE  HistoryOK'
  <1>1. now \in Nat
    BY DEF StoreInv, StoreTypeOK
  <1>2. QED
    BY <1>1 DEF HistoryOK, Observe

-----------------------------------------------------------------------------
(* Steps that only read the tables: it is enough that the request they     *)
(* leave is legal.                                                         *)
LEMMA ReadStep ==
  ASSUME StoreInv, ReqsOK, NEW w \in Workers, NEW r \in Request, ReqOK(r), EnableOK(r),
         req' = [req EXCEPT ![w] = r], UNCHANGED storeVars
  PROVE  StoreInv' /\ AddressesKept /\ ReqsOK'
  BY UnchangedInv, RequestUpdate

(* The request of worker w, as every step lemma needs it. *)
LEMMA Held ==
  ASSUME ReqsOK, NEW w \in Workers
  PROVE  req[w] \in Request /\ ReqOK(req[w]) /\ EnableOK(req[w])
  BY DEF ReqsOK

(* Compare sends a legal request to its overlap check, or past it. *)
LEMMA CompareOK ==
  ASSUME NEW r \in Request, NEW G \in SUBSET (SUBSET Endpoints),
         r.op \in {"create", "update", "link", "endpoint"},
         r.op = "create" => r.owner \in Owners,
         r.op \in {"create", "update", "link"} => r.key \in Keys,
         r.op \in {"update", "link"} => r.machine \in Machines,
         r.op = "link" => r.addr \in Addrs
  PROVE  LET c == Compare(r, G) IN c \in Request /\ ReqOK(c) /\ EnableOK(c)
  <1> DEFINE c == Compare(r, G)
             pc == IF G = {} THEN AfterConflict(r.op) ELSE "conflict"
  <1>1. c = [r EXCEPT !.groups = G, !.pc = pc]
    BY DEF Compare
  <1> HIDE DEF c, pc
  <1>2. /\ c.op = r.op /\ c.owner = r.owner /\ c.key = r.key
        /\ c.machine = r.machine /\ c.addr = r.addr /\ c.pc = pc
    BY <1>1 DEF Request
  <1>3. pc \in {"conflict", AfterConflict(r.op)}
    BY DEF pc
  <1>4. /\ r.op \in {"create", "update"} => AfterConflict(r.op) = "used"
        /\ r.op = "link" => AfterConflict(r.op) = "assign"
        /\ r.op = "endpoint" => AfterConflict(r.op) = "save"
    BY DEF AfterConflict
  <1>5. c \in Request
    BY <1>1, <1>3, <1>4 DEF Request
  <1>6. ReqOK(c) /\ EnableOK(c)
    BY <1>2, <1>3, <1>4 DEF ReqOK, EnableOK
  <1>7. QED
    BY <1>5, <1>6 DEF c

(* Starting an owner's submission (handleAddMachine). *)
LEMMA AddMachineOK ==
  ASSUME StoreInv, ReqsOK, NEW w \in Workers, AddMachine(w)
  PROVE  StoreInv' /\ AddressesKept /\ ReqsOK'
  <1>1. PICK u \in Owners, k \in Keys :
          /\ Start(w, [Idle EXCEPT !.op = "add", !.pc = "create", !.owner = u, !.key = k])
          /\ UNCHANGED storeVars
    BY DEF AddMachine
  <1> DEFINE r == [Idle EXCEPT !.op = "add", !.pc = "create", !.owner = u, !.key = k]
  <1>2. r \in Request /\ ReqOK(r) /\ EnableOK(r)
    BY DEF Idle, Request, AllHandlers, ReqOK, EnableOK
  <1>3. req' = [req EXCEPT ![w] = r]
    BY <1>1 DEF Start
  <1> HIDE DEF r
  <1>4. QED
    BY <1>1, <1>2, <1>3, ReadStep

(* Starting a self-enrollment (handleEnroll). *)
LEMMA EnrollOK ==
  ASSUME StoreInv, ReqsOK, NEW w \in Workers, Enroll(w)
  PROVE  StoreInv' /\ AddressesKept /\ ReqsOK'
  <1>1. PICK u \in Owners, k \in Keys, e \in Endpoints :
          /\ Start(w, [Idle EXCEPT !.op = "enroll", !.pc = "used", !.owner = u,
                                   !.key = k, !.eps = {e}])
          /\ UNCHANGED storeVars
    BY DEF Enroll
  <1> DEFINE r == [Idle EXCEPT !.op = "enroll", !.pc = "used", !.owner = u,
                               !.key = k, !.eps = {e}]
  <1>2. r \in Request /\ ReqOK(r) /\ EnableOK(r)
    BY DEF Idle, Request, AllHandlers, ReqOK, EnableOK
  <1>3. req' = [req EXCEPT ![w] = r]
    BY <1>1 DEF Start
  <1> HIDE DEF r
  <1>4. QED
    BY <1>1, <1>2, <1>3, ReadStep

(* Starting an administrator's creation form (handleAdminCreateMachine). *)
LEMMA AdminCreateOK ==
  ASSUME StoreInv, ReqsOK, NEW w \in Workers, AdminCreate(w)
  PROVE  StoreInv' /\ AddressesKept /\ ReqsOK'
  <1>1. PICK u \in Owners, k \in Keys, E \in FormEndpoints :
          /\ Start(w, Compare([Idle EXCEPT !.op = "create", !.owner = u,
                                           !.key = k, !.eps = E], FormGroups(E)))
          /\ UNCHANGED storeVars
    BY DEF AdminCreate
  <1> DEFINE r == [Idle EXCEPT !.op = "create", !.owner = u, !.key = k, !.eps = E]
             c == Compare(r, FormGroups(E))
  <1>2. E \in SUBSET Endpoints /\ FormGroups(E) \in SUBSET (SUBSET Endpoints)
    BY DEF FormEndpoints, FormGroups
  <1>3. r \in Request /\ r.op = "create" /\ r.owner \in Owners /\ r.key \in Keys
    BY <1>2 DEF Idle, Request, AllHandlers
  <1>4. req' = [req EXCEPT ![w] = c]
    BY <1>1 DEF Start
  <1> HIDE DEF r
  <1>5. c \in Request /\ ReqOK(c) /\ EnableOK(c)
    BY <1>2, <1>3, CompareOK
  <1> HIDE DEF c
  <1>6. QED
    BY <1>1, <1>4, <1>5, ReadStep

(* Starting an administrator's update form (handleUpdateMachine). *)
LEMMA UpdateMachineOK ==
  ASSUME StoreInv, ReqsOK, NEW w \in Workers, UpdateMachine(w)
  PROVE  StoreInv' /\ AddressesKept /\ ReqsOK'
  <1>1. PICK m \in Machines, k \in Keys, E \in FormEndpoints :
          /\ Exists(m)
          /\ Start(w, Compare([Idle EXCEPT !.op = "update", !.machine = m, !.key = k,
                                           !.eps = E, !.status = machine[m].status,
                                           !.addr = machine[m].addr], FormGroups(E)))
          /\ UNCHANGED storeVars
    BY DEF UpdateMachine
  <1> DEFINE r == [Idle EXCEPT !.op = "update", !.machine = m, !.key = k, !.eps = E,
                               !.status = machine[m].status, !.addr = machine[m].addr]
             c == Compare(r, FormGroups(E))
  <1>2. E \in SUBSET Endpoints /\ FormGroups(E) \in SUBSET (SUBSET Endpoints)
    BY DEF FormEndpoints, FormGroups
  <1>3. machine[m].status \in Statuses /\ machine[m].addr \in Addrs \cup {NoAddr}
    BY <1>1, ExistingRow DEF LiveRow
  <1>4. r \in Request /\ r.op = "update" /\ r.machine \in Machines /\ r.key \in Keys
    BY <1>2, <1>3 DEF Idle, Request, AllHandlers
  <1>5. req' = [req EXCEPT ![w] = c]
    BY <1>1 DEF Start
  <1> HIDE DEF r
  <1>6. c \in Request /\ ReqOK(c) /\ EnableOK(c)
    BY <1>2, <1>4, CompareOK
  <1> HIDE DEF c
  <1>7. QED
    BY <1>1, <1>5, <1>6, ReadStep

(* Starting an endpoint edit (handleUpdateEndpoint). *)
LEMMA EditEndpointOK ==
  ASSUME StoreInv, ReqsOK, NEW w \in Workers, EditEndpoint(w)
  PROVE  StoreInv' /\ AddressesKept /\ ReqsOK'
  <1> DEFINE groups(e) == {G \in {links[m] : m \in Machines} : e \in G /\ Several(G)}
  <1>1. PICK e \in Endpoints, n \in AllowedLists :
          /\ Start(w, Compare([Idle EXCEPT !.op = "endpoint", !.eps = {e}, !.nets = n], groups(e)))
          /\ UNCHANGED storeVars
    BY DEF EditEndpoint
  <1> DEFINE r == [Idle EXCEPT !.op = "endpoint", !.eps = {e}, !.nets = n]
             c == Compare(r, groups(e))
  <1>2. n \in SUBSET Nets /\ groups(e) \in SUBSET (SUBSET Endpoints)
    BY StoreAssumption DEF StoreInv, StoreTypeOK
  <1>3. r \in Request /\ r.op = "endpoint"
    BY <1>2 DEF Idle, Request, AllHandlers
  <1>4. req' = [req EXCEPT ![w] = c]
    BY <1>1 DEF Start
  <1> HIDE DEF r, groups
  <1>5. c \in Request /\ ReqOK(c) /\ EnableOK(c)
    BY <1>2, <1>3, CompareOK
  <1> HIDE DEF c
  <1>6. QED
    BY <1>1, <1>4, <1>5, ReadStep

(* Starting the adoption or linking of a reported peer. *)
LEMMA PeerOK ==
  ASSUME StoreInv, ReqsOK, NEW w \in Workers, Peer(w)
  PROVE  StoreInv' /\ AddressesKept /\ ReqsOK'
  <1>1. PICK op \in {"adopt", "link"}, e \in Endpoints, k \in Keys :
          /\ LiveEndpoint(e)
          /\ Start(w, [Idle EXCEPT !.op = op, !.pc = "lookup", !.key = k, !.eps = {e}])
          /\ UNCHANGED storeVars
    BY DEF Peer
  <1> DEFINE r == [Idle EXCEPT !.op = op, !.pc = "lookup", !.key = k, !.eps = {e}]
  <1>2. r \in Request /\ ReqOK(r) /\ EnableOK(r)
    BY <1>1 DEF Idle, Request, AllHandlers, ReqOK, EnableOK
  <1>3. req' = [req EXCEPT ![w] = r]
    BY <1>1 DEF Start
  <1> HIDE DEF r
  <1>4. QED
    BY <1>1, <1>2, <1>3, ReadStep

(* Starting a disable (handleDisableMachine). *)
LEMMA DisableMachineOK ==
  ASSUME StoreInv, ReqsOK, NEW w \in Workers, DisableMachine(w)
  PROVE  StoreInv' /\ AddressesKept /\ ReqsOK'
  <1>1. PICK m \in Machines :
          /\ machine[m].status \in {"pending", "active"}
          /\ Start(w, [Idle EXCEPT !.op = "disable", !.pc = "disable", !.machine = m])
          /\ UNCHANGED storeVars
    BY DEF DisableMachine
  <1> DEFINE r == [Idle EXCEPT !.op = "disable", !.pc = "disable", !.machine = m]
  <1>2. r \in Request /\ ReqOK(r) /\ EnableOK(r)
    BY <1>1 DEF Idle, Request, AllHandlers, ReqOK, EnableOK
  <1>3. req' = [req EXCEPT ![w] = r]
    BY <1>1 DEF Start
  <1> HIDE DEF r
  <1>4. QED
    BY <1>1, <1>2, <1>3, ReadStep

(* Starting an enable: the address read is still the machine's. *)
LEMMA EnableMachineOK ==
  ASSUME StoreInv, ReqsOK, NEW w \in Workers, EnableMachine(w)
  PROVE  StoreInv' /\ AddressesKept /\ ReqsOK'
  <1>1. PICK m \in Machines :
          /\ machine[m].status = "disabled"
          /\ Start(w, [Idle EXCEPT !.op = "enable", !.pc = "links", !.machine = m,
                                   !.key = machine[m].key, !.addr = machine[m].addr])
          /\ UNCHANGED storeVars
    BY DEF EnableMachine
  <1> DEFINE r == [Idle EXCEPT !.op = "enable", !.pc = "links", !.machine = m,
                               !.key = machine[m].key, !.addr = machine[m].addr]
  <1>2. machine[m].key \in Keys /\ machine[m].addr \in Addrs \cup {NoAddr}
    BY <1>1, ExistingRow DEF LiveRow, Exists, Statuses
  <1>3. r \in Request /\ ReqOK(r) /\ EnableOK(r)
    BY <1>2 DEF Idle, Request, AllHandlers, ReqOK, EnableOK, Addressed
  <1>4. req' = [req EXCEPT ![w] = r]
    BY <1>1 DEF Start
  <1> HIDE DEF r
  <1>5. QED
    BY <1>1, <1>3, <1>4, ReadStep

(* Starting a maintenance sweep over a set of active machines. *)
LEMMA SweepOK ==
  ASSUME StoreInv, ReqsOK, NEW w \in Workers, Sweep(w)
  PROVE  StoreInv' /\ AddressesKept /\ ReqsOK'
  <1>1. PICK M \in OrphanLists \cup DormantLists :
          /\ Start(w, [Idle EXCEPT !.op = "sweep", !.pc = "sweep", !.todo = M])
          /\ UNCHANGED storeVars
    BY DEF Sweep
  <1> DEFINE r == [Idle EXCEPT !.op = "sweep", !.pc = "sweep", !.todo = M]
  <1>2. M \in SUBSET Machines
    BY DEF OrphanLists, DormantLists, ActiveOf, ActiveMachines
  <1>3. r \in Request /\ ReqOK(r) /\ EnableOK(r)
    BY <1>2 DEF Idle, Request, AllHandlers, ReqOK, EnableOK
  <1>4. req' = [req EXCEPT ![w] = r]
    BY <1>1 DEF Start
  <1> HIDE DEF r
  <1>5. QED
    BY <1>1, <1>3, <1>4, ReadStep

(* A request that is refused, fails, or dies with the process. *)
LEMMA RefuseOK ==
  ASSUME StoreInv, ReqsOK, NEW w \in Workers, Refuse(w)
  PROVE  StoreInv' /\ AddressesKept /\ ReqsOK'
  BY IdleOK, ReadStep DEF Refuse, Done

(* The reads in the middle of a handler. *)
LEMMA AdoptLookupOK ==
  ASSUME StoreInv, ReqsOK, NEW w \in Workers, AdoptLookup(w)
  PROVE  StoreInv' /\ AddressesKept /\ ReqsOK'
  <1>1. PICK u \in Owners : req' = [req EXCEPT ![w].pc = "used", ![w].owner = u]
    BY DEF AdoptLookup
  <1> DEFINE q == req[w]
             r == [q EXCEPT !.pc = "used", !.owner = u]
  <1>2. q.op = "adopt" /\ UNCHANGED storeVars
    BY DEF AdoptLookup
  <1>3. q \in Request /\ q.key \in Keys
    BY <1>2, Held DEF ReqOK
  <1>4. req' = [req EXCEPT ![w] = r]
    BY <1>1 DEF ReqsOK
  <1> HIDE DEF q
  <1>5. /\ r \in Request /\ r.op = "adopt" /\ r.pc = "used"
        /\ r.owner = u /\ r.key = q.key
    BY <1>2, <1>3 DEF Request
  <1> HIDE DEF r
  <1>6. ReqOK(r)
    BY <1>3, <1>5 DEF ReqOK
  <1>7. EnableOK(r)
    BY <1>5 DEF EnableOK
  <1>8. QED
    BY <1>2, <1>4, <1>5, <1>6, <1>7, ReadStep

(* Linking: the machine holding the reported key is found. *)
LEMMA LinkLookupOK ==
  ASSUME StoreInv, ReqsOK, NEW w \in Workers, LinkLookup(w)
  PROVE  StoreInv' /\ AddressesKept /\ ReqsOK'
  <1>1. PICK m \in Machines :
          /\ machine[m].key = req[w].key
          /\ req' = [req EXCEPT ![w].pc = "used", ![w].machine = m, ![w].addr = machine[m].addr]
    BY DEF LinkLookup
  <1> DEFINE q == req[w]
             a == machine[m].addr
             r == [q EXCEPT !.pc = "used", !.machine = m, !.addr = a]
  <1>2. q.op = "link" /\ UNCHANGED storeVars
    BY DEF LinkLookup
  <1>3. q \in Request /\ q.key \in Keys /\ a \in Addrs \cup {NoAddr}
    BY <1>2, Held DEF ReqOK, StoreInv, StoreTypeOK, MachineRow, LiveRow, NoRow
  <1>4. req' = [req EXCEPT ![w] = r]
    BY <1>1 DEF ReqsOK
  <1> HIDE DEF q, a
  <1>5. /\ r \in Request /\ r.op = "link" /\ r.pc = "used"
        /\ r.key = q.key /\ r.machine = m
    BY <1>2, <1>3 DEF Request
  <1> HIDE DEF r
  <1>6. ReqOK(r) /\ EnableOK(r)
    BY <1>2, <1>3, <1>5 DEF ReqOK, EnableOK
  <1>7. QED
    BY <1>2, <1>4, <1>5, <1>6, ReadStep

(* Linking: the endpoints the machine already has are read. *)
LEMMA LinkEndpointsOK ==
  ASSUME StoreInv, ReqsOK, NEW w \in Workers, LinkEndpoints(w)
  PROVE  StoreInv' /\ AddressesKept /\ ReqsOK'
  <1> DEFINE E == links[req[w].machine] \cup req[w].eps
             r == [req[w] EXCEPT !.eps = E]
             c == Compare(r, FormGroups(E))
  <1>1. req[w].op = "link" /\ req[w].pc = "links" /\ UNCHANGED storeVars
    BY DEF LinkEndpoints, At
  <1>2. /\ req[w] \in Request
        /\ req[w].key \in Keys /\ req[w].machine \in Machines /\ req[w].addr \in Addrs
    BY <1>1, Held DEF ReqOK
  <1>3. E \in SUBSET Endpoints
    BY <1>2 DEF StoreInv, StoreTypeOK, Request
  <1>4. FormGroups(E) \in SUBSET (SUBSET Endpoints)
    BY <1>3 DEF FormGroups
  <1>5. req' = [req EXCEPT ![w] = c]
    BY DEF LinkEndpoints
  <1> HIDE DEF E
  <1>6. /\ r \in Request /\ r.op = "link" /\ r.key \in Keys
        /\ r.machine \in Machines /\ r.addr \in Addrs
    BY <1>1, <1>2, <1>3 DEF Request
  <1> HIDE DEF r
  <1>7. c \in Request /\ ReqOK(c) /\ EnableOK(c)
    BY <1>4, <1>6, CompareOK
  <1> HIDE DEF c
  <1>8. QED
    BY <1>1, <1>5, <1>7, ReadStep

(* One endpoint of the overlap check is read. *)
LEMMA ReadEndpointOK ==
  ASSUME StoreInv, ReqsOK, NEW w \in Workers, ReadEndpoint(w)
  PROVE  StoreInv' /\ AddressesKept /\ ReqsOK'
  <1> DEFINE nets(e) == IF ~LiveEndpoint(e) THEN {}
                        ELSE IF req[w].op = "endpoint" /\ e \in req[w].eps
                             THEN req[w].nets ELSE endpoint[e].nets
             c(G) == Compare([req[w] EXCEPT !.seen = {}, !.covered = {}], req[w].groups \ {G})
             r(e) == [req[w] EXCEPT !.seen = @ \cup {e}, !.covered = @ \cup nets(e)]
  <1>1. PICK G \in req[w].groups : \E e \in G :
          req' = [req EXCEPT ![w] = c(G)] \/ req' = [req EXCEPT ![w] = r(e)]
    <2>1. PICK G \in req[w].groups : \E e \in G :
               IF G = req[w].seen \cup {e}
               THEN req' = [req EXCEPT ![w] =
                      Compare([@ EXCEPT !.seen = {}, !.covered = {}], @.groups \ {G})]
               ELSE req' = [req EXCEPT ![w].seen = @ \cup {e}, ![w].covered = @ \cup nets(e)]
      BY Zenon DEF ReadEndpoint
    <2>2. req \in [Workers -> Request]
      BY DEF ReqsOK
    <2> HIDE DEF nets
    <2>3. QED
      BY <2>1, <2>2
  <1>2. req[w].pc = "conflict" /\ UNCHANGED storeVars
    BY DEF ReadEndpoint, At
  <1>3. req[w] \in Request /\ ReqOK(req[w]) /\ EnableOK(req[w])
    BY Held
  <1>4. CASE req' = [req EXCEPT ![w] = c(G)]
    <2> DEFINE q == [req[w] EXCEPT !.seen = {}, !.covered = {}]
    <2>1. /\ q \in Request /\ q.op = req[w].op /\ q.owner = req[w].owner /\ q.key = req[w].key
          /\ q.machine = req[w].machine /\ q.addr = req[w].addr
      BY <1>3 DEF Request
    <2>2. req[w].groups \ {G} \in SUBSET (SUBSET Endpoints)
      BY <1>3 DEF Request
    <2>3. /\ req[w].op \in {"create", "update", "link", "endpoint"}
          /\ req[w].op = "create" => req[w].owner \in Owners
          /\ req[w].op \in {"create", "update", "link"} => req[w].key \in Keys
          /\ req[w].op \in {"update", "link"} => req[w].machine \in Machines
          /\ req[w].op = "link" => req[w].addr \in Addrs
      BY <1>2, <1>3 DEF ReqOK
    <2> HIDE DEF q
    <2>4. LET d == Compare(q, req[w].groups \ {G}) IN d \in Request /\ ReqOK(d) /\ EnableOK(d)
      BY <2>1, <2>2, <2>3, CompareOK
    <2>5. c(G) = Compare(q, req[w].groups \ {G})
      BY DEF q
    <2> HIDE DEF c
    <2>6. QED
      BY <1>2, <1>4, <2>4, <2>5, ReadStep
  <1>5. ASSUME NEW e \in G, req' = [req EXCEPT ![w] = r(e)]
        PROVE  StoreInv' /\ AddressesKept /\ ReqsOK'
    <2>1. e \in Endpoints
      BY <1>1, <1>3 DEF Request
    <2>2. nets(e) \in SUBSET Nets
      BY <1>3, <2>1 DEF Request, StoreInv, StoreTypeOK, EndpointRow
    <2> HIDE DEF nets
    <2>3. /\ r(e) \in Request /\ r(e).op = req[w].op /\ r(e).pc = req[w].pc
          /\ r(e).owner = req[w].owner /\ r(e).key = req[w].key
          /\ r(e).machine = req[w].machine /\ r(e).addr = req[w].addr
      <3>1. req[w] \in Request
        BY <1>3
      <3>2. r(e) \in Request
        BY <2>1, <2>2, <3>1 DEF Request
      <3>3. QED
        BY <3>1, <3>2 DEF Request
    <2> HIDE DEF r
    <2>4. ReqOK(r(e))
      BY <1>3, <2>3 DEF ReqOK
    <2>5. EnableOK(r(e))
      BY <1>3, <2>3 DEF EnableOK
    <2>6. QED
      BY <1>2, <1>5, <2>3, <2>4, <2>5, ReadStep
  <1>6. QED
    BY <1>1, <1>4, <1>5

(* An address is chosen among those that are free now. *)
LEMMA PickAddressOK ==
  ASSUME StoreInv, ReqsOK, NEW w \in Workers, PickAddress(w)
  PROVE  StoreInv' /\ AddressesKept /\ ReqsOK'
  <1> DEFINE pc == CASE req[w].op = "update" -> "identity"
                     [] req[w].op = "link" -> "links"
                     [] OTHER -> "create"
  <1>1. PICK a \in Addrs : req' = [req EXCEPT ![w].addr = a, ![w].pc = pc]
    BY DEF PickAddress
  <1> DEFINE r == [req[w] EXCEPT !.addr = a, !.pc = pc]
  <1>2. req[w].pc = "used" /\ UNCHANGED storeVars
    BY DEF PickAddress, At
  <1>3. req[w].op \in {"enroll", "create", "update", "adopt", "link"}
    BY <1>2, Held DEF ReqOK
  <1>4. \/ req[w].op = "update" /\ pc = "identity"
        \/ req[w].op = "link" /\ pc = "links"
        \/ req[w].op \in {"enroll", "create", "adopt"} /\ pc = "create"
    BY <1>3
  <1>5. req' = [req EXCEPT ![w] = r]
    BY <1>1 DEF ReqsOK
  <1>6. /\ r \in Request /\ r.op = req[w].op /\ r.pc = pc /\ r.addr = a
        /\ r.owner = req[w].owner /\ r.key = req[w].key /\ r.machine = req[w].machine
    <2>1. req[w] \in Request
      BY Held
    <2>2. pc \in {"identity", "links", "create"}
      BY <1>4
    <2> HIDE DEF pc
    <2>3. r \in Request
      BY <2>1, <2>2 DEF Request
    <2>4. QED
      BY <2>1, <2>3 DEF Request
  <1> HIDE DEF pc
  <1>7. /\ r.op \in {"enroll", "create"} => r.owner \in Owners
        /\ r.op = "adopt" => r.owner \in Owners
        /\ r.key \in Keys
        /\ r.op \in {"update", "link"} => r.machine \in Machines
    BY <1>2, <1>3, <1>6, Held DEF ReqOK
  <1> HIDE DEF r
  <1>8. ReqOK(r) /\ EnableOK(r)
    <2>1. CASE r.op = "update"
      BY <1>4, <1>6, <1>7, <2>1 DEF ReqOK, EnableOK
    <2>2. CASE r.op = "link"
      BY <1>4, <1>6, <1>7, <2>2 DEF ReqOK, EnableOK
    <2>3. CASE r.op \in {"enroll", "create", "adopt"}
      BY <1>4, <1>6, <1>7, <2>3 DEF ReqOK, EnableOK
    <2>4. QED
      BY <1>4, <1>6, <2>1, <2>2, <2>3
  <1>9. QED
    BY <1>2, <1>5, <1>6, <1>8, ReadStep

(* Enabling: the machine has an address and links. *)
LEMMA EnableLinksOK ==
  ASSUME StoreInv, ReqsOK, NEW w \in Workers, EnableLinks(w)
  PROVE  StoreInv' /\ AddressesKept /\ ReqsOK'
  <1> DEFINE r == [req[w] EXCEPT !.pc = "activate"]
  <1>1. /\ req[w].op = "enable" /\ req[w].addr # NoAddr
        /\ req' = [req EXCEPT ![w] = r] /\ UNCHANGED storeVars
    BY DEF EnableLinks, Goto
  <1>2. r \in Request /\ ReqOK(r) /\ EnableOK(r)
    BY <1>1, Held DEF Request, ReqOK, EnableOK
  <1> HIDE DEF r
  <1>3. QED
    BY <1>1, <1>2, ReadStep

(* Enrollment: the address was refused. *)
LEMMA EnrollAddressFailedOK ==
  ASSUME StoreInv, ReqsOK, NEW w \in Workers, EnrollAddressFailed(w)
  PROVE  StoreInv' /\ AddressesKept /\ ReqsOK'
  <1> DEFINE r == [req[w] EXCEPT !.pc = "cleanup"]
  <1>1. req[w].pc = "address" /\ req' = [req EXCEPT ![w] = r] /\ UNCHANGED storeVars
    BY DEF EnrollAddressFailed, Goto, At
  <1>2. r \in Request /\ ReqOK(r) /\ EnableOK(r)
    BY <1>1, Held DEF Request, ReqOK, EnableOK
  <1> HIDE DEF r
  <1>3. QED
    BY <1>1, <1>2, ReadStep

-----------------------------------------------------------------------------
(* Steps that write the tables.                                            *)
(* Enrollment: the address is written; only the unique index can refuse it. *)
LEMMA EnrollAddressOK ==
  ASSUME StoreInv, ReqsOK, NEW w \in Workers, EnrollAddress(w)
  PROVE  StoreInv' /\ AddressesKept /\ ReqsOK'
  <1> DEFINE r == [req[w] EXCEPT !.pc = "link"]
  <1>1. /\ req[w].pc = "address" /\ req' = [req EXCEPT ![w] = r]
        /\ SetMachineAddress(req[w].machine, req[w].addr)
    BY DEF EnrollAddress, Goto, At
  <1>2. req[w].machine \in Machines /\ req[w].addr \in Addrs
    BY <1>1, Held DEF ReqOK
  <1>3. r \in Request /\ ReqOK(r) /\ EnableOK(r)
    BY <1>1, Held DEF Request, ReqOK, EnableOK
  <1> HIDE DEF r
  <1>4. StoreInv' /\ AddressesKept
    BY <1>1, <1>2, SetMachineAddressInv
  <1>5. QED
    BY <1>1, <1>3, <1>4, RequestUpdate

(* Enrollment: the row is dropped again. *)
LEMMA EnrollCleanupOK ==
  ASSUME StoreInv, ReqsOK, NEW w \in Workers, EnrollCleanup(w)
  PROVE  StoreInv' /\ AddressesKept /\ ReqsOK'
  <1>1. req[w].machine \in Machines
    BY Held DEF EnrollCleanup, At, ReqOK
  <1>2. StoreInv' /\ AddressesKept
    BY <1>1, DeleteMachinesInv DEF EnrollCleanup, DeleteMachine
  <1>3. QED
    BY <1>2, DoneOK DEF EnrollCleanup

(* Enrollment: the device is linked to its endpoint. *)
LEMMA EnrollLinkOK ==
  ASSUME StoreInv, ReqsOK, NEW w \in Workers, EnrollLink(w)
  PROVE  StoreInv' /\ AddressesKept /\ ReqsOK'
  <1>1. req[w].machine \in Machines /\ req[w].eps \in SUBSET Endpoints
    BY Held DEF EnrollLink, At, ReqOK, Request
  <1>2. StoreInv' /\ AddressesKept
    BY <1>1, SetMachineEndpointsInv DEF EnrollLink
  <1>3. QED
    BY <1>2, DoneOK DEF EnrollLink

(* Disabling needs no address, so it is always sound. *)
LEMMA DisableWriteOK ==
  ASSUME StoreInv, ReqsOK, NEW w \in Workers, DisableWrite(w)
  PROVE  StoreInv' /\ AddressesKept /\ ReqsOK'
  <1>1. req[w].machine \in Machines /\ SetStatus(req[w].machine, "disabled")
    BY Held DEF DisableWrite, SetMachineDisabled, At, ReqOK
  <1>2. StoreInv' /\ AddressesKept
    BY <1>1, SetStatusInv DEF Statuses
  <1>3. QED
    BY <1>2, DoneOK DEF DisableWrite

(* The exception: the machine still has the address it had when it was read. *)
LEMMA EnableWriteOK ==
  ASSUME StoreInv, ReqsOK, NEW w \in Workers, EnableWrite(w)
  PROVE  StoreInv' /\ AddressesKept /\ ReqsOK'
  <1>1. req[w].pc = "activate" /\ SetStatus(req[w].machine, "active")
    BY DEF EnableWrite, SetMachineActive, At
  <1>2. req[w].op = "enable" /\ req[w].addr # NoAddr /\ req[w].machine \in Machines
    BY <1>1, Held, StoreAssumption DEF ReqOK
  <1>3. Addressed(req[w].machine)
    BY <1>2, Held DEF EnableOK
  <1>4. StoreInv' /\ AddressesKept
    BY <1>1, <1>2, <1>3, SetStatusInv DEF Statuses
  <1>5. QED
    BY <1>4, DoneOK DEF EnableWrite

(* A sweep disables one machine, or skips it. *)
LEMMA SweepDisableOK ==
  ASSUME StoreInv, ReqsOK, NEW w \in Workers, SweepDisable(w)
  PROVE  StoreInv' /\ AddressesKept /\ ReqsOK'
  <1> DEFINE r(m) == [req[w] EXCEPT !.todo = @ \ {m}]
  <1>1. PICK m \in req[w].todo :
          /\ SetMachineDisabled(m) \/ UNCHANGED storeVars
          /\ Done(w) \/ req' = [req EXCEPT ![w] = r(m)]
    BY DEF SweepDisable
  <1>2. m \in Machines
    BY <1>1, Held DEF Request
  <1>3. StoreInv' /\ AddressesKept
    BY <1>1, <1>2, SetStatusInv, UnchangedInv DEF SetMachineDisabled, Statuses
  <1>4. r(m) \in Request /\ ReqOK(r(m)) /\ EnableOK(r(m))
    BY Held DEF Request, ReqOK, EnableOK
  <1> HIDE DEF r
  <1>5. QED
    BY <1>1, <1>3, <1>4, DoneOK, RequestUpdate

(* An endpoint edit is saved. *)
LEMMA SaveEndpointOK ==
  ASSUME StoreInv, ReqsOK, NEW w \in Workers, SaveEndpoint(w)
  PROVE  StoreInv' /\ AddressesKept /\ ReqsOK'
  <1>1. PICK e \in req[w].eps : UpdateEndpoint(e, req[w].nets)
    BY DEF SaveEndpoint
  <1>2. e \in Endpoints /\ req[w].nets \in SUBSET Nets
    BY <1>1, Held DEF Request
  <1>3. StoreInv' /\ AddressesKept
    BY <1>1, <1>2, UpdateEndpointInv
  <1>4. QED
    BY <1>3, DoneOK DEF SaveEndpoint

(* Creating a machine, and the request that goes on to its next write. *)
LEMMA CreateOK ==
  ASSUME StoreInv, ReqsOK, NEW w \in Workers, Create(w)
  PROVE  /\ StoreInv' /\ AddressesKept /\ ReqsOK'
         /\ \E S \in SUBSET Machines : Observe(S, {})
  <1>1. PICK m \in Machines :
          /\ CreateMachine(m, req[w].owner, req[w].key)
          /\ Observe(IF req[w].op \in {"add", "enroll"} THEN {m} ELSE {}, {})
          /\ \/ Done(w)
             \/ /\ req[w].op = "enroll"
                /\ req' = [req EXCEPT ![w].pc = "address", ![w].machine = m]
             \/ /\ req[w].op \notin {"add", "enroll"}
                /\ req' = [req EXCEPT ![w].pc = "assign", ![w].machine = m]
    BY DEF Create
  <1>2. /\ req[w].pc = "create" /\ req[w].op \in {"add", "enroll", "create", "adopt"}
        /\ req[w].owner \in Owners /\ req[w].key \in Keys
    BY Held DEF Create, At, ReqOK
  <1>3. StoreInv' /\ AddressesKept
    BY <1>1, <1>2, CreateMachineInv
  <1> DEFINE q == req[w]
             r(pc) == [q EXCEPT !.pc = pc, !.machine = m]
  <1>4. ASSUME Done(w) PROVE ReqsOK'
    BY <1>3, <1>4, DoneOK
  <1>5. ASSUME NEW pc \in {"address", "assign"},
               q.op = "enroll" <=> pc = "address", q.op # "add",
               req' = [req EXCEPT ![w] = r(pc)]
        PROVE  ReqsOK'
    <2>1. q \in Request /\ ReqOK(q) /\ EnableOK(q)
      BY Held
    <2>2. /\ q.op \in {"enroll", "create", "adopt"} /\ q.addr \in Addrs
          /\ q.owner \in Owners /\ q.key \in Keys
      BY <1>2, <1>5, <2>1 DEF ReqOK
    <2> HIDE DEF q
    <2>3. /\ r(pc) \in Request /\ r(pc).op = q.op /\ r(pc).pc = pc /\ r(pc).machine = m
          /\ r(pc).addr = q.addr /\ r(pc).owner = q.owner /\ r(pc).key = q.key
      <3>1. q \in Request
        BY <2>1
      <3>2. r(pc) \in Request
        BY <3>1 DEF Request
      <3>3. QED
        BY <3>1, <3>2 DEF Request
    <2> HIDE DEF r
    <2>4. ReqOK(r(pc))
      BY <1>5, <2>2, <2>3 DEF ReqOK
    <2>5. EnableOK(r(pc))
      BY <2>2, <2>3 DEF EnableOK
    <2>6. QED
      BY <1>3, <1>5, <2>3, <2>4, <2>5, RequestUpdate
  <1>6. ASSUME req[w].op = "enroll",
               req' = [req EXCEPT ![w].pc = "address", ![w].machine = m]
        PROVE  ReqsOK'
    <2>1. req' = [req EXCEPT ![w] = r("address")]
      BY <1>6 DEF ReqsOK
    <2> HIDE DEF r
    <2>2. QED
      BY <1>5, <1>6, <2>1
  <1>7. ASSUME req[w].op \notin {"add", "enroll"},
               req' = [req EXCEPT ![w].pc = "assign", ![w].machine = m]
        PROVE  ReqsOK'
    <2>1. req' = [req EXCEPT ![w] = r("assign")]
      BY <1>7 DEF ReqsOK
    <2> HIDE DEF r
    <2>2. QED
      BY <1>5, <1>7, <2>1
  <1> HIDE DEF q, r
  <1>8. ReqsOK'
    BY <1>1, <1>4, <1>6, <1>7
  <1>9. QED
    BY <1>1, <1>3, <1>8

(* An update form saves the key. *)
LEMMA IdentityOK ==
  ASSUME StoreInv, ReqsOK, NEW w \in Workers, Identity(w)
  PROVE  /\ StoreInv' /\ AddressesKept /\ ReqsOK'
         /\ \E R \in SUBSET (Machines \X Keys) : Observe({}, R)
  <1> DEFINE r == [req[w] EXCEPT !.pc = "assign"]
  <1>1. /\ req[w].pc = "identity"
        /\ UpdateMachineIdentity(req[w].machine, req[w].key)
        /\ Observe({}, {<<req[w].machine, req[w].key>>})
        /\ req' = [req EXCEPT ![w] = r]
    BY DEF Identity, Goto, At
  <1>2. req[w].machine \in Machines /\ req[w].key \in Keys
    BY <1>1, Held DEF ReqOK
  <1>3. r \in Request /\ ReqOK(r) /\ EnableOK(r)
    BY <1>1, Held DEF Request, ReqOK, EnableOK
  <1> HIDE DEF r
  <1>4. StoreInv' /\ AddressesKept
    BY <1>1, <1>2, UpdateMachineIdentityInv
  <1>5. ReqsOK'
    BY <1>1, <1>3, <1>4, RequestUpdate
  <1>6. QED
    BY <1>1, <1>2, <1>4, <1>5

(* The write that gives a machine its address, links and status. *)
LEMMA AssignMachineOK ==
  ASSUME StoreInv, ReqsOK, NEW w \in Workers, AssignMachine(w)
  PROVE  /\ StoreInv' /\ AddressesKept /\ ReqsOK'
         /\ \E R \in SUBSET (Machines \X Keys) : Observe({}, R)
  <1> DEFINE m == req[w].machine
             a == req[w].addr
             E == req[w].eps
  <1>1. /\ req[w].pc = "assign" /\ Done(w)
        /\ Observe({}, {<<m, req[w].key>>})
        /\ Assign(m, a, E, machine[m].status) \/ Assign(m, a, E, "active")
    BY DEF AssignMachine, At, ApproveMachine, SetMachineAssignment
  <1>2. /\ m \in Machines /\ a \in Addrs /\ E \in SUBSET Endpoints /\ req[w].key \in Keys
    BY <1>1, Held DEF ReqOK, Request
  <1>3. /\ Exists(m) => machine[m].status \in Statuses
        /\ "active" \in Statuses
    BY DEF Exists, Statuses
  <1>4. StoreInv' /\ AddressesKept
    <2>1. CASE Assign(m, a, E, machine[m].status)
      BY <1>2, <1>3, <2>1, AssignInv
    <2>2. CASE Assign(m, a, E, "active")
      BY <1>2, <1>3, <2>2, AssignInv
    <2>3. QED
      BY <1>1, <2>1, <2>2
  <1>5. QED
    BY <1>1, <1>2, <1>4, DoneOK

(* The handlers that are one store call, the endpoint administration that  *)
(* is one, and the clock.                                                  *)
LEMMA SingleStepOK ==
  ASSUME StoreInv, SingleStep
  PROVE  StoreInv' /\ AddressesKept
  <1>1. CASE EditMachine
    BY <1>1, UpdateOwnMachineInv DEF EditMachine
  <1>2. CASE DeleteMachineRow
    BY <1>2, DeleteMachinesInv DEF DeleteMachineRow, DeleteMachine
  <1>3. CASE ExpirePending
    BY <1>3, DeleteMachinesInv DEF ExpirePending, DeleteExpiredPending
  <1>4. CASE EndpointCreate
    BY <1>4, CreateEndpointInv, StoreAssumption DEF EndpointCreate
  <1>5. CASE EndpointDelete
    BY <1>5, DeleteEndpointInv DEF EndpointDelete
  <1>6. CASE Tick
    <2>1. UNCHANGED <<machine, links, endpoint>> /\ now' \in Nat
      BY <1>6 DEF Tick, StoreInv, StoreTypeOK
    <2>2. QED
      BY <2>1, StoreStutter
  <1>7. QED
    BY <1>1, <1>2, <1>3, <1>4, <1>5, <1>6 DEF SingleStep

-----------------------------------------------------------------------------
(* Initially the tables are empty and every worker is idle. *)
LEMMA InitInv == Init => RosterInv
  <1> SUFFICES ASSUME Init PROVE StoreInv /\ ReqsOK /\ HistoryOK
    BY InvParts
  <1>1. StoreInv
    BY StoreInitInv DEF Init
  <1>2. ReqsOK
    BY IdleOK DEF Init, ReqsOK
  <1>3. HistoryOK
    BY DEF Init, HistoryOK
  <1>4. QED
    BY <1>1, <1>2, <1>3

(* Every step of a request that writes no history. *)
LEMMA RequestStepOK ==
  ASSUME StoreInv, ReqsOK, NEW w \in Workers, RequestStep(w)
  PROVE  StoreInv' /\ AddressesKept /\ ReqsOK'
  BY AddMachineOK, EnrollOK, EnrollAddressOK, EnrollAddressFailedOK, EnrollCleanupOK,
     EnrollLinkOK, AdminCreateOK, UpdateMachineOK, PeerOK, AdoptLookupOK, LinkLookupOK,
     LinkEndpointsOK, ReadEndpointOK, PickAddressOK, DisableMachineOK, DisableWriteOK,
     EnableMachineOK, EnableLinksOK, EnableWriteOK, SweepOK, SweepDisableOK,
     EditEndpointOK, SaveEndpointOK, RefuseOK
  DEF RequestStep

(* Every step, history included, preserves the inductive invariant. *)
LEMMA NextInv == RosterInv /\ [Next]_vars => RosterInv'
  <1> SUFFICES ASSUME StoreInv, ReqsOK, HistoryOK, [Next]_vars
               PROVE  StoreInv' /\ ReqsOK' /\ HistoryOK'
    BY DEF RosterInv, TypeOK, StoreInv, ReqsOK, HistoryOK
  <1>1. ASSUME NEW w \in Workers, RequestStep(w), Observe({}, {})
        PROVE  StoreInv' /\ ReqsOK' /\ HistoryOK'
    <2>1. StoreInv' /\ AddressesKept /\ ReqsOK'
      BY <1>1, RequestStepOK
    <2>2. HistoryOK'
      BY <1>1, ObserveOK
    <2>3. QED
      BY <2>1, <2>2
  <1>2. ASSUME NEW w \in Workers, Create(w) \/ Identity(w) \/ AssignMachine(w)
        PROVE  StoreInv' /\ ReqsOK' /\ HistoryOK'
    <2>1. /\ StoreInv' /\ ReqsOK'
          /\ \E S \in SUBSET Machines, R \in SUBSET (Machines \X Keys) : Observe(S, R)
      <3>1. CASE Create(w)
        BY <3>1, CreateOK
      <3>2. CASE Identity(w)
        BY <3>2, IdentityOK
      <3>3. CASE AssignMachine(w)
        BY <3>3, AssignMachineOK
      <3>4. QED
        BY <1>2, <3>1, <3>2, <3>3
    <2>2. QED
      BY <2>1, ObserveOK
  <1>3. CASE SingleStep /\ UNCHANGED req /\ Observe({}, {})
    <2>1. StoreInv' /\ AddressesKept
      BY <1>3, SingleStepOK
    <2>2. ReqsOK'
      BY <1>3, <2>1, RequestsKept
    <2>3. HistoryOK'
      BY <1>3, ObserveOK
    <2>4. QED
      BY <2>1, <2>2, <2>3
  <1>4. CASE UNCHANGED vars
    <2>1. StoreInv' /\ AddressesKept
      BY <1>4, UnchangedInv DEF vars, storeVars
    <2>2. QED
      BY <1>4, <2>1, RequestsKept DEF vars, history, HistoryOK
  <1>5. QED
    BY <1>1, <1>2, <1>3, <1>4 DEF Next

(* The roster's inductive invariant holds in every reachable state,        *)
(* whatever the number of concurrent requests.                             *)
THEOREM Invariance == Spec => []RosterInv
  BY InitInv, NextInv, PTL DEF Spec

(* Tables, requests and history always have the shape the schema and the   *)
(* handlers give them.                                                     *)
THEOREM TypeCorrect == Spec => []TypeOK
  <1>1. RosterInv => TypeOK
    BY DEF RosterInv
  <1>2. QED
    BY <1>1, Invariance, PTL

(* A machine in service always has an address of the pool and links to     *)
(* endpoints that exist, and shares neither its address nor its key with   *)
(* any other machine: what a concentrator is told is well formed, whatever *)
(* requests interleave, fail half way or die with the process.             *)
THEOREM PeersAlwaysSound == Spec => []PeersSound
  <1>1. RosterInv => PeersSound
    <2> SUFFICES ASSUME RosterInv, NEW m \in Machines, machine[m].status = "active"
                 PROVE  /\ machine[m].addr \in Addrs
                        /\ \A e \in links[m] : LiveEndpoint(e)
                        /\ \A n \in Machines \ {m} : /\ machine[n].addr # machine[m].addr
                                                     /\ machine[n].key # machine[m].key
      BY DEF PeersSound
    <2>1. StoreInv /\ Exists(m)
      BY DEF RosterInv, Exists, Statuses
    <2>2. machine[m].addr \in Addrs
      BY <2>1, ExistingRow DEF LiveRow, StoreInv, ActiveAddressed
    <2>3. \A e \in links[m] : LiveEndpoint(e)
      BY <2>1 DEF StoreInv, LinksLive
    <2>4. KeyFree(machine[m].key, m) /\ AddrFree(machine[m].addr, m)
      BY <2>1, OwnColumnsFree
    <2>5. QED
      BY <2>2, <2>3, <2>4 DEF KeyFree, AddrFree
  <1>2. QED
    BY <1>1, Invariance, PTL

-----------------------------------------------------------------------------
(***************************************************************************)
(* What a step may do to a row: all but three kinds of step are calm.      *)
(***************************************************************************)

(* A request is at the call that puts machine n into service. *)
IntoService(n) ==
    \E w \in Workers : req[w].machine = n /\ (EnableWrite(w) \/ AssignMachine(w))

(* What a step of a request does to a row, unless it creates the row or    *)
(* saves a key: nothing, or it deletes it, or it changes its address or    *)
(* status; it never queues a machine, and puts one into service by an      *)
(* enable or an assignment of that machine only.                           *)
Calm(n) ==
    \/ machine'[n] = machine[n]
    \/ Exists(n) /\ machine'[n].status = "deleted"
    \/ /\ Exists(n)
       /\ machine'[n].owner = machine[n].owner
       /\ machine'[n].key = machine[n].key
       /\ machine'[n].since = machine[n].since
       /\ \/ machine'[n].status \in {machine[n].status, "disabled"}
          \/ machine'[n].status = "active" /\ IntoService(n)

(* A step that is calm for every row. *)
AllCalm == \A n \in Machines : Calm(n)

(* Store calls that leave the machine table alone. *)
LEMMA SameRowsCalm == ASSUME UNCHANGED machine PROVE AllCalm
  BY DEF AllCalm, Calm

(* An UPDATE of one row that keeps its owner, key and time. *)
LEMMA RowWriteCalm ==
  ASSUME StoreInv, NEW m \in Machines, NEW r, machine' = [machine EXCEPT ![m] = r],
         Exists(m), r.owner = machine[m].owner, r.key = machine[m].key,
         r.since = machine[m].since,
         r.status \in {machine[m].status, "disabled"} \/ (r.status = "active" /\ IntoService(m))
  PROVE  AllCalm
  BY DEF AllCalm, Calm, StoreInv, StoreTypeOK

(* A change of status that queues nobody is calm. *)
LEMMA SetStatusCalm ==
  ASSUME StoreInv, NEW m \in Machines, NEW s, SetStatus(m, s),
         s = "disabled" \/ (s = "active" /\ IntoService(m))
  PROVE  AllCalm
  <1>1. CASE ~Exists(m)
    BY <1>1, SameRowsCalm DEF SetStatus
  <1>2. CASE Exists(m)
    <2> DEFINE r == [machine[m] EXCEPT !.status = s]
    <2>1. /\ r.owner = machine[m].owner /\ r.key = machine[m].key
          /\ r.since = machine[m].since /\ r.status = s
      BY <1>2, ExistingRow DEF LiveRow
    <2>2. machine' = [machine EXCEPT ![m] = r]
      BY <1>2 DEF SetStatus
    <2> HIDE DEF r
    <2>3. QED
      BY <1>2, <2>1, <2>2, RowWriteCalm
  <1>3. QED
    BY <1>1, <1>2

(* So is saving an address. *)
LEMMA SetMachineAddressCalm ==
  ASSUME StoreInv, NEW m \in Machines, NEW a, SetMachineAddress(m, a)
  PROVE  AllCalm
  <1>1. CASE ~Exists(m)
    BY <1>1, SameRowsCalm DEF SetMachineAddress
  <1>2. CASE Exists(m)
    <2> DEFINE r == [machine[m] EXCEPT !.addr = a]
    <2>1. /\ r.owner = machine[m].owner /\ r.key = machine[m].key
          /\ r.since = machine[m].since /\ r.status = machine[m].status
      BY <1>2, ExistingRow DEF LiveRow
    <2>2. machine' = [machine EXCEPT ![m] = r]
      BY <1>2 DEF SetMachineAddress
    <2> HIDE DEF r
    <2>3. QED
      BY <1>2, <2>1, <2>2, RowWriteCalm
  <1>3. QED
    BY <1>1, <1>2

(* So is an assignment, which may put its own machine into service. *)
LEMMA AssignCalm ==
  ASSUME StoreInv, NEW m \in Machines, NEW a, NEW E, NEW s, Assign(m, a, E, s),
         s = machine[m].status \/ (s = "active" /\ IntoService(m))
  PROVE  AllCalm
  <1> DEFINE r == [machine[m] EXCEPT !.addr = a, !.status = s]
  <1>1. Exists(m) /\ machine' = [machine EXCEPT ![m] = r]
    BY DEF Assign, CanAssign, CanLink
  <1>2. /\ r.owner = machine[m].owner /\ r.key = machine[m].key
        /\ r.since = machine[m].since /\ r.status = s
    BY <1>1, ExistingRow DEF LiveRow
  <1> HIDE DEF r
  <1>3. QED
    BY <1>1, <1>2, RowWriteCalm

(* So is deleting rows. *)
LEMMA DeleteMachinesCalm ==
  ASSUME StoreInv, NEW M, DeleteMachines(M)
  PROVE  AllCalm
  BY DEF AllCalm, Calm, DeleteMachines, StoreInv, StoreTypeOK, NoRow

(* Every step of a request but Create and Identity is calm. *)
LEMMA RequestStepCalm ==
  ASSUME StoreInv, ReqsOK, NEW w \in Workers, RequestStep(w) \/ AssignMachine(w)
  PROVE  AllCalm
  <1>1. CASE EnrollAddress(w)
    <2>1. req[w].machine \in Machines /\ SetMachineAddress(req[w].machine, req[w].addr)
      BY <1>1, Held DEF EnrollAddress, At, ReqOK
    <2>2. QED
      BY <2>1, SetMachineAddressCalm
  <1>2. CASE EnrollCleanup(w)
    BY <1>2, DeleteMachinesCalm DEF EnrollCleanup, DeleteMachine
  <1>3. CASE EnrollLink(w)
    BY <1>3, SameRowsCalm DEF EnrollLink, SetMachineEndpoints
  <1>4. CASE DisableWrite(w)
    <2>1. req[w].machine \in Machines /\ SetStatus(req[w].machine, "disabled")
      BY <1>4, Held DEF DisableWrite, SetMachineDisabled, At, ReqOK
    <2>2. QED
      BY <2>1, SetStatusCalm
  <1>5. CASE EnableWrite(w)
    <2>1. req[w].machine \in Machines /\ SetStatus(req[w].machine, "active")
      BY <1>5, Held DEF EnableWrite, SetMachineActive, At, ReqOK
    <2>2. IntoService(req[w].machine)
      BY <1>5 DEF IntoService
    <2>3. QED
      BY <2>1, <2>2, SetStatusCalm
  <1>6. CASE SweepDisable(w)
    <2>1. PICK m \in req[w].todo : SetStatus(m, "disabled") \/ UNCHANGED storeVars
      BY <1>6 DEF SweepDisable, SetMachineDisabled
    <2>2. m \in Machines
      BY Held DEF Request
    <2>3. QED
      BY <2>1, <2>2, SetStatusCalm, SameRowsCalm DEF storeVars
  <1>7. CASE SaveEndpoint(w)
    BY <1>7, SameRowsCalm DEF SaveEndpoint, UpdateEndpoint
  <1>8. CASE AssignMachine(w)
    <2>1. req[w].machine \in Machines
      BY <1>8, Held DEF AssignMachine, At, ReqOK
    <2>2. \E s \in {machine[req[w].machine].status, "active"} :
             Assign(req[w].machine, req[w].addr, req[w].eps, s)
      BY <1>8 DEF AssignMachine, ApproveMachine, SetMachineAssignment
    <2>3. IntoService(req[w].machine)
      BY <1>8 DEF IntoService
    <2>4. QED
      BY <2>1, <2>2, <2>3, AssignCalm
  <1>9. CASE UNCHANGED machine
    BY <1>9, SameRowsCalm
  <1>10. QED
    BY <1>1, <1>2, <1>3, <1>4, <1>5, <1>6, <1>7, <1>8, <1>9
    DEF RequestStep, storeVars, AddMachine, Enroll, EnrollAddressFailed, AdminCreate,
        UpdateMachine, Peer, AdoptLookup, LinkLookup, LinkEndpoints, ReadEndpoint, PickAddress,
        DisableMachine, EnableMachine, EnableLinks, Sweep, EditEndpoint, Refuse

(* And so are the handlers of one store call, but the owner's edit. *)
LEMMA SingleStepCalm ==
  ASSUME StoreInv, SingleStep
  PROVE  AllCalm \/ EditMachine
  <1>1. CASE DeleteMachineRow
    BY <1>1, DeleteMachinesCalm DEF DeleteMachineRow, DeleteMachine
  <1>2. CASE ExpirePending
    BY <1>2, DeleteMachinesCalm DEF ExpirePending, DeleteExpiredPending
  <1>3. CASE UNCHANGED machine
    BY <1>3, SameRowsCalm
  <1>4. QED
    BY <1>1, <1>2, <1>3
    DEF SingleStep, EndpointCreate, CreateEndpoint, EndpointDelete, DeleteEndpoint, Tick

(* The steps of the roster, by what they do to the machine table. *)
LEMMA NextCases ==
  ASSUME StoreInv, ReqsOK, Next
  PROVE  \/ AllCalm
         \/ \E w \in Workers : Create(w) \/ Identity(w)
         \/ EditMachine
  <1>1. ASSUME NEW w \in Workers, RequestStep(w) \/ AssignMachine(w) PROVE AllCalm
    BY <1>1, RequestStepCalm
  <1>2. ASSUME SingleStep PROVE AllCalm \/ EditMachine
    BY <1>2, SingleStepCalm
  <1>3. QED
    BY <1>1, <1>2 DEF Next

-----------------------------------------------------------------------------
(***************************************************************************)
(* Keys and the pending window.                                            *)
(***************************************************************************)

(* What the owner's edit does to the row: a new key queues the machine.    *)
LEMMA EditRows ==
  ASSUME StoreInv, NEW m \in Machines, NEW k \in Keys, UpdateOwnMachine(m, k)
  PROVE  /\ Exists(m) /\ \A n \in Machines \ {m} : machine'[n] = machine[n]
         /\ machine'[m].owner = machine[m].owner
         /\ \/ /\ machine'[m].status = machine[m].status
               /\ machine'[m].since = machine[m].since
               /\ machine[m].status # "pending" => machine'[m].key = machine[m].key
            \/ /\ machine'[m].status = "pending" /\ machine[m].status # "pending"
               /\ machine'[m].since = now
  <1> DEFINE requeued == k # machine[m].key /\ machine[m].status # "pending"
             s == IF requeued THEN "pending" ELSE machine[m].status
             t == IF requeued THEN now ELSE machine[m].since
             r == [machine[m] EXCEPT !.key = k, !.status = s, !.since = t]
  <1>1. Exists(m) /\ machine' = [machine EXCEPT ![m] = r]
    BY DEF UpdateOwnMachine
  <1>2. machine[m] \in LiveRow
    BY <1>1, ExistingRow
  <1>3. r.key = k /\ r.owner = machine[m].owner /\ r.status = s /\ r.since = t
    BY <1>2 DEF LiveRow
  <1>4. /\ machine'[m] = r /\ \A n \in Machines \ {m} : machine'[n] = machine[n]
    BY <1>1 DEF StoreInv, StoreTypeOK
  <1> HIDE DEF r
  <1>5. QED
    BY <1>1, <1>3, <1>4

(* What the update form's first write does: the key, of one row.           *)
LEMMA IdentityRows ==
  ASSUME StoreInv, NEW m \in Machines, NEW k \in Keys, UpdateMachineIdentity(m, k)
  PROVE  /\ \A n \in Machines \ {m} : machine'[n] = machine[n]
         /\ Exists(m) => machine'[m].key = k
         /\ ~Exists(m) => machine'[m] = machine[m]
         /\ machine'[m].owner = machine[m].owner
         /\ machine'[m].status = machine[m].status
         /\ machine'[m].since = machine[m].since
         /\ machine'[m].addr = machine[m].addr
  <1>1. CASE ~Exists(m)
    BY <1>1 DEF UpdateMachineIdentity
  <1>2. CASE Exists(m)
    <2> DEFINE r == [machine[m] EXCEPT !.key = k]
    <2>1. machine' = [machine EXCEPT ![m] = r]
      BY <1>2 DEF UpdateMachineIdentity
    <2>2. /\ r.key = k /\ r.owner = machine[m].owner /\ r.status = machine[m].status
          /\ r.since = machine[m].since /\ r.addr = machine[m].addr
      BY <1>2, ExistingRow DEF LiveRow
    <2>3. machine'[m] = r /\ \A n \in Machines \ {m} : machine'[n] = machine[n]
      BY <2>1 DEF StoreInv, StoreTypeOK
    <2> HIDE DEF r
    <2>4. QED
      BY <1>2, <2>2, <2>3
  <1>3. QED
    BY <1>1, <1>2

(* A created row is pending, and no other row changes. *)
LEMMA CreateRows ==
  ASSUME StoreInv, NEW m \in Machines, NEW u \in Owners, NEW k \in Keys,
         CreateMachine(m, u, k)
  PROVE  /\ machine[m].status = "none" /\ machine'[m].status = "pending"
         /\ machine'[m].owner = u /\ machine'[m].key = k /\ machine'[m].since = now
         /\ machine'[m].addr = NoAddr
         /\ \A n \in Machines \ {m} : machine'[n] = machine[n]
  BY DEF CreateMachine, StoreInv, StoreTypeOK

-----------------------------------------------------------------------------
(* A machine in service only changes key by the hand of the administrator  *)
(* whose update form carries the new key, whatever requests interleave.    *)
THEOREM KeysLeaveService == Spec => KeyChangeLeavesService
  <1> DEFINE Served == \A m \in Machines :
                 /\ machine[m].status = "active" /\ machine'[m].status = "active"
                 /\ machine'[m].key # machine[m].key
                 => \E w \in Workers : /\ req[w].op = "update" /\ req[w].machine = m
                                       /\ req[w].key = machine'[m].key
  <1>1. ASSUME RosterInv, [Next]_vars PROVE Served
    <2> SUFFICES ASSUME NEW m \in Machines,
                        machine[m].status = "active", machine'[m].status = "active",
                        machine'[m].key # machine[m].key
                 PROVE  \E w \in Workers : /\ req[w].op = "update" /\ req[w].machine = m
                                           /\ req[w].key = machine'[m].key
      OBVIOUS
    <2>1. StoreInv /\ ReqsOK
      BY <1>1, InvParts
    <2>2. ~Calm(m)
      BY DEF Calm
    <2>3. \/ \E w \in Workers : Create(w) \/ Identity(w)
          \/ EditMachine
      BY <1>1, <2>1, <2>2, NextCases DEF vars, storeVars, AllCalm, Calm
    <2>4. CASE EditMachine
      <3>1. PICK n \in Machines, k \in Keys : UpdateOwnMachine(n, k)
        BY <2>4 DEF EditMachine
      <3>2. QED
        BY <2>1, <3>1, EditRows
    <2>5. ASSUME NEW w \in Workers, Create(w) PROVE FALSE
      <3>1. PICK n \in Machines : CreateMachine(n, req[w].owner, req[w].key)
        BY <2>5 DEF Create
      <3>2. req[w].owner \in Owners /\ req[w].key \in Keys
        BY <2>1, <2>5, Held DEF Create, At, ReqOK
      <3>3. QED
        BY <2>1, <3>1, <3>2, CreateRows
    <2>6. ASSUME NEW w \in Workers, Identity(w)
          PROVE  req[w].op = "update" /\ req[w].machine = m /\ req[w].key = machine'[m].key
      <3>1. /\ req[w].op = "update" /\ req[w].machine \in Machines /\ req[w].key \in Keys
            /\ UpdateMachineIdentity(req[w].machine, req[w].key)
        BY <2>1, <2>6, Held DEF Identity, At, ReqOK
      <3>2. QED
        BY <2>1, <3>1, IdentityRows
    <2>7. QED
      BY <2>3, <2>4, <2>5, <2>6
  <1>2. RosterInv /\ [Next]_vars => [Served]_vars
    BY <1>1
  <1>3. QED
    BY <1>2, Invariance, PTL DEF Spec, KeyChangeLeavesService

-----------------------------------------------------------------------------
(* The time a pending machine entered the queue is the one its row has:    *)
(* expiry reads the latter, a full window is promised from the former.     *)
QueueClock ==
    \A m \in Machines : machine[m].status = "pending" => queuedAt[m] = machine[m].since

(* Every step keeps the clock of the queue. *)
LEMMA QueueClockStep ==
  ASSUME RosterInv, QueueClock, [Next]_vars
  PROVE  QueueClock'
  <1>1. StoreInv /\ ReqsOK
    BY InvParts
  <1>2. CASE UNCHANGED vars
    BY <1>2 DEF vars, storeVars, history, QueueClock
  <1>3. CASE Next
    <2> SUFFICES ASSUME NEW m \in Machines, machine'[m].status = "pending"
                 PROVE  queuedAt'[m] = machine'[m].since
      BY DEF QueueClock
    <2>1. PICK S, R : Observe(S, R)
      BY <1>3 DEF Next, Create, Identity, AssignMachine
    <2>2. queuedAt'[m] = IF machine[m].status = "pending" THEN queuedAt[m] ELSE now
      BY <2>1 DEF Observe
    <2>3. SUFFICES \/ machine[m].status = "pending" /\ machine'[m].since = machine[m].since
                   \/ machine[m].status # "pending" /\ machine'[m].since = now
      BY <2>2 DEF QueueClock
    <2>4. CASE AllCalm
      BY <2>4 DEF AllCalm, Calm
    <2>5. CASE EditMachine
      <3>1. PICK n \in Machines, k \in Keys : UpdateOwnMachine(n, k)
        BY <2>5 DEF EditMachine
      <3>2. QED
        BY <1>1, <3>1, EditRows
    <2>6. ASSUME NEW w \in Workers, Create(w)
          PROVE  \/ machine[m].status = "pending" /\ machine'[m].since = machine[m].since
                 \/ machine[m].status # "pending" /\ machine'[m].since = now
      <3>1. PICK n \in Machines : CreateMachine(n, req[w].owner, req[w].key)
        BY <2>6 DEF Create
      <3>2. req[w].owner \in Owners /\ req[w].key \in Keys
        BY <1>1, <2>6, Held DEF Create, At, ReqOK
      <3>3. QED
        BY <1>1, <3>1, <3>2, CreateRows
    <2>7. ASSUME NEW w \in Workers, Identity(w)
          PROVE  machine[m].status = "pending" /\ machine'[m].since = machine[m].since
      <3>1. /\ req[w].machine \in Machines /\ req[w].key \in Keys
            /\ UpdateMachineIdentity(req[w].machine, req[w].key)
        BY <1>1, <2>7, Held DEF Identity, At, ReqOK
      <3>2. QED
        BY <1>1, <3>1, IdentityRows
    <2>8. QED
      BY <1>1, <1>3, <2>4, <2>5, <2>6, <2>7, NextCases
  <1>4. QED
    BY <1>2, <1>3

(* Pending expiry only deletes a machine that stayed in the review queue   *)
(* for a full retention period since it last entered it, whatever requests *)
(* run beside it.                                                          *)
THEOREM ExpiryKeepsItsWindow == Spec => ExpiryGivesFullWindow
  <1> DEFINE Windowed == ExpirePending => \A m \in Machines :
                Exists(m) /\ machine'[m].status = "deleted" =>
                    /\ machine[m].status = "pending"
                    /\ now - queuedAt[m] > Retention
  <1>1. Init => QueueClock
    BY DEF Init, StoreInit, NoRow, QueueClock
  <1>2. ASSUME RosterInv, QueueClock PROVE Windowed
    <2> SUFFICES ASSUME ExpirePending, NEW m \in Machines, Exists(m),
                        machine'[m].status = "deleted"
                 PROVE  machine[m].status = "pending" /\ now - queuedAt[m] > Retention
      OBVIOUS
    <2>1. machine[m] \in LiveRow /\ now \in Nat
      BY <1>2, InvParts, ExistingRow DEF StoreInv, StoreTypeOK
    <2>2. machine[m].status = "pending" /\ machine[m].since < now - Retention
      BY DEF ExpirePending, DeleteExpiredPending, DeleteMachines, Exists, Statuses
    <2>3. queuedAt[m] = machine[m].since /\ machine[m].since \in Nat
      BY <1>2, <2>1, <2>2 DEF QueueClock, LiveRow
    <2>4. QED
      BY <2>1, <2>2, <2>3, RosterAssumption
  <1>3. RosterInv /\ QueueClock /\ [Next]_vars => QueueClock' /\ [Windowed]_vars
    BY <1>2, QueueClockStep
  <1>4. QED
    BY <1>1, <1>3, Invariance, PTL DEF Spec, ExpiryGivesFullWindow

-----------------------------------------------------------------------------
(***************************************************************************)
(* The cap on pending machines, and by how much racing requests exceed it. *)
(***************************************************************************)

(* Requests that passed the cap for owner u and have still to insert.      *)
Coming(r, u) == r.op \in {"add", "enroll"} /\ r.owner = u /\ r.pc \in {"used", "create"}

(* They, as a set of workers. *)
ComingFor(u) == {w \in Workers : Coming(req[w], u)}

(* The machines the owner submitted and still has in the queue. *)
Queued(u) == {m \in submitted : machine[m].owner = u}

(* Rows ever inserted are finitely many, submitted ones are pending, and   *)
(* an owner's submitted machines and the requests still to insert one      *)
(* exceed the cap by less than the number of requests there can be.        *)
QueueInv ==
    /\ IsFiniteSet({m \in Machines : machine[m].status # "none"})
    /\ \A m \in submitted : m \in Machines /\ machine[m].status = "pending"
    /\ MaxPendingPerUser > 0 => \A u \in Owners :
          Cardinality(Queued(u)) + Cardinality(ComingFor(u))
              < MaxPendingPerUser + Cardinality(Workers)

(* Steps after which a request has inserted, or has not passed the cap.    *)
LEMMA LeavesComing ==
  ASSUME ReqsOK, NEW w \in Workers, RequestStep(w) \/ Identity(w) \/ AssignMachine(w)
  PROVE  \/ AddMachine(w) \/ Enroll(w) \/ PickAddress(w)
         \/ \A u \in Owners : ~Coming(req'[w], u)
  <1> DEFINE q == req[w]
  <1>1. q \in Request /\ ReqOK(q) /\ req \in [Workers -> Request]
    BY Held DEF ReqsOK
  <1>2. CASE Done(w)
    BY <1>1, <1>2 DEF Done, Idle, Coming
  <1>3. ASSUME NEW r, Start(w, r), r.op \notin {"add", "enroll"}
        PROVE  \A u \in Owners : ~Coming(req'[w], u)
    BY <1>1, <1>3 DEF Start, Coming
  <1>4. CASE AdminCreate(w)
    <2>1. PICK u \in Owners, k \in Keys, E \in FormEndpoints :
            Start(w, Compare([Idle EXCEPT !.op = "create", !.owner = u,
                                          !.key = k, !.eps = E], FormGroups(E)))
      BY <1>4 DEF AdminCreate
    <2>2. Compare([Idle EXCEPT !.op = "create", !.owner = u, !.key = k, !.eps = E],
                  FormGroups(E)).op = "create"
      BY DEF Compare, Idle
    <2>3. QED
      BY <1>3, <2>1, <2>2
  <1>13. CASE UpdateMachine(w)
    <2> DEFINE r(m, k, E) == [Idle EXCEPT !.op = "update", !.machine = m, !.key = k, !.eps = E,
                                  !.status = machine[m].status, !.addr = machine[m].addr]
    <2>1. PICK m \in Machines, k \in Keys, E \in FormEndpoints :
            Start(w, Compare(r(m, k, E), FormGroups(E)))
      BY <1>13 DEF UpdateMachine
    <2>2. Compare(r(m, k, E), FormGroups(E)).op = "update"
      BY DEF Compare, Idle
    <2>3. QED
      BY <1>3, <2>1, <2>2
  <1>14. CASE EditEndpoint(w)
    <2> DEFINE groups(e) == {G \in {links[m] : m \in Machines} : e \in G /\ Several(G)}
               r(e, n) == [Idle EXCEPT !.op = "endpoint", !.eps = {e}, !.nets = n]
    <2>1. PICK e \in Endpoints, n \in AllowedLists : Start(w, Compare(r(e, n), groups(e)))
      BY <1>14 DEF EditEndpoint
    <2>2. Compare(r(e, n), groups(e)).op = "endpoint"
      BY DEF Compare, Idle
    <2>3. QED
      BY <1>3, <2>1, <2>2
  <1>5. CASE Peer(w)
    <2>1. PICK op \in {"adopt", "link"}, e \in Endpoints, k \in Keys :
            Start(w, [Idle EXCEPT !.op = op, !.pc = "lookup", !.key = k, !.eps = {e}])
      BY <1>5 DEF Peer
    <2>2. [Idle EXCEPT !.op = op, !.pc = "lookup", !.key = k, !.eps = {e}].op = op
      BY DEF Idle
    <2>3. QED
      BY <1>3, <2>1, <2>2
  <1>15. CASE DisableMachine(w) \/ EnableMachine(w)
    <2>1. PICK m \in Machines :
            \/ Start(w, [Idle EXCEPT !.op = "disable", !.pc = "disable", !.machine = m])
            \/ Start(w, [Idle EXCEPT !.op = "enable", !.pc = "links", !.machine = m,
                                     !.key = machine[m].key, !.addr = machine[m].addr])
      BY <1>15 DEF DisableMachine, EnableMachine
    <2>2. /\ [Idle EXCEPT !.op = "disable", !.pc = "disable", !.machine = m].op = "disable"
          /\ [Idle EXCEPT !.op = "enable", !.pc = "links", !.machine = m,
                          !.key = machine[m].key, !.addr = machine[m].addr].op = "enable"
      BY DEF Idle
    <2>3. QED
      BY <1>3, <2>1, <2>2
  <1>16. CASE Sweep(w)
    <2>1. PICK M : Start(w, [Idle EXCEPT !.op = "sweep", !.pc = "sweep", !.todo = M])
      BY <1>16 DEF Sweep
    <2>2. [Idle EXCEPT !.op = "sweep", !.pc = "sweep", !.todo = M].op = "sweep"
      BY DEF Idle
    <2>3. QED
      BY <1>3, <2>1, <2>2
  <1>11. CASE AdoptLookup(w)
    <2>1. req'[w].op = q.op /\ q.op = "adopt"
      BY <1>1, <1>11 DEF AdoptLookup, Request
    <2>2. QED
      BY <2>1 DEF Coming
  <1>12. CASE LinkLookup(w)
    <2>1. req'[w].op = q.op /\ q.op = "link"
      BY <1>1, <1>12 DEF LinkLookup, Request
    <2>2. QED
      BY <2>1 DEF Coming
  <1>6. CASE LinkEndpoints(w)
    <2>1. req'[w].op = q.op /\ q.op = "link"
      BY <1>1, <1>6 DEF LinkEndpoints, Compare, Request
    <2>2. QED
      BY <2>1 DEF Coming
  <1>7. CASE ReadEndpoint(w)
    <2>1. \E c : req' = [req EXCEPT ![w] = c] /\ c.op = q.op
      <3>1. PICK G, e, nets :
              \/ req' = [req EXCEPT ![w] = Compare([q EXCEPT !.seen = {}, !.covered = {}],
                                                   q.groups \ {G})]
              \/ req' = [req EXCEPT ![w] = [q EXCEPT !.seen = @ \cup {e},
                                                     !.covered = @ \cup nets]]
        BY <1>1, <1>7 DEF ReadEndpoint
      <3>2. Compare([q EXCEPT !.seen = {}, !.covered = {}], q.groups \ {G}).op = q.op
        BY <1>1 DEF Compare, Request
      <3>3. [q EXCEPT !.seen = @ \cup {e}, !.covered = @ \cup nets].op = q.op
        BY <1>1 DEF Request
      <3>4. QED
        BY <3>1, <3>2, <3>3
    <2>2. q.op \notin {"add", "enroll"}
      BY <1>1, <1>7 DEF ReadEndpoint, At, ReqOK
    <2>3. QED
      BY <1>1, <2>1, <2>2 DEF Coming
  <1>8. CASE EnrollAddress(w) \/ EnrollAddressFailed(w) \/ EnableLinks(w) \/ Identity(w)
    BY <1>1, <1>8 DEF EnrollAddress, EnrollAddressFailed, EnableLinks, Identity, Goto, Request, Coming
  <1>9. CASE SweepDisable(w)
    <2>1. Done(w) \/ (req'[w].pc = q.pc /\ q.pc = "sweep")
      BY <1>1, <1>9 DEF SweepDisable, At, Request
    <2>2. QED
      BY <1>2, <2>1 DEF Coming
  <1>10. QED
    BY <1>2, <1>4, <1>5, <1>6, <1>7, <1>8, <1>9, <1>11, <1>12,
       <1>13, <1>14, <1>15, <1>16
    DEF RequestStep, EnrollCleanup, EnrollLink, DisableWrite, EnableWrite, SaveEndpoint,
        Refuse, AssignMachine

(* Only the worker that takes a step changes its request. *)
LEMMA OthersKept ==
  ASSUME ReqsOK, NEW w \in Workers, NEW v \in Workers \ {w},
         RequestStep(w) \/ Identity(w) \/ AssignMachine(w) \/ Create(w)
  PROVE  req'[v] = req[v]
  <1>1. PICK r : req' = [req EXCEPT ![w] = r]
    <2>1. req \in [Workers -> Request]
      BY DEF ReqsOK
    <2>2. CASE Done(w)
      BY <2>2 DEF Done
    <2>3. CASE AddMachine(w) \/ Enroll(w) \/ AdminCreate(w) \/ UpdateMachine(w) \/ EditEndpoint(w)
               \/ Peer(w) \/ DisableMachine(w) \/ EnableMachine(w) \/ Sweep(w)
      BY <2>3 DEF AddMachine, Enroll, AdminCreate, UpdateMachine, EditEndpoint, Peer,
                  DisableMachine, EnableMachine, Sweep, Start
    <2>4. CASE AdoptLookup(w) \/ LinkLookup(w) \/ LinkEndpoints(w) \/ ReadEndpoint(w)
      BY <2>1, <2>4 DEF AdoptLookup, LinkLookup, LinkEndpoints, ReadEndpoint
    <2>5. CASE PickAddress(w) \/ SweepDisable(w) \/ Create(w)
      BY <2>1, <2>5 DEF PickAddress, SweepDisable, Create, Done
    <2>6. CASE EnrollAddress(w) \/ EnrollAddressFailed(w) \/ EnableLinks(w) \/ Identity(w)
      BY <2>1, <2>6 DEF EnrollAddress, EnrollAddressFailed, EnableLinks, Identity, Goto
    <2>7. QED
      BY <2>2, <2>3, <2>4, <2>5, <2>6
      DEF RequestStep, EnrollCleanup, EnrollLink, DisableWrite, EnableWrite, SaveEndpoint,
          Refuse, AssignMachine
  <1>2. QED
    BY <1>1 DEF ReqsOK

(* Passing the cap, whoever else did meanwhile. *)
LEMMA ComingStep ==
  ASSUME ReqsOK, NEW w \in Workers, RequestStep(w) \/ Identity(w) \/ AssignMachine(w),
         NEW u \in Owners, MaxPendingPerUser > 0
  PROVE  ComingFor(u)' \subseteq ComingFor(u) \/ CountPendingByOwner(u) < MaxPendingPerUser
  <1>1. req \in [Workers -> Request] /\ req[w] \in Request /\ ReqOK(req[w])
    BY Held DEF ReqsOK
  <1>2. ASSUME \A v \in Owners : ~Coming(req'[w], v)
        PROVE  ComingFor(u)' \subseteq ComingFor(u)
    BY <1>2, OthersKept DEF ComingFor
  <1>3. ASSUME Coming(req'[w], u) => Coming(req[w], u)
        PROVE  ComingFor(u)' \subseteq ComingFor(u)
    BY <1>3, OthersKept DEF ComingFor
  <1>4. CASE AddMachine(w)
    <2>1. PICK v \in Owners, k \in Keys :
            /\ BelowCap(v)
            /\ Start(w, [Idle EXCEPT !.op = "add", !.pc = "create", !.owner = v, !.key = k])
      BY <1>4 DEF AddMachine
    <2>2. req'[w].owner = v
      BY <1>1, <2>1 DEF Start, Idle
    <2>3. QED
      BY <1>3, <2>1, <2>2 DEF Coming, BelowCap
  <1>5. CASE Enroll(w)
    <2>1. PICK v \in Owners, k \in Keys, e \in Endpoints :
            /\ BelowCap(v)
            /\ Start(w, [Idle EXCEPT !.op = "enroll", !.pc = "used", !.owner = v,
                                     !.key = k, !.eps = {e}])
      BY <1>5 DEF Enroll
    <2>2. req'[w].owner = v
      BY <1>1, <2>1 DEF Start, Idle
    <2>3. QED
      BY <1>3, <2>1, <2>2 DEF Coming, BelowCap
  <1>6. CASE PickAddress(w)
    <2>1. /\ req'[w].op = req[w].op /\ req'[w].owner = req[w].owner
          /\ req[w].pc = "used"
      BY <1>1, <1>6 DEF PickAddress, At, Request
    <2>2. QED
      BY <1>3, <2>1 DEF Coming
  <1>7. QED
    BY <1>2, <1>4, <1>5, <1>6, LeavesComing

(* Every step keeps it: a calm one queues nobody, an insertion turns a     *)
(* coming request into a queued machine.                                   *)
LEMMA QueueStep ==
  ASSUME RosterInv, QueueInv, [Next]_vars
  PROVE  QueueInv'
  <1> DEFINE Rows == {m \in Machines : machine[m].status # "none"}
  <1>1. StoreInv /\ ReqsOK /\ HistoryOK
    BY InvParts
  <1>2. CASE UNCHANGED vars
    BY <1>2 DEF vars, storeVars, history, QueueInv, Queued, ComingFor
  <1>3. ASSUME NEW Q, NEW P, IsFiniteSet(P), Q \subseteq P
        PROVE  IsFiniteSet(Q) /\ Cardinality(Q) \in Nat /\ Cardinality(P) \in Nat
               /\ Cardinality(Q) <= Cardinality(P)
    BY <1>3, FS_Subset, FS_CardinalityType
  <1>4. ASSUME NEW u \in Owners
        PROVE  /\ IsFiniteSet(Queued(u)) /\ Cardinality(Queued(u)) \in Nat
               /\ IsFiniteSet(ComingFor(u)) /\ Cardinality(ComingFor(u)) \in Nat
               /\ Cardinality(ComingFor(u)) <= Cardinality(Workers)
               /\ Cardinality(Workers) \in Nat
               /\ CountPendingByOwner(u) \in Nat
               /\ Cardinality(Queued(u)) <= CountPendingByOwner(u)
    <2>1. {m \in Machines : machine[m].owner = u /\ machine[m].status = "pending"} \subseteq Rows
      OBVIOUS
    <2>2. Queued(u) \subseteq {m \in Machines : machine[m].owner = u /\ machine[m].status = "pending"}
      BY DEF Queued, QueueInv
    <2>3. ComingFor(u) \subseteq Workers
      BY DEF ComingFor
    <2>4. IsFiniteSet(Rows) /\ IsFiniteSet(Workers)
      BY RosterAssumption DEF QueueInv
    <2> HIDE DEF Rows
    <2>5. QED
      BY <1>3, <2>1, <2>2, <2>3, <2>4 DEF CountPendingByOwner
  <1>5. ASSUME \A n \in Machines : machine'[n].status # "none" => machine[n].status # "none",
               \A m \in submitted' : m \in submitted /\ machine'[m].status = "pending"
                                     /\ machine'[m].owner = machine[m].owner,
               \/ UNCHANGED req
               \/ \E w \in Workers : RequestStep(w) \/ Identity(w) \/ AssignMachine(w)
        PROVE  QueueInv'
    <2>1. IsFiniteSet(Rows')
      <3>1. Rows' \subseteq Rows
        BY <1>5
      <3>2. IsFiniteSet(Rows)
        BY DEF QueueInv
      <3> HIDE DEF Rows
      <3>3. QED
        BY <1>3, <3>1, <3>2
    <2>2. ASSUME NEW u \in Owners, MaxPendingPerUser > 0
          PROVE  Cardinality(Queued(u)') + Cardinality(ComingFor(u)')
                     < MaxPendingPerUser + Cardinality(Workers)
      <3>1. Queued(u)' \subseteq Queued(u)
        BY <1>5 DEF Queued
      <3>2. /\ Cardinality(Queued(u)') \in Nat
            /\ Cardinality(Queued(u)') <= Cardinality(Queued(u))
        BY <1>3, <1>4, <3>1
      <3>3. MaxPendingPerUser \in Nat
        BY RosterAssumption
      <3>4. CASE ComingFor(u)' \subseteq ComingFor(u)
        <4>1. /\ Cardinality(ComingFor(u)') \in Nat
              /\ Cardinality(ComingFor(u)') <= Cardinality(ComingFor(u))
          BY <1>3, <1>4, <3>4
        <4>2. Cardinality(Queued(u)) + Cardinality(ComingFor(u))
                 < MaxPendingPerUser + Cardinality(Workers)
          BY <2>2 DEF QueueInv
        <4>3. QED
          BY <1>4, <3>2, <3>3, <4>1, <4>2
      <3>5. CASE CountPendingByOwner(u) < MaxPendingPerUser
        <4>1. ComingFor(u)' \subseteq Workers
          BY DEF ComingFor
        <4>2. /\ Cardinality(ComingFor(u)') \in Nat
              /\ Cardinality(ComingFor(u)') <= Cardinality(Workers)
          BY <1>3, <4>1, RosterAssumption
        <4>3. QED
          BY <1>4, <3>2, <3>3, <3>5, <4>2
      <3>6. CASE UNCHANGED req
        <4>1. ComingFor(u)' \subseteq ComingFor(u)
          BY <3>6 DEF ComingFor
        <4>2. QED
          BY <3>4, <4>1
      <3>7. QED
        BY <1>1, <1>5, <2>2, <3>4, <3>5, <3>6, ComingStep
    <2>3. \A m \in submitted' : m \in Machines
      BY <1>1, <1>5 DEF HistoryOK
    <2>4. QED
      BY <1>5, <2>1, <2>2, <2>3 DEF QueueInv
  <1>6. ASSUME NEW w \in Workers, Create(w)
        PROVE  QueueInv'
    <2> DEFINE r == req[w]
    <2>1. PICK m \in Machines :
            /\ CreateMachine(m, r.owner, r.key)
            /\ Observe(IF r.op \in {"add", "enroll"} THEN {m} ELSE {}, {})
      BY <1>6 DEF Create
    <2>2. /\ r.op \in {"add", "enroll", "create", "adopt"} /\ r.pc = "create"
          /\ r.owner \in Owners /\ r.key \in Keys /\ r \in Request
      BY <1>1, <1>6, Held DEF Create, At, ReqOK
    <2>3. /\ machine[m].status = "none" /\ machine'[m].status = "pending"
          /\ machine'[m].owner = r.owner
          /\ \A n \in Machines \ {m} : machine'[n] = machine[n]
      BY <1>1, <2>1, <2>2, CreateRows
    <2>4. IsFiniteSet(Rows')
      <3>1. Rows' \subseteq Rows \cup {m}
        BY <2>3
      <3>2. IsFiniteSet(Rows \cup {m})
        BY FS_AddElement DEF QueueInv
      <3> HIDE DEF Rows
      <3>3. QED
        BY <1>3, <3>1, <3>2
    <2>5. m \notin submitted
      BY <2>3 DEF QueueInv
    <2>6. submitted' \subseteq submitted \cup (IF r.op \in {"add", "enroll"} THEN {m} ELSE {})
      BY <2>1 DEF Observe
    <2>7. \A n \in submitted' : n \in Machines /\ machine'[n].status = "pending"
      BY <1>1, <2>1, <2>6 DEF Observe, HistoryOK
    <2>8. req \in [Workers -> Request] /\ \A v \in Workers \ {w} : req'[v] = req[v]
      BY <1>1, <1>6, OthersKept DEF ReqsOK
    <2>9. \A u \in Owners : ~Coming(req'[w], u)
      <3>1. CASE Done(w)
        BY <2>8, <3>1 DEF Done, Idle, Coming
      <3>2. CASE req' = [req EXCEPT ![w].pc = "address", ![w].machine = m]
                 \/ req' = [req EXCEPT ![w].pc = "assign", ![w].machine = m]
        BY <2>2, <2>8, <3>2 DEF Coming, Request
      <3>3. \E n : \/ Done(w)
                   \/ req' = [req EXCEPT ![w].pc = "address", ![w].machine = n]
                   \/ req' = [req EXCEPT ![w].pc = "assign", ![w].machine = n]
        BY <1>6 DEF Create
      <3>4. QED
        BY <2>2, <2>8, <3>1, <3>3 DEF Coming, Request
    <2>10. ASSUME NEW u \in Owners, MaxPendingPerUser > 0
           PROVE  Cardinality(Queued(u)') + Cardinality(ComingFor(u)')
                     < MaxPendingPerUser + Cardinality(Workers)
      <3>1. Cardinality(Queued(u)) + Cardinality(ComingFor(u))
               < MaxPendingPerUser + Cardinality(Workers)
        BY <2>10 DEF QueueInv
      <3>2. ComingFor(u)' \subseteq ComingFor(u) \ {w}
        BY <2>8, <2>9 DEF ComingFor
      <3>3. MaxPendingPerUser \in Nat
        BY RosterAssumption
      <3>4. CASE r.op \in {"add", "enroll"} /\ r.owner = u
        <4>1. w \in ComingFor(u)
          BY <2>2, <3>4 DEF ComingFor, Coming
        <4>2. /\ IsFiniteSet(ComingFor(u) \ {w})
              /\ Cardinality(ComingFor(u) \ {w}) = Cardinality(ComingFor(u)) - 1
          BY <1>4, <4>1, FS_RemoveElement
        <4>3. /\ Cardinality(ComingFor(u)') \in Nat
              /\ Cardinality(ComingFor(u)') <= Cardinality(ComingFor(u)) - 1
          BY <1>3, <3>2, <4>2
        <4>4. Queued(u)' \subseteq Queued(u) \cup {m}
          BY <2>3, <2>6, <2>7 DEF Queued
        <4>5. /\ IsFiniteSet(Queued(u) \cup {m})
              /\ Cardinality(Queued(u) \cup {m}) <= Cardinality(Queued(u)) + 1
          <5>1. IsFiniteSet(Queued(u)) /\ Cardinality(Queued(u)) \in Nat
            BY <1>4
          <5>2. QED
            BY <5>1, FS_AddElement
        <4>6. /\ Cardinality(Queued(u)') \in Nat
              /\ Cardinality(Queued(u)') <= Cardinality(Queued(u)) + 1
          <5>1. /\ Cardinality(Queued(u)') \in Nat /\ Cardinality(Queued(u) \cup {m}) \in Nat
                /\ Cardinality(Queued(u)') <= Cardinality(Queued(u) \cup {m})
            BY <1>3, <4>4, <4>5
          <5>2. QED
            BY <1>4, <4>5, <5>1
        <4>7. QED
          BY <1>4, <3>1, <3>3, <4>3, <4>6
      <3>5. CASE ~(r.op \in {"add", "enroll"} /\ r.owner = u)
        <4>1. Queued(u)' \subseteq Queued(u)
          <5>1. SUFFICES ASSUME NEW n \in submitted', machine'[n].owner = u
                         PROVE  n \in submitted /\ machine[n].owner = u
            BY DEF Queued
          <5>2. CASE n = m
            BY <2>3, <2>5, <2>6, <3>5, <5>1, <5>2
          <5>3. CASE n # m
            BY <2>3, <2>6, <2>7, <5>1, <5>3
          <5>4. QED
            BY <5>2, <5>3
        <4>2. /\ Cardinality(Queued(u)') \in Nat /\ Cardinality(ComingFor(u)') \in Nat
              /\ Cardinality(Queued(u)') <= Cardinality(Queued(u))
              /\ Cardinality(ComingFor(u)') <= Cardinality(ComingFor(u))
          BY <1>3, <1>4, <3>2, <4>1
        <4>3. QED
          BY <1>4, <3>1, <3>3, <4>2
      <3>6. QED
        BY <3>4, <3>5
    <2>11. QED
      BY <2>4, <2>7, <2>10 DEF QueueInv
  <1>7. ASSUME NEW R, Observe({}, R),
               \/ UNCHANGED req
               \/ \E w \in Workers : RequestStep(w) \/ Identity(w) \/ AssignMachine(w),
               \A n \in Machines :
                  \/ machine'[n] = machine[n]
                  \/ machine[n].status # "none" /\ machine'[n].status = "deleted"
                  \/ /\ machine'[n].owner = machine[n].owner
                     /\ machine[n].status # "none"
        PROVE  QueueInv'
    <2>1. submitted' \subseteq submitted /\ \A m \in submitted' : machine'[m].status = "pending"
      BY <1>7 DEF Observe
    <2>2. \A n \in Machines : machine'[n].status # "none" => machine[n].status # "none"
      BY <1>7
    <2>3. QED
      BY <1>5, <1>7, <2>1, <2>2 DEF QueueInv
  <1>8. ASSUME AllCalm, NEW n \in Machines
        PROVE  \/ machine'[n] = machine[n]
               \/ machine[n].status # "none" /\ machine'[n].status = "deleted"
               \/ machine'[n].owner = machine[n].owner /\ machine[n].status # "none"
    BY <1>8 DEF AllCalm, Calm, Exists, Statuses
  <1>9. ASSUME NEW w \in Workers, RequestStep(w), Observe({}, {})
        PROVE  QueueInv'
    BY <1>1, <1>7, <1>8, <1>9, RequestStepCalm
  <1>10. ASSUME NEW w \in Workers, AssignMachine(w)
         PROVE  QueueInv'
    <2>1. AllCalm /\ Observe({}, {<<req[w].machine, req[w].key>>})
      BY <1>1, <1>10, RequestStepCalm DEF AssignMachine
    <2>2. QED
      BY <1>7, <1>8, <1>10, <2>1
  <1>11. ASSUME NEW w \in Workers, Identity(w)
         PROVE  QueueInv'
    <2>1. /\ req[w].machine \in Machines /\ req[w].key \in Keys
          /\ UpdateMachineIdentity(req[w].machine, req[w].key)
          /\ Observe({}, {<<req[w].machine, req[w].key>>})
      BY <1>1, <1>11, Held DEF Identity, At, ReqOK
    <2>2. Exists(req[w].machine) => machine[req[w].machine].status # "none"
      BY DEF Exists, Statuses
    <2>3. \A n \in Machines :
             \/ machine'[n] = machine[n]
             \/ machine'[n].owner = machine[n].owner /\ machine[n].status # "none"
      BY <1>1, <2>1, <2>2, IdentityRows
    <2>4. QED
      BY <1>7, <1>11, <2>1, <2>3
  <1>12. CASE SingleStep /\ UNCHANGED req /\ Observe({}, {})
    <2>1. CASE AllCalm
      BY <1>7, <1>8, <1>12, <2>1
    <2>2. CASE EditMachine
      <3>1. PICK m \in Machines, k \in Keys : UpdateOwnMachine(m, k)
        BY <2>2 DEF EditMachine
      <3>2. /\ machine[m].status # "none" /\ machine'[m].owner = machine[m].owner
            /\ \A n \in Machines \ {m} : machine'[n] = machine[n]
        BY <1>1, <3>1, EditRows DEF Exists, Statuses
      <3>3. QED
        BY <1>7, <1>12, <3>2
    <2>3. QED
      BY <1>1, <1>12, <2>1, <2>2, SingleStepCalm
  <1>13. QED
    BY <1>2, <1>6, <1>9, <1>10, <1>11, <1>12 DEF Next

(* Concurrent submissions overshoot the cap on an owner's queue by less    *)
(* than the number of requests that can be in progress.                    *)
THEOREM CapOvershootBounded == Spec => []QueueBound
  <1>1. ASSUME Init PROVE QueueInv
    <2>1. {m \in Machines : machine[m].status # "none"} = {}
      BY <1>1 DEF Init, StoreInit, NoRow
    <2>2. \A u \in Owners : Queued(u) = {} /\ ComingFor(u) = {}
      BY <1>1 DEF Init, Queued, ComingFor, Coming, Idle
    <2>3. Cardinality(Workers) \in Nat /\ MaxPendingPerUser \in Nat
      BY RosterAssumption, FS_CardinalityType
    <2>4. submitted = {}
      BY <1>1 DEF Init
    <2>5. \A u \in Owners : Cardinality(Queued(u)) = 0 /\ Cardinality(ComingFor(u)) = 0
      BY <2>2, FS_EmptySet
    <2>6. IsFiniteSet({m \in Machines : machine[m].status # "none"})
      BY <2>1, FS_EmptySet
    <2>7. QED
      BY <2>3, <2>4, <2>5, <2>6 DEF QueueInv
  <1>2. ASSUME RosterInv, QueueInv PROVE QueueBound
    <2> SUFFICES ASSUME MaxPendingPerUser > 0, NEW u \in Owners
                 PROVE  Cardinality(Queued(u)) < MaxPendingPerUser + Cardinality(Workers)
      BY DEF QueueBound, Queued
    <2>1. /\ IsFiniteSet(Queued(u)) /\ IsFiniteSet(ComingFor(u))
      <3>1. Queued(u) \subseteq {m \in Machines : machine[m].status # "none"}
        BY <1>2 DEF Queued, QueueInv
      <3>2. ComingFor(u) \subseteq Workers
        BY DEF ComingFor
      <3>3. QED
        BY <1>2, <3>1, <3>2, RosterAssumption, FS_Subset DEF QueueInv
    <2>2. /\ Cardinality(Queued(u)) \in Nat /\ Cardinality(ComingFor(u)) \in Nat
          /\ Cardinality(Workers) \in Nat /\ MaxPendingPerUser \in Nat
      BY <2>1, RosterAssumption, FS_CardinalityType
    <2>3. QED
      BY <1>2, <2>2 DEF QueueInv
  <1>3. RosterInv /\ QueueInv /\ [Next]_vars => QueueInv'
    BY QueueStep
  <1>4. QED
    BY <1>1, <1>2, <1>3, Invariance, PTL DEF Spec

-----------------------------------------------------------------------------
(***************************************************************************)
(* One request at a time: what its overlap check and its reads tell it.    *)
(***************************************************************************)

(* The AllowedIPs of endpoint e as request r counts them: none when it is  *)
(* gone, the new list when r is editing it.                                *)
View(r, e) ==
    IF ~LiveEndpoint(e) THEN {}
    ELSE IF r.op = "endpoint" /\ e \in r.eps THEN r.nets ELSE endpoint[e].nets

(* The endpoints of G route no network twice, as r sees them. *)
Apart(r, G) == \A d, e \in G : d # e => View(r, d) \cap View(r, e) = {}

(* What the overlap check of a request has established, when no other      *)
(* request runs: past the check, the endpoints it will link are apart; in  *)
(* the check, those it has read are; and an edit of an endpoint has every  *)
(* machine that combines the endpoint with another checked or still listed.*)
ListsOK(r) ==
    /\ r.pc = "save" => r.op = "endpoint"
    /\ r.pc # "conflict" => r.seen = {} /\ r.covered = {}
    /\ r.op # "endpoint" /\ r.pc # "conflict" => Apart(r, r.eps)
    /\ r.pc = "conflict" =>
         /\ r.op # "endpoint" => r.groups \subseteq {r.eps}
         /\ r.covered = UNION {View(r, e) : e \in r.seen}
         /\ Apart(r, r.seen)
    /\ r.op = "endpoint" =>
         /\ r.pc \in {"conflict", "save"}
         /\ \A d, e \in r.eps : d = e
         /\ \A m \in Machines : r.eps \cap links[m] # {} /\ Several(links[m]) =>
               (r.pc = "conflict" /\ links[m] \in r.groups) \/ Apart(r, links[m])

(* Two requests of the same kind count the lists alike. *)
LEMMA SameView ==
  ASSUME NEW q, NEW r, NEW G, r.op = q.op, r.eps = q.eps, r.nets = q.nets
  PROVE  Apart(r, G) <=> Apart(q, G)
  BY DEF Apart, View

(* The tables the overlap check reads did not change. *)
LEMMA ListsNext ==
  ASSUME UNCHANGED <<links, endpoint>>, NEW w \in Workers, ListsOK(req'[w])
  PROVE  ListsOK(req[w])'
  <1> DEFINE r == req'[w]
  <1>1. \A e : View(req[w], e)' = View(r, e)
    BY DEF View, LiveEndpoint
  <1>2. Apart(req[w], req[w].eps)' <=> Apart(r, r.eps)
    BY <1>1 DEF Apart
  <1>3. Apart(req[w], req[w].seen)' <=> Apart(r, r.seen)
    BY <1>1 DEF Apart
  <1>4. \A m : Apart(req[w], links[m])' <=> Apart(r, links[m])
    BY <1>1 DEF Apart
  <1>5. {View(req[w], e) : e \in req[w].seen}' = {View(r, e) : e \in r.seen}
    BY <1>1
  <1>6. QED
    BY <1>2, <1>3, <1>4, <1>5 DEF ListsOK, Several

(* Without a new link or list there is no new overlap. *)
LEMMA NoOverlapStable ==
  ASSUME UNCHANGED <<links, endpoint>>, NoOverlap
  PROVE  NoOverlap'
  BY DEF NoOverlap

(* A request outside the check that goes on to another call outside it. *)
LEMMA ListsKept ==
  ASSUME NEW q, NEW r, ListsOK(q), q.op # "endpoint", q.pc # "conflict",
         r.pc \notin {"conflict", "save"}, r.op = q.op, r.eps = q.eps, r.nets = q.nets,
         r.seen = q.seen, r.covered = q.covered
  PROVE  ListsOK(r)
  BY SameView DEF ListsOK

(* A request that starts outside the check, with at most one endpoint. *)
LEMMA ListsStart ==
  ASSUME NEW r, r.op # "endpoint", r.pc \notin {"conflict", "save"},
         \A d, e \in r.eps : d = e, r.seen = {}, r.covered = {}
  PROVE  ListsOK(r)
  BY DEF ListsOK, Apart

(* Who is idle has compared nothing. *)
LEMMA IdleLists == ListsOK(Idle)
  BY DEF ListsOK, Apart, Idle

(* What Compare changes of a request. *)
LEMMA CompareFields ==
  ASSUME NEW r \in Request, NEW G \in SUBSET (SUBSET Endpoints)
  PROVE  LET c == Compare(r, G) IN
         /\ c.op = r.op /\ c.machine = r.machine /\ c.key = r.key /\ c.status = r.status
         /\ c.eps = r.eps /\ c.nets = r.nets /\ c.seen = r.seen /\ c.covered = r.covered
         /\ c.groups = G
         /\ c.pc = IF G = {} THEN AfterConflict(r.op) ELSE "conflict"
  <1> DEFINE c == Compare(r, G)
             pc == IF G = {} THEN AfterConflict(r.op) ELSE "conflict"
  <1>1. c = [r EXCEPT !.groups = G, !.pc = pc]
    BY DEF Compare
  <1> HIDE DEF c, pc
  <1>2. /\ c.op = r.op /\ c.machine = r.machine /\ c.key = r.key /\ c.status = r.status
        /\ c.eps = r.eps /\ c.nets = r.nets /\ c.seen = r.seen /\ c.covered = r.covered
        /\ c.groups = G /\ c.pc = pc
    BY <1>1 DEF Request
  <1>3. QED
    BY <1>2 DEF c, pc

(* Forming the group of a request's own endpoints, before the check. *)
LEMMA ListsCompare ==
  ASSUME NEW q \in Request, q.op \in {"create", "update", "link"},
         q.seen = {}, q.covered = {}
  PROVE  ListsOK(Compare(q, FormGroups(q.eps)))
  <1> DEFINE G == FormGroups(q.eps)
             r == Compare(q, G)
  <1>1. G \in SUBSET (SUBSET Endpoints)
    BY DEF FormGroups, Request
  <1> HIDE DEF G
  <1>2. /\ r.op = q.op /\ r.eps = q.eps /\ r.seen = {} /\ r.covered = {} /\ r.groups = G
        /\ r.pc = IF G = {} THEN AfterConflict(q.op) ELSE "conflict"
    BY <1>1, CompareFields
  <1>3. AfterConflict(q.op) \in {"used", "assign"}
    BY DEF AfterConflict
  <1> HIDE DEF r
  <1>4. G \subseteq {q.eps}
    BY DEF G, FormGroups
  <1>5. G = {} => Apart(r, r.eps)
    BY <1>2 DEF G, FormGroups, Several, Apart
  <1>6. UNION {View(r, e) : e \in r.seen} = {}
    BY <1>2
  <1>7. Apart(r, r.seen)
    BY <1>2 DEF Apart
  <1>8. r.pc # "save" /\ r.op # "endpoint" /\ (r.pc = "conflict" <=> G # {})
    BY <1>2, <1>3
  <1>9. ListsOK(r)
    BY <1>2, <1>4, <1>5, <1>6, <1>7, <1>8 DEF ListsOK
  <1>10. QED
    BY <1>9 DEF r, G

(* Starting an edit of an endpoint: every machine combining it is listed. *)
LEMMA ListsEdit ==
  ASSUME StoreInv, ReqsOK, NEW w \in Workers, EditEndpoint(w)
  PROVE  ListsOK(req'[w]) /\ req'[w].op = "endpoint"
  <1> DEFINE groups(e) == {G \in {links[m] : m \in Machines} : e \in G /\ Several(G)}
             q(e, n) == [Idle EXCEPT !.op = "endpoint", !.eps = {e}, !.nets = n]
  <1>1. PICK e \in Endpoints, n \in AllowedLists : Start(w, Compare(q(e, n), groups(e)))
    BY DEF EditEndpoint
  <1> DEFINE G == groups(e)
             r == Compare(q(e, n), G)
  <1>2. G \in SUBSET (SUBSET Endpoints)
    BY DEF StoreInv, StoreTypeOK
  <1>3. /\ \A m \in Machines : e \in links[m] /\ Several(links[m]) => links[m] \in G
        /\ \A g \in G : e \in g
    OBVIOUS
  <1>4. q(e, n) \in Request
    BY StoreAssumption DEF Idle, Request, AllHandlers
  <1>5. /\ q(e, n).op = "endpoint" /\ q(e, n).eps = {e}
        /\ q(e, n).seen = {} /\ q(e, n).covered = {}
    BY DEF Idle
  <1> HIDE DEF G, q
  <1>6. /\ r.op = "endpoint" /\ r.eps = {e} /\ r.seen = {} /\ r.covered = {} /\ r.groups = G
        /\ r.pc = IF G = {} THEN AfterConflict("endpoint") ELSE "conflict"
    BY <1>2, <1>4, <1>5, CompareFields
  <1>7. AfterConflict("endpoint") = "save"
    BY DEF AfterConflict
  <1>8. req'[w] = r
    BY <1>1 DEF ReqsOK, Start, G
  <1> HIDE DEF r
  <1>9. UNION {View(r, x) : x \in r.seen} = {} /\ Apart(r, r.seen)
    BY <1>6 DEF Apart
  <1>10. ListsOK(r)
    BY <1>3, <1>6, <1>7, <1>9 DEF ListsOK
  <1>11. QED
    BY <1>6, <1>8, <1>10

(* One read of the check: the endpoint read is apart from those read       *)
(* before, and a group is only dropped when all of it has been read.       *)
LEMMA ListsRead ==
  ASSUME ReqsOK, NEW w \in Workers, ListsOK(req[w]), ReadEndpoint(w)
  PROVE  /\ ListsOK(req'[w])
         /\ req'[w].op = req[w].op /\ req'[w].machine = req[w].machine
         /\ req'[w].key = req[w].key /\ req'[w].status = req[w].status
         /\ req'[w].pc = "assign" => req[w].op = "link"
  <1> DEFINE q == req[w]
             r1(G) == Compare([q EXCEPT !.seen = {}, !.covered = {}], q.groups \ {G})
             r2(e) == [q EXCEPT !.seen = @ \cup {e}, !.covered = @ \cup View(q, e)]
  <1>1. PICK G \in q.groups : \E e \in G \ q.seen :
          /\ q.seen \subseteq G
          /\ View(q, e) \cap q.covered = {}
          /\ IF G = q.seen \cup {e}
             THEN req' = [req EXCEPT ![w] =
                    Compare([@ EXCEPT !.seen = {}, !.covered = {}], @.groups \ {G})]
             ELSE req' = [req EXCEPT ![w].seen = @ \cup {e}, ![w].covered = @ \cup View(q, e)]
    BY Zenon DEF ReadEndpoint, View
  <1>2. PICK e \in G \ q.seen :
          /\ q.seen \subseteq G
          /\ View(q, e) \cap q.covered = {}
          /\ IF G = q.seen \cup {e}
             THEN req' = [req EXCEPT ![w] =
                    Compare([@ EXCEPT !.seen = {}, !.covered = {}], @.groups \ {G})]
             ELSE req' = [req EXCEPT ![w].seen = @ \cup {e}, ![w].covered = @ \cup View(q, e)]
    BY <1>1
  <1>3. q \in Request /\ ReqOK(q) /\ req \in [Workers -> Request]
    BY Held DEF ReqsOK
  <1>4. q.pc = "conflict" /\ q.op \in {"create", "update", "link", "endpoint"}
    BY <1>3 DEF ReadEndpoint, At, ReqOK
  <1>5. /\ q.op # "endpoint" => q.groups \subseteq {q.eps}
        /\ q.covered = UNION {View(q, d) : d \in q.seen}
        /\ Apart(q, q.seen)
    BY <1>4 DEF ListsOK
  <1>6. Apart(q, q.seen \cup {e})
    BY <1>2, <1>5 DEF Apart
  <1>7. CASE G = q.seen \cup {e}
    <2> DEFINE p == [q EXCEPT !.seen = {}, !.covered = {}]
               r == Compare(p, q.groups \ {G})
    <2>1. /\ p \in Request /\ p.op = q.op /\ p.machine = q.machine /\ p.key = q.key
          /\ p.status = q.status /\ p.eps = q.eps /\ p.nets = q.nets
          /\ p.seen = {} /\ p.covered = {}
      BY <1>3 DEF Request
    <2>2. q.groups \ {G} \in SUBSET (SUBSET Endpoints)
      BY <1>3 DEF Request
    <2>3. req'[w] = r
      BY <1>2, <1>3, <1>7
    <2> HIDE DEF p
    <2>4. /\ r.op = q.op /\ r.machine = q.machine /\ r.key = q.key /\ r.status = q.status
          /\ r.eps = q.eps /\ r.nets = q.nets /\ r.seen = {} /\ r.covered = {}
          /\ r.groups = q.groups \ {G}
          /\ r.pc = IF q.groups \ {G} = {} THEN AfterConflict(q.op) ELSE "conflict"
      BY <2>1, <2>2, CompareFields
    <2> HIDE DEF r
    <2>5. Apart(r, G)
      BY <1>6, <1>7, <2>4, SameView
    <2>6. UNION {View(r, d) : d \in r.seen} = {} /\ Apart(r, r.seen)
      BY <2>4 DEF Apart
    <2>7. CASE q.op # "endpoint"
      <3>1. G = q.eps /\ q.groups \ {G} = {}
        BY <1>5, <2>7
      <3>2. AfterConflict(q.op) \in {"used", "assign"} /\ (AfterConflict(q.op) = "assign" => q.op = "link")
        BY <1>4, <2>7 DEF AfterConflict
      <3>3. ListsOK(r)
        BY <2>4, <2>5, <2>7, <3>1, <3>2 DEF ListsOK
      <3>4. QED
        BY <2>3, <2>4, <3>1, <3>2, <3>3
    <2>8. CASE q.op = "endpoint"
      <3>1. AfterConflict(q.op) = "save"
        BY <2>8 DEF AfterConflict
      <3>2. ASSUME NEW m \in Machines, r.eps \cap links[m] # {}, Several(links[m])
            PROVE  (r.pc = "conflict" /\ links[m] \in r.groups) \/ Apart(r, links[m])
        <4>1. links[m] \in q.groups \/ Apart(q, links[m])
          BY <2>4, <2>8, <3>2 DEF ListsOK
        <4>2. Apart(q, links[m]) => Apart(r, links[m])
          BY <2>4, SameView
        <4>3. QED
          BY <2>4, <2>5, <4>1, <4>2
      <3>3. \A c, d \in r.eps : c = d
        BY <2>4, <2>8 DEF ListsOK
      <3>4. ListsOK(r)
        BY <2>4, <2>6, <2>8, <3>1, <3>2, <3>3 DEF ListsOK
      <3>5. QED
        BY <2>3, <2>4, <2>8, <3>1, <3>4
    <2>9. QED
      BY <2>7, <2>8
  <1>8. CASE G # q.seen \cup {e}
    <2> DEFINE r == [q EXCEPT !.seen = @ \cup {e}, !.covered = @ \cup View(q, e)]
    <2>1. req'[w] = r
      BY <1>2, <1>3, <1>8
    <2>2. /\ r.op = q.op /\ r.machine = q.machine /\ r.key = q.key /\ r.status = q.status
          /\ r.eps = q.eps /\ r.nets = q.nets /\ r.pc = q.pc /\ r.groups = q.groups
          /\ r.seen = q.seen \cup {e} /\ r.covered = q.covered \cup View(q, e)
      BY <1>3 DEF Request
    <2> HIDE DEF r
    <2>3. \A d : View(r, d) = View(q, d)
      BY <2>2 DEF View
    <2>4. r.covered = UNION {View(r, d) : d \in r.seen}
      BY <1>5, <2>2, <2>3
    <2>5. \A H : Apart(r, H) <=> Apart(q, H)
      BY <2>2, SameView
    <2>6. ListsOK(r)
      BY <1>4, <1>5, <1>6, <2>2, <2>4, <2>5 DEF ListsOK
    <2>7. QED
      BY <1>4, <2>1, <2>2, <2>6
  <1>9. QED
    BY <1>7, <1>8

-----------------------------------------------------------------------------
(* What a request holds of a row, when no other request runs: the row an   *)
(* edit read is still there with the status it read, a row just inserted   *)
(* is pending, and a row about to be put into service carries the key the  *)
(* request read or was given.                                              *)
RowsOK(r) ==
    /\ r.op = "update" => Exists(r.machine) /\ r.status = machine[r.machine].status
    /\ r.pc = "assign" /\ r.op \in {"create", "adopt"} => machine[r.machine].status = "pending"
    /\ r.pc = "assign" \/ r.op = "enable" \/ (r.op = "link" /\ r.pc # "lookup")
       => machine[r.machine].key = r.key

(* Who is idle has read no row. *)
LEMMA IdleRows == RowsOK(Idle)
  BY DEF RowsOK, Idle

(* A request that goes on to another call without touching the rows. *)
LEMMA RowsKept ==
  ASSUME UNCHANGED machine, NEW w \in Workers, RowsOK(req[w]),
         req'[w].op = req[w].op, req'[w].machine = req[w].machine,
         req'[w].key = req[w].key, req'[w].status = req[w].status,
         req'[w].pc = "assign" => req[w].op = "link", req[w].op = "link" => req[w].pc # "lookup"
  PROVE  RowsOK(req[w])'
  BY DEF RowsOK, Exists

(* Handlers that never put a machine into service. *)
LEMMA OtherRows ==
  ASSUME NEW w \in Workers, ReqOK(req'[w]),
         req'[w].op \notin {"create", "update", "adopt", "link", "enable"}
  PROVE  RowsOK(req[w])'
  BY DEF RowsOK, ReqOK

-----------------------------------------------------------------------------
(***************************************************************************)
(* One request at a time: the invariant, and what follows from it.         *)
(***************************************************************************)

(* What the one request in progress knows, as one invariant. *)
SerialOK(w) == NoOverlap /\ ListsOK(req[w]) /\ RowsOK(req[w])

(* A request that ends leaves nothing to know. *)
LEMMA SerialDone ==
  ASSUME ReqsOK, NEW w \in Workers, Done(w), NoOverlap'
  PROVE  SerialOK(w)'
  <1>1. req'[w] = Idle
    BY DEF Done, ReqsOK
  <1>2. ListsOK(req[w])'
    BY <1>1 DEF ListsOK, Apart, Idle
  <1>3. RowsOK(req[w])'
    BY <1>1 DEF RowsOK, Idle
  <1>4. QED
    BY <1>2, <1>3 DEF SerialOK

(* Starting a handler that has no overlap check. *)
LEMMA SerialStart ==
  ASSUME StoreInv, ReqsOK, ReqsOK', NEW w \in Workers, SerialOK(w),
         AddMachine(w) \/ Enroll(w) \/ Peer(w) \/ DisableMachine(w) \/ EnableMachine(w) \/ Sweep(w)
  PROVE  SerialOK(w)'
  <1>1. req \in [Workers -> Request]
    BY DEF ReqsOK
  <1>2. UNCHANGED storeVars
    BY DEF AddMachine, Enroll, Peer, DisableMachine, EnableMachine, Sweep
  <1>3. ReqOK(req'[w])
    BY DEF ReqsOK
  <1>4. /\ req'[w].op # "endpoint" /\ req'[w].pc \notin {"conflict", "save"}
        /\ \A d, e \in req'[w].eps : d = e
        /\ req'[w].seen = {} /\ req'[w].covered = {}
    <2>1. ASSUME NEW r, Start(w, r), r.op # "endpoint", r.pc \notin {"conflict", "save"},
                 \A d, e \in r.eps : d = e, r.seen = {}, r.covered = {}
          PROVE  /\ req'[w].op # "endpoint" /\ req'[w].pc \notin {"conflict", "save"}
                 /\ \A d, e \in req'[w].eps : d = e
                 /\ req'[w].seen = {} /\ req'[w].covered = {}
      BY <1>1, <2>1 DEF Start
    <2>2. CASE AddMachine(w)
      <3>1. PICK u \in Owners, k \in Keys :
              Start(w, [Idle EXCEPT !.op = "add", !.pc = "create", !.owner = u, !.key = k])
        BY <2>2 DEF AddMachine
      <3>2. QED
        BY <2>1, <3>1 DEF Idle
    <2>3. CASE Enroll(w)
      <3>1. PICK u \in Owners, k \in Keys, e \in Endpoints :
              Start(w, [Idle EXCEPT !.op = "enroll", !.pc = "used", !.owner = u,
                                   !.key = k, !.eps = {e}])
        BY <2>3 DEF Enroll
      <3>2. QED
        BY <2>1, <3>1 DEF Idle
    <2>4. CASE Peer(w)
      <3>1. PICK op \in {"adopt", "link"}, e \in Endpoints, k \in Keys :
              Start(w, [Idle EXCEPT !.op = op, !.pc = "lookup", !.key = k, !.eps = {e}])
        BY <2>4 DEF Peer
      <3>2. QED
        BY <2>1, <3>1 DEF Idle
    <2>5. CASE DisableMachine(w)
      <3>1. PICK m \in Machines :
              Start(w, [Idle EXCEPT !.op = "disable", !.pc = "disable", !.machine = m])
        BY <2>5 DEF DisableMachine
      <3>2. QED
        BY <2>1, <3>1 DEF Idle
    <2>6. CASE EnableMachine(w)
      <3>1. PICK m \in Machines :
              Start(w, [Idle EXCEPT !.op = "enable", !.pc = "links", !.machine = m,
                                   !.key = machine[m].key, !.addr = machine[m].addr])
        BY <2>6 DEF EnableMachine
      <3>2. QED
        BY <2>1, <3>1 DEF Idle
    <2>7. CASE Sweep(w)
      <3>1. PICK M \in (OrphanLists \cup DormantLists) \ {{}} :
              Start(w, [Idle EXCEPT !.op = "sweep", !.pc = "sweep", !.todo = M])
        BY <2>7 DEF Sweep
      <3>2. QED
        BY <2>1, <3>1 DEF Idle
    <2>8. QED
      BY <2>2, <2>3, <2>4, <2>5, <2>6, <2>7
  <1>5. ListsOK(req[w])'
    BY <1>2, <1>4, ListsStart, ListsNext DEF storeVars
  <1>6. RowsOK(req[w])'
    <2>1. CASE EnableMachine(w)
      <3>1. PICK m \in Machines :
              Start(w, [Idle EXCEPT !.op = "enable", !.pc = "links", !.machine = m,
                                    !.key = machine[m].key, !.addr = machine[m].addr])
        BY <2>1 DEF EnableMachine
      <3>2. /\ req'[w].op = "enable" /\ req'[w].pc = "links" /\ req'[w].machine = m
            /\ req'[w].key = machine[m].key
        BY <1>1, <3>1 DEF Start, Idle
      <3>3. QED
        BY <1>2, <3>2 DEF RowsOK, storeVars
    <2>2. CASE Peer(w)
      <3>1. req'[w].op \in {"adopt", "link"} /\ req'[w].pc = "lookup"
        BY <1>1, <2>2 DEF Peer, Start, Idle
      <3>2. QED
        BY <3>1 DEF RowsOK
    <2>3. CASE AddMachine(w) \/ Enroll(w) \/ DisableMachine(w) \/ Sweep(w)
      <3>1. req'[w].op \in {"add", "enroll", "disable", "sweep"}
        BY <1>1, <2>3 DEF AddMachine, Enroll, DisableMachine, Sweep, Start, Idle
      <3>2. QED
        BY <1>3, <3>1, OtherRows
    <2>4. QED
      BY <2>1, <2>2, <2>3
  <1>7. QED
    BY <1>2, <1>5, <1>6, NoOverlapStable DEF SerialOK, storeVars

(* Starting a handler with an overlap check of its own endpoints, or       *)
(* coming to it (LinkEndpoints). *)
LEMMA SerialCheck ==
  ASSUME StoreInv, ReqsOK, ReqsOK', NEW w \in Workers, SerialOK(w),
         AdminCreate(w) \/ UpdateMachine(w) \/ LinkEndpoints(w)
  PROVE  SerialOK(w)'
  <1>1. req \in [Workers -> Request] /\ req[w] \in Request
    BY DEF ReqsOK
  <1>2. UNCHANGED storeVars
    BY DEF AdminCreate, UpdateMachine, LinkEndpoints
  <1>3. ASSUME NEW q \in Request, q.op \in {"create", "update", "link"},
               q.seen = {}, q.covered = {}, req'[w] = Compare(q, FormGroups(q.eps))
        PROVE  /\ ListsOK(req[w])'
               /\ req'[w].op = q.op /\ req'[w].machine = q.machine /\ req'[w].key = q.key
               /\ req'[w].status = q.status /\ (req'[w].pc = "assign" => q.op = "link")
    <2>1. ListsOK(req[w])'
      BY <1>2, <1>3, ListsCompare, ListsNext DEF storeVars
    <2>2. FormGroups(q.eps) \in SUBSET (SUBSET Endpoints)
      BY DEF FormGroups, Request
    <2>3. QED
      BY <1>3, <2>1, <2>2, CompareFields DEF AfterConflict
  <1>4. CASE AdminCreate(w)
    <2>1. PICK u \in Owners, k \in Keys, E \in FormEndpoints :
            Start(w, Compare([Idle EXCEPT !.op = "create", !.owner = u,
                                          !.key = k, !.eps = E], FormGroups(E)))
      BY <1>4 DEF AdminCreate
    <2> DEFINE q == [Idle EXCEPT !.op = "create", !.owner = u, !.key = k, !.eps = E]
    <2>2. q \in Request /\ q.op = "create" /\ q.eps = E /\ q.seen = {} /\ q.covered = {}
      BY DEF Idle, Request, AllHandlers, FormEndpoints
    <2>3. req'[w] = Compare(q, FormGroups(E))
      BY <1>1, <2>1 DEF Start
    <2> HIDE DEF q
    <2>4. ListsOK(req[w])' /\ req'[w].op = "create" /\ req'[w].pc # "assign"
      BY <1>3, <2>2, <2>3
    <2>5. QED
      BY <1>2, <2>4, NoOverlapStable DEF SerialOK, storeVars, RowsOK
  <1>5. CASE UpdateMachine(w)
    <2>1. PICK m \in Machines, k \in Keys, E \in FormEndpoints :
            /\ Exists(m)
            /\ Start(w, Compare([Idle EXCEPT !.op = "update", !.machine = m, !.key = k,
                                             !.eps = E, !.status = machine[m].status,
                                             !.addr = machine[m].addr], FormGroups(E)))
      BY <1>5 DEF UpdateMachine
    <2> DEFINE q == [Idle EXCEPT !.op = "update", !.machine = m, !.key = k, !.eps = E,
                                 !.status = machine[m].status, !.addr = machine[m].addr]
    <2>2. machine[m].status \in Statuses /\ machine[m].addr \in Addrs \cup {NoAddr}
      BY <2>1, ExistingRow DEF LiveRow
    <2>3. /\ q \in Request /\ q.op = "update" /\ q.machine = m /\ q.status = machine[m].status
          /\ q.eps = E /\ q.seen = {} /\ q.covered = {}
      BY <2>2 DEF Idle, Request, AllHandlers, FormEndpoints
    <2>4. req'[w] = Compare(q, FormGroups(E))
      BY <1>1, <2>1 DEF Start
    <2> HIDE DEF q
    <2>5. /\ ListsOK(req[w])' /\ req'[w].op = "update" /\ req'[w].pc # "assign"
          /\ req'[w].machine = m /\ req'[w].status = machine[m].status
      BY <1>3, <2>3, <2>4
    <2>6. QED
      BY <1>2, <2>1, <2>5, NoOverlapStable DEF SerialOK, storeVars, RowsOK, Exists
  <1>6. CASE LinkEndpoints(w)
    <2> DEFINE E == links[req[w].machine] \cup req[w].eps
               q == [req[w] EXCEPT !.eps = E]
    <2>1. /\ req[w].op = "link" /\ req[w].pc = "links"
          /\ req' = [req EXCEPT ![w] = Compare(q, FormGroups(E))]
      BY <1>6 DEF LinkEndpoints, At
    <2>2. req[w].machine \in Machines
      BY <2>1, Held DEF ReqOK
    <2>3. E \in SUBSET Endpoints
      BY <1>1, <2>2 DEF StoreInv, StoreTypeOK, Request
    <2>4. req[w].seen = {} /\ req[w].covered = {}
      BY <2>1 DEF SerialOK, ListsOK
    <2> HIDE DEF E
    <2>5. /\ q \in Request /\ q.op = "link" /\ q.machine = req[w].machine /\ q.key = req[w].key
          /\ q.eps = E /\ q.seen = {} /\ q.covered = {}
      BY <1>1, <2>1, <2>3, <2>4 DEF Request
    <2>6. req'[w] = Compare(q, FormGroups(E))
      BY <1>1, <2>1
    <2> HIDE DEF q
    <2>7. /\ ListsOK(req[w])' /\ req'[w].op = "link"
          /\ req'[w].machine = req[w].machine /\ req'[w].key = req[w].key
      BY <1>3, <2>5, <2>6
    <2>8. machine[req[w].machine].key = req[w].key
      BY <2>1 DEF SerialOK, RowsOK
    <2>9. RowsOK(req[w])'
      BY <1>2, <2>7, <2>8 DEF RowsOK, storeVars
    <2>10. QED
      BY <1>2, <2>7, <2>9, NoOverlapStable DEF SerialOK, storeVars
  <1>7. QED
    BY <1>4, <1>5, <1>6

(* A request that goes on to another call, outside its overlap check. *)
LEMMA SerialGoesOn ==
  ASSUME ReqsOK, NEW w \in Workers, SerialOK(w), UNCHANGED <<links, endpoint>>,
         req[w].op # "endpoint", req[w].pc # "conflict", req'[w].pc \notin {"conflict", "save"},
         req'[w].op = req[w].op, req'[w].eps = req[w].eps, req'[w].nets = req[w].nets,
         req'[w].seen = req[w].seen, req'[w].covered = req[w].covered
  PROVE  NoOverlap' /\ ListsOK(req[w])'
  <1>1. ListsOK(req'[w])
    BY ListsKept DEF SerialOK
  <1>2. QED
    BY <1>1, ListsNext, NoOverlapStable DEF SerialOK

(* Reading steps after the start of a request. *)
LEMMA SerialRead ==
  ASSUME StoreInv, ReqsOK, ReqsOK', NEW w \in Workers, SerialOK(w),
         \/ AdoptLookup(w) \/ LinkLookup(w) \/ ReadEndpoint(w) \/ PickAddress(w)
         \/ EnableLinks(w) \/ EnrollAddressFailed(w) \/ EditEndpoint(w)
  PROVE  SerialOK(w)'
  <1>1. req \in [Workers -> Request] /\ req[w] \in Request /\ ReqOK(req[w]) /\ ReqOK(req'[w])
    BY DEF ReqsOK
  <1>2. UNCHANGED storeVars
    BY DEF AdoptLookup, LinkLookup, ReadEndpoint, PickAddress, EnableLinks,
           EnrollAddressFailed, EditEndpoint
  <1>3. CASE AdoptLookup(w)
    <2>1. PICK u \in Owners : req' = [req EXCEPT ![w].pc = "used", ![w].owner = u]
      BY <1>3 DEF AdoptLookup
    <2>2. /\ req[w].op = "adopt" /\ req[w].pc = "lookup" /\ req'[w].pc = "used"
          /\ req'[w].op = req[w].op /\ req'[w].eps = req[w].eps /\ req'[w].nets = req[w].nets
          /\ req'[w].seen = req[w].seen /\ req'[w].covered = req[w].covered
      BY <1>1, <1>3, <2>1 DEF AdoptLookup, At, Request
    <2>3. NoOverlap' /\ ListsOK(req[w])'
      BY <1>2, <2>2, SerialGoesOn DEF storeVars
    <2>4. RowsOK(req[w])'
      BY <2>2 DEF RowsOK
    <2>5. QED
      BY <2>3, <2>4 DEF SerialOK
  <1>4. CASE LinkLookup(w)
    <2>1. PICK m \in Machines :
            /\ machine[m].key = req[w].key
            /\ req' = [req EXCEPT ![w].pc = "used", ![w].machine = m, ![w].addr = machine[m].addr]
      BY <1>4 DEF LinkLookup
    <2>2. /\ req[w].op = "link" /\ req[w].pc = "lookup" /\ req'[w].pc = "used"
          /\ req'[w].op = req[w].op /\ req'[w].eps = req[w].eps /\ req'[w].nets = req[w].nets
          /\ req'[w].seen = req[w].seen /\ req'[w].covered = req[w].covered
          /\ req'[w].machine = m /\ req'[w].key = req[w].key
      BY <1>1, <1>4, <2>1 DEF LinkLookup, At, Request
    <2>3. NoOverlap' /\ ListsOK(req[w])'
      BY <1>2, <2>2, SerialGoesOn DEF storeVars
    <2>4. RowsOK(req[w])'
      BY <1>2, <2>1, <2>2 DEF RowsOK, storeVars
    <2>5. QED
      BY <2>3, <2>4 DEF SerialOK
  <1>5. CASE ReadEndpoint(w)
    <2>1. /\ ListsOK(req'[w])
          /\ req'[w].op = req[w].op /\ req'[w].machine = req[w].machine
          /\ req'[w].key = req[w].key /\ req'[w].status = req[w].status
          /\ req'[w].pc = "assign" => req[w].op = "link"
      BY <1>5, ListsRead DEF SerialOK
    <2>2. req[w].pc = "conflict"
      BY <1>5 DEF ReadEndpoint, At
    <2>3. RowsOK(req[w])'
      BY <1>2, <2>1, <2>2, RowsKept DEF SerialOK, storeVars
    <2>4. QED
      BY <1>2, <2>1, <2>3, ListsNext, NoOverlapStable DEF SerialOK, storeVars
  <1>6. CASE PickAddress(w)
    <2> DEFINE pc == CASE req[w].op = "update" -> "identity"
                       [] req[w].op = "link" -> "links"
                       [] OTHER -> "create"
    <2>1. PICK a \in Addrs : req' = [req EXCEPT ![w].addr = a, ![w].pc = pc]
      BY <1>6 DEF PickAddress
    <2>2. pc \in {"identity", "links", "create"}
      OBVIOUS
    <2> HIDE DEF pc
    <2>3. /\ req[w].pc = "used" /\ req'[w].pc = pc
          /\ req'[w].op = req[w].op /\ req'[w].eps = req[w].eps /\ req'[w].nets = req[w].nets
          /\ req'[w].seen = req[w].seen /\ req'[w].covered = req[w].covered
          /\ req'[w].machine = req[w].machine /\ req'[w].key = req[w].key
          /\ req'[w].status = req[w].status
      BY <1>1, <1>6, <2>1 DEF PickAddress, At, Request
    <2>4. req[w].op # "endpoint"
      BY <1>1, <2>3 DEF ReqOK
    <2>5. NoOverlap' /\ ListsOK(req[w])'
      BY <1>2, <2>2, <2>3, <2>4, SerialGoesOn DEF storeVars
    <2>6. RowsOK(req[w])'
      BY <1>2, <2>2, <2>3, RowsKept DEF SerialOK, storeVars
    <2>7. QED
      BY <2>5, <2>6 DEF SerialOK
  <1>7. CASE EnableLinks(w) \/ EnrollAddressFailed(w)
    <2>1. PICK pc \in {"activate", "cleanup"} : req' = [req EXCEPT ![w].pc = pc]
      BY <1>7 DEF EnableLinks, EnrollAddressFailed, Goto
    <2>2. /\ req[w].pc \in {"links", "address"} /\ req'[w].pc = pc
          /\ req'[w].op = req[w].op /\ req'[w].eps = req[w].eps /\ req'[w].nets = req[w].nets
          /\ req'[w].seen = req[w].seen /\ req'[w].covered = req[w].covered
          /\ req'[w].machine = req[w].machine /\ req'[w].key = req[w].key
          /\ req'[w].status = req[w].status
      BY <1>1, <1>7, <2>1 DEF EnableLinks, EnrollAddressFailed, At, Request
    <2>3. req[w].op # "endpoint"
      BY <1>1, <2>2 DEF ReqOK
    <2>4. NoOverlap' /\ ListsOK(req[w])'
      BY <1>2, <2>2, <2>3, SerialGoesOn DEF storeVars
    <2>5. RowsOK(req[w])'
      BY <1>2, <2>2, RowsKept DEF SerialOK, storeVars
    <2>6. QED
      BY <2>4, <2>5 DEF SerialOK
  <1>8. CASE EditEndpoint(w)
    <2>1. ListsOK(req'[w]) /\ req'[w].op = "endpoint"
      BY <1>8, ListsEdit
    <2>2. RowsOK(req[w])'
      BY <1>1, <2>1, OtherRows
    <2>3. QED
      BY <1>2, <2>1, <2>2, ListsNext, NoOverlapStable DEF SerialOK, storeVars
  <1>9. QED
    BY <1>3, <1>4, <1>5, <1>6, <1>7, <1>8

-----------------------------------------------------------------------------
(* Writes of the link table. *)

(* Replacing the links of one machine by endpoints that are apart. *)
LEMMA LinkWrite ==
  ASSUME StoreInv, NEW w \in Workers, SerialOK(w), req[w].op # "endpoint",
         req[w].pc # "conflict", NEW m \in Machines, CanLink(m, req[w].eps),
         links' = [links EXCEPT ![m] = req[w].eps], UNCHANGED endpoint
  PROVE  NoOverlap'
  <1>1. Apart(req[w], req[w].eps)
    BY DEF SerialOK, ListsOK
  <1>2. \A e \in req[w].eps : View(req[w], e) = endpoint[e].nets
    BY DEF View, CanLink
  <1>3. \A d, e \in req[w].eps : d # e => endpoint[d].nets \cap endpoint[e].nets = {}
    BY <1>1, <1>2 DEF Apart
  <1>4. ASSUME NEW n \in Machines, NEW d \in links'[n], NEW e \in links'[n], d # e
        PROVE  endpoint[d].nets \cap endpoint[e].nets = {}
    <2>1. links'[n] = IF n = m THEN req[w].eps ELSE links[n]
      BY DEF StoreInv, StoreTypeOK
    <2>2. QED
      BY <1>3, <1>4, <2>1 DEF SerialOK, NoOverlap
  <1>5. QED
    BY <1>4 DEF NoOverlap

(* Links that only shrink. *)
LEMMA LinksShrink ==
  ASSUME NoOverlap, \A m \in Machines : links'[m] \subseteq links[m],
         \A m \in Machines : \A e \in links'[m] : endpoint'[e].nets = endpoint[e].nets
  PROVE  NoOverlap'
  BY DEF NoOverlap

(* The checked edit of an endpoint. *)
LEMMA EndpointWrite ==
  ASSUME StoreInv, NEW w \in Workers, req[w] \in Request, SerialOK(w), SaveEndpoint(w)
  PROVE  NoOverlap'
  <1> DEFINE r == req[w]
  <1>1. PICK e \in r.eps : UpdateEndpoint(e, r.nets)
    BY DEF SaveEndpoint
  <1>2. /\ r.op = "endpoint" /\ r.pc = "save" /\ r.eps = {e} /\ e \in Endpoints
        /\ \A m \in Machines : e \in links[m] /\ Several(links[m]) => Apart(r, links[m])
    BY <1>1 DEF SaveEndpoint, At, SerialOK, ListsOK, Request
  <1>3. CASE ~LiveEndpoint(e)
    BY <1>1, <1>3, NoOverlapStable DEF UpdateEndpoint, SerialOK
  <1>4. CASE LiveEndpoint(e)
    <2>1. \A d \in Endpoints : endpoint'[d].nets = IF d = e THEN r.nets ELSE endpoint[d].nets
      BY <1>1, <1>2, <1>4 DEF UpdateEndpoint, StoreInv, StoreTypeOK, EndpointRow
    <2>2. UNCHANGED links
      BY <1>1 DEF UpdateEndpoint
    <2>3. \A d \in Endpoints : LiveEndpoint(d) => View(r, d) = endpoint'[d].nets
      BY <1>2, <2>1 DEF View
    <2> SUFFICES ASSUME NEW m \in Machines, NEW c \in links[m], NEW d \in links[m], c # d
                 PROVE  endpoint'[c].nets \cap endpoint'[d].nets = {}
      BY <2>2 DEF NoOverlap
    <2>4. /\ c \in Endpoints /\ d \in Endpoints /\ LiveEndpoint(c) /\ LiveEndpoint(d)
          /\ Several(links[m])
      BY DEF StoreInv, StoreTypeOK, LinksLive, Several
    <2>5. CASE e \in links[m]
      <3>1. Apart(r, links[m])
        BY <1>2, <2>4, <2>5
      <3>2. QED
        BY <2>3, <2>4, <3>1 DEF Apart
    <2>6. CASE e \notin links[m]
      BY <2>1, <2>4, <2>6 DEF SerialOK, NoOverlap
    <2>7. QED
      BY <2>5, <2>6
  <1>5. QED
    BY <1>3, <1>4

(* Store calls of a request that leave its fields, or end it. *)
LEMMA SerialWrite ==
  ASSUME StoreInv, ReqsOK, NEW w \in Workers, SerialOK(w),
         \/ EnrollAddress(w) \/ EnrollCleanup(w) \/ EnrollLink(w) \/ DisableWrite(w)
         \/ EnableWrite(w) \/ SweepDisable(w) \/ SaveEndpoint(w) \/ AssignMachine(w) \/ Refuse(w)
  PROVE  SerialOK(w)'
  <1>1. req \in [Workers -> Request] /\ req[w] \in Request /\ ReqOK(req[w])
    BY DEF ReqsOK
  <1>2. NoOverlap
    BY DEF SerialOK
  <1>3. CASE EnrollAddress(w)
    <2>1. /\ req[w].pc = "address" /\ req'[w].pc = "link"
          /\ req'[w].op = req[w].op /\ req'[w].eps = req[w].eps /\ req'[w].nets = req[w].nets
          /\ req'[w].seen = req[w].seen /\ req'[w].covered = req[w].covered
      BY <1>1, <1>3 DEF EnrollAddress, At, Goto, Request
    <2>2. req[w].op = "enroll"
      BY <1>1, <2>1 DEF ReqOK
    <2>3. UNCHANGED <<links, endpoint>>
      BY <1>3 DEF EnrollAddress, SetMachineAddress
    <2>4. NoOverlap' /\ ListsOK(req[w])'
      BY <2>1, <2>2, <2>3, SerialGoesOn
    <2>5. RowsOK(req[w])'
      BY <2>1, <2>2 DEF RowsOK
    <2>6. QED
      BY <2>4, <2>5 DEF SerialOK
  <1>4. CASE SweepDisable(w)
    <2>1. UNCHANGED <<links, endpoint>>
      BY <1>4 DEF SweepDisable, SetMachineDisabled, SetStatus, storeVars
    <2>2. CASE Done(w)
      BY <1>2, <2>1, <2>2, SerialDone, NoOverlapStable
    <2>3. ASSUME NEW m, req' = [req EXCEPT ![w].todo = @ \ {m}]
          PROVE  SerialOK(w)'
      <3>1. /\ req[w].pc = "sweep" /\ req'[w].pc = "sweep"
            /\ req'[w].op = req[w].op /\ req'[w].eps = req[w].eps /\ req'[w].nets = req[w].nets
            /\ req'[w].seen = req[w].seen /\ req'[w].covered = req[w].covered
        BY <1>1, <1>4, <2>3 DEF SweepDisable, At, Request
      <3>2. req[w].op = "sweep"
        BY <1>1, <3>1 DEF ReqOK
      <3>3. NoOverlap' /\ ListsOK(req[w])'
        BY <2>1, <3>1, <3>2, SerialGoesOn
      <3>4. RowsOK(req[w])'
        BY <3>1, <3>2 DEF RowsOK
      <3>5. QED
        BY <3>3, <3>4 DEF SerialOK
    <2>4. QED
      BY <1>4, <2>2, <2>3 DEF SweepDisable
  <1>5. CASE Refuse(w)
    BY <1>2, <1>5, SerialDone, NoOverlapStable DEF Refuse, storeVars
  <1>6. CASE EnrollCleanup(w)
    <2>1. NoOverlap'
      <3>1. /\ \A m \in Machines : links'[m] \subseteq links[m]
            /\ UNCHANGED endpoint
        BY <1>6 DEF EnrollCleanup, DeleteMachine, DeleteMachines
      <3>2. QED
        BY <1>2, <3>1, LinksShrink
    <2>2. QED
      BY <1>6, <2>1, SerialDone DEF EnrollCleanup
  <1>7. CASE EnrollLink(w)
    <2>1. /\ req[w].machine \in Machines /\ req[w].op = "enroll" /\ req[w].pc = "link"
          /\ SetMachineEndpoints(req[w].machine, req[w].eps)
      BY <1>1, <1>7 DEF EnrollLink, At, ReqOK
    <2>2. NoOverlap'
      BY <2>1, LinkWrite DEF SetMachineEndpoints
    <2>3. QED
      BY <1>7, <2>2, SerialDone DEF EnrollLink
  <1>8. CASE DisableWrite(w) \/ EnableWrite(w)
    <2>1. UNCHANGED <<links, endpoint>> /\ Done(w)
      BY <1>8 DEF DisableWrite, EnableWrite, SetMachineDisabled, SetMachineActive, SetStatus
    <2>2. QED
      BY <1>2, <2>1, SerialDone, NoOverlapStable
  <1>9. CASE SaveEndpoint(w)
    <2>1. NoOverlap'
      BY <1>1, <1>9, EndpointWrite
    <2>2. QED
      BY <1>9, <2>1, SerialDone DEF SaveEndpoint
  <1>10. CASE AssignMachine(w)
    <2>1. /\ req[w].machine \in Machines /\ req[w].op # "endpoint" /\ req[w].pc = "assign"
          /\ \E s : Assign(req[w].machine, req[w].addr, req[w].eps, s)
      BY <1>1, <1>10 DEF AssignMachine, At, ReqOK, ApproveMachine, SetMachineAssignment
    <2>2. /\ CanLink(req[w].machine, req[w].eps)
          /\ links' = [links EXCEPT ![req[w].machine] = req[w].eps]
          /\ UNCHANGED endpoint
      BY <2>1 DEF Assign, CanAssign
    <2>3. NoOverlap'
      BY <2>1, <2>2, LinkWrite
    <2>4. QED
      BY <1>10, <2>3, SerialDone DEF AssignMachine
  <1>11. QED
    BY <1>3, <1>4, <1>5, <1>6, <1>7, <1>8, <1>9, <1>10

(* The row inserted, or given its key, is the one the request goes on with. *)
LEMMA SerialRow ==
  ASSUME StoreInv, ReqsOK, ReqsOK', NEW w \in Workers, SerialOK(w), Create(w) \/ Identity(w)
  PROVE  SerialOK(w)'
  <1>1. /\ req \in [Workers -> Request] /\ req[w] \in Request /\ ReqOK(req[w])
        /\ ReqOK(req'[w])
    BY DEF ReqsOK
  <1>2. UNCHANGED <<links, endpoint>>
    BY DEF Create, CreateMachine, Identity, UpdateMachineIdentity
  <1>3. CASE Create(w)
    <2>1. PICK m \in Machines :
            /\ CreateMachine(m, req[w].owner, req[w].key)
            /\ \/ Done(w)
               \/ req' = [req EXCEPT ![w].pc = "address", ![w].machine = m]
               \/ req' = [req EXCEPT ![w].pc = "assign", ![w].machine = m]
      BY <1>3 DEF Create
    <2>2. /\ req[w].pc = "create" /\ req[w].op \in {"add", "enroll", "create", "adopt"}
          /\ req[w].owner \in Owners /\ req[w].key \in Keys
      BY <1>1, <1>3 DEF Create, At, ReqOK
    <2>3. CASE Done(w)
      BY <1>2, <2>3, SerialDone, NoOverlapStable DEF SerialOK
    <2>4. ASSUME NEW pc \in {"address", "assign"},
                 req' = [req EXCEPT ![w].pc = pc, ![w].machine = m]
          PROVE  SerialOK(w)'
      <3>1. /\ req'[w].pc = pc /\ req'[w].machine = m /\ req'[w].key = req[w].key
            /\ req'[w].op = req[w].op /\ req'[w].eps = req[w].eps /\ req'[w].nets = req[w].nets
            /\ req'[w].seen = req[w].seen /\ req'[w].covered = req[w].covered
        BY <1>1, <2>4 DEF Request
      <3>2. NoOverlap' /\ ListsOK(req[w])'
        BY <1>2, <2>2, <3>1, SerialGoesOn
      <3>3. machine'[m].status = "pending" /\ machine'[m].key = req[w].key
        BY <2>1, <2>2, CreateRows
      <3>4. RowsOK(req[w])'
        BY <2>2, <3>1, <3>3 DEF RowsOK
      <3>5. QED
        BY <3>2, <3>4 DEF SerialOK
    <2>5. QED
      BY <2>1, <2>3, <2>4
  <1>4. CASE Identity(w)
    <2>1. /\ req[w].pc = "identity" /\ req[w].op = "update"
          /\ req[w].machine \in Machines /\ req[w].key \in Keys
          /\ UpdateMachineIdentity(req[w].machine, req[w].key)
      BY <1>1, <1>4 DEF Identity, At, ReqOK
    <2>2. /\ req'[w].pc = "assign" /\ req'[w].machine = req[w].machine
          /\ req'[w].key = req[w].key /\ req'[w].status = req[w].status
          /\ req'[w].op = req[w].op /\ req'[w].eps = req[w].eps /\ req'[w].nets = req[w].nets
          /\ req'[w].seen = req[w].seen /\ req'[w].covered = req[w].covered
      BY <1>1, <1>4 DEF Identity, Goto, Request
    <2>3. NoOverlap' /\ ListsOK(req[w])'
      BY <1>2, <2>1, <2>2, SerialGoesOn
    <2>4. /\ Exists(req[w].machine) /\ req[w].status = machine[req[w].machine].status
      BY <2>1 DEF SerialOK, RowsOK
    <2>5. /\ machine'[req[w].machine].key = req[w].key
          /\ machine'[req[w].machine].status = machine[req[w].machine].status
      <3>1. machine[req[w].machine] \in LiveRow
        BY <2>1, <2>4, ExistingRow
      <3>2. QED
        BY <2>1, <2>4, <3>1 DEF UpdateMachineIdentity, StoreInv, StoreTypeOK, LiveRow
    <2>6. RowsOK(req[w])'
      BY <2>1, <2>2, <2>4, <2>5 DEF RowsOK, Exists
    <2>7. QED
      BY <2>3, <2>6 DEF SerialOK
  <1>5. QED
    BY <1>3, <1>4

(* Between two requests, the handlers of one store call. *)
LEMMA SerialSingle ==
  ASSUME StoreInv, ReqsOK, NEW w \in Workers, SerialOK(w), req[w] = Idle,
         SingleStep, UNCHANGED req
  PROVE  SerialOK(w)'
  <1>1. req'[w] = Idle
    OBVIOUS
  <1>2. ListsOK(req[w])' /\ RowsOK(req[w])'
    BY <1>1 DEF ListsOK, Apart, RowsOK, Idle
  <1>3. NoOverlap
    BY DEF SerialOK
  <1>4. NoOverlap'
    <2>1. CASE EditMachine \/ Tick
      <3>1. UNCHANGED <<links, endpoint>>
        BY <2>1 DEF EditMachine, UpdateOwnMachine, Tick
      <3>2. QED
        BY <1>3, <3>1, NoOverlapStable
    <2>2. CASE DeleteMachineRow \/ ExpirePending
      <3>1. \E M : DeleteMachines(M)
        BY <2>2 DEF DeleteMachineRow, DeleteMachine, ExpirePending, DeleteExpiredPending
      <3>2. (\A m \in Machines : links'[m] \subseteq links[m]) /\ UNCHANGED endpoint
        BY <3>1 DEF DeleteMachines
      <3>3. QED
        BY <1>3, <3>2, LinksShrink
    <2>3. CASE EndpointCreate
      <3>1. PICK e \in Endpoints, n \in AllowedLists : CreateEndpoint(e, n)
        BY <2>3 DEF EndpointCreate
      <3>2. \A m \in Machines : \A d \in links[m] : d \in Endpoints /\ d # e
        BY <3>1 DEF CreateEndpoint, StoreInv, StoreTypeOK, LinksLive, LiveEndpoint
      <3>3. UNCHANGED links /\ \A d \in Endpoints \ {e} : endpoint'[d] = endpoint[d]
        BY <3>1 DEF CreateEndpoint, StoreInv, StoreTypeOK
      <3>4. QED
        BY <1>3, <3>2, <3>3, LinksShrink
    <2>4. CASE EndpointDelete
      <3>1. PICK e \in Endpoints : DeleteEndpoint(e)
        BY <2>4 DEF EndpointDelete
      <3>2. /\ \A m \in Machines : links'[m] = links[m] \ {e}
            /\ \A d \in Endpoints \ {e} : endpoint'[d] = endpoint[d]
            /\ \A m \in Machines : links[m] \subseteq Endpoints
        BY <3>1 DEF DeleteEndpoint, StoreInv, StoreTypeOK
      <3>3. QED
        BY <1>3, <3>2, LinksShrink
    <2>5. QED
      BY <2>1, <2>2, <2>3, <2>4 DEF SingleStep
  <1>5. QED
    BY <1>2, <1>4 DEF SerialOK

(* Every step of the serial system keeps it. *)
LEMMA SerialStep ==
  ASSUME NEW w, Workers = {w}, RosterInv, SerialOK(w), [SerialNext]_vars
  PROVE  SerialOK(w)'
  <1>1. StoreInv /\ ReqsOK /\ w \in Workers
    BY InvParts
  <1>2. RosterInv'
    BY NextInv DEF SerialNext
  <1>3. ReqsOK'
    BY <1>2 DEF RosterInv, TypeOK, ReqsOK
  <1>4. CASE UNCHANGED vars
    <2>1. UNCHANGED <<links, endpoint, machine, req>>
      BY <1>4 DEF vars, storeVars
    <2>2. ListsOK(req[w])' /\ NoOverlap'
      BY <1>1, <2>1, ListsNext, NoOverlapStable DEF SerialOK
    <2>3. RowsOK(req[w])'
      BY <2>1 DEF SerialOK, RowsOK, Exists
    <2>4. QED
      BY <2>2, <2>3 DEF SerialOK
  <1>5. CASE SerialNext
    <2>1. CASE RequestStep(w)
      BY <1>1, <1>3, <2>1, SerialStart, SerialCheck, SerialRead, SerialWrite DEF RequestStep
    <2>2. CASE Create(w) \/ Identity(w) \/ AssignMachine(w)
      BY <1>1, <1>3, <2>2, SerialRow, SerialWrite
    <2>3. CASE SingleStep /\ UNCHANGED req
      BY <1>1, <1>5, <2>3, SerialSingle DEF SerialNext
    <2>4. QED
      BY <1>5, <2>1, <2>2, <2>3 DEF SerialNext, Next
  <1>6. QED
    BY <1>4, <1>5

(* The one worker is idle at first. *)
LEMMA SerialInit == ASSUME NEW w \in Workers, Init PROVE SerialOK(w)
  <1>1. req[w] = Idle /\ \A m \in Machines : links[m] = {}
    BY DEF Init, StoreInit
  <1>2. QED
    BY <1>1, IdleLists, IdleRows DEF SerialOK, NoOverlap

(* What the request in progress knows, at every moment. *)
LEMMA SerialInvariance ==
  ASSUME NEW w, Workers = {w} PROVE SerialSpec => [](RosterInv /\ SerialOK(w))
  <1>1. Init => RosterInv /\ SerialOK(w)
    BY InitInv, SerialInit
  <1>2. RosterInv /\ SerialOK(w) /\ [SerialNext]_vars => RosterInv' /\ SerialOK(w)'
    BY NextInv, SerialStep DEF SerialNext
  <1>3. QED
    BY <1>1, <1>2, PTL DEF SerialSpec

(* With one request at a time, no machine is ever linked to two endpoints  *)
(* whose AllowedIPs overlap: the checks of the handlers are enough, and    *)
(* only concurrent requests get past them.                                 *)
THEOREM SerialNoOverlap == ASSUME NEW w, Workers = {w} PROVE SerialSpec => []NoOverlap
  <1>1. SerialSpec => [](RosterInv /\ SerialOK(w))
    BY SerialInvariance
  <1>2. SerialOK(w) => NoOverlap
    BY DEF SerialOK
  <1>3. QED
    BY <1>1, <1>2, PTL

(* A machine comes into service by an enable or an assignment of it, with  *)
(* the key it has. *)
LEMMA Activated ==
  ASSUME RosterInv, [SerialNext]_vars, NEW m \in Machines,
         machine[m].status # "active", machine'[m].status = "active"
  PROVE  IntoService(m) /\ machine'[m].key = machine[m].key
  <1>1. StoreInv /\ ReqsOK /\ Next
    BY InvParts DEF SerialNext, vars, storeVars
  <1>2. CASE AllCalm
    BY <1>2 DEF AllCalm, Calm
  <1>3. CASE EditMachine
    <2>1. PICK n \in Machines, k \in Keys : UpdateOwnMachine(n, k)
      BY <1>3 DEF EditMachine
    <2>2. QED
      BY <1>1, <2>1, EditRows
  <1>4. ASSUME NEW w \in Workers, Create(w) PROVE FALSE
    <2>1. PICK n \in Machines : CreateMachine(n, req[w].owner, req[w].key)
      BY <1>4 DEF Create
    <2>2. req[w].owner \in Owners /\ req[w].key \in Keys
      BY <1>1, <1>4, Held DEF Create, At, ReqOK
    <2>3. QED
      BY <1>1, <2>1, <2>2, CreateRows
  <1>5. ASSUME NEW w \in Workers, Identity(w) PROVE FALSE
    <2>1. /\ req[w].machine \in Machines /\ req[w].key \in Keys
          /\ UpdateMachineIdentity(req[w].machine, req[w].key)
      BY <1>1, <1>5, Held DEF Identity, At, ReqOK
    <2>2. QED
      BY <1>1, <2>1, IdentityRows
  <1>6. QED
    BY <1>1, <1>2, <1>3, <1>4, <1>5, NextCases

(* With one request at a time, the handler that puts a machine into        *)
(* service does so with the key it read or was given.                      *)
THEOREM SerialActivatesKeyItSaw ==
  ASSUME NEW only, Workers = {only} PROVE SerialSpec => ActivatesKeyItSaw
  <1> DEFINE Saw == \A m \in Machines :
                 machine[m].status # "active" /\ machine'[m].status = "active" =>
                    \E w \in Workers : req[w].machine = m /\ req[w].key = machine'[m].key
  <1>1. SerialSpec => [](RosterInv /\ SerialOK(only))
    BY SerialInvariance
  <1>2. ASSUME RosterInv, SerialOK(only), [SerialNext]_vars PROVE Saw
    <2> SUFFICES ASSUME NEW m \in Machines,
                        machine[m].status # "active", machine'[m].status = "active"
                 PROVE  \E w \in Workers : req[w].machine = m /\ req[w].key = machine'[m].key
      OBVIOUS
    <2>1. IntoService(m) /\ machine'[m].key = machine[m].key
      BY <1>2, Activated
    <2>2. PICK w \in Workers : req[w].machine = m /\ (EnableWrite(w) \/ AssignMachine(w))
      BY <2>1 DEF IntoService
    <2>3. w = only /\ ReqOK(req[only])
      BY <1>2, <2>2 DEF RosterInv
    <2>4. req[only].pc = "assign" \/ req[only].op = "enable"
      BY <2>2, <2>3 DEF EnableWrite, AssignMachine, At, ReqOK
    <2>5. QED
      BY <1>2, <2>1, <2>2, <2>3, <2>4 DEF SerialOK, RowsOK
  <1>3. RosterInv /\ SerialOK(only) /\ [SerialNext]_vars => [Saw]_vars
    BY <1>2
  <1>4. QED
    BY <1>1, <1>3, PTL DEF SerialSpec, ActivatesKeyItSaw

(* With one request at a time, only an explicit enable or "Enable & link"  *)
(* puts a disabled machine back into service.                              *)
THEOREM SerialDisabledStaysOut ==
  ASSUME NEW only, Workers = {only} PROVE SerialSpec => DisabledStaysOut
  <1> DEFINE Stays == \A m \in Machines :
                 machine[m].status = "disabled" /\ machine'[m].status = "active" =>
                    \E w \in Workers : req[w].op \in {"enable", "link"} /\ req[w].machine = m
  <1>1. SerialSpec => [](RosterInv /\ SerialOK(only))
    BY SerialInvariance
  <1>2. ASSUME RosterInv, SerialOK(only), [SerialNext]_vars PROVE Stays
    <2> SUFFICES ASSUME NEW m \in Machines,
                        machine[m].status = "disabled", machine'[m].status = "active"
                 PROVE  \E w \in Workers : req[w].op \in {"enable", "link"} /\ req[w].machine = m
      OBVIOUS
    <2>1. IntoService(m)
      BY <1>2, Activated
    <2>2. PICK w \in Workers : req[w].machine = m /\ (EnableWrite(w) \/ AssignMachine(w))
      BY <2>1 DEF IntoService
    <2>3. w = only /\ ReqOK(req[only]) /\ StoreInv
      BY <1>2, <2>2, InvParts DEF RosterInv
    <2>4. CASE EnableWrite(only)
      BY <2>2, <2>3, <2>4 DEF EnableWrite, At, ReqOK
    <2>5. CASE AssignMachine(only)
      <3>1. req[only].pc = "assign" /\ req[only].op \in {"create", "update", "adopt", "link"}
        BY <2>3, <2>5 DEF AssignMachine, At, ReqOK
      <3>2. req[only].op \notin {"create", "adopt"}
        BY <1>2, <2>2, <2>3, <3>1 DEF SerialOK, RowsOK
      <3>3. req[only].op # "update"
        <4>1. SUFFICES ASSUME req[only].op = "update" PROVE FALSE
          OBVIOUS
        <4>2. req[only].status = "disabled"
          BY <1>2, <2>2, <2>3, <4>1 DEF SerialOK, RowsOK
        <4>3. SetMachineAssignment(m, req[only].addr, req[only].eps)
          BY <2>2, <2>3, <2>5, <4>1, <4>2 DEF AssignMachine
        <4>4. machine'[m].status = machine[m].status
          BY <2>3, <4>3 DEF SetMachineAssignment, Assign, StoreInv, StoreTypeOK
        <4>5. QED
          BY <4>4
      <3>4. QED
        BY <2>2, <2>3, <3>1, <3>2, <3>3
    <2>6. QED
      BY <2>2, <2>3, <2>4, <2>5
  <1>3. RosterInv /\ SerialOK(only) /\ [SerialNext]_vars => [Stays]_vars
    BY <1>2
  <1>4. QED
    BY <1>1, <1>3, PTL DEF SerialSpec, DisabledStaysOut
=============================================================================
