----------------------------- MODULE Addresses -----------------------------
(***************************************************************************)
(* The address pool and the lists of prefixes: ipam.Pool, the AllowedIPs   *)
(* of wg, and what the two mean to WireGuard, over address spaces of a few *)
(* bits.  Family 4 has Bits4 bits (for 32) and one spelling per address;   *)
(* family 6 has Bits6 (for 128) and two, the canonical one and a longer    *)
(* one.  The table keeps addresses as they were typed.                     *)
(*                                                                         *)
(* A list of allowed IPs is a set of prefixes here: no operation of the    *)
(* code depends on their order but the choice of the pair to complain of.  *)
(***************************************************************************)
EXTENDS Naturals, FiniteSets, FiniteSetsExt

CONSTANTS
    Machines,       \* machine rows
    Families,       \* families of the addresses that are typed
    Bits4, Bits6,   \* bits of an address
    Pools,          \* vpn_cidr: the pools that are tried
    Lists           \* AllowedIPs lists endpoints may have

Bits(f) == IF f = 4 THEN Bits4 ELSE Bits6

Address == UNION {{[fam |-> f, val |-> v] : v \in 0..2 ^ Bits(f) - 1} : f \in {4, 6}}

Prefix == UNION {{[fam |-> f, base |-> v, len |-> n] :
                     v \in 0..2 ^ Bits(f) - 1, n \in 0..Bits(f)} : f \in {4, 6}}

ASSUME AddressesAssumption ==
    /\ Families \subseteq {4, 6}
    /\ Bits4 \in Nat \ {0} /\ Bits6 \in Nat /\ Bits4 < Bits6
    /\ Pools \subseteq Prefix /\ \A p \in Pools : p.fam \in Families
    /\ Lists \subseteq SUBSET Prefix

VARIABLES
    pool,           \* Pool.prefix
    addr,           \* machine.address, as typed; none when empty
    lists           \* AllowedIPs of two endpoints a machine may use together

poolVars == <<pool, addr, lists>>

Spellings(f) == IF f = 4 THEN {"canonical"} ELSE {"canonical", "long"}

Typed == UNION {{[fam |-> f, val |-> v, as |-> s] :
                    v \in 0..2 ^ Bits(f) - 1, s \in Spellings(f)} : f \in Families}

NoAddress == [fam |-> 0, val |-> 0, as |-> "none"]

(* netip.ParseAddr, Addr.String.                                           *)
Parse(t) == [fam |-> t.fam, val |-> t.val]
Spell(a) == [fam |-> a.fam, val |-> a.val, as |-> "canonical"]

-----------------------------------------------------------------------------
(* Prefixes.                                                               *)

Size(p) == 2 ^ (Bits(p.fam) - p.len)

Masked(p) == [p EXCEPT !.base = @ - (@ % Size(p))]

Contains(p, a) == p.fam = a.fam /\ a.val \div Size(p) = p.base \div Size(p)

(* netip.Prefix.Overlaps: the shorter contains the other's address.        *)
Overlaps(p, q) ==
    /\ p.fam = q.fam
    /\ IF p.len <= q.len THEN p.base \div Size(p) = q.base \div Size(p)
                         ELSE p.base \div Size(q) = q.base \div Size(q)

ParseAllowedIPs(L) == {Masked(p) : p \in L}

DefaultAllowedIPs == {[fam |-> 4, base |-> 0, len |-> 0]}

(* Mutant of AllowedIPsOr: an empty list routes nothing.                   *)
AllowedIPsOrNone(L) == ParseAllowedIPs(L)

AllowedIPsOr(L) == ParseAllowedIPs(IF L = {} THEN DefaultAllowedIPs ELSE L)

Overlap(A, B) == \E p \in A, q \in B : Overlaps(p, q)

(* Mutant of Rendered: one bit short, a pair of addresses to every peer.   *)
RenderedPair(t) == Masked([fam |-> t.fam, base |-> t.val, len |-> Bits4 - 1])

(* An address as ClientConfig, ConcentratorConfig and expected-peers write *)
(* it, with "/32" appended, and as WireGuard reads that.                   *)
Rendered(t) == Masked([fam |-> t.fam, base |-> t.val, len |-> Bits4])

(* allowedCovers, of a list and an address that parse.                     *)
AllowedCovers(L, a) == \E p \in L : Contains(p, a)

-----------------------------------------------------------------------------
(* The pool.                                                               *)

NoBroadcast == [fam |-> 0, val |-> 0]

(* The host bits set, modulo the width (1 << 32 is 0 for a /0 pool).       *)
Broadcast ==
    LET host == Bits4 - pool.len
        mask == (2 ^ host - 1) % 2 ^ Bits4 IN
    IF pool.fam # 4 \/ pool.len >= Bits4 - 1 THEN NoBroadcast
    ELSE [fam |-> 4, val |-> pool.base + mask]

Network == [fam |-> pool.fam, val |-> pool.base]

(* UsedAddresses.                                                          *)
Used == {addr[m] : m \in Machines} \ {NoAddress}

(* Mutant of Validate: an address in use is accepted.                      *)
ValidateUsed(t) ==
    /\ Contains(pool, Parse(t))
    /\ Parse(t) # Network /\ Parse(t) # Broadcast

(* Validate compares with the used addresses as they are spelled.          *)
Validate(t) ==
    /\ Contains(pool, Parse(t))
    /\ Parse(t) # Network /\ Parse(t) # Broadcast
    /\ t \notin Used

(* Mutant of Free: the broadcast address is handed out when it comes last. *)
FreeToTheEnd ==
    {a \in Address : /\ Contains(pool, a) /\ a.val > pool.base
                     /\ a \notin {Parse(t) : t \in Used}}

(* What NextFree may return: it goes up from the network address to the    *)
(* broadcast address or the end of the pool.                               *)
Free ==
    {a \in Address : /\ Contains(pool, a) /\ a.val > pool.base
                     /\ Broadcast # NoBroadcast => a.val < Broadcast.val
                     /\ a \notin {Parse(t) : t \in Used}}

NextFree == {Spell(a) : a \in {b \in Free : \A c \in Free : b.val <= c.val}}

-----------------------------------------------------------------------------
(* Behaviours: addresses are typed, handed out and given back; endpoints   *)
(* are edited.                                                             *)

PoolInit ==
    /\ pool \in {Masked(p) : p \in Pools}
    /\ addr = [m \in Machines |-> NoAddress]
    /\ lists \in [1..2 -> Lists]

(* An administrator types an address for a machine (approve, edit, adopt). *)
Assign(m, t) ==
    /\ Validate(t)
    /\ addr' = [addr EXCEPT ![m] = t]
    /\ UNCHANGED <<pool, lists>>

(* Enrolment, and the suggestion of the forms.                             *)
Enroll(m) ==
    /\ addr[m] = NoAddress
    /\ \E t \in NextFree : addr' = [addr EXCEPT ![m] = t]
    /\ UNCHANGED <<pool, lists>>

Release(m) ==
    /\ addr[m] # NoAddress
    /\ addr' = [addr EXCEPT ![m] = NoAddress]
    /\ UNCHANGED <<pool, lists>>

PoolNext == \E m \in Machines : Enroll(m) \/ Release(m) \/ \E t \in Typed : Assign(m, t)

PoolSpec == PoolInit /\ [][PoolNext]_poolVars

-----------------------------------------------------------------------------
(* Properties.                                                             *)

(* The types of the pool, the address column and the two lists.            *)
PoolTypeOK ==
    /\ pool \in Prefix /\ pool = Masked(pool)
    /\ addr \in [Machines -> Typed \cup {NoAddress}]
    /\ lists \in [1..2 -> Lists]

(* An address belongs to one machine ("An address may be assigned to at    *)
(* most one machine"), by its value, not its spelling.                     *)
OneMachineEach ==
    \A m, n \in Machines :
        addr[m] # NoAddress /\ addr[n] # NoAddress /\ Parse(addr[m]) = Parse(addr[n]) => m = n

(* What is handed out can be typed and the reverse: NextFree finds an      *)
(* address exactly when Validate accepts one, and then the lowest of them, *)
(* in pools of every size.                                                 *)
NextFreeIsLowestValid ==
    LET valid == {t \in Typed : t.fam = pool.fam /\ Validate(t)} IN
    /\ NextFree = {} <=> valid = {}
    /\ \A t \in NextFree : t \in valid /\ \A u \in valid : t.val <= u.val

(* broadcast: in a /31 or /32 pool "every address is usable".              *)
SmallPoolsUsable ==
    pool.fam = 4 /\ pool.len >= Bits4 - 1 /\ Used = {} =>
        \A a \in Address : Contains(pool, a) => Validate(Spell(a))

(* The config and the peer lists route to a machine its own address and    *)
(* nothing else, so that no machine's peer takes another's traffic, and    *)
(* the hub that applies them shows no mismatch (ParseAllowedIPs: "a bare   *)
(* address is taken as a host route").                                     *)
RoutesItself ==
    \A m \in Machines : addr[m] # NoAddress =>
        \A a \in Address : AllowedCovers({Rendered(addr[m])}, a) <=> a = Parse(addr[m])

(* The overlap check refuses exactly the pairs of endpoints on which some  *)
(* address would be routed to both peers: those of the rendered config.    *)
OverlapIsSharedAddress ==
    LET routes(L) == {a \in Address :
                        \E p \in (IF L = {} THEN DefaultAllowedIPs ELSE L) : Contains(p, a)} IN
    Overlap(AllowedIPsOr(lists[1]), AllowedIPsOr(lists[2]))
        <=> routes(lists[1]) \cap routes(lists[2]) # {}
=============================================================================
