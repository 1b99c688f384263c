---------------------------- MODULE StatusProofs ---------------------------
(***************************************************************************)
(* Proofs about StatusStore: handshakes never go back, and last_seen is    *)
(* the latest one reported, whatever the network does with the uploads; a  *)
(* listed rate is never more than what moved, and two pages that compute   *)
(* it differently show the same one.                                       *)
(***************************************************************************)
EXTENDS StatusStore, FiniteSetTheorems, WellFoundedInduction, TLAPS

(* The types the proofs need.                                              *)
Types ==
    /\ clock \in Nat
    /\ hub \in [Endpoints -> Peers]
    /\ moved \in [Endpoints -> [Keys -> Nat]]
    /\ wire \subseteq Upload
    /\ handling \subseteq Request
    /\ statusPeer \in [Endpoints -> UNION {[K -> Nat] : K \in SUBSET Keys}]
    /\ keyOf \in [Machines -> Keys]
    /\ lastSeen \in [Machines -> Nat]
    /\ reported \in [Keys -> Nat]
    /\ rekeyed \subseteq Machines

(* A stored handshake was reported.                                        *)
StoredReported ==
    \A e \in Endpoints : \A k \in DOMAIN statusPeer[e] : statusPeer[e][k] <= reported[k]

(* The machines' column follows, as long as the key stays.                 *)
Followed == \A m \in Machines \ rekeyed : lastSeen[m] = reported[keyOf[m]]

IInv == Types /\ StoredReported /\ Followed

-----------------------------------------------------------------------------
(* No peers, some peers: what a dump may be.                               *)
LEMMA PeersElim ==
    ASSUME NEW P \in Peers
    PROVE /\ DOMAIN P \subseteq Keys
          /\ \A k \in DOMAIN P : P[k] \in Peer
  BY DEF Peers

LEMMA PeersIntro ==
    ASSUME NEW K, K \subseteq Keys, NEW P, P \in [K -> Peer]
    PROVE P \in Peers
  BY DEF Peers

LEMMA NoPeersType == NoPeers \in Peers
<1>1. NoPeers \in [{} -> Peer]
  BY DEF NoPeers
<1> QED BY <1>1, PeersIntro

LEMMA StatusElim ==
    ASSUME Types, NEW e \in Endpoints
    PROVE /\ DOMAIN statusPeer[e] \subseteq Keys
          /\ \A k \in DOMAIN statusPeer[e] : statusPeer[e][k] \in Nat
<1>1. statusPeer[e] \in UNION {[K -> Nat] : K \in SUBSET Keys}
  BY DEF Types
<1> QED BY <1>1

-----------------------------------------------------------------------------
LEMMA InitInv == ASSUME StatusAssumption, Init PROVE IInv
<1> USE StatusAssumption DEF Init
<1>1. NoPeers \in [{} -> Nat] /\ DOMAIN NoPeers = {}
  BY DEF NoPeers
<1>2. NoPeers \in UNION {[K -> Nat] : K \in SUBSET Keys}
  BY <1>1
<1>3. Types
  BY <1>2, NoPeersType DEF Types, StatusAssumption
<1>4. StoredReported
  BY <1>1 DEF StoredReported
<1>5. Followed
  BY DEF Followed, StatusAssumption
<1> QED BY <1>3, <1>4, <1>5 DEF IInv

(* What the concentrators do changes only the dump to come.                *)
LEMMA HubStep ==
    ASSUME IInv, NEW e \in Endpoints, NEW k \in Keys,
           Carry(e, k) \/ Drop(e, k) \/ Handshake(e, k) \/ Transfer(e, k) \/ Restart(e)
    PROVE IInv'
<1> DEFINE H == hub[e]
<1>1. H \in Peers /\ clock \in Nat /\ moved[e][k] \in Nat
  BY DEF IInv, Types
<1>2. DOMAIN H \subseteq Keys /\ \A j \in DOMAIN H : H[j] \in Peer
  BY <1>1, PeersElim
<1>3. [hs |-> 0, bytes |-> 0] \in Peer
  BY DEF Peer
<1>4. hub' \in [Endpoints -> Peers]
  <2>1. ASSUME NEW P \in Peers, hub' = [hub EXCEPT ![e] = P]
        PROVE hub' \in [Endpoints -> Peers]
    BY <2>1 DEF IInv, Types
  <2>2. CASE Carry(e, k)
    <3> DEFINE P == [j \in DOMAIN H \cup {k} |-> IF j = k THEN [hs |-> 0, bytes |-> 0] ELSE H[j]]
    <3>1. P \in [DOMAIN H \cup {k} -> Peer]
      BY <1>2, <1>3
    <3>2. P \in Peers
      BY <1>2, <3>1, PeersIntro
    <3>3. hub' = [hub EXCEPT ![e] = P]
      BY <2>2 DEF Carry
    <3> QED BY <2>1, <3>2, <3>3
  <2>3. CASE Drop(e, k)
    <3> DEFINE P == [j \in DOMAIN H \ {k} |-> H[j]]
    <3>1. P \in [DOMAIN H \ {k} -> Peer]
      BY <1>2
    <3>2. P \in Peers
      BY <1>2, <3>1, PeersIntro
    <3>3. hub' = [hub EXCEPT ![e] = P]
      BY <2>3 DEF Drop
    <3> QED BY <2>1, <3>2, <3>3
  <2>4. CASE Restart(e)
    <3> DEFINE P == [j \in DOMAIN H |-> [hs |-> 0, bytes |-> 0]]
    <3>1. P \in [DOMAIN H -> Peer]
      BY <1>3
    <3>2. P \in Peers
      BY <1>2, <3>1, PeersIntro
    <3>3. hub' = [hub EXCEPT ![e] = P]
      BY <2>4 DEF Restart
    <3> QED BY <2>1, <3>2, <3>3
  <2>5. CASE Handshake(e, k)
    <3> DEFINE P == [H EXCEPT ![k].hs = clock]
    <3>1. P \in [DOMAIN H -> Peer]
      <4>1. H \in [DOMAIN H -> Peer]
        BY <1>1 DEF Peers
      <4> QED BY <4>1, <1>1 DEF Peer
    <3>2. P \in Peers
      BY <1>2, <3>1, PeersIntro
    <3>3. hub' = [hub EXCEPT ![e] = P]
      BY <2>5 DEF Handshake
    <3> QED BY <2>1, <3>2, <3>3
  <2>6. CASE Transfer(e, k)
    <3> DEFINE P == [H EXCEPT ![k].bytes = @ + 1]
    <3>1. P \in [DOMAIN H -> Peer]
      <4>1. H \in [DOMAIN H -> Peer]
        BY <1>1 DEF Peers
      <4>2. k \in DOMAIN H
        BY <2>6 DEF Transfer
      <4>3. H[k].bytes + 1 \in Nat
        BY <1>2, <4>2 DEF Peer
      <4>4. [H[k] EXCEPT !.bytes = H[k].bytes + 1] \in Peer
        BY <1>2, <4>2, <4>3 DEF Peer
      <4>5. P = [H EXCEPT ![k] = [H[k] EXCEPT !.bytes = H[k].bytes + 1]]
        BY <4>2
      <4> HIDE DEF P
      <4> QED BY <4>1, <4>4, <4>5
    <3>2. P \in Peers
      BY <1>2, <3>1, PeersIntro
    <3>3. hub' = [hub EXCEPT ![e] = P]
      BY <2>6 DEF Transfer
    <3> QED BY <2>1, <3>2, <3>3
  <2> QED BY <2>2, <2>3, <2>4, <2>5, <2>6
<1>5. moved' \in [Endpoints -> [Keys -> Nat]]
  <2>1. CASE Transfer(e, k)
    <3>1. [moved[e] EXCEPT ![k] = @ + 1] \in [Keys -> Nat]
      BY DEF IInv, Types
    <3>2. moved' = [moved EXCEPT ![e] = [moved[e] EXCEPT ![k] = @ + 1]]
      BY <2>1 DEF Transfer, IInv, Types
    <3> QED BY <3>1, <3>2 DEF IInv, Types
  <2>2. CASE ~Transfer(e, k)
    BY <2>2 DEF IInv, Types, Carry, Drop, Restart, Handshake
  <2> QED BY <2>1, <2>2
<1>6. UNCHANGED <<clock, wire, handling, statusPeer, keyOf, lastSeen, reported, rekeyed>>
  BY DEF Carry, Drop, Restart, Handshake, Transfer, tables
<1> QED BY <1>4, <1>5, <1>6 DEF IInv, Types, StoredReported, Followed

(* Uploads are made of dumps; the network only loses and repeats them.     *)
LEMMA WireStep ==
    ASSUME IInv,
           \/ Tick
           \/ \E e \in Endpoints : \E P \in {hub[e], NoPeers} : Push(e, P)
           \/ \E u \in wire : Lose(u) \/ \E again \in BOOLEAN : Receive(u, again)
    PROVE IInv'
<1>1. wire' \subseteq Upload
  <2>1. CASE Tick
    BY <2>1 DEF Tick, IInv, Types
  <2>2. CASE \E e \in Endpoints : \E P \in {hub[e], NoPeers} : Push(e, P)
    <3>1. PICK e \in Endpoints : \E P \in {hub[e], NoPeers} : Push(e, P)
      BY <2>2
    <3>0. PICK P \in {hub[e], NoPeers} : Push(e, P)
      BY <3>1
    <3>2. P \in Peers /\ moved[e] \in [Keys -> Nat]
      BY NoPeersType DEF IInv, Types
    <3>3. [ep |-> e, peers |-> P, moved |-> moved[e]] \in Upload
      BY <3>2 DEF Upload
    <3> QED BY <3>0, <3>3 DEF Push, IInv, Types
  <2>3. CASE \E u \in wire : Lose(u) \/ \E again \in BOOLEAN : Receive(u, again)
    BY <2>3 DEF Lose, Receive, IInv, Types
  <2> QED BY <2>1, <2>2, <2>3
<1>2. handling' \subseteq Request
  <2>1. CASE \E u \in wire : \E again \in BOOLEAN : Receive(u, again)
    <3>1. PICK u \in wire : \E again \in BOOLEAN : Receive(u, again)
      BY <2>1
    <3>2. u \in Upload /\ clock \in Nat
      BY DEF IInv, Types
    <3>3. [ep |-> u.ep, peers |-> u.peers, moved |-> u.moved, ts |-> clock] \in Request
      BY <3>2 DEF Upload, Request
    <3> QED BY <3>1, <3>3 DEF Receive, IInv, Types
  <2>2. CASE ~ \E u \in wire : \E again \in BOOLEAN : Receive(u, again)
    <3>1. handling' = handling
      BY <2>2 DEF Tick, Push, Lose
    <3> QED BY <3>1 DEF IInv, Types
  <2> QED BY <2>1, <2>2
<1>3. clock' \in Nat
  <2>1. CASE Tick
    BY <2>1 DEF Tick, IInv, Types
  <2>2. CASE ~Tick
    <3>1. clock' = clock
      BY <2>2 DEF Push, Lose, Receive
    <3> QED BY <3>1 DEF IInv, Types
  <2> QED BY <2>1, <2>2
<1>4. UNCHANGED <<hub, moved, statusPeer, keyOf, lastSeen, reported, rekeyed>>
  BY DEF Tick, Push, Lose, Receive, tables
<1> QED BY <1>1, <1>2, <1>3, <1>4 DEF IInv, Types, StoredReported, Followed

-----------------------------------------------------------------------------
(* The transaction: for a reported peer it stores the later handshake.     *)
LEMMA Stored ==
    ASSUME IInv, NEW h \in handling, ReplaceStatus(h)
    PROVE /\ h.ep \in Endpoints /\ DOMAIN h.peers \subseteq Keys
          /\ DOMAIN statusPeer'[h.ep] = DOMAIN h.peers
          /\ \A k \in DOMAIN h.peers :
                /\ h.peers[k].hs \in Nat
                /\ statusPeer'[h.ep][k] \in Nat
                /\ statusPeer'[h.ep][k] = KnownHandshake(h.ep, h.peers, k)
                /\ statusPeer'[h.ep][k] >= h.peers[k].hs
                /\ k \in DOMAIN statusPeer[h.ep] => statusPeer'[h.ep][k] >= statusPeer[h.ep][k]
          /\ \A e \in Endpoints \ {h.ep} : statusPeer'[e] = statusPeer[e]
<1>1. h.ep \in Endpoints /\ h.peers \in Peers
  BY DEF IInv, Types, Request
<1>2. DOMAIN h.peers \subseteq Keys /\ \A k \in DOMAIN h.peers : h.peers[k].hs \in Nat
  BY <1>1, PeersElim DEF Peer
<1> DEFINE hs == [k \in DOMAIN h.peers |-> KnownHandshake(h.ep, h.peers, k)]
<1>3. statusPeer' = [statusPeer EXCEPT ![h.ep] = hs]
  BY DEF ReplaceStatus
<1>4. statusPeer'[h.ep] = hs /\ \A e \in Endpoints \ {h.ep} : statusPeer'[e] = statusPeer[e]
  BY <1>1, <1>3 DEF IInv, Types
<1>5. ASSUME NEW k \in DOMAIN h.peers
      PROVE /\ KnownHandshake(h.ep, h.peers, k) \in Nat
            /\ KnownHandshake(h.ep, h.peers, k) >= h.peers[k].hs
            /\ k \in DOMAIN statusPeer[h.ep] =>
                  KnownHandshake(h.ep, h.peers, k) >= statusPeer[h.ep][k]
  <2>1. k \in DOMAIN statusPeer[h.ep] => statusPeer[h.ep][k] \in Nat
    BY <1>1, StatusElim DEF IInv
  <2>2. h.peers[k].hs \in Nat
    BY <1>2
  <2> QED BY <2>1, <2>2 DEF KnownHandshake
<1> QED BY <1>1, <1>2, <1>4, <1>5

LEMMA StoreStep ==
    ASSUME IInv, NEW h \in handling, ReplaceStatus(h)
    PROVE IInv' /\ \A m \in Machines : lastSeen'[m] >= lastSeen[m]
<1> DEFINE P == h.peers
           e == h.ep
<1>1. /\ e \in Endpoints /\ DOMAIN P \subseteq Keys
      /\ DOMAIN statusPeer'[e] = DOMAIN P
      /\ \A k \in DOMAIN P : P[k].hs \in Nat /\ statusPeer'[e][k] \in Nat
      /\ \A d \in Endpoints \ {e} : statusPeer'[d] = statusPeer[d]
  BY Stored
<1>2. \A k \in Keys : /\ reported[k] \in Nat /\ reported'[k] \in Nat
                      /\ reported'[k] >= reported[k]
                      /\ k \in DOMAIN P => reported'[k] >= P[k].hs
                      /\ reported'[k] = reported[k] \/ (k \in DOMAIN P /\ reported'[k] = P[k].hs)
  <2> SUFFICES ASSUME NEW k \in Keys
               PROVE /\ reported[k] \in Nat /\ reported'[k] \in Nat
                     /\ reported'[k] >= reported[k]
                     /\ k \in DOMAIN P => reported'[k] >= P[k].hs
                     /\ reported'[k] = reported[k] \/ (k \in DOMAIN P /\ reported'[k] = P[k].hs)
    OBVIOUS
  <2>1. reported[k] \in Nat
    BY DEF IInv, Types
  <2>2. reported'[k] = IF k \in DOMAIN P /\ P[k].hs > reported[k] THEN P[k].hs ELSE reported[k]
    BY DEF ReplaceStatus
  <2>3. k \in DOMAIN P => P[k].hs \in Nat
    BY <1>1
  <2> HIDE DEF P
  <2> QED BY <2>1, <2>2, <2>3
<1>3. reported' \in [Keys -> Nat]
  BY <1>2 DEF ReplaceStatus
<1>4. \A k \in DOMAIN P : \/ statusPeer'[e][k] = P[k].hs
                          \/ k \in DOMAIN statusPeer[e] /\ statusPeer'[e][k] = statusPeer[e][k]
  BY Stored DEF KnownHandshake
<1>5. StoredReported'
  <2> SUFFICES ASSUME NEW d \in Endpoints, NEW k \in DOMAIN statusPeer'[d]
               PROVE statusPeer'[d][k] <= reported'[k]
    BY DEF StoredReported
  <2>1. CASE d = e
    <3>1. k \in DOMAIN P /\ k \in Keys
      BY <1>1, <2>1
    <3>2. CASE statusPeer'[e][k] = P[k].hs
      BY <1>1, <1>2, <2>1, <3>1, <3>2
    <3>3. CASE k \in DOMAIN statusPeer[e] /\ statusPeer'[e][k] = statusPeer[e][k]
      <4>1. statusPeer[e][k] <= reported[k] /\ statusPeer[e][k] \in Nat
        BY <1>1, <3>1, <3>3 DEF IInv, StoredReported
      <4> QED BY <1>2, <2>1, <3>1, <3>3, <4>1
    <3> QED BY <1>4, <3>1, <3>2, <3>3
  <2>2. CASE d # e
    <3>1. statusPeer'[d] = statusPeer[d]
      BY <1>1, <2>2
    <3>2. k \in Keys /\ statusPeer[d][k] \in Nat
      BY <3>1, StatusElim DEF IInv
    <3>3. statusPeer[d][k] <= reported[k]
      BY <3>1 DEF IInv, StoredReported
    <3> QED BY <1>2, <3>1, <3>2, <3>3
  <2> QED BY <2>1, <2>2
<1>6. ASSUME NEW m \in Machines
      PROVE /\ lastSeen'[m] \in Nat /\ lastSeen'[m] >= lastSeen[m]
            /\ lastSeen[m] = reported[keyOf[m]] => lastSeen'[m] = reported'[keyOf[m]]
  <2> DEFINE k == keyOf[m]
  <2>1. k \in Keys /\ lastSeen[m] \in Nat
    BY DEF IInv, Types
  <2>2. reported'[k] = IF k \in DOMAIN P /\ P[k].hs > reported[k] THEN P[k].hs ELSE reported[k]
    BY <2>1 DEF ReplaceStatus
  <2>3. CASE k \notin DOMAIN P
    <3>1. lastSeen'[m] = lastSeen[m]
      BY <2>3 DEF ReplaceStatus
    <3> QED BY <2>1, <2>2, <2>3, <3>1
  <2>4. CASE k \in DOMAIN P
    <3> DEFINE v == KnownHandshake(e, P, k)
    <3>1. lastSeen'[m] = IF v > 0 THEN SeenAfter(m, v) ELSE lastSeen[m]
      BY <2>4 DEF ReplaceStatus
    <3>2. statusPeer'[e][k] = v /\ v \in Nat /\ v >= P[k].hs /\ P[k].hs \in Nat
      BY <2>4, Stored
    <3>3. v = P[k].hs \/ v <= reported[k]
      <4>1. k \in DOMAIN statusPeer[e] => statusPeer[e][k] <= reported[k]
        BY <1>1 DEF IInv, StoredReported
      <4> QED BY <4>1 DEF KnownHandshake
    <3>4. reported[k] \in Nat
      BY <1>2, <2>1
    <3>5. reported'[keyOf[m]] = IF P[k].hs > reported[k] THEN P[k].hs ELSE reported[k]
      BY <2>2, <2>4
    <3>6. lastSeen'[m] = IF v > 0 /\ lastSeen[m] < v THEN v ELSE lastSeen[m]
      BY <3>1 DEF SeenAfter
    <3>7. lastSeen[m] = reported[keyOf[m]] <=> lastSeen[m] = reported[k]
      OBVIOUS
    <3> DEFINE p == P[k].hs
    <3>8. p \in Nat /\ v >= p /\ (v = p \/ v <= reported[k])
          /\ reported'[keyOf[m]] = IF p > reported[k] THEN p ELSE reported[k]
      BY <3>2, <3>3, <3>5
    <3>9. lastSeen[m] \in Nat /\ v \in Nat
      BY <2>1, <3>2
    <3> HIDE DEF v, k, p
    <3> QED BY <3>4, <3>6, <3>7, <3>8, <3>9
  <2> QED BY <2>3, <2>4
<1>7. lastSeen' \in [Machines -> Nat]
  BY <1>6 DEF ReplaceStatus
<1>8. statusPeer' \in [Endpoints -> UNION {[K -> Nat] : K \in SUBSET Keys}]
  <2> DEFINE hs == [k \in DOMAIN P |-> KnownHandshake(e, P, k)]
  <2>1. statusPeer' = [statusPeer EXCEPT ![e] = hs]
    BY DEF ReplaceStatus
  <2>2. hs \in [DOMAIN P -> Nat]
    BY Stored
  <2>3. hs \in UNION {[K -> Nat] : K \in SUBSET Keys}
    BY <1>1, <2>2
  <2> HIDE DEF hs
  <2> QED BY <2>1, <2>3 DEF IInv, Types
<1>9. UNCHANGED <<clock, hub, moved, wire, keyOf, rekeyed>> /\ handling' \subseteq Request
  BY DEF ReplaceStatus, IInv, Types
<1>10. Types'
  BY <1>3, <1>7, <1>8, <1>9 DEF IInv, Types
<1>11. Followed'
  BY <1>6, <1>9 DEF IInv, Followed
<1> QED BY <1>5, <1>6, <1>10, <1>11 DEF IInv

LEMMA InvStep == ASSUME IInv, [Next]_vars PROVE IInv'
<1>1. CASE Tick
  BY <1>1, WireStep
<1>2. ASSUME NEW e \in Endpoints, Restart(e)
      PROVE IInv'
  <2>1. CASE Keys = {}
    <3>1. hub' \in [Endpoints -> Peers]
      <4> DEFINE P == [j \in DOMAIN hub[e] |-> [hs |-> 0, bytes |-> 0]]
      <4>1. hub[e] \in Peers
        BY DEF IInv, Types
      <4>2. DOMAIN hub[e] \subseteq Keys
        BY <4>1, PeersElim
      <4>3. P \in [DOMAIN hub[e] -> Peer]
        BY DEF Peer
      <4>4. P \in Peers
        BY <4>2, <4>3, PeersIntro
      <4> HIDE DEF P
      <4>5. hub' = [hub EXCEPT ![e] = P]
        BY <1>2 DEF Restart, P
      <4> QED BY <4>4, <4>5 DEF IInv, Types
    <3>2. UNCHANGED <<clock, moved, wire, handling, statusPeer, keyOf, lastSeen, reported, rekeyed>>
      BY <1>2 DEF Restart, tables
    <3> QED BY <3>1, <3>2 DEF IInv, Types, StoredReported, Followed
  <2>2. CASE Keys # {}
    BY <1>2, <2>2, HubStep
  <2> QED BY <2>1, <2>2
<1>3. ASSUME NEW e \in Endpoints, \E P \in {hub[e], NoPeers} : Push(e, P)
      PROVE IInv'
  BY <1>3, WireStep
<1>4. ASSUME NEW e \in Endpoints, NEW k \in Keys,
             Carry(e, k) \/ Drop(e, k) \/ Handshake(e, k) \/ Transfer(e, k)
      PROVE IInv'
  BY <1>4, HubStep
<1>5. ASSUME NEW u \in wire, Lose(u) \/ \E again \in BOOLEAN : Receive(u, again)
      PROVE IInv'
  BY <1>5, WireStep
<1>6. ASSUME NEW h \in handling, ReplaceStatus(h)
      PROVE IInv'
  BY <1>6, StoreStep
<1>7. ASSUME NEW m \in Machines, NEW k \in Keys, Rekey(m, k)
      PROVE IInv'
  <2>1. keyOf' \in [Machines -> Keys] /\ rekeyed' \subseteq Machines
    BY <1>7 DEF Rekey, IInv, Types
  <2>2. UNCHANGED <<clock, hub, moved, wire, handling, statusPeer, lastSeen, reported>>
    BY <1>7 DEF Rekey
  <2>3. \A n \in Machines \ rekeyed' : n \in Machines \ rekeyed /\ keyOf'[n] = keyOf[n]
    BY <1>7 DEF Rekey, IInv, Types
  <2> QED BY <2>1, <2>2, <2>3 DEF IInv, Types, StoredReported, Followed
<1>8. CASE UNCHANGED vars
  BY <1>8 DEF vars, IInv, Types, StoredReported, Followed
<1> QED BY <1>1, <1>2, <1>3, <1>4, <1>5, <1>6, <1>7, <1>8 DEF Next

(* The invariant holds in every behaviour.                                 *)
THEOREM Invariance == ASSUME StatusAssumption PROVE Spec => []IInv
<1>1. Init => IInv
  BY InitInv
<1>2. IInv /\ [Next]_vars => IInv'
  BY InvStep
<1> QED BY <1>1, <1>2, PTL DEF Spec

(* While a machine keeps its key, last_seen is the latest handshake any     *)
(* endpoint's report ever had, whatever the order, loss or repetition of   *)
(* the uploads (ReplaceStatus; Machine.LastSeen).                          *)
THEOREM SeenFollowsReports ==
    ASSUME StatusAssumption PROVE Spec => []SeenIsLatestReported
<1>1. ASSUME IInv PROVE SeenIsLatestReported
  <2> SUFFICES ASSUME NEW m \in Machines \ rekeyed
               PROVE /\ lastSeen[m] = reported[keyOf[m]]
                     /\ \A e \in Endpoints : keyOf[m] \in DOMAIN statusPeer[e] =>
                           statusPeer[e][keyOf[m]] <= lastSeen[m]
    BY DEF SeenIsLatestReported, LatestReported
  <2>1. lastSeen[m] = reported[keyOf[m]]
    BY <1>1 DEF IInv, Followed
  <2> QED BY <1>1, <2>1 DEF IInv, StoredReported
<1>2. Spec => []IInv
  BY Invariance
<1> QED BY <1>1, <1>2, PTL

(* What is known of a peer's handshake never goes back while its endpoint  *)
(* reports it (ReplaceStatus keeps the previous value), and a machine's    *)
(* last_seen never does.                                                   *)
THEOREM HandshakesKept == ASSUME StatusAssumption PROVE Spec => HandshakeKept
<1> DEFINE Stays == \A e \in Endpoints :
                       \A k \in DOMAIN statusPeer[e] \cap DOMAIN statusPeer'[e] :
                          statusPeer'[e][k] >= statusPeer[e][k]
           Follows == \A m \in Machines : lastSeen'[m] >= lastSeen[m]
<1>1. ASSUME IInv, [Next]_vars PROVE Stays /\ Follows
  <2>1. CASE UNCHANGED <<statusPeer, lastSeen>>
    <3>1. \A e \in Endpoints : \A k \in DOMAIN statusPeer[e] : statusPeer[e][k] \in Nat
      BY <1>1, StatusElim DEF IInv
    <3>2. \A m \in Machines : lastSeen[m] \in Nat
      BY <1>1 DEF IInv, Types
    <3> QED BY <2>1, <3>1, <3>2
  <2>2. CASE \E h \in handling : ReplaceStatus(h)
    <3>1. PICK h \in handling : ReplaceStatus(h)
      BY <2>2
    <3>2. Follows
      BY <1>1, <3>1, StoreStep
    <3>3. SUFFICES ASSUME NEW e \in Endpoints,
                          NEW k \in DOMAIN statusPeer[e] \cap DOMAIN statusPeer'[e]
                   PROVE statusPeer'[e][k] >= statusPeer[e][k]
      BY <3>2
    <3>4. CASE e = h.ep
      BY <1>1, <3>1, <3>4, Stored
    <3>5. CASE e # h.ep
      <4>1. statusPeer'[e] = statusPeer[e]
        BY <1>1, <3>1, <3>5, Stored
      <4>2. statusPeer[e][k] \in Nat
        BY <1>1, StatusElim DEF IInv
      <4> QED BY <4>1, <4>2
    <3> QED BY <3>4, <3>5
  <2>3. UNCHANGED <<statusPeer, lastSeen>> \/ \E h \in handling : ReplaceStatus(h)
    BY <1>1 DEF Next, vars, Tick, Restart, Push, Carry, Drop, Handshake, Transfer, Lose,
                Receive, Rekey, tables
  <2> QED BY <2>1, <2>2, <2>3
<1>2. Spec => []IInv
  BY Invariance
<1>3. IInv /\ [Next]_vars => [Stays /\ Follows]_vars
  BY <1>1
<1> QED BY <1>2, <1>3, PTL DEF Spec, HandshakeKept

-----------------------------------------------------------------------------
(* The history.                                                            *)

(* The history is finite, and so are the requests.                         *)
HistoryInv ==
    /\ samples \in [Endpoints -> SUBSET Sample]
    /\ IsFiniteSet(handling)
    /\ \A e \in Endpoints : /\ IsFiniteSet(samples[e])
                            /\ \E n \in Nat : \A s \in samples[e] : s.nth <= n /\ s.ts <= n

(* What the hub has at P and M comes after x: it moved no less, and its    *)
(* counters went up by no more than that.                                  *)
GrowsTo(x, P, M) ==
    \A k \in Keys :
        /\ x.moved[k] <= M[k]
        /\ k \in DOMAIN x.peers \cap DOMAIN P =>
              P[k].bytes - x.peers[k].bytes <= M[k] - x.moved[k]

(* What the portal holds of an endpoint's reports, stored or about to be.  *)
Records(e) == samples[e] \cup {h \in handling : h.ep = e}

(* With one agent run at a time, an upload is no older than any record, so *)
(* records of different seconds are of different moments, in that order.   *)
GrowInv ==
    /\ \A u, v \in wire : u.ep = v.ep => u = v
    /\ \A u \in wire : GrowsTo(u, hub[u.ep], moved[u.ep])
    /\ \A e \in Endpoints : \A x \in Records(e) : x.ts <= clock /\ GrowsTo(x, hub[e], moved[e])
    /\ \A u \in wire : \A x \in Records(u.ep) : GrowsTo(x, u.peers, u.moved)
    /\ \A e \in Endpoints : \A x, y \in Records(e) : x.ts < y.ts => GrowsTo(x, y.peers, y.moved)

(* Where at most one report of an endpoint is received in a second, no     *)
(* second has two records of it.                                           *)
AloneInv ==
    /\ \A e \in Endpoints : \A x, y \in samples[e] : x.ts = y.ts => x = y
    /\ \A g, h \in handling : g.ep = h.ep /\ g.ts = h.ts => g = h
    /\ \A h \in handling : \A s \in samples[h.ep] : s.ts # h.ts

(* A dump, or a part of one.                                               *)
IsDump(x) == x.peers \in Peers /\ x.moved \in [Keys -> Nat]

(* What uploads, requests and rows are made of.                            *)
LEMMA Dumps ==
    ASSUME IInv, HistoryInv
    PROVE /\ \A u \in wire : u.ep \in Endpoints /\ IsDump(u)
          /\ \A h \in handling : h.ep \in Endpoints
          /\ \A e \in Endpoints : \A x \in Records(e) : x.ts \in Nat /\ IsDump(x)
          /\ \A e \in Endpoints : hub[e] \in Peers /\ moved[e] \in [Keys -> Nat]
<1>1. \A u \in wire : u.ep \in Endpoints /\ IsDump(u)
  BY DEF IInv, Types, Upload, IsDump
<1>2. \A h \in handling : h.ep \in Endpoints /\ h.ts \in Nat /\ IsDump(h)
  BY DEF IInv, Types, Request, IsDump
<1>3. \A e \in Endpoints : \A s \in samples[e] : s.ts \in Nat /\ IsDump(s)
  BY DEF HistoryInv, Sample, IsDump
<1> QED BY <1>1, <1>2, <1>3 DEF Records, IInv, Types

(* The numbers GrowsTo compares.                                           *)
LEMMA Counters ==
    ASSUME NEW x, IsDump(x), NEW k \in Keys
    PROVE /\ x.moved[k] \in Nat
          /\ k \in DOMAIN x.peers => x.peers[k].bytes \in Nat
  BY PeersElim DEF IsDump, Peer

(* A dump grows to itself.                                                 *)
LEMMA GrowsToItself == ASSUME NEW x, IsDump(x) PROVE GrowsTo(x, x.peers, x.moved)
<1> SUFFICES ASSUME NEW k \in Keys
             PROVE /\ x.moved[k] <= x.moved[k]
                   /\ k \in DOMAIN x.peers => x.peers[k].bytes - x.peers[k].bytes <= x.moved[k] - x.moved[k]
  BY DEF GrowsTo
<1> QED BY Counters

(* No concentrator loses count of what moved; a counter either starts anew *)
(* or goes up by as much as moved.                                         *)
LEMMA HubGrows ==
    ASSUME IInv, NEW e \in Endpoints,
           Restart(e) \/ \E k \in Keys : Carry(e, k) \/ Drop(e, k) \/ Handshake(e, k) \/ Transfer(e, k),
           NEW d \in Endpoints, NEW x, IsDump(x), GrowsTo(x, hub[d], moved[d])
    PROVE GrowsTo(x, hub'[d], moved'[d])
<1> DEFINE H == hub[d]
           M == moved[d]
<1>1. H \in Peers /\ M \in [Keys -> Nat]
  BY DEF IInv, Types
<1>2. DOMAIN H \subseteq Keys /\ \A k \in DOMAIN H : H[k] \in Peer
  BY <1>1, PeersElim
<1>3. \A j \in Keys :
         \/ moved'[d][j] = M[j] /\ j \notin DOMAIN hub'[d]
         \/ moved'[d][j] = M[j] /\ hub'[d][j].bytes = 0
         \/ moved'[d][j] = M[j] /\ j \in DOMAIN H /\ hub'[d][j].bytes = H[j].bytes
         \/ moved'[d][j] = M[j] + 1 /\ j \in DOMAIN H /\ hub'[d][j].bytes = H[j].bytes + 1
  <2> TAKE j \in Keys
  <2>0. hub \in [Endpoints -> Peers] /\ moved \in [Endpoints -> [Keys -> Nat]]
    BY DEF IInv, Types
  <2>1. CASE d # e
    <3>1. hub'[d] = H /\ moved'[d] = M
      BY <2>0, <2>1 DEF Restart, Carry, Drop, Handshake, Transfer
    <3> QED BY <3>1
  <2>2. CASE d = e /\ Restart(e)
    <3>1. hub'[d] = [i \in DOMAIN H |-> [hs |-> 0, bytes |-> 0]] /\ moved' = moved
      BY <2>0, <2>2 DEF Restart
    <3> QED BY <3>1
  <2>3. ASSUME NEW k \in Keys, Carry(e, k), d = e
        PROVE \/ moved'[d][j] = M[j] /\ j \notin DOMAIN hub'[d]
              \/ moved'[d][j] = M[j] /\ hub'[d][j].bytes = 0
              \/ moved'[d][j] = M[j] /\ j \in DOMAIN H /\ hub'[d][j].bytes = H[j].bytes
    <3>1. moved' = moved
          /\ hub'[d] = [i \in DOMAIN H \cup {k} |-> IF i = k THEN [hs |-> 0, bytes |-> 0] ELSE H[i]]
      BY <2>0, <2>3 DEF Carry
    <3> QED BY <3>1
  <2>4. ASSUME NEW k \in Keys, Drop(e, k), d = e
        PROVE \/ moved'[d][j] = M[j] /\ j \notin DOMAIN hub'[d]
              \/ moved'[d][j] = M[j] /\ j \in DOMAIN H /\ hub'[d][j].bytes = H[j].bytes
    <3>1. moved' = moved /\ hub'[d] = [i \in DOMAIN H \ {k} |-> H[i]]
      BY <2>0, <2>4 DEF Drop
    <3> QED BY <3>1
  <2>5. ASSUME NEW k \in Keys, Handshake(e, k), d = e
        PROVE \/ moved'[d][j] = M[j] /\ j \notin DOMAIN hub'[d]
              \/ moved'[d][j] = M[j] /\ j \in DOMAIN H /\ hub'[d][j].bytes = H[j].bytes
    <3>1. moved' = moved /\ k \in DOMAIN H /\ hub'[d] = [H EXCEPT ![k].hs = clock]
      BY <2>0, <2>5 DEF Handshake
    <3>2. hub'[d] = [H EXCEPT ![k] = [H[k] EXCEPT !.hs = clock]]
      BY <3>1
    <3>3. [H[k] EXCEPT !.hs = clock].bytes = H[k].bytes
      BY <1>2, <3>1 DEF Peer
    <3>4. H \in [DOMAIN H -> Peer]
      BY <1>1 DEF Peers
    <3> QED BY <3>1, <3>2, <3>3, <3>4
  <2>6. ASSUME NEW k \in Keys, Transfer(e, k), d = e
        PROVE \/ moved'[d][j] = M[j] /\ j \notin DOMAIN hub'[d]
              \/ moved'[d][j] = M[j] /\ j \in DOMAIN H /\ hub'[d][j].bytes = H[j].bytes
              \/ moved'[d][j] = M[j] + 1 /\ j \in DOMAIN H /\ hub'[d][j].bytes = H[j].bytes + 1
    <3>1. moved'[d] = [M EXCEPT ![k] = M[k] + 1] /\ k \in DOMAIN H
      BY <2>0, <2>6 DEF Transfer
    <3>2. hub'[d] = [H EXCEPT ![k].bytes = @ + 1]
      BY <2>0, <2>6 DEF Transfer
    <3>3. hub'[d] = [H EXCEPT ![k] = [H[k] EXCEPT !.bytes = H[k].bytes + 1]]
      BY <3>1, <3>2
    <3>4. [H[k] EXCEPT !.bytes = H[k].bytes + 1].bytes = H[k].bytes + 1
      BY <1>2, <3>1 DEF Peer
    <3>5. H \in [DOMAIN H -> Peer]
      BY <1>1 DEF Peers
    <3>6. CASE j = k
      <4>1. moved'[d][j] = M[j] + 1
        BY <1>1, <3>1, <3>6
      <4>2. hub'[d][j].bytes = H[j].bytes + 1
        BY <3>1, <3>3, <3>4, <3>5, <3>6
      <4> QED BY <3>1, <3>6, <4>1, <4>2
    <3>7. CASE j # k
      <4>1. moved'[d][j] = M[j]
        BY <1>1, <3>1, <3>7
      <4>2. DOMAIN hub'[d] = DOMAIN H
        BY <3>3, <3>5
      <4>3. j \in DOMAIN H => hub'[d][j] = H[j]
        BY <3>3, <3>5, <3>7
      <4> QED BY <4>1, <4>2, <4>3
    <3> QED BY <3>6, <3>7
  <2> HIDE DEF H, M
  <2> QED BY <2>1, <2>2, <2>3, <2>4, <2>5, <2>6
<1> SUFFICES ASSUME NEW k \in Keys
             PROVE /\ x.moved[k] <= moved'[d][k]
                   /\ k \in DOMAIN x.peers \cap DOMAIN hub'[d] =>
                         hub'[d][k].bytes - x.peers[k].bytes <= moved'[d][k] - x.moved[k]
  BY DEF GrowsTo
<1>4. /\ x.moved[k] <= M[k]
      /\ k \in DOMAIN x.peers \cap DOMAIN H => H[k].bytes - x.peers[k].bytes <= M[k] - x.moved[k]
  BY DEF GrowsTo
<1>5. /\ x.moved[k] \in Nat /\ M[k] \in Nat
      /\ k \in DOMAIN x.peers => x.peers[k].bytes \in Nat
      /\ k \in DOMAIN H => H[k].bytes \in Nat
  BY <1>1, <1>2, Counters DEF Peer
<1> DEFINE p == x.peers[k].bytes
           q == hub'[d][k].bytes
           m == x.moved[k]
           n == moved'[d][k]
           a == M[k]
           b == H[k].bytes
           inX == k \in DOMAIN x.peers
           inH == k \in DOMAIN H
           inN == k \in DOMAIN hub'[d]
<1>6. \/ n = a /\ ~inN
      \/ n = a /\ q = 0
      \/ n = a /\ inH /\ q = b
      \/ n = a + 1 /\ inH /\ q = b + 1
  BY <1>3
<1>7. m <= a /\ (inX /\ inH => b - p <= a - m)
  BY <1>4
<1>8. m \in Nat /\ a \in Nat /\ (inX => p \in Nat) /\ (inH => b \in Nat)
  BY <1>5
<1>9. m <= n /\ (inX /\ inN => q - p <= n - m)
  <2> HIDE DEF p, q, m, n, a, b, inX, inH, inN
  <2> QED BY <1>6, <1>7, <1>8
<1> QED BY <1>9

(* What a hub does leaves the records as they are.                         *)
LEMMA GrowHub ==
    ASSUME IInv, HistoryInv, GrowInv, NEW e \in Endpoints,
           Restart(e) \/ \E k \in Keys : Carry(e, k) \/ Drop(e, k) \/ Handshake(e, k) \/ Transfer(e, k)
    PROVE GrowInv'
<1>1. UNCHANGED <<clock, wire, handling, samples>>
  BY DEF Restart, Carry, Drop, Handshake, Transfer, tables
<1>2. \A d \in Endpoints : Records(d)' = Records(d)
  BY <1>1 DEF Records
<1>3. \A u \in wire : GrowsTo(u, hub'[u.ep], moved'[u.ep])
  BY Dumps, HubGrows DEF GrowInv
<1>4. \A d \in Endpoints : \A x \in Records(d) : GrowsTo(x, hub'[d], moved'[d])
  BY Dumps, HubGrows DEF GrowInv
<1>5. \A u \in wire : u.ep \in Endpoints
  BY Dumps
<1>6. \A d \in Endpoints : \A x \in Records(d)' : x.ts <= clock /\ GrowsTo(x, hub'[d], moved'[d])
  BY <1>2, <1>4 DEF GrowInv
<1>7. \A u \in wire : \A x \in Records(u.ep)' : GrowsTo(x, u.peers, u.moved)
  BY <1>2, <1>5 DEF GrowInv
<1>8. \A d \in Endpoints : \A x, y \in Records(d)' : x.ts < y.ts => GrowsTo(x, y.peers, y.moved)
  BY <1>2 DEF GrowInv
<1>9. \A u, v \in wire : u.ep = v.ep => u = v
  BY DEF GrowInv
<1> QED BY <1>1, <1>3, <1>6, <1>7, <1>8, <1>9 DEF GrowInv, GrowsTo

(* Time passes, an upload is lost.                                         *)
LEMMA GrowWait ==
    ASSUME IInv, HistoryInv, GrowInv, Tick \/ \E u \in wire : Lose(u)
    PROVE GrowInv'
<1>1. UNCHANGED <<hub, moved, handling, samples>> /\ wire' \subseteq wire
  BY DEF Tick, Lose, tables
<1>2. clock \in Nat /\ (clock' = clock \/ clock' = clock + 1)
  BY DEF Tick, Lose, IInv, Types
<1>3. \A e \in Endpoints : Records(e)' = Records(e)
  BY <1>1 DEF Records
<1>4. \A e \in Endpoints : \A x \in Records(e)' : x.ts <= clock' /\ GrowsTo(x, hub[e], moved[e])
  BY <1>2, <1>3, Dumps DEF GrowInv
<1>5. \A u \in wire : u.ep \in Endpoints
  BY Dumps
<1>6. \A u \in wire' : \A x \in Records(u.ep)' : GrowsTo(x, u.peers, u.moved)
  BY <1>1, <1>3, <1>5 DEF GrowInv
<1>7. \A d \in Endpoints : \A x, y \in Records(d)' : x.ts < y.ts => GrowsTo(x, y.peers, y.moved)
  BY <1>3 DEF GrowInv
<1>8. /\ \A u, v \in wire' : u.ep = v.ep => u = v
      /\ \A u \in wire' : GrowsTo(u, hub[u.ep], moved[u.ep])
  BY <1>1 DEF GrowInv
<1> QED BY <1>1, <1>4, <1>6, <1>7, <1>8 DEF GrowInv, GrowsTo

(* The upload of an endpoint without one is what the hub has.              *)
LEMMA GrowPush ==
    ASSUME IInv, HistoryInv, GrowInv, InOrder,
           NEW e \in Endpoints, NEW P \in {hub[e], NoPeers}, Push(e, P)
    PROVE GrowInv'
<1> DEFINE w == [ep |-> e, peers |-> P, moved |-> moved[e]]
<1>1. UNCHANGED <<clock, hub, moved, handling, samples>>
  BY DEF Push, tables
<1>2. wire' = wire \cup {w} /\ \A u \in wire : u.ep # e
  BY DEF Push
<1>3. \A d \in Endpoints : Records(d)' = Records(d)
  BY <1>1 DEF Records
<1>4. w.ep = e /\ w.peers = P /\ w.moved = moved[e]
  OBVIOUS
<1>5. hub[e] \in Peers /\ NoPeers \in Peers /\ moved[e] \in [Keys -> Nat]
  BY NoPeersType DEF IInv, Types
<1>6. IsDump(w)
  BY <1>4, <1>5 DEF IsDump
<1>7. P = hub[e] \/ DOMAIN P = {}
  BY DEF NoPeers
<1> HIDE DEF w
<1>8. GrowsTo(w, hub[e], moved[e])
  <2>1. GrowsTo(w, P, moved[e])
    BY <1>4, <1>6, GrowsToItself
  <2>2. CASE P = hub[e]
    BY <2>1, <2>2
  <2>3. CASE DOMAIN P = {}
    BY <1>4, <2>1, <2>3 DEF GrowsTo
  <2> QED BY <1>7, <2>2, <2>3
<1>9. \A x \in Records(e) : GrowsTo(x, P, moved[e])
  <2> TAKE x \in Records(e)
  <2>1. GrowsTo(x, hub[e], moved[e])
    BY DEF GrowInv
  <2>2. CASE P = hub[e]
    BY <2>1, <2>2
  <2>3. CASE DOMAIN P = {}
    BY <2>1, <2>3 DEF GrowsTo
  <2> QED BY <1>7, <2>2, <2>3
<1>10. \A u, v \in wire' : u.ep = v.ep => u = v
  BY <1>2, <1>4 DEF GrowInv
<1>11. \A u \in wire' : GrowsTo(u, hub[u.ep], moved[u.ep])
  BY <1>2, <1>4, <1>8 DEF GrowInv
<1>12. \A u \in wire' : \A x \in Records(u.ep) : GrowsTo(x, u.peers, u.moved)
  BY <1>2, <1>4, <1>9 DEF GrowInv
<1>13. \A u \in wire' : u.ep \in Endpoints
  BY <1>2, <1>4, Dumps
<1> QED BY <1>1, <1>3, <1>10, <1>11, <1>12, <1>13 DEF GrowInv, GrowsTo

(* A received upload becomes the latest record.                            *)
LEMMA GrowReceive ==
    ASSUME IInv, HistoryInv, GrowInv, NEW u \in wire, NEW again \in BOOLEAN, Receive(u, again)
    PROVE GrowInv'
<1> DEFINE r == [ep |-> u.ep, peers |-> u.peers, moved |-> u.moved, ts |-> clock]
<1>1. UNCHANGED <<clock, hub, moved, samples>> /\ wire' \subseteq wire
  BY DEF Receive, tables
<1>2. handling' = handling \cup {r}
  BY DEF Receive
<1>3. r.ep = u.ep /\ r.peers = u.peers /\ r.moved = u.moved /\ r.ts = clock
  OBVIOUS
<1> HIDE DEF r
<1>4. u.ep \in Endpoints /\ IsDump(u) /\ clock \in Nat
  BY Dumps DEF IInv, Types
<1>5. \A e \in Endpoints : \A x \in Records(e)' : x \in Records(e) \/ (x = r /\ e = u.ep)
  BY <1>1, <1>2, <1>3 DEF Records
<1>6. GrowsTo(r, hub[u.ep], moved[u.ep]) /\ GrowsTo(r, u.peers, u.moved)
  <2>1. GrowsTo(u, hub[u.ep], moved[u.ep]) /\ GrowsTo(u, u.peers, u.moved)
    BY <1>4, GrowsToItself DEF GrowInv
  <2> QED BY <1>3, <2>1 DEF GrowsTo
<1>7. \A e \in Endpoints : \A x \in Records(e)' : x.ts <= clock /\ GrowsTo(x, hub[e], moved[e])
  BY <1>3, <1>4, <1>5, <1>6 DEF GrowInv
<1>8. \A v \in wire' : \A x \in Records(v.ep)' : GrowsTo(x, v.peers, v.moved)
  <2> TAKE v \in wire'
  <2> TAKE x \in Records(v.ep)'
  <2>1. v \in wire /\ v.ep \in Endpoints
    BY <1>1, Dumps
  <2>2. CASE x \in Records(v.ep)
    BY <2>1, <2>2 DEF GrowInv
  <2>3. CASE x = r /\ v.ep = u.ep
    <3>1. v = u
      BY <2>1, <2>3 DEF GrowInv
    <3> QED BY <1>6, <2>3, <3>1
  <2> QED BY <1>5, <2>1, <2>2, <2>3
<1>9. \A e \in Endpoints : \A x, y \in Records(e)' : x.ts < y.ts => GrowsTo(x, y.peers, y.moved)
  <2> SUFFICES ASSUME NEW e \in Endpoints, NEW x \in Records(e)', NEW y \in Records(e)', x.ts < y.ts
               PROVE GrowsTo(x, y.peers, y.moved)
    OBVIOUS
  <2>1. CASE x \in Records(e) /\ y \in Records(e)
    BY <2>1 DEF GrowInv
  <2>2. CASE x = r
    <3>1. y.ts <= clock /\ y.ts \in Nat
      <4>1. CASE y = r
        BY <1>3, <1>4, <4>1
      <4>2. CASE y \in Records(e)
        BY <4>2, Dumps DEF GrowInv
      <4> QED BY <1>5, <4>1, <4>2
    <3> QED BY <1>3, <1>4, <2>2, <3>1
  <2>3. CASE x \in Records(e) /\ y = r /\ e = u.ep
    <3>1. GrowsTo(x, u.peers, u.moved)
      BY <2>3 DEF GrowInv
    <3> QED BY <1>3, <2>3, <3>1
  <2> QED BY <1>5, <2>1, <2>2, <2>3
<1>10. \A v, w \in wire' : v.ep = w.ep => v = w
  BY <1>1 DEF GrowInv
<1>11. \A v \in wire' : GrowsTo(v, hub[v.ep], moved[v.ep])
  BY <1>1 DEF GrowInv
<1> QED BY <1>1, <1>7, <1>8, <1>9, <1>10, <1>11 DEF GrowInv, GrowsTo

(* The row of a report is the report.                                      *)
LEMMA RowOfReport ==
    ASSUME IInv, HistoryInv, NEW h \in handling, ReplaceStatus(h)
    PROVE /\ handling' = handling \ {h}
          /\ \A e \in Endpoints : \A s \in samples'[e] :
                \/ s \in samples[e]
                \/ /\ e = h.ep /\ s.ts = h.ts /\ s.peers = h.peers /\ s.moved = h.moved
                   /\ s = [ts |-> h.ts, nth |-> Cardinality({r \in samples[h.ep] : r.ts = h.ts}),
                           peers |-> h.peers, moved |-> h.moved]
<1> DEFINE row == [ts |-> h.ts, nth |-> Cardinality({r \in samples[h.ep] : r.ts = h.ts}),
                   peers |-> h.peers, moved |-> h.moved]
           rows == IF h.peers = NoPeers THEN {} ELSE {row}
<1>1. row.ts = h.ts /\ row.peers = h.peers /\ row.moved = h.moved
  OBVIOUS
<1>2. samples' = [e \in Endpoints |->
           {s \in samples[e] \cup (IF e = h.ep THEN rows ELSE {}) : s.ts >= h.ts - Retention}]
  BY DEF ReplaceStatus
<1>3. rows \subseteq {row}
  OBVIOUS
<1> HIDE DEF rows
<1>4. \A e \in Endpoints : \A s \in samples'[e] : s \in samples[e] \/ (e = h.ep /\ s = row)
  BY <1>2, <1>3
<1> HIDE DEF row
<1>5. handling' = handling \ {h}
  BY DEF ReplaceStatus
<1>6. \A e \in Endpoints : \A s \in samples'[e] :
         s \in samples[e] \/ (e = h.ep /\ s = row /\ s.ts = h.ts /\ s.peers = h.peers /\ s.moved = h.moved)
  BY <1>1, <1>4
<1> QED BY <1>5, <1>6 DEF row

(* So the transaction adds no record.                                      *)
LEMMA GrowStore ==
    ASSUME IInv, HistoryInv, GrowInv, NEW h \in handling, ReplaceStatus(h)
    PROVE GrowInv'
<1>1. UNCHANGED <<clock, hub, moved, wire>>
  BY DEF ReplaceStatus
<1>2. ASSUME NEW e \in Endpoints, NEW x \in Records(e)'
      PROVE \E y \in Records(e) : x.ts = y.ts /\ x.peers = y.peers /\ x.moved = y.moved
  <2>1. CASE x \in Records(e)
    BY <2>1
  <2>2. CASE x \notin Records(e)
    <3>1. x \in samples'[e] \ samples[e]
      BY <2>2, RowOfReport DEF Records
    <3>2. e = h.ep /\ x.ts = h.ts /\ x.peers = h.peers /\ x.moved = h.moved
      BY <3>1, RowOfReport
    <3>3. h \in Records(e)
      BY <3>2 DEF Records
    <3> QED BY <3>2, <3>3
  <2> QED BY <2>1, <2>2
<1>3. \A e \in Endpoints : \A x \in Records(e)' : x.ts <= clock /\ GrowsTo(x, hub[e], moved[e])
  <2> SUFFICES ASSUME NEW e \in Endpoints, NEW x \in Records(e)'
               PROVE x.ts <= clock /\ GrowsTo(x, hub[e], moved[e])
    OBVIOUS
  <2>1. PICK y \in Records(e) : x.ts = y.ts /\ x.peers = y.peers /\ x.moved = y.moved
    BY <1>2
  <2>2. y.ts <= clock /\ GrowsTo(y, hub[e], moved[e])
    BY DEF GrowInv
  <2> QED BY <2>1, <2>2 DEF GrowsTo
<1>4. \A u \in wire : \A x \in Records(u.ep)' : GrowsTo(x, u.peers, u.moved)
  <2> SUFFICES ASSUME NEW u \in wire, NEW x \in Records(u.ep)'
               PROVE GrowsTo(x, u.peers, u.moved)
    OBVIOUS
  <2>1. u.ep \in Endpoints
    BY Dumps
  <2>2. PICK y \in Records(u.ep) : x.ts = y.ts /\ x.peers = y.peers /\ x.moved = y.moved
    BY <1>2, <2>1
  <2>3. GrowsTo(y, u.peers, u.moved)
    BY DEF GrowInv
  <2> QED BY <2>2, <2>3 DEF GrowsTo
<1>5. \A e \in Endpoints : \A x, y \in Records(e)' : x.ts < y.ts => GrowsTo(x, y.peers, y.moved)
  <2> SUFFICES ASSUME NEW e \in Endpoints, NEW x \in Records(e)', NEW y \in Records(e)', x.ts < y.ts
               PROVE GrowsTo(x, y.peers, y.moved)
    OBVIOUS
  <2>1. PICK a \in Records(e) : x.ts = a.ts /\ x.peers = a.peers /\ x.moved = a.moved
    BY <1>2
  <2>2. PICK b \in Records(e) : y.ts = b.ts /\ y.peers = b.peers /\ y.moved = b.moved
    BY <1>2
  <2>3. GrowsTo(a, b.peers, b.moved)
    BY <2>1, <2>2 DEF GrowInv
  <2> QED BY <2>1, <2>2, <2>3 DEF GrowsTo
<1> QED BY <1>1, <1>3, <1>4, <1>5 DEF GrowInv, GrowsTo

(* The row a report would be stored as.                                    *)
RowFor(h) == [ts |-> h.ts, nth |-> Cardinality({r \in samples[h.ep] : r.ts = h.ts}),
              peers |-> h.peers, moved |-> h.moved]

(* That row is one, whatever the second already holds.                     *)
LEMMA RowIsSample ==
    ASSUME IInv, HistoryInv, NEW h \in handling
    PROVE RowFor(h) \in Sample /\ RowFor(h).nth \in Nat /\ RowFor(h).ts \in Nat
<1>1. h.ep \in Endpoints /\ h.ts \in Nat /\ h.peers \in Peers /\ h.moved \in [Keys -> Nat]
  BY DEF IInv, Types, Request
<1>2. IsFiniteSet({r \in samples[h.ep] : r.ts = h.ts})
  BY <1>1, FS_Subset DEF HistoryInv
<1>3. Cardinality({r \in samples[h.ep] : r.ts = h.ts}) \in Nat
  BY <1>2, FS_CardinalityType
<1> QED BY <1>1, <1>3 DEF RowFor, Sample

(* A stored report adds at most its row.                                   *)
LEMMA HistoryStore ==
    ASSUME IInv, HistoryInv, NEW h \in handling, ReplaceStatus(h)
    PROVE HistoryInv'
<1> DEFINE row == RowFor(h)
<1>1. row \in Sample /\ row.nth \in Nat /\ row.ts \in Nat
  BY RowIsSample
<1>2. \A e \in Endpoints : samples'[e] \subseteq samples[e] \cup {row}
  BY RowOfReport DEF RowFor
<1>3. handling' \subseteq handling
  BY RowOfReport
<1>4. IsFiniteSet(handling')
  BY <1>3, FS_Subset DEF HistoryInv
<1>5. \E f : samples' = [e \in Endpoints |-> f[e]]
  <2>1. samples' = [e \in Endpoints |-> samples'[e]]
    BY DEF ReplaceStatus
  <2> QED BY <2>1
<1> HIDE DEF row
<1>6. \A e \in Endpoints : samples'[e] \in SUBSET Sample
  BY <1>1, <1>2 DEF HistoryInv
<1>7. samples' \in [Endpoints -> SUBSET Sample]
  BY <1>5, <1>6
<1>8. \A e \in Endpoints : IsFiniteSet(samples'[e])
  <2> TAKE e \in Endpoints
  <2>1. IsFiniteSet(samples[e] \cup {row})
    BY FS_AddElement DEF HistoryInv
  <2> QED BY <1>2, <2>1, FS_Subset
<1>9. ASSUME NEW e \in Endpoints PROVE \E n \in Nat : \A s \in samples'[e] : s.nth <= n /\ s.ts <= n
  <2>1. PICK n \in Nat : \A s \in samples[e] : s.nth <= n /\ s.ts <= n
    BY DEF HistoryInv
  <2>2. \A s \in samples[e] : s.nth \in Nat /\ s.ts \in Nat
    BY DEF HistoryInv, Sample
  <2> DEFINE m == n + row.nth + row.ts
  <2>3. m \in Nat /\ m >= n /\ m >= row.nth /\ m >= row.ts
    BY <1>1
  <2> HIDE DEF m
  <2>4. \A s \in samples'[e] : s.nth <= m /\ s.ts <= m
    BY <1>1, <1>2, <2>1, <2>2, <2>3
  <2> QED BY <2>3, <2>4
<1> QED BY <1>4, <1>7, <1>8, <1>9 DEF HistoryInv

(* Requests come one at a time, and only a stored report adds rows.        *)
LEMMA HistoryStep == ASSUME IInv, HistoryInv, [Next]_vars PROVE HistoryInv'
<1>1. CASE UNCHANGED <<handling, samples>>
  BY <1>1 DEF HistoryInv
<1>2. ASSUME NEW u \in wire, NEW again \in BOOLEAN, Receive(u, again) PROVE HistoryInv'
  <2>1. IsFiniteSet(handling')
    BY <1>2, FS_AddElement DEF Receive, HistoryInv
  <2>2. samples' = samples
    BY <1>2 DEF Receive, tables
  <2> QED BY <2>1, <2>2 DEF HistoryInv
<1>3. ASSUME NEW h \in handling, ReplaceStatus(h) PROVE HistoryInv'
  BY <1>3, HistoryStore
<1>4. \/ UNCHANGED <<handling, samples>>
      \/ \E u \in wire : \E again \in BOOLEAN : Receive(u, again)
      \/ \E h \in handling : ReplaceStatus(h)
  BY DEF Next, vars, Tick, Restart, Push, Carry, Drop, Handshake, Transfer, Lose, Rekey, tables
<1> QED BY <1>1, <1>2, <1>3, <1>4

(* With one run at a time, every step keeps the records in order.          *)
LEMMA GrowStep == ASSUME InOrder, IInv, HistoryInv, GrowInv, [Next]_vars PROVE GrowInv'
<1>1. ASSUME Tick PROVE GrowInv'
  BY <1>1, GrowWait
<1>2. ASSUME NEW e \in Endpoints, Restart(e) PROVE GrowInv'
  BY <1>2, GrowHub
<1>3. ASSUME NEW e \in Endpoints, \E P \in {hub[e], NoPeers} : Push(e, P) PROVE GrowInv'
  BY <1>3, GrowPush
<1>4. ASSUME NEW e \in Endpoints, NEW k \in Keys,
             Carry(e, k) \/ Drop(e, k) \/ Handshake(e, k) \/ Transfer(e, k) PROVE GrowInv'
  BY <1>4, GrowHub
<1>5. ASSUME NEW u \in wire, Lose(u) PROVE GrowInv'
  BY <1>5, GrowWait
<1>6. ASSUME NEW u \in wire, NEW again \in BOOLEAN, Receive(u, again) PROVE GrowInv'
  BY <1>6, GrowReceive
<1>7. ASSUME NEW h \in handling, ReplaceStatus(h) PROVE GrowInv'
  BY <1>7, GrowStore
<1>8. CASE UNCHANGED <<clock, hub, moved, wire, handling, samples>>
  <2>1. \A e : Records(e)' = Records(e)
    BY <1>8 DEF Records
  <2> QED BY <1>8, <2>1 DEF GrowInv, GrowsTo
<1>9. ASSUME NEW m \in Machines, NEW k \in Keys, Rekey(m, k) PROVE GrowInv'
  BY <1>8, <1>9 DEF Rekey
<1>10. CASE UNCHANGED vars
  BY <1>8, <1>10 DEF vars
<1> QED BY <1>1, <1>2, <1>3, <1>4, <1>5, <1>6, <1>7, <1>9, <1>10 DEF Next

(* A report is received in a second with no record of its endpoint.        *)
LEMMA AloneStep == ASSUME PerSecond = 1, IInv, HistoryInv, AloneInv, [Next]_vars PROVE AloneInv'
<1>1. CASE UNCHANGED <<handling, samples>>
  BY <1>1 DEF AloneInv
<1>2. ASSUME NEW u \in wire, NEW again \in BOOLEAN, Receive(u, again) PROVE AloneInv'
  <2> DEFINE r == [ep |-> u.ep, peers |-> u.peers, moved |-> u.moved, ts |-> clock]
             A == {h \in handling : h.ep = u.ep /\ h.ts = clock}
             B == {s \in samples[u.ep] : s.ts = clock}
  <2>1. handling' = handling \cup {r} /\ samples' = samples /\ r.ep = u.ep /\ r.ts = clock
    BY <1>2 DEF Receive, tables
  <2>2. IsFiniteSet(A) /\ IsFiniteSet(B)
    <3>1. u.ep \in Endpoints
      BY Dumps
    <3> QED BY <3>1, FS_Subset DEF HistoryInv
  <2>3. Cardinality(A) + Cardinality(B) < 1
    BY <1>2 DEF Receive
  <2> HIDE DEF A, B
  <2>4. A = {} /\ B = {}
    <3>1. Cardinality(A) \in Nat /\ Cardinality(B) \in Nat
      BY <2>2, FS_CardinalityType
    <3>2. Cardinality(A) = 0 /\ Cardinality(B) = 0
      BY <2>3, <3>1
    <3> QED BY <2>2, <3>2, FS_EmptySet
  <2>5. /\ \A h \in handling : ~(h.ep = u.ep /\ h.ts = clock)
        /\ \A s \in samples[u.ep] : s.ts # clock
    BY <2>4 DEF A, B
  <2> HIDE DEF r
  <2> QED BY <2>1, <2>5 DEF AloneInv
<1>3. ASSUME NEW h \in handling, ReplaceStatus(h) PROVE AloneInv'
  <2>1. h.ep \in Endpoints
    BY Dumps
  <2>2. handling' = handling \ {h}
    BY <1>3, RowOfReport
  <2>3. \A e \in Endpoints : \A s \in samples'[e] : s \in samples[e] \/ (e = h.ep /\ s = RowFor(h))
    BY <1>3, RowOfReport DEF RowFor
  <2>4. RowFor(h).ts = h.ts
    BY DEF RowFor
  <2>5. \A s \in samples[h.ep] : s.ts # h.ts
    BY DEF AloneInv
  <2>6. \A e \in Endpoints : \A x, y \in samples'[e] : x.ts = y.ts => x = y
    BY <2>3, <2>4, <2>5 DEF AloneInv
  <2>7. \A g \in handling' : \A s \in samples'[g.ep] : s.ts # g.ts
    <3> TAKE g \in handling'
    <3>1. g \in handling /\ g # h /\ g.ep \in Endpoints
      BY <2>2, Dumps
    <3> TAKE s \in samples'[g.ep]
    <3>2. CASE s \in samples[g.ep]
      BY <3>1, <3>2 DEF AloneInv
    <3>3. CASE g.ep = h.ep /\ s = RowFor(h)
      BY <2>4, <3>1, <3>3 DEF AloneInv
    <3> QED BY <2>3, <3>1, <3>2, <3>3
  <2> QED BY <2>2, <2>6, <2>7 DEF AloneInv
<1>4. \/ UNCHANGED <<handling, samples>>
      \/ \E u \in wire : \E again \in BOOLEAN : Receive(u, again)
      \/ \E h \in handling : ReplaceStatus(h)
  BY DEF Next, vars, Tick, Restart, Push, Carry, Drop, Handshake, Transfer, Lose, Rekey, tables
<1> QED BY <1>1, <1>2, <1>3, <1>4

(* At first there is no history.                                           *)
LEMMA HistoryStart == ASSUME StatusAssumption, Init PROVE HistoryInv /\ GrowInv /\ AloneInv
<1>1. wire = {} /\ handling = {} /\ \A e \in Endpoints : samples[e] = {}
  BY DEF Init
<1>2. \A e : handling = {} => {h \in handling : h.ep = e} = {}
  OBVIOUS
<1>3. \A e \in Endpoints : Records(e) = {}
  BY <1>1 DEF Records
<1>4. samples \in [Endpoints -> SUBSET Sample]
  BY DEF Init
<1>5. IsFiniteSet({})
  BY FS_EmptySet
<1>6. \A e \in Endpoints : \E n \in Nat : \A s \in samples[e] : s.nth <= n /\ s.ts <= n
  BY <1>1
<1> QED BY <1>1, <1>3, <1>4, <1>5, <1>6 DEF HistoryInv, GrowInv, AloneInv

(* The three invariants hold in every behaviour.                           *)
LEMMA HistoryHolds == ASSUME StatusAssumption PROVE Spec => []HistoryInv
<1>1. Init => HistoryInv
  BY HistoryStart
<1>2. IInv /\ HistoryInv /\ [Next]_vars => HistoryInv'
  BY HistoryStep
<1>3. Spec => []IInv
  BY Invariance
<1> QED BY <1>1, <1>2, <1>3, PTL DEF Spec

LEMMA GrowHolds == ASSUME StatusAssumption, InOrder PROVE Spec => []GrowInv
<1>1. Init => GrowInv
  BY HistoryStart
<1>2. IInv /\ HistoryInv /\ GrowInv /\ [Next]_vars => GrowInv'
  BY GrowStep
<1>3. Spec => []IInv /\ []HistoryInv
  BY Invariance, HistoryHolds
<1> QED BY <1>1, <1>2, <1>3, PTL DEF Spec

LEMMA AloneHolds == ASSUME StatusAssumption, PerSecond = 1 PROVE Spec => []AloneInv
<1>1. Init => AloneInv
  BY HistoryStart
<1>2. IInv /\ HistoryInv /\ AloneInv /\ [Next]_vars => AloneInv'
  BY AloneStep
<1>3. Spec => []IInv /\ []HistoryInv
  BY Invariance, HistoryHolds
<1> QED BY <1>1, <1>2, <1>3, PTL DEF Spec

-----------------------------------------------------------------------------
(* The readers.                                                            *)

(* The quotient of an interval's bytes by its length is no more than them. *)
LEMMA Quotient == ASSUME NEW a \in Nat, NEW b \in Nat \ {0} PROVE (a \div b) \in Nat /\ (a \div b) * b <= a
OBVIOUS

(* Naturals are well founded, so Min and Max are what they say.            *)
LEMMA LeastExists ==
    ASSUME NEW T, T \subseteq Nat, T # {}
    PROVE \E x \in T : \A y \in T : x <= y
<1>1. PICK x \in T : \A y \in T : <<y, x>> \notin OpToRel(<, Nat)
  BY NatLessThanWellFounded, WFMin, Zenon
<1>2. ASSUME NEW y \in T PROVE x <= y
  <2>1. y \in Nat /\ x \in Nat
    OBVIOUS
  <2>2. <<y, x>> \in Nat \X Nat
    BY <2>1
  <2>3. ~(y < x)
    BY <1>1, <2>2 DEF OpToRel
  <2> QED BY <2>1, <2>3
<1> QED BY <1>2

(* A set of naturals has its Min, and one with a bound its Max.            *)
LEMMA MinIsLeast ==
    ASSUME NEW T, T \subseteq Nat, T # {}
    PROVE Min(T) \in T /\ \A y \in T : Min(T) <= y
<1>1. \E x \in T : \A y \in T : x <= y
  BY LeastExists
<1> QED BY <1>1 DEF Min

LEMMA MaxIsGreatest ==
    ASSUME NEW T, T \subseteq Nat, T # {}, NEW n \in Nat, \A x \in T : x <= n
    PROVE Max(T) \in T /\ \A y \in T : y <= Max(T)
<1> DEFINE U == {n - x : x \in T}
<1>1. U \subseteq Nat /\ U # {}
  OBVIOUS
<1>2. PICK u \in U : \A v \in U : u <= v
  BY <1>1, LeastExists
<1>3. PICK x \in T : u = n - x
  BY <1>2
<1>4. \A y \in T : y <= x
  <2> TAKE y \in T
  <2>1. n - y \in U
    OBVIOUS
  <2>2. u <= n - y
    BY <1>2, <2>1
  <2> QED BY <1>3, <2>2
<1>5. \E z \in T : \A y \in T : z >= y
  BY <1>4
<1> QED BY <1>5 DEF Max

(* Of rows of a second there are a first and a last.                       *)
LEMMA RowsChosen ==
    ASSUME HistoryInv, NEW e \in Endpoints, NEW R, R \subseteq samples[e], R # {}
    PROVE First(R) \in R /\ Last(R) \in R
<1> DEFINE N == {s.nth : s \in R}
<1>1. \A s \in R : s.nth \in Nat
  BY DEF HistoryInv, Sample
<1>2. N \subseteq Nat /\ N # {}
  BY <1>1
<1>3. PICK n \in Nat : \A s \in samples[e] : s.nth <= n
  BY DEF HistoryInv
<1>4. \A i \in N : i <= n
  BY <1>3
<1>5. \E s \in R : \A r \in R : s.nth <= r.nth
  <2>1. PICK i \in N : \A j \in N : i <= j
    BY <1>2, LeastExists
  <2>2. PICK s \in R : i = s.nth
    BY <2>1
  <2>3. \A r \in R : s.nth <= r.nth
    BY <2>1, <2>2
  <2> QED BY <2>3
<1>6. \E s \in R : \A r \in R : r.nth <= s.nth
  <2>1. Max(N) \in N /\ \A j \in N : j <= Max(N)
    BY <1>2, <1>3, <1>4, MaxIsGreatest
  <2>2. PICK s \in R : Max(N) = s.nth
    BY <2>1
  <2>3. \A r \in R : r.nth <= s.nth
    BY <2>1, <2>2
  <2> QED BY <2>3
<1> QED BY <1>5, <1>6 DEF First, Last

(* The times of a peer are seconds in which it has rows.                   *)
LEMMA TimesHaveRows ==
    ASSUME HistoryInv, NEW e \in Endpoints, NEW k, NEW n, NEW t \in TimesOf(e, k, n)
    PROVE /\ t \in Nat /\ t \in Times(e)
          /\ First(RowsOf(e, k, t)) \in RowsOf(e, k, t)
          /\ Last(RowsOf(e, k, t)) \in RowsOf(e, k, t)
<1>1. t \in Times(e) /\ RowsOf(e, k, t) # {}
  BY DEF TimesOf, Recent, LastTimes
<1>2. RowsOf(e, k, t) \subseteq samples[e]
  BY DEF RowsOf, RowsAt
<1>3. t \in Nat
  BY <1>1 DEF Times, HistoryInv, Sample
<1> QED BY <1>1, <1>2, <1>3, RowsChosen

(* Every interval but the first begins at the peer's time before.          *)
LEMMA IntervalBegins ==
    ASSUME NEW T, T \subseteq Nat, NEW t \in T \ {Min(T)}
    PROVE /\ Before(T, t) \in T /\ Before(T, t) < t
          /\ \A u \in T : u < t => u <= Before(T, t)
<1> DEFINE U == {u \in T : u < t}
<1>1. Min(T) \in T /\ Min(T) <= t /\ Min(T) # t
  BY MinIsLeast
<1>2. t \in Nat /\ \A u \in T : u \in Nat
  OBVIOUS
<1>3. Min(T) < t
  <2> DEFINE m == Min(T)
  <2>1. m \in Nat /\ t \in Nat /\ m <= t /\ m # t
    BY <1>1, <1>2
  <2> HIDE DEF m
  <2>2. m < t
    BY <2>1
  <2> QED BY <2>2 DEF m
<1>4. Min(T) \in U
  BY <1>1, <1>3
<1>5. U \subseteq Nat
  BY <1>2
<1>6. \A u \in U : u <= t
  BY <1>2
<1>7. Max(U) \in U /\ \A u \in U : u <= Max(U)
  <2> HIDE DEF U
  <2> QED BY <1>2, <1>4, <1>5, <1>6, MaxIsGreatest
<1> QED BY <1>7 DEF Before

(* A rate of two records, the later grown from the earlier.                *)
LEMMA RateOfGrowth ==
    ASSUME NEW was, NEW is, NEW k \in Keys, IsDump(was), IsDump(is),
           k \in DOMAIN was.peers, k \in DOMAIN is.peers,
           GrowsTo(was, is.peers, is.moved), NEW dt \in Nat \ {0}
    PROVE /\ Rate(Bytes(was, k), Bytes(is, k), dt) >= 0
          /\ Rate(Bytes(was, k), Bytes(is, k), dt) * dt <= is.moved[k] - was.moved[k]
<1> DEFINE a == Bytes(was, k)
           b == Bytes(is, k)
           m == was.moved[k]
           n == is.moved[k]
<1>1. a \in Nat /\ b \in Nat /\ m \in Nat /\ n \in Nat
  BY Counters DEF Bytes
<1>2. m <= n /\ b - a <= n - m
  BY DEF GrowsTo, Bytes
<1> HIDE DEF a, b, m, n
<1>3. CASE b < a
  <2>1. Rate(a, b, dt) = 0
    BY <1>3 DEF Rate
  <2> QED BY <1>1, <1>2, <2>1 DEF m, n, a, b
<1>4. CASE ~(b < a)
  <2>1. Rate(a, b, dt) = (b - a) \div dt
    BY <1>4 DEF Rate
  <2>2. b - a \in Nat
    BY <1>1, <1>4
  <2>3. (b - a) \div dt \in Nat /\ ((b - a) \div dt) * dt <= b - a
    BY <2>2, Quotient
  <2> DEFINE q == (b - a) \div dt
             p == q * dt
  <2>4. q \in Nat /\ p \in Int /\ p <= b - a
    BY <2>3
  <2> HIDE DEF q, p
  <2>5. q >= 0 /\ p <= n - m
    BY <1>1, <1>2, <2>4
  <2> QED BY <2>1, <2>5 DEF q, p, a, b, m, n
<1> QED BY <1>3, <1>4

(* A listed rate is the rate of the last row of the peer's previous time   *)
(* and of the first one of its own.                                        *)
LEMMA ListedRate ==
    ASSUME NEW e, NEW n, NEW k \in DOMAIN TrafficByKey(e, n), NEW t \in DOMAIN TrafficByKey(e, n)[k]
    PROVE /\ k \in Keys /\ t \in TimesOf(e, k, n) \ {Min(TimesOf(e, k, n))}
          /\ TrafficByKey(e, n)[k][t] =
                Rate(Bytes(Last(RowsOf(e, k, Before(TimesOf(e, k, n), t))), k),
                     Bytes(First(RowsOf(e, k, t)), k), t - Before(TimesOf(e, k, n), t))
BY DEF TrafficByKey

(* Whatever resets, leaves and returns, is lost or sent again: where an    *)
(* endpoint's agent has one run at a time, no listed rate is negative or   *)
(* more than what moved (TrafficByKey's clamp of counter resets).          *)
THEOREM RatesNeverExceed ==
    ASSUME StatusAssumption, InOrder PROVE Spec => []RatesHonest
<1>1. ASSUME IInv, HistoryInv, GrowInv PROVE RatesHonest
  <2> SUFFICES ASSUME NEW e \in Endpoints,
                      NEW k \in DOMAIN TrafficByKey(e, Window),
                      NEW t \in DOMAIN TrafficByKey(e, Window)[k]
               PROVE LET was == Last(RowsOf(e, k, Before(TimesOf(e, k, Window), t)))
                         is == First(RowsOf(e, k, t)) IN
                     /\ TrafficByKey(e, Window)[k][t] >= 0
                     /\ TrafficByKey(e, Window)[k][t] * (is.ts - was.ts) <= is.moved[k] - was.moved[k]
    BY DEF RatesHonest
  <2> DEFINE T == TimesOf(e, k, Window)
             p == Before(T, t)
             was == Last(RowsOf(e, k, p))
             is == First(RowsOf(e, k, t))
  <2>1. /\ k \in Keys /\ t \in T \ {Min(T)}
        /\ TrafficByKey(e, Window)[k][t] = Rate(Bytes(was, k), Bytes(is, k), t - p)
    BY ListedRate
  <2>2. T \subseteq Nat
    BY <1>1, TimesHaveRows
  <2> HIDE DEF T
  <2>3. p \in T /\ p < t
    BY <2>1, <2>2, IntervalBegins
  <2>4. was \in RowsOf(e, k, p) /\ is \in RowsOf(e, k, t)
    BY <1>1, <2>1, <2>3, TimesHaveRows DEF T
  <2> HIDE DEF was, is, p
  <2>5. /\ was \in samples[e] /\ was.ts = p /\ k \in DOMAIN was.peers
        /\ is \in samples[e] /\ is.ts = t /\ k \in DOMAIN is.peers
    BY <2>4 DEF RowsOf, RowsAt
  <2>6. was \in Records(e) /\ is \in Records(e)
    BY <2>5 DEF Records
  <2>7. IsDump(was) /\ IsDump(is)
    BY <1>1, <2>6, Dumps
  <2>8. GrowsTo(was, is.peers, is.moved)
    BY <1>1, <2>3, <2>5, <2>6 DEF GrowInv
  <2>9. t - p \in Nat \ {0}
    BY <2>1, <2>2, <2>3
  <2>10. /\ Rate(Bytes(was, k), Bytes(is, k), t - p) >= 0
         /\ Rate(Bytes(was, k), Bytes(is, k), t - p) * (t - p) <= is.moved[k] - was.moved[k]
    BY <2>1, <2>5, <2>7, <2>8, <2>9, RateOfGrowth
  <2>11. /\ TrafficByKey(e, Window)[k][t] >= 0
         /\ TrafficByKey(e, Window)[k][t] * (is.ts - was.ts) <= is.moved[k] - was.moved[k]
    BY <2>1, <2>5, <2>10
  <2> QED BY <2>11 DEF was, is, p, T
<1>2. Spec => []IInv /\ []HistoryInv /\ []GrowInv
  BY Invariance, HistoryHolds, GrowHolds
<1> QED BY <1>1, <1>2, PTL

(* The seconds with reports are finitely many naturals.                    *)
LEMMA TimesBounded ==
    ASSUME HistoryInv, NEW e \in Endpoints
    PROVE /\ Times(e) \subseteq Nat /\ IsFiniteSet(Times(e))
          /\ \E n \in Nat : \A t \in Times(e) : t <= n
<1>1. Times(e) \subseteq Nat
  BY DEF Times, HistoryInv, Sample
<1>2. PICK n \in Nat : \A s \in samples[e] : s.nth <= n /\ s.ts <= n
  BY DEF HistoryInv
<1>3. \A t \in Times(e) : t <= n
  BY <1>2 DEF Times
<1> QED BY <1>1, <1>3, FS_BoundedSetOfNaturals

(* Two things are at least two.                                            *)
LEMMA TwoOrMore ==
    ASSUME NEW S, IsFiniteSet(S), NEW a \in S, NEW b \in S, a # b
    PROVE Cardinality(S) \in Nat /\ Cardinality(S) > 1
<1>1. IsFiniteSet({a}) /\ Cardinality({a}) = 1
  BY FS_Singleton
<1>2. IsFiniteSet({a} \cup {b}) /\ Cardinality({a} \cup {b}) = 2
  <2>1. b \notin {a}
    OBVIOUS
  <2> DEFINE A == {a}
  <2>2. IsFiniteSet(A) /\ Cardinality(A) = 1 /\ b \notin A
    BY <1>1, <2>1
  <2> HIDE DEF A
  <2>3. IsFiniteSet(A \cup {b}) /\ Cardinality(A \cup {b}) = Cardinality(A) + 1
    BY <2>2, FS_AddElement
  <2>4. Cardinality(A \cup {b}) = 2
    BY <2>2, <2>3
  <2> QED BY <2>3, <2>4 DEF A
<1>3. {a} \cup {b} \in SUBSET S
  OBVIOUS
<1>4. Cardinality({a} \cup {b}) <= Cardinality(S)
  BY <1>3, FS_Subset
<1>5. Cardinality(S) \in Nat
  BY FS_CardinalityType
<1> QED BY <1>2, <1>4, <1>5

(* The last two times: the latest, and the one right before it.            *)
LEMMA LastTwo ==
    ASSUME HistoryInv, NEW e \in Endpoints, ~(Cardinality(LastTimes(e, 2)) < 2)
    PROVE LET now == Max(LastTimes(e, 2))
              then == Min(LastTimes(e, 2)) IN
          /\ now \in LastTimes(e, 2) /\ then \in LastTimes(e, 2) /\ then < now
          /\ \A u \in Times(e) : u <= now /\ (u < now => u <= then)
<1> DEFINE L == LastTimes(e, 2)
           W == Times(e)
           now == Max(L)
           then == Min(L)
           After(t) == {u \in W : u > t}
<1>1. W \subseteq Nat /\ IsFiniteSet(W)
  BY TimesBounded
<1>2. PICK n \in Nat : \A t \in W : t <= n
  BY TimesBounded
<1>3. \A t : t \in L <=> t \in W /\ Cardinality(After(t)) < 2
  BY DEF LastTimes
<1>4. \A t : IsFiniteSet(After(t)) /\ Cardinality(After(t)) \in Nat
  <2> TAKE t
  <2>1. After(t) \in SUBSET W
    OBVIOUS
  <2>2. IsFiniteSet(After(t))
    BY <1>1, <2>1, FS_Subset
  <2> QED BY <2>2, FS_CardinalityType
<1> HIDE DEF L, W
<1>5. L \subseteq W /\ L # {}
  <2>1. Cardinality({}) = 0
    BY FS_EmptySet
  <2>2. ~(Cardinality(L) < 2)
    BY DEF L
  <2>3. L # {}
    BY <2>1, <2>2
  <2> QED BY <1>3, <2>3
<1>6. L \subseteq Nat /\ \A t \in L : t <= n
  BY <1>1, <1>2, <1>5
<1>7. now \in L /\ \A t \in L : t <= now
  BY <1>5, <1>6, MaxIsGreatest
<1>8. then \in L /\ \A t \in L : then <= t
  BY <1>5, <1>6, MinIsLeast
<1> HIDE DEF now, then
<1>9. then < now
  <2>1. then \in Nat /\ now \in Nat /\ then <= now
    BY <1>6, <1>7, <1>8
  <2>2. SUFFICES ASSUME then = now PROVE FALSE
    BY <2>1
  <2>3. \A t \in L : t = now
    <3> TAKE t \in L
    <3>1. t \in Nat /\ t <= now /\ now <= t
      BY <1>6, <1>7, <1>8, <2>2
    <3> QED BY <2>1, <3>1
  <2>4. L = {now}
    BY <1>7, <2>3
  <2>5. Cardinality(L) = 1
    BY <2>4, FS_Singleton
  <2> QED BY <2>5 DEF L
<1>10. \A u \in W : u <= now
  <2> DEFINE last == Max(W)
  <2>1. W # {}
    BY <1>5
  <2>2. last \in W /\ \A u \in W : u <= last
    BY <1>1, <1>2, <2>1, MaxIsGreatest
  <2> HIDE DEF last
  <2>3. After(last) = {}
    <3> SUFFICES ASSUME NEW u \in W, u > last PROVE FALSE
      OBVIOUS
    <3>1. u \in Nat /\ last \in Nat /\ u <= last
      BY <1>1, <2>2
    <3> QED BY <3>1
  <2>4. Cardinality(After(last)) < 2
    BY <2>3, FS_EmptySet
  <2>5. last <= now
    BY <1>3, <1>7, <2>2, <2>4
  <2> TAKE u \in W
  <2>6. u \in Nat /\ last \in Nat /\ now \in Nat /\ u <= last
    BY <1>1, <1>6, <1>7, <2>2
  <2> QED BY <2>5, <2>6
<1>11. ASSUME NEW u \in W, u < now PROVE u <= then
  <2>1. u \in Nat /\ then \in Nat /\ now \in Nat /\ now \in W
    BY <1>1, <1>5, <1>7, <1>8
  <2>2. SUFFICES ASSUME u > then PROVE FALSE
    BY <2>1
  <2>3. u \in After(then) /\ now \in After(then) /\ u # now
    BY <1>9, <1>11, <2>1, <2>2
  <2> HIDE DEF After
  <2>4. Cardinality(After(then)) > 1
    BY <1>4, <2>3, TwoOrMore
  <2>5. Cardinality(After(then)) < 2 /\ Cardinality(After(then)) \in Nat
    BY <1>3, <1>4, <1>8
  <2> QED BY <2>4, <2>5
<1>12. \A u \in W : u <= now /\ (u < now => u <= then)
  BY <1>10, <1>11
<1> QED BY <1>7, <1>8, <1>9, <1>12 DEF now, then, L, W

(* The rate of the status page and that of the machines list are the same, *)
(* although one looks at the last two reports of the endpoint and the      *)
(* other at the peer's rows in a window (EndpointThroughput, TrafficByKey).*)
THEOREM PagesAgree ==
    ASSUME StatusAssumption, PerSecond = 1 PROVE Spec => []RatesAgree
<1>1. ASSUME IInv, HistoryInv, AloneInv PROVE RatesAgree
  <2> SUFFICES ASSUME NEW e \in Endpoints, NEW k \in DOMAIN EndpointThroughput(e)
               PROVE /\ k \in DOMAIN TrafficByKey(e, Window)
                     /\ CurrentRate(TrafficByKey(e, Window)[k]) = EndpointThroughput(e)[k]
    BY DEF RatesAgree
  <2> DEFINE L == LastTimes(e, 2)
             now == Max(L)
             then == Min(L)
             T == TimesOf(e, k, Window)
             D == T \ {Min(T)}
  <2>1. ~(Cardinality(L) < 2)
    BY DEF EndpointThroughput, NoPeers
  <2>2. /\ k \in Keys /\ RowsOf(e, k, now) # {} /\ RowsOf(e, k, then) # {}
        /\ EndpointThroughput(e)[k] =
              Rate(Bytes(Last(RowsOf(e, k, then)), k), Bytes(Last(RowsOf(e, k, now)), k), now - then)
    BY <2>1 DEF EndpointThroughput
  <2>3. /\ now \in L /\ then \in L /\ then < now
        /\ \A u \in Times(e) : u <= now /\ (u < now => u <= then)
    BY <1>1, <2>1, LastTwo
  <2>4. L \subseteq Recent(e, Window)
    <3> SUFFICES ASSUME NEW t \in L
                 PROVE Cardinality({u \in Times(e) : u > t}) < Window + 1
      BY DEF LastTimes, Recent
    <3> DEFINE c == Cardinality({u \in Times(e) : u > t})
    <3>1. c < 2
      BY DEF LastTimes
    <3>2. c \in Nat
      <4>1. {u \in Times(e) : u > t} \in SUBSET Times(e)
        OBVIOUS
      <4>2. IsFiniteSet({u \in Times(e) : u > t})
        BY <1>1, <4>1, TimesBounded, FS_Subset
      <4> QED BY <4>2, FS_CardinalityType
    <3> HIDE DEF c
    <3>3. c < Window + 1
      BY <3>1, <3>2 DEF StatusAssumption
    <3> QED BY <3>3 DEF c
  <2> HIDE DEF L, now, then
  <2>5. now \in T /\ then \in T
    BY <2>2, <2>3, <2>4 DEF TimesOf
  <2>6. T \subseteq Times(e) /\ Times(e) \subseteq Nat /\ IsFiniteSet(T)
    <3>1. T \in SUBSET Times(e)
      BY DEF TimesOf, Recent, LastTimes
    <3> QED BY <1>1, <3>1, TimesBounded, FS_Subset
  <2>7. now \in Nat /\ then \in Nat /\ now # then
    BY <2>3, <2>5, <2>6
  <2>8. Cardinality(T) > 1
    <3> HIDE DEF T
    <3> QED BY <2>5, <2>6, <2>7, TwoOrMore
  <2>9. /\ k \in DOMAIN TrafficByKey(e, Window)
        /\ DOMAIN TrafficByKey(e, Window)[k] = D
    BY <2>2, <2>8 DEF TrafficByKey
  <2> HIDE DEF T
  <2>10. now \in D
    <3>1. Min(T) <= then /\ Min(T) \in Nat
      BY <2>5, <2>6, MinIsLeast
    <3> DEFINE m == Min(T)
    <3>2. m <= then /\ m \in Nat
      BY <3>1
    <3> HIDE DEF m
    <3>3. now # m
      BY <2>3, <2>7, <3>2
    <3> QED BY <2>5, <3>3 DEF m
  <2>11. Max(D) = now
    <3>1. D \subseteq Nat /\ \A u \in D : u <= now
      BY <2>3, <2>6
    <3>2. Max(D) \in D /\ \A u \in D : u <= Max(D)
      <4> HIDE DEF D
      <4> QED BY <2>7, <2>10, <3>1, MaxIsGreatest
    <3> DEFINE x == Max(D)
    <3>3. x \in Nat /\ x <= now /\ now <= x
      BY <2>10, <3>1, <3>2
    <3> HIDE DEF x, D
    <3>4. x = now
      BY <2>7, <3>3
    <3> QED BY <3>4 DEF x
  <2>12. Before(T, now) = then
    <3> DEFINE b == Before(T, now)
    <3>1. b \in T /\ b < now /\ \A u \in T : u < now => u <= b
      BY <2>6, <2>10, IntervalBegins
    <3> HIDE DEF b
    <3>2. b \in Nat /\ b <= then /\ then <= b
      BY <2>3, <2>5, <2>6, <3>1
    <3>3. b = then
      BY <2>7, <3>2
    <3> QED BY <3>3 DEF b
  <2>13. TrafficByKey(e, Window)[k][now] =
            Rate(Bytes(Last(RowsOf(e, k, then)), k), Bytes(First(RowsOf(e, k, now)), k), now - then)
    <3>1. now \in DOMAIN TrafficByKey(e, Window)[k]
      BY <2>9, <2>10
    <3> QED BY <2>9, <2>12, <3>1, ListedRate DEF T
  <2>14. First(RowsOf(e, k, now)) = Last(RowsOf(e, k, now))
    <3>1. First(RowsOf(e, k, now)) \in RowsOf(e, k, now) /\ Last(RowsOf(e, k, now)) \in RowsOf(e, k, now)
      BY <1>1, <2>5, TimesHaveRows DEF T
    <3> DEFINE x == First(RowsOf(e, k, now))
               y == Last(RowsOf(e, k, now))
    <3>2. x \in samples[e] /\ y \in samples[e] /\ x.ts = now /\ y.ts = now
      BY <3>1 DEF RowsOf, RowsAt
    <3> HIDE DEF x, y
    <3>3. x = y
      BY <1>1, <3>2 DEF AloneInv
    <3> QED BY <3>3 DEF x, y
  <2>15. CurrentRate(TrafficByKey(e, Window)[k]) = TrafficByKey(e, Window)[k][now]
    BY <2>9, <2>11 DEF CurrentRate
  <2> QED BY <2>2, <2>9, <2>13, <2>14, <2>15
<1>2. Spec => []IInv /\ []HistoryInv /\ []AloneInv
  BY Invariance, HistoryHolds, AloneHolds
<1> QED BY <1>1, <1>2, PTL
=============================================================================
