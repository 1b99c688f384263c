---------------------------- MODULE StatusStore ----------------------------
(***************************************************************************)
(* Status ingestion: the concentrators' WireGuard peers, the agents that   *)
(* push `wg show dump`, the uploads on their way (lost, sent twice, and,   *)
(* where agent runs overlap, out of order), handleStatusUpload and the     *)
(* tables ReplaceStatus writes, with the readers that pages and the        *)
(* dormancy sweep use.                                                     *)
(*                                                                         *)
(* A handler takes the time before it writes, so it has two steps.  The    *)
(* two counters of a peer are treated alike by the code and are one here;  *)
(* the bytes a peer really moved are kept beside them as `moved`, which no *)
(* operation of the portal reads.                                          *)
(***************************************************************************)
EXTENDS Integers, FiniteSets, FiniteSetsExt

CONSTANTS
    Machines,       \* machine rows
    Keys,           \* public keys
    FirstKey,       \* the key each machine is registered with
    Endpoints,      \* concentrators
    Retention,      \* historyRetention
    Window,         \* rowSparkPoints: the intervals a listing shows
    InOrder,        \* whether an endpoint's agent has one run at a time
    Dropping,       \* whether concentrators drop peers
    Carries,        \* bound: which peers each concentrator may come to carry
    PerSecond,      \* bound: reports of an endpoint received in a second
    MaxClock,       \* bound: clock
    MaxBytes,       \* bound: bytes a peer moves
    MaxWire         \* bound: uploads under way at once

ASSUME StatusAssumption ==
    /\ FirstKey \in [Machines -> Keys]
    /\ \A m, n \in Machines : FirstKey[m] = FirstKey[n] => m = n
    /\ Retention \in Nat /\ Window \in Nat \ {0}
    /\ {InOrder, Dropping} \subseteq BOOLEAN
    /\ Carries \subseteq Endpoints \X Keys
    /\ PerSecond \in Nat /\ MaxClock \in Nat /\ MaxBytes \in Nat /\ MaxWire \in Nat

VARIABLES
    clock,          \* seconds; the concentrators' clocks agree with it
    hub,            \* per endpoint, the peers WireGuard carries
    moved,          \* history: bytes moved so far, per endpoint and key
    wire,           \* uploads under way
    handling,       \* requests inside handleStatusUpload
    statusPeer,     \* status_peer: per endpoint, last_handshake by key
    receivedAt,     \* status_report
    samples,        \* status_history: per endpoint, the rows of each stored report
    keyOf,          \* machine.public_key
    lastSeen,       \* machine.last_seen, 0 when never
    reported,       \* history: latest handshake any stored report had, by key
    rekeyed         \* history: the machines whose key was ever replaced

vars == <<clock, hub, moved, wire, handling, statusPeer, receivedAt, samples,
          keyOf, lastSeen, reported, rekeyed>>

tables == <<statusPeer, receivedAt, samples, keyOf, lastSeen>>

(* A peer of a concentrator, as `wg show dump` has it; no handshake is 0.  *)
Peer == [hs : Nat, bytes : Nat]

Peers == UNION {[K -> Peer] : K \in SUBSET Keys}

Upload == [ep : Endpoints, peers : Peers, moved : [Keys -> Nat]]

Request == [ep : Endpoints, peers : Peers, moved : [Keys -> Nat], ts : Nat]

(* Reports are stored under their second; nth is the order within one.     *)
Sample == [ts : Nat, nth : Nat, peers : Peers, moved : [Keys -> Nat]]

(* Type invariant.                                                         *)
TypeOK ==
    /\ clock \in Nat
    /\ hub \in [Endpoints -> Peers]
    /\ moved \in [Endpoints -> [Keys -> Nat]]
    /\ wire \subseteq Upload
    /\ handling \subseteq Request
    /\ statusPeer \in [Endpoints -> UNION {[K -> Nat] : K \in SUBSET Keys}]
    /\ receivedAt \in [Endpoints -> Nat]
    /\ samples \in [Endpoints -> SUBSET Sample]
    /\ keyOf \in [Machines -> Keys]
    /\ lastSeen \in [Machines -> Nat]
    /\ reported \in [Keys -> Nat]
    /\ rekeyed \subseteq Machines

NoPeers == [k \in {} |-> 0]

Init ==
    /\ clock = 1
    /\ hub = [e \in Endpoints |-> NoPeers]
    /\ moved = [e \in Endpoints |-> [k \in Keys |-> 0]]
    /\ wire = {} /\ handling = {}
    /\ statusPeer = [e \in Endpoints |-> NoPeers]
    /\ receivedAt = [e \in Endpoints |-> 0]
    /\ samples = [e \in Endpoints |-> {}]
    /\ keyOf = FirstKey
    /\ lastSeen = [m \in Machines |-> 0]
    /\ reported = [k \in Keys |-> 0]
    /\ rekeyed = {}

-----------------------------------------------------------------------------
(* The concentrators.                                                      *)

Tick ==
    /\ clock < MaxClock
    /\ clock' = clock + 1
    /\ UNCHANGED <<hub, moved, wire, handling, tables, reported, rekeyed>>

(* A peer is carried from now on, or no longer; either way it starts anew. *)
Carry(e, k) ==
    /\ <<e, k>> \in Carries
    /\ k \notin DOMAIN hub[e]
    /\ hub' = [hub EXCEPT ![e] =
                  [j \in DOMAIN @ \cup {k} |-> IF j = k THEN [hs |-> 0, bytes |-> 0] ELSE @[j]]]
    /\ UNCHANGED <<clock, moved, wire, handling, tables, reported, rekeyed>>

Drop(e, k) ==
    /\ Dropping
    /\ k \in DOMAIN hub[e]
    /\ hub' = [hub EXCEPT ![e] = [j \in DOMAIN @ \ {k} |-> @[j]]]
    /\ UNCHANGED <<clock, moved, wire, handling, tables, reported, rekeyed>>

(* WireGuard restarts: handshakes and counters are gone.                   *)
Restart(e) ==
    /\ hub' = [hub EXCEPT ![e] = [j \in DOMAIN @ |-> [hs |-> 0, bytes |-> 0]]]
    /\ UNCHANGED <<clock, moved, wire, handling, tables, reported, rekeyed>>

Handshake(e, k) ==
    /\ k \in DOMAIN hub[e]
    /\ hub' = [hub EXCEPT ![e][k].hs = clock]
    /\ UNCHANGED <<clock, moved, wire, handling, tables, reported, rekeyed>>

Transfer(e, k) ==
    /\ k \in DOMAIN hub[e] /\ hub[e][k].hs > 0
    /\ moved[e][k] < MaxBytes
    /\ hub' = [hub EXCEPT ![e][k].bytes = @ + 1]
    /\ moved' = [moved EXCEPT ![e][k] = @ + 1]
    /\ UNCHANGED <<clock, wire, handling, tables, reported, rekeyed>>

-----------------------------------------------------------------------------
(* The agents and the network.                                             *)

(* An agent run sends the dump; a run that cannot read the interface sends *)
(* an empty one.  With one run at a time, the previous one has given up.   *)
Push(e, P) ==
    /\ P \in {hub[e], NoPeers}
    /\ Cardinality(wire) < MaxWire
    /\ InOrder => \A u \in wire : u.ep # e
    /\ wire' = wire \cup {[ep |-> e, peers |-> P, moved |-> moved[e]]}
    /\ UNCHANGED <<clock, hub, moved, handling, tables, reported, rekeyed>>

Lose(u) ==
    /\ wire' = wire \ {u}
    /\ UNCHANGED <<clock, hub, moved, handling, tables, reported, rekeyed>>

(* handleStatusUpload up to time.Now(); a request whose answer is lost is  *)
(* sent again by curl (again).  Retries and runs are seconds apart, so one *)
(* PerSecond is the rule and two the exception (overlapping runs).         *)
Receive(u, again) ==
    /\ Cardinality(handling) < MaxWire
    /\ Cardinality({h \in handling : h.ep = u.ep /\ h.ts = clock})
          + Cardinality({s \in samples[u.ep] : s.ts = clock}) < PerSecond
    /\ wire' = IF again THEN wire ELSE wire \ {u}
    /\ handling' = handling \cup
          {[ep |-> u.ep, peers |-> u.peers, moved |-> u.moved, ts |-> clock]}
    /\ UNCHANGED <<clock, hub, moved, tables, reported, rekeyed>>

-----------------------------------------------------------------------------
(* ReplaceStatus, one transaction.                                         *)

(* Mutant of KnownHandshake: a fresh dump overwrites what was known.       *)
ReportedHandshake(e, P, k) == P[k].hs

(* The handshake stored for a peer: the previous one when it is later.     *)
KnownHandshake(e, P, k) ==
    IF k \in DOMAIN statusPeer[e] /\ statusPeer[e][k] > P[k].hs
    THEN statusPeer[e][k] ELSE P[k].hs

(* Mutant of SeenAfter: the last report to arrive wins.                    *)
SeenWhateverCame(m, hs) == hs

(* UPDATE machine SET last_seen=? WHERE ... AND last_seen<?                *)
SeenAfter(m, hs) == IF lastSeen[m] < hs THEN hs ELSE lastSeen[m]

ReplaceStatus(h) ==
    LET hs == [k \in DOMAIN h.peers |-> KnownHandshake(h.ep, h.peers, k)]
        rows == IF h.peers = NoPeers THEN {} ELSE
                {[ts |-> h.ts, nth |-> Cardinality({s \in samples[h.ep] : s.ts = h.ts}),
                  peers |-> h.peers, moved |-> h.moved]} IN
    /\ statusPeer' = [statusPeer EXCEPT ![h.ep] = hs]
    /\ lastSeen' = [m \in Machines |->
           IF keyOf[m] \in DOMAIN hs /\ hs[keyOf[m]] > 0
           THEN SeenAfter(m, hs[keyOf[m]]) ELSE lastSeen[m]]
    /\ receivedAt' = [receivedAt EXCEPT ![h.ep] = h.ts]
    /\ samples' = [e \in Endpoints |->
           {s \in samples[e] \cup (IF e = h.ep THEN rows ELSE {}) : s.ts >= h.ts - Retention}]
    /\ handling' = handling \ {h}
    /\ reported' = [k \in Keys |->
           IF k \in DOMAIN h.peers /\ h.peers[k].hs > reported[k] THEN h.peers[k].hs ELSE reported[k]]
    /\ UNCHANGED <<clock, hub, moved, wire, keyOf, rekeyed>>

(* UpdateOwnMachine: the owner replaces the key (used by no other row).    *)
Rekey(m, k) ==
    /\ \A n \in Machines : keyOf[n] # k
    /\ keyOf' = [keyOf EXCEPT ![m] = k]
    /\ rekeyed' = rekeyed \cup {m}
    /\ UNCHANGED <<clock, hub, moved, wire, handling, statusPeer, receivedAt, samples,
                   lastSeen, reported>>

Next ==
    \/ Tick
    \/ \E e \in Endpoints : Restart(e) \/ \E P \in {hub[e], NoPeers} : Push(e, P)
    \/ \E e \in Endpoints, k \in Keys :
          Carry(e, k) \/ Drop(e, k) \/ Handshake(e, k) \/ Transfer(e, k)
    \/ \E u \in wire : Lose(u) \/ \E again \in BOOLEAN : Receive(u, again)
    \/ \E h \in handling : ReplaceStatus(h)
    \/ \E m \in Machines, k \in Keys : Rekey(m, k)

Spec == Init /\ [][Next]_vars

-----------------------------------------------------------------------------
(* The readers.                                                            *)

(* SELECT DISTINCT report_ts ... ORDER BY report_ts DESC LIMIT n.          *)
Times(e) == {s.ts : s \in samples[e]}
LastTimes(e, n) == {t \in Times(e) : Cardinality({u \in Times(e) : u > t}) < n}

(* The reports of an endpoint at time t, and those that have peer k.       *)
RowsAt(e, t) == {s \in samples[e] : s.ts = t}
RowsOf(e, k, t) == {s \in RowsAt(e, t) : k \in DOMAIN s.peers}

(* Of rows of one second, the first and the last stored.                   *)
First(R) == CHOOSE s \in R : \A r \in R : s.nth <= r.nth
Last(R) == CHOOSE s \in R : \A r \in R : r.nth <= s.nth

Bytes(s, k) == s.peers[k].bytes

Before(T, t) == Max({u \in T : u < t})

(* Mutant of Rate: a counter that went back gives a negative rate.         *)
RateUnclamped(prev, cur, dt) == (cur - prev) \div dt

(* The rate over an interval; a counter that went back was reset.          *)
Rate(prev, cur, dt) == IF cur < prev THEN 0 ELSE (cur - prev) \div dt

EndpointThroughput(e) ==
    LET T == LastTimes(e, 2)
        now == Max(T)
        then == Min(T) IN
    IF Cardinality(T) < 2 THEN NoPeers
    ELSE [k \in {j \in Keys : RowsOf(e, j, now) # {} /\ RowsOf(e, j, then) # {}} |->
             Rate(Bytes(Last(RowsOf(e, k, then)), k), Bytes(Last(RowsOf(e, k, now)), k),
                  now - then)]

(* The window of a listing: n intervals.                                   *)
Recent(e, n) == LastTimes(e, n + 1)

(* The times of that window with a row of the peer.                        *)
TimesOf(e, k, n) == {t \in Recent(e, n) : RowsOf(e, k, t) # {}}

(* Per peer, the rate of every interval, named by its end.  Rows come in   *)
(* order of time, then of insertion; an interval of no length is skipped.  *)
TrafficByKey(e, n) ==
    [k \in {j \in Keys : Cardinality(TimesOf(e, j, n)) > 1} |->
        [t \in TimesOf(e, k, n) \ {Min(TimesOf(e, k, n))} |->
            LET p == Before(TimesOf(e, k, n), t) IN
            Rate(Bytes(Last(RowsOf(e, k, p)), k), Bytes(First(RowsOf(e, k, t)), k), t - p)]]

(* Mutant of CurrentRate: the first interval wins.                         *)
OldestRate(traffic) == traffic[Min(DOMAIN traffic)]

(* PeerTraffic.RxRate, TxRate: the last interval wins.                     *)
CurrentRate(traffic) == traffic[Max(DOMAIN traffic)]

(* PeerSeries and the drawer that turns it into rates: the peer's own last *)
(* n samples, whatever the endpoint reported since.                        *)
PeerSeries(e, k, n) ==
    LET S == {s \in samples[e] : k \in DOMAIN s.peers} IN
    {t \in {s.ts : s \in S} : Cardinality({s \in S : s.ts > t}) < n}

(* PeerFirstSeen.                                                          *)
PeerFirstSeen(e, k) ==
    LET T == {t \in Times(e) : RowsOf(e, k, t) # {}} IN
    IF T = {} THEN 0 ELSE Min(T)

(* EndpointSeries: the counters summed over all rows of a time.            *)
EndpointSeries(e, n) ==
    LET T == LastTimes(e, n + 1)
        total(t) == MapThenSumSet(LAMBDA r : Bytes(r[1], r[2]),
                                  {r \in RowsAt(e, t) \X Keys : r[1] \in RowsOf(e, r[2], t)}) IN
    [t \in {u \in T : \E v \in T : v < u} |->
        Rate(total(Before(T, t)), total(t), t - Before(T, t))]

(* LatestPeerByKey, PeersByKey: the best handshake any hub has for a key.  *)
LatestPeerByKey(k) ==
    Max({0} \cup {statusPeer[e][k] : e \in {d \in Endpoints : k \in DOMAIN statusPeer[d]}})

-----------------------------------------------------------------------------
(* Properties.                                                             *)

(* What is known of a peer never goes back while its endpoint reports it,  *)
(* nor does a machine's last_seen ever, across WireGuard restarts, lost,   *)
(* repeated and late uploads and replaced keys (ReplaceStatus: "Keep the   *)
(* previous values until a newer report supersedes them").                 *)
HandshakeKept ==
    [][/\ \A e \in Endpoints : \A k \in DOMAIN statusPeer[e] \cap DOMAIN statusPeer'[e] :
             statusPeer'[e][k] >= statusPeer[e][k]
       /\ \A m \in Machines : lastSeen'[m] >= lastSeen[m]]_vars

(* last_seen, which the dormancy sweep judges by, is the latest handshake  *)
(* any report of any endpoint had for the machine's key, in whatever order *)
(* they were stored, and no page shows a later one.                        *)
LatestReported(m) ==
    /\ lastSeen[m] = reported[keyOf[m]]
    /\ \A e \in Endpoints :
          keyOf[m] \in DOMAIN statusPeer[e] => statusPeer[e][keyOf[m]] <= lastSeen[m]

(* So it is for every machine whose key was never replaced.                *)
SeenIsLatestReported == \A m \in Machines \ rekeyed : LatestReported(m)

(* Machine.LastSeen: "the latest handshake ever reported for this key, on  *)
(* any endpoint": so for every machine, replaced keys included.            *)
SeenIsOfThisKey == \A m \in Machines : LatestReported(m)

(* Restarts do not wipe a handshake ("a fresh `wg show` reports handshake  *)
(* 0 ... which would otherwise wipe good data"): where no concentrator     *)
(* drops peers, the latest handshake of a key they all report is shown.    *)
RestartKeepsHandshake ==
    \A k \in Keys :
        (\A e \in Endpoints : k \in DOMAIN statusPeer[e]) => LatestPeerByKey(k) = reported[k]

(* A listed rate is never negative and never more than what really moved,  *)
(* over counter resets, peers that leave and return, lost and repeated     *)
(* reports, and the trimming of the history.                               *)
RatesHonest ==
    \A e \in Endpoints :
        LET traffic == TrafficByKey(e, Window) IN
        \A k \in DOMAIN traffic : \A t \in DOMAIN traffic[k] :
            LET was == Last(RowsOf(e, k, Before(TimesOf(e, k, Window), t)))
                is == First(RowsOf(e, k, t)) IN
            /\ traffic[k][t] >= 0
            /\ traffic[k][t] * (is.ts - was.ts) <= is.moved[k] - was.moved[k]

(* The status page (EndpointThroughput) and the machines list              *)
(* (TrafficByKey) show the same rate for a peer of the last two reports.   *)
RatesAgree ==
    \A e \in Endpoints :
        LET page == EndpointThroughput(e)
            list == TrafficByKey(e, Window) IN
        \A k \in DOMAIN page : k \in DOMAIN list /\ CurrentRate(list[k]) = page[k]

(* PeerTraffic.RxRate: "bytes/s, from the last two reports": a listed rate *)
(* is one the last two reports give.                                       *)
RateIsCurrent ==
    \A e \in Endpoints : DOMAIN TrafficByKey(e, Window) \subseteq DOMAIN EndpointThroughput(e)

(* EndpointSeries: "total-throughput samples (bytes/s, rx+tx summed across *)
(* peers)": never more than all peers really moved.                        *)
SeriesHonest ==
    \A e \in Endpoints :
        LET series == EndpointSeries(e, Window)
            all(t) == MapThenSumSet(LAMBDA k : Last(RowsAt(e, t)).moved[k], Keys) IN
        \A t \in DOMAIN series :
            LET p == Before(LastTimes(e, Window + 1), t) IN
            series[t] * (t - p) <= all(t) - all(p)
=============================================================================
