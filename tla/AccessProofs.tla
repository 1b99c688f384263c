---------------------------- MODULE AccessProofs ----------------------------
(***************************************************************************)
(* Proofs about what guards the door.                                      *)
(*                                                                         *)
(* Sessions, for any number of sessions, requests and users and any        *)
(* lifetimes: expiry columns never pass the absolute deadline (Capped),    *)
(* ended sessions stay ended and never end unprovoked (EndedOK), because a *)
(* request only holds sessions that were issued (HeldOK).                  *)
(*                                                                         *)
(* Limiter: it implements RateLimit, for every number of keys, burst, rate *)
(* and length of time.                                                     *)
(***************************************************************************)
EXTENDS Sessions, Limiter, TLAPS

Capped ==
    \A s \in Sids : session[s].state = "live" =>
        /\ session[s].left <= MaxLife - session[s].age
        /\ session[s].left < 0 => s \in lapsed

EndedOK ==
    /\ \A s \in revoked : session[s].state = "gone"
    /\ \A s \in Sids : session[s].state = "gone" => s \in revoked \cup lapsed

HeldOK ==
    \A w \in Workers :
        /\ req[w].pc \in {"expire", "read", "serve"} =>
             req[w].sid \in Sids /\ session[req[w].sid].state # "none"
        /\ req[w].pc = "expire" => req[w].sid \in revoked \cup lapsed
        /\ req[w].pc \in {"verified", "reissue"} => req[w].uid \in Users \cup {None}

IInv == TypeOK /\ Capped /\ EndedOK /\ HeldOK

USE SessionsAssumption

(* The initial state.                                                      *)
LEMMA InitOK == Init => IInv
  <1> SUFFICES ASSUME Init PROVE IInv
    OBVIOUS
  <1>1. NoRow \in Row /\ Idle \in Request
    BY DEF NoRow, Row, Idle, Request
  <1>2. TypeOK
    BY <1>1 DEF Init, TypeOK
  <1>3. Capped /\ EndedOK /\ HeldOK
    BY DEF Init, Capped, EndedOK, HeldOK, NoRow, Idle
  <1>4. QED
    BY <1>2, <1>3 DEF IInv

(* What the cut-offs yield.                                                *)
LEMMA RowSteps ==
  ASSUME NEW r \in Row
  PROVE  /\ Deleted(r) \in Row /\ Deleted(r).state = "gone"
         /\ Touched(r) \in Row /\ Touched(r).state = r.state
         /\ r.state # "live" => Touched(r) = r
         /\ r.state = "live" => /\ Touched(r).age = r.age
                                /\ Touched(r).left <= MaxLife - r.age
                                /\ Touched(r).left < 0 => r.age > MaxLife
  <1> DEFINE l == AtMost(TTL, MaxLife - r.age)
  <1>1. r.age \in 0..MaxLife + 1
    BY DEF Row
  <1>2. l \in -1..TTL /\ l <= MaxLife - r.age /\ (l < 0 => r.age > MaxLife)
    BY <1>1 DEF AtMost
  <1>3. Deleted(r) \in Row /\ Deleted(r).state = "gone"
    BY DEF Deleted, Row
  <1> HIDE DEF l
  <1> DEFINE t == [r EXCEPT !.left = l]
  <1>4. t \in Row /\ t.state = r.state /\ t.age = r.age /\ t.left = l
    BY <1>2 DEF Row
  <1>5. Touched(r) = IF r.state = "live" THEN t ELSE r
    BY DEF Touched, Refreshed, l
  <1> HIDE DEF t
  <1>6. QED
    BY <1>2, <1>3, <1>4, <1>5

(* Ending sessions that lapsed or are revoked in the same step.            *)
LEMMA DeleteOK ==
  ASSUME IInv, NEW S, S \subseteq Live, Delete(S), req' \in [Workers -> Request],
         S \subseteq revoked' \cup lapsed', revoked \subseteq revoked',
         revoked' \subseteq revoked \cup S \cup {s \in Sids : session[s].state = "gone"},
         UNCHANGED <<password, lapsed>>
  PROVE  TypeOK' /\ Capped' /\ EndedOK'
         /\ \A s \in Sids : session[s].state # "none" => session'[s].state # "none"
  <1>1. session \in [Sids -> Row] /\ S \subseteq Sids
    BY DEF IInv, TypeOK, Live
  <1>2. ASSUME NEW s \in Sids
        PROVE  /\ session'[s] \in Row
               /\ s \in S => session'[s].state = "gone"
               /\ s \notin S => session'[s] = session[s]
    BY <1>1, RowSteps DEF Delete
  <1>3. session' \in [Sids -> Row]
    <2>1. session' = [s \in Sids |-> session'[s]]
      BY DEF Delete
    <2>2. QED
      BY <1>2, <2>1
  <1>4. TypeOK'
    BY <1>1, <1>3 DEF IInv, TypeOK
  <1>5. Capped'
    BY <1>2 DEF IInv, Capped
  <1>6. EndedOK'
    BY <1>1, <1>2 DEF IInv, TypeOK, EndedOK
  <1>7. \A s \in Sids : session[s].state # "none" => session'[s].state # "none"
    BY <1>2
  <1>8. QED
    BY <1>4, <1>5, <1>6, <1>7

(* A request whose new state holds nothing it should not.                  *)
LEMMA HeldKept ==
  ASSUME IInv, NEW w \in Workers, NEW r \in Request, req' = [req EXCEPT ![w] = r],
         r.pc \in {"expire", "read", "serve"} =>
             r.sid \in Sids /\ session'[r.sid].state # "none",
         r.pc = "expire" => r.sid \in revoked' \cup lapsed',
         revoked \subseteq revoked', lapsed \subseteq lapsed',
         \A s \in Sids : session[s].state # "none" => session'[s].state # "none"
  PROVE  HeldOK' /\ req' \in [Workers -> Request]
  <1>1. req \in [Workers -> Request]
    BY DEF IInv, TypeOK
  <1>2. req' \in [Workers -> Request] /\ req'[w] = r
        /\ \A v \in Workers : v # w => req'[v] = req[v]
    BY <1>1
  <1>3. ASSUME NEW v \in Workers
        PROVE  /\ req'[v].pc \in {"expire", "read", "serve"} =>
                     req'[v].sid \in Sids /\ session'[req'[v].sid].state # "none"
               /\ req'[v].pc = "expire" => req'[v].sid \in revoked' \cup lapsed'
    <2>1. CASE v = w
      BY <1>2, <2>1
    <2>2. CASE v # w
      BY <1>2, <2>2 DEF IInv, HeldOK
    <2>3. QED
      BY <2>1, <2>2
  <1>4. \A v \in Workers : req'[v].uid \in Users \cup {None}
    BY <1>2 DEF Request
  <1>5. QED
    BY <1>2, <1>3, <1>4 DEF HeldOK

-----------------------------------------------------------------------------
(* The steps.                                                              *)

(* Steps of a request that write no row.                                   *)
LEMMA NoWriteOK ==
  ASSUME IInv, NEW w \in Workers, NEW r \in Request, req' = [req EXCEPT ![w] = r],
         r.pc \in {"expire", "read", "serve"} => r.sid \in Sids /\ session[r.sid].state # "none",
         r.pc = "expire" => r.sid \in revoked \cup lapsed,
         UNCHANGED <<session, revoked, lapsed>>, password' \in 0..MaxChanges
  PROVE  IInv'
  <1>1. HeldOK' /\ req' \in [Workers -> Request]
    BY HeldKept
  <1>2. TypeOK'
    BY <1>1 DEF IInv, TypeOK
  <1>3. Capped' /\ EndedOK'
    BY DEF IInv, Capped, EndedOK
  <1>4. QED
    BY <1>1, <1>2, <1>3 DEF IInv

(* An idle worker.                                                         *)
LEMMA IdleOK == Idle \in Request /\ Idle.pc = "idle"
  BY DEF Idle, Request

LEMMA LoginOK == ASSUME IInv, NEW w \in Workers, NEW u \in Users, Login(w, u) PROVE IInv'
  <1> DEFINE r == [pc |-> "verified", sid |-> None, uid |-> u,
                   verified |-> IF u = LocalAdmin THEN password ELSE 0]
  <1>1. r \in Request /\ r.pc = "verified"
    BY DEF IInv, TypeOK, Request
  <1>2. req' = [req EXCEPT ![w] = r] /\ UNCHANGED <<session, password, revoked, lapsed>>
    BY DEF Login
  <1>3. password' \in 0..MaxChanges
    BY <1>2 DEF IInv, TypeOK
  <1> HIDE DEF r
  <1>4. QED
    BY <1>1, <1>2, <1>3, NoWriteOK

LEMMA EndRequestOK == ASSUME IInv, NEW w \in Workers, EndRequest(w) PROVE IInv'
  <1>1. req' = [req EXCEPT ![w] = Idle] /\ UNCHANGED <<session, password, revoked, lapsed>>
    BY DEF EndRequest, Done
  <1>2. password' \in 0..MaxChanges
    BY <1>1 DEF IInv, TypeOK
  <1>3. QED
    BY <1>1, <1>2, IdleOK, NoWriteOK

(* A row that Read rejects has lapsed: its expiry is within the deadline.  *)
LEMMA ReadSessionOK == ASSUME IInv, NEW w \in Workers, ReadSession(w) PROVE IInv'
  <1>1. PICK s \in Live :
          req' = [req EXCEPT ![w] =
            [pc |-> IF Rejected(session[s]) THEN "expire" ELSE "read", sid |-> s,
             uid |-> session[s].uid, verified |-> session[s].verified]]
    BY DEF ReadSession
  <1> DEFINE pc == IF Rejected(session[s]) THEN "expire" ELSE "read"
             r == [pc |-> pc, sid |-> s, uid |-> session[s].uid, verified |-> session[s].verified]
  <1>2. s \in Sids /\ session[s].state = "live" /\ session[s] \in Row
    BY DEF Live, IInv, TypeOK
  <1>3. session[s].age \in 0..MaxLife + 1 /\ session[s].left \in -1..TTL
    BY <1>2 DEF Row
  <1>4. Rejected(session[s]) => s \in lapsed
    BY <1>2, <1>3 DEF Rejected, IInv, Capped
  <1>5. pc \in {"expire", "read"} /\ (pc = "expire" => s \in lapsed)
    BY <1>4
  <1> HIDE DEF pc
  <1>6. r \in Request /\ r.pc = pc /\ r.sid = s
    BY <1>2, <1>5 DEF Row, Request
  <1>7. req' = [req EXCEPT ![w] = r]
    BY <1>1 DEF pc
  <1>8. UNCHANGED <<session, password, revoked, lapsed>> /\ password' \in 0..MaxChanges
    BY DEF ReadSession, IInv, TypeOK
  <1> HIDE DEF r
  <1>9. QED
    BY <1>2, <1>5, <1>6, <1>7, <1>8, NoWriteOK

LEMMA SetPasswordOK == ASSUME IInv, NEW w \in Workers, SetPassword(w) PROVE IInv'
  <1> DEFINE q == req[w]
             r == [q EXCEPT !.pc = "revoke", !.verified = password + 1]
  <1>1. password + 1 \in 0..MaxChanges /\ q \in Request
    BY DEF SetPassword, IInv, TypeOK
  <1> HIDE DEF q
  <1>2. r \in Request /\ r.pc = "revoke"
    BY <1>1 DEF Request
  <1>3. req' = [req EXCEPT ![w] = r]
    BY DEF SetPassword, IInv, TypeOK, q
  <1>4. UNCHANGED <<session, revoked, lapsed>> /\ password' \in 0..MaxChanges
    BY <1>1 DEF SetPassword
  <1> HIDE DEF r
  <1>5. QED
    BY <1>2, <1>3, <1>4, NoWriteOK

(* A new session: its expiry is within the deadline from the start.        *)
LEMMA IssueSessionOK == ASSUME IInv, NEW w \in Workers, IssueSession(w) PROVE IInv'
  <1>1. PICK s \in Sids : CreateSession(s, req[w].uid, req[w].verified)
    BY DEF IssueSession
  <1>2. req' = [req EXCEPT ![w] = Idle] /\ UNCHANGED <<password, revoked, lapsed>>
    BY DEF IssueSession, Done
  <1> DEFINE n == [state |-> "live", uid |-> req[w].uid, verified |-> req[w].verified,
                   age |-> 0, left |-> TTL]
  <1>3. req[w] \in Request
    BY DEF IInv, TypeOK
  <1>4. n \in Row
    BY <1>3 DEF Request, Row
  <1>5. session \in [Sids -> Row] /\ session[s].state = "none" /\ session' = [session EXCEPT ![s] = n]
    BY <1>1 DEF CreateSession, IInv, TypeOK
  <1>6. n.state = "live" /\ n.left <= MaxLife - n.age /\ n.left >= 0
    OBVIOUS
  <1> HIDE DEF n
  <1>7. session' \in [Sids -> Row] /\ session'[s] = n
        /\ \A t \in Sids : t # s => session'[t] = session[t]
    BY <1>4, <1>5
  <1>8. HeldOK' /\ req' \in [Workers -> Request]
    BY <1>2, <1>5, <1>6, <1>7, IdleOK, HeldKept
  <1>9. TypeOK'
    BY <1>2, <1>7, <1>8 DEF IInv, TypeOK
  <1>10. Capped'
    <2>1. ASSUME NEW t \in Sids, session'[t].state = "live"
          PROVE  /\ session'[t].left <= MaxLife - session'[t].age
                 /\ session'[t].left < 0 => t \in lapsed'
      <3>1. CASE t = s
        BY <1>4, <1>6, <1>7, <3>1 DEF Row
      <3>2. CASE t # s
        BY <1>2, <1>7, <2>1, <3>2 DEF IInv, Capped
      <3>3. QED
        BY <3>1, <3>2
    <2>2. QED
      BY <2>1 DEF Capped
  <1>11. EndedOK'
    BY <1>2, <1>5, <1>6, <1>7 DEF IInv, TypeOK, EndedOK
  <1>12. QED
    BY <1>8, <1>9, <1>10, <1>11 DEF IInv

(* A refresh: the session may have ended since it was read.                *)
LEMMA RefreshOK == ASSUME IInv, NEW w \in Workers, Refresh(w) PROVE IInv'
  <1> DEFINE q == req[w]
             s == q.sid
             n == Touched(session[s])
             r == [q EXCEPT !.pc = "serve"]
  <1>1. /\ q \in Request /\ s \in Sids /\ session[s].state # "none"
        /\ session \in [Sids -> Row] /\ UNCHANGED <<password, revoked, lapsed>>
    BY DEF Refresh, At, IInv, TypeOK, HeldOK
  <1>2. req' = [req EXCEPT ![w] = r]
    BY DEF Refresh, IInv, TypeOK
  <1>3. session' = [session EXCEPT ![s] = n] \/ session' = session
    BY DEF Refresh
  <1>4. /\ n \in Row /\ n.state = session[s].state
        /\ n.state # "live" => n = session[s]
        /\ n.state = "live" => /\ n.age = session[s].age
                               /\ n.left <= MaxLife - session[s].age
                               /\ n.left < 0 => session[s].age > MaxLife
    BY <1>1, RowSteps
  <1> HIDE DEF q
  <1>5. r \in Request /\ r.pc = "serve" /\ r.sid = s
    BY <1>1 DEF Request
  <1> HIDE DEF r, n, s
  <1>6. /\ session' \in [Sids -> Row] /\ session'[s] \in {n, session[s]}
        /\ \A t \in Sids : t # s => session'[t] = session[t]
    BY <1>1, <1>3, <1>4
  <1>7. \A t \in Sids : session'[t].state = session[t].state
    BY <1>1, <1>4, <1>6
  <1>8. HeldOK' /\ req' \in [Workers -> Request]
    BY <1>1, <1>2, <1>5, <1>7, HeldKept
  <1>9. TypeOK'
    BY <1>1, <1>6, <1>8 DEF IInv, TypeOK
  <1>10. Capped'
    <2>1. ASSUME NEW t \in Sids, session'[t].state = "live"
          PROVE  /\ session'[t].left <= MaxLife - session'[t].age
                 /\ session'[t].left < 0 => t \in lapsed'
      <3>1. session[t].state = "live"
        BY <1>7, <2>1
      <3>2. session[t].left <= MaxLife - session[t].age /\ (session[t].left < 0 => t \in lapsed)
        BY <3>1 DEF IInv, Capped
      <3>3. CASE t = s /\ session'[s] = n
        <4>1. n.age = session[s].age /\ n.left <= MaxLife - n.age
          BY <1>4, <2>1, <3>3
        <4>2. n.left < 0 => session[s].left < 0
          <5>1. session[s].age \in 0..MaxLife + 1 /\ session[s].left \in -1..TTL
            BY <1>1 DEF Row
          <5>2. QED
            BY <1>4, <2>1, <3>2, <3>3, <5>1
        <4>3. QED
          BY <1>1, <3>2, <3>3, <4>1, <4>2
      <3>4. CASE ~(t = s /\ session'[s] = n)
        BY <1>1, <1>6, <3>2, <3>4
      <3>5. QED
        BY <3>3, <3>4
    <2>2. QED
      BY <2>1 DEF Capped
  <1>11. EndedOK'
    BY <1>1, <1>7 DEF IInv, TypeOK, EndedOK
  <1>12. QED
    BY <1>8, <1>9, <1>10, <1>11 DEF IInv

(* A request that deletes and ends.                                        *)
LEMMA DeleteDone ==
  ASSUME IInv, NEW w \in Workers, NEW S, S \subseteq Live, Delete(S),
         NEW r \in Request, req' = [req EXCEPT ![w] = r],
         r.pc \notin {"expire", "read", "serve"},
         S \subseteq revoked' \cup lapsed', revoked \subseteq revoked',
         revoked' \subseteq revoked \cup S \cup {s \in Sids : session[s].state = "gone"},
         UNCHANGED <<password, lapsed>>
  PROVE  IInv'
  <1>1. req' \in [Workers -> Request]
    BY DEF IInv, TypeOK
  <1>2. TypeOK' /\ Capped' /\ EndedOK'
        /\ \A s \in Sids : session[s].state # "none" => session'[s].state # "none"
    BY <1>1, DeleteOK
  <1>3. HeldOK'
    BY <1>2, HeldKept
  <1>4. QED
    BY <1>2, <1>3 DEF IInv

LEMMA DropExpiredOK == ASSUME IInv, NEW w \in Workers, DropExpired(w) PROVE IInv'
  <1> DEFINE S == {req[w].sid} \cap Live
  <1>1. S \subseteq Live /\ Delete(S) /\ req' = [req EXCEPT ![w] = Idle]
        /\ UNCHANGED <<password, revoked, lapsed>>
    BY DEF DropExpired, Done
  <1>2. S \subseteq revoked' \cup lapsed'
    BY DEF DropExpired, At, IInv, HeldOK
  <1> HIDE DEF S
  <1>3. QED
    BY <1>1, <1>2, IdleOK, DeleteDone

LEMMA LogoutOK == ASSUME IInv, NEW w \in Workers, Logout(w) PROVE IInv'
  <1> DEFINE S == {req[w].sid} \cap Live
  <1>1. S \subseteq Live /\ Delete(S) /\ req' = [req EXCEPT ![w] = Idle]
        /\ revoked' = revoked \cup {req[w].sid} /\ UNCHANGED <<password, lapsed>>
    BY DEF Logout, Done
  <1>2. \/ req[w].sid \in S
        \/ session[req[w].sid].state = "gone" /\ req[w].sid \in Sids
    BY DEF Logout, At, IInv, HeldOK, TypeOK, Live, Row
  <1>3. S \subseteq revoked'
    BY <1>1
  <1> HIDE DEF S
  <1>4. QED
    BY <1>1, <1>2, <1>3, IdleOK, DeleteDone

LEMMA RevokeUserOK == ASSUME IInv, NEW w \in Workers, RevokeUser(w) PROVE IInv'
  <1> DEFINE S == {s \in Live : session[s].uid = req[w].uid}
             q == req[w]
             r == [q EXCEPT !.pc = "reissue"]
  <1>1. S \subseteq Live /\ Delete(S) /\ req' = [req EXCEPT ![w] = r]
        /\ revoked' = revoked \cup S /\ UNCHANGED <<password, lapsed>>
    BY DEF RevokeUser, IInv, TypeOK
  <1>2. q \in Request
    BY DEF IInv, TypeOK
  <1> HIDE DEF S, q
  <1>3. r \in Request /\ r.pc = "reissue"
    BY <1>2 DEF Request
  <1> HIDE DEF r
  <1>4. QED
    BY <1>1, <1>3, DeleteDone

LEMMA SweepExpiredOK == ASSUME IInv, SweepExpired PROVE IInv'
  <1> DEFINE S == {s \in Live : Expired(session[s])}
  <1>1. S \subseteq Live /\ Delete(S) /\ UNCHANGED <<password, req, revoked, lapsed>>
    BY DEF SweepExpired
  <1>2. S \subseteq lapsed'
    BY <1>1 DEF Expired, Live, IInv, Capped
  <1>3. req' \in [Workers -> Request]
    BY <1>1 DEF IInv, TypeOK
  <1> HIDE DEF S
  <1>4. TypeOK' /\ Capped' /\ EndedOK'
        /\ \A s \in Sids : session[s].state # "none" => session'[s].state # "none"
    BY <1>1, <1>2, <1>3, DeleteOK
  <1>5. HeldOK'
    BY <1>1, <1>4 DEF IInv, HeldOK
  <1>6. QED
    BY <1>4, <1>5 DEF IInv

(* Time passes: age grows as the time left shrinks.                        *)
LEMMA TickOK == ASSUME IInv, Tick PROVE IInv'
  <1> DEFINE N(row) == [row EXCEPT !.age = AtMost(@ + 1, MaxLife + 1),
                                   !.left = IF @ < 0 THEN @ ELSE @ - 1]
  <1>1. ASSUME NEW row \in Row
        PROVE  /\ N(row) \in Row /\ N(row).state = row.state
               /\ row.left <= MaxLife - row.age => N(row).left <= MaxLife - N(row).age
               /\ N(row).left < 0 => row.left <= 0
    <2> DEFINE a == row.age
               l == row.left
               a2 == AtMost(a + 1, MaxLife + 1)
               l2 == IF l < 0 THEN l ELSE l - 1
               n == [row EXCEPT !.age = a2, !.left = l2]
    <2>1. a \in 0..MaxLife + 1 /\ l \in -1..TTL
      BY DEF Row
    <2> HIDE DEF a, l
    <2>2. a2 \in 0..MaxLife + 1 /\ l2 \in -1..TTL /\ (l <= MaxLife - a => l2 <= MaxLife - a2)
          /\ (l2 < 0 => l <= 0)
      BY <2>1 DEF AtMost
    <2> HIDE DEF a2, l2
    <2>3. n \in Row /\ n.state = row.state /\ n.age = a2 /\ n.left = l2
      BY <2>2 DEF Row
    <2>4. N(row) = n
      BY DEF a, l, a2, l2
    <2> HIDE DEF n, N
    <2>5. QED
      BY <2>2, <2>3, <2>4 DEF a, l
  <1>2. session \in [Sids -> Row] /\ UNCHANGED <<password, req, revoked>>
        /\ lapsed' = lapsed \cup {s \in Live : session[s].left <= 0}
        /\ session' = [s \in Sids |-> IF s \in Live THEN N(session[s]) ELSE session[s]]
    BY DEF Tick, IInv, TypeOK
  <1> HIDE DEF N
  <1>3. session' \in [Sids -> Row] /\ \A s \in Sids : session'[s].state = session[s].state
    BY <1>1, <1>2
  <1>4. TypeOK'
    BY <1>2, <1>3 DEF IInv, TypeOK, Live
  <1>5. Capped'
    <2>1. ASSUME NEW s \in Sids, session'[s].state = "live"
          PROVE  /\ session'[s].left <= MaxLife - session'[s].age
                 /\ session'[s].left < 0 => s \in lapsed'
      <3>1. s \in Live /\ session[s] \in Row /\ session'[s] = N(session[s])
        BY <1>2, <1>3, <2>1 DEF Live
      <3>2. session[s].left <= MaxLife - session[s].age
        BY <3>1 DEF IInv, Capped, Live
      <3>3. QED
        BY <1>1, <1>2, <3>1, <3>2
    <2>2. QED
      BY <2>1 DEF Capped
  <1>6. EndedOK' /\ HeldOK'
    BY <1>2, <1>3 DEF IInv, TypeOK, EndedOK, HeldOK
  <1>7. QED
    BY <1>4, <1>5, <1>6 DEF IInv

-----------------------------------------------------------------------------
(* Every step preserves the invariant.                                     *)
LEMMA Inductive == Spec => []IInv
  <1>1. IInv /\ [Next]_vars => IInv'
    <2> SUFFICES ASSUME IInv, [Next]_vars PROVE IInv'
      OBVIOUS
    <2>1. CASE UNCHANGED vars
      BY <2>1 DEF vars, IInv, TypeOK, Capped, EndedOK, HeldOK
    <2>2. CASE \E w \in Workers : Step(w)
      BY <2>2, LoginOK, IssueSessionOK, ReadSessionOK, DropExpiredOK, RefreshOK, LogoutOK,
         SetPasswordOK, RevokeUserOK, EndRequestOK DEF Step
    <2>3. QED
      BY <2>1, <2>2, SweepExpiredOK, TickOK DEF Next
  <1>2. QED
    BY <1>1, InitOK, PTL DEF Spec

(* The purge misses no session that Read rejects.                          *)
THEOREM PurgeComplete == Spec => []DeadIsPurged
  <1>1. IInv => DeadIsPurged
    <2> SUFFICES ASSUME IInv, NEW s \in Live, Rejected(session[s]) PROVE Expired(session[s])
      BY DEF DeadIsPurged
    <2>1. session[s] \in Row /\ session[s].left <= MaxLife - session[s].age
      BY DEF IInv, TypeOK, Capped, Live
    <2>2. session[s].left \in -1..TTL /\ session[s].age \in 0..MaxLife + 1
      BY <2>1 DEF Row
    <2>3. QED
      BY <2>1, <2>2 DEF Rejected, Expired
  <1>2. QED
    BY <1>1, Inductive, PTL

(* Ended sessions stay ended, whatever requests still hold them.           *)
THEOREM RevocationFinal == Spec => []RevokedStaysOut
  <1>1. IInv => RevokedStaysOut
    BY DEF IInv, EndedOK, RevokedStaysOut, Live
  <1>2. QED
    BY <1>1, Inductive, PTL

(* No session in use is lost.                                              *)
THEOREM NothingLostEarly == Spec => []LostOnlyIfLapsed
  <1>1. IInv => LostOnlyIfLapsed
    BY DEF IInv, EndedOK, LostOnlyIfLapsed
  <1>2. QED
    BY <1>1, Inductive, PTL

HIDE SessionsAssumption

-----------------------------------------------------------------------------
(* The limiter.                                                            *)

USE LimiterAssumption, RefillAssumption

(* What d units of time bring.                                             *)
Gain(d) == d * Rate

LEMMA GainStep ==
    ASSUME NEW d \in Nat
    PROVE  Gain(d) \in Nat /\ Gain(d + 1) = Gain(d) + Rate /\ Gain(0) = 0
BY SMT DEF Gain

(* After the idle limit the gain fills any bucket.                         *)
LEMMA GainFills ==
    ASSUME NEW d \in Nat, d > IdleLimit
    PROVE  Gain(d) >= Full
<1>1. PICK e \in Nat : d = IdleLimit + e
    OBVIOUS
<1>2. d * Rate = IdleLimit * Rate + e * Rate /\ e * Rate \in Nat
    BY <1>1
<1>3. IdleLimit * Rate \in Nat
    OBVIOUS
<1> QED BY <1>2, <1>3 DEF Gain

LEMMA FilledIs ==
    ASSUME NEW b \in Bucket, now \in Nat, b.last <= now
    PROVE  /\ now - b.last \in Nat
           /\ Filled(b) = IF b.known THEN UpTo(b.tokens + Gain(now - b.last), Full) ELSE Full
           /\ Filled(b) \in 0..Full
<1>1. now - b.last \in Nat /\ b.tokens \in 0..Full
    BY DEF Bucket
<1>2. Gain(now - b.last) \in Nat
    BY <1>1, GainStep
<1> QED BY <1>1, <1>2 DEF Filled, UpTo, Gain

(* Dropping an idle bucket changes no credit.                              *)
LEMMA SweptKeeps ==
    ASSUME LimiterTypeOK
    PROVE  /\ Swept \in [Keys -> Bucket]
           /\ \A k \in Keys : /\ Swept[k].last <= now
                              /\ Filled(Swept[k]) = Filled(bucket[k])
<1>1. NoBucket \in Bucket /\ NoBucket.last <= now
    BY DEF NoBucket, Bucket, LimiterTypeOK
<1>2. ASSUME NEW k \in Keys, SweepDue /\ Dropped(bucket[k])
      PROVE  Filled(bucket[k]) = Filled(NoBucket)
    <2>1. bucket[k] \in Bucket /\ bucket[k].last <= now /\ now \in Nat
        BY DEF LimiterTypeOK
    <2>2. now - bucket[k].last \in Nat /\ now - bucket[k].last > IdleLimit /\ bucket[k].known
        BY <1>2, <2>1, FilledIs DEF Dropped
    <2>3. Gain(now - bucket[k].last) >= Full /\ Gain(now - bucket[k].last) \in Nat
        BY <2>2, GainFills, GainStep
    <2>4. Filled(bucket[k]) = Full
        BY <2>1, <2>2, <2>3, FilledIs DEF UpTo, Bucket
    <2> QED BY <2>4 DEF Filled, NoBucket
<1> QED BY <1>1, <1>2 DEF Swept, LimiterTypeOK

LEMMA TypeInit == LimiterInit => LimiterTypeOK
BY DEF LimiterInit, LimiterTypeOK, NoBucket, Bucket, Start

(* The bucket a call leaves behind.                                        *)
Left(k) ==
    IF Filled(Swept[k]) < Cost THEN Filled(Swept[k]) ELSE Filled(Swept[k]) - Cost

LEMMA AllowIs ==
    ASSUME LimiterTypeOK, NEW k \in Keys, Allow(k)
    PROVE  /\ Filled(bucket[k]) \in 0..Full
           /\ bucket' = [Swept EXCEPT ![k] = [known |-> TRUE, tokens |-> Left(k), last |-> now]]
           /\ Left(k) \in 0..Full
           /\ Left(k) = IF Filled(bucket[k]) < Cost THEN Filled(bucket[k])
                        ELSE Filled(bucket[k]) - Cost
           /\ granted' = IF Filled(bucket[k]) < Cost THEN granted
                         ELSE [granted EXCEPT ![k] = @ + 1]
           /\ now' = now
<1>1. Swept[k] \in Bucket /\ Swept[k].last <= now /\ now \in Nat
    BY SweptKeeps DEF LimiterTypeOK
<1>2. Filled(Swept[k]) \in 0..Full /\ Filled(Swept[k]) = Filled(bucket[k])
    BY <1>1, SweptKeeps, FilledIs
<1> QED BY <1>2 DEF Allow, Left

LEMMA TypeStep == LimiterTypeOK /\ [LimiterNext]_limiterVars => LimiterTypeOK'
<1> SUFFICES ASSUME LimiterTypeOK, [LimiterNext]_limiterVars
             PROVE  LimiterTypeOK'
    OBVIOUS
<1>1. CASE LimiterTick
    BY <1>1 DEF LimiterTick, LimiterTypeOK, Bucket
<1>2. ASSUME NEW k \in Keys, Allow(k)
      PROVE  LimiterTypeOK'
    <2>1. now' = now /\ now \in Nat
        BY <1>2 DEF Allow, LimiterTypeOK
    <2>2. bucket' \in [Keys -> Bucket]
        <3>1. [known |-> TRUE, tokens |-> Left(k), last |-> now] \in Bucket
            BY <1>2, <2>1, AllowIs DEF Bucket
        <3> QED BY <1>2, <3>1, AllowIs, SweptKeeps
    <2>3. \A j \in Keys : bucket'[j].last <= now'
        BY <1>2, <2>1, AllowIs, SweptKeeps
    <2>4. lastSweep' \in Nat /\ lastSweep' <= now'
        BY <1>2, <2>1 DEF Allow, LimiterTypeOK
    <2>5. granted' \in [Keys -> Nat]
        BY <1>2, AllowIs DEF LimiterTypeOK
    <2> QED BY <2>1, <2>2, <2>3, <2>4, <2>5 DEF LimiterTypeOK
<1>3. CASE UNCHANGED limiterVars
    BY <1>3 DEF limiterVars, LimiterTypeOK
<1> QED BY <1>1, <1>2, <1>3 DEF LimiterNext

(* The types of clock, buckets and counters hold in every behaviour.       *)
THEOREM TypeCorrect == LimiterSpec => []LimiterTypeOK
BY TypeInit, TypeStep, PTL DEF LimiterSpec

-----------------------------------------------------------------------------
(* The refinement.                                                         *)

LEMMA TickWaits ==
    ASSUME LimiterTypeOK, LimiterTick
    PROVE  Abstract!Wait
<1>1. ASSUME NEW k \in Keys
      PROVE  Filled(bucket[k])' = UpTo(Filled(bucket[k]) + Rate, Full)
    <2> DEFINE b == bucket[k]
               d == now - b.last
    <2>1. /\ b \in Bucket /\ b.last <= now /\ now \in Nat /\ b.last \in Nat
          /\ d \in Nat /\ b.tokens \in 0..Full
        BY FilledIs DEF LimiterTypeOK, Bucket
    <2>2. now' = now + 1 /\ bucket' = bucket
        BY DEF LimiterTick
    <2>3. now' - b.last = d + 1
        BY <2>1, <2>2
    <2>4. Filled(b) = IF b.known THEN UpTo(b.tokens + Gain(d), Full) ELSE Full
        BY <2>1, FilledIs
    <2>5. Filled(bucket[k])' = IF b.known THEN UpTo(b.tokens + Gain(d + 1), Full) ELSE Full
        BY <2>2, <2>3 DEF Filled, Gain
    <2>6. Gain(d) \in Nat /\ Gain(d + 1) = Gain(d) + Rate
        BY <2>1, GainStep
    <2> HIDE DEF d
    <2> QED BY <2>1, <2>4, <2>5, <2>6 DEF UpTo
<1>2. Credit' = [k \in Keys |-> UpTo(Credit[k] + Rate, Full)]
    BY <1>1 DEF Credit
<1>3. granted' = granted
    BY DEF LimiterTick
<1> QED BY <1>2, <1>3 DEF Abstract!Wait, Abstract!AtMost, UpTo

LEMMA AllowGrants ==
    ASSUME LimiterTypeOK, NEW k \in Keys, Allow(k)
    PROVE  Abstract!Grant(k) \/ UNCHANGED <<Credit, granted>>
<1>1. now' = now /\ now \in Nat /\ bucket \in [Keys -> Bucket]
    BY AllowIs DEF LimiterTypeOK
<1>2. ASSUME NEW j \in Keys, j # k
      PROVE  Filled(bucket[j])' = Filled(bucket[j])
    <2>1. bucket'[j] = Swept[j]
        BY <1>2, AllowIs, SweptKeeps
    <2>2. Filled(bucket[j])' = Filled(Swept[j])
        BY <1>1, <2>1 DEF Filled
    <2> QED BY <2>2, SweptKeeps
<1>3. Filled(bucket[k])' = Left(k)
    <2>1. bucket'[k] = [known |-> TRUE, tokens |-> Left(k), last |-> now]
        BY AllowIs, SweptKeeps
    <2>2. Filled(bucket[k])' = UpTo(Left(k) + Gain(now - now), Full)
        BY <1>1, <2>1 DEF Filled, Gain
    <2>3. now - now = 0
        BY <1>1
    <2> QED BY <2>2, <2>3, GainStep, AllowIs DEF UpTo
<1>4. Credit' = [Credit EXCEPT ![k] = Left(k)]
    BY <1>2, <1>3 DEF Credit
<1>5. Filled(bucket[k]) \in 0..Full /\ Credit[k] = Filled(bucket[k])
    BY AllowIs DEF Credit
<1>6. CASE Filled(bucket[k]) < Cost
    <2>1. Left(k) = Credit[k]
        BY <1>5, <1>6, AllowIs
    <2>2. Credit' = Credit
        BY <1>4, <2>1 DEF Credit
    <2> QED BY <1>6, <2>2, AllowIs
<1>7. CASE ~(Filled(bucket[k]) < Cost)
    <2>1. Left(k) = Credit[k] - Cost /\ Credit[k] >= Cost
        BY <1>5, <1>7, AllowIs
    <2>2. Credit' = [Credit EXCEPT ![k] = @ - Cost]
        BY <1>4, <2>1
    <2>3. granted' = [granted EXCEPT ![k] = @ + 1]
        BY <1>7, AllowIs
    <2> QED BY <2>1, <2>2, <2>3 DEF Abstract!Grant
<1> QED BY <1>6, <1>7

(* The limiter of the code, which refills a bucket only when it is used    *)
(* and forgets it when idle, implements the limiter that does neither.     *)
THEOREM Refinement == LimiterSpec => GrantsAsPromised
<1>1. LimiterInit => Abstract!Init
    BY DEF LimiterInit, Abstract!Init, Credit, Filled, NoBucket
<1>2. LimiterTypeOK /\ [LimiterNext]_limiterVars => [Abstract!Next]_(Abstract!vars)
    <2> SUFFICES ASSUME LimiterTypeOK, [LimiterNext]_limiterVars
                 PROVE  [Abstract!Next]_(Abstract!vars)
        OBVIOUS
    <2>1. CASE LimiterTick
        BY <2>1, TickWaits DEF Abstract!Next
    <2>2. ASSUME NEW k \in Keys, Allow(k)
          PROVE  [Abstract!Next]_(Abstract!vars)
        BY <2>2, AllowGrants DEF Abstract!Next, Abstract!vars
    <2>3. CASE UNCHANGED limiterVars
        BY <2>3 DEF limiterVars, Abstract!vars, Credit, Filled
    <2> QED BY <2>1, <2>2, <2>3 DEF LimiterNext
<1> QED BY <1>1, <1>2, TypeCorrect, PTL DEF LimiterSpec, GrantsAsPromised, Abstract!Spec

-----------------------------------------------------------------------------
(* The budget.                                                             *)

(* What n granted calls have cost.                                         *)
Spent(n) == n * Cost

LEMMA SpentStep ==
    ASSUME NEW n \in Nat
    PROVE  Spent(n) \in Nat /\ Spent(n + 1) = Spent(n) + Cost /\ Spent(0) = 0
BY SMT DEF Spent

(* The inductive form: what is spent and what is left stay in the budget.  *)
Budget ==
    /\ LimiterTypeOK
    /\ now >= Start
    /\ \A k \in Keys : Spent(granted[k]) + Filled(bucket[k]) <= Full + Gain(now - Start)

LEMMA BudgetInit == LimiterInit => Budget
<1> SUFFICES ASSUME LimiterInit
             PROVE  Budget
    OBVIOUS
<1>1. LimiterTypeOK /\ now = Start /\ now - Start = 0 /\ now >= Start
    BY TypeInit DEF LimiterInit, Start, LimiterTypeOK
<1>2. \A k \in Keys : Filled(bucket[k]) = Full /\ granted[k] = 0
    BY DEF LimiterInit, Filled, NoBucket
<1>3. Gain(now - Start) = 0 /\ Spent(0) = 0
    BY <1>1, GainStep, SpentStep
<1>4. \A k \in Keys : Spent(granted[k]) + Filled(bucket[k]) <= Full + Gain(now - Start)
    <2> SUFFICES ASSUME NEW k \in Keys
                 PROVE  Spent(granted[k]) + Filled(bucket[k]) <= Full + Gain(now - Start)
        OBVIOUS
    <2>1. Spent(granted[k]) = 0
        BY <1>2, <1>3
    <2>2. Spent(granted[k]) + Filled(bucket[k]) = Full
        BY <1>2, <2>1
    <2>3. Full + Gain(now - Start) = Full
        BY <1>3
    <2> QED BY <2>2, <2>3
<1> QED BY <1>1, <1>4 DEF Budget

LEMMA BudgetTick ==
    ASSUME Budget, LimiterTick
    PROVE  \A k \in Keys : (Spent(granted[k]) + Filled(bucket[k]) <= Full + Gain(now - Start))'
<1> SUFFICES ASSUME NEW k \in Keys
             PROVE  (Spent(granted[k]) + Filled(bucket[k]) <= Full + Gain(now - Start))'
    OBVIOUS
<1>1. now \in Nat /\ Start \in Nat /\ now - Start \in Nat /\ now' = now + 1
    BY DEF Budget, LimiterTypeOK, Start, LimiterTick
<1>2. Gain(now' - Start) = Gain(now - Start) + Rate /\ Gain(now - Start) \in Nat
    <2>1. now' - Start = (now - Start) + 1
        BY <1>1
    <2> QED BY <1>1, <2>1, GainStep
<1>3. Credit' = [j \in Keys |-> UpTo(Credit[j] + Rate, Full)]
    BY TickWaits DEF Budget, Abstract!Wait, Abstract!AtMost, UpTo
<1>4. Filled(bucket[k])' = UpTo(Filled(bucket[k]) + Rate, Full)
    BY <1>3 DEF Credit
<1>5. Filled(bucket[k]) \in 0..Full /\ Spent(granted[k]) \in Nat
    BY FilledIs, SpentStep DEF Budget, LimiterTypeOK
<1>6. Spent(granted[k])' = Spent(granted[k])
    BY DEF LimiterTick, Spent
<1>7. Spent(granted[k]) + Filled(bucket[k]) <= Full + Gain(now - Start)
    BY DEF Budget
<1>8. Start' = Start
    BY DEF Start
<1>9. Gain(now - Start)' = Gain(now - Start) + Rate
    BY <1>2, <1>8 DEF Gain
<1> QED BY <1>2, <1>4, <1>5, <1>6, <1>7, <1>9 DEF UpTo

LEMMA BudgetAllow ==
    ASSUME Budget, NEW k \in Keys, Allow(k), NEW j \in Keys
    PROVE  (Spent(granted[j]) + Filled(bucket[j]) <= Full + Gain(now - Start))'
<1>1. LimiterTypeOK /\ now' = now /\ now \in Nat /\ Start \in Nat /\ now - Start \in Nat
    BY AllowIs DEF Budget, LimiterTypeOK, Start
<1>2. Gain(now - Start)' = Gain(now - Start) /\ Gain(now - Start) \in Nat
    BY <1>1, GainStep DEF Gain, Start
<1>3. /\ Spent(granted[j]) + Filled(bucket[j]) <= Full + Gain(now - Start)
      /\ Spent(granted[j]) \in Nat /\ Filled(bucket[j]) \in 0..Full
      /\ granted[j] \in Nat
    BY FilledIs, SpentStep DEF Budget, LimiterTypeOK
<1>4. CASE UNCHANGED <<Credit, granted>>
    <2>1. Filled(bucket[j])' = Filled(bucket[j])
        BY <1>4 DEF Credit
    <2> QED BY <1>2, <1>3, <1>4, <2>1 DEF Spent
<1>5. CASE Abstract!Grant(k)
    <2>1. Credit' = [Credit EXCEPT ![k] = @ - Cost] /\ granted' = [granted EXCEPT ![k] = @ + 1]
        BY <1>5 DEF Abstract!Grant
    <2>2. Filled(bucket[j])' = IF j = k THEN Filled(bucket[j]) - Cost ELSE Filled(bucket[j])
        BY <2>1 DEF Credit
    <2>3. granted[j]' = IF j = k THEN granted[j] + 1 ELSE granted[j]
        BY <1>1, <2>1 DEF LimiterTypeOK
    <2>4. Spent(granted[j])' = IF j = k THEN Spent(granted[j]) + Cost ELSE Spent(granted[j])
        BY <1>3, <2>3, SpentStep DEF Spent
    <2> QED BY <1>2, <1>3, <2>2, <2>4
<1> QED BY <1>1, <1>4, <1>5, AllowGrants

LEMMA BudgetStep == Budget /\ [LimiterNext]_limiterVars => Budget'
<1> SUFFICES ASSUME Budget, [LimiterNext]_limiterVars
             PROVE  Budget'
    OBVIOUS
<1>1. LimiterTypeOK'
    BY TypeStep DEF Budget
<1>2. (now >= Start)'
    BY DEF Budget, LimiterTypeOK, Start, LimiterNext, LimiterTick, Allow, limiterVars
<1>3. CASE LimiterTick
    BY <1>1, <1>2, <1>3, BudgetTick DEF Budget
<1>4. ASSUME NEW k \in Keys, Allow(k)
      PROVE  Budget'
    BY <1>1, <1>2, <1>4, BudgetAllow DEF Budget
<1>5. CASE UNCHANGED limiterVars
    BY <1>1, <1>2, <1>5 DEF Budget, limiterVars, Filled, Spent, Gain, Start
<1> QED BY <1>3, <1>4, <1>5 DEF LimiterNext

(* No key is ever granted more than one burst and the refill since.        *)
THEOREM WithinBudget == LimiterSpec => []NeverOverBudget
<1>1. Budget => NeverOverBudget
    <2> SUFFICES ASSUME Budget, NEW k \in Keys
                 PROVE  granted[k] * Cost <= Full + (now - Start) * Rate
        BY DEF NeverOverBudget
    <2>1. now - Start \in Nat
        BY DEF Budget, LimiterTypeOK, Start
    <2>2. /\ Spent(granted[k]) \in Nat /\ Filled(bucket[k]) \in 0..Full
          /\ Gain(now - Start) \in Nat
        BY <2>1, FilledIs, SpentStep, GainStep DEF Budget, LimiterTypeOK
    <2>3. Spent(granted[k]) <= Full + Gain(now - Start)
        BY <2>2 DEF Budget
    <2> QED BY <2>3 DEF Spent, Gain
<1> QED BY <1>1, BudgetInit, BudgetStep, PTL DEF LimiterSpec
=============================================================================
