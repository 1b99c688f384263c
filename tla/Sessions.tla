------------------------------ MODULE Sessions ------------------------------
(***************************************************************************)
(* Server-side sessions: login, the sliding refresh on every request,      *)
(* logout, the local administrator's password change, and the hourly       *)
(* purge.  Requests run concurrently; between two store calls of one,      *)
(* others run, time passes, and it may fail or die with the process.       *)
(*                                                                         *)
(* A row's issued_at and expiry are kept relative to the clock, as its age *)
(* and the time it has left, cut off one period past the point where the   *)
(* code stops telling values apart.                                        *)
(***************************************************************************)
EXTENDS Integers

CONSTANTS
    Sids,           \* session ids; a random id is never drawn twice
    Users,          \* accounts
    LocalAdmin,     \* the account whose password the portal keeps
    Workers,        \* requests in progress at a time
    TTL,            \* sliding lifetime
    MaxLife,        \* absolute lifetime
    MaxChanges,     \* bound: password changes in a behaviour
    MayFail,        \* whether store calls may fail and requests die
    None            \* no session, no user

ASSUME SessionsAssumption ==
    /\ LocalAdmin \in Users
    /\ TTL \in Nat \ {0} /\ MaxLife \in Nat /\ MaxLife >= TTL
    /\ MaxChanges \in Nat
    /\ MayFail \in BOOLEAN
    /\ None \notin Sids \cup Users

VARIABLES
    session,        \* table session
    password,       \* how often the local password has been changed
    req,            \* the requests in progress
    revoked,        \* history: sessions ended by logout or revocation
    lapsed          \* history: sessions that have ever been past their expiry

vars == <<session, password, req, revoked, lapsed>>

Row == [state : {"none", "live", "gone"}, uid : Users \cup {None},
        verified : 0..MaxChanges, age : 0..MaxLife + 1, left : -1..TTL]

Request == [pc : {"idle", "verified", "expire", "read", "serve", "revoke", "reissue"},
            sid : Sids \cup {None}, uid : Users \cup {None}, verified : 0..MaxChanges]

NoRow == [state |-> "none", uid |-> None, verified |-> 0, age |-> 0, left |-> 0]
Idle == [pc |-> "idle", sid |-> None, uid |-> None, verified |-> 0]

Live == {s \in Sids : session[s].state = "live"}

(* Type invariant.                                                         *)
TypeOK ==
    /\ session \in [Sids -> Row]
    /\ password \in 0..MaxChanges
    /\ req \in [Workers -> Request]
    /\ revoked \subseteq Sids
    /\ lapsed \subseteq Sids

Init ==
    /\ session = [s \in Sids |-> NoRow]
    /\ password = 0
    /\ req = [w \in Workers |-> Idle]
    /\ revoked = {}
    /\ lapsed = {}

-----------------------------------------------------------------------------
(* Manager and store operations.                                           *)

AtMost(n, bound) == IF n < bound THEN n ELSE bound

(* Read rejects a row past its expiry or its absolute lifetime.            *)
Rejected(row) == row.left < 0 \/ row.age > MaxLife

(* Issue and CreateSession.                                                *)
CreateSession(s, u, v) ==
    /\ session[s].state = "none"
    /\ session' = [session EXCEPT ![s] =
          [state |-> "live", uid |-> u, verified |-> v, age |-> 0, left |-> TTL]]

(* Mutant of Refreshed: the absolute deadline is forgotten.                *)
RefreshedUncapped(row) == [row EXCEPT !.left = TTL]

(* Refresh: the new expiry, capped at the absolute deadline.               *)
Refreshed(row) == [row EXCEPT !.left = AtMost(TTL, MaxLife - row.age)]

(* Mutant of Touched: the row is written back whether it exists or not.    *)
TouchedUpsert(row) == [Refreshed(row) EXCEPT !.state = "live"]

(* TouchSession updates the row if it is still there.                      *)
Touched(row) == IF row.state = "live" THEN Refreshed(row) ELSE row

Deleted(row) == [row EXCEPT !.state = "gone"]

Delete(S) ==
    session' = [s \in Sids |-> IF s \in S THEN Deleted(session[s]) ELSE session[s]]

(* Mutant of Expired: a session is purged in its last period.              *)
ExpiredEarly(row) == row.left <= 0

(* Mutant of Expired: the comparison is the wrong way round.               *)
ExpiredSwapped(row) == row.left > 0

(* DeleteExpiredSessions looks at the expiry only.                         *)
Expired(row) == row.left < 0

-----------------------------------------------------------------------------
(* Requests.                                                               *)

At(w, pc) == req[w].pc = pc
Done(w) == req' = [req EXCEPT ![w] = Idle]

(* handleLogin: the credentials are right.                                 *)
Login(w, u) ==
    /\ At(w, "idle")
    /\ req' = [req EXCEPT ![w] = [pc |-> "verified", sid |-> None, uid |-> u,
                                  verified |-> IF u = LocalAdmin THEN password ELSE 0]]
    /\ UNCHANGED <<session, password, revoked, lapsed>>

IssueSession(w) ==
    /\ At(w, "verified") \/ At(w, "reissue")
    /\ \E s \in Sids : CreateSession(s, req[w].uid, req[w].verified)
    /\ Done(w)
    /\ UNCHANGED <<password, revoked, lapsed>>

(* Read, for every request with a session: the row is loaded and judged.   *)
ReadSession(w) ==
    /\ At(w, "idle")
    /\ \E s \in Live :
         req' = [req EXCEPT ![w] =
            [pc |-> IF Rejected(session[s]) THEN "expire" ELSE "read", sid |-> s,
             uid |-> session[s].uid, verified |-> session[s].verified]]
    /\ UNCHANGED <<session, password, revoked, lapsed>>

(* Read drops the row it rejected, in a call of its own.                   *)
DropExpired(w) ==
    /\ At(w, "expire")
    /\ Delete({req[w].sid} \cap Live)
    /\ Done(w)
    /\ UNCHANGED <<password, revoked, lapsed>>

Refresh(w) ==
    /\ At(w, "read")
    /\ \/ session' = [session EXCEPT ![req[w].sid] = Touched(@)]
       \/ MayFail /\ UNCHANGED session
    /\ req' = [req EXCEPT ![w].pc = "serve"]
    /\ UNCHANGED <<password, revoked, lapsed>>

Logout(w) ==
    /\ At(w, "serve")
    /\ Delete({req[w].sid} \cap Live)
    /\ revoked' = revoked \cup {req[w].sid}
    /\ Done(w)
    /\ UNCHANGED <<password, lapsed>>

(* handleChangePassword saves the new hash, ...                            *)
SetPassword(w) ==
    /\ At(w, "serve") /\ req[w].uid = LocalAdmin
    /\ password < MaxChanges
    /\ password' = password + 1
    /\ req' = [req EXCEPT ![w].pc = "revoke", ![w].verified = password + 1]
    /\ UNCHANGED <<session, revoked, lapsed>>

(* ... revokes the account's sessions, and issues a fresh one.             *)
RevokeUser(w) ==
    LET S == {s \in Live : session[s].uid = req[w].uid} IN
    /\ At(w, "revoke")
    /\ Delete(S)
    /\ revoked' = revoked \cup S
    /\ req' = [req EXCEPT ![w].pc = "reissue"]
    /\ UNCHANGED <<password, lapsed>>

(* A page is served, the request is refused, fails, or dies.               *)
EndRequest(w) ==
    /\ At(w, "read") \/ At(w, "serve") \/ (MayFail /\ ~At(w, "idle"))
    /\ Done(w)
    /\ UNCHANGED <<session, password, revoked, lapsed>>

(* RunSessionGC.                                                           *)
SweepExpired ==
    /\ Delete({s \in Live : Expired(session[s])})
    /\ UNCHANGED <<password, req, revoked, lapsed>>

Tick ==
    /\ session' = [s \in Sids |->
          IF s \in Live
          THEN [session[s] EXCEPT !.age = AtMost(@ + 1, MaxLife + 1),
                                  !.left = IF @ < 0 THEN @ ELSE @ - 1]
          ELSE session[s]]
    /\ lapsed' = lapsed \cup {s \in Live : session[s].left <= 0}
    /\ UNCHANGED <<password, req, revoked>>

Step(w) ==
    \/ \E u \in Users : Login(w, u)
    \/ IssueSession(w) \/ ReadSession(w) \/ DropExpired(w) \/ Refresh(w)
    \/ Logout(w) \/ SetPassword(w) \/ RevokeUser(w) \/ EndRequest(w)

Next ==
    \/ \E w \in Workers : Step(w)
    \/ SweepExpired
    \/ Tick

Spec == Init /\ [][Next]_vars

(* The purge and the clock go on; nothing is assumed of requests.          *)
FairSpec == Spec /\ WF_vars(SweepExpired) /\ WF_vars(Tick)

-----------------------------------------------------------------------------
(* Properties.                                                             *)

(* Whatever Read rejects, the purge removes: the purge looks only at the   *)
(* expiry column, which suffices because no refresh, however late after    *)
(* its read, puts the expiry past the absolute deadline.                   *)
DeadIsPurged == \A s \in Live : Rejected(session[s]) => Expired(session[s])

(* Logout and revocation are final: a request that read the session before *)
(* and refreshes it afterwards does not bring it back.                     *)
RevokedStaysOut == revoked \cap Live = {}

(* Only logout, revocation or a lapse of the sliding expiry ends a         *)
(* session: no concurrent purge or rejected read takes one still in use    *)
(* that never lapsed.                                                      *)
LostOnlyIfLapsed == \A s \in Sids : session[s].state = "gone" => s \in revoked \cup lapsed

(* However busily a session is refreshed, it ends and leaves the table     *)
(* (RunSessionGC: "so the table does not grow without bound").             *)
SessionsEnd == \A s \in Sids : s \in Live ~> s \notin Live

(* What handleChangePassword's comment says: a change logs out "any other  *)
(* device using the old password", once it is done.                        *)
OldPasswordOut ==
    (\A w \in Workers : ~At(w, "revoke")) =>
        \A s \in Live : session[s].uid = LocalAdmin => session[s].verified = password
=============================================================================
