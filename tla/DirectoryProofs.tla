--------------------------- MODULE DirectoryProofs ---------------------------
(***************************************************************************)
(* Type correctness of Directory, that no identity is looked up twice at a *)
(* time and no mark in profileInflight is left behind (OneLookupEach), and *)
(* that no outage empties a cached profile (OutageKeepsProfile), for any   *)
(* number of people, spellings, pages, refreshes and logins.               *)
(*                                                                         *)
(* The argument: an identity is marked by the very step that gives it to a *)
(* goroutine and unmarked by the one that takes it from it, so marks and   *)
(* jobs correspond one to one; and what is about to be saved as empty was  *)
(* read from a directory that answered, and had no entry.                  *)
(***************************************************************************)
EXTENDS Directory, FiniteSetTheorems, TLAPS

(* Whoever is past the lookup knows whom it was for. *)
BusyInv == \A c \in Jobs \cup Logins : call[c].pc \in {"save", "name", "end"} => call[c].uid \in Uids

(* Marks and work correspond: a job's identities are marked, a mark is of  *)
(* one job's identity, and the identity a job is busy with is one it has.  *)
MarksInv ==
    /\ \A j \in Jobs : call[j].pc = "none" => call[j].todo = {}
    /\ \A j \in Jobs : call[j].pc \in {"save", "name", "end"} => call[j].uid \in call[j].todo
    /\ \A j \in Jobs : call[j].todo \subseteq inflight
    /\ \A u \in inflight : \E j \in Jobs : u \in call[j].todo
    /\ \A i, j \in Jobs : call[i].todo \cap call[j].todo # {} => i = j

(* Nobody is about to save an empty profile of somebody who was never      *)
(* missing.                                                                *)
ReadInv ==
    \A c \in Jobs \cup Logins : call[c].pc = "save" /\ call[c].got = Empty => call[c].uid[1] \in left

(* The initial states have their types. *)
LEMMA InitTypeOK == Init => TypeOK
  BY DirectoryAssumption DEF Init, TypeOK, Profiles, NoRow, NoPage, NoCall, Call

(* A call that goes on, with what it may be given. *)
LEMMA CallType ==
  ASSUME TypeOK, NEW c \in Jobs \cup Logins,
         NEW pc \in {"none", "lookup", "save", "name", "end"}
  PROVE  /\ [call[c] EXCEPT !.pc = pc] \in Call
         /\ \A u \in Uids : [call[c] EXCEPT !.pc = pc, !.uid = u] \in Call
         /\ \A u \in Uids, v \in Profiles :
               [call[c] EXCEPT !.pc = pc, !.uid = u, !.got = v] \in Call
         /\ \A S \in SUBSET Uids : [NoCall EXCEPT !.pc = pc, !.todo = S] \in Call
         /\ NoCall \in Call
  <1>1. call[c] \in Call
    BY DEF TypeOK
  <1>2. Empty \in Profiles
    BY DEF Profiles
  <1>3. NoCall \in Call
    BY <1>2 DEF NoCall, Call
  <1>4. QED
    BY <1>1, <1>3 DEF Call

(* The identities pages list. *)
LEMMA OwnersType == TypeOK => Owners \subseteq Uids
  BY DirectoryAssumption DEF TypeOK, Owners, Uids

(* Types are kept by every step, as long as who saves knows for whom. *)
LEMMA NextTypeOK == TypeOK /\ BusyInv /\ [Next]_vars => TypeOK'
  <1> SUFFICES ASSUME TypeOK, BusyInv, [Next]_vars PROVE TypeOK'
    OBVIOUS
  <1> USE DEF directory, rows, memory
  <1>1. CASE UNCHANGED vars
    BY <1>1 DEF vars, TypeOK
  <1>2. /\ call \in [Jobs \cup Logins -> Call] /\ Empty \in Profiles /\ Values \subseteq Profiles
        /\ 0 \in 0..TTL /\ TTL \in 0..TTL /\ \A a \in 0..TTL : Older(a) \in 0..TTL
        /\ \A o \in People, s \in Spellings : <<o, s>> \in Uids
        /\ \A u \in Uids : u[1] \in People
    BY DirectoryAssumption DEF TypeOK, Profiles, Older, Uids
  <1>3. NoPage \in [loaded : BOOLEAN, age : [Uids -> 0..TTL]] /\ NoCall \in Call
    <2>1. [u \in Uids |-> TTL] \in [Uids -> 0..TTL]
      BY <1>2
    <2>2. NoCall \in Call
      BY <1>2 DEF NoCall, Call
    <2>3. QED
      BY <2>1, <2>2 DEF NoPage
  <1>4. CASE Outage \/ Recover
    <2>1. changes' \in 0..MaxChanges
      BY <1>4, DirectoryAssumption DEF Outage, Recover, Count, TypeOK
    <2>2. QED
      BY <1>4, <2>1 DEF Outage, Recover, TypeOK
  <1>5. CASE Crash
    <2>1. changes' \in 0..MaxChanges
      BY <1>5, DirectoryAssumption DEF Crash, Count, TypeOK
    <2> HIDE DEF NoPage, NoCall
    <2>2. /\ page' \in [Pages -> [loaded : BOOLEAN, age : [Uids -> 0..TTL]]]
          /\ call' \in [Jobs \cup Logins -> Call]
      BY <1>3, <1>5 DEF Crash
    <2>3. QED
      BY <1>5, <2>1, <2>2 DEF Crash, TypeOK
  <1>6. ASSUME NEW o \in People, Leave(o) PROVE TypeOK'
    BY <1>6, DirectoryAssumption DEF Leave, Count, TypeOK
  <1>7. ASSUME NEW o \in People, NEW v \in Values, Edit(o, v) PROVE TypeOK'
    BY <1>2, <1>7, DirectoryAssumption DEF Edit, Count, TypeOK
  <1>8. CASE Tick
    <2>1. profile' \in [Uids -> [value : Profiles, age : 0..TTL]]
      BY <1>2, <1>8 DEF Tick, TypeOK
    <2>2. ASSUME NEW p \in Pages
          PROVE  [page[p] EXCEPT !.age = [u \in Uids |-> Older(page[p].age[u])]]
                    \in [loaded : BOOLEAN, age : [Uids -> 0..TTL]]
      <3>1. page[p] \in [loaded : BOOLEAN, age : [Uids -> 0..TTL]]
        BY DEF TypeOK
      <3>2. [u \in Uids |-> Older(page[p].age[u])] \in [Uids -> 0..TTL]
        BY <1>2, <3>1
      <3>3. QED
        BY <3>1, <3>2
    <2>3. page' \in [Pages -> [loaded : BOOLEAN, age : [Uids -> 0..TTL]]]
      BY <1>8, <2>2 DEF Tick
    <2>4. QED
      BY <1>8, <2>1, <2>3 DEF Tick, TypeOK
  <1>9. ASSUME NEW p \in Pages, LoadProfiles(p) PROVE TypeOK'
    <2>1. [u \in Uids |-> profile[u].age] \in [Uids -> 0..TTL]
      BY DEF TypeOK
    <2>2. page' \in [Pages -> [loaded : BOOLEAN, age : [Uids -> 0..TTL]]]
      BY <1>9, <2>1 DEF LoadProfiles, TypeOK
    <2>3. QED
      BY <1>9, <2>2 DEF LoadProfiles, TypeOK
  <1>10. ASSUME NEW p \in Pages, Refresh(p) PROVE TypeOK'
    <2> DEFINE todo == Stale(p) \ inflight
    <2>1. todo \in SUBSET Uids
      BY OwnersType DEF Stale
    <2>2. page' \in [Pages -> [loaded : BOOLEAN, age : [Uids -> 0..TTL]]]
      BY <1>3, <1>10 DEF Refresh, TypeOK
    <2>3. inflight' \subseteq Uids
      BY <1>10, <2>1 DEF Refresh, TypeOK
    <2> HIDE DEF todo
    <2>4. ASSUME NEW j \in Jobs PROVE [NoCall EXCEPT !.pc = "lookup", !.todo = todo] \in Call
      BY <2>1, CallType
    <2>5. \/ UNCHANGED call
          \/ \E j \in Jobs : call' = [call EXCEPT ![j] = [NoCall EXCEPT !.pc = "lookup", !.todo = todo]]
      BY <1>10 DEF Refresh, todo
    <2>6. call' \in [Jobs \cup Logins -> Call]
      BY <1>2, <2>4, <2>5
    <2>7. QED
      BY <1>10, <2>2, <2>3, <2>6 DEF Refresh, TypeOK
  <1>11. ASSUME NEW c \in Jobs \cup Logins, CacheStep(c) PROVE TypeOK'
    <2>1. AfterSave(c) \in {"name", "end"}
      BY DEF AfterSave
    <2>2. \E pc \in {"name", "end"} : call' = [call EXCEPT ![c] = [call[c] EXCEPT !.pc = pc]]
      BY <1>2, <1>11, <2>1
      DEF CacheStep, SaveProfile, SaveProfileFails, SyncName, SyncNameFails, Go
    <2>3. call' \in [Jobs \cup Logins -> Call]
      <3>1. PICK pc \in {"name", "end"} : call' = [call EXCEPT ![c] = [call[c] EXCEPT !.pc = pc]]
        BY <2>2
      <3>2. [call[c] EXCEPT !.pc = pc] \in Call
        BY CallType
      <3>3. QED
        BY <1>2, <3>1, <3>2
    <2>4. call[c].got \in Profiles
      BY <1>2 DEF Call
    <2>5. [value |-> call[c].got, age |-> 0] \in [value : Profiles, age : 0..TTL]
      BY <1>2, <2>4
    <2>6. CASE SaveProfile(c)
      <3>1. profile' \in [Uids -> [value : Profiles, age : 0..TTL]]
        BY <2>5, <2>6 DEF SaveProfile, TypeOK
      <3>2. QED
        BY <2>3, <2>6, <3>1 DEF SaveProfile, TypeOK
    <2>7. CASE SyncName(c)
      <3>1. ownerName' \in [Uids -> Profiles]
        BY <2>4, <2>7 DEF SyncName, TypeOK
      <3>2. QED
        BY <2>3, <2>7, <3>1 DEF SyncName, TypeOK
    <2>8. CASE SaveProfileFails(c) \/ SyncNameFails(c)
      BY <2>3, <2>8 DEF SaveProfileFails, SyncNameFails, TypeOK
    <2>9. QED
      BY <1>11, <2>6, <2>7, <2>8 DEF CacheStep
  <1>12. ASSUME NEW j \in Jobs, NEW u \in Uids, Lookup(j, u) \/ LookupFails(j, u) PROVE TypeOK'
    <2>1. \/ call' = [call EXCEPT ![j] = [call[j] EXCEPT !.pc = "end", !.uid = u]]
          \/ \E v \in Profiles :
                call' = [call EXCEPT ![j] = [call[j] EXCEPT !.pc = "save", !.uid = u, !.got = v]]
      <3>1. entry[u[1]] # Gone => entry[u[1]] \in Profiles
        BY <1>2 DEF TypeOK
      <3>2. CASE Lookup(j, u)
        BY <1>2, <3>1, <3>2 DEF Lookup, Took
      <3>3. CASE LookupFails(j, u)
        BY <3>3 DEF LookupFails
      <3>4. QED
        BY <1>12, <3>2, <3>3
    <2>2. /\ [call[j] EXCEPT !.pc = "end", !.uid = u] \in Call
          /\ \A v \in Profiles : [call[j] EXCEPT !.pc = "save", !.uid = u, !.got = v] \in Call
      BY CallType
    <2>3. call' \in [Jobs \cup Logins -> Call]
      BY <1>2, <2>1, <2>2
    <2>4. QED
      BY <1>12, <2>3 DEF Lookup, LookupFails, TypeOK
  <1>13. ASSUME NEW j \in Jobs, Release(j) PROVE TypeOK'
    <2>1. call[j].todo \ {call[j].uid} \in SUBSET Uids
      BY <1>2 DEF Call
    <2>2. \/ call' = [call EXCEPT ![j] = NoCall]
          \/ call' = [call EXCEPT ![j] = [NoCall EXCEPT !.pc = "lookup",
                                                        !.todo = call[j].todo \ {call[j].uid}]]
      BY <1>2, <1>13 DEF Release
    <2>3. call' \in [Jobs \cup Logins -> Call]
      BY <1>2, <1>3, <2>1, <2>2, CallType
    <2>4. QED
      BY <1>13, <2>3 DEF Release, TypeOK
  <1>14. ASSUME NEW l \in Logins, IssueSession(l) PROVE TypeOK'
    <2>1. call' \in [Jobs \cup Logins -> Call]
      BY <1>2, <1>3, <1>14 DEF IssueSession
    <2>2. call[l].uid \in Uids
      BY <1>14 DEF IssueSession, BusyInv
    <2>3. issued' \subseteq Uids
      BY <1>14, <2>2 DEF IssueSession, TypeOK
    <2>4. QED
      BY <1>14, <2>1, <2>3 DEF IssueSession, TypeOK
  <1>15. ASSUME NEW l \in Logins, NEW o \in People, NEW s \in Spellings, NEW read \in BOOLEAN,
                Authenticate(l, o, s, read)
         PROVE  TypeOK'
    <2>1. CanonicalLogin(o, s, read) \in Uids
      BY <1>2, DirectoryAssumption DEF CanonicalLogin
    <2>2. (IF read THEN entry[o] ELSE Empty) \in Profiles
      BY <1>2, <1>15 DEF Authenticate, TypeOK
    <2>3. QED
      BY <1>15, <2>1, <2>2, CallType DEF Authenticate, Took, TypeOK
  <1>16. QED
    BY <1>1, <1>4, <1>5, <1>6, <1>7, <1>8, <1>9, <1>10, <1>11, <1>12, <1>13, <1>14, <1>15
    DEF Next, JobStep, LoginStep

-----------------------------------------------------------------------------
(* How the calls and the marks move. *)

(* A step leaves calls and marks alone, is a crash, gives a free goroutine *)
(* stale identities, or is of one goroutine or login.                      *)
LEMMA CallCases ==
  ASSUME [Next]_vars
  PROVE  \/ UNCHANGED <<call, inflight>>
         \/ Crash
         \/ \E p \in Pages : Refresh(p)
         \/ \E c \in Jobs \cup Logins : CacheStep(c)
         \/ \E j \in Jobs : Release(j)
         \/ \E j \in Jobs, u \in Uids : Lookup(j, u) \/ LookupFails(j, u)
         \/ \E l \in Logins : IssueSession(l)
         \/ \E l \in Logins, o \in People, s \in Spellings, read \in BOOLEAN :
               Authenticate(l, o, s, read)
  <1>1. CASE UNCHANGED vars
    BY <1>1 DEF vars
  <1>2. CASE Outage \/ Recover \/ Crash \/ Tick
    BY <1>2 DEF Outage, Recover, Tick, memory
  <1>3. CASE \E o \in People : Leave(o) \/ \E v \in Values : Edit(o, v)
    BY <1>3 DEF Leave, Edit, memory
  <1>4. CASE \E p \in Pages : LoadProfiles(p) \/ Refresh(p)
    BY <1>4 DEF LoadProfiles
  <1>5. CASE \E j \in Jobs : JobStep(j)
    BY <1>5 DEF JobStep
  <1>6. CASE \E l \in Logins : LoginStep(l)
    BY <1>6 DEF LoginStep
  <1>7. CASE \E l \in Logins : \E o \in People, s \in Spellings, read \in BOOLEAN :
                Authenticate(l, o, s, read)
    BY <1>7
  <1>8. QED
    BY <1>1, <1>2, <1>3, <1>4, <1>5, <1>6, <1>7 DEF Next

(* What cacheProfile does moves one call on and nothing else of it. *)
LEMMA CacheStepCall ==
  ASSUME TypeOK, NEW c \in Jobs \cup Logins, CacheStep(c)
  PROVE  /\ call[c].pc \in {"save", "name"}
         /\ inflight' = inflight
         /\ \E pc \in {"name", "end"} : call' = [call EXCEPT ![c] = [call[c] EXCEPT !.pc = pc]]
  BY DEF CacheStep, SaveProfile, SaveProfileFails, SyncName, SyncNameFails, Go, AfterSave, rows

(* After a lookup the call is for the identity looked up. *)
LEMMA LookupCall ==
  ASSUME TypeOK, NEW j \in Jobs, NEW u \in Uids, Lookup(j, u) \/ LookupFails(j, u)
  PROVE  /\ call[j].pc = "lookup" /\ u \in call[j].todo
         /\ inflight' = inflight
         /\ call'[j].pc \in {"save", "end"} /\ call'[j].uid = u /\ call'[j].todo = call[j].todo
         /\ \A c \in (Jobs \cup Logins) \ {j} : call'[c] = call[c]
  <1>1. call \in [Jobs \cup Logins -> Call]
    BY DEF TypeOK
  <1>2. CASE Lookup(j, u)
    <2>1. /\ call[j].pc = "lookup" /\ u \in call[j].todo
          /\ inflight' = inflight
          /\ Took(j, u, entry[u[1]]) \/ Took(j, u, Empty)
      BY <1>2 DEF Lookup
    <2>2. ASSUME NEW v, Took(j, u, v)
          PROVE  /\ call'[j].pc = "save" /\ call'[j].uid = u /\ call'[j].todo = call[j].todo
                 /\ \A c \in (Jobs \cup Logins) \ {j} : call'[c] = call[c]
      BY <1>1, <2>2 DEF Took, Call
    <2>3. QED
      BY <2>1, <2>2
  <1>3. CASE LookupFails(j, u)
    BY <1>1, <1>3 DEF LookupFails, Call
  <1>4. QED
    BY <1>2, <1>3

(* A goroutine that is done with an identity no longer has it. *)
LEMMA ReleaseCall ==
  ASSUME TypeOK, NEW j \in Jobs, Release(j)
  PROVE  /\ call[j].pc = "end"
         /\ inflight' = inflight \ {call[j].uid}
         /\ call'[j].pc \in {"none", "lookup"}
         /\ call'[j].pc = "none" => call'[j].todo = {}
         /\ call[j].uid \in call[j].todo => call'[j].todo = call[j].todo \ {call[j].uid}
         /\ \A c \in (Jobs \cup Logins) \ {j} : call'[c] = call[c]
  <1>1. call \in [Jobs \cup Logins -> Call]
    BY DEF TypeOK
  <1>2. CASE call[j].todo = {call[j].uid}
    BY <1>1, <1>2 DEF Release, NoCall
  <1>3. CASE call[j].todo # {call[j].uid}
    BY <1>1, <1>3 DEF Release, NoCall
  <1>4. QED
    BY <1>2, <1>3 DEF Release

(* Logins do not touch what goroutines have to do. *)
LEMMA LoginCall ==
  ASSUME TypeOK, NEW l \in Logins,
         IssueSession(l) \/ \E o \in People, s \in Spellings, read \in BOOLEAN : Authenticate(l, o, s, read)
  PROVE  inflight' = inflight /\ \A j \in Jobs : call'[j] = call[j]
  <1>1. call \in [Jobs \cup Logins -> Call]
    BY DEF TypeOK
  <1>2. \A j \in Jobs : j # l
    BY DirectoryAssumption
  <1>3. CASE IssueSession(l)
    BY <1>1, <1>2, <1>3 DEF IssueSession
  <1>4. CASE \E o \in People, s \in Spellings, read \in BOOLEAN : Authenticate(l, o, s, read)
    BY <1>1, <1>2, <1>4 DEF Authenticate, Took
  <1>5. QED
    BY <1>3, <1>4

(* Steps that leave the marks and every goroutine's identities alone. *)
LEMMA MarksStable ==
  ASSUME MarksInv, inflight' = inflight,
         \A j \in Jobs : /\ call'[j].todo = call[j].todo
                         /\ call'[j].pc = "none" => call[j].pc = "none"
                         /\ call'[j].pc \in {"save", "name", "end"} => call'[j].uid \in call[j].todo
  PROVE  MarksInv'
  BY DEF MarksInv

(* A refresh that starts a goroutine marks what it is given, all of it     *)
(* unmarked so far.                                                        *)
LEMMA RefreshCall ==
  ASSUME TypeOK, NEW p \in Pages, Refresh(p)
  PROVE  \/ UNCHANGED <<call, inflight>>
         \/ \E j \in Jobs, todo \in SUBSET Uids :
               /\ call[j].pc = "none" /\ todo \cap inflight = {}
               /\ inflight' = inflight \cup todo
               /\ call'[j].pc = "lookup" /\ call'[j].todo = todo
               /\ \A c \in (Jobs \cup Logins) \ {j} : call'[c] = call[c]
  <1> DEFINE todo == Stale(p) \ inflight
  <1>1. call \in [Jobs \cup Logins -> Call]
    BY DEF TypeOK
  <1>2. todo \in SUBSET Uids /\ todo \cap inflight = {}
    BY OwnersType DEF Stale
  <1>3. \/ UNCHANGED <<call, inflight>>
        \/ \E j \in Jobs :
              /\ call[j].pc = "none"
              /\ inflight' = inflight \cup todo
              /\ call' = [call EXCEPT ![j] = [NoCall EXCEPT !.pc = "lookup", !.todo = todo]]
    BY DEF Refresh
  <1> HIDE DEF todo
  <1>4. ASSUME NEW j \in Jobs, call[j].pc = "none", inflight' = inflight \cup todo,
               call' = [call EXCEPT ![j] = [NoCall EXCEPT !.pc = "lookup", !.todo = todo]]
        PROVE  /\ call'[j].pc = "lookup" /\ call'[j].todo = todo
               /\ \A c \in (Jobs \cup Logins) \ {j} : call'[c] = call[c]
    BY <1>1, <1>4 DEF NoCall
  <1>5. QED
    BY <1>2, <1>3, <1>4

(* Marks and work correspond after every step. *)
LEMMA NextMarks == TypeOK /\ MarksInv /\ [Next]_vars => MarksInv'
  <1> SUFFICES ASSUME TypeOK, MarksInv, [Next]_vars PROVE MarksInv'
    OBVIOUS
  <1>1. CASE UNCHANGED <<call, inflight>>
    BY <1>1 DEF MarksInv
  <1>2. CASE Crash
    BY <1>2 DEF Crash, NoCall, MarksInv
  <1>3. ASSUME NEW p \in Pages, Refresh(p) PROVE MarksInv'
    <2>1. SUFFICES ASSUME NEW k \in Jobs, NEW todo \in SUBSET Uids,
                          call[k].pc = "none", todo \cap inflight = {},
                          inflight' = inflight \cup todo,
                          call'[k].pc = "lookup", call'[k].todo = todo,
                          \A c \in (Jobs \cup Logins) \ {k} : call'[c] = call[c]
                   PROVE  MarksInv'
      BY <1>1, <1>3, RefreshCall
    <2>2. \A j \in Jobs : call'[j].pc = "none" => call'[j].todo = {}
      BY <2>1 DEF MarksInv
    <2>3. \A j \in Jobs : call'[j].pc \in {"save", "name", "end"} => call'[j].uid \in call'[j].todo
      BY <2>1 DEF MarksInv
    <2>4. \A j \in Jobs : call'[j].todo \subseteq inflight'
      BY <2>1 DEF MarksInv
    <2>5. \A u \in inflight' : \E j \in Jobs : u \in call'[j].todo
      <3>1. call[k].todo = {}
        BY <2>1 DEF MarksInv
      <3>2. ASSUME NEW u \in inflight PROVE \E j \in Jobs : u \in call'[j].todo
        <4>1. PICK j \in Jobs : u \in call[j].todo
          BY <3>2 DEF MarksInv
        <4>2. j # k
          BY <3>1, <4>1
        <4>3. QED
          BY <2>1, <4>1, <4>2
      <3>3. QED
        BY <2>1, <3>2
    <2>6. \A i, j \in Jobs : call'[i].todo \cap call'[j].todo # {} => i = j
      <3>1. \A i \in Jobs \ {k} : call'[i].todo \subseteq inflight
        BY <2>1 DEF MarksInv
      <3>2. QED
        BY <2>1, <3>1 DEF MarksInv
    <2>7. QED
      BY <2>2, <2>3, <2>4, <2>5, <2>6 DEF MarksInv
  <1>4. ASSUME NEW c \in Jobs \cup Logins, CacheStep(c) PROVE MarksInv'
    <2>1. PICK pc \in {"name", "end"} : call' = [call EXCEPT ![c] = [call[c] EXCEPT !.pc = pc]]
      BY <1>4, CacheStepCall
    <2>2. call[c].pc \in {"save", "name"} /\ inflight' = inflight
      BY <1>4, CacheStepCall
    <2>3. ASSUME NEW j \in Jobs
          PROVE  /\ call'[j].todo = call[j].todo /\ call'[j].uid = call[j].uid
                 /\ call'[j].pc = call[j].pc
                    \/ (call'[j].pc \in {"name", "end"} /\ call[j].pc \in {"save", "name"})
      BY <2>1, <2>2 DEF TypeOK, Call
    <2>4. QED
      BY <2>2, <2>3, MarksStable DEF MarksInv
  <1>5. ASSUME NEW k \in Jobs, Release(k) PROVE MarksInv'
    <2>1. /\ inflight' = inflight \ {call[k].uid}
          /\ call'[k].pc \in {"none", "lookup"}
          /\ call'[k].pc = "none" => call'[k].todo = {}
          /\ call[k].uid \in call[k].todo
          /\ call'[k].todo = call[k].todo \ {call[k].uid}
          /\ \A j \in Jobs \ {k} : call'[j] = call[j]
      BY <1>5, ReleaseCall DEF MarksInv
    <2>2. \A j \in Jobs \ {k} : call[k].uid \notin call[j].todo
      BY <2>1 DEF MarksInv
    <2>3. \A j \in Jobs : call'[j].todo = call[j].todo \ {call[k].uid}
      BY <2>1, <2>2
    <2>4. \A u \in inflight' : \E j \in Jobs : u \in call'[j].todo
      BY <2>1, <2>3 DEF MarksInv
    <2>5. QED
      BY <2>1, <2>3, <2>4 DEF MarksInv
  <1>6. ASSUME NEW k \in Jobs, NEW u \in Uids, Lookup(k, u) \/ LookupFails(k, u) PROVE MarksInv'
    BY <1>6, LookupCall, MarksStable DEF MarksInv
  <1>7. ASSUME NEW l \in Logins,
               IssueSession(l)
               \/ \E o \in People, s \in Spellings, read \in BOOLEAN : Authenticate(l, o, s, read)
        PROVE  MarksInv'
    BY <1>7, LoginCall, MarksStable DEF MarksInv
  <1>8. QED
    BY <1>1, <1>2, <1>3, <1>4, <1>5, <1>6, <1>7, CallCases

(* Whoever goes on past a lookup keeps the identity it was for. *)
LEMMA NextBusy == TypeOK /\ BusyInv /\ [Next]_vars => BusyInv'
  <1> SUFFICES ASSUME TypeOK, BusyInv, [Next]_vars PROVE BusyInv'
    OBVIOUS
  <1>1. CASE UNCHANGED <<call, inflight>>
    BY <1>1 DEF BusyInv
  <1>2. CASE Crash
    BY <1>2 DEF Crash, NoCall, BusyInv
  <1>3. ASSUME NEW p \in Pages, Refresh(p) PROVE BusyInv'
    BY <1>1, <1>3, RefreshCall DEF BusyInv
  <1>4. ASSUME NEW c \in Jobs \cup Logins, CacheStep(c) PROVE BusyInv'
    <2>1. PICK pc \in {"name", "end"} : call' = [call EXCEPT ![c] = [call[c] EXCEPT !.pc = pc]]
      BY <1>4, CacheStepCall
    <2>2. call[c].pc \in {"save", "name"}
      BY <1>4, CacheStepCall
    <2>3. ASSUME NEW d \in Jobs \cup Logins
          PROVE  /\ call'[d].uid = call[d].uid
                 /\ call'[d].pc = call[d].pc \/ call[d].pc \in {"save", "name"}
      BY <2>1, <2>2 DEF TypeOK, Call
    <2>4. QED
      BY <2>3 DEF BusyInv
  <1>5. ASSUME NEW k \in Jobs, Release(k) PROVE BusyInv'
    BY <1>5, ReleaseCall DEF BusyInv
  <1>6. ASSUME NEW k \in Jobs, NEW u \in Uids, Lookup(k, u) \/ LookupFails(k, u) PROVE BusyInv'
    BY <1>6, LookupCall DEF BusyInv
  <1>7. ASSUME NEW l \in Logins, IssueSession(l) PROVE BusyInv'
    BY <1>7 DEF IssueSession, NoCall, BusyInv, TypeOK
  <1>8. ASSUME NEW l \in Logins, NEW o \in People, NEW s \in Spellings, NEW read \in BOOLEAN,
               Authenticate(l, o, s, read)
        PROVE  BusyInv'
    <2>1. CanonicalLogin(o, s, read) \in Uids
      BY DirectoryAssumption DEF CanonicalLogin, Uids
    <2>2. /\ call'[l].uid = CanonicalLogin(o, s, read)
          /\ \A c \in (Jobs \cup Logins) \ {l} : call'[c] = call[c]
      BY <1>8 DEF Authenticate, Took, TypeOK, Call
    <2>3. QED
      BY <2>1, <2>2 DEF BusyInv
  <1>9. QED
    BY <1>1, <1>2, <1>3, <1>4, <1>5, <1>6, <1>7, <1>8, CallCases

(* Types, calls and marks are as said in every behaviour. *)
THEOREM Invariance == Spec => [](TypeOK /\ BusyInv /\ MarksInv)
  <1>1. Init => TypeOK /\ BusyInv /\ MarksInv
    <2>1. Init => BusyInv /\ MarksInv
      BY DEF Init, NoCall, BusyInv, MarksInv
    <2>2. QED
      BY <2>1, InitTypeOK
  <1>2. TypeOK /\ BusyInv /\ MarksInv /\ [Next]_vars => (TypeOK /\ BusyInv /\ MarksInv)'
    BY NextTypeOK, NextBusy, NextMarks
  <1>3. QED
    BY <1>1, <1>2, PTL DEF Spec

(* However pages, refreshes and crashes fall, an identity marked in        *)
(* profileInflight has exactly one goroutine that will unmark it, and one  *)
(* that is not marked has none (refreshProfilesAsync).                     *)
THEOREM OneLookup == Spec => []OneLookupEach
  <1>1. MarksInv => OneLookupEach
    <2> SUFFICES ASSUME MarksInv, NEW u \in Uids
                 PROVE  Cardinality({j \in Jobs : u \in call[j].todo}) = IF u \in inflight THEN 1 ELSE 0
      BY DEF OneLookupEach
    <2>1. CASE u \in inflight
      <3>1. PICK j \in Jobs : u \in call[j].todo
        BY <2>1 DEF MarksInv
      <3>2. {i \in Jobs : u \in call[i].todo} = {j}
        BY <3>1 DEF MarksInv
      <3>3. QED
        BY <2>1, <3>2, FS_Singleton
    <2>2. CASE u \notin inflight
      <3>1. {i \in Jobs : u \in call[i].todo} = {}
        BY <2>2 DEF MarksInv
      <3>2. QED
        BY <2>2, <3>1, FS_EmptySet
    <2>3. QED
      BY <2>1, <2>2
  <1>2. QED
    BY <1>1, Invariance, PTL

-----------------------------------------------------------------------------
(* What is saved as empty. *)

(* The directory's entries come from Values and go for good; who is gone   *)
(* has been missing.                                                       *)
EntriesInv == \A o \in People : entry[o] \in Values \/ (entry[o] = Gone /\ o \in left)

(* The history of who was missing only grows, and covers every gap. *)
LEMMA NextEntries == TypeOK /\ EntriesInv /\ [Next]_vars => EntriesInv' /\ left \subseteq left'
  <1> SUFFICES ASSUME TypeOK, EntriesInv, [Next]_vars PROVE EntriesInv' /\ left \subseteq left'
    OBVIOUS
  <1>1. ASSUME NEW o \in People, Leave(o) PROVE EntriesInv' /\ left \subseteq left'
    BY <1>1 DEF Leave, EntriesInv, TypeOK
  <1>2. ASSUME NEW o \in People, NEW v \in Values, Edit(o, v) PROVE EntriesInv' /\ left \subseteq left'
    BY <1>2 DEF Edit, EntriesInv, TypeOK
  <1>3. CASE UNCHANGED <<entry, left>>
    BY <1>3 DEF EntriesInv
  <1>4. CASE Outage \/ Recover \/ Crash \/ Tick \/ UNCHANGED vars
    BY <1>3, <1>4 DEF Outage, Recover, Crash, Tick, directory, vars
  <1>5. CASE \E p \in Pages : LoadProfiles(p) \/ Refresh(p)
    BY <1>3, <1>5 DEF LoadProfiles, Refresh, directory
  <1>6. ASSUME NEW c \in Jobs \cup Logins, CacheStep(c) PROVE UNCHANGED <<entry, left>>
    BY <1>6 DEF CacheStep, SaveProfile, SaveProfileFails, SyncName, SyncNameFails, directory
  <1>7. CASE \E j \in Jobs : JobStep(j)
    BY <1>3, <1>6, <1>7 DEF JobStep, Release, Lookup, LookupFails, directory
  <1>8. CASE \E l \in Logins : LoginStep(l)
    BY <1>3, <1>6, <1>8 DEF LoginStep, IssueSession, directory
  <1>9. CASE \E l \in Logins : \E o \in People, s \in Spellings, read \in BOOLEAN :
                Authenticate(l, o, s, read)
    BY <1>3, <1>9 DEF Authenticate, directory
  <1>10. QED
    BY <1>1, <1>2, <1>4, <1>5, <1>7, <1>8, <1>9 DEF Next

(* A call that is about to save was so before, or has just read.           *)
LEMMA SaveCases ==
  ASSUME TypeOK, [Next]_vars, NEW c \in Jobs \cup Logins, call'[c].pc = "save"
  PROVE  \/ call[c].pc = "save" /\ call'[c].uid = call[c].uid /\ call'[c].got = call[c].got
         \/ \E u \in Uids :
               /\ call'[c].uid = u
               /\ call'[c].got = entry[u[1]] \/ (call'[c].got = Empty /\ entry[u[1]] = Gone)
         \/ ReadFails
  <1> DEFINE Kept == call[c].pc = "save" /\ call'[c].uid = call[c].uid /\ call'[c].got = call[c].got
             Read == \E u \in Uids :
                        /\ call'[c].uid = u
                        /\ call'[c].got = entry[u[1]] \/ (call'[c].got = Empty /\ entry[u[1]] = Gone)
  <1> SUFFICES Kept \/ Read \/ ReadFails
    OBVIOUS
  <1>1. call \in [Jobs \cup Logins -> Call]
    BY DEF TypeOK
  <1>2. call'[c] = call[c] => Kept
    OBVIOUS
  <1>3. CASE UNCHANGED <<call, inflight>>
    BY <1>2, <1>3
  <1>4. CASE Crash
    BY <1>4 DEF Crash, NoCall
  <1>5. ASSUME NEW p \in Pages, Refresh(p) PROVE Kept
    BY <1>2, <1>5, RefreshCall
  <1>6. ASSUME NEW d \in Jobs \cup Logins, CacheStep(d) PROVE Kept
    <2>1. PICK pc \in {"name", "end"} : call' = [call EXCEPT ![d] = [call[d] EXCEPT !.pc = pc]]
      BY <1>6, CacheStepCall
    <2>2. c # d
      BY <1>1, <2>1 DEF Call
    <2>3. QED
      BY <1>1, <1>2, <2>1, <2>2
  <1>7. ASSUME NEW j \in Jobs, Release(j) PROVE Kept
    BY <1>2, <1>7, ReleaseCall
  <1>8. ASSUME NEW j \in Jobs, NEW u \in Uids, Lookup(j, u) PROVE Kept \/ Read
    <2>1. CASE c # j
      BY <1>2, <1>8, <2>1, LookupCall
    <2>2. CASE c = j
      <3>1. ASSUME NEW v, Took(j, u, v) PROVE call'[j].uid = u /\ call'[j].got = v
        BY <1>1, <3>1 DEF Took, Call
      <3>2. call'[c].uid = u /\ (call'[c].got = entry[u[1]] \/ (call'[c].got = Empty /\ entry[u[1]] = Gone))
        BY <1>8, <2>2, <3>1 DEF Lookup
      <3>3. QED
        BY <3>2
    <2>3. QED
      BY <2>1, <2>2
  <1>9. ASSUME NEW j \in Jobs, NEW u \in Uids, LookupFails(j, u) PROVE Kept
    <2>1. call'[j].pc = "end"
      BY <1>1, <1>9 DEF LookupFails, Call
    <2>2. QED
      BY <1>2, <1>9, <2>1, LookupCall
  <1>10. ASSUME NEW l \in Logins, IssueSession(l) PROVE Kept
    BY <1>1, <1>2, <1>10 DEF IssueSession, NoCall
  <1>11. ASSUME NEW l \in Logins, NEW o \in People, NEW s \in Spellings, NEW read \in BOOLEAN,
                Authenticate(l, o, s, read)
         PROVE  Kept \/ Read \/ ReadFails
    <2>1. CASE c # l
      BY <1>1, <1>2, <1>11, <2>1 DEF Authenticate, Took
    <2>2. CASE c = l /\ read
      <3>1. Took(l, <<o, Stored>>, entry[o])
        BY <1>11, <2>2 DEF Authenticate, CanonicalLogin
      <3>2. call'[c].uid = <<o, Stored>> /\ call'[c].got = entry[o]
        BY <1>1, <2>2, <3>1 DEF Took, Call
      <3>3. <<o, Stored>> \in Uids /\ <<o, Stored>>[1] = o
        BY DirectoryAssumption DEF Uids
      <3>4. QED
        BY <3>2, <3>3
    <2>3. CASE ~read
      BY <1>11, <2>3 DEF Authenticate
    <2>4. QED
      BY <2>1, <2>2, <2>3
  <1>12. QED
    BY <1>3, <1>4, <1>5, <1>6, <1>7, <1>8, <1>9, <1>10, <1>11, CallCases

(* With no failed read at a login, what is saved as empty was absent. *)
LEMMA NextRead ==
  ASSUME ReadFails = FALSE
  PROVE  TypeOK /\ EntriesInv /\ ReadInv /\ [Next]_vars => ReadInv'
  <1> SUFFICES ASSUME TypeOK, EntriesInv, ReadInv, [Next]_vars,
                      NEW c \in Jobs \cup Logins, call'[c].pc = "save", call'[c].got = Empty
               PROVE  call'[c].uid[1] \in left'
    BY DEF ReadInv
  <1>1. left \subseteq left'
    BY NextEntries
  <1>2. CASE call[c].pc = "save" /\ call'[c].uid = call[c].uid /\ call'[c].got = call[c].got
    BY <1>1, <1>2 DEF ReadInv
  <1>3. ASSUME NEW u \in Uids, call'[c].uid = u,
               call'[c].got = entry[u[1]] \/ (call'[c].got = Empty /\ entry[u[1]] = Gone)
        PROVE  call'[c].uid[1] \in left'
    <2>1. u[1] \in People
      BY DEF Uids
    <2>2. entry[u[1]] = Gone
      BY <1>3, <2>1, DirectoryAssumption DEF EntriesInv
    <2>3. QED
      BY <1>1, <1>3, <2>1, <2>2, DirectoryAssumption DEF EntriesInv
  <1>4. QED
    BY <1>2, <1>3, SaveCases

(* Where a login that succeeds has read the entry (see the findings for    *)
(* what happens otherwise), a cached name and photo are given up only for  *)
(* somebody the directory has been without: no outage and no crash, at     *)
(* whatever point of a refresh, empties a profile.                         *)
THEOREM OutageEmptiesNothing ==
  ASSUME ReadFails = FALSE
  PROVE  Spec => OutageKeepsProfile
  <1> DEFINE Keeps == \A u \in Uids :
                         profile[u].value # Empty /\ profile'[u].value = Empty => u[1] \in left
  <1>1. Init => EntriesInv /\ ReadInv
    BY DEF Init, NoCall, EntriesInv, ReadInv
  <1>2. TypeOK /\ EntriesInv /\ ReadInv /\ [Next]_vars => (EntriesInv /\ ReadInv)'
    BY NextEntries, NextRead
  <1>3. TypeOK /\ ReadInv /\ [Next]_vars => [Keeps]_vars
    <2> SUFFICES ASSUME TypeOK, ReadInv, [Next]_vars, NEW u \in Uids,
                        profile[u].value # Empty, profile'[u].value = Empty
                 PROVE  u[1] \in left
      OBVIOUS
    <2>1. profile' # profile /\ \E x \in Uids : profile'[x].value # profile[x].value
      OBVIOUS
    <2>2. ASSUME NEW c \in Jobs \cup Logins, CacheStep(c) PROVE u[1] \in left
      <3>1. SaveProfile(c)
        BY <2>1, <2>2 DEF CacheStep, SaveProfileFails, SyncName, SyncNameFails, rows
      <3>2. call[c].uid = u /\ call[c].got = Empty /\ call[c].pc = "save"
        BY <2>1, <3>1 DEF SaveProfile, TypeOK
      <3>3. QED
        BY <3>2 DEF ReadInv
    <2>3. ~Tick
      BY <2>1 DEF Tick, TypeOK
    <2>4. CASE Outage \/ Recover \/ Crash \/ Tick \/ UNCHANGED vars
      BY <2>1, <2>3, <2>4 DEF Outage, Recover, Crash, rows, vars
    <2>5. CASE \E o \in People : Leave(o) \/ \E v \in Values : Edit(o, v)
      BY <2>1, <2>5 DEF Leave, Edit, rows
    <2>6. CASE \E p \in Pages : LoadProfiles(p) \/ Refresh(p)
      BY <2>1, <2>6 DEF LoadProfiles, Refresh, rows
    <2>7. CASE \E j \in Jobs : JobStep(j)
      BY <2>1, <2>2, <2>7 DEF JobStep, Release, Lookup, LookupFails, rows
    <2>8. CASE \E l \in Logins : LoginStep(l)
      BY <2>1, <2>2, <2>8 DEF LoginStep, IssueSession
    <2>9. CASE \E l \in Logins : \E o \in People, s \in Spellings, read \in BOOLEAN :
                  Authenticate(l, o, s, read)
      BY <2>1, <2>9 DEF Authenticate, rows
    <2>10. QED
      BY <2>4, <2>5, <2>6, <2>7, <2>8, <2>9 DEF Next
  <1>4. Spec => [](TypeOK /\ EntriesInv /\ ReadInv)
    <2>1. Spec => []TypeOK
      BY Invariance, PTL
    <2>2. QED
      BY <1>1, <1>2, <2>1, PTL DEF Spec
  <1>5. QED
    BY <1>3, <1>4, PTL DEF Spec, OutageKeepsProfile
=============================================================================
