----------------------------- MODULE Directory -----------------------------
(***************************************************************************)
(* Who a user is and what is known of them: logins that authenticate       *)
(* against the directory, the cache of directory profiles, and the         *)
(* background refreshes that pages start for profiles older than a day.    *)
(*                                                                         *)
(* A profile is a name with a photo, one value here.  An identity is a     *)
(* person with the spelling of their login: the directory takes every      *)
(* spelling for the same entry, the portal tells them apart.  Ages are     *)
(* kept up to TTL (profileTTL), which is also the age of a missing row.    *)
(***************************************************************************)
EXTENDS Naturals, FiniteSets

CONSTANTS
    People,         \* entries of the directory
    Spellings,      \* of a login
    Stored,         \* the one the directory stores
    Values,         \* profiles: a name and a photo
    Empty,          \* no name and no photo
    Gone,           \* no such entry
    Pages,          \* pages being built
    Jobs,           \* background goroutines; bounds those at one time
    Logins,         \* login requests in progress
    TTL,            \* profileTTL
    Hides,          \* whether the directory answers "no entries" for a missing one
    ReadFails,      \* whether a login's profile read may fail
    SaveFails,      \* whether store calls may fail
    Changes,        \* what else happens: "edit", "leave", "outage", "crash"
    MaxChanges      \* bound: how often

ASSUME DirectoryAssumption ==
    /\ Stored \in Spellings
    /\ Jobs \cap Logins = {}
    /\ Gone \notin Values /\ Empty \notin Values /\ Gone # Empty
    /\ TTL \in Nat \ {0}
    /\ {Hides, ReadFails, SaveFails} \subseteq BOOLEAN
    /\ Changes \subseteq {"edit", "leave", "outage", "crash"}
    /\ MaxChanges \in Nat

VARIABLES
    entry,          \* per person, the directory's profile, or Gone
    up,             \* whether the directory answers
    changes,        \* changes so far
    profile,        \* user_profile, by identity
    ownerName,      \* machine.owner_name, by identity
    inflight,       \* profileInflight
    page,           \* per page, the ages in the profile map it has loaded
    call,           \* per goroutine and login, its call of cacheProfile
    issued,         \* identities sessions were issued for
    left            \* history: people who were missing at some time

vars == <<entry, up, changes, profile, ownerName, inflight, page, call, issued, left>>

directory == <<entry, up, changes, left>>
rows == <<profile, ownerName, issued>>
memory == <<inflight, page, call>>

Uids == People \X Spellings

Profiles == Values \cup {Empty}

NoRow == [value |-> Empty, age |-> TTL]

(* A page between two requests has loaded nothing.                         *)
NoPage == [loaded |-> FALSE, age |-> [u \in Uids |-> TTL]]

NoUid == <<>>

(* One caller of cacheProfile: whom it has looked up and what it got; a    *)
(* job has identities to go (todo).                                        *)
NoCall == [pc |-> "none", todo |-> {}, uid |-> NoUid, got |-> Empty]

Call == [pc : {"none", "lookup", "save", "name", "end"}, todo : SUBSET Uids,
         uid : Uids \cup {NoUid}, got : Profiles]

(* Type invariant.                                                         *)
TypeOK ==
    /\ entry \in [People -> Profiles \cup {Gone}]
    /\ up \in BOOLEAN
    /\ changes \in 0..MaxChanges
    /\ profile \in [Uids -> [value : Profiles, age : 0..TTL]]
    /\ ownerName \in [Uids -> Profiles]
    /\ inflight \subseteq Uids
    /\ page \in [Pages -> [loaded : BOOLEAN, age : [Uids -> 0..TTL]]]
    /\ call \in [Jobs \cup Logins -> Call]
    /\ issued \subseteq Uids
    /\ left \subseteq People

Init ==
    /\ entry \in [People -> Values]
    /\ up = TRUE
    /\ changes = 0
    /\ profile = [u \in Uids |-> NoRow]
    /\ ownerName = [u \in Uids |-> Empty]
    /\ inflight = {}
    /\ page = [p \in Pages |-> NoPage]
    /\ call = [c \in Jobs \cup Logins |-> NoCall]
    /\ issued = {}
    /\ left = {}

-----------------------------------------------------------------------------
(* The directory, the clock and the process.                               *)

Count(what) == what \in Changes /\ changes < MaxChanges /\ changes' = changes + 1

Edit(o, v) ==
    /\ Count("edit")
    /\ entry[o] \in Values \ {v}
    /\ entry' = [entry EXCEPT ![o] = v]
    /\ UNCHANGED <<up, left, rows, memory>>

Leave(o) ==
    /\ Count("leave")
    /\ entry[o] # Gone
    /\ entry' = [entry EXCEPT ![o] = Gone]
    /\ left' = left \cup {o}
    /\ UNCHANGED <<up, rows, memory>>

Outage ==
    /\ Count("outage")
    /\ up' = FALSE
    /\ UNCHANGED <<entry, left, rows, memory>>

Recover ==
    /\ ~up
    /\ up' = TRUE
    /\ UNCHANGED <<entry, changes, left, rows, memory>>

Crash ==
    /\ Count("crash")
    /\ inflight' = {}
    /\ page' = [p \in Pages |-> NoPage]
    /\ call' = [c \in Jobs \cup Logins |-> NoCall]
    /\ UNCHANGED <<entry, up, left, rows>>

Older(age) == IF age < TTL THEN age + 1 ELSE age

Tick ==
    /\ profile' = [u \in Uids |-> [profile[u] EXCEPT !.age = Older(@)]]
    /\ page' = [p \in Pages |->
                   [page[p] EXCEPT !.age = [u \in Uids |-> Older(page[p].age[u])]]]
    /\ UNCHANGED <<directory, ownerName, issued, inflight, call>>

-----------------------------------------------------------------------------
(* Pages: the machines list and the status.                                *)

(* AllUserProfileMetas, early in the page.                                 *)
LoadProfiles(p) ==
    /\ ~page[p].loaded
    /\ page' = [page EXCEPT ![p] = [loaded |-> TRUE, age |-> [u \in Uids |-> profile[u].age]]]
    /\ UNCHANGED <<directory, rows, inflight, call>>

(* The owners a page lists; the first have machines from the beginning.    *)
Owners == (People \X {Stored}) \cup issued

(* staleUIDs.                                                              *)
Stale(p) == {u \in Owners : page[p].age[u] = TTL}

(* Mutant of Refresh: nobody looks whether a refresh is under way.         *)
RefreshUnguarded(p) ==
    /\ page[p].loaded
    /\ page' = [page EXCEPT ![p] = NoPage]
    /\ IF Stale(p) = {}
       THEN UNCHANGED <<inflight, call>>
       ELSE \E j \in Jobs :
              /\ call[j].pc = "none"
              /\ inflight' = inflight \cup Stale(p)
              /\ call' = [call EXCEPT ![j] = [NoCall EXCEPT !.pc = "lookup", !.todo = Stale(p)]]
    /\ UNCHANGED <<directory, rows>>

(* refreshProfilesAsync, at the end of the page, under profileMu.          *)
Refresh(p) ==
    LET todo == Stale(p) \ inflight IN
    /\ page[p].loaded
    /\ page' = [page EXCEPT ![p] = NoPage]
    /\ IF todo = {}
       THEN UNCHANGED <<inflight, call>>
       ELSE \E j \in Jobs :
              /\ call[j].pc = "none"
              /\ inflight' = inflight \cup todo
              /\ call' = [call EXCEPT ![j] = [NoCall EXCEPT !.pc = "lookup", !.todo = todo]]
    /\ UNCHANGED <<directory, rows>>

-----------------------------------------------------------------------------
(* The directory asked.                                                    *)

Took(c, u, v) ==
    call' = [call EXCEPT ![c] = [@ EXCEPT !.pc = "save", !.uid = u, !.got = v]]

(* LookupProfile: an entry, or the news that there is none.                *)
Lookup(j, u) ==
    /\ call[j].pc = "lookup" /\ u \in call[j].todo
    /\ up
    /\ \/ entry[u[1]] # Gone /\ Took(j, u, entry[u[1]])
       \/ entry[u[1]] = Gone /\ Hides /\ Took(j, u, Empty)
    /\ UNCHANGED <<directory, rows, inflight, page>>

(* Mutant of LookupFails: what could not be read is saved as empty.        *)
LookupFailsEmpty(j, u) ==
    /\ call[j].pc = "lookup" /\ u \in call[j].todo
    /\ ~up
    /\ Took(j, u, Empty)
    /\ UNCHANGED <<directory, rows, inflight, page>>

(* It cannot be asked, or it answers noSuchObject, which is an error too.  *)
LookupFails(j, u) ==
    /\ call[j].pc = "lookup" /\ u \in call[j].todo
    /\ ~up \/ (entry[u[1]] = Gone /\ ~Hides)
    /\ call' = [call EXCEPT ![j] = [@ EXCEPT !.pc = "end", !.uid = u]]
    /\ UNCHANGED <<directory, rows, inflight, page>>

(* canonicalLogin: the stored spelling, when the entry could be read.      *)
CanonicalLogin(o, typed, read) == <<o, IF read THEN Stored ELSE typed>>

(* Authenticate: the bind succeeds; the entry is read, or that fails.      *)
Authenticate(l, o, typed, read) ==
    /\ call[l].pc = "none"
    /\ up /\ entry[o] # Gone
    /\ read \/ ReadFails
    /\ Took(l, CanonicalLogin(o, typed, read), IF read THEN entry[o] ELSE Empty)
    /\ UNCHANGED <<directory, rows, inflight, page>>

-----------------------------------------------------------------------------
(* cacheProfile, and what its callers do next.                             *)

Go(c, pc) == call' = [call EXCEPT ![c] = [@ EXCEPT !.pc = pc]]

AfterSave(c) == IF call[c].got = Empty THEN "end" ELSE "name"

(* UpsertUserProfile.                                                      *)
SaveProfile(c) ==
    /\ call[c].pc = "save"
    /\ profile' = [profile EXCEPT ![call[c].uid] = [value |-> call[c].got, age |-> 0]]
    /\ Go(c, AfterSave(c))
    /\ UNCHANGED <<directory, ownerName, issued, inflight, page>>

SaveProfileFails(c) ==
    /\ SaveFails
    /\ call[c].pc = "save"
    /\ Go(c, AfterSave(c))
    /\ UNCHANGED <<directory, rows, inflight, page>>

(* UpdateOwnerName.                                                        *)
SyncName(c) ==
    /\ call[c].pc = "name"
    /\ ownerName' = [ownerName EXCEPT ![call[c].uid] = call[c].got]
    /\ Go(c, "end")
    /\ UNCHANGED <<directory, profile, issued, inflight, page>>

SyncNameFails(c) ==
    /\ SaveFails
    /\ call[c].pc = "name"
    /\ Go(c, "end")
    /\ UNCHANGED <<directory, rows, inflight, page>>

(* Mutant of Release: the mark is only taken back after a success.         *)
ReleaseSaved(j) ==
    /\ call[j].pc = "end"
    /\ inflight' = IF call[j].got = Empty THEN inflight ELSE inflight \ {call[j].uid}
    /\ call' = [call EXCEPT ![j] =
           IF @.todo = {@.uid} THEN NoCall
           ELSE [NoCall EXCEPT !.pc = "lookup", !.todo = call[j].todo \ {call[j].uid}]]
    /\ UNCHANGED <<directory, rows, page>>

(* The goroutine is done with an identity and goes on to the next.         *)
Release(j) ==
    /\ call[j].pc = "end"
    /\ inflight' = inflight \ {call[j].uid}
    /\ call' = [call EXCEPT ![j] =
           IF @.todo = {@.uid} THEN NoCall
           ELSE [NoCall EXCEPT !.pc = "lookup", !.todo = call[j].todo \ {call[j].uid}]]
    /\ UNCHANGED <<directory, rows, page>>

(* Issue, which may fail.                                                  *)
IssueSession(l) ==
    /\ call[l].pc = "end"
    /\ issued' \in {issued \cup {call[l].uid}} \cup (IF SaveFails THEN {issued} ELSE {})
    /\ call' = [call EXCEPT ![l] = NoCall]
    /\ UNCHANGED <<directory, profile, ownerName, inflight, page>>

CacheStep(c) == SaveProfile(c) \/ SaveProfileFails(c) \/ SyncName(c) \/ SyncNameFails(c)

JobStep(j) ==
    \/ CacheStep(j) \/ Release(j)
    \/ \E u \in Uids : Lookup(j, u) \/ LookupFails(j, u)

LoginStep(l) == CacheStep(l) \/ IssueSession(l)

Next ==
    \/ Outage \/ Recover \/ Crash \/ Tick
    \/ \E o \in People : Leave(o) \/ \E v \in Values : Edit(o, v)
    \/ \E p \in Pages : LoadProfiles(p) \/ Refresh(p)
    \/ \E j \in Jobs : JobStep(j)
    \/ \E l \in Logins :
          \/ LoginStep(l)
          \/ \E o \in People, s \in Spellings, read \in BOOLEAN : Authenticate(l, o, s, read)

Spec == Init /\ [][Next]_vars

(* Somebody looks at the machines list now and then, requests and          *)
(* goroutines run, time passes, and store calls do not fail for ever.      *)
(* Nobody has to log in.                                                   *)
Fairness ==
    /\ WF_vars(Tick)
    /\ \A p \in Pages : WF_vars(LoadProfiles(p)) /\ SF_vars(Refresh(p))
    /\ \A l \in Logins : WF_vars(LoginStep(l))
    /\ \A j \in Jobs : WF_vars(JobStep(j))
    /\ <>[][\A c \in Jobs \cup Logins : ~SaveProfileFails(c) /\ ~SyncNameFails(c)]_vars

FairSpec == Spec /\ Fairness

-----------------------------------------------------------------------------
(* Properties.                                                             *)

(* refreshProfilesAsync: an identity is marked as in flight exactly while  *)
(* one goroutine has it to look up, whatever pages are built at once and   *)
(* however lookups and writes fail: no query is made twice at a time, and  *)
(* no mark is left behind that would keep a profile from ever being        *)
(* refreshed again.                                                        *)
OneLookupEach ==
    \A u \in Uids :
        Cardinality({j \in Jobs : u \in call[j].todo}) = IF u \in inflight THEN 1 ELSE 0

(* A cached name and photo are given up only for what the directory has:   *)
(* no outage empties a profile (lookupProfile: "so callers can avoid       *)
(* caching an empty profile after a transient failure").                   *)
OutageKeepsProfile ==
    [][\A u \in Uids :
          profile[u].value # Empty /\ profile'[u].value = Empty => u[1] \in left]_vars

(* One person is one owner, however they spell their login (Authenticate:  *)
(* the typed string "would split one person into several owners").         *)
OneOwnerEach == \A u, v \in issued : u[1] = v[1] => u = v

(* While the directory answers and pages are looked at, the names shown    *)
(* become and stay those of the directory, past outages, failing writes    *)
(* and crashes: profileTTL "before it is lazily refreshed".                *)
NamesFollow ==
    \A o \in People : \A v \in Values :
        <>[](up /\ entry[o] = v) =>
            <>[](profile[<<o, Stored>>].value = v /\ ownerName[<<o, Stored>>] = v)

(* refreshProfilesAsync: the guard "prevents concurrent page loads from    *)
(* piling up duplicate LDAP queries for the same user": none is made for a *)
(* profile that was just refreshed.                                        *)
NoDuplicateLookup ==
    [][\A j \in Jobs : call[j].pc = "lookup" /\ call'[j].pc = "save" =>
          profile[call'[j].uid].age = TTL]_vars

(* cacheProfile "keeps the cached owner name on their machines in sync":   *)
(* when nobody is writing, and no write failed, the two names are one.     *)
NamesInSync ==
    (\A c \in Jobs \cup Logins : call[c].pc \in {"none", "lookup"}) =>
        \A u \in Uids : profile[u].value # Empty => ownerName[u] = profile[u].value

(* lookupProfile: an absent entry is no error "so it can be cached as      *)
(* 'known empty' without re-querying on every page load".                  *)
KnownEmptyCached ==
    \A o \in People :
        <>[](up /\ entry[o] = Gone) => []<>(profile[<<o, Stored>>].age < TTL)
=============================================================================
