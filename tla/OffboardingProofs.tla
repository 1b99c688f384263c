------------------------- MODULE OffboardingProofs -------------------------
(***************************************************************************)
(* The offboarding sweep is never hasty, announces only what it finished,  *)
(* and announces it once, and a directory that breaks makes it cut nobody  *)
(* off who was in good standing: for any owners, machines, grace period    *)
(* and check interval, any behaviour of directory and administrators, any  *)
(* store failures and crashes.                                             *)
(*                                                                         *)
(* The argument: owner_check counts days, because a row is written only    *)
(* when the last answer has aged out (CountsDays); what a round holds in   *)
(* memory never runs ahead of the table (RoundOK); and an owner announced  *)
(* stays flagged, hence out of later rounds, until seen again (AlertOK).   *)
(* A broken directory vouches for nobody, so by the second absence every   *)
(* good answer has aged out (HarmlessInv).                                 *)
(***************************************************************************)
EXTENDS Offboarding, TLAPS

(* The time k recorded misses span, the last one age periods old.          *)
Span(k, age) == AtMost((k - 1) * Day + age, Full)

(* Recorded misses count days of the current run of absences.              *)
CountsDays ==
    \A u \in Owners : check[u].misses > 0 =>
        /\ check[u].known
        /\ absentFor[u] <= Full
        /\ absentFor[u] >= Span(check[u].misses, check[u].age)

RoundOK ==
    /\ round.pc = "idle" => round = NoRound
    /\ round.pc = "refresh" =>
         /\ round.orphans = {} /\ round.acting = {}
         /\ \A u \in round.due : AgedOut(check[u])
         /\ \A u \in Owners : /\ round.view[u].misses <= check[u].misses
                              /\ round.view[u].flagged = check[u].flagged
    /\ \A u \in round.orphans \cup round.acting : check[u].misses = Grace
    /\ round.pc \in {"disable", "flag", "alert"} => round.orphans \cap round.acting = {}

AlertOK ==
    \A u \in Owners :
        /\ alerts[u] <= 1
        /\ alerts[u] = 1 =>
             /\ check[u].flagged
             /\ round.pc \in {"act", "disable", "flag", "alert"} => u \notin round.orphans
             /\ round.pc \in {"disable", "flag", "alert"} => u \notin round.acting
        /\ round.pc = "alert" /\ u \in round.acting => check[u].flagged

CutOK ==
    Action = "disable" =>
        /\ round.pc = "disable" /\ ~round.failed =>
             \A u \in round.acting : Active(u) \subseteq round.todo \cup reactivated
        /\ round.pc \in {"flag", "alert"} =>
             \A u \in round.acting : Active(u) \subseteq reactivated

IInv == TypeOK /\ CountsDays /\ RoundOK /\ AlertOK /\ CutOK

USE OffboardingAssumption

(* Full is a natural number, and the span of a full count of misses.       *)
LEMMA FullNat == Full \in Nat /\ NoRun = Full + 1 /\ Grace - 1 \in Nat
  <1>1. Grace - 1 \in Nat
    OBVIOUS
  <1>2. \A x, y \in Nat : x * y \in Nat
    OBVIOUS
  <1>3. QED
    BY <1>1, <1>2 DEF Full, NoRun

(* The first absence of a run spans no time.                               *)
LEMMA SpanFirst == \A f \in Nat : f >= Span(1, 0)
  BY FullNat DEF Span, AtMost

(* One more absence, a day or more after the last, and its row then.       *)
LEMMA SpanStep ==
  ASSUME NEW k \in Nat, k > 0, NEW age \in Nat, NEW f \in Nat, f >= Span(k, age)
  PROVE  /\ age >= Day => f >= Span(k + 1, 0)
         /\ f >= Span(k, 0)
         /\ (IF f < Full THEN f + 1 ELSE f) >= Span(k, AtMost(age + 1, Day))
         /\ k = Grace => f >= Full
  <1> DEFINE d == (k - 1) * Day
  <1>1. d \in Nat
    <2>1. k - 1 \in Nat
      OBVIOUS
    <2>2. \A x, y \in Nat : x * y \in Nat
      OBVIOUS
    <2>3. QED
      BY <2>1, <2>2
  <1>2. (k + 1 - 1) * Day = d + Day
    OBVIOUS
  <1>3. k = Grace => d = Full
    BY DEF Full
  <1>4. f >= AtMost(d + age, Full) /\ Span(k + 1, 0) = AtMost(d + Day + 0, Full)
    BY <1>2 DEF Span
  <1>5. \A a \in Nat : Span(k, a) = AtMost(d + a, Full)
    BY DEF Span
  <1>6. AtMost(age + 1, Day) \in Nat
    BY DEF AtMost
  <1> HIDE DEF d
  <1>7. age >= Day => f >= Span(k + 1, 0)
    BY <1>1, <1>4, FullNat DEF AtMost
  <1>8. f >= Span(k, 0)
    BY <1>1, <1>4, <1>5, FullNat DEF AtMost
  <1>9. (IF f < Full THEN f + 1 ELSE f) >= Span(k, AtMost(age + 1, Day))
    BY <1>1, <1>4, <1>5, <1>6, FullNat DEF AtMost
  <1>10. k = Grace => f >= Full
    BY <1>1, <1>3, <1>4, FullNat DEF AtMost
  <1>11. QED
    BY <1>7, <1>8, <1>9, <1>10

-----------------------------------------------------------------------------
(* The initial states.                                                     *)
LEMMA InitOK == Init => IInv
  <1> SUFFICES ASSUME Init PROVE IInv
    OBVIOUS
  <1>1. NoRun \in 0..NoRun /\ 0 \in 0..Grace /\ 0 \in 0..Day /\ 0 \in 0..MaxCrashes
    BY FullNat
  <1>2. NoCheck \in Row
    BY <1>1 DEF NoCheck, Row
  <1>3. NoRound \in Round
    BY <1>2 DEF NoRound, Round
  <1>4. TypeOK
    BY <1>1, <1>2, <1>3 DEF Init, TypeOK, Live
  <1>5. CountsDays
    BY DEF Init, CountsDays, NoCheck
  <1>6. RoundOK
    BY DEF Init, RoundOK, NoRound, NoCheck
  <1>7. AlertOK
    BY DEF Init, AlertOK, NoRound
  <1>8. CutOK
    BY DEF Init, CutOK, NoRound
  <1>9. QED
    BY <1>4, <1>5, <1>6, <1>7, <1>8 DEF IInv

-----------------------------------------------------------------------------
(* Steps that leave machines, rows, the round and the alerts alone.        *)
LEMMA SurroundingsOK ==
  ASSUME IInv, UNCHANGED <<status, check, round, absentFor, alerts, reactivated, crashes>>,
         present' \subseteq Owners, innocent' \subseteq Owners,
         directory' \in {"ok", "down", "broken"}
  PROVE  IInv'
  <1>1. TypeOK'
    BY DEF IInv, TypeOK
  <1>2. CountsDays' /\ RoundOK' /\ AlertOK' /\ CutOK'
    BY DEF IInv, CountsDays, RoundOK, AlertOK, CutOK, Active, MachinesOf
  <1>3. QED
    BY <1>1, <1>2 DEF IInv

(* A period passes: spans and ages grow together.                          *)
LEMMA TickOK == ASSUME IInv, Tick PROVE IInv'
  <1>1. ASSUME NEW u \in Owners
        PROVE  /\ check[u] \in Row /\ check[u].age \in 0..Day
               /\ AtMost(check[u].age + 1, Day) \in 0..Day
               /\ absentFor[u] \in 0..NoRun
               /\ (IF absentFor[u] < Full THEN absentFor[u] + 1 ELSE absentFor[u]) \in 0..NoRun
    BY FullNat DEF IInv, TypeOK, Row, AtMost
  <1>2. check' \in [Owners -> Row]
    <2>1. ASSUME NEW u \in Owners
          PROVE  [check[u] EXCEPT !.age = AtMost(@ + 1, Day)] \in Row
      BY <1>1 DEF Row
    <2>2. QED
      BY <1>1, <2>1 DEF Tick
  <1>3. absentFor' \in [Owners -> 0..NoRun]
    BY <1>1 DEF Tick
  <1>4. TypeOK'
    BY <1>2, <1>3 DEF IInv, TypeOK, Tick, history
  <1>5. ASSUME NEW u \in Owners
        PROVE  /\ check'[u].misses = check[u].misses /\ check'[u].flagged = check[u].flagged
               /\ check'[u].known = check[u].known
               /\ check[u].known => check'[u].age = AtMost(check[u].age + 1, Day)
    BY <1>1 DEF Tick, Row
  <1>6. CountsDays'
    <2> SUFFICES ASSUME NEW u \in Owners, check'[u].misses > 0
                 PROVE  /\ check'[u].known
                        /\ absentFor'[u] <= Full
                        /\ absentFor'[u] >= Span(check'[u].misses, check'[u].age)
      BY DEF CountsDays, Span
    <2> DEFINE k == check[u].misses
               a == check[u].age
               f == absentFor[u]
    <2>1. k \in Nat /\ k > 0 /\ a \in Nat /\ f \in Nat /\ f <= Full /\ f >= Span(k, a)
      BY <1>1, <1>5, FullNat DEF IInv, CountsDays, Row
    <2>2. absentFor'[u] = IF f < Full THEN f + 1 ELSE f
      BY DEF Tick
    <2>3. check'[u].known /\ check'[u].misses = k /\ check'[u].age = AtMost(a + 1, Day)
      BY <1>5, <2>1 DEF IInv, CountsDays
    <2> HIDE DEF k, a, f
    <2>4. absentFor'[u] <= Full
      BY <2>1, <2>2, FullNat
    <2>5. absentFor'[u] >= Span(k, AtMost(a + 1, Day))
      BY <2>1, <2>2, SpanStep
    <2>6. QED
      BY <2>3, <2>4, <2>5
  <1>7. round = NoRound /\ round' = round
    BY DEF IInv, RoundOK, Tick
  <1>8. RoundOK' /\ AlertOK' /\ CutOK'
    BY <1>5, <1>7 DEF IInv, RoundOK, AlertOK, CutOK, NoRound, Tick
  <1>9. QED
    BY <1>4, <1>6, <1>8 DEF IInv

(* An administrator or owner changes a machine.                            *)
LEMMA AdministerOK == ASSUME IInv, NEW m \in Machines, Administer(m) PROVE IInv'
  <1>a. PICK o \in Operations : SetStatus(m, o.from, o.to)
    BY DEF Administer
  <1>b. o.to \in Live \cup {"none"}
    BY DEF Operations, Live
  <1>1. PICK from, to :
           /\ to \in Live \cup {"none"}
           /\ SetStatus(m, from, to)
    BY <1>a, <1>b
  <1>2. TypeOK'
    BY <1>1 DEF IInv, TypeOK, SetStatus
  <1>3. CountsDays' /\ RoundOK' /\ AlertOK'
    BY <1>1 DEF IInv, CountsDays, RoundOK, AlertOK, SetStatus
  <1>4. \A u \in Owners : Active(u)' \subseteq Active(u) \cup {m}
    BY <1>1 DEF SetStatus, Active, MachinesOf, IInv, TypeOK
  <1>5. \A u \in Owners : Active(u)' \subseteq Active(u) \cup reactivated'
    BY <1>1 DEF SetStatus, Active, MachinesOf, IInv, TypeOK
  <1>6. reactivated \subseteq reactivated' /\ round' = round
    BY <1>1 DEF SetStatus
  <1>7. round.acting \subseteq Owners
    BY DEF IInv, TypeOK, Round
  <1>8. CutOK'
    BY <1>5, <1>6, <1>7 DEF IInv, CutOK
  <1>9. QED
    BY <1>2, <1>3, <1>8 DEF IInv

(* The round is over, or never began: what it held is gone.                *)
LEMMA RoundGone ==
  ASSUME IInv, round' = NoRound, CountsDays', TypeOK',
         \A u \in Owners : /\ alerts'[u] \in {0, alerts[u]}
                           /\ alerts'[u] = 1 => check'[u].flagged
  PROVE  IInv'
  <1>1. RoundOK'
    BY DEF RoundOK, NoRound
  <1>2. AlertOK'
    BY DEF IInv, AlertOK, NoRound
  <1>3. CutOK'
    BY DEF CutOK, NoRound
  <1>4. QED
    BY <1>1, <1>2, <1>3 DEF IInv

(* NoRound is a round.                                                     *)
LEMMA NoRoundType == NoRound \in Round
  <1>1. NoCheck \in Row
    BY DEF NoCheck, Row
  <1>2. QED
    BY <1>1 DEF NoRound, Round

LEMMA CrashOK == ASSUME IInv, Crash PROVE IInv'
  <1>1. TypeOK'
    BY NoRoundType DEF IInv, TypeOK, Crash, history
  <1>2. CountsDays' /\ \A u \in Owners : alerts'[u] = alerts[u] /\ check'[u] = check[u]
    BY DEF IInv, CountsDays, Crash, history
  <1>3. QED
    BY <1>1, <1>2, RoundGone DEF IInv, AlertOK, Crash

LEMMA PruneFailsOK == ASSUME IInv, PruneFails PROVE IInv'
  <1>1. TypeOK'
    BY NoRoundType DEF IInv, TypeOK, PruneFails, history
  <1>2. CountsDays' /\ \A u \in Owners : alerts'[u] = alerts[u] /\ check'[u] = check[u]
    BY DEF IInv, CountsDays, PruneFails, history
  <1>3. QED
    BY <1>1, <1>2, RoundGone DEF IInv, AlertOK, PruneFails

(* Pruned rows count nothing.                                              *)
LEMMA PruneOK == ASSUME IInv, Prune PROVE IInv'
  <1>1. NoCheck \in Row
    BY DEF NoCheck, Row
  <1>2. TypeOK'
    BY <1>1, NoRoundType DEF IInv, TypeOK, Prune
  <1>3. \A u \in Owners : \/ check'[u] = NoCheck /\ alerts'[u] = 0
                          \/ check'[u] = check[u] /\ alerts'[u] = alerts[u]
    BY DEF Prune
  <1>4. CountsDays'
    BY <1>3 DEF IInv, CountsDays, Prune, NoCheck, Span
  <1>5. round' = NoRound
    BY DEF Prune
  <1>6. QED
    BY <1>2, <1>3, <1>4, <1>5, RoundGone DEF IInv, AlertOK

-----------------------------------------------------------------------------
(* Steps of the round.                                                     *)
LEMMA StartRoundOK == ASSUME IInv, StartRound PROVE IInv'
  <1> DEFINE owners == {u \in Owners : MachinesOf(u) # {}}
             due == {u \in owners : AgedOut(check[u])}
             R == [NoRound EXCEPT !.pc = "refresh", !.owners = owners, !.view = check, !.due = due]
  <1>1. round' = R /\ UNCHANGED <<status, check, absentFor, alerts, reactivated>>
    BY DEF StartRound, history
  <1>2. owners \subseteq Owners /\ due \subseteq Owners /\ \A u \in due : AgedOut(check[u])
    OBVIOUS
  <1>3. check \in [Owners -> Row]
    BY DEF IInv, TypeOK
  <1> HIDE DEF owners, due
  <1>4. /\ R \in Round /\ R.pc = "refresh" /\ R.orphans = {} /\ R.acting = {}
        /\ R.view = check /\ R.due = due
    BY <1>2, <1>3, NoRoundType DEF Round, NoRound
  <1> HIDE DEF R
  <1>5. TypeOK'
    BY <1>1, <1>4 DEF IInv, TypeOK, StartRound, history
  <1>6. CountsDays'
    BY <1>1 DEF IInv, CountsDays
  <1>7. RoundOK'
    <2>1. \A u \in Owners : check[u].misses \in Nat
      BY <1>3 DEF Row
    <2>2. QED
      BY <1>1, <1>2, <1>4, <2>1 DEF RoundOK
  <1>8. AlertOK' /\ CutOK'
    BY <1>1, <1>4 DEF IInv, AlertOK, CutOK
  <1>9. QED
    BY <1>5, <1>6, <1>7, <1>8 DEF IInv

(* An owner seen again: the run of absences and its announcement end.      *)
LEMMA RecordPresentOK == ASSUME IInv, NEW u \in Owners, RecordPresent(u) PROVE IInv'
  <1>1. PresentRow \in Row
    BY DEF PresentRow, Row
  <1>2. round' \in Round
    BY <1>1 DEF IInv, TypeOK, RecordPresent, Round
  <1>3. TypeOK'
    BY <1>1, <1>2, FullNat DEF IInv, TypeOK, RecordPresent
  <1>4. CountsDays'
    BY DEF IInv, CountsDays, RecordPresent, PresentRow, TypeOK, Span
  <1>5. /\ round \in Round /\ check \in [Owners -> Row]
        /\ round.pc = "refresh" /\ round.orphans = {} /\ round.acting = {}
    BY DEF IInv, TypeOK, RoundOK, RecordPresent
  <1>6. /\ round'.pc = "refresh" /\ round'.orphans = {} /\ round'.acting = {}
        /\ round'.due = round.due \ {u}
        /\ round'.view = [round.view EXCEPT ![u] = PresentRow]
    BY <1>5 DEF RecordPresent, Round
  <1>7. round.view \in [Owners -> Row]
    BY <1>5 DEF Round
  <1>8. RoundOK'
    <2>1. check' = [check EXCEPT ![u] = PresentRow]
      BY DEF RecordPresent
    <2>2. /\ \A v \in round.due : AgedOut(check[v])
          /\ \A v \in Owners : /\ round.view[v].misses <= check[v].misses
                               /\ round.view[v].flagged = check[v].flagged
      BY <1>5 DEF IInv, RoundOK
    <2>3. \A v \in round'.due : AgedOut(check'[v])
      BY <1>5, <1>6, <2>1, <2>2 DEF Round
    <2>4. ASSUME NEW v \in Owners
          PROVE  /\ round'.view[v].misses <= check'[v].misses
                 /\ round'.view[v].flagged = check'[v].flagged
      <3>1. CASE v = u
        <4>1. round'.view[v] = PresentRow /\ check'[v] = PresentRow
          BY <1>5, <1>6, <1>7, <2>1, <3>1
        <4>2. QED
          BY <4>1 DEF PresentRow
      <3>2. CASE v # u
        <4>1. round'.view[v] = round.view[v] /\ check'[v] = check[v]
          BY <1>5, <1>6, <1>7, <2>1, <3>2
        <4>2. QED
          BY <2>2, <4>1
      <3>3. QED
        BY <3>1, <3>2
    <2>5. QED
      BY <1>6, <2>3, <2>4 DEF RoundOK
  <1>9. AlertOK' /\ CutOK'
    BY <1>6 DEF IInv, TypeOK, AlertOK, CutOK, RecordPresent
  <1>10. QED
    BY <1>3, <1>4, <1>8, <1>9 DEF IInv

(* One more absence: a day has passed since the last one counted.          *)
LEMMA RecordAbsentOK == ASSUME IInv, NEW u \in Owners, RecordAbsent(u) PROVE IInv'
  <1> DEFINE c == check[u]
             n == AbsentRow(c)
             f == absentFor[u]
  <1>1. c \in Row /\ c.misses \in 0..Grace /\ c.age \in Nat /\ f \in 0..NoRun
    BY DEF IInv, TypeOK, Row
  <1>2. n \in Row /\ n.known /\ n.age = 0 /\ n.flagged = c.flagged
        /\ n.misses = AtMost(c.misses + 1, Grace)
    BY <1>1 DEF AbsentRow, Row, AtMost
  <1>3. /\ round \in Round /\ check \in [Owners -> Row]
        /\ round.pc = "refresh" /\ round.orphans = {} /\ round.acting = {}
        /\ round.view \in [Owners -> Row] /\ AgedOut(c)
    BY DEF IInv, TypeOK, RoundOK, RecordAbsent, Round
  <1>4. check' = [check EXCEPT ![u] = n] /\ check' \in [Owners -> Row]
    BY <1>2, <1>3 DEF RecordAbsent
  <1> HIDE DEF n
  <1>5. \/ round' = [round EXCEPT !.due = @ \ {u}, !.view[u] = n]
        \/ round' = [round EXCEPT !.due = @ \ {u}]
    BY DEF RecordAbsent, n
  <1>6. /\ round' \in Round /\ round'.pc = "refresh" /\ round'.orphans = {}
        /\ round'.acting = {} /\ round'.due = round.due \ {u}
        /\ round'.view \in {[round.view EXCEPT ![u] = n], round.view}
    <2> DEFINE view == [round.view EXCEPT ![u] = n]
    <2>1. view \in [Owners -> Row]
      BY <1>2, <1>3
    <2>2. CASE round' = [round EXCEPT !.due = @ \ {u}]
      BY <1>3, <2>2 DEF Round
    <2>3. CASE round' = [round EXCEPT !.due = @ \ {u}, !.view[u] = n]
      <3>1. round' = [round EXCEPT !.due = @ \ {u}, !.view = view]
        BY <1>3, <2>3 DEF Round
      <3> HIDE DEF view
      <3>2. round' \in Round
        BY <1>3, <2>1, <3>1 DEF Round
      <3>3. QED
        BY <1>3, <3>1, <3>2 DEF Round, view
    <2>4. QED
      BY <1>5, <2>2, <2>3
  <1>7. absentFor' = [absentFor EXCEPT ![u] = IF f = NoRun THEN 0 ELSE f]
    BY DEF RecordAbsent
  <1>8. TypeOK'
    BY <1>1, <1>4, <1>6, <1>7, FullNat DEF IInv, TypeOK, RecordAbsent
  <1>9. CountsDays'
    <2>1. absentFor'[u] <= Full /\ absentFor'[u] \in Nat
      BY <1>1, <1>7, FullNat DEF IInv, TypeOK
    <2>2. absentFor'[u] >= Span(n.misses, 0)
      <3>1. CASE c.misses = 0
        <4>1. n.misses = 1
          BY <1>2, <3>1 DEF AtMost
        <4>2. QED
          BY <2>1, <4>1, SpanFirst
      <3>2. CASE c.misses > 0
        <4>1. f <= Full /\ f >= Span(c.misses, c.age) /\ c.known
          BY <3>2 DEF IInv, CountsDays
        <4>2. absentFor'[u] = f
          BY <1>1, <1>7, <4>1, FullNat DEF IInv, TypeOK
        <4>3. c.age >= Day
          BY <1>3, <4>1 DEF AgedOut
        <4>4. n.misses = c.misses + 1 \/ n.misses = c.misses
          BY <1>1, <1>2 DEF AtMost
        <4>5. c.misses \in Nat /\ f \in Nat
          BY <1>1, FullNat
        <4> HIDE DEF c, f
        <4>6. f >= Span(c.misses + 1, 0) /\ f >= Span(c.misses, 0)
          BY <1>1, <3>2, <4>1, <4>3, <4>5, SpanStep
        <4>7. QED
          BY <4>2, <4>4, <4>6
      <3>3. QED
        BY <1>1, <3>1, <3>2
    <2>3. QED
      BY <1>2, <1>3, <1>4, <1>7, <2>1, <2>2 DEF IInv, TypeOK, CountsDays
  <1>10. RoundOK'
    <2>1. n.misses >= c.misses /\ round.view[u].misses <= c.misses
      BY <1>1, <1>2, <1>3 DEF IInv, RoundOK, AtMost
    <2>2. ASSUME NEW v \in Owners
          PROVE  /\ round'.view[v].misses <= check'[v].misses
                 /\ round'.view[v].flagged = check'[v].flagged
      <3>1. round.view[v].misses <= check[v].misses /\ round.view[v].flagged = check[v].flagged
        BY <1>3 DEF IInv, RoundOK
      <3>2. n.misses \in Nat /\ round.view[v].misses \in Nat /\ round.view[u].misses \in Nat
        BY <1>2, <1>3 DEF Row
      <3>3. QED
        BY <1>1, <1>2, <1>3, <1>4, <1>6, <2>1, <3>1, <3>2
    <2>3. \A v \in round'.due : AgedOut(check'[v])
      BY <1>3, <1>4, <1>6 DEF IInv, RoundOK, Round
    <2>4. QED
      BY <1>6, <2>2, <2>3 DEF RoundOK
  <1>11. AlertOK' /\ CutOK'
    BY <1>2, <1>3, <1>4, <1>6 DEF IInv, AlertOK, CutOK, RecordAbsent
  <1>12. QED
    BY <1>8, <1>9, <1>10, <1>11 DEF IInv

(* An owner nothing was learnt about.                                      *)
LEMMA SkipOwnerOK == ASSUME IInv, NEW u \in Owners, SkipOwner(u) PROVE IInv'
  <1>1. round \in Round /\ round' = [round EXCEPT !.due = @ \ {u}] /\ round.pc = "refresh"
    BY DEF IInv, TypeOK, SkipOwner
  <1>2. round' \in Round /\ round'.due = round.due \ {u}
    BY <1>1 DEF Round
  <1>3. /\ round'.pc = round.pc /\ round'.orphans = round.orphans
        /\ round'.acting = round.acting /\ round'.view = round.view
    BY <1>1 DEF Round
  <1>4. TypeOK'
    BY <1>2 DEF IInv, TypeOK, SkipOwner, history
  <1>5. CountsDays'
    BY DEF IInv, CountsDays, SkipOwner, history
  <1>6. RoundOK'
    BY <1>1, <1>2, <1>3 DEF IInv, RoundOK, SkipOwner
  <1>7. AlertOK' /\ CutOK'
    BY <1>1, <1>3 DEF IInv, AlertOK, CutOK, SkipOwner, history
  <1>8. QED
    BY <1>4, <1>5, <1>6, <1>7 DEF IInv

(* Acting needs the full count in the round's rows, hence in the table.    *)
LEMMA DecideOK == ASSUME IInv, Decide PROVE IInv'
  <1> DEFINE O == {u \in PastGrace(round) : ~round.view[u].flagged}
  <1>1. UNCHANGED <<status, check, absentFor, alerts, reactivated>>
    BY DEF Decide, history
  <1>2. CountsDays'
    BY <1>1 DEF IInv, CountsDays
  <1>3. CASE round' = NoRound
    <2>1. TypeOK'
      BY <1>3, NoRoundType DEF IInv, TypeOK, Decide, history
    <2>2. QED
      BY <1>1, <1>2, <1>3, <2>1, RoundGone DEF IInv, AlertOK
  <1>4. CASE round' = [round EXCEPT !.pc = "act", !.orphans = O]
    <2>1. /\ round \in Round /\ round.acting = {} /\ round.view \in [Owners -> Row]
          /\ round.owners \subseteq Owners
      BY DEF IInv, TypeOK, RoundOK, Decide, Round
    <2>2. O \subseteq Owners
      BY <2>1 DEF PastGrace
    <2>3. \A u \in O : check[u].misses = Grace /\ ~check[u].flagged
      <3>1. ASSUME NEW u \in O PROVE check[u].misses = Grace /\ ~check[u].flagged
        <4>1. u \in Owners /\ round.view[u].misses >= Grace /\ ~round.view[u].flagged
          BY <2>1 DEF PastGrace
        <4>2. round.view[u].misses <= check[u].misses /\ round.view[u].flagged = check[u].flagged
          BY <4>1 DEF IInv, RoundOK, Decide
        <4>3. check[u].misses \in 0..Grace /\ round.view[u].misses \in 0..Grace
          BY <2>1, <4>1 DEF IInv, TypeOK, Row
        <4>4. QED
          BY <4>1, <4>2, <4>3
      <3>2. QED
        BY <3>1
    <2> HIDE DEF O
    <2>4. round' \in Round /\ round'.pc = "act" /\ round'.orphans = O /\ round'.acting = {}
      BY <1>4, <2>1, <2>2 DEF Round
    <2>5. TypeOK'
      BY <2>4 DEF IInv, TypeOK, Decide, history
    <2>6. RoundOK'
      BY <1>1, <2>3, <2>4 DEF RoundOK
    <2>7. AlertOK' /\ CutOK'
      BY <1>1, <2>3, <2>4 DEF IInv, AlertOK, CutOK
    <2>8. QED
      BY <1>2, <2>5, <2>6, <2>7 DEF IInv
  <1>5. QED
    BY <1>3, <1>4 DEF Decide

(* The turn of one orphan begins: all its active machines are to be done.  *)
LEMMA ListMachinesOK == ASSUME IInv, NEW u \in Owners, ListMachines(u) PROVE IInv'
  <1> DEFINE A == Active(u)
  <1>1. /\ round \in Round /\ round.pc = "act" /\ u \in round.orphans
        /\ UNCHANGED <<status, check, absentFor, alerts>> /\ reactivated' = {}
    BY DEF IInv, TypeOK, ListMachines
  <1>2. A \subseteq Machines
    BY DEF Active, MachinesOf
  <1> HIDE DEF A
  <1>3. /\ round' \in Round /\ round'.orphans = round.orphans \ {u} /\ round'.acting = {u}
        /\ \/ /\ Action = "disable" /\ round'.pc = "disable" /\ round'.todo = A
           \/ Action # "disable" /\ round'.pc = "flag"
    <2>1. CASE Action = "disable"
      <3>1. round' = [round EXCEPT !.pc = "disable", !.acting = {u}, !.todo = A,
                                   !.orphans = @ \ {u}, !.failed = FALSE]
        BY <2>1 DEF ListMachines, A
      <3>2. QED
        BY <1>1, <1>2, <2>1, <3>1 DEF Round
    <2>2. CASE Action # "disable"
      <3>1. round' = [round EXCEPT !.pc = "flag", !.acting = {u}, !.orphans = @ \ {u}]
        BY <2>2 DEF ListMachines
      <3>2. QED
        BY <1>1, <2>2, <3>1 DEF Round
    <2>3. QED
      BY <2>1, <2>2
  <1>4. TypeOK'
    BY <1>3 DEF IInv, TypeOK, ListMachines
  <1>5. CountsDays'
    BY <1>1 DEF IInv, CountsDays
  <1>6. RoundOK'
    BY <1>1, <1>3 DEF IInv, RoundOK
  <1>7. AlertOK'
    BY <1>1, <1>3 DEF IInv, AlertOK
  <1>8. CutOK'
    <2>1. Active(u)' = A
      BY <1>1 DEF A, Active, MachinesOf
    <2>2. QED
      BY <1>3, <2>1 DEF CutOK
  <1>9. QED
    BY <1>4, <1>5, <1>6, <1>7, <1>8 DEF IInv

LEMMA ListFailsOK == ASSUME IInv, NEW u \in Owners, ListFails(u) PROVE IInv'
  <1>1. /\ round \in Round /\ round' = [round EXCEPT !.orphans = @ \ {u}] /\ round.pc = "act"
        /\ UNCHANGED <<status, check, absentFor, alerts, reactivated>>
    BY DEF IInv, TypeOK, ListFails, history
  <1>2. /\ round' \in Round /\ round'.orphans = round.orphans \ {u}
        /\ round'.pc = "act" /\ round'.acting = round.acting
    BY <1>1 DEF Round
  <1>3. TypeOK'
    BY <1>2 DEF IInv, TypeOK, ListFails, history
  <1>4. CountsDays'
    BY <1>1 DEF IInv, CountsDays
  <1>5. RoundOK' /\ AlertOK' /\ CutOK'
    BY <1>1, <1>2 DEF IInv, RoundOK, AlertOK, CutOK
  <1>6. QED
    BY <1>3, <1>4, <1>5 DEF IInv

(* A machine of the list goes out of service and off the list.             *)
LEMMA DisableMachineOK == ASSUME IInv, NEW m \in Machines, DisableMachine(m) PROVE IInv'
  <1>1. /\ round \in Round /\ round' = [round EXCEPT !.todo = @ \ {m}] /\ round.pc = "disable"
        /\ UNCHANGED <<check, absentFor, alerts, reactivated>>
        /\ status \in [Machines -> Live \cup {"none"}]
    BY DEF IInv, TypeOK, DisableMachine, history
  <1>2. /\ round' \in Round /\ round'.todo = round.todo \ {m} /\ round'.pc = "disable"
        /\ round'.orphans = round.orphans /\ round'.acting = round.acting
        /\ round'.failed = round.failed
    BY <1>1 DEF Round
  <1>3. status' = [status EXCEPT ![m] = IF status[m] = "none" THEN "none" ELSE "disabled"]
    BY <1>1 DEF DisableMachine
  <1>4. TypeOK'
    BY <1>1, <1>2, <1>3 DEF IInv, TypeOK, DisableMachine, history, Live
  <1>5. CountsDays'
    BY <1>1 DEF IInv, CountsDays
  <1>6. RoundOK' /\ AlertOK'
    BY <1>1, <1>2 DEF IInv, RoundOK, AlertOK
  <1>7. ASSUME NEW u \in Owners PROVE Active(u)' \subseteq Active(u) \ {m}
    BY <1>1, <1>3 DEF Active, MachinesOf, Live
  <1>8. round.acting \subseteq Owners
    BY <1>1 DEF Round
  <1>9. CutOK'
    BY <1>1, <1>2, <1>7, <1>8 DEF IInv, CutOK
  <1>10. QED
    BY <1>4, <1>5, <1>6, <1>9 DEF IInv

LEMMA DisableFailsOK == ASSUME IInv, NEW m \in Machines, DisableFails(m) PROVE IInv'
  <1>1. /\ round \in Round /\ round' = [round EXCEPT !.todo = @ \ {m}, !.failed = TRUE]
        /\ round.pc = "disable"
        /\ UNCHANGED <<status, check, absentFor, alerts, reactivated>>
    BY DEF IInv, TypeOK, DisableFails, history
  <1>2. /\ round' \in Round /\ round'.pc = "disable" /\ round'.failed
        /\ round'.orphans = round.orphans /\ round'.acting = round.acting
    BY <1>1 DEF Round
  <1>3. TypeOK'
    BY <1>2 DEF IInv, TypeOK, DisableFails, history
  <1>4. CountsDays'
    BY <1>1 DEF IInv, CountsDays
  <1>5. RoundOK' /\ AlertOK' /\ CutOK'
    BY <1>1, <1>2 DEF IInv, RoundOK, AlertOK, CutOK
  <1>6. QED
    BY <1>3, <1>4, <1>5 DEF IInv

(* The list is done: with a failure the owner waits for the next round.    *)
LEMMA EndDisablingOK == ASSUME IInv, EndDisabling PROVE IInv'
  <1> DEFINE pc == IF round.failed THEN "act" ELSE "flag"
  <1>1. /\ round \in Round /\ round' = [round EXCEPT !.pc = pc]
        /\ round.pc = "disable" /\ round.todo = {}
        /\ UNCHANGED <<status, check, absentFor, alerts, reactivated>>
    BY DEF IInv, TypeOK, EndDisabling, history
  <1>2. /\ round' \in Round /\ round'.pc = pc
        /\ round'.orphans = round.orphans /\ round'.acting = round.acting
    BY <1>1 DEF Round
  <1>3. TypeOK'
    BY <1>2 DEF IInv, TypeOK, EndDisabling, history
  <1>4. CountsDays'
    BY <1>1 DEF IInv, CountsDays
  <1>5. RoundOK' /\ AlertOK'
    BY <1>1, <1>2 DEF IInv, RoundOK, AlertOK
  <1>6. \A u \in Owners : Active(u)' = Active(u)
    BY <1>1 DEF Active, MachinesOf
  <1>7. round.acting \subseteq Owners
    BY <1>1 DEF Round
  <1>8. CutOK'
    BY <1>1, <1>2, <1>6, <1>7 DEF IInv, CutOK
  <1>9. QED
    BY <1>3, <1>4, <1>5, <1>8 DEF IInv

(* The flag keeps the owner out of later rounds.                           *)
LEMMA FlagOwnerOK == ASSUME IInv, FlagOwner PROVE IInv'
  <1>1. /\ round \in Round /\ round' = [round EXCEPT !.pc = "alert"] /\ round.pc = "flag"
        /\ UNCHANGED <<status, absentFor, alerts, reactivated>>
        /\ check \in [Owners -> Row]
    BY DEF IInv, TypeOK, FlagOwner, history
  <1>2. /\ round' \in Round /\ round'.pc = "alert"
        /\ round'.orphans = round.orphans /\ round'.acting = round.acting
    BY <1>1 DEF Round
  <1>3. ASSUME NEW u \in Owners
        PROVE  /\ check'[u] \in Row /\ check'[u].known = check[u].known
               /\ check'[u].misses = check[u].misses /\ check'[u].age = check[u].age
               /\ check[u].flagged => check'[u].flagged
               /\ u \in round.acting /\ check[u].known => check'[u].flagged
    <2> DEFINE c == check[u]
    <2>1. c \in Row
      BY <1>1
    <2>2. check'[u] = IF u \in round.acting /\ c.known THEN [c EXCEPT !.flagged = TRUE] ELSE c
      BY DEF FlagOwner
    <2> HIDE DEF c
    <2>3. QED
      BY <2>1, <2>2 DEF Row, c
  <1>4. check' \in [Owners -> Row]
    <2>1. DOMAIN check' = Owners /\ check' = [u \in Owners |-> check'[u]]
      BY DEF FlagOwner
    <2>2. QED
      BY <1>3, <2>1
  <1>5. TypeOK'
    BY <1>2, <1>4 DEF IInv, TypeOK, FlagOwner, history
  <1>6. CountsDays'
    BY <1>1, <1>3 DEF IInv, CountsDays
  <1>7. round.acting \subseteq Owners /\ round.orphans \subseteq Owners
    BY <1>1 DEF Round
  <1>8. RoundOK'
    BY <1>1, <1>2, <1>3, <1>7 DEF IInv, RoundOK
  <1>9. \A u \in round.acting : check[u].known
    BY <1>7 DEF IInv, RoundOK, CountsDays
  <1>10. AlertOK'
    BY <1>1, <1>2, <1>3, <1>9 DEF IInv, AlertOK
  <1>11. CutOK'
    BY <1>1, <1>2 DEF IInv, CutOK, Active, MachinesOf
  <1>12. QED
    BY <1>5, <1>6, <1>8, <1>10, <1>11 DEF IInv

LEMMA FlagFailsOK == ASSUME IInv, FlagFails PROVE IInv'
  <1>1. /\ round \in Round /\ round' = [round EXCEPT !.pc = "act", !.acting = {}]
        /\ round.pc = "flag"
        /\ UNCHANGED <<status, check, absentFor, alerts, reactivated>>
    BY DEF IInv, TypeOK, FlagFails, history
  <1>2. /\ round' \in Round /\ round'.pc = "act"
        /\ round'.orphans = round.orphans /\ round'.acting = {}
    BY <1>1 DEF Round
  <1>3. TypeOK'
    BY <1>2 DEF IInv, TypeOK, FlagFails, history
  <1>4. CountsDays'
    BY <1>1 DEF IInv, CountsDays
  <1>5. RoundOK' /\ AlertOK' /\ CutOK'
    BY <1>1, <1>2 DEF IInv, RoundOK, AlertOK, CutOK
  <1>6. QED
    BY <1>3, <1>4, <1>5 DEF IInv

(* The announcement: the owner had none in this absence, and is flagged.   *)
LEMMA PostAlertOK == ASSUME IInv, PostAlert PROVE IInv'
  <1>1. /\ round \in Round /\ round' = [round EXCEPT !.pc = "act", !.acting = {}]
        /\ round.pc = "alert" /\ UNCHANGED <<status, check, absentFor, reactivated>>
        /\ alerts' = [u \in Owners |-> IF u \in round.acting THEN alerts[u] + 1 ELSE alerts[u]]
        /\ alerts \in [Owners -> Nat]
    BY DEF IInv, TypeOK, PostAlert
  <1>2. /\ round' \in Round /\ round'.pc = "act"
        /\ round'.orphans = round.orphans /\ round'.acting = {}
    BY <1>1 DEF Round
  <1>3. TypeOK'
    BY <1>1, <1>2 DEF IInv, TypeOK, PostAlert
  <1>4. CountsDays' /\ RoundOK' /\ CutOK'
    BY <1>1, <1>2 DEF IInv, CountsDays, RoundOK, CutOK
  <1>5. AlertOK'
    <2> SUFFICES ASSUME NEW u \in Owners
                 PROVE  alerts'[u] <= 1 /\ (alerts'[u] = 1 => check[u].flagged /\ u \notin round.orphans)
      BY <1>1, <1>2 DEF AlertOK
    <2>1. alerts[u] \in Nat /\ alerts[u] <= 1
      BY <1>1 DEF IInv, AlertOK
    <2>2. CASE u \in round.acting
      <3>1. alerts[u] = 0 /\ check[u].flagged
        BY <1>1, <2>1, <2>2 DEF IInv, AlertOK
      <3>2. u \notin round.orphans
        BY <1>1, <2>2 DEF IInv, RoundOK
      <3>3. QED
        BY <1>1, <2>2, <3>1, <3>2
    <2>3. CASE u \notin round.acting
      BY <1>1, <2>1, <2>3 DEF IInv, AlertOK
    <2>4. QED
      BY <2>2, <2>3
  <1>6. QED
    BY <1>3, <1>4, <1>5 DEF IInv

-----------------------------------------------------------------------------
(* Every step preserves the invariant.                                     *)
LEMMA NextOK == IInv /\ [Next]_vars => IInv'
  <1> SUFFICES ASSUME IInv, [Next]_vars PROVE IInv'
    OBVIOUS
  <1>1. CASE RoundStep
    BY <1>1, StartRoundOK, DecideOK, EndDisablingOK, FlagOwnerOK, FlagFailsOK, PostAlertOK,
       PruneOK, PruneFailsOK, RecordPresentOK, RecordAbsentOK, SkipOwnerOK, ListMachinesOK,
       ListFailsOK, DisableMachineOK, DisableFailsOK DEF RoundStep
  <1>2. CASE \E u \in Owners : Leave(u) \/ Return(u)
    BY <1>2, SurroundingsOK DEF Leave, Return, history, IInv, TypeOK
  <1>3. CASE \E d \in Directories : ChangeDirectory(d)
    BY <1>3, SurroundingsOK DEF ChangeDirectory, IInv, TypeOK
  <1>4. CASE UNCHANGED vars
    BY <1>4, SurroundingsOK DEF vars, IInv, TypeOK
  <1>5. QED
    BY <1>1, <1>2, <1>3, <1>4, TickOK, CrashOK, AdministerOK DEF Next

LEMMA Inductive == Spec => []IInv
  <1>1. QED
    BY InitOK, NextOK, PTL DEF Spec

(* For every number of owners and machines, every grace period and every   *)
(* check interval: nobody is cut off before the grace period of answers.   *)
THEOREM NeverHasty == Spec => []NoHastyCut
  <1>1. IInv => NoHastyCut
    <2> SUFFICES ASSUME IInv, round.pc \in {"disable", "flag", "alert"}, NEW u \in round.acting
                 PROVE  absentFor[u] = Full
      BY DEF NoHastyCut
    <2>1. u \in Owners /\ check[u].misses = Grace
      BY DEF IInv, TypeOK, Round, RoundOK
    <2> DEFINE a == check[u].age
               f == absentFor[u]
    <2>2. a \in Nat /\ f \in Nat /\ f <= Full /\ f >= Span(Grace, a)
      BY <2>1, FullNat DEF IInv, TypeOK, CountsDays, Row
    <2> HIDE DEF a, f
    <2>3. Grace \in Nat /\ Grace > 0
      OBVIOUS
    <2>4. f >= Full
      BY <2>2, <2>3, SpanStep
    <2>5. QED
      BY <2>2, <2>4, FullNat DEF f
  <1>2. QED
    BY <1>1, Inductive, PTL

(* The announcement of a cut-off is true when it is made.                  *)
THEOREM AnnouncesDoneWork == Spec => []AnnouncedCut
  <1>1. IInv => AnnouncedCut
    BY DEF IInv, CutOK, AnnouncedCut
  <1>2. QED
    BY <1>1, Inductive, PTL

(* One announcement for one absence, whatever fails or crashes.            *)
THEOREM AnnouncesOnce == Spec => []AlertOnce
  <1>1. IInv => AlertOnce
    BY DEF IInv, AlertOK, AlertOnce
  <1>2. QED
    BY <1>1, Inductive, PTL

-----------------------------------------------------------------------------
(* A directory that breaks.                                                *)

(* The owners whose last answer was that they are there.                   *)
Standing(v) == check[v].known /\ check[v].misses = 0

(* The directory broke during this round: it has had one bad answer for an *)
(* innocent owner at most.                                                 *)
BrokeLate == \A u \in innocent : check[u].misses = 0 \/ (check[u].misses = 1 /\ u \notin round.due)

(* Who corroborates in this round was asked not long ago.                  *)
AskedLately ==
    \A v \in round.owners \ round.due :
        round.view[v].known /\ round.view[v].misses = 0 => Standing(v) /\ check[v].age < Day

(* Since the directory broke nobody was recorded as present: a first bad   *)
(* answer is younger than any good one, and by the second one all of them  *)
(* have aged out.                                                          *)
HarmlessInv ==
    /\ \A u \in Owners : check[u].misses = 0 => ~check[u].flagged
    /\ innocent # {} => directory = "broken"
    /\ \A u \in innocent : ~check[u].flagged /\ u \notin round.orphans \cup round.acting
    /\ \A u \in innocent, v \in Owners : Standing(v) =>
          /\ check[u].misses = 1 => check[v].age >= check[u].age
          /\ check[u].misses > 1 => check[v].age = Day
    /\ round.pc = "refresh" => BrokeLate \/ AskedLately

(* The types of what the invariant speaks of.                              *)
LEMMA HarmlessTypes ==
  ASSUME IInv
  PROVE  /\ round \in Round /\ innocent \subseteq Owners /\ check \in [Owners -> Row]
         /\ round.view \in [Owners -> Row] /\ round.owners \subseteq Owners
         /\ \A u \in Owners : check[u].misses \in Nat /\ check[u].age \in Nat /\ check[u].age <= Day
                              /\ check[u].misses <= Grace
         /\ \A u \in Owners : round.view[u].misses \in Nat
  BY DEF IInv, TypeOK, Round, Row

(* Steps that write no row, nor start or continue with the questions.      *)
LEMMA HarmlessQuiet ==
  ASSUME IInv, HarmlessInv, check' = check, innocent' \subseteq innocent,
         innocent' # {} => directory' = directory,
         round'.orphans \cup round'.acting \subseteq round.orphans \cup round.acting,
         round'.pc = "refresh" => round' = round \/ innocent' = {}
  PROVE  HarmlessInv'
  BY DEF HarmlessInv, BrokeLate, AskedLately, Standing

(* Crashes, owners and administrators ask the directory nothing.           *)
LEMMA HarmlessElsewhere ==
  ASSUME IInv, HarmlessInv,
         \/ Crash \/ UNCHANGED vars
         \/ \E u \in Owners : Leave(u) \/ Return(u)
         \/ \E m \in Machines : Administer(m)
  PROVE  HarmlessInv'
  <1>1. check' = check /\ innocent' = innocent /\ directory' = directory
    BY DEF Crash, Leave, Return, Administer, SetStatus, vars, history
  <1>2. round' = round \/ round' = NoRound
    BY DEF Crash, Leave, Return, Administer, SetStatus, vars
  <1>3. QED
    BY <1>1, <1>2, HarmlessQuiet DEF NoRound

(* Nor do the writes and alerts of a round that has decided.               *)
LEMMA HarmlessActing ==
  ASSUME IInv, HarmlessInv,
         \/ EndDisabling \/ FlagFails \/ PostAlert \/ PruneFails
         \/ \E u \in Owners : SkipOwner(u) \/ ListMachines(u) \/ ListFails(u)
         \/ \E m \in Machines : DisableMachine(m) \/ DisableFails(m)
  PROVE  HarmlessInv'
  <1>1. round \in Round
    BY HarmlessTypes
  <1>2. /\ check' = check /\ innocent' \subseteq innocent /\ directory' = directory
    BY DEF EndDisabling, FlagFails, PostAlert, PruneFails, SkipOwner, ListMachines, ListFails,
           DisableMachine, DisableFails, history
  <1>3. CASE EndDisabling
    BY <1>1, <1>2, <1>3, HarmlessQuiet DEF EndDisabling, Round
  <1>4. CASE FlagFails \/ PostAlert
    BY <1>1, <1>2, <1>4, HarmlessQuiet DEF FlagFails, PostAlert, Round
  <1>5. CASE PruneFails
    BY <1>1, <1>2, <1>5, HarmlessQuiet DEF PruneFails, NoRound
  <1>6. ASSUME NEW u \in Owners, SkipOwner(u) PROVE HarmlessInv'
    BY <1>1, <1>2, <1>6, HarmlessQuiet DEF SkipOwner, Round
  <1>7. ASSUME NEW u \in Owners, ListMachines(u) PROVE HarmlessInv'
    BY <1>1, <1>2, <1>7, HarmlessQuiet DEF ListMachines, Round
  <1>8. ASSUME NEW u \in Owners, ListFails(u) PROVE HarmlessInv'
    BY <1>1, <1>2, <1>8, HarmlessQuiet DEF ListFails, Round
  <1>9. ASSUME NEW m \in Machines, DisableMachine(m) \/ DisableFails(m) PROVE HarmlessInv'
    BY <1>1, <1>2, <1>9, HarmlessQuiet DEF DisableMachine, DisableFails, Round
  <1>10. QED
    BY <1>3, <1>4, <1>5, <1>6, <1>7, <1>8, <1>9

(* A period passes for good and bad answers alike.                         *)
LEMMA HarmlessTick == ASSUME IInv, HarmlessInv, Tick PROVE HarmlessInv'
  <1>1. /\ innocent' = innocent /\ directory' = directory /\ round' = round /\ round.pc = "idle"
    BY DEF Tick
  <1>2. \A u \in Owners :
           /\ check'[u].known = check[u].known /\ check'[u].misses = check[u].misses
           /\ check'[u].flagged = check[u].flagged
           /\ check[u].known => check'[u].age = AtMost(check[u].age + 1, Day)
    BY HarmlessTypes DEF Tick, Row
  <1>3. ASSUME NEW u \in innocent, NEW v \in Owners, Standing(v)'
        PROVE  /\ check'[u].misses = 1 => check'[v].age >= check'[u].age
               /\ check'[u].misses > 1 => check'[v].age = Day
    <2>1. u \in Owners /\ check[v].known /\ check[v].misses = 0
      BY <1>2, <1>3, HarmlessTypes DEF Standing
    <2>2. check[u].misses > 0 => check[u].known
      BY <2>1 DEF IInv, CountsDays
    <2> DEFINE a == check[u].age
               b == check[v].age
    <2>3. a \in Nat /\ b \in Nat /\ check[u].misses \in Nat
      BY <2>1, HarmlessTypes
    <2>4. /\ check[u].misses = 1 => b >= a
          /\ check[u].misses > 1 => b = Day
      BY <2>1 DEF HarmlessInv, Standing
    <2>5. /\ check[u].misses > 0 => check'[u].age = AtMost(a + 1, Day)
          /\ check'[v].age = AtMost(b + 1, Day) /\ check'[u].misses = check[u].misses
      BY <1>2, <2>1, <2>2
    <2> HIDE DEF a, b
    <2>6. QED
      BY <2>3, <2>4, <2>5 DEF AtMost
  <1>4. QED
    BY <1>1, <1>2, <1>3, HarmlessTypes DEF HarmlessInv

(* When the directory breaks, the innocent have no absence recorded.       *)
LEMMA HarmlessChange == ASSUME IInv, HarmlessInv, NEW d \in Directories, ChangeDirectory(d) PROVE HarmlessInv'
  <1>1. /\ check' = check /\ round' = round
        /\ innocent' # {} => directory' = "broken"
        /\ \A u \in innocent' : u \in Owners /\ check[u].misses = 0
    BY DEF ChangeDirectory, IInv, TypeOK
  <1>2. \A u \in round.orphans \cup round.acting : check[u].misses > 0
    BY DEF IInv, RoundOK
  <1>3. BrokeLate'
    BY <1>1 DEF BrokeLate
  <1>4. QED
    BY <1>1, <1>2, <1>3 DEF HarmlessInv, Standing

(* A round asks about the owners whose answers have aged out.              *)
LEMMA HarmlessStart == ASSUME IInv, HarmlessInv, StartRound PROVE HarmlessInv'
  <1>1. /\ check' = check /\ innocent' = innocent /\ directory' = directory
        /\ round'.orphans = {} /\ round'.acting = {} /\ round'.view = check
        /\ round'.due = {u \in round'.owners : AgedOut(check[u])} /\ round'.owners \subseteq Owners
    BY DEF StartRound, NoRound, history
  <1>2. AskedLately'
    <2> SUFFICES ASSUME NEW v \in round'.owners \ round'.due, check[v].known, check[v].misses = 0
                 PROVE  Standing(v)' /\ check'[v].age < Day
      BY <1>1 DEF AskedLately
    <2>1. ~AgedOut(check[v]) /\ check[v].age \in Nat
      BY <1>1, HarmlessTypes
    <2>2. QED
      BY <1>1, <2>1 DEF AgedOut, Standing
  <1>3. QED
    BY <1>1, <1>2 DEF HarmlessInv, Standing

(* Nobody is recorded as present by a broken directory.                    *)
LEMMA HarmlessPresent == ASSUME IInv, HarmlessInv, NEW u \in Owners, RecordPresent(u) PROVE HarmlessInv'
  <1>1. directory # "broken" /\ innocent' = innocent /\ innocent = {}
    BY DEF RecordPresent, Answer, HarmlessInv
  <1>2. \A v \in Owners : check'[v] = PresentRow \/ check'[v] = check[v]
    BY HarmlessTypes DEF RecordPresent
  <1>3. QED
    BY <1>1, <1>2 DEF HarmlessInv, BrokeLate, PresentRow

(* An absence is recorded of an owner whose last answer has aged out, and  *)
(* so has every older good one.                                            *)
LEMMA HarmlessAbsent == ASSUME IInv, HarmlessInv, NEW w \in Owners, RecordAbsent(w) PROVE HarmlessInv'
  <1> DEFINE n == AbsentRow(check[w])
  <1>1. /\ n.known /\ n.age = 0 /\ n.flagged = check[w].flagged
        /\ n.misses = AtMost(check[w].misses + 1, Grace)
    BY DEF AbsentRow
  <1>2. check' = [check EXCEPT ![w] = n] /\ directory' = directory
    BY DEF RecordAbsent
  <1>3. n.misses > 0 /\ n.misses \in Nat /\ (n.misses = 1 \/ check[w].misses > 0)
    <2>1. check[w].misses \in Nat /\ Grace \in Nat /\ Grace > 0
      BY HarmlessTypes
    <2>2. QED
      BY <1>1, <2>1 DEF AtMost
  <1> HIDE DEF n
  <1>4. check'[w] = n /\ \A v \in Owners \ {w} : check'[v] = check[v]
    BY <1>2, HarmlessTypes
  <1>5. round.pc = "refresh" /\ w \in round.due /\ round.orphans = {} /\ round.acting = {}
        /\ AgedOut(check[w])
    BY DEF RecordAbsent, IInv, RoundOK
  <1>6. /\ round'.orphans = {} /\ round'.acting = {} /\ round'.owners = round.owners
        /\ round'.due = round.due \ {w}
        /\ \/ innocent' = {}
           \/ innocent' = innocent /\ round'.view = [round.view EXCEPT ![w] = n]
    BY <1>5, HarmlessTypes DEF RecordAbsent, Round, n
  <1>7. \A u \in Owners : check'[u].misses = 0 => ~check'[u].flagged
    BY <1>3, <1>4 DEF HarmlessInv
  <1>8. CASE innocent' = {}
    BY <1>6, <1>7, <1>8 DEF HarmlessInv, BrokeLate
  <1>9. CASE innocent' = innocent /\ round'.view = [round.view EXCEPT ![w] = n]
    <2>1. \A u \in innocent : ~check'[u].flagged
      BY <1>1, <1>4, HarmlessTypes DEF HarmlessInv
    <2>2. ASSUME NEW u \in innocent, NEW v \in Owners, Standing(v)'
          PROVE  /\ check'[u].misses = 1 => check'[v].age >= check'[u].age
                 /\ check'[u].misses > 1 => check'[v].age = Day
      <3>1. v # w /\ Standing(v) /\ check'[v] = check[v] /\ u \in Owners
        BY <1>3, <1>4, <2>2, HarmlessTypes DEF Standing
      <3>2. CASE u # w
        BY <1>4, <3>1, <3>2 DEF HarmlessInv
      <3>3. CASE u = w
        <4> DEFINE a == check[w].age
                   b == check[v].age
                   k == check[w].misses
        <4>1. a \in Nat /\ b \in Nat /\ k \in Nat /\ b <= Day /\ Day \in Nat
          BY HarmlessTypes
        <4>2. k > 0 => a >= Day
          BY <1>5 DEF IInv, CountsDays, AgedOut
        <4>3. (k = 1 => b >= a) /\ (k > 1 => b = Day)
          BY <3>1, <3>3 DEF HarmlessInv
        <4> HIDE DEF a, b, k
        <4>4. k > 0 => b = Day
          BY <4>1, <4>2, <4>3
        <4>5. QED
          BY <1>1, <1>3, <1>4, <3>1, <3>3, <4>1, <4>4 DEF a, b, k
      <3>4. QED
        BY <3>2, <3>3
    <2>3. BrokeLate => BrokeLate'
      <3> SUFFICES ASSUME BrokeLate, NEW u \in innocent
                   PROVE  check'[u].misses = 0 \/ (check'[u].misses = 1 /\ u \notin round'.due)
        BY <1>9 DEF BrokeLate
      <3>1. CASE u # w
        BY <1>4, <1>6, <3>1, HarmlessTypes DEF BrokeLate
      <3>2. CASE u = w
        <4>1. check[w].misses = 0
          BY <1>5, <3>2 DEF BrokeLate
        <4>2. n.misses = 1
          BY <1>3, <4>1
        <4>3. QED
          BY <1>4, <1>6, <3>2, <4>2
      <3>3. QED
        BY <3>1, <3>2
    <2>4. AskedLately => AskedLately'
      BY <1>3, <1>4, <1>6, <1>9, HarmlessTypes DEF AskedLately, Standing
    <2>5. BrokeLate' \/ AskedLately'
      BY <1>5, <2>3, <2>4 DEF HarmlessInv
    <2>6. QED
      BY <1>2, <1>6, <1>7, <1>9, <2>1, <2>2, <2>5 DEF HarmlessInv
  <1>10. QED
    BY <1>6, <1>8, <1>9

(* With two days of grace nobody innocent is past it when the round        *)
(* decides: either they have one absence, or nobody is left to             *)
(* corroborate.                                                            *)
LEMMA HarmlessDecide ==
  ASSUME Grace > 1, IInv, HarmlessInv, Decide PROVE HarmlessInv'
  <1>1. /\ check' = check /\ innocent' = innocent /\ directory' = directory
        /\ round.pc = "refresh" /\ round.due = {}
    BY DEF Decide, history
  <1>2. CASE PastGrace(round) = {} \/ Refused(round)
    BY <1>1, <1>2, HarmlessQuiet DEF Decide, NoRound
  <1>3. CASE ~(PastGrace(round) = {} \/ Refused(round))
    <2>1. \A u \in PastGrace(round) : u \in Owners /\ check[u].misses > 1
      <3> SUFFICES ASSUME NEW u \in PastGrace(round) PROVE u \in Owners /\ check[u].misses > 1
        OBVIOUS
      <3>1. u \in Owners /\ round.view[u].misses >= Grace
        BY HarmlessTypes DEF PastGrace
      <3>2. round.view[u].misses <= check[u].misses
        BY <1>1, <3>1 DEF IInv, RoundOK
      <3>3. round.view[u].misses \in Nat /\ check[u].misses \in Nat /\ Grace \in Nat
        BY <3>1, HarmlessTypes
      <3>4. QED
        BY <3>1, <3>2, <3>3
    <2>2. PastGrace(round) \cap innocent = {}
      <3>1. CASE BrokeLate
        BY <2>1, <3>1 DEF BrokeLate
      <3>2. CASE AskedLately
        <4>1. PICK v \in ConfirmedPresent(round) : TRUE
          BY <1>3 DEF Refused
        <4>2. v \in Owners /\ Standing(v) /\ check[v].age < Day
          BY <1>1, <3>2, <4>1, HarmlessTypes DEF ConfirmedPresent, AskedLately
        <4>3. check[v].age # Day
          BY <4>2, HarmlessTypes
        <4>4. QED
          BY <2>1, <4>2, <4>3 DEF HarmlessInv
      <3>3. QED
        BY <1>1, <3>1, <3>2 DEF HarmlessInv
    <2>3. round'.orphans \subseteq PastGrace(round) /\ round'.acting = {} /\ round'.pc = "act"
      BY <1>1, <1>3, HarmlessTypes DEF Decide, Round, IInv, RoundOK
    <2>4. QED
      BY <1>1, <2>2, <2>3 DEF HarmlessInv, Standing
  <1>4. QED
    BY <1>2, <1>3

(* Who is flagged is not innocent, and has absences.                       *)
LEMMA HarmlessFlag == ASSUME IInv, HarmlessInv, FlagOwner PROVE HarmlessInv'
  <1>1. /\ innocent' = innocent /\ directory' = directory /\ round'.pc = "alert"
        /\ round'.orphans = round.orphans /\ round'.acting = round.acting
    BY HarmlessTypes DEF FlagOwner, Round, history
  <1>2. \A u \in round.acting : check[u].misses > 0
    BY DEF IInv, RoundOK
  <1>3. \A u \in Owners :
           /\ check'[u].known = check[u].known /\ check'[u].misses = check[u].misses
           /\ check'[u].age = check[u].age
           /\ u \notin round.acting => check'[u].flagged = check[u].flagged
    BY HarmlessTypes DEF FlagOwner, Row
  <1>4. /\ \A u \in Owners : check'[u].misses = 0 => ~check'[u].flagged
        /\ \A u \in innocent : ~check'[u].flagged
    BY <1>2, <1>3, HarmlessTypes DEF HarmlessInv
  <1>5. \A u \in innocent, v \in Owners : Standing(v)' =>
           /\ check'[u].misses = 1 => check'[v].age >= check'[u].age
           /\ check'[u].misses > 1 => check'[v].age = Day
    BY <1>3, HarmlessTypes DEF HarmlessInv, Standing
  <1>6. QED
    BY <1>1, <1>4, <1>5 DEF HarmlessInv

(* A pruned row corroborates nobody and is no absence.                     *)
LEMMA HarmlessPrune == ASSUME IInv, HarmlessInv, Prune PROVE HarmlessInv'
  <1>1. /\ innocent' = innocent /\ directory' = directory /\ round'.pc = "idle"
        /\ round'.orphans = {} /\ round'.acting = {}
    BY DEF Prune, NoRound
  <1>2. \A u \in Owners : check'[u] = NoCheck \/ check'[u] = check[u]
    BY DEF Prune
  <1>3. QED
    BY <1>1, <1>2, HarmlessTypes DEF HarmlessInv, Standing, NoCheck

(* With a grace period of two days or more, whatever the store loses and   *)
(* the process forgets: a directory that comes to answer absent for        *)
(* everyone cuts nobody off who was in good standing (orphanDecision).     *)
THEOREM BrokenDirectoryCutsNobody ==
  ASSUME Grace > 1 PROVE Spec => []BrokenDirectoryHarmless
  <1>1. Init => HarmlessInv
    BY DEF Init, HarmlessInv, NoCheck, NoRound
  <1>2. IInv /\ HarmlessInv /\ [Next]_vars => HarmlessInv'
    <2> SUFFICES ASSUME IInv, HarmlessInv, [Next]_vars PROVE HarmlessInv'
      OBVIOUS
    <2>1. CASE RoundStep
      BY <2>1, HarmlessActing, HarmlessStart, HarmlessPresent, HarmlessAbsent, HarmlessDecide,
         HarmlessFlag, HarmlessPrune DEF RoundStep
    <2>2. QED
      BY <2>1, HarmlessElsewhere, HarmlessTick, HarmlessChange DEF Next
  <1>3. IInv /\ HarmlessInv => BrokenDirectoryHarmless
    BY DEF HarmlessInv, BrokenDirectoryHarmless
  <1>4. QED
    BY <1>1, <1>2, <1>3, Inductive, PTL DEF Spec
=============================================================================
