------------------------ MODULE CronSchedulerProofs ------------------------
(***************************************************************************)
(* Proofs about the cron schedulers, for any jobs, replicas, periods, lock *)
(* TTL and faults: the types, that an occurrence fires twice only after    *)
(* one of the three mishaps, that a job is given up only after real        *)
(* misses, and how late a job of a single process can be.                  *)
(***************************************************************************)
EXTENDS CronScheduler, TLAPS

Rows == [Jobs -> Row \union {NoRow}]

TableTyped == row \in Rows /\ created \in SUBSET Jobs
                /\ edit \in [job : Jobs, row : Row] \union {NoEdit}
LoopTyped ==
  /\ pc \in [Schedulers -> SchedulerState]
  /\ now \in [Schedulers -> Time]
  /\ batch \in [Schedulers -> SUBSET Due]
  /\ current \in [Schedulers -> Due \union {Nothing}]
  /\ wake \in [Schedulers -> AnyTime]
AroundTyped ==
  /\ clock \in Time
  /\ hasAdapter \in SUBSET Schedulers /\ notified \in SUBSET Schedulers
  /\ inbox \in [Schedulers -> 0..BusCap]
  /\ crashes \in 0..MaxCrashes /\ errors \in 0..MaxErrors /\ edits \in 0..MaxEdits
HistoryTyped ==
  /\ fired \in SUBSET Due /\ doubled \in SUBSET Jobs /\ mishap \in SUBSET Jobs
  /\ misses \in [Jobs -> Nat] /\ late \in [Jobs -> Nat]

LEMMA TypeSplit == TypeOK <=> TableTyped /\ LoopTyped /\ AroundTyped /\ HistoryTyped
  BY DEF TypeOK, TableTyped, LoopTyped, AroundTyped, HistoryTyped, Rows

\* A scheduler that is at a job has one, and one whose round is over has none left.
Busy == {"check", "drop", "push", "sent"}
Placed ==
  /\ \A s \in Schedulers : pc[s] \in Busy => current[s] \in Due
  /\ \A s \in Schedulers : pc[s] \notin Busy \union {"work"} => batch[s] = {}

WellFormed == TypeOK /\ Placed

LEMMA ConstantsTyped ==
  /\ MaxClock \in Nat /\ Beyond \in Nat /\ Time \subseteq Nat /\ AnyTime \subseteq Nat
  /\ Time \subseteq AnyTime /\ Beyond \in AnyTime /\ Unlocked \notin Nat /\ Unlocked \in Int
  /\ NoRow \notin Row /\ Nothing \notin Due
  /\ LockTTL \in Nat /\ IdleSleep \in Nat \ {0} /\ BusCap \in Nat \ {0} /\ MaxMisses \in Nat \ {0}
  /\ MaxCrashes \in Nat /\ MaxErrors \in Nat /\ MaxEdits \in Nat
  BY CronAssumption DEF Time, AnyTime, Beyond, Unlocked, NoRow, Row, Nothing, Due

LEMMA CappedTyped ==
  ASSUME NEW t \in Nat
  PROVE  Capped(t) \in AnyTime /\ (Capped(t) = t \/ Capped(t) = Beyond)
  BY ConstantsTyped DEF Capped, AnyTime, Beyond

\* The next occurrence is a time, and later than the one it is asked for.
LEMMA NextTyped ==
  ASSUME NEW j \in Jobs, NEW t \in Time
  PROVE  NextOccurrence(j, t) \in AnyTime /\ t < NextOccurrence(j, t)
  <1> DEFINE P == Period
             q == t \div P
  <1>t. t \in Nat /\ P \in Nat \ {0} /\ t < Beyond /\ Beyond \in AnyTime
    BY ConstantsTyped, CronAssumption DEF Time, Beyond
  <1>1. CASE Kind[j] = "interval"
    <2>1. t + P \in Nat /\ t < t + P
      BY <1>t
    <2> QED BY <1>1, <1>t, <2>1, CappedTyped DEF NextOccurrence
  <1>2. CASE Kind[j] = "cron"
    <2>1. q \in Nat /\ t < (q + 1) * P /\ (q + 1) * P \in Nat
      <3> HIDE DEF P
      <3> QED BY <1>t
    <2> QED BY <1>2, <1>t, <2>1, CappedTyped DEF NextOccurrence
  <1>3. CASE Kind[j] \notin {"interval", "cron"}
    BY <1>3, <1>t DEF NextOccurrence
  <1> QED BY <1>1, <1>2, <1>3

\* What the statements do to the table.
LEMMA TableOps ==
  ASSUME row \in Rows, NEW j \in Jobs
  PROVE  /\ Exists(j) => row[j] \in Row
         /\ Removed(j) \in Rows
         /\ \A next \in AnyTime : Rescheduled(j, next) \in Rows
         /\ \A r \in Row : [row EXCEPT ![j] = r] \in Rows
         /\ Exists(j) => \A t \in Time : [row EXCEPT ![j].lockedAt = t] \in Rows
  <1>1. Exists(j) => row[j] \in Row
    BY DEF Rows, Exists
  <1>2. Removed(j) \in Rows
    BY DEF Rows, Removed
  <1>3. \A r \in Row : [row EXCEPT ![j] = r] \in Rows
    BY DEF Rows
  <1>4. ASSUME NEW next \in AnyTime PROVE Rescheduled(j, next) \in Rows
    <2> DEFINE r == [row[j] EXCEPT !.nextRun = next, !.failures = 0, !.lockedAt = Unlocked]
    <2>1. CASE Exists(j)
      <3>1. r \in Row
        BY <1>1, <2>1 DEF Row
      <3>2. Rescheduled(j, next) = [row EXCEPT ![j] = r]
        BY <2>1 DEF Rescheduled, Rows
      <3> HIDE DEF r
      <3> QED BY <1>3, <3>1, <3>2
    <2>2. CASE ~Exists(j)
      BY <2>2 DEF Rescheduled
    <2> QED BY <2>1, <2>2
  <1>5. ASSUME Exists(j), NEW t \in Time PROVE [row EXCEPT ![j].lockedAt = t] \in Rows
    <2> DEFINE r == [row[j] EXCEPT !.lockedAt = t]
    <2>1. r \in Row
      BY <1>1, <1>5 DEF Row
    <2>2. [row EXCEPT ![j].lockedAt = t] = [row EXCEPT ![j] = r]
      BY DEF Rows
    <2> HIDE DEF r
    <2> QED BY <1>3, <2>1, <2>2
  <1> QED BY <1>1, <1>2, <1>3, <1>4, <1>5

LEMMA TypedInit == Init => WellFormed
  <1> SUFFICES ASSUME Init PROVE WellFormed
    OBVIOUS
  <1>1. TableTyped
    BY DEF Init, TableTyped, Rows
  <1>2. LoopTyped
    BY ConstantsTyped DEF Init, LoopTyped, SchedulerState, Time, AnyTime, Beyond
  <1>3. AroundTyped
    BY ConstantsTyped DEF Init, AroundTyped, Time
  <1>4. HistoryTyped
    BY DEF Init, HistoryTyped
  <1>5. Placed
    BY DEF Init, Placed, Busy
  <1> QED BY <1>1, <1>2, <1>3, <1>4, <1>5, TypeSplit DEF WellFormed

\* A failed call is counted against the bound.
LEMMA FailTyped == ASSUME TypeOK, Fail \/ UNCHANGED errors PROVE errors' \in 0..MaxErrors
  BY ConstantsTyped, TypeSplit DEF Fail, AroundTyped

LEMMA GotoTyped ==
  ASSUME TypeOK, NEW s \in Schedulers, NEW state \in SchedulerState, Goto(s, state)
  PROVE  pc' \in [Schedulers -> SchedulerState] /\ pc'[s] = state
         /\ \A r \in Schedulers : pc'[r] = IF r = s THEN state ELSE pc[r]
  BY TypeSplit DEF LoopTyped, Goto

\* The steps of users.
LEMMA TypedUsers ==
  ASSUME WellFormed,
         (\E j \in Jobs : Create(j) \/ Delete(j) \/ EditRead(j)) \/ EditSave
  PROVE  WellFormed'
  <1>t. TableTyped /\ LoopTyped /\ AroundTyped /\ HistoryTyped /\ Placed
    BY TypeSplit DEF WellFormed
  <1>q. ASSUME TableTyped', AroundTyped', HistoryTyped', UNCHANGED loopVars PROVE WellFormed'
    <2>1. LoopTyped' /\ Placed'
      BY <1>q, <1>t DEF LoopTyped, Placed, loopVars
    <2> QED BY <1>q, <2>1, TypeSplit DEF WellFormed, TypeOK, TableTyped, AroundTyped,
                                          HistoryTyped, LoopTyped, Rows
  <1>1. ASSUME NEW j \in Jobs, Create(j) PROVE WellFormed'
    <2>1. UNCHANGED <<clock, hasAdapter, edit, loopVars, inbox, budgets, history>>
      BY <1>1 DEF Create
    <2>2. notified' \in SUBSET Schedulers
      BY <1>1, <1>t DEF Create, AroundTyped
    <2>3. row' \in Rows
      <3>1. PICK first \in AnyTime :
              row' = [row EXCEPT ![j] = [enabled |-> TRUE, nextRun |-> first,
                                         failures |-> 0, lockedAt |-> Unlocked]]
        <4>1. clock \in Time /\ NextOccurrence(j, clock) \in AnyTime /\ clock..MaxClock \subseteq AnyTime
          BY <1>t, NextTyped, ConstantsTyped DEF AroundTyped, Time, AnyTime, Beyond
        <4> QED BY <1>1, <4>1 DEF Create
      <3>2. [enabled |-> TRUE, nextRun |-> first, failures |-> 0, lockedAt |-> Unlocked] \in Row
        BY DEF Row
      <3> QED BY <1>t, <3>1, <3>2, TableOps DEF TableTyped
    <2>4. created' \in SUBSET Jobs
      BY <1>1, <1>t DEF Create, TableTyped
    <2> QED BY <1>q, <1>t, <2>1, <2>2, <2>3, <2>4 DEF TableTyped, AroundTyped, HistoryTyped,
                                                      budgets, history
  <1>2. ASSUME NEW j \in Jobs, Delete(j) PROVE WellFormed'
    <2>1. UNCHANGED <<clock, created, hasAdapter, edit, loopVars, notified, inbox, history,
                      crashes, errors>>
      BY <1>2 DEF Delete, Edit
    <2>2. row' \in Rows
      BY <1>2, <1>t, TableOps DEF Delete, TableTyped
    <2>3. edits' \in 0..MaxEdits
      BY <1>2, <1>t, ConstantsTyped DEF Delete, Edit, AroundTyped
    <2> QED BY <1>q, <1>t, <2>1, <2>2, <2>3 DEF TableTyped, AroundTyped, HistoryTyped, history
  <1>3. ASSUME NEW j \in Jobs, EditRead(j) PROVE WellFormed'
    <2>1. UNCHANGED <<clock, tableVars, hasAdapter, loopVars, notified, inbox, history,
                      crashes, errors>>
      BY <1>3 DEF EditRead, Edit
    <2>2. edit' \in [job : Jobs, row : Row]
      BY <1>3, <1>t, TableOps DEF EditRead, TableTyped
    <2>3. edits' \in 0..MaxEdits
      BY <1>3, <1>t, ConstantsTyped DEF EditRead, Edit, AroundTyped
    <2> QED BY <1>q, <1>t, <2>1, <2>2, <2>3 DEF TableTyped, AroundTyped, HistoryTyped, history,
                                                tableVars
  <1>4. CASE EditSave
    <2> DEFINE j == edit.job
    <2>1. UNCHANGED <<clock, created, hasAdapter, loopVars, inbox, budgets, fired, doubled, misses,
                      late>> /\ edit' = NoEdit
      BY <1>4 DEF EditSave
    <2>2. j \in Jobs /\ edit.row \in Row
      BY <1>4, <1>t DEF EditSave, TableTyped
    <2>3. row' \in Rows
      <3>1. PICK on \in BOOLEAN :
              row' = IF Exists(j)
                     THEN [row EXCEPT ![j].enabled = on, ![j].nextRun = edit.row.nextRun]
                     ELSE [row EXCEPT ![j] = [edit.row EXCEPT !.enabled = on, !.failures = 0,
                                                              !.lockedAt = Unlocked]]
        BY <1>4 DEF EditSave
      <3> DEFINE r == IF Exists(j) THEN [row[j] EXCEPT !.enabled = on, !.nextRun = edit.row.nextRun]
                      ELSE [edit.row EXCEPT !.enabled = on, !.failures = 0, !.lockedAt = Unlocked]
      <3>2. r \in Row
        BY <1>t, <2>2, TableOps DEF TableTyped, Row
      <3>3. row' = [row EXCEPT ![j] = r]
        BY <1>t, <2>2, <3>1 DEF TableTyped, Rows
      <3> HIDE DEF r
      <3> QED BY <1>t, <2>2, <3>2, <3>3, TableOps DEF TableTyped
    <2>4. mishap' \in SUBSET Jobs /\ notified' \in SUBSET Schedulers
      BY <1>4, <1>t, <2>2 DEF EditSave, HistoryTyped, AroundTyped
    <2> QED BY <1>q, <1>t, <2>1, <2>3, <2>4 DEF TableTyped, AroundTyped, HistoryTyped, budgets
  <1> QED BY <1>1, <1>2, <1>3, <1>4

\* A scheduler's step moves that one; what it leaves alone keeps its type.
LEMMA TypedLoop ==
  ASSUME WellFormed, NEW s \in Schedulers, SchedulerStep(s)
  PROVE  WellFormed'
  <1>t. /\ TableTyped /\ LoopTyped /\ AroundTyped /\ HistoryTyped /\ Placed /\ TypeOK
        /\ row \in Rows /\ clock \in Time
    BY TypeSplit DEF WellFormed, TableTyped, AroundTyped
  <1>j. pc[s] \in Busy => current[s] \in Due /\ current[s].job \in Jobs
    BY <1>t DEF Placed, Due
  <1>q. ASSUME TableTyped', LoopTyped', AroundTyped', HistoryTyped', Placed' PROVE WellFormed'
    BY <1>q DEF WellFormed, TypeOK, TableTyped, AroundTyped, HistoryTyped, LoopTyped, Rows
  <1>b. ASSUME row' \in Rows, UNCHANGED <<created, edit>> PROVE TableTyped'
    BY <1>b, <1>t DEF TableTyped
  <1>w. ASSUME Goto(s, "work"), current' = [current EXCEPT ![s] = Nothing],
               UNCHANGED <<now, batch, wake>>
        PROVE  LoopTyped' /\ Placed'
    <2>1. /\ pc' \in [Schedulers -> SchedulerState]
          /\ \A r \in Schedulers : pc'[r] = IF r = s THEN "work" ELSE pc[r]
      BY <1>w, <1>t, GotoTyped DEF SchedulerState
    <2>2. /\ current' \in [Schedulers -> Due \union {Nothing}]
          /\ \A r \in Schedulers : current'[r] = IF r = s THEN Nothing ELSE current[r]
      BY <1>w, <1>t DEF LoopTyped
    <2> QED BY <1>t, <1>w, <2>1, <2>2 DEF LoopTyped, Placed, Busy
  <1>1. CASE Poll(s)
    <2>1. UNCHANGED <<clock, tableVars, hasAdapter, edit, current, wake, notified, inbox,
                      crashes, edits, history>>
      BY <1>1 DEF Poll
    <2>2. /\ pc' \in [Schedulers -> SchedulerState]
          /\ \A r \in Schedulers : pc'[r] = IF r = s THEN "work" ELSE pc[r]
      BY <1>1, <1>t, GotoTyped DEF Poll, SchedulerState
    <2>3. now' \in [Schedulers -> Time]
      BY <1>1, <1>t DEF Poll, LoopTyped
    <2>4. /\ batch' \in [Schedulers -> SUBSET Due]
          /\ \A r \in Schedulers \ {s} : batch'[r] = batch[r]
      <3>1. {[job |-> j, run |-> row[j].nextRun] : j \in {i \in Jobs : Exists(i) /\ IsDue(i)}} \subseteq Due
        BY <1>t, TableOps DEF Due, Row
      <3> QED BY <1>1, <1>t, <3>1 DEF Poll, LoopTyped
    <2>5. errors' \in 0..MaxErrors
      BY <1>1, <1>t, FailTyped DEF Poll
    <2>6. LoopTyped' /\ Placed'
      BY <1>t, <2>1, <2>2, <2>3, <2>4 DEF LoopTyped, Placed, Busy
    <2> QED BY <1>q, <1>t, <2>1, <2>5, <2>6 DEF TableTyped, AroundTyped, HistoryTyped, history, tableVars
  <1>2. CASE Take(s)
    <2>1. UNCHANGED <<clock, created, hasAdapter, edit, now, wake, notified, inbox,
                      crashes, edits, fired, doubled, misses, late>> /\ pc[s] = "work"
      BY <1>2 DEF Take
    <2>2. PICK d \in batch[s] :
            /\ batch' = [batch EXCEPT ![s] = @ \ {d}]
            /\ \/ /\ Lockable(d.job)
                  /\ row' = [row EXCEPT ![d.job].lockedAt = clock]
                  /\ mishap' \in {mishap, mishap \union {d.job}}
                  /\ current' = [current EXCEPT ![s] = d]
                  /\ Goto(s, "check") /\ UNCHANGED errors
               \/ UNCHANGED <<row, mishap, current, pc, errors>>
               \/ /\ Fail /\ UNCHANGED <<mishap, current, pc>>
                  /\ row' = row \/ (Lockable(d.job) /\ row' = [row EXCEPT ![d.job].lockedAt = clock])
      BY <1>2 DEF Take
    <2>3. d \in Due /\ d.job \in Jobs
      BY <1>t, <2>2 DEF LoopTyped, Due
    <2>4. row' \in Rows
      <3>1. row' = row \/ (Lockable(d.job) /\ row' = [row EXCEPT ![d.job].lockedAt = clock])
        BY <2>2
      <3> QED BY <1>t, <2>3, <3>1, TableOps DEF Lockable
    <2>5. mishap' \in SUBSET Jobs
      BY <1>t, <2>2, <2>3 DEF HistoryTyped
    <2>6. errors' \in 0..MaxErrors
      BY <1>t, <2>2, FailTyped
    <2>7. batch' \in [Schedulers -> SUBSET Due]
          /\ \A r \in Schedulers : batch'[r] \subseteq batch[r]
      BY <1>t, <2>2 DEF LoopTyped
    <2>8. /\ pc' \in [Schedulers -> SchedulerState] /\ current' \in [Schedulers -> Due \union {Nothing}]
          /\ \A r \in Schedulers \ {s} : pc'[r] = pc[r] /\ current'[r] = current[r]
          /\ (pc'[s] = "check" /\ current'[s] = d) \/ (pc'[s] = "work" /\ current'[s] = current[s])
      <3>1. CASE current' = [current EXCEPT ![s] = d] /\ Goto(s, "check")
        BY <1>t, <2>3, <3>1, GotoTyped DEF LoopTyped, SchedulerState
      <3>2. CASE UNCHANGED <<current, pc>>
        BY <1>t, <2>1, <3>2 DEF LoopTyped
      <3> QED BY <2>2, <3>1, <3>2
    <2>9. LoopTyped' /\ Placed'
      BY <1>t, <2>1, <2>3, <2>7, <2>8 DEF LoopTyped, Placed, Busy
    <2> QED BY <1>b, <1>q, <1>t, <2>1, <2>4, <2>5, <2>6, <2>9 DEF AroundTyped, HistoryTyped
  <1>3. CASE Reach(s)
    <2>1. UNCHANGED <<clock, tableVars, hasAdapter, edit, now, batch, current, wake, notified,
                      inbox, budgets, history>> /\ pc[s] = "check"
      BY <1>3 DEF Reach
    <2>2. /\ pc' \in [Schedulers -> SchedulerState]
          /\ \A r \in Schedulers : pc'[r] = IF r = s THEN "push" ELSE pc[r]
      BY <1>3, <1>t, GotoTyped DEF Reach, SchedulerState
    <2>3. LoopTyped' /\ Placed'
      BY <1>t, <2>1, <2>2 DEF LoopTyped, Placed, Busy
    <2> QED BY <1>q, <1>t, <2>1, <2>3 DEF TableTyped, AroundTyped, HistoryTyped, history, tableVars, budgets
  <1>4. CASE Miss(s)
    <2> DEFINE j == current[s].job
               n == row[j].failures + 1
    <2>1. UNCHANGED <<clock, created, hasAdapter, edit, now, batch, wake, notified, inbox,
                      crashes, edits, fired, doubled, mishap, late>> /\ pc[s] = "check" /\ j \in Jobs
      BY <1>4, <1>j DEF Miss, Busy
    <2>2. row' \in Rows /\ misses' \in [Jobs -> Nat]
      <3>1. CASE Exists(j) /\ row' = [row EXCEPT ![j].failures = n, ![j].lockedAt = Unlocked]
                 /\ misses' = [misses EXCEPT ![j] = @ + 1]
        <4> DEFINE r == [row[j] EXCEPT !.failures = n, !.lockedAt = Unlocked]
        <4>1. r \in Row
          <5>1. row[j] \in Row
            BY <1>t, <2>1, <3>1, TableOps
          <5>2. n \in Nat
            BY <5>1 DEF Row
          <5> HIDE DEF n, j
          <5> QED BY <5>1, <5>2 DEF Row
        <4>2. row' = [row EXCEPT ![j] = r]
          BY <1>t, <3>1 DEF Rows
        <4>3. row' \in Rows
          <5> HIDE DEF r, j
          <5> QED BY <1>t, <2>1, <4>1, <4>2, TableOps
        <4>4. misses' \in [Jobs -> Nat]
          <5> HIDE DEF j
          <5> QED BY <1>t, <2>1, <3>1 DEF HistoryTyped
        <4> QED BY <4>3, <4>4
      <3>2. CASE UNCHANGED <<row, misses>>
        BY <1>t, <3>2 DEF HistoryTyped
      <3>3. \/ Exists(j) /\ row' = [row EXCEPT ![j].failures = n, ![j].lockedAt = Unlocked]
                  /\ misses' = [misses EXCEPT ![j] = @ + 1]
            \/ UNCHANGED <<row, misses>>
        BY <1>4 DEF Miss
      <3> QED BY <3>1, <3>2, <3>3
    <2>3. errors' \in 0..MaxErrors
      BY <1>4, <1>t, FailTyped DEF Miss
    <2>4. LoopTyped' /\ Placed'
      <3>1. CASE Goto(s, "drop") /\ UNCHANGED current
        <4>1. /\ pc' \in [Schedulers -> SchedulerState]
              /\ \A r \in Schedulers : pc'[r] = IF r = s THEN "drop" ELSE pc[r]
          BY <1>t, <3>1, GotoTyped DEF SchedulerState
        <4> QED BY <1>t, <2>1, <3>1, <4>1 DEF LoopTyped, Placed, Busy
      <3>2. CASE Goto(s, "work") /\ current' = [current EXCEPT ![s] = Nothing]
        BY <1>w, <2>1, <3>2
      <3> QED BY <1>4, <3>1, <3>2 DEF Miss
    <2> QED BY <1>b, <1>q, <1>t, <2>1, <2>2, <2>3, <2>4 DEF AroundTyped, HistoryTyped
  <1>5. CASE Drop(s)
    <2>1. /\ UNCHANGED <<clock, created, hasAdapter, edit, now, batch, wake, notified, inbox,
                         crashes, edits, history>>
          /\ current[s].job \in Jobs /\ row' \in {row, Removed(current[s].job)}
      BY <1>5, <1>j DEF Drop, Busy
    <2>2. row' \in Rows
      BY <1>t, <2>1, TableOps
    <2>3. errors' \in 0..MaxErrors
      BY <1>5, <1>t, FailTyped DEF Drop
    <2>4. LoopTyped' /\ Placed'
      BY <1>5, <1>w, <2>1 DEF Drop
    <2> QED BY <1>b, <1>q, <1>t, <2>1, <2>2, <2>3, <2>4 DEF AroundTyped, HistoryTyped, history
  <1>6. CASE Push(s)
    <2> DEFINE d == current[s]
    <2>1. UNCHANGED <<clock, tableVars, hasAdapter, edit, now, batch, current, wake,
                      notified, budgets, mishap, late>> /\ pc[s] = "push" /\ d \in Due /\ d.job \in Jobs
      BY <1>6, <1>j DEF Push, Busy
    <2>2. inbox' \in [Schedulers -> 0..BusCap]
      <3>1. inbox[s] + 1 \in 0..BusCap
        BY <1>6, <1>t, ConstantsTyped DEF Push, HasRoom, AroundTyped
      <3> QED BY <1>6, <1>t, <3>1 DEF Push, AroundTyped
    <2>3. fired' \in SUBSET Due /\ doubled' \in SUBSET Jobs /\ misses' \in [Jobs -> Nat]
      BY <1>6, <1>t, <2>1 DEF Push, HistoryTyped
    <2>4. /\ pc' \in [Schedulers -> SchedulerState]
          /\ \A r \in Schedulers : pc'[r] = IF r = s THEN "sent" ELSE pc[r]
      BY <1>6, <1>t, GotoTyped DEF Push, SchedulerState
    <2>5. LoopTyped' /\ Placed'
      BY <1>t, <2>1, <2>4 DEF LoopTyped, Placed, Busy
    <2> QED BY <1>q, <1>t, <2>1, <2>2, <2>3, <2>5 DEF TableTyped, AroundTyped, HistoryTyped, tableVars, budgets
  <1>7. CASE Update(s)
    <2> DEFINE j == current[s].job
    <2>1. /\ UNCHANGED <<clock, created, hasAdapter, edit, now, batch, wake, notified, inbox,
                         crashes, edits, history>>
          /\ j \in Jobs
          /\ row' \in {row, Removed(j), Rescheduled(j, Beyond), Rescheduled(j, NextOccurrence(j, now[s]))}
      BY <1>7, <1>j DEF Update, Busy
    <2>2. row' \in Rows
      <3>1. NextOccurrence(j, now[s]) \in AnyTime /\ Beyond \in AnyTime
        BY <1>t, <2>1, NextTyped, ConstantsTyped DEF LoopTyped
      <3> QED BY <1>t, <2>1, <3>1, TableOps
    <2>3. errors' \in 0..MaxErrors
      BY <1>7, <1>t, FailTyped DEF Update
    <2>4. LoopTyped' /\ Placed'
      BY <1>7, <1>w, <2>1 DEF Update
    <2> QED BY <1>b, <1>q, <1>t, <2>1, <2>2, <2>3, <2>4 DEF AroundTyped, HistoryTyped, history
  <1>8. CASE Plan(s)
    <2>1. /\ UNCHANGED <<clock, tableVars, hasAdapter, edit, now, batch, current, notified, inbox,
                         crashes, edits, history>>
          /\ batch[s] = {}
          /\ Goto(s, "sleep") \/ Goto(s, "poll")
      BY <1>8 DEF Plan
    <2>2. errors' \in 0..MaxErrors
      BY <1>8, <1>t, FailTyped DEF Plan
    <2>3. wake' \in [Schedulers -> AnyTime]
      <3>1. Capped(clock + IdleSleep) \in AnyTime
        <4>1. clock + IdleSleep \in Nat
          BY <1>t, ConstantsTyped
        <4> QED BY <4>1, CappedTyped
      <3>2. NextDueTimes \subseteq AnyTime
        BY <1>t, TableOps DEF NextDueTimes, Row
      <3> QED BY <1>8, <1>t, <3>1, <3>2 DEF Plan, LoopTyped
    <2>4. /\ pc' \in [Schedulers -> SchedulerState]
          /\ \A r \in Schedulers \ {s} : pc'[r] = pc[r]
          /\ pc'[s] \in {"sleep", "poll"}
      BY <1>t, <2>1, GotoTyped DEF SchedulerState
    <2>5. LoopTyped' /\ Placed'
      BY <1>t, <2>1, <2>3, <2>4 DEF LoopTyped, Placed, Busy
    <2> QED BY <1>q, <1>t, <2>1, <2>2, <2>5 DEF TableTyped, AroundTyped, HistoryTyped, tableVars, history
  <1>9. CASE Wake(s)
    <2>1. /\ UNCHANGED <<clock, tableVars, hasAdapter, edit, now, batch, current, wake, inbox,
                         budgets, history>>
          /\ pc[s] = "sleep" /\ notified' \in {notified, notified \ {s}}
      BY <1>9 DEF Wake
    <2>2. /\ pc' \in [Schedulers -> SchedulerState]
          /\ \A r \in Schedulers : pc'[r] = IF r = s THEN "poll" ELSE pc[r]
      BY <1>9, <1>t, GotoTyped DEF Wake, SchedulerState
    <2>3. LoopTyped' /\ Placed'
      BY <1>t, <2>1, <2>2 DEF LoopTyped, Placed, Busy
    <2>4. notified' \in SUBSET Schedulers
      BY <1>t, <2>1 DEF AroundTyped
    <2> QED BY <1>q, <1>t, <2>1, <2>3, <2>4 DEF TableTyped, AroundTyped, HistoryTyped, tableVars,
                                                history, budgets
  <1> QED BY <1>1, <1>2, <1>3, <1>4, <1>5, <1>6, <1>7, <1>8, <1>9 DEF SchedulerStep

LEMMA TypedNext == WellFormed /\ [Next]_vars => WellFormed'
  <1> SUFFICES ASSUME WellFormed, [Next]_vars PROVE WellFormed'
    OBVIOUS
  <1>t. TableTyped /\ LoopTyped /\ AroundTyped /\ HistoryTyped /\ Placed /\ TypeOK
    BY TypeSplit DEF WellFormed
  <1>q. ASSUME LoopTyped', Placed', AroundTyped', HistoryTyped', UNCHANGED <<tableVars, edit>>
        PROVE  WellFormed'
    <2>1. TableTyped'
      BY <1>q, <1>t DEF TableTyped, tableVars
    <2> QED BY <1>q, <2>1 DEF WellFormed, TypeOK, TableTyped, AroundTyped, HistoryTyped, LoopTyped, Rows
  <1>1. CASE UNCHANGED vars
    BY <1>1, <1>q, <1>t DEF vars, tableVars, loopVars, budgets, history, LoopTyped, Placed,
                            AroundTyped, HistoryTyped
  <1>2. CASE (\E j \in Jobs : Create(j) \/ Delete(j) \/ EditRead(j)) \/ EditSave
    BY <1>2, TypedUsers
  <1>3. CASE \E s \in Schedulers : SchedulerStep(s)
    BY <1>3, TypedLoop
  <1>4. ASSUME NEW s \in Schedulers, Consume(s) \/ AdapterChange(s) PROVE WellFormed'
    <2>1. UNCHANGED <<clock, tableVars, edit, loopVars, notified, budgets, history>>
      BY <1>4 DEF Consume, AdapterChange
    <2>2. inbox' \in [Schedulers -> 0..BusCap]
      <3>1. inbox[s] > 0 => inbox[s] - 1 \in 0..BusCap
        BY <1>t, ConstantsTyped DEF AroundTyped
      <3>2. CASE Consume(s)
        BY <1>t, <3>1, <3>2 DEF Consume, AroundTyped
      <3>3. CASE AdapterChange(s)
        BY <1>t, <3>3 DEF AdapterChange, AroundTyped
      <3> QED BY <1>4, <3>2, <3>3
    <2>3. hasAdapter' \in SUBSET Schedulers
      BY <1>4, <1>t DEF Consume, AdapterChange, AroundTyped
    <2> QED BY <1>q, <1>t, <2>1, <2>2, <2>3 DEF loopVars, budgets, history, LoopTyped, Placed,
                                                AroundTyped, HistoryTyped
  <1>5. ASSUME NEW s \in Schedulers, Crash(s) \/ Restart(s) PROVE WellFormed'
    <2>1. /\ UNCHANGED <<clock, tableVars, hasAdapter, edit, now, wake, errors, edits, history>>
          /\ Goto(s, "down") \/ Goto(s, "poll")
      BY <1>5 DEF Crash, Restart, budgets
    <2>2. /\ pc' \in [Schedulers -> SchedulerState]
          /\ \A r \in Schedulers \ {s} : pc'[r] = pc[r]
          /\ pc'[s] \in {"down", "poll"}
      BY <1>t, <2>1, GotoTyped DEF SchedulerState
    <2>3. /\ batch' \in [Schedulers -> SUBSET Due]
          /\ current' \in [Schedulers -> Due \union {Nothing}]
          /\ \A r \in Schedulers \ {s} : batch'[r] = batch[r] /\ current'[r] = current[r]
          /\ batch'[s] = {}
      BY <1>5, <1>t DEF Crash, Restart, LoopTyped, Placed, Busy
    <2>4. LoopTyped' /\ Placed'
      BY <1>t, <2>1, <2>2, <2>3 DEF LoopTyped, Placed, Busy
    <2>5. crashes' \in 0..MaxCrashes
      BY <1>5, <1>t, ConstantsTyped DEF Crash, Restart, budgets, AroundTyped
    <2>6. inbox' \in [Schedulers -> 0..BusCap] /\ notified' \in SUBSET Schedulers
      BY <1>5, <1>t, ConstantsTyped DEF Crash, Restart, AroundTyped
    <2> QED BY <1>q, <1>t, <2>1, <2>4, <2>5, <2>6 DEF history, AroundTyped, HistoryTyped
  <1>6. CASE Tick
    <2>1. UNCHANGED <<tableVars, hasAdapter, edit, loopVars, notified, inbox, budgets,
                      fired, doubled, mishap, misses>>
      BY <1>6 DEF Tick
    <2>2. clock' \in Time
      BY <1>6, <1>t, ConstantsTyped DEF Tick, AroundTyped, Time
    <2>3. late' \in [Jobs -> Nat]
      BY <1>6, <1>t DEF Tick, HistoryTyped
    <2> QED BY <1>q, <1>t, <2>1, <2>2, <2>3 DEF loopVars, budgets, LoopTyped, Placed, AroundTyped,
                                                HistoryTyped
  <1> QED BY <1>1, <1>2, <1>3, <1>4, <1>5, <1>6 DEF Next

\* Every variable keeps its type: among others, a scheduler at a job has one, and every
\* time a row names is a time or beyond the horizon.
THEOREM TypeCorrect == Spec => []TypeOK
  <1>1. WellFormed => TypeOK
    BY DEF WellFormed
  <1> QED BY <1>1, TypedInit, TypedNext, PTL DEF Spec
----------------------------------------------------------------------------
(* An occurrence fires once, but for mishaps. *)

Holding == {"check", "push", "sent"}
Holds(s, j) == pc[s] \in Holding /\ current[s].job = j

\* Rows, edits, due lists and what was fired are of jobs that were created, and
\* an occurrence on a due list was due when the list was read.
Known ==
  /\ \A j \in Jobs : Exists(j) => j \in created
  /\ edit # NoEdit => edit.job \in created
  /\ \A d \in fired : d.job \in created
  /\ \A s \in Schedulers : \A d \in batch[s] : d.job \in created /\ d.run <= now[s]
  /\ \A s \in Schedulers :
       pc[s] \in Busy => current[s].job \in created /\ current[s].run <= now[s]

\* One scheduler holds a job, the row is locked meanwhile and names the
\* occurrence it holds, which was not fired before it is sent.
Alone(j) == \A s, r \in Schedulers : Holds(s, j) /\ Holds(r, j) => s = r
Locked(j) ==
  \A s \in Schedulers :
    Holds(s, j) /\ Exists(j) => Lock(j) # Unlocked /\ row[j].nextRun = current[s].run
Unfired(j) == \A s \in Schedulers : Holds(s, j) /\ pc[s] # "sent" => current[s] \notin fired

\* What was fired is before the row's occurrence, or is it and the row is locked.
Moved(j) ==
  \A d \in fired :
    d.job = j /\ Exists(j) => \/ d.run < row[j].nextRun
                              \/ d.run = row[j].nextRun /\ Lock(j) # Unlocked

\* The row counts no more failures than there were since the job last fired; a
\* row whose holder has just sent is about to be cleared.
Counted(j) ==
  Exists(j) => \/ row[j].failures <= misses[j]
               \/ /\ Lock(j) # Unlocked
                  /\ \A s \in Schedulers : Holds(s, j) => pc[s] = "sent"

Good(j) == Alone(j) /\ Locked(j) /\ Unfired(j) /\ Moved(j) /\ Counted(j)

Once == (\A j \in Jobs : j \notin mishap => Good(j)) /\ FiredOnce

\* A step that leaves a job alone: nobody new holds it, its row is gone or as
\* it was but for a lock, and it was not fired.
Kept(j) ==
  /\ \A s \in Schedulers :
       Holds(s, j)' => /\ Holds(s, j) /\ current'[s] = current[s]
                       /\ pc'[s] = "sent" <=> pc[s] = "sent"
  /\ Exists(j)' => /\ Exists(j)
                   /\ row'[j].nextRun = row[j].nextRun /\ row'[j].failures = row[j].failures
                   /\ Lock(j) # Unlocked => Lock(j)' # Unlocked
  /\ \A d \in fired' : d.job = j => d \in fired
  /\ misses'[j] = misses[j]

LEMMA KeptGood ==
  ASSUME NEW j \in Jobs, Good(j), Kept(j)
  PROVE  Good(j)'
  <1>1. Alone(j)'
    BY DEF Good, Kept, Alone
  <1>2. Locked(j)'
    BY DEF Good, Kept, Locked
  <1>3. Unfired(j)'
    BY DEF Good, Kept, Unfired, Holds
  <1>4. Moved(j)'
    BY DEF Good, Kept, Moved
  <1>5. Counted(j)'
    BY DEF Good, Kept, Counted
  <1> QED BY <1>1, <1>2, <1>3, <1>4, <1>5 DEF Good

\* A scheduler that lets go of its job, or had none, keeps every job whose row
\* is as it was or gone.
LEMMA LetGo ==
  ASSUME NEW s \in Schedulers, NEW j \in Jobs,
         pc'[s] \notin Holding,
         \A r \in Schedulers \ {s} : pc'[r] = pc[r] /\ current'[r] = current[r],
         row'[j] \in {row[j], NoRow}, UNCHANGED fired, misses'[j] = misses[j]
  PROVE  Kept(j)
  BY DEF Kept, Holds, Exists, Lock

\* What a statement does to each row.
LEMMA TablePoints ==
  ASSUME row \in Rows, NEW j \in Jobs, NEW i \in Jobs
  PROVE  /\ Removed(j)[i] = IF i = j THEN NoRow ELSE row[i]
         /\ \A next \in AnyTime :
              /\ i # j \/ ~Exists(j) => Rescheduled(j, next)[i] = row[i]
              /\ Exists(j) => /\ Rescheduled(j, next)[j].nextRun = next
                              /\ Rescheduled(j, next)[j].failures = 0
         /\ \A r : [row EXCEPT ![j] = r][i] = IF i = j THEN r ELSE row[i]
         /\ \A t : [row EXCEPT ![j].lockedAt = t][i] =
                     IF i = j THEN [row[j] EXCEPT !.lockedAt = t] ELSE row[i]
  <1>1. /\ Removed(j)[i] = IF i = j THEN NoRow ELSE row[i]
        /\ \A r : [row EXCEPT ![j] = r][i] = IF i = j THEN r ELSE row[i]
        /\ \A t : [row EXCEPT ![j].lockedAt = t][i] =
                     IF i = j THEN [row[j] EXCEPT !.lockedAt = t] ELSE row[i]
    BY DEF Rows, Removed
  <1>2. ASSUME NEW next \in AnyTime
        PROVE  /\ i # j \/ ~Exists(j) => Rescheduled(j, next)[i] = row[i]
               /\ Exists(j) => /\ Rescheduled(j, next)[j].nextRun = next
                               /\ Rescheduled(j, next)[j].failures = 0
    <2>1. CASE ~Exists(j)
      BY <2>1 DEF Rescheduled
    <2>2. CASE Exists(j)
      <3> DEFINE r == [row[j] EXCEPT !.nextRun = next, !.failures = 0, !.lockedAt = Unlocked]
      <3>1. Rescheduled(j, next) = [row EXCEPT ![j] = r]
        BY <2>2 DEF Rescheduled, Rows
      <3>2. r.nextRun = next /\ r.failures = 0
        BY <2>2, TableOps DEF Row
      <3> HIDE DEF r
      <3> QED BY <2>2, <3>1, <3>2 DEF Rows
    <2> QED BY <2>1, <2>2
  <1> QED BY <1>1, <1>2

LEMMA GoodUsers ==
  ASSUME WellFormed, Known, Once,
         (\E j \in Jobs : Create(j) \/ Delete(j) \/ EditRead(j)) \/ EditSave,
         NEW i \in Jobs, i \notin mishap'
  PROVE  Good(i)'
  <1>t. row \in Rows /\ TypeOK /\ Placed /\ HistoryTyped /\ TableTyped
    BY TypeSplit DEF WellFormed, TableTyped
  <1>k. ASSUME UNCHANGED <<pc, current, fired, misses>>, i \notin mishap,
               Exists(i)' => /\ Exists(i)
                             /\ row'[i].nextRun = row[i].nextRun /\ row'[i].failures = row[i].failures
                             /\ Lock(i)' = Lock(i)
        PROVE  Good(i)'
    <2>1. Good(i)
      BY <1>k DEF Once
    <2>2. Kept(i)
      BY <1>k DEF Kept, Holds
    <2> QED BY <2>1, <2>2, KeptGood
  <1>1. ASSUME NEW j \in Jobs, Create(j) PROVE Good(i)'
    <2>1. UNCHANGED <<pc, current, fired, misses, mishap>> /\ j \notin created
      BY <1>1 DEF Create, loopVars, history
    <2>2. PICK first :
            row' = [row EXCEPT ![j] = [enabled |-> TRUE, nextRun |-> first,
                                       failures |-> 0, lockedAt |-> Unlocked]]
      BY <1>1 DEF Create
    <2>3. CASE i # j
      <3>1. row'[i] = row[i]
        BY <1>t, <2>2, <2>3 DEF Rows
      <3> QED BY <1>k, <2>1, <3>1 DEF Exists, Lock
    <2>4. CASE i = j
      <3>1. \A s \in Schedulers : ~Holds(s, i)'
        BY <2>1, <2>4 DEF Holds, Holding, Known, Busy
      <3>2. \A d \in fired' : d.job # i
        BY <2>1, <2>4 DEF Known
      <3>3. row'[i].failures = 0 /\ misses'[i] \in Nat
        BY <1>t, <2>1, <2>2, <2>4 DEF Rows, HistoryTyped
      <3>4. Counted(i)'
        BY <3>3 DEF Counted
      <3> QED BY <3>1, <3>2, <3>4 DEF Good, Alone, Locked, Unfired, Moved
    <2> QED BY <2>3, <2>4
  <1>2. ASSUME NEW j \in Jobs, Delete(j) PROVE Good(i)'
    <2>1. UNCHANGED <<pc, current, fired, misses, mishap>> /\ row' = Removed(j)
      BY <1>2 DEF Delete, loopVars, history
    <2>2. row'[i] \in {row[i], NoRow}
      BY <1>t, <2>1, TablePoints
    <2> QED BY <1>k, <2>1, <2>2 DEF Exists, Lock
  <1>3. ASSUME NEW j \in Jobs, EditRead(j) PROVE Good(i)'
    BY <1>3, <1>k DEF EditRead, loopVars, history, tableVars, Exists, Lock
  <1>4. CASE EditSave
    <2> DEFINE j == edit.job
    <2>1. /\ UNCHANGED <<pc, current, fired, misses>> /\ j \in Jobs
          /\ mishap' = IF Exists(j) /\ row[j].nextRun = edit.row.nextRun
                       THEN mishap ELSE mishap \union {j}
      BY <1>4, <1>t DEF EditSave, loopVars, TableTyped
    <2>2. PICK on \in BOOLEAN :
            row' = IF Exists(j)
                   THEN [row EXCEPT ![j].enabled = on, ![j].nextRun = edit.row.nextRun]
                   ELSE [row EXCEPT ![j] = [edit.row EXCEPT !.enabled = on, !.failures = 0,
                                                            !.lockedAt = Unlocked]]
      BY <1>4 DEF EditSave
    <2>3. CASE i # j
      <3>1. row'[i] = row[i]
        BY <1>t, <2>1, <2>2, <2>3 DEF Rows
      <3> QED BY <1>k, <2>1, <3>1 DEF Exists, Lock
    <2>4. CASE i = j
      <3>1. Exists(j) /\ row[j].nextRun = edit.row.nextRun /\ row[j] \in Row
        BY <1>t, <2>1, <2>4, TableOps
      <3>2. row'[i] = [row[j] EXCEPT !.enabled = on, !.nextRun = edit.row.nextRun]
        BY <1>t, <2>1, <2>2, <2>4, <3>1 DEF Rows
      <3>3. /\ row'[i].nextRun = row[i].nextRun /\ row'[i].failures = row[i].failures
            /\ row'[i].lockedAt = row[i].lockedAt
        BY <2>4, <3>1, <3>2 DEF Row
      <3> QED BY <1>k, <2>1, <2>4, <3>1, <3>3 DEF Lock
    <2> QED BY <2>3, <2>4
  <1> QED BY <1>1, <1>2, <1>3, <1>4

\* A lock that was free is taken for the occurrence the row still names.
LEMMA GoodTake ==
  ASSUME WellFormed, Once, NEW s \in Schedulers, Take(s), NEW i \in Jobs, i \notin mishap'
  PROVE  Good(i)'
  <1>t. row \in Rows /\ TypeOK /\ LoopTyped /\ clock \in Time
    BY TypeSplit DEF WellFormed, TableTyped, AroundTyped
  <1>1. UNCHANGED <<fired, misses>> /\ pc[s] = "work"
    BY DEF Take
  <1>2. PICK d \in batch[s] :
          \/ /\ Lockable(d.job)
             /\ row' = [row EXCEPT ![d.job].lockedAt = clock]
             /\ mishap' = IF Expired(d.job) \/ row[d.job].nextRun # d.run
                          THEN mishap \union {d.job} ELSE mishap
             /\ current' = [current EXCEPT ![s] = d]
             /\ Goto(s, "check")
          \/ UNCHANGED <<row, mishap, current, pc>>
          \/ /\ UNCHANGED <<mishap, current, pc>>
             /\ \/ UNCHANGED row
                \/ Lockable(d.job) /\ row' = [row EXCEPT ![d.job].lockedAt = clock]
    BY DEF Take
  <1>3. d \in Due /\ d.job \in Jobs /\ i \notin mishap /\ Good(i)
    <2>1. i \notin mishap
      BY <1>2
    <2> QED BY <1>t, <1>2, <2>1 DEF LoopTyped, Due, Once
  <1>c. clock # Unlocked
    BY <1>t, ConstantsTyped
  <1>4. CASE UNCHANGED <<row, current, pc>>
    <2>1. Kept(i)
      BY <1>1, <1>4 DEF Kept, Holds, Exists, Lock
    <2> QED BY <1>3, <2>1, KeptGood
  <1>5. CASE /\ UNCHANGED <<mishap, current, pc>>
             /\ Lockable(d.job) /\ row' = [row EXCEPT ![d.job].lockedAt = clock]
    <2>1. row'[i] = row[i] \/ (Exists(i) /\ row[i] \in Row /\ row'[i] = [row[i] EXCEPT !.lockedAt = clock])
      BY <1>t, <1>3, <1>5, TablePoints, TableOps DEF Lockable
    <2>2. Kept(i)
      BY <1>1, <1>5, <1>c, <2>1 DEF Kept, Holds, Exists, Lock, Row
    <2> QED BY <1>3, <2>2, KeptGood
  <1>6. CASE /\ Lockable(d.job)
             /\ row' = [row EXCEPT ![d.job].lockedAt = clock]
             /\ mishap' = IF Expired(d.job) \/ row[d.job].nextRun # d.run
                          THEN mishap \union {d.job} ELSE mishap
             /\ current' = [current EXCEPT ![s] = d]
             /\ Goto(s, "check")
    <2>1. \A r \in Schedulers : /\ pc'[r] = IF r = s THEN "check" ELSE pc[r]
                                /\ current'[r] = IF r = s THEN d ELSE current[r]
      BY <1>t, <1>6, GotoTyped DEF SchedulerState, LoopTyped
    <2>2. CASE i # d.job
      <3>1. row'[i] = row[i]
        BY <1>t, <1>3, <1>6, <2>2, TablePoints
      <3>2. Kept(i)
        BY <1>1, <2>1, <2>2, <3>1 DEF Kept, Holds, Exists, Lock
      <3> QED BY <1>3, <3>2, KeptGood
    <2>3. CASE i = d.job
      <3>1. Lock(i) = Unlocked /\ Exists(i) /\ row[i].nextRun = d.run /\ row[i] \in Row
        BY <1>t, <1>3, <1>6, <2>3, TableOps DEF Lockable
      <3>2. row'[i] = [row[i] EXCEPT !.lockedAt = clock]
        BY <1>t, <1>3, <1>6, <2>3, TablePoints
      <3>3. Lock(i)' # Unlocked /\ row'[i].nextRun = d.run /\ row'[i].failures = row[i].failures
        BY <1>c, <3>1, <3>2 DEF Lock, Row
      <3>4. \A r \in Schedulers : ~Holds(r, i)
        BY <1>3, <3>1 DEF Good, Locked
      <3>5. \A r \in Schedulers : Holds(r, i)' => r = s
        BY <2>1, <3>4 DEF Holds
      <3>6. d \notin fired /\ \A e \in fired : e.job = i => e.run < d.run
        <4>1. \A e \in fired : e.job = i => e.run < d.run
          BY <1>3, <3>1 DEF Good, Moved
        <4>2. d.run \in Nat
          BY <1>3, ConstantsTyped DEF Due
        <4>3. ~(d.run < d.run)
          BY <4>2
        <4> QED BY <2>3, <4>1, <4>3
      <3>7. row[i].failures <= misses[i]
        BY <1>3, <3>1 DEF Good, Counted
      <3>8. Alone(i)' /\ Locked(i)' /\ Unfired(i)'
        BY <1>1, <2>1, <3>3, <3>5, <3>6 DEF Alone, Locked, Unfired
      <3>9. Moved(i)' /\ Counted(i)'
        BY <1>1, <3>3, <3>6, <3>7 DEF Moved, Counted
      <3> QED BY <3>8, <3>9 DEF Good
    <2> QED BY <2>2, <2>3
  <1> QED BY <1>2, <1>4, <1>5, <1>6

\* A miss is counted once, and leaves no scheduler at the job.
LEMMA GoodMiss ==
  ASSUME WellFormed, Once, NEW s \in Schedulers, Miss(s), NEW i \in Jobs, i \notin mishap'
  PROVE  Good(i)'
  <1> DEFINE j == current[s].job
             n == row[j].failures + 1
  <1>t. row \in Rows /\ TypeOK /\ LoopTyped /\ HistoryTyped /\ Placed
    BY TypeSplit DEF WellFormed, TableTyped
  <1>1. UNCHANGED <<fired, mishap>> /\ pc[s] = "check" /\ j \in Jobs /\ Holds(s, j)
    BY <1>t DEF Miss, Placed, Busy, Due, Holds, Holding
  <1>2. Good(i)
    BY <1>1 DEF Once
  <1>3. /\ pc'[s] \notin Holding
        /\ \A r \in Schedulers \ {s} : pc'[r] = pc[r] /\ current'[r] = current[r]
    <2>1. Goto(s, "drop") \/ Goto(s, "work")
      BY DEF Miss
    <2>2. UNCHANGED current \/ current' = [current EXCEPT ![s] = Nothing]
      BY DEF Miss
    <2>3. \A r \in Schedulers \ {s} : current'[r] = current[r]
      BY <1>t, <2>2 DEF LoopTyped
    <2>4. /\ pc'[s] \in {"drop", "work"}
          /\ \A r \in Schedulers \ {s} : pc'[r] = pc[r]
      BY <1>t, <2>1, GotoTyped DEF SchedulerState
    <2> QED BY <2>3, <2>4 DEF Holding
  <1>4. \/ Exists(j) /\ row' = [row EXCEPT ![j].failures = n, ![j].lockedAt = Unlocked]
              /\ misses' = [misses EXCEPT ![j] = @ + 1]
        \/ UNCHANGED <<row, misses>>
    BY DEF Miss
  <1>5. CASE row'[i] = row[i] /\ misses'[i] = misses[i]
    <2>1. Kept(i)
      BY <1>1, <1>3, <1>5, LetGo
    <2> QED BY <1>2, <2>1, KeptGood
  <1>6. CASE /\ i = j /\ Exists(j) /\ misses' = [misses EXCEPT ![j] = @ + 1]
             /\ row' = [row EXCEPT ![j].failures = n, ![j].lockedAt = Unlocked]
    <2>1. row[i] \in Row /\ n \in Nat /\ row[i].nextRun \in Nat
      <3>1. row[i] \in Row
        BY <1>t, <1>6, TableOps
      <3> QED BY <1>6, <3>1, ConstantsTyped DEF Row
    <2>2. row'[i].failures = n /\ row'[i].nextRun = row[i].nextRun
      <3>1. row'[i] = [row[i] EXCEPT !.failures = n, !.lockedAt = Unlocked]
        <4> HIDE DEF n, j
        <4> QED BY <1>t, <1>6 DEF Rows
      <3> HIDE DEF n
      <3> QED BY <2>1, <3>1 DEF Row
    <2>3. \A r \in Schedulers : ~Holds(r, i)'
      <3>1. \A r \in Schedulers : Holds(r, i) => r = s
        BY <1>1, <1>2, <1>6 DEF Good, Alone
      <3> QED BY <1>3, <3>1 DEF Holds
    <2>4. \A d \in fired : d.job = i => d.run < row[i].nextRun
      <3> SUFFICES ASSUME NEW d \in fired, d.job = i, ~(d.run < row[i].nextRun) PROVE FALSE
        OBVIOUS
      <3>1. d.run = row[i].nextRun
        BY <1>2, <1>6 DEF Good, Moved
      <3>2. d = current[s]
        <4>1. current[s] \in Due /\ d \in Due
          BY <1>t, <1>1 DEF Placed, Busy, HistoryTyped
        <4>2. current[s].run = row[i].nextRun
          BY <1>1, <1>2, <1>6 DEF Good, Locked
        <4> QED BY <1>6, <3>1, <4>1, <4>2 DEF Due
      <3> QED BY <1>1, <1>2, <1>6, <3>2 DEF Good, Unfired
    <2>5. n <= misses'[i]
      <3>1. row[i].failures <= misses[i]
        BY <1>1, <1>2, <1>6 DEF Good, Counted
      <3>2. misses[i] \in Nat /\ misses'[i] = misses[i] + 1
        BY <1>t, <1>6 DEF HistoryTyped
      <3>3. row[i].failures \in Nat
        BY <2>1 DEF Row
      <3> QED BY <1>6, <3>1, <3>2, <3>3
    <2>6. Moved(i)' /\ Counted(i)'
      <3> HIDE DEF n
      <3> QED BY <1>1, <2>2, <2>4, <2>5 DEF Moved, Counted
    <2> QED BY <2>3, <2>6 DEF Good, Alone, Locked, Unfired
  <1>7. CASE i # j /\ Exists(j) /\ row' = [row EXCEPT ![j].failures = n, ![j].lockedAt = Unlocked]
              /\ misses' = [misses EXCEPT ![j] = @ + 1]
    <2>1. row'[i] = row[i] /\ misses'[i] = misses[i]
      <3> HIDE DEF n, j
      <3> QED BY <1>t, <1>1, <1>7 DEF Rows, HistoryTyped
    <2> QED BY <1>5, <2>1
  <1> QED BY <1>4, <1>5, <1>6, <1>7

\* What is pushed was never fired, and its row is locked until it moves on.
LEMMA GoodPush ==
  ASSUME WellFormed, Once, NEW s \in Schedulers, Push(s), NEW i \in Jobs, i \notin mishap'
  PROVE  Good(i)' /\ i \notin doubled'
  <1> DEFINE d == current[s]
  <1>t. TypeOK /\ LoopTyped /\ HistoryTyped /\ Placed
    BY TypeSplit DEF WellFormed
  <1>1. /\ UNCHANGED <<row, current, mishap>> /\ pc[s] = "push" /\ d \in Due
        /\ fired' = fired \union {d} /\ misses' = [misses EXCEPT ![d.job] = 0]
        /\ doubled' = IF d \in fired THEN doubled \union {d.job} ELSE doubled
    BY <1>t DEF Push, Placed, Busy, tableVars
  <1>2. Good(i) /\ i \notin doubled
    BY <1>1 DEF Once, FiredOnce
  <1>3. \A r \in Schedulers : pc'[r] = IF r = s THEN "sent" ELSE pc[r]
    BY <1>t, GotoTyped DEF Push, SchedulerState
  <1>4. CASE i # d.job
    <2>1. \A e \in fired' : e.job = i => e \in fired
      BY <1>1, <1>4
    <2>2. misses'[i] = misses[i]
      BY <1>t, <1>1, <1>4 DEF HistoryTyped
    <2>3. Kept(i)
      BY <1>1, <1>3, <1>4, <2>1, <2>2 DEF Kept, Holds, Exists, Lock
    <2> QED BY <1>1, <1>2, <1>4, <2>3, KeptGood
  <1>5. CASE i = d.job
    <2>1. Holds(s, i) /\ d \notin fired
      BY <1>1, <1>2, <1>5 DEF Good, Unfired, Holds, Holding
    <2>2. \A r \in Schedulers : Holds(r, i)' => r = s
      <3>1. \A r \in Schedulers : Holds(r, i) => r = s
        BY <1>2, <2>1 DEF Good, Alone
      <3> QED BY <1>1, <1>3, <3>1 DEF Holds
    <2>3. Exists(i) => Lock(i) # Unlocked /\ row[i].nextRun = d.run
      BY <1>2, <2>1 DEF Good, Locked
    <2>4. Alone(i)' /\ Locked(i)' /\ Unfired(i)'
      BY <1>1, <1>3, <2>2, <2>3 DEF Alone, Locked, Unfired, Exists, Lock
    <2>5. Moved(i)'
      BY <1>1, <1>2, <2>3 DEF Good, Moved, Exists, Lock
    <2>6. Counted(i)'
      BY <1>1, <1>3, <2>2, <2>3 DEF Counted, Exists, Lock
    <2> QED BY <1>1, <1>2, <2>1, <2>4, <2>5, <2>6 DEF Good
  <1> QED BY <1>4, <1>5

\* The row moves past the occurrence that was fired, or stays locked, or goes.
LEMMA GoodUpdate ==
  ASSUME WellFormed, Known, Once, NEW s \in Schedulers, Update(s), NEW i \in Jobs, i \notin mishap'
  PROVE  Good(i)'
  <1> DEFINE j == current[s].job
  <1>t. row \in Rows /\ TypeOK /\ LoopTyped /\ HistoryTyped /\ Placed
    BY TypeSplit DEF WellFormed, TableTyped
  <1>1. /\ UNCHANGED <<fired, misses, mishap>> /\ pc[s] = "sent" /\ current[s] \in Due
        /\ j \in Jobs /\ Holds(s, j) /\ current[s].run <= now[s]
    BY <1>t DEF Update, history, Placed, Busy, Due, Holds, Holding, Known
  <1>2. Good(i)
    BY <1>1 DEF Once
  <1>3. /\ pc'[s] \notin Holding
        /\ \A r \in Schedulers \ {s} : pc'[r] = pc[r] /\ current'[r] = current[r]
    <2>1. \A r \in Schedulers : pc'[r] = IF r = s THEN "work" ELSE pc[r]
      BY <1>t, GotoTyped DEF Update, SchedulerState
    <2>2. \A r \in Schedulers \ {s} : current'[r] = current[r]
      BY <1>t DEF Update, LoopTyped
    <2> QED BY <2>1, <2>2 DEF Holding
  <1>4. PICK next \in AnyTime :
          now[s] < next /\ row' \in {row, Removed(j), Rescheduled(j, next)}
    <2>1. now[s] \in Time /\ now[s] < Beyond
      BY <1>t, ConstantsTyped DEF LoopTyped, Time, Beyond
    <2>2. NextOccurrence(j, now[s]) \in AnyTime /\ now[s] < NextOccurrence(j, now[s])
      BY <1>1, <2>1, NextTyped
    <2>3. row' \in {row, Removed(j), Rescheduled(j, Beyond), Rescheduled(j, NextOccurrence(j, now[s]))}
      BY DEF Update
    <2> QED BY <2>1, <2>2, <2>3, ConstantsTyped
  <1>5. CASE row'[i] \in {row[i], NoRow}
    <2>1. Kept(i)
      BY <1>1, <1>3, <1>5, LetGo
    <2> QED BY <1>2, <2>1, KeptGood
  <1>6. CASE i = j /\ Exists(j) /\ row' = Rescheduled(j, next)
    <2>1. row'[i].nextRun = next /\ row'[i].failures = 0
      BY <1>t, <1>1, <1>6, TablePoints
    <2>2. \A r \in Schedulers : ~Holds(r, i)'
      <3>1. \A r \in Schedulers : Holds(r, i) => r = s
        BY <1>1, <1>2, <1>6 DEF Good, Alone
      <3> QED BY <1>3, <3>1 DEF Holds
    <2>3. \A d \in fired : d.job = i => d.run < next
      <3> SUFFICES ASSUME NEW d \in fired, d.job = i PROVE d.run < next
        OBVIOUS
      <3>1. row[i].nextRun = current[s].run
        BY <1>1, <1>2, <1>6 DEF Good, Locked
      <3>2. d.run < row[i].nextRun \/ d.run = row[i].nextRun
        BY <1>2, <1>6 DEF Good, Moved
      <3>3. d.run \in Nat /\ current[s].run \in Nat /\ now[s] \in Nat /\ next \in Nat
        BY <1>t, <1>1, <1>4, ConstantsTyped DEF HistoryTyped, LoopTyped, Due
      <3> QED BY <1>1, <1>4, <3>1, <3>2, <3>3
    <2>4. misses'[i] \in Nat
      BY <1>t, <1>1 DEF HistoryTyped
    <2>5. Moved(i)' /\ Counted(i)'
      BY <1>1, <2>1, <2>3, <2>4 DEF Moved, Counted
    <2> QED BY <2>2, <2>5 DEF Good, Alone, Locked, Unfired
  <1>7. CASE row' = Removed(j) \/ UNCHANGED row
    BY <1>t, <1>1, <1>5, <1>7, TablePoints
  <1>8. CASE row' = Rescheduled(j, next) /\ (i # j \/ ~Exists(j))
    BY <1>t, <1>1, <1>4, <1>5, <1>8, TablePoints
  <1> QED BY <1>4, <1>6, <1>7, <1>8

\* Every other step leaves every job alone.
LEMMA GoodQuiet ==
  ASSUME WellFormed, Once, NEW i \in Jobs, i \notin mishap',
         \/ \E s \in Schedulers :
              \/ Poll(s) \/ Reach(s) \/ Drop(s) \/ Plan(s) \/ Wake(s)
              \/ Consume(s) \/ AdapterChange(s) \/ Crash(s) \/ Restart(s)
         \/ Tick \/ UNCHANGED vars
  PROVE  Good(i)'
  <1>t. row \in Rows /\ TypeOK /\ LoopTyped /\ Placed
    BY TypeSplit DEF WellFormed, TableTyped
  <1>q. ASSUME Kept(i), UNCHANGED mishap PROVE Good(i)'
    BY <1>q, KeptGood DEF Once
  <1>1. ASSUME NEW s \in Schedulers, Poll(s) \/ Plan(s) \/ Wake(s) \/ Restart(s) PROVE Good(i)'
    <2>1. /\ UNCHANGED <<row, current, fired, misses, mishap>>
          /\ Goto(s, "work") \/ Goto(s, "sleep") \/ Goto(s, "poll")
      BY <1>1 DEF Poll, Plan, Wake, Restart, tableVars, history
    <2>2. pc'[s] \notin Holding /\ \A r \in Schedulers \ {s} : pc'[r] = pc[r]
      BY <1>t, <2>1, GotoTyped DEF SchedulerState, Holding
    <2> QED BY <1>q, <2>1, <2>2, LetGo
  <1>2. ASSUME NEW s \in Schedulers, Crash(s) PROVE Good(i)'
    <2>1. UNCHANGED <<row, fired, misses, mishap>> /\ Goto(s, "down")
      BY <1>2 DEF Crash, tableVars, history
    <2>2. pc'[s] \notin Holding /\ \A r \in Schedulers \ {s} : pc'[r] = pc[r]
      BY <1>t, <2>1, GotoTyped DEF SchedulerState, Holding
    <2>3. \A r \in Schedulers \ {s} : current'[r] = current[r]
      BY <1>2, <1>t DEF Crash, LoopTyped
    <2> QED BY <1>q, <2>1, <2>2, <2>3, LetGo
  <1>3. ASSUME NEW s \in Schedulers, Drop(s) PROVE Good(i)'
    <2>1. /\ UNCHANGED <<fired, misses, mishap>> /\ Goto(s, "work")
          /\ row' \in {row, Removed(current[s].job)} /\ current[s].job \in Jobs
      BY <1>3, <1>t DEF Drop, history, Placed, Busy, Due
    <2>2. pc'[s] \notin Holding /\ \A r \in Schedulers \ {s} : pc'[r] = pc[r]
      BY <1>t, <2>1, GotoTyped DEF SchedulerState, Holding
    <2>3. \A r \in Schedulers \ {s} : current'[r] = current[r]
      BY <1>3, <1>t DEF Drop, LoopTyped
    <2>4. row'[i] \in {row[i], NoRow}
      BY <1>t, <2>1, TablePoints
    <2> QED BY <1>q, <2>1, <2>2, <2>3, <2>4, LetGo
  <1>4. ASSUME NEW s \in Schedulers, Reach(s) PROVE Good(i)'
    <2>1. UNCHANGED <<row, current, fired, misses, mishap>> /\ pc[s] = "check" /\ Goto(s, "push")
      BY <1>4 DEF Reach, tableVars, history
    <2>2. \A r \in Schedulers : pc'[r] = IF r = s THEN "push" ELSE pc[r]
      BY <1>t, <2>1, GotoTyped DEF SchedulerState
    <2>3. Kept(i)
      BY <2>1, <2>2 DEF Kept, Holds, Holding, Exists, Lock
    <2> QED BY <1>q, <2>1, <2>3
  <1>5. CASE (\E s \in Schedulers : Consume(s) \/ AdapterChange(s)) \/ Tick \/ UNCHANGED vars
    <2>1. UNCHANGED <<row, pc, current, fired, misses, mishap>>
      BY <1>5 DEF Consume, AdapterChange, Tick, vars, tableVars, loopVars, history
    <2>2. Kept(i)
      BY <2>1 DEF Kept, Holds, Exists, Lock
    <2> QED BY <1>q, <2>1, <2>2
  <1> QED BY <1>1, <1>2, <1>3, <1>4, <1>5

LEMMA OnceNext == WellFormed /\ Known /\ Once /\ [Next]_vars => Once'
  <1> SUFFICES ASSUME WellFormed, Known, Once, [Next]_vars PROVE Once'
    OBVIOUS
  <1>1. ASSUME NEW i \in Jobs, i \notin mishap' PROVE Good(i)'
    <2>1. CASE (\E j \in Jobs : Create(j) \/ Delete(j) \/ EditRead(j)) \/ EditSave
      BY <1>1, <2>1, GoodUsers
    <2>2. CASE \E s \in Schedulers : Take(s) \/ Miss(s) \/ Push(s) \/ Update(s)
      BY <1>1, <2>2, GoodTake, GoodMiss, GoodPush, GoodUpdate
    <2>3. CASE \/ \E s \in Schedulers :
                    \/ Poll(s) \/ Reach(s) \/ Drop(s) \/ Plan(s) \/ Wake(s)
                    \/ Consume(s) \/ AdapterChange(s) \/ Crash(s) \/ Restart(s)
               \/ Tick \/ UNCHANGED vars
      BY <1>1, <2>3, GoodQuiet
    <2> QED BY <2>1, <2>2, <2>3 DEF Next, SchedulerStep
  <1>2. FiredOnce'
    <2>1. CASE \E s \in Schedulers : Push(s)
      <3>1. doubled' \in SUBSET Jobs
        BY TypedNext, TypeSplit DEF WellFormed, TypeOK
      <3> QED BY <2>1, <3>1, GoodPush DEF FiredOnce
    <2>2. CASE ~\E s \in Schedulers : Push(s)
      <3>1. ASSUME NEW j \in Jobs, Create(j) \/ Delete(j) \/ EditRead(j)
            PROVE  UNCHANGED <<doubled, mishap>>
        BY <3>1 DEF Create, Delete, EditRead, history
      <3>2. CASE EditSave
        BY <3>2 DEF EditSave, FiredOnce, Once
      <3>3. ASSUME NEW s \in Schedulers, Take(s) PROVE doubled' = doubled /\ mishap \subseteq mishap'
        BY <3>3 DEF Take
      <3>4. ASSUME NEW s \in Schedulers,
                   \/ Poll(s) \/ Reach(s) \/ Miss(s) \/ Drop(s) \/ Update(s) \/ Plan(s) \/ Wake(s)
                   \/ Consume(s) \/ AdapterChange(s) \/ Crash(s) \/ Restart(s)
            PROVE  UNCHANGED <<doubled, mishap>>
        BY <3>4 DEF Poll, Reach, Miss, Drop, Update, Plan, Wake, Consume, AdapterChange, Crash,
                    Restart, history
      <3>5. CASE Tick \/ UNCHANGED vars
        BY <3>5 DEF Tick, vars, history, FiredOnce, Once
      <3>6. CASE \E j \in Jobs : Create(j) \/ Delete(j) \/ EditRead(j)
        BY <3>1, <3>6 DEF FiredOnce, Once
      <3>7. CASE \E s \in Schedulers : Take(s)
        BY <3>3, <3>7 DEF FiredOnce, Once
      <3>8. CASE \E s \in Schedulers :
                   \/ Poll(s) \/ Reach(s) \/ Miss(s) \/ Drop(s) \/ Update(s) \/ Plan(s) \/ Wake(s)
                   \/ Consume(s) \/ AdapterChange(s) \/ Crash(s) \/ Restart(s)
        BY <3>4, <3>8 DEF FiredOnce, Once
      <3> QED BY <2>2, <3>2, <3>5, <3>6, <3>7, <3>8 DEF Next, SchedulerStep
    <2> QED BY <2>1, <2>2
  <1> QED BY <1>1, <1>2 DEF Once

LEMMA KnownNext == WellFormed /\ Known /\ [Next]_vars => Known'
  <1> SUFFICES ASSUME WellFormed, Known, [Next]_vars PROVE Known'
    OBVIOUS
  <1>t. row \in Rows /\ TypeOK /\ LoopTyped /\ Placed /\ TableTyped
    BY TypeSplit DEF WellFormed, TableTyped
  <1>r. ASSUME \A j \in Jobs : Exists(j)' => Exists(j) \/ j \in created', created \subseteq created'
        PROVE  \A j \in Jobs : Exists(j)' => j \in created'
    BY <1>r DEF Known
  <1>l. ASSUME UNCHANGED loopVars, created \subseteq created'
        PROVE  /\ \A s \in Schedulers : \A d \in batch'[s] : d.job \in created' /\ d.run <= now'[s]
               /\ \A s \in Schedulers :
                    pc'[s] \in Busy => current'[s].job \in created' /\ current'[s].run <= now'[s]
    BY <1>l DEF Known, loopVars
  <1>1. CASE \/ UNCHANGED vars \/ Tick
             \/ \E s \in Schedulers : Consume(s) \/ AdapterChange(s)
    BY <1>1, <1>l DEF vars, tableVars, loopVars, history, Tick, Consume, AdapterChange, Known, Exists
  <1>2. ASSUME NEW j \in Jobs, Create(j) PROVE Known'
    <2>1. /\ UNCHANGED <<edit, loopVars, fired>> /\ created' = created \union {j}
          /\ \A i \in Jobs \ {j} : row'[i] = row[i]
      BY <1>2, <1>t DEF Create, history, Rows
    <2> QED BY <1>l, <2>1 DEF Known, Exists
  <1>3. ASSUME NEW j \in Jobs, Delete(j) PROVE Known'
    <2>1. /\ UNCHANGED <<edit, loopVars, fired, created>>
          /\ \A i \in Jobs : row'[i] \in {row[i], NoRow}
      BY <1>3, <1>t, TablePoints DEF Delete, history
    <2> QED BY <1>l, <2>1 DEF Known, Exists
  <1>4. ASSUME NEW j \in Jobs, EditRead(j) PROVE Known'
    BY <1>4, <1>l DEF EditRead, tableVars, history, Known, Exists
  <1>5. CASE EditSave
    <2>1. /\ UNCHANGED <<loopVars, fired, created>> /\ edit' = NoEdit /\ edit # NoEdit
          /\ \A i \in Jobs \ {edit.job} : row'[i] = row[i]
      BY <1>5, <1>t DEF EditSave, Rows
    <2> QED BY <1>l, <2>1 DEF Known, Exists
  <1>6. ASSUME NEW s \in Schedulers, Poll(s) PROVE Known'
    <2>1. /\ UNCHANGED <<row, created, edit, current, fired>> /\ pc[s] = "poll"
          /\ \A r \in Schedulers \ {s} : batch'[r] = batch[r] /\ now'[r] = now[r]
          /\ now'[s] = clock
      BY <1>6, <1>t DEF Poll, tableVars, history, LoopTyped
    <2>2. \A d \in batch'[s] : d.job \in created /\ d.run <= clock
      <3>1. batch[s] = {}
        BY <1>t, <2>1 DEF Placed, Busy
      <3>2. \/ batch' = [batch EXCEPT ![s] = {[job |-> j, run |-> row[j].nextRun] :
                                                j \in {i \in Jobs : Exists(i) /\ IsDue(i)}}]
            \/ UNCHANGED batch
        BY <1>6 DEF Poll
      <3>3. \A d \in batch'[s] : \E j \in Jobs :
               Exists(j) /\ IsDue(j) /\ d = [job |-> j, run |-> row[j].nextRun]
        BY <1>t, <3>1, <3>2 DEF LoopTyped
      <3> QED BY <3>3 DEF IsDue, Known
    <2>3. \A r \in Schedulers : pc'[r] = IF r = s THEN "work" ELSE pc[r]
      BY <1>6, <1>t, GotoTyped DEF Poll, SchedulerState
    <2> QED BY <2>1, <2>2, <2>3 DEF Known, Exists, Busy
  <1>7. ASSUME NEW s \in Schedulers, Take(s) PROVE Known'
    <2>1. UNCHANGED <<created, edit, now, fired>>
      BY <1>7 DEF Take
    <2>2. PICK d \in batch[s] :
            /\ batch' = [batch EXCEPT ![s] = @ \ {d}]
            /\ \/ current' = [current EXCEPT ![s] = d] /\ Goto(s, "check")
               \/ UNCHANGED <<current, pc>>
            /\ row' = row \/ (Lockable(d.job) /\ row' = [row EXCEPT ![d.job].lockedAt = clock])
      BY <1>7 DEF Take
    <2>3. d.job \in created /\ d.job \in Jobs /\ d.run <= now[s]
      BY <1>t, <2>2 DEF Known, LoopTyped, Due
    <2>4. \A j \in Jobs : Exists(j)' => Exists(j)
      <3>1. row' = row \/ Exists(d.job)
        BY <2>2 DEF Lockable
      <3>2. \A j \in Jobs \ {d.job} : row'[j] = row[j]
        BY <1>t, <2>2 DEF Rows
      <3> QED BY <3>1, <3>2 DEF Exists
    <2>5. \A r \in Schedulers : batch'[r] \subseteq batch[r]
      BY <1>t, <2>2 DEF LoopTyped
    <2>6. \A r \in Schedulers : \/ pc'[r] = pc[r] /\ current'[r] = current[r]
                                \/ r = s /\ current'[r] = d
      <3>1. CASE current' = [current EXCEPT ![s] = d] /\ Goto(s, "check")
        BY <1>t, <3>1, GotoTyped DEF LoopTyped, SchedulerState
      <3> QED BY <2>2, <3>1
    <2> QED BY <2>1, <2>3, <2>4, <2>5, <2>6 DEF Known
  <1>8. ASSUME NEW s \in Schedulers, Reach(s) PROVE Known'
    <2>1. UNCHANGED <<row, created, edit, now, batch, current, fired>> /\ pc[s] = "check"
      BY <1>8 DEF Reach, tableVars, history
    <2>2. \A r \in Schedulers : pc'[r] = IF r = s THEN "push" ELSE pc[r]
      BY <1>8, <1>t, GotoTyped DEF Reach, SchedulerState
    <2> QED BY <2>1, <2>2 DEF Known, Exists, Busy
  <1>9. ASSUME NEW s \in Schedulers, Push(s) PROVE Known'
    <2>1. /\ UNCHANGED <<row, created, edit, now, batch, current>> /\ pc[s] = "push"
          /\ fired' = fired \union {current[s]}
      BY <1>9 DEF Push, tableVars
    <2>2. \A r \in Schedulers : pc'[r] = IF r = s THEN "sent" ELSE pc[r]
      BY <1>9, <1>t, GotoTyped DEF Push, SchedulerState
    <2> QED BY <2>1, <2>2 DEF Known, Exists, Busy
  <1>10. ASSUME NEW s \in Schedulers, Miss(s) \/ Drop(s) \/ Update(s) PROVE Known'
    <2>1. /\ UNCHANGED <<created, edit, now, batch, fired>>
          /\ pc[s] \in Busy /\ current[s].job \in Jobs
          /\ \/ Goto(s, "drop") /\ UNCHANGED current
             \/ Goto(s, "work") /\ current' = [current EXCEPT ![s] = Nothing]
      <3>1. pc[s] \in Busy
        BY <1>10 DEF Miss, Drop, Update, Busy
      <3> QED BY <1>10, <1>t, <3>1 DEF Miss, Drop, Update, history, Placed, Due
    <2>2. \A i \in Jobs : Exists(i)' => Exists(i)
      <3> DEFINE j == current[s].job
      <3>1. CASE Miss(s)
        <4>1. Exists(j) \/ UNCHANGED row
          BY <3>1 DEF Miss
        <4>2. \A i \in Jobs \ {j} : row'[i] = row[i]
          BY <1>t, <3>1 DEF Miss, Rows
        <4> QED BY <4>1, <4>2 DEF Exists
      <3>2. CASE Drop(s)
        BY <1>t, <2>1, <3>2, TablePoints DEF Drop, Exists
      <3>3. CASE Update(s)
        <4>1. PICK next \in AnyTime : row' \in {row, Removed(j), Rescheduled(j, next)}
          <5>1. NextOccurrence(j, now[s]) \in AnyTime /\ Beyond \in AnyTime
            BY <1>t, <2>1, NextTyped, ConstantsTyped DEF LoopTyped
          <5> QED BY <3>3, <5>1 DEF Update
        <4> QED BY <1>t, <2>1, <4>1, TablePoints DEF Exists
      <3> QED BY <1>10, <3>1, <3>2, <3>3
    <2>3. \A r \in Schedulers :
            pc'[r] \in Busy => pc[r] \in Busy /\ current'[r] = current[r]
      <3>1. CASE Goto(s, "drop") /\ UNCHANGED current
        BY <1>t, <2>1, <3>1, GotoTyped DEF SchedulerState
      <3>2. CASE Goto(s, "work") /\ current' = [current EXCEPT ![s] = Nothing]
        BY <1>t, <3>2, GotoTyped DEF SchedulerState, Busy, LoopTyped
      <3> QED BY <2>1, <3>1, <3>2
    <2> QED BY <2>1, <2>2, <2>3 DEF Known
  <1>11. ASSUME NEW s \in Schedulers, Plan(s) \/ Wake(s) \/ Crash(s) \/ Restart(s) PROVE Known'
    <2>1. UNCHANGED <<row, created, edit, now, fired>>
      BY <1>11 DEF Plan, Wake, Crash, Restart, tableVars, history
    <2>2. \A r \in Schedulers : batch'[r] \subseteq batch[r]
      BY <1>11, <1>t DEF Plan, Wake, Crash, Restart, LoopTyped
    <2>3. \A r \in Schedulers : pc'[r] \in Busy => pc'[r] = pc[r] /\ current'[r] = current[r]
      <3>1. /\ Goto(s, "sleep") \/ Goto(s, "poll") \/ Goto(s, "down")
            /\ UNCHANGED current \/ current' = [current EXCEPT ![s] = Nothing]
        BY <1>11 DEF Plan, Wake, Crash, Restart
      <3>2. \A r \in Schedulers \ {s} : pc'[r] = pc[r] /\ current'[r] = current[r]
        BY <1>t, <3>1, GotoTyped DEF LoopTyped, SchedulerState
      <3>3. pc'[s] \in {"sleep", "poll", "down"}
        BY <1>t, <3>1, GotoTyped DEF SchedulerState
      <3> QED BY <3>2, <3>3 DEF Busy
    <2> QED BY <2>1, <2>2, <2>3 DEF Known, Exists
  <1> QED BY <1>1, <1>2, <1>3, <1>4, <1>5, <1>6, <1>7, <1>8, <1>9, <1>10, <1>11 DEF Next, SchedulerStep

LEMMA StartsKnown == Init => Known /\ Once
  <1> SUFFICES ASSUME Init PROVE Known /\ Once
    OBVIOUS
  <1>1. \A j \in Jobs : ~Exists(j)
    BY DEF Init, Exists
  <1>2. \A s \in Schedulers : pc[s] = "poll" /\ batch[s] = {}
    BY DEF Init
  <1>3. Known
    BY <1>1, <1>2 DEF Init, Known, Busy
  <1>4. \A j \in Jobs : Good(j)
    BY <1>1, <1>2 DEF Init, Good, Alone, Locked, Unfired, Moved, Counted, Holds, Holding
  <1> QED BY <1>3, <1>4 DEF Init, Once, FiredOnce

Inductive == WellFormed /\ Known /\ Once

LEMMA InductiveInvariant == Spec => []Inductive
  <1>1. Init => Inductive
    BY TypedInit, StartsKnown DEF Inductive
  <1>2. Inductive /\ [Next]_vars => Inductive'
    BY TypedNext, KnownNext, OnceNext DEF Inductive
  <1> QED BY <1>1, <1>2, PTL DEF Spec

\* An occurrence is fired again only for a job that met a mishap: an expired lock
\* taken over, a lock taken from an outdated due list, an outdated copy saved.
THEOREM FiredOnlyOnce == Spec => []FiredOnce
  <1>1. Inductive => FiredOnce
    BY DEF Inductive, Once
  <1> QED BY <1>1, InductiveInvariant, PTL

\* A job without a mishap is given up only after MaxMisses misses in a row: the row
\* of a job somebody is about to count a miss for counts no more than there were.
THEOREM GivenUpOnlyWhenMissed == Spec => GivenUpWhenMissed
  <1>1. ASSUME Inductive, [Next]_vars, NEW s \in Schedulers, GivesUp(s)
        PROVE  misses'[current[s].job] >= MaxMisses \/ current[s].job \in mishap
    <2> DEFINE j == current[s].job
    <2>t. TypeOK /\ row \in Rows /\ LoopTyped /\ HistoryTyped /\ Placed
      BY <1>1, TypeSplit DEF Inductive, WellFormed, TableTyped
    <2>1. Miss(s)
      <3>1. ASSUME NEW r \in Schedulers, r # s, NEW state \in SchedulerState, Goto(r, state)
            PROVE  FALSE
        BY <1>1, <2>t, <3>1, GotoTyped DEF GivesUp
      <3>2. ASSUME NEW state \in SchedulerState \ {"drop"}, Goto(s, state)
            PROVE  FALSE
        BY <1>1, <2>t, <3>2, GotoTyped DEF GivesUp
      <3>3. ASSUME UNCHANGED pc PROVE FALSE
        BY <1>1, <3>3 DEF GivesUp
      <3>4. ASSUME NEW r \in Schedulers, SchedulerStep(r) \/ Crash(r) \/ Restart(r) PROVE Miss(s)
        <4>1. CASE Miss(r)
          <5>1. Goto(r, "drop") \/ Goto(r, "work")
            BY <4>1 DEF Miss
          <5> QED BY <3>1, <4>1, <5>1 DEF SchedulerState
        <4>2. CASE ~Miss(r)
          <5>1. UNCHANGED pc \/ \E state \in SchedulerState \ {"drop"} : Goto(r, state)
            BY <3>4, <4>2 DEF SchedulerStep, Poll, Take, Reach, Drop, Push, Update, Plan, Wake, Crash,
                              Restart, SchedulerState
          <5> QED BY <3>1, <3>2, <3>3, <5>1
        <4> QED BY <4>1, <4>2
      <3>5. CASE \/ (\E i \in Jobs : Create(i) \/ Delete(i) \/ EditRead(i)) \/ EditSave
                 \/ (\E r \in Schedulers : Consume(r) \/ AdapterChange(r)) \/ Tick \/ UNCHANGED vars
        <4>1. UNCHANGED pc
          BY <3>5 DEF Create, Delete, EditRead, EditSave, Consume, AdapterChange, Tick, vars, loopVars
        <4> QED BY <3>3, <4>1
      <3> QED BY <1>1, <3>4, <3>5 DEF Next
    <2>2. /\ Exists(j) /\ misses' = [misses EXCEPT ![j] = @ + 1]
          /\ row[j].failures + 1 >= MaxMisses
          /\ pc[s] = "check" /\ j \in Jobs
      <3>1. pc[s] = "check" /\ j \in Jobs
        BY <2>t, <2>1 DEF Miss, Placed, Busy, Due
      <3>2. ~Goto(s, "work")
        BY <1>1, <2>t, GotoTyped DEF GivesUp, SchedulerState
      <3> QED BY <2>1, <3>1, <3>2 DEF Miss
    <2>3. CASE j \notin mishap
      <3>1. row[j].failures <= misses[j]
        BY <1>1, <2>2, <2>3 DEF Inductive, Once, Good, Counted, Holds, Holding
      <3>2. misses[j] \in Nat /\ misses'[j] = misses[j] + 1
        <4> HIDE DEF j
        <4> QED BY <2>t, <2>2 DEF HistoryTyped
      <3>3. row[j].failures \in Nat
        BY <2>t, <2>2, TableOps DEF Row
      <3>4. misses'[j] >= MaxMisses
        BY <2>2, <3>1, <3>2, <3>3, ConstantsTyped
      <3> QED BY <3>4
    <2> QED BY <2>3
  <1>2. Inductive /\ [Next]_vars =>
          [\A s \in Schedulers :
             GivesUp(s) => \/ misses'[current[s].job] >= MaxMisses
                           \/ current[s].job \in mishap]_vars
    BY <1>1
  <1> QED BY <1>2, InductiveInvariant, PTL DEF Spec, GivenUpWhenMissed
----------------------------------------------------------------------------
(* A due job is handled at once by the one scheduler there is, but for what*)
(* each fault costs.                                                       *)

\* One process runs a scheduler, nobody edits jobs, and an idle scheduler looks again
\* within the time after which a lock may be taken over (both 5 min in the code).
OneProcess ==
  /\ \A s, r \in Schedulers : s = r
  /\ MaxEdits = 0
  /\ IdleSleep <= LockTTL + 1

\* What the faults so far may have cost.
Allowed == (crashes + errors) * (LockTTL + 1)

\* A row that is locked with no holder was left behind by a fault, and is late by no
\* more than the faults allow when its lock expires.
LeftBehind(j) == Exists(j) /\ Lock(j) # Unlocked /\ \A s \in Schedulers : ~Holds(s, j)
LockPaidFor(j) ==
  /\ Exists(j) => Lock(j) <= clock
  /\ LeftBehind(j) => late[j] + Lock(j) + LockTTL + 1 - clock <= Allowed

\* A sleeping scheduler wakes in time for the row, or sleeps because a call failed.
Oversleeps(s, j) ==
  /\ pc[s] = "sleep" /\ s \notin notified
  /\ Exists(j) /\ row[j].enabled /\ row[j].nextRun < wake[s]
SleepPaidFor(j) ==
  \A s \in Schedulers : Oversleeps(s, j) => late[j] + wake[s] - clock <= Allowed

Timely(j) == late[j] <= Allowed /\ LockPaidFor(j) /\ SleepPaidFor(j)
AllTimely == edit = NoEdit /\ \A j \in Jobs : Timely(j)

LEMMA LockTyped ==
  ASSUME NEW t \in Time \union {Unlocked}
  PROVE  t \in Int /\ (t # Unlocked => t \in Nat)
  <1>1. CASE t \in Time
    <2>1. t \in Nat
      BY <1>1, ConstantsTyped
    <2> QED BY <2>1
  <1>2. CASE t = Unlocked
    BY <1>2 DEF Unlocked
  <1> QED BY <1>1, <1>2

LEMMA AllowedFacts ==
  ASSUME WellFormed
  PROVE  /\ Allowed \in Nat /\ LockTTL + 1 \in Nat /\ crashes \in Nat /\ errors \in Nat
         /\ clock \in Nat
         /\ \A j \in Jobs : late[j] \in Nat
         /\ \A j \in Jobs : Exists(j) => row[j].nextRun \in Nat /\ Lock(j) \in Int
                                         /\ (Lock(j) # Unlocked => Lock(j) \in Nat)
         /\ \A s \in Schedulers : wake[s] \in Nat
         /\ Unlocked = -1
  <1>t. TableTyped /\ LoopTyped /\ AroundTyped /\ HistoryTyped
    BY TypeSplit DEF WellFormed
  <1>1. crashes \in Nat /\ errors \in Nat /\ clock \in Nat
    BY <1>t, ConstantsTyped DEF AroundTyped
  <1>2. LockTTL + 1 \in Nat
    BY ConstantsTyped
  <1>3. Allowed \in Nat
    <2>1. \A a, b \in Nat : a * b \in Nat
      OBVIOUS
    <2>2. crashes + errors \in Nat
      BY <1>1
    <2> QED BY <1>2, <2>1, <2>2 DEF Allowed
  <1>4. \A j \in Jobs : late[j] \in Nat
    BY <1>t DEF HistoryTyped
  <1>5. \A s \in Schedulers : wake[s] \in Nat
    BY <1>t, ConstantsTyped DEF LoopTyped
  <1>6. ASSUME NEW j \in Jobs, Exists(j)
        PROVE  row[j].nextRun \in Nat /\ Lock(j) \in Int /\ (Lock(j) # Unlocked => Lock(j) \in Nat)
    <2>1. row[j] \in Row
      BY <1>t, <1>6, TableOps DEF TableTyped
    <2>2. row[j].nextRun \in AnyTime /\ Lock(j) \in Time \union {Unlocked}
      BY <2>1 DEF Row, Lock
    <2>3. row[j].nextRun \in Nat
      BY <2>2, ConstantsTyped
    <2>4. Lock(j) \in Int /\ (Lock(j) # Unlocked => Lock(j) \in Nat)
      BY <2>2, LockTyped
    <2> QED BY <2>3, <2>4
  <1> QED BY <1>1, <1>2, <1>3, <1>4, <1>5, <1>6 DEF Unlocked

\* A fault allows for one lock TTL more.
LEMMA FaultAllows ==
  ASSUME WellFormed, WellFormed',
         \/ crashes' = crashes + 1 /\ errors' = errors
         \/ crashes' = crashes /\ errors' = errors + 1
  PROVE  Allowed' = Allowed + LockTTL + 1
  <1>1. crashes \in Nat /\ errors \in Nat /\ LockTTL + 1 \in Nat /\ LockTTL \in Nat
    BY AllowedFacts, ConstantsTyped
  <1>2. crashes' + errors' = crashes + errors + 1
    BY <1>1
  <1>3. \A a, b \in Nat : (a + 1) * b = a * b + b
    OBVIOUS
  <1>4. crashes + errors \in Nat
    BY <1>1
  <1>5. (crashes + errors + 1) * (LockTTL + 1) = Allowed + (LockTTL + 1)
    BY <1>1, <1>3, <1>4 DEF Allowed
  <1>6. Allowed \in Nat
    BY AllowedFacts
  <1>7. Allowed' = (crashes' + errors') * (LockTTL + 1)
    BY DEF Allowed
  <1> QED BY <1>1, <1>2, <1>5, <1>6, <1>7

\* A step without a fault, or with one.
Faultless == UNCHANGED <<crashes, errors>>
Faulty == \/ crashes' = crashes + 1 /\ errors' = errors
          \/ crashes' = crashes /\ errors' = errors + 1

\* What a step in no time may do to a row: leave it locked and held, or unlocked, or
\* pay for it with a fault.
LEMMA LockStaysPaidFor ==
  ASSUME WellFormed, WellFormed', NEW j \in Jobs, Timely(j), UNCHANGED <<clock, late>>,
         Faultless \/ Faulty,
         \/ ~Exists(j)' \/ Lock(j)' = Unlocked
         \/ Lock(j)' <= clock /\ \E s \in Schedulers : Holds(s, j)'
         \/ Lock(j)' <= clock /\ Faulty
         \/ LeftBehind(j) /\ row'[j] = row[j]
  PROVE  late'[j] <= Allowed' /\ LockPaidFor(j)'
  <1>1. /\ Allowed \in Nat /\ LockTTL \in Nat /\ clock \in Nat /\ late[j] \in Nat
        /\ late[j] <= Allowed /\ LockPaidFor(j)
    BY AllowedFacts, ConstantsTyped DEF Timely
  <1>2. Exists(j)' => Lock(j)' \in Int
    <2> SUFFICES ASSUME Exists(j)' PROVE Lock(j)' \in Int
      OBVIOUS
    <2>1. row'[j] \in Row
      BY DEF WellFormed, TypeOK, Exists
    <2>2. Lock(j)' \in Time \union {Unlocked}
      BY <2>1 DEF Row, Lock
    <2> QED BY <2>2, LockTyped
  <1>3. CASE Faulty
    <2>1. Allowed' = Allowed + LockTTL + 1
      BY <1>3, FaultAllows DEF Faulty
    <2>2. Exists(j)' => Lock(j)' <= clock
      BY <1>1, <1>2 DEF LockPaidFor, LeftBehind, Lock, Unlocked, Exists
    <2> QED BY <1>1, <1>2, <2>1, <2>2 DEF LockPaidFor, LeftBehind
  <1>4. CASE Faultless
    <2>1. Allowed' = Allowed
      BY <1>4 DEF Allowed, Faultless
    <2>2. CASE ~Exists(j)' \/ Lock(j)' = Unlocked
      BY <1>1, <2>1, <2>2 DEF LockPaidFor, LeftBehind, Unlocked
    <2>3. CASE Lock(j)' <= clock /\ \E s \in Schedulers : Holds(s, j)'
      BY <1>1, <2>1, <2>3 DEF LockPaidFor, LeftBehind
    <2>4. CASE LeftBehind(j) /\ row'[j] = row[j]
      <3>1. Exists(j) /\ Lock(j)' = Lock(j)
        BY <2>4 DEF Lock, LeftBehind
      <3>2. late[j] + Lock(j) + LockTTL + 1 - clock <= Allowed /\ Lock(j) <= clock
        BY <1>1, <2>4, <3>1 DEF LockPaidFor
      <3> QED BY <1>1, <2>1, <3>1, <3>2 DEF LockPaidFor
    <2>5. CASE Lock(j)' <= clock /\ Faulty
      <3>1. crashes \in Nat /\ errors \in Nat
        BY AllowedFacts
      <3> QED BY <1>4, <2>5, <3>1 DEF Faulty, Faultless
    <2> QED BY <2>2, <2>3, <2>4, <2>5
  <1> QED BY <1>3, <1>4

\* Of the sleeping, what was paid for stays so.
LEMMA SleepStaysPaidFor ==
  ASSUME WellFormed, WellFormed', NEW j \in Jobs, Timely(j), UNCHANGED <<clock, late>>,
         Faultless \/ Faulty,
         \A s \in Schedulers :
           Oversleeps(s, j)' => \/ Oversleeps(s, j) /\ wake'[s] = wake[s]
                                \/ Faulty /\ wake'[s] <= clock + LockTTL + 1
  PROVE  SleepPaidFor(j)'
  <1>1. /\ Allowed \in Nat /\ LockTTL \in Nat /\ clock \in Nat /\ late[j] \in Nat
        /\ late[j] <= Allowed
    BY AllowedFacts, ConstantsTyped DEF Timely
  <1>2. Faulty => Allowed' = Allowed + LockTTL + 1
    BY FaultAllows DEF Faulty
  <1>3. Faultless => Allowed' = Allowed
    BY DEF Faultless, Allowed
  <1> SUFFICES ASSUME NEW s \in Schedulers, Oversleeps(s, j)'
               PROVE  late'[j] + wake'[s] - clock' <= Allowed'
    BY DEF SleepPaidFor
  <1>4. wake[s] \in Nat /\ wake'[s] \in Nat
    BY AllowedFacts, ConstantsTyped DEF WellFormed, TypeOK
  <1>5. CASE Oversleeps(s, j) /\ wake'[s] = wake[s]
    <2>1. late[j] + wake[s] - clock <= Allowed
      BY <1>5 DEF Timely, SleepPaidFor
    <2> QED BY <1>1, <1>2, <1>3, <1>4, <1>5, <2>1
  <1>6. CASE Faulty /\ wake'[s] <= clock + LockTTL + 1
    BY <1>1, <1>2, <1>4, <1>6
  <1> QED BY <1>5, <1>6

\* A step that touches neither the row of a job nor its holder nor the sleepers.
LEMMA TimelyAside ==
  ASSUME WellFormed, WellFormed', NEW j \in Jobs, Timely(j), UNCHANGED <<clock, late>>,
         Faultless \/ Faulty, row'[j] = row[j],
         \A s \in Schedulers : Holds(s, j) => Holds(s, j)',
         \A s \in Schedulers :
           Oversleeps(s, j)' => \/ Oversleeps(s, j) /\ wake'[s] = wake[s]
                                \/ Faulty /\ wake'[s] <= clock + LockTTL + 1
  PROVE  Timely(j)'
  <1>1. Exists(j)' => Exists(j) /\ Lock(j)' = Lock(j) /\ Lock(j) <= clock
    BY DEF Exists, Lock, Timely, LockPaidFor
  <1>2. \/ ~Exists(j)' \/ Lock(j)' = Unlocked
        \/ Lock(j)' <= clock /\ \E s \in Schedulers : Holds(s, j)'
        \/ LeftBehind(j) /\ row'[j] = row[j]
    BY <1>1 DEF LeftBehind
  <1>3. late'[j] <= Allowed' /\ LockPaidFor(j)'
    BY <1>2, LockStaysPaidFor
  <1>4. SleepPaidFor(j)'
    BY SleepStaysPaidFor
  <1> QED BY <1>3, <1>4 DEF Timely

\* A step of a scheduler in a round, which does not sleep afterwards.
LEMMA TimelyAwake ==
  ASSUME OneProcess, WellFormed, WellFormed', NEW j \in Jobs, Timely(j), UNCHANGED <<clock, late>>,
         Faultless \/ Faulty, NEW s \in Schedulers, pc'[s] # "sleep",
         \/ ~Exists(j)' \/ Lock(j)' = Unlocked
         \/ Lock(j)' <= clock /\ Holds(s, j)'
         \/ Lock(j)' <= clock /\ Faulty
         \/ LeftBehind(j) /\ row'[j] = row[j]
  PROVE  Timely(j)'
  <1>1. late'[j] <= Allowed' /\ LockPaidFor(j)'
    BY LockStaysPaidFor
  <1>2. \A r \in Schedulers : ~Oversleeps(r, j)'
    BY DEF OneProcess, Oversleeps
  <1>3. SleepPaidFor(j)'
    BY <1>2 DEF SleepPaidFor
  <1> QED BY <1>1, <1>3 DEF Timely

LEMMA RescheduledPoints ==
  ASSUME row \in Rows, NEW j \in Jobs, NEW i \in Jobs, NEW next \in AnyTime
  PROVE  /\ i # j \/ ~Exists(j) => Rescheduled(j, next)[i] = row[i]
         /\ Exists(j) => Rescheduled(j, next)[j].lockedAt = Unlocked
  <1>1. CASE ~Exists(j)
    BY <1>1 DEF Rescheduled
  <1>2. CASE Exists(j)
    <2> DEFINE r == [row[j] EXCEPT !.nextRun = next, !.failures = 0, !.lockedAt = Unlocked]
    <2>1. Rescheduled(j, next) = [row EXCEPT ![j] = r]
      BY <1>2 DEF Rescheduled, Rows
    <2>2. r.lockedAt = Unlocked
      BY <1>2, TableOps DEF Row
    <2> HIDE DEF r
    <2> QED BY <1>2, <2>1, <2>2 DEF Rows
  <1> QED BY <1>1, <1>2

\* A row that a scheduler in a round does not touch.
LEMMA TimelyUntouched ==
  ASSUME OneProcess, WellFormed, WellFormed', NEW j \in Jobs, Timely(j), UNCHANGED <<clock, late>>,
         Faultless \/ Faulty, NEW s \in Schedulers, pc'[s] # "sleep",
         row'[j] = row[j], Holds(s, j) => Holds(s, j)' \/ Faulty
  PROVE  Timely(j)'
  <1>1. Exists(j)' => Exists(j) /\ Lock(j)' = Lock(j) /\ Lock(j) <= clock
    BY DEF Exists, Lock, Timely, LockPaidFor
  <1>2. ~Holds(s, j) => \A r \in Schedulers : ~Holds(r, j)
    BY DEF OneProcess
  <1>3. \/ ~Exists(j)' \/ Lock(j)' = Unlocked
        \/ Lock(j)' <= clock /\ Holds(s, j)'
        \/ Lock(j)' <= clock /\ Faulty
        \/ LeftBehind(j) /\ row'[j] = row[j]
    BY <1>1, <1>2 DEF LeftBehind
  <1> QED BY <1>3, TimelyAwake

LEMMA FailIsFault ==
  ASSUME UNCHANGED crashes
  PROVE  (UNCHANGED errors => Faultless) /\ (Fail => Faulty)
  BY DEF Faultless, Faulty, Fail

\* What a failed run writes, in the job's row and in no other.
LEMMA MissWrites ==
  ASSUME row \in Rows, NEW i \in Jobs, Exists(i), NEW j \in Jobs,
         row' = [row EXCEPT ![i].failures = row[i].failures + 1, ![i].lockedAt = Unlocked]
  PROVE  (j = i => row'[j].lockedAt = Unlocked) /\ (j # i => row'[j] = row[j])
  <1> DEFINE first == [row EXCEPT ![i].failures = row[i].failures + 1]
  <1>1. row[i] \in Row /\ DOMAIN row = Jobs
    BY DEF Rows, Exists
  <1>2. DOMAIN first = Jobs
    BY <1>1
  <1>3. first[i] = [row[i] EXCEPT !.failures = row[i].failures + 1]
    BY <1>1
  <1>4. j # i => first[j] = row[j]
    BY <1>1
  <1>5. "lockedAt" \in DOMAIN first[i]
    BY <1>1, <1>3 DEF Row
  <1>6. row' = [first EXCEPT ![i].lockedAt = Unlocked]
    OBVIOUS
  <1> HIDE DEF first
  <1>7. row'[i] = [first[i] EXCEPT !.lockedAt = Unlocked]
    BY <1>2, <1>6
  <1>8. j # i => row'[j] = first[j]
    BY <1>2, <1>6
  <1>9. row'[i].lockedAt = Unlocked
    BY <1>5, <1>7
  <1> QED BY <1>4, <1>8, <1>9

LEMMA TimelyRound ==
  ASSUME OneProcess, WellFormed, WellFormed', NEW j \in Jobs, Timely(j), NEW s \in Schedulers,
         Poll(s) \/ Take(s) \/ Reach(s) \/ Miss(s) \/ Push(s) \/ Wake(s)
  PROVE  Timely(j)'
  <1>t. row \in Rows /\ TypeOK /\ Placed /\ clock \in Nat /\ row' \in [Jobs -> Row \union {NoRow}]
    BY TypeSplit, AllowedFacts DEF WellFormed, TableTyped, TypeOK
  <1>u. UNCHANGED <<clock, late, crashes>>
    BY DEF Poll, Take, Reach, Miss, Push, Wake, history, budgets
  <1>f. (UNCHANGED errors => Faultless) /\ (Fail => Faulty)
    BY <1>u, FailIsFault
  <1>1. CASE Poll(s)
    <2>1. pc'[s] = "work" /\ ~Holds(s, j) /\ row' = row
      BY <1>1, <1>t, GotoTyped DEF Poll, Holds, Holding, tableVars, SchedulerState
    <2>2. Faultless \/ Faulty
      BY <1>1, <1>f DEF Poll
    <2> QED BY <1>u, <2>1, <2>2, TimelyUntouched
  <1>2. CASE Wake(s)
    <2>1. pc'[s] = "poll" /\ ~Holds(s, j) /\ row' = row
      BY <1>2, <1>t, GotoTyped DEF Wake, Holds, Holding, tableVars, SchedulerState
    <2>2. Faultless
      BY <1>2 DEF Wake, budgets, Faultless
    <2> QED BY <1>u, <2>1, <2>2, TimelyUntouched
  <1>3. CASE Reach(s) \/ Push(s)
    <2>1. PICK state \in {"push", "sent"} : Goto(s, state)
      BY <1>3 DEF Reach, Push
    <2>2. pc'[s] = state /\ current' = current /\ row' = row
      BY <1>3, <2>1, <1>t, GotoTyped DEF Reach, Push, tableVars, SchedulerState
    <2>3. Holds(s, j) => Holds(s, j)'
      BY <2>1, <2>2 DEF Holds, Holding
    <2>4. Faultless
      BY <1>3 DEF Reach, Push, budgets, Faultless
    <2> QED BY <1>u, <2>1, <2>2, <2>3, <2>4, TimelyUntouched
  <1>4. CASE Miss(s)
    <2> DEFINE i == current[s].job
    <2>1. PICK state \in {"drop", "work"} : Goto(s, state)
      BY <1>4 DEF Miss
    <2>2. pc'[s] = state /\ i \in Jobs /\ (Holds(s, j) => j = i)
      BY <1>4, <2>1, <1>t, GotoTyped DEF Miss, Holds, Placed, Busy, Due, SchedulerState
    <2>3. Faultless \/ Faulty
      BY <1>4, <1>f DEF Miss
    <2>4. CASE row' = row /\ ~Exists(i)
      <3>1. j = i => ~Exists(j)'
        BY <2>4 DEF Exists
      <3>2. CASE j = i
        BY <1>u, <2>1, <2>2, <2>3, <3>1, <3>2, TimelyAwake
      <3>3. CASE j # i
        BY <1>u, <2>1, <2>2, <2>3, <2>4, <3>3, TimelyUntouched
      <3> QED BY <3>2, <3>3
    <2>5. CASE row' = row /\ Fail
      BY <1>f, <1>u, <2>1, <2>2, <2>3, <2>5, TimelyUntouched
    <2>6. CASE Exists(i) /\ row' = [row EXCEPT ![i].failures = row[i].failures + 1,
                                              ![i].lockedAt = Unlocked]
      <3>1. i \in Jobs /\ row \in Rows
        BY <1>t, <2>2
      <3>2. (j = i => row'[j].lockedAt = Unlocked) /\ (j # i => row'[j] = row[j])
        BY <2>6, <3>1, MissWrites
      <3>4. CASE j = i
        <4>1. Lock(j)' = Unlocked
          BY <3>2, <3>4 DEF Lock
        <4> QED BY <1>u, <2>1, <2>2, <2>3, <4>1, TimelyAwake
      <3>5. CASE j # i
        BY <1>u, <2>1, <2>2, <2>3, <3>2, <3>5, TimelyUntouched
      <3> QED BY <3>4, <3>5
    <2> QED BY <1>4, <2>4, <2>5, <2>6 DEF Miss
  <1>5. CASE Take(s)
    <2>1. PICK d \in batch[s] :
            \/ /\ Lockable(d.job)
               /\ row' = [row EXCEPT ![d.job].lockedAt = clock]
               /\ current' = [current EXCEPT ![s] = d]
               /\ Goto(s, "check")
               /\ UNCHANGED errors
            \/ UNCHANGED <<row, pc, errors>>
            \/ /\ Fail
               /\ \/ UNCHANGED row
                  \/ Lockable(d.job) /\ row' = [row EXCEPT ![d.job].lockedAt = clock]
               /\ UNCHANGED pc
      BY <1>5 DEF Take
    <2>2. pc[s] = "work" /\ ~Holds(s, j) /\ d \in Due /\ d.job \in Jobs
      BY <1>5, <1>t, <2>1 DEF Take, Holds, Holding, TypeOK, Due
    <2>3. Lockable(d.job) => Exists(d.job)
      BY DEF Lockable
    <2>4. CASE UNCHANGED <<row, pc>> /\ (UNCHANGED errors \/ Fail)
      BY <1>f, <1>u, <2>2, <2>4, TimelyUntouched
    <2>5. CASE Lockable(d.job) /\ row' = [row EXCEPT ![d.job].lockedAt = clock]
      <3>1. row'[j] = IF j = d.job THEN [row[j] EXCEPT !.lockedAt = clock] ELSE row[j]
        BY <1>t, <2>2, <2>5, TablePoints
      <3>2. j = d.job => Lock(j)' = clock
        <4> SUFFICES ASSUME j = d.job PROVE Lock(j)' = clock
          OBVIOUS
        <4>1. row[j] \in Row
          BY <1>t, <2>3, <2>5, TableOps
        <4>2. row'[j].lockedAt = clock
          BY <3>1, <4>1 DEF Row
        <4> QED BY <4>2 DEF Lock
      <3>3. /\ pc'[s] \in {"work", "check"}
            /\ Faultless \/ Faulty
            /\ Faulty \/ (pc'[s] = "check" /\ current'[s] = d)
        <4>1. CASE Goto(s, "check") /\ current' = [current EXCEPT ![s] = d] /\ UNCHANGED errors
          <5>1. pc'[s] = "check"
            BY <1>t, <4>1, GotoTyped DEF SchedulerState
          <5>2. current'[s] = d
            BY <1>t, <4>1 DEF TypeOK
          <5> QED BY <1>f, <4>1, <5>1, <5>2
        <4>2. CASE Fail /\ UNCHANGED pc
          BY <1>f, <2>2, <4>2
        <4>3. CASE UNCHANGED <<row, pc, errors>>
          <5>1. Lock(d.job)' = clock /\ Lock(d.job)' = Lock(d.job)
            <6>1. row[d.job] \in Row
              BY <1>t, <2>2, <2>3, <2>5, TableOps
            <6>2. row'[d.job] = [row[d.job] EXCEPT !.lockedAt = clock]
              BY <1>t, <2>2, <2>5, TablePoints
            <6> QED BY <4>3, <6>1, <6>2 DEF Lock, Row
          <5>2. Lock(d.job) # Unlocked /\ Lock(d.job) = clock
            BY <1>t, <5>1 DEF Unlocked
          <5>3. clock < clock - LockTTL
            BY <2>5, <5>2 DEF Lockable, Expired
          <5> QED BY <1>t, <5>3, ConstantsTyped
        <4> QED BY <2>1, <4>1, <4>2, <4>3
      <3>4. CASE j = d.job
        <4>1. Lock(j)' <= clock
          BY <1>t, <3>2, <3>4
        <4>2. Faulty \/ Holds(s, j)'
          BY <3>3, <3>4 DEF Holds, Holding
        <4> QED BY <1>u, <3>3, <4>1, <4>2, TimelyAwake
      <3>5. CASE j # d.job
        BY <1>u, <2>2, <3>1, <3>3, <3>5, TimelyUntouched
      <3> QED BY <3>4, <3>5
    <2> QED BY <2>1, <2>4, <2>5
  <1> QED BY <1>1, <1>2, <1>3, <1>4, <1>5

\* A job is removed or rescheduled, and so unlocked, or the call fails.
LEMMA TimelyDone ==
  ASSUME OneProcess, WellFormed, WellFormed', NEW j \in Jobs, Timely(j), NEW s \in Schedulers,
         Drop(s) \/ Update(s)
  PROVE  Timely(j)'
  <1> DEFINE i == current[s].job
  <1>t. row \in Rows /\ TypeOK /\ Placed
    BY TypeSplit DEF WellFormed, TableTyped
  <1>u. UNCHANGED <<clock, late, crashes>>
    BY DEF Drop, Update, history
  <1>f. (UNCHANGED errors => Faultless) /\ (Fail => Faulty)
    BY <1>u, FailIsFault
  <1>1. Goto(s, "work") /\ pc[s] \in {"drop", "sent"}
    BY DEF Drop, Update
  <1>2. pc'[s] = "work" /\ current[s] \in Due /\ i \in Jobs /\ (Holds(s, j) => j = i)
    BY <1>1, <1>t, GotoTyped DEF Holds, Placed, Busy, Due, SchedulerState
  <1>n. NextOccurrence(i, now[s]) \in AnyTime /\ Beyond \in AnyTime
    BY <1>t, <1>2, NextTyped, ConstantsTyped DEF TypeOK
  <1>3. /\ Faultless \/ Faulty
        /\ \/ row' = row /\ Faulty
           \/ row' = Removed(i)
           \/ \E next \in AnyTime : row' = Rescheduled(i, next)
    <2>1. CASE Drop(s)
      BY <1>f, <2>1 DEF Drop
    <2>2. CASE Update(s)
      BY <1>f, <1>n, <2>2 DEF Update
    <2> QED BY <2>1, <2>2
  <1>4. CASE row' = row /\ Faulty
    BY <1>u, <1>2, <1>4, TimelyUntouched
  <1>5. CASE row' = Removed(i)
    <2>1. row'[j] = IF j = i THEN NoRow ELSE row[j]
      BY <1>t, <1>2, <1>5, TablePoints
    <2>2. CASE j = i
      <3>1. ~Exists(j)'
        BY <2>1, <2>2 DEF Exists
      <3> QED BY <1>u, <1>2, <1>3, <3>1, TimelyAwake
    <2>3. CASE j # i
      BY <1>u, <1>2, <1>3, <2>1, <2>3, TimelyUntouched
    <2> QED BY <2>2, <2>3
  <1>6. ASSUME NEW next \in AnyTime, row' = Rescheduled(i, next) PROVE Timely(j)'
    <2>1. /\ j # i \/ ~Exists(i) => row'[j] = row[j]
          /\ Exists(i) => row'[i].lockedAt = Unlocked
      BY <1>t, <1>2, <1>6, RescheduledPoints
    <2>2. CASE j = i /\ ~Exists(j)
      <3>1. ~Exists(j)'
        BY <2>1, <2>2 DEF Exists
      <3> QED BY <1>u, <1>2, <1>3, <3>1, TimelyAwake
    <2>3. CASE j = i /\ Exists(j)
      <3>1. Lock(j)' = Unlocked
        BY <2>1, <2>3 DEF Lock
      <3> QED BY <1>u, <1>2, <1>3, <3>1, TimelyAwake
    <2>4. CASE j # i
      BY <1>u, <1>2, <1>3, <2>1, <2>4, TimelyUntouched
    <2> QED BY <2>2, <2>3, <2>4
  <1> QED BY <1>3, <1>4, <1>5, <1>6

\* A scheduler sleeps too long for a row only if the call that finds it failed.
LEMMA TimelyPlan ==
  ASSUME OneProcess, WellFormed, WellFormed', NEW j \in Jobs, Timely(j), NEW s \in Schedulers, Plan(s)
  PROVE  Timely(j)'
  <1>t. TypeOK /\ clock \in Nat /\ LockTTL \in Nat /\ MaxClock \in Nat /\ IdleSleep \in Nat
    BY TypeSplit, AllowedFacts, ConstantsTyped DEF WellFormed
  <1>1. UNCHANGED <<clock, late, crashes, row, notified, current>>
    BY DEF Plan, tableVars, history
  <1>2. (UNCHANGED errors => Faultless) /\ (Fail => Faulty)
    BY <1>1, FailIsFault
  <1>3. pc[s] = "work" /\ (\A r \in Schedulers : r = s) /\ \A r \in Schedulers : ~Holds(r, j)
    BY DEF Plan, OneProcess, Holds, Holding
  <1>4. Faultless \/ Faulty
    BY <1>2 DEF Plan
  <1>5. Capped(clock + IdleSleep) <= clock + LockTTL + 1
    BY <1>t DEF OneProcess, Capped, Beyond
  <1>6. ASSUME Oversleeps(s, j)'
        PROVE  Faulty /\ wake'[s] <= clock + LockTTL + 1
    <2>1. pc'[s] = "sleep" /\ Exists(j) /\ row[j].enabled /\ row[j].nextRun < wake'[s]
      BY <1>1, <1>6 DEF Oversleeps, Exists
    <2>2. row[j].nextRun \in NextDueTimes
      BY <2>1 DEF NextDueTimes
    <2>3. row[j].nextRun \in Nat
      BY <2>1, AllowedFacts
    <2>4. CASE Fail /\ wake' = [wake EXCEPT ![s] = Capped(clock + IdleSleep)]
      <3>1. wake'[s] = Capped(clock + IdleSleep)
        BY <1>t, <2>4 DEF TypeOK
      <3> QED BY <1>2, <1>5, <2>4, <3>1
    <2>5. ASSUME NEW next \in NextDueTimes, \A other \in NextDueTimes : next <= other,
                 Goto(s, "sleep"), wake' = [wake EXCEPT ![s] = next]
          PROVE  FALSE
      <3>1. wake'[s] = next /\ next <= row[j].nextRun
        BY <1>t, <2>2, <2>5 DEF TypeOK
      <3>2. next \in Nat
        BY AllowedFacts DEF NextDueTimes
      <3> QED BY <2>1, <2>3, <3>1, <3>2
    <2>6. ~Goto(s, "poll")
      BY <1>t, <2>1, GotoTyped DEF SchedulerState
    <2> QED BY <2>2, <2>4, <2>5, <2>6 DEF Plan
  <1> QED BY <1>1, <1>3, <1>4, <1>6, TimelyAside

\* What happens around the rounds, without time passing.
LEMMA TimelyAround ==
  ASSUME OneProcess, WellFormed, WellFormed', edit = NoEdit, NEW j \in Jobs, Timely(j),
         \/ \E i \in Jobs : Create(i) \/ Delete(i) \/ EditRead(i)
         \/ EditSave
         \/ \E s \in Schedulers : Consume(s) \/ AdapterChange(s) \/ Crash(s) \/ Restart(s)
  PROVE  Timely(j)' /\ edit' = NoEdit
  <1>t. row \in Rows /\ TypeOK /\ clock \in Nat /\ edits \in Nat /\ Placed
    BY TypeSplit, AllowedFacts, ConstantsTyped DEF WellFormed, TableTyped, AroundTyped
  <1>1. ASSUME NEW i \in Jobs, Create(i) PROVE Timely(j)' /\ edit' = NoEdit
    <2>1. /\ UNCHANGED <<clock, late, crashes, errors, pc, current, wake, edit>>
          /\ notified \subseteq notified'
      BY <1>1 DEF Create, loopVars, budgets, history
    <2>2. PICK first : row' = [row EXCEPT ![i] = [enabled |-> TRUE, nextRun |-> first,
                                                failures |-> 0, lockedAt |-> Unlocked]]
      BY <1>1 DEF Create
    <2>3. row'[j] = IF j = i THEN [enabled |-> TRUE, nextRun |-> first,
                                   failures |-> 0, lockedAt |-> Unlocked]
                             ELSE row[j]
      BY <1>t, <2>2, TablePoints
    <2>4. Faultless
      BY <2>1 DEF Faultless
    <2>5. \A s \in Schedulers : Holds(s, j) <=> Holds(s, j)'
      BY <2>1 DEF Holds
    <2>6. CASE j = i
      <3>1. Lock(j)' = Unlocked
        BY <2>3, <2>6 DEF Lock
      <3>2. late'[j] <= Allowed' /\ LockPaidFor(j)'
        BY <2>1, <2>4, <3>1, LockStaysPaidFor
      <3>3. \A s \in Schedulers : ~Oversleeps(s, j)'
        <4>1. ASSUME NEW s \in Schedulers, pc[s] # "down" PROVE s \in notified'
          BY <1>1, <4>1 DEF Create, OneProcess
        <4> QED BY <2>1, <4>1 DEF Oversleeps
      <3> QED BY <2>1, <3>2, <3>3 DEF Timely, SleepPaidFor
    <2>7. CASE j # i
      <3>1. row'[j] = row[j]
        BY <2>3, <2>7
      <3>2. \A s \in Schedulers : Oversleeps(s, j)' => Oversleeps(s, j) /\ wake'[s] = wake[s]
        BY <2>1, <3>1 DEF Oversleeps, Exists
      <3> QED BY <2>1, <2>4, <2>5, <3>1, <3>2, TimelyAside
    <2> QED BY <2>6, <2>7
  <1>2. ASSUME NEW i \in Jobs, Delete(i) \/ EditRead(i) PROVE FALSE
    BY <1>2, <1>t DEF Delete, EditRead, Edit, OneProcess
  <1>3. ~EditSave
    BY DEF EditSave
  <1>4. ASSUME NEW s \in Schedulers, Consume(s) \/ AdapterChange(s)
        PROVE  Timely(j)' /\ edit' = NoEdit
    <2>1. UNCHANGED <<clock, late, row, pc, current, wake, notified, edit>> /\ Faultless
      BY <1>4 DEF Consume, AdapterChange, tableVars, loopVars, history, budgets, Faultless
    <2>2. \A r \in Schedulers : /\ Holds(r, j) => Holds(r, j)'
                                /\ Oversleeps(r, j)' => Oversleeps(r, j)
      BY <2>1 DEF Holds, Oversleeps, Exists
    <2> QED BY <2>1, <2>2, TimelyAside
  <1>5. ASSUME NEW s \in Schedulers, Crash(s) \/ Restart(s)
        PROVE  Timely(j)' /\ edit' = NoEdit
    <2>1. UNCHANGED <<clock, late, row, edit>>
      BY <1>5 DEF Crash, Restart, tableVars, history
    <2>2. CASE Crash(s)
      <3>1. Faulty /\ pc'[s] = "down"
        BY <1>t, <2>2, GotoTyped DEF Crash, Faulty, SchedulerState
      <3> QED BY <2>1, <3>1, TimelyUntouched
    <2>3. CASE Restart(s)
      <3>1. Faultless /\ pc'[s] = "poll" /\ ~Holds(s, j)
        BY <1>t, <2>3, GotoTyped DEF Restart, Faultless, budgets, SchedulerState, Holds, Holding
      <3> QED BY <2>1, <3>1, TimelyUntouched
    <2> QED BY <1>5, <2>1, <2>2, <2>3
  <1> QED BY <1>1, <1>2, <1>3, <1>4, <1>5

\* Time passes only when the scheduler rests, and a job is late then only for a fault.
LEMMA TimelyTick ==
  ASSUME OneProcess, WellFormed, WellFormed', NEW j \in Jobs, Timely(j), Tick
  PROVE  Timely(j)'
  <1>t. /\ TypeOK /\ clock \in Nat /\ LockTTL \in Nat /\ Allowed \in Nat
        /\ late[j] \in Nat /\ late' \in [Jobs -> Nat]
        /\ late[j] <= Allowed
    BY AllowedFacts, ConstantsTyped DEF WellFormed, TypeOK, Timely
  <1>1. /\ clock' = clock + 1 /\ Allowed' = Allowed
        /\ UNCHANGED <<row, pc, current, wake, notified>>
    BY DEF Tick, Allowed, tableVars, loopVars, budgets
  <1>r. /\ Exists(j) => Lock(j) \in Int /\ row[j].nextRun \in Nat
        /\ \A s \in Schedulers : wake[s] \in Nat
    BY AllowedFacts
  <1>2. /\ Exists(j)' <=> Exists(j)
        /\ Lock(j)' = Lock(j)
        /\ LeftBehind(j)' <=> LeftBehind(j)
        /\ \A s \in Schedulers : Oversleeps(s, j)' <=> Oversleeps(s, j)
    BY <1>1 DEF Exists, Lock, LeftBehind, Oversleeps, Holds
  <1>3. /\ Exists(j) => Lock(j) <= clock
        /\ LeftBehind(j) => late[j] + Lock(j) + LockTTL + 1 - clock <= Allowed
        /\ \A s \in Schedulers : Oversleeps(s, j) => late[j] + wake[s] - clock <= Allowed
    BY DEF Timely, LockPaidFor, SleepPaidFor
  <1>4. CASE late'[j] = late[j] + 1
    <2>1. Exists(j) /\ row[j].enabled /\ row[j].nextRun <= clock
      <3>1. ~(\A s \in Schedulers : pc[s] = "down" \/ Blocked(s))
        BY <1>t, <1>4 DEF Tick
      <3>2. late'[j] = IF Exists(j) /\ IsDue(j) THEN late[j] + 1 ELSE 0
        BY <3>1 DEF Tick
      <3> QED BY <1>t, <1>4, <3>2 DEF IsDue
    <2>2. PICK s \in Schedulers : /\ pc[s] # "down" /\ ~Blocked(s)
                                  /\ Resting(s)
      <3>1. ~(\A s \in Schedulers : pc[s] = "down" \/ Blocked(s))
        BY <1>t, <1>4 DEF Tick
      <3> QED BY <3>1 DEF Tick
    <2>5. late[j] + 1 <= Allowed
      <3>1. CASE pc[s] = "sleep" /\ wake[s] > clock /\ s \notin notified
        <4>1. Oversleeps(s, j)
          BY <1>t, <1>r, <2>1, <3>1 DEF Oversleeps
        <4> QED BY <1>t, <1>r, <1>3, <3>1, <4>1
      <3>2. CASE Spinning(s)
        <4>1. ~Lockable(j) /\ \A r \in Schedulers : ~Holds(r, j)
          BY <2>1, <3>2 DEF Spinning, IsDue, OneProcess, Holds, Holding
        <4>2. Lock(j) # Unlocked /\ ~(Lock(j) < clock - LockTTL)
          BY <2>1, <4>1 DEF Lockable, Expired
        <4>3. LeftBehind(j)
          BY <2>1, <4>1, <4>2 DEF LeftBehind
        <4> QED BY <1>t, <1>r, <1>3, <2>1, <4>2, <4>3
      <3> QED BY <2>2, <3>1, <3>2 DEF Resting
    <2>6. LockPaidFor(j)'
      BY <1>t, <1>1, <1>r, <1>2, <1>3, <1>4 DEF LockPaidFor, LeftBehind
    <2>7. SleepPaidFor(j)'
      BY <1>t, <1>1, <1>r, <1>2, <1>3, <1>4 DEF SleepPaidFor
    <2> QED BY <1>1, <1>4, <2>5, <2>6, <2>7 DEF Timely
  <1>5. CASE late'[j] <= late[j]
    <2>1. late'[j] \in Nat
      BY <1>t
    <2>2. LockPaidFor(j)'
      BY <1>t, <1>1, <1>r, <1>2, <1>3, <1>5, <2>1 DEF LockPaidFor, LeftBehind
    <2>3. SleepPaidFor(j)'
      BY <1>t, <1>1, <1>r, <1>2, <1>3, <1>5, <2>1 DEF SleepPaidFor
    <2> QED BY <1>t, <1>1, <1>5, <2>1, <2>2, <2>3 DEF Timely
  <1>6. late'[j] = late[j] + 1 \/ late'[j] <= late[j]
    BY <1>t DEF Tick
  <1> QED BY <1>4, <1>5, <1>6

LEMMA TimelyInit == Init => AllTimely
  <1> SUFFICES ASSUME Init PROVE AllTimely
    OBVIOUS
  <1>1. WellFormed
    BY TypedInit
  <1>2. Allowed \in Nat
    BY <1>1, AllowedFacts
  <1>3. ASSUME NEW j \in Jobs PROVE Timely(j)
    <2>1. late[j] = 0 /\ ~Exists(j)
      BY DEF Init, Exists
    <2> QED BY <1>2, <2>1 DEF Timely, LockPaidFor, LeftBehind, SleepPaidFor, Oversleeps
  <1> QED BY <1>3 DEF AllTimely, Init

LEMMA TimelyNext == OneProcess /\ WellFormed /\ WellFormed' /\ AllTimely /\ [Next]_vars => AllTimely'
  <1> SUFFICES ASSUME OneProcess, WellFormed, WellFormed', AllTimely, [Next]_vars PROVE AllTimely'
    OBVIOUS
  <1>1. ASSUME NEW j \in Jobs PROVE Timely(j)' /\ edit' = NoEdit
    <2>1. Timely(j) /\ edit = NoEdit
      BY DEF AllTimely
    <2>2. ASSUME NEW s \in Schedulers, SchedulerStep(s) PROVE Timely(j)' /\ edit' = NoEdit
      <3>1. edit' = edit
        BY <2>2 DEF SchedulerStep, Poll, Take, Reach, Miss, Drop, Push, Update, Plan, Wake
      <3> QED BY <2>1, <2>2, <3>1, TimelyRound, TimelyDone, TimelyPlan DEF SchedulerStep
    <2>3. CASE Tick
      BY <2>1, <2>3, TimelyTick DEF Tick
    <2>4. CASE UNCHANGED vars
      BY <2>1, <2>4 DEF vars, tableVars, loopVars, budgets, history, Timely, LockPaidFor, LeftBehind,
                        SleepPaidFor, Oversleeps, Allowed, Exists, Lock, Holds
    <2> QED BY <2>1, <2>2, <2>3, <2>4, TimelyAround DEF Next
  <1>2. edit' = NoEdit
    <2>1. ASSUME NEW s \in Schedulers, SchedulerStep(s) PROVE edit' = edit
      BY <2>1 DEF SchedulerStep, Poll, Take, Reach, Miss, Drop, Push, Update, Plan, Wake
    <2>2. edit = NoEdit /\ edits \in Nat
      BY TypeSplit, ConstantsTyped DEF AllTimely, WellFormed, AroundTyped
    <2>3. ASSUME NEW i \in Jobs, Delete(i) \/ EditRead(i) PROVE FALSE
      BY <2>2, <2>3 DEF Delete, EditRead, Edit, OneProcess
    <2> QED BY <2>1, <2>2, <2>3 DEF Next, Create, EditSave, Consume, AdapterChange, Crash, Restart, Tick, vars
  <1> QED BY <1>1, <1>2 DEF AllTimely

\* With one process that nobody edits jobs under, a job is late by no more than one lock
\* TTL for each crash and each failed call, whatever order they come in: a missing
\* channel, the other jobs and new ones delay it no further.
THEOREM JobsAreOnTime ==
  ASSUME OneProcess
  PROVE  Spec => []OnTime
  <1>1. WellFormed /\ WellFormed' /\ AllTimely /\ [Next]_vars => AllTimely'
    BY TimelyNext
  <1>2. AllTimely => OnTime
    BY DEF AllTimely, Timely, OnTime, Allowed
  <1>3. WellFormed /\ [Next]_vars => WellFormed'
    BY TypedNext
  <1> QED BY <1>1, <1>2, <1>3, TypedInit, TimelyInit, PTL DEF Spec
=============================================================================
