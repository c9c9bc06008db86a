--------------------------- MODULE CronScheduler ---------------------------
(***************************************************************************)
(* The DB-backed cron scheduler: pollStore and processDueJobs of           *)
(* internal/cron/scheduler.go over the cron_jobs rows of internal/store,   *)
(* with the tools and handlers that create, edit and delete jobs.          *)
(*                                                                         *)
(* Every gateway process runs one scheduler over the shared table.  A      *)
(* scheduler reads the due jobs, then takes them one by one: it locks the  *)
(* row, checks that the job's channel adapter is registered, pushes the    *)
(* message on the in-process bus, which blocks while the bus is full, and  *)
(* moves the row to its next occurrence.  Each database call is one step.  *)
(*                                                                         *)
(* Time is counted in ticks and bounded by a horizon; Beyond stands for    *)
(* every later time.  A step that is due is prompt: only sleeping, a full  *)
(* bus, and a poll that finds nothing but locked rows let time pass.       *)
(***************************************************************************)
EXTENDS Integers, Sequences, FiniteSets

CONSTANTS
  Jobs,        \* job IDs
  Kind,        \* type of each job: "once", "interval" or "cron"
  Period,      \* of the interval and cron jobs
  Routed,      \* jobs whose reply goes through a channel adapter
  Schedulers,  \* gateway processes
  NoJob,       \* stands for the job of a scheduler that handles none
  MaxClock,    \* bound: the horizon
  LockTTL,     \* age at which a row's lock may be taken over (5 min)
  IdleSleep,   \* sleep of a scheduler that sees no enabled job (5 min)
  MaxMisses,   \* cronMaxConsecutiveFailures
  BusCap,      \* capacity of bus.Inbound (100)
  MaxCrashes,  \* bound: process crashes
  MaxErrors,   \* bound: database calls that fail
  MaxEdits,    \* bound: edits and deletions by users
  MaxFaults    \* bound: crashes, failed calls, edits and deletions together

ASSUME CronAssumption ==
  /\ Kind \in [Jobs -> {"once", "interval", "cron"}]
  /\ Period \in Nat \ {0}
  /\ Routed \subseteq Jobs
  /\ NoJob \notin Jobs
  /\ MaxClock \in Nat
  /\ LockTTL \in Nat
  /\ IdleSleep \in Nat \ {0}
  /\ MaxMisses \in Nat \ {0}
  /\ BusCap \in Nat \ {0}
  /\ MaxCrashes \in Nat
  /\ MaxErrors \in Nat
  /\ MaxEdits \in Nat
  /\ MaxFaults \in Nat

Time == 0..MaxClock
Beyond == MaxClock + 1
AnyTime == 0..Beyond
Unlocked == -1

\* A cron_jobs row: what is left of it when text, owner and target are dropped.
Row == [enabled : BOOLEAN, nextRun : AnyTime, failures : Nat,
        lockedAt : Time \union {Unlocked}]
NoRow == [enabled |-> FALSE, nextRun |-> Beyond, failures |-> -1, lockedAt |-> Unlocked]

\* An entry of a due list: a job, and the occurrence its row stood for.
Due == [job : Jobs, run : AnyTime]
Nothing == [job |-> NoJob, run |-> Beyond]

VARIABLES
  clock,      \* now
  row,        \* the table: the row of each job, or NoRow
  created,    \* jobs that were created
  hasAdapter, \* processes where the channel adapter of the routed jobs is registered
  edit,       \* the row a PATCH handler has read and not saved yet
  pc,         \* where each scheduler is
  now,        \* its `now` of this round
  batch,      \* its due jobs of this round still to be taken
  current,    \* the job it is handling
  wake,       \* when its timer fires
  notified,   \* schedulers whose globalNotify is full
  inbox,      \* messages in the Inbound channel of each process
  crashes, errors, edits,  \* what happened so far, against the bounds
  fired,      \* occurrences that were fired
  doubled,    \* jobs that had one occurrence fired again
  mishap,     \* jobs that met one of the events that excuse a double fire
  misses,     \* how often each job missed its channel since it last fired
  late        \* ticks each job has been due with the scheduler able to act

tableVars == <<row, created>>
loopVars == <<pc, now, batch, current, wake>>
budgets == <<crashes, errors, edits>>
history == <<fired, doubled, mishap, misses, late>>
vars == <<clock, tableVars, hasAdapter, edit, loopVars, notified, inbox, budgets, history>>

\* "poll": about to read the due jobs.  "work": taking them.  "check": holds
\* the lock.  "drop": the job missed its channel too often.  "push": at the
\* send on the bus.  "sent": about to update the row.
SchedulerState == {"poll", "work", "check", "drop", "push", "sent", "sleep", "down"}

NoEdit == [job |-> NoJob, row |-> NoRow]

Init ==
  /\ clock = 0
  /\ row = [j \in Jobs |-> NoRow]
  /\ created = {}
  /\ hasAdapter = Schedulers
  /\ edit = NoEdit
  /\ pc = [s \in Schedulers |-> "poll"]
  /\ now = [s \in Schedulers |-> 0]
  /\ batch = [s \in Schedulers |-> {}]
  /\ current = [s \in Schedulers |-> Nothing]
  /\ wake = [s \in Schedulers |-> 0]
  /\ notified = {}
  /\ inbox = [s \in Schedulers |-> 0]
  /\ crashes = 0 /\ errors = 0 /\ edits = 0
  /\ fired = {}
  /\ doubled = {}
  /\ mishap = {}
  /\ misses = [j \in Jobs |-> 0]
  /\ late = [j \in Jobs |-> 0]
----------------------------------------------------------------------------
(* The schedule and the table. *)

Capped(t) == IF t > MaxClock THEN Beyond ELSE t

\* The occurrence after time t.  An interval counts from t; a cron expression
\* names fixed times, here the multiples of the period, and the next one is
\* strictly later than t.
NextOccurrence(j, t) ==
  CASE Kind[j] = "interval" -> Capped(t + Period)
    [] Kind[j] = "cron" -> Capped((t \div Period + 1) * Period)
    [] OTHER -> Beyond

Exists(j) == row[j] # NoRow
IsDue(j) == row[j].enabled /\ row[j].nextRun <= clock

Lock(j) == row[j].lockedAt
\* Mutant: a lock is never taken over.
NeverExpires(j) == FALSE

Expired(j) == Lock(j) # Unlocked /\ Lock(j) < clock - LockTTL

\* Mutant: the statement names the row only.
LockableAnyway(j) == Exists(j)

Lockable(j) == Exists(j) /\ (Lock(j) = Unlocked \/ Expired(j))

\* Mutant: a successful run does not clear the failures.
KeepsFailures(j, next) ==
  IF Exists(j) THEN [row EXCEPT ![j].nextRun = next, ![j].lockedAt = Unlocked] ELSE row

\* UpdateCronJobRun: the next occurrence; failures and lock are cleared.
Rescheduled(j, next) ==
  IF Exists(j)
  THEN [row EXCEPT ![j].nextRun = next, ![j].failures = 0, ![j].lockedAt = Unlocked]
  ELSE row

Removed(j) == [row EXCEPT ![j] = NoRow]

\* The bound on what goes wrong, and on what users do meanwhile.
MayFault == crashes + errors + edits < MaxFaults

Fail == errors < MaxErrors /\ MayFault /\ errors' = errors + 1
----------------------------------------------------------------------------
(* Users: the tools of the agent, the dashboard and the CLI. *)

\* A job is created with its first occurrence, and the scheduler of a running
\* gateway is told: the tool runs inside it, the CLI sends it a signal.
Create(j) ==
  /\ j \notin created
  /\ created' = created \union {j}
  /\ \E first \in IF Kind[j] = "once" THEN clock..MaxClock ELSE {NextOccurrence(j, clock)} :
       row' = [row EXCEPT ![j] = [enabled |-> TRUE, nextRun |-> first,
                                  failures |-> 0, lockedAt |-> Unlocked]]
  /\ LET running == {s \in Schedulers : pc[s] # "down"}
     IN \/ running = {} /\ UNCHANGED notified
        \/ \E s \in running : notified' = notified \union {s}
  /\ UNCHANGED <<clock, hasAdapter, edit, loopVars, inbox, budgets, history>>

Edit ==
  /\ edits < MaxEdits
  /\ MayFault
  /\ edits' = edits + 1
  /\ UNCHANGED <<crashes, errors>>

Delete(j) ==
  /\ Exists(j)
  /\ Edit
  /\ row' = Removed(j)
  /\ UNCHANGED <<clock, created, hasAdapter, edit, loopVars, notified, inbox, history>>

\* The first half of a PATCH or of `cron set-enabled`: read the row.
EditRead(j) ==
  /\ Exists(j)
  /\ edit = NoEdit
  /\ Edit
  /\ edit' = [job |-> j, row |-> row[j]]
  /\ UNCHANGED <<clock, tableVars, hasAdapter, loopVars, notified, inbox, history>>

\* The second half writes the whole row back, but for failures and lock: what
\* the scheduler did to it in between is lost, its deletion included.  The CLI
\* wakes a scheduler, the PATCH handler does not.
EditSave ==
  LET j == edit.job
  IN /\ edit # NoEdit
     /\ \E on \in BOOLEAN :
          row' = IF Exists(j)
                 THEN [row EXCEPT ![j].enabled = on, ![j].nextRun = edit.row.nextRun]
                 ELSE [row EXCEPT ![j] = [edit.row EXCEPT !.enabled = on, !.failures = 0,
                                                          !.lockedAt = Unlocked]]
     /\ mishap' = IF Exists(j) /\ row[j].nextRun = edit.row.nextRun
                  THEN mishap ELSE mishap \union {j}
     /\ edit' = NoEdit
     /\ \/ UNCHANGED notified
        \/ \E s \in Schedulers : pc[s] # "down" /\ notified' = notified \union {s}
     /\ UNCHANGED <<clock, created, hasAdapter, loopVars, inbox, budgets,
                    fired, doubled, misses, late>>

\* The adapter of the routed jobs is registered in a process, or torn down.
AdapterChange(s) ==
  /\ hasAdapter' = IF s \in hasAdapter THEN hasAdapter \ {s} ELSE hasAdapter \union {s}
  /\ UNCHANGED <<clock, tableVars, edit, loopVars, notified, inbox, budgets, history>>
----------------------------------------------------------------------------
(* A round of a scheduler: pollStore and processDueJobs. *)

Goto(s, state) == pc' = [pc EXCEPT ![s] = state]

\* GetDueCronJobs; when it fails the round is over.
Poll(s) ==
  /\ pc[s] = "poll"
  /\ now' = [now EXCEPT ![s] = clock]
  /\ \/ /\ batch' = [batch EXCEPT ![s] = {[job |-> j, run |-> row[j].nextRun] :
                                             j \in {i \in Jobs : Exists(i) /\ IsDue(i)}}]
        /\ UNCHANGED errors
     \/ Fail /\ UNCHANGED batch
  /\ Goto(s, "work")
  /\ UNCHANGED <<clock, tableVars, hasAdapter, edit, current, wake, notified, inbox,
                 crashes, edits, history>>

\* LockCronJob for the earliest entry left.  The statement looks at the lock
\* only, not at the occurrence or at enabled.
Take(s) ==
  /\ pc[s] = "work"
  /\ \E d \in batch[s] :
       /\ \A other \in batch[s] : d.run <= other.run
       /\ batch' = [batch EXCEPT ![s] = @ \ {d}]
       /\ \/ /\ Lockable(d.job)
             /\ row' = [row EXCEPT ![d.job].lockedAt = clock]
             /\ mishap' = IF Expired(d.job) \/ row[d.job].nextRun # d.run
                          THEN mishap \union {d.job} ELSE mishap
             /\ current' = [current EXCEPT ![s] = d]
             /\ Goto(s, "check")
             /\ UNCHANGED errors
          \/ /\ ~Lockable(d.job)
             /\ UNCHANGED <<row, mishap, current, pc, errors>>
          \/ \* an error, and the row may have been locked all the same
             /\ Fail
             /\ \/ UNCHANGED row
                \/ Lockable(d.job) /\ row' = [row EXCEPT ![d.job].lockedAt = clock]
             /\ UNCHANGED <<mishap, current, pc>>
  /\ UNCHANGED <<clock, created, hasAdapter, edit, now, wake, notified, inbox,
                 crashes, edits, fired, doubled, misses, late>>

\* The job's channel is there: go and fire.
Reach(s) ==
  /\ pc[s] = "check"
  /\ s \in hasAdapter \/ current[s].job \notin Routed
  /\ Goto(s, "push")
  /\ UNCHANGED <<clock, tableVars, hasAdapter, edit, now, batch, current, wake, notified,
                 inbox, budgets, history>>

\* It is not: IncrementCronJobFailure counts the miss and clears the lock.  On
\* SQLite the count is read by a second statement, which may fail on its own.
Miss(s) ==
  LET j == current[s].job
      n == row[j].failures + 1
  IN /\ pc[s] = "check"
     /\ s \notin hasAdapter
     /\ j \in Routed
     /\ \/ /\ Exists(j)
           /\ row' = [row EXCEPT ![j].failures = n, ![j].lockedAt = Unlocked]
           /\ misses' = [misses EXCEPT ![j] = @ + 1]
           /\ \/ n >= MaxMisses /\ Goto(s, "drop") /\ UNCHANGED <<current, errors>>
              \/ /\ (n < MaxMisses /\ UNCHANGED errors) \/ Fail
                 /\ Goto(s, "work")
                 /\ current' = [current EXCEPT ![s] = Nothing]
        \/ /\ (~Exists(j) /\ UNCHANGED errors) \/ Fail
           /\ Goto(s, "work")
           /\ current' = [current EXCEPT ![s] = Nothing]
           /\ UNCHANGED <<row, misses>>
     /\ UNCHANGED <<clock, created, hasAdapter, edit, now, batch, wake, notified, inbox,
                    crashes, edits, fired, doubled, mishap, late>>

\* Too many misses: the row is deleted.
Drop(s) ==
  /\ pc[s] = "drop"
  /\ \/ row' = Removed(current[s].job) /\ UNCHANGED errors
     \/ Fail /\ row' \in {row, Removed(current[s].job)}
  /\ Goto(s, "work")
  /\ current' = [current EXCEPT ![s] = Nothing]
  /\ UNCHANGED <<clock, created, hasAdapter, edit, now, batch, wake, notified, inbox,
                 crashes, edits, history>>

\* Mutant: the bus never blocks its producer.
AlwaysRoom(s) == TRUE

HasRoom(s) == inbox[s] < BusCap

\* bus.Inbound <- message: blocks while the channel is full.
Push(s) ==
  LET d == current[s]
  IN /\ pc[s] = "push"
     /\ HasRoom(s)
     /\ inbox' = [inbox EXCEPT ![s] = @ + 1]
     /\ fired' = fired \union {d}
     /\ doubled' = IF d \in fired THEN doubled \union {d.job} ELSE doubled
     /\ misses' = [misses EXCEPT ![d.job] = 0]
     /\ Goto(s, "sent")
     /\ UNCHANGED <<clock, tableVars, hasAdapter, edit, now, batch, current, wake,
                    notified, budgets, mishap, late>>

\* A fired `once` job is deleted, and parked far in the future if that fails;
\* any other job moves to the occurrence after `now`.  Errors are dropped, and
\* a failed call may have taken effect.
Update(s) ==
  LET j == current[s].job
  IN /\ pc[s] = "sent"
     /\ \/ /\ Kind[j] = "once"
           /\ row' = Removed(j)
           /\ UNCHANGED errors
        \/ /\ Kind[j] = "once"
           /\ Fail
           /\ row' \in {row, Removed(j), Rescheduled(j, Beyond)}
        \/ /\ Kind[j] # "once"
           /\ row' = Rescheduled(j, NextOccurrence(j, now[s]))
           /\ UNCHANGED errors
        \/ /\ Kind[j] # "once"
           /\ Fail
           /\ row' \in {row, Rescheduled(j, NextOccurrence(j, now[s]))}
     /\ Goto(s, "work")
     /\ current' = [current EXCEPT ![s] = Nothing]
     /\ UNCHANGED <<clock, created, hasAdapter, edit, now, batch, wake, notified, inbox,
                    crashes, edits, history>>

\* The earliest time an enabled row names, locked or not.
NextDueTimes == {row[j].nextRun : j \in {i \in Jobs : Exists(i) /\ row[i].enabled}}

\* The round is over: GetNextDueTime decides how long to sleep, if at all.
Plan(s) ==
  /\ pc[s] = "work"
  /\ batch[s] = {}
  /\ \/ /\ (NextDueTimes = {} /\ UNCHANGED errors) \/ Fail
        /\ wake' = [wake EXCEPT ![s] = Capped(clock + IdleSleep)]
        /\ Goto(s, "sleep")
     \/ \E next \in NextDueTimes :
          /\ \A other \in NextDueTimes : next <= other
          /\ IF next <= clock
             THEN Goto(s, "poll") /\ UNCHANGED wake
             ELSE Goto(s, "sleep") /\ wake' = [wake EXCEPT ![s] = next]
          /\ UNCHANGED errors
  /\ UNCHANGED <<clock, tableVars, hasAdapter, edit, now, batch, current, notified, inbox,
                 crashes, edits, history>>

\* The timer fires, or a notification is taken.
Wake(s) ==
  /\ pc[s] = "sleep"
  /\ \/ wake[s] <= clock /\ UNCHANGED notified
     \/ s \in notified /\ notified' = notified \ {s}
  /\ Goto(s, "poll")
  /\ UNCHANGED <<clock, tableVars, hasAdapter, edit, now, batch, current, wake, inbox,
                 budgets, history>>
----------------------------------------------------------------------------
(* The rest of the process, crashes and time. *)

\* processInbound takes a message off the bus.
Consume(s) ==
  /\ inbox[s] > 0
  /\ inbox' = [inbox EXCEPT ![s] = @ - 1]
  /\ UNCHANGED <<clock, tableVars, hasAdapter, edit, loopVars, notified, budgets, history>>

\* The process dies with its bus; a lock it holds stays in its row.
Crash(s) ==
  /\ pc[s] # "down"
  /\ crashes < MaxCrashes
  /\ MayFault
  /\ crashes' = crashes + 1
  /\ Goto(s, "down")
  /\ batch' = [batch EXCEPT ![s] = {}]
  /\ current' = [current EXCEPT ![s] = Nothing]
  /\ inbox' = [inbox EXCEPT ![s] = 0]
  /\ notified' = notified \ {s}
  /\ UNCHANGED <<clock, tableVars, hasAdapter, edit, now, wake, errors, edits, history>>

Restart(s) ==
  /\ pc[s] = "down"
  /\ Goto(s, "poll")
  /\ UNCHANGED <<clock, tableVars, hasAdapter, edit, now, batch, current, wake, notified,
                 inbox, budgets, history>>

Blocked(s) == pc[s] = "push" /\ ~HasRoom(s)

\* The scheduler polls, over and over, nothing but locked rows.
Spinning(s) ==
  /\ pc[s] = "poll"
  /\ \E j \in Jobs : Exists(j) /\ IsDue(j)
  /\ \A j \in Jobs : Exists(j) /\ IsDue(j) => ~Lockable(j)

Resting(s) ==
  \/ pc[s] = "down"
  \/ pc[s] = "sleep" /\ wake[s] > clock /\ s \notin notified
  \/ Blocked(s)
  \/ Spinning(s)

Tick ==
  /\ clock < MaxClock
  /\ \A s \in Schedulers : Resting(s)
  /\ clock' = clock + 1
  /\ late' = IF \A s \in Schedulers : pc[s] = "down" \/ Blocked(s)
             THEN late
             ELSE [j \in Jobs |-> IF Exists(j) /\ IsDue(j) THEN late[j] + 1 ELSE 0]
  /\ UNCHANGED <<tableVars, hasAdapter, edit, loopVars, notified, inbox, budgets,
                 fired, doubled, mishap, misses>>

SchedulerStep(s) ==
  \/ Poll(s) \/ Take(s) \/ Reach(s) \/ Miss(s) \/ Drop(s) \/ Push(s) \/ Update(s)
  \/ Plan(s) \/ Wake(s)

Next ==
  \/ \E j \in Jobs : Create(j) \/ Delete(j) \/ EditRead(j)
  \/ EditSave
  \/ \E s \in Schedulers : \/ SchedulerStep(s) \/ Consume(s) \/ AdapterChange(s)
                           \/ Crash(s) \/ Restart(s)
  \/ Tick

Spec == Init /\ [][Next]_vars
----------------------------------------------------------------------------
TypeOK ==
  /\ clock \in Time
  /\ row \in [Jobs -> Row \union {NoRow}]
  /\ created \in SUBSET Jobs
  /\ hasAdapter \in SUBSET Schedulers
  /\ edit \in [job : Jobs, row : Row] \union {NoEdit}
  /\ pc \in [Schedulers -> SchedulerState]
  /\ now \in [Schedulers -> Time]
  /\ batch \in [Schedulers -> SUBSET Due]
  /\ current \in [Schedulers -> Due \union {Nothing}]
  /\ wake \in [Schedulers -> AnyTime]
  /\ notified \in SUBSET Schedulers
  /\ inbox \in [Schedulers -> 0..BusCap]
  /\ crashes \in 0..MaxCrashes /\ errors \in 0..MaxErrors /\ edits \in 0..MaxEdits
  /\ fired \in SUBSET Due
  /\ doubled \in SUBSET Jobs
  /\ mishap \in SUBSET Jobs
  /\ misses \in [Jobs -> Nat]
  /\ late \in [Jobs -> Nat]

\* An occurrence of a job is fired twice only if somebody took over an expired
\* lock, locked the row from an outdated due list, or saved an outdated copy of
\* the row: nothing else - no order of polls, misses, crashes, failed calls,
\* deletions and edits - makes a job fire an occurrence again.
FiredOnce == doubled \subseteq mishap

\* The scheduler decides to give a job up only when its channel was missing
\* MaxMisses times in a row since the job last fired.
GivesUp(s) == pc[s] # "drop" /\ pc'[s] = "drop"
GivenUpWhenMissed ==
  [][\A s \in Schedulers :
       GivesUp(s) => \/ misses'[current[s].job] >= MaxMisses
                     \/ current[s].job \in mishap]_vars

\* A due job is handled at once, unless a crash or a failed call left its row
\* locked or the scheduler asleep: each of them costs at most one lock TTL.
OnTime == \A j \in Jobs : late[j] <= (crashes + errors) * (LockTTL + 1)
=============================================================================
