----------------------------- MODULE TaskQueue -----------------------------
(***************************************************************************)
(* The per-chat task queue of internal/taskqueue/queue.go.                 *)
(*                                                                         *)
(* Submit hands a task to the buffered channel of its chat, creating the   *)
(* channel and its worker goroutine when the chat has none; the worker     *)
(* runs the tasks of its channel one at a time under a global counting     *)
(* semaphore; a janitor closes and forgets the channel of a chat that has  *)
(* been idle too long; pruning bounds the table of past tasks.             *)
(*                                                                         *)
(* A channel and its worker are named by the task whose Submit created     *)
(* them, so a chat that is reclaimed and comes back has a new name.        *)
(*                                                                         *)
(* Time is counted in ticks.  Only three things take time: a handler (at   *)
(* most TaskTimeout, when its context expires), the wait for a semaphore   *)
(* token, and the wait for room in a full channel.  Every other step of a  *)
(* goroutine is prompt: the clock does not advance while one is due.       *)
(***************************************************************************)
EXTENDS Integers, Sequences, FiniteSets, SequencesExt

CONSTANTS
  Chats,          \* the chat keys
  NoChat,         \* stands for the chat of a task not submitted yet
  MaxTasks,       \* bound: tasks ever submitted
  MaxClock,       \* bound: ticks of the clock
  MaxConcurrent,  \* maxConcurrent: tokens of the semaphore
  QueueCap,       \* capacity of a chat's channel (100 in the code)
  TaskTimeout,    \* taskTimeout: the deadline of a handler's context
  IdleTimeout,    \* idleTimeout: age at which an idle channel is reclaimed
  Retain          \* tasks kept by pruneOldTasks (200 in the code)

ASSUME QueueAssumption ==
  /\ MaxTasks \in Nat \ {0}
  /\ MaxClock \in Nat
  /\ MaxConcurrent \in Nat \ {0}
  /\ QueueCap \in Nat \ {0}
  /\ TaskTimeout \in Nat \ {0}
  /\ IdleTimeout \in Nat \ {0}
  /\ Retain \in Nat
  /\ NoChat \notin Chats

TaskId == 1..MaxTasks
QueueId == TaskId
None == 0

VARIABLES
  clock,       \* now
  seq,         \* q.seq: tasks submitted so far
  chatOf,      \* Task.ChatKey
  status,      \* Task.Status; "none" before the task is submitted
  listed,      \* keys of q.tasks
  chatQueues,  \* q.chatQueues: the channel registered for each chat
  buf,         \* contents of each channel
  closed,      \* channels the janitor closed
  lastUsed,    \* chatQueue.lastUsed
  worker,      \* what the goroutine of each channel is doing
  held,        \* the task that goroutine took off its channel
  startedAt,   \* when the handler that is running was called, else 0
  sem,         \* workers that hold a token of q.sem
  semWait,     \* workers blocked on q.sem, in the order they blocked
  sending,     \* the Submit that is between unlock and the channel send
  stopped      \* q.ctx is cancelled

vars == <<clock, seq, chatOf, status, listed, chatQueues, buf, closed, lastUsed,
          worker, held, startedAt, sem, semWait, sending, stopped>>

taskVars == <<seq, chatOf, status, listed>>
queueVars == <<chatQueues, buf, closed, lastUsed>>
workerVars == <<worker, held, startedAt, sem, semWait>>

TaskStatus == {"none", "pending", "running", "done", "failed"}

\* Mutant: a cancelled handler gets a status of its own.
TerminalOrCancelled == {"done", "failed", "cancelled"}

Terminal == {"done", "failed"}

\* "absent": no goroutine yet.  "idle": in the select of processChatQueue.
\* "waiting": blocked on the semaphore.  "granted": has a token, not yet
\* marked running.  "running": inside the handler.  "served": executeTask
\* returned, lastUsed not yet refreshed.  "exited": the goroutine returned.
WorkerState == {"absent", "idle", "waiting", "granted", "running", "served", "exited"}

NoSend == [task |-> None, queue |-> None]

Init ==
  /\ clock = 0
  /\ seq = 0
  /\ chatOf = [t \in TaskId |-> NoChat]
  /\ status = [t \in TaskId |-> "none"]
  /\ listed = {}
  /\ chatQueues = [c \in Chats |-> None]
  /\ buf = [q \in QueueId |-> <<>>]
  /\ closed = {}
  /\ lastUsed = [q \in QueueId |-> 0]
  /\ worker = [q \in QueueId |-> "absent"]
  /\ held = [q \in QueueId |-> None]
  /\ startedAt = [q \in QueueId |-> 0]
  /\ sem = {}
  /\ semWait = <<>>
  /\ sending = NoSend
  /\ stopped = FALSE
----------------------------------------------------------------------------
(* Submit, in two steps: the critical section, then the channel send.      *)
(* processInbound is its only caller, so one Submit runs at a time, and    *)
(* Gateway.Start calls Stop only after processInbound has returned.        *)

\* Mutant: lastUsed is never refreshed.
NeverRefreshed(q) == lastUsed

\* cq.lastUsed = time.Now()
Refreshed(q) == [lastUsed EXCEPT ![q] = clock]

\* The critical section of Submit, for the next task and its chat.
Submit(c) ==
  LET t == seq + 1
      isNew == chatQueues[c] = None
      q == IF isNew THEN t ELSE chatQueues[c]
  IN /\ sending = NoSend
     /\ ~stopped
     /\ t \in TaskId
     /\ seq' = t
     /\ chatOf' = [chatOf EXCEPT ![t] = c]
     /\ status' = [status EXCEPT ![t] = "pending"]
     /\ listed' = listed \union {t}
     /\ chatQueues' = [chatQueues EXCEPT ![c] = q]
     /\ worker' = IF isNew THEN [worker EXCEPT ![q] = "idle"] ELSE worker
     /\ lastUsed' = Refreshed(q)
     /\ sending' = [task |-> t, queue |-> q]
     /\ UNCHANGED <<clock, buf, closed, held, startedAt, sem, semWait,
                    stopped>>

\* `cq.ch <- task`: blocks while the channel is full.  On a closed channel it
\* panics, which NoSendOnClosed rules out.
Send ==
  LET q == sending.queue
  IN /\ sending # NoSend
     /\ q \notin closed
     /\ Len(buf[q]) < QueueCap
     /\ buf' = [buf EXCEPT ![q] = Append(@, sending.task)]
     /\ sending' = NoSend
     /\ UNCHANGED <<clock, taskVars, chatQueues, closed, lastUsed, workerVars,
                    stopped>>
----------------------------------------------------------------------------
(* processChatQueue and executeTask. *)

\* Take the next task and ask for a token.  A closed channel still delivers
\* what it buffers.  Blocked senders of a Go channel are served in order, so
\* a worker that finds the semaphore full joins a FIFO.
Receive(q) ==
  /\ worker[q] = "idle"
  /\ buf[q] # <<>>
  /\ held' = [held EXCEPT ![q] = Head(buf[q])]
  /\ buf' = [buf EXCEPT ![q] = Tail(@)]
  /\ \/ /\ Cardinality(sem) < MaxConcurrent
        /\ sem' = sem \union {q}
        /\ worker' = [worker EXCEPT ![q] = "granted"]
        /\ UNCHANGED semWait
     \/ /\ Cardinality(sem) >= MaxConcurrent
        /\ semWait' = Append(semWait, q)
        /\ worker' = [worker EXCEPT ![q] = "waiting"]
        /\ UNCHANGED sem
     \/ \* both select cases of executeTask are ready, or only Done is
        /\ stopped
        /\ worker' = [worker EXCEPT ![q] = "served"]
        /\ UNCHANGED <<sem, semWait>>
  /\ UNCHANGED <<clock, taskVars, chatQueues, closed, lastUsed, startedAt,
                 sending, stopped>>

\* Mark the task running and call the handler.
Start(q) ==
  /\ worker[q] = "granted"
  /\ worker' = [worker EXCEPT ![q] = "running"]
  /\ status' = [status EXCEPT ![held[q]] = "running"]
  /\ startedAt' = [startedAt EXCEPT ![q] = clock]
  /\ UNCHANGED <<clock, seq, chatOf, listed, queueVars, held, sem, semWait,
                 sending, stopped>>

\* Mutant: the token is returned and nobody is woken.
ReleaseWakesNobody(q) ==
  /\ sem' = sem \ {q}
  /\ worker' = [worker EXCEPT ![q] = "served"]
  /\ UNCHANGED semWait

\* The token q gives back goes to the worker that waited longest, if any.
Release(q) ==
  IF semWait = <<>>
  THEN /\ sem' = sem \ {q}
       /\ worker' = [worker EXCEPT ![q] = "served"]
       /\ UNCHANGED semWait
  ELSE LET w == Head(semWait)
       IN /\ sem' = (sem \ {q}) \union {w}
          /\ worker' = [worker EXCEPT ![q] = "served", ![w] = "granted"]
          /\ semWait' = Tail(semWait)

\* The handler returns: record the outcome, then the deferred token release.
Finish(q) ==
  /\ worker[q] = "running"
  /\ \E outcome \in Terminal : status' = [status EXCEPT ![held[q]] = outcome]
  /\ Release(q)
  /\ startedAt' = [startedAt EXCEPT ![q] = 0]
  /\ UNCHANGED <<clock, seq, chatOf, listed, queueVars, held, sending, stopped>>

\* Mutant: the deferred release is registered before the token is taken, so a
\* worker that gives up returns somebody else's token.
GiveUpReleases(q) ==
  /\ worker[q] = "waiting"
  /\ stopped
  /\ worker' = [worker EXCEPT ![q] = "served"]
  /\ \E i \in 1..Len(semWait) : semWait[i] = q /\ semWait' = RemoveAt(semWait, i)
  /\ \E p \in sem : sem' = sem \ {p}
  /\ UNCHANGED <<clock, taskVars, queueVars, held, startedAt, sending, stopped>>

\* A worker blocked on the semaphore sees the cancelled context and drops
\* its task, which stays pending.
GiveUp(q) ==
  /\ worker[q] = "waiting"
  /\ stopped
  /\ worker' = [worker EXCEPT ![q] = "served"]
  /\ \E i \in 1..Len(semWait) : semWait[i] = q /\ semWait' = RemoveAt(semWait, i)
  /\ UNCHANGED <<clock, taskVars, queueVars, held, startedAt, sem, sending,
                 stopped>>

\* executeTask has returned: refresh lastUsed and loop.
Touch(q) ==
  /\ worker[q] = "served"
  /\ worker' = [worker EXCEPT ![q] = "idle"]
  /\ held' = [held EXCEPT ![q] = None]
  /\ lastUsed' = Refreshed(q)
  /\ UNCHANGED <<clock, taskVars, chatQueues, buf, closed, startedAt, sem,
                 semWait, sending, stopped>>

\* The worker returns: its channel is closed and drained, or Stop was called.
Exit(q) ==
  /\ worker[q] = "idle"
  /\ stopped \/ (q \in closed /\ buf[q] = <<>>)
  /\ worker' = [worker EXCEPT ![q] = "exited"]
  /\ UNCHANGED <<clock, taskVars, queueVars, held, startedAt, sem, semWait,
                 sending, stopped>>
----------------------------------------------------------------------------
(* The janitor, pruning, Stop and time. *)

\* Mutant: a channel is reclaimed a tick early.
IdleTooLongEarly(q) ==
  /\ clock - lastUsed[q] >= IdleTimeout
  /\ buf[q] = <<>>

\* The test of cleanupIdleQueues: it looks at the age of the channel and at
\* what it buffers, never at what its worker is doing.
IdleTooLong(q) ==
  /\ clock - lastUsed[q] > IdleTimeout
  /\ buf[q] = <<>>

Reclaimable == {c \in Chats : chatQueues[c] # None /\ IdleTooLong(chatQueues[c])}

\* One pass of cleanupIdleQueues.
CleanupIdleQueues ==
  /\ ~stopped
  /\ Reclaimable # {}
  /\ closed' = closed \union {chatQueues[c] : c \in Reclaimable}
  /\ chatQueues' = [c \in Chats |-> IF c \in Reclaimable THEN None ELSE chatQueues[c]]
  /\ UNCHANGED <<clock, taskVars, buf, lastUsed, workerVars, sending, stopped>>

\* Mutant: pruning looks at the age of a task only.
PrunableByAge == listed

\* Which tasks pruneOldTasks may forget.
Prunable == {t \in listed : status[t] \in Terminal}

\* pruneOldTasks, started by a RecentTasks call that saw too many tasks: it
\* forgets the oldest finished ones until Retain are left.
PruneOldTasks ==
  /\ Cardinality(listed) > Retain
  /\ \E gone \in SUBSET Prunable :
       /\ \A t \in gone, u \in Prunable \ gone : t < u
       /\ \/ Cardinality(gone) = Cardinality(listed) - Retain
          \/ /\ gone = Prunable
             /\ Cardinality(gone) < Cardinality(listed) - Retain
       /\ gone # {}
       /\ listed' = listed \ gone
  /\ UNCHANGED <<clock, seq, chatOf, status, queueVars, workerVars, sending,
                 stopped>>

Stop ==
  /\ ~stopped
  /\ sending = NoSend
  /\ stopped' = TRUE
  /\ UNCHANGED <<clock, taskVars, queueVars, workerVars, sending>>

\* No prompt step is due and no handler is past its deadline.
Settled ==
  /\ \A q \in QueueId :
       /\ worker[q] \notin {"granted", "served"}
       /\ worker[q] = "idle" => buf[q] = <<>>
       /\ worker[q] = "running" => clock < startedAt[q] + TaskTimeout
  /\ sending # NoSend => Len(buf[sending.queue]) >= QueueCap

Tick ==
  /\ clock < MaxClock
  /\ ~stopped
  /\ Settled
  /\ clock' = clock + 1
  /\ UNCHANGED <<taskVars, queueVars, workerVars, sending, stopped>>

WorkerStep(q) ==
  Receive(q) \/ Start(q) \/ Finish(q) \/ GiveUp(q) \/ Touch(q) \/ Exit(q)

\* After Stop the workers return one by one and the queue is at rest.
AtRest ==
  /\ stopped
  /\ \A q \in QueueId : worker[q] \in {"absent", "exited"}
  /\ UNCHANGED vars

Next ==
  \/ \E c \in Chats : Submit(c)
  \/ Send
  \/ \E q \in QueueId : WorkerStep(q)
  \/ CleanupIdleQueues
  \/ PruneOldTasks
  \/ Stop
  \/ Tick
  \/ AtRest

\* Goroutines that can run do run, and a handler returns by its deadline.
Fairness ==
  /\ WF_vars(Send)
  /\ \A q \in QueueId : WF_vars(WorkerStep(q))

Spec == Init /\ [][Next]_vars
FairSpec == Spec /\ Fairness
----------------------------------------------------------------------------
TypeOK ==
  /\ clock \in 0..MaxClock
  /\ seq \in 0..MaxTasks
  /\ chatOf \in [TaskId -> Chats \union {NoChat}]
  /\ status \in [TaskId -> TaskStatus]
  /\ listed \in SUBSET TaskId
  /\ chatQueues \in [Chats -> QueueId \union {None}]
  /\ buf \in [QueueId -> Seq(TaskId)]
  /\ closed \in SUBSET QueueId
  /\ lastUsed \in [QueueId -> 0..MaxClock]
  /\ worker \in [QueueId -> WorkerState]
  /\ held \in [QueueId -> TaskId \union {None}]
  /\ startedAt \in [QueueId -> 0..MaxClock]
  /\ sem \in SUBSET QueueId
  /\ semWait \in Seq(QueueId)
  /\ sending \in [task : TaskId, queue : QueueId] \union {NoSend}
  /\ stopped \in BOOLEAN

\* Messages of one chat run one after the other: no two handlers run for the
\* same chat key, whichever channels and workers the chat has had.
PerChatSerial ==
  \A p, q \in QueueId :
    /\ worker[p] = "running"
    /\ worker[q] = "running"
    /\ chatOf[held[p]] = chatOf[held[q]]
    => p = q

\* The places a submitted task can be before its handler returns.
Buffered(t) == {q \in QueueId : \E i \in 1..Len(buf[q]) : buf[q][i] = t}
HeldBy(t) == {q \in QueueId : held[q] = t /\ worker[q] # "served"}

\* A task that has not finished is in exactly one place - the blocked Submit,
\* one channel or one worker - and only the worker that runs it is marked
\* running; pruning never forgets it.  Only Stop may abandon a task.
LiveTasksAccounted ==
  \A t \in 1..seq :
    LET places == Cardinality(Buffered(t)) + Cardinality(HeldBy(t))
                    + (IF sending.task = t THEN 1 ELSE 0)
    IN status[t] \notin Terminal =>
         /\ t \in listed
         /\ places <= 1
         /\ places = 0 => stopped
         /\ (status[t] = "running") = (\E q \in HeldBy(t) : worker[q] = "running")

\* The semaphore counts exactly the workers in or entering a handler, never
\* more than maxConcurrent, and nobody waits while a token is free.
SemaphoreAccounting ==
  /\ sem = {q \in QueueId : worker[q] \in {"granted", "running"}}
  /\ Cardinality(sem) <= MaxConcurrent
  /\ semWait # <<>> => Cardinality(sem) = MaxConcurrent
  /\ {semWait[i] : i \in 1..Len(semWait)} = {q \in QueueId : worker[q] = "waiting"}

\* A Submit that unlocked before its send never finds its channel closed.
NoSendOnClosed == sending # NoSend => sending.queue \notin closed

\* Every submitted task is served, unless the queue is stopped.
EveryTaskServed ==
  \A t \in TaskId : (status[t] = "pending") ~> (status[t] \in Terminal \/ stopped)
----------------------------------------------------------------------------
(* What the queue promises, ChatService, with the refinement mapping.      *)

\* The task that chat c's worker took off its channel but has not started.
TakenFor(c) ==
  LET q == chatQueues[c]
  IN IF q # None /\ worker[q] \in {"waiting", "granted"} THEN <<held[q]>> ELSE <<>>

SendingTo(c) ==
  IF sending # NoSend /\ chatOf[sending.task] = c THEN <<sending.task>> ELSE <<>>

Service == INSTANCE ChatService WITH
  MaxServing <- MaxConcurrent,
  arrived <- seq,
  waiting <- [c \in Chats |->
                TakenFor(c)
                \o (IF chatQueues[c] = None THEN <<>> ELSE buf[chatQueues[c]])
                \o SendingTo(c)],
  serving <- [c \in Chats |->
                {held[q] : q \in {p \in QueueId : /\ worker[p] = "running"
                                                  /\ chatOf[held[p]] = c}}],
  served <- {t \in TaskId : status[t] \in Terminal},
  open <- ~stopped

\* The queue implements the service: one task at a time per chat, in the order
\* of submission, at most MaxConcurrent at once, none lost while it is open.
ImplementsService == Service!Spec
=============================================================================
