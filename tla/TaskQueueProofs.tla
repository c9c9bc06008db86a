-------------------------- MODULE TaskQueueProofs --------------------------
(***************************************************************************)
(* Proofs about TaskQueue, for every value of its constants.               *)
(*                                                                         *)
(* TypeOK and the invariants that need no condition come first, then what  *)
(* holds when the janitor spares busy channels (PerChatSerial and the      *)
(* refinement of ChatService), then where every live task is, and last the *)
(* condition on the configuration under which the janitor does spare them: *)
(* its patience outlasts the longest wait for a token and a task.          *)
(***************************************************************************)
EXTENDS TaskQueue, TLAPS, SequenceTheorems, FiniteSetTheorems

\* Removing one element leaves a sequence over the same set.
LEMMA RemoveAtType ==
  ASSUME NEW S, NEW s \in Seq(S), NEW i \in 1..Len(s)
  PROVE  RemoveAt(s, i) \in Seq(S)
  BY DEF RemoveAt

\* The elements before it stay where they are, those after it move up.
LEMMA RemoveAtElements ==
  ASSUME NEW S, NEW s \in Seq(S), NEW i \in 1..Len(s)
  PROVE  /\ Len(RemoveAt(s, i)) = Len(s) - 1
         /\ \A j \in 1..(Len(s) - 1) :
              RemoveAt(s, i)[j] = IF j < i THEN s[j] ELSE s[j + 1]
<1> DEFINE a == SubSeq(s, 1, i - 1)
           b == SubSeq(s, i + 1, Len(s))
<1>0. Len(s) \in Nat /\ \A j \in 1..Len(s) : s[j] \in S
  BY LenProperties, ElementOfSeq
<1>1. /\ a \in Seq(S) /\ Len(a) = i - 1
      /\ \A j \in 1..(i - 1) : a[j] = s[j]
  BY <1>0
<1>2. /\ b \in Seq(S) /\ Len(b) = Len(s) - i
      /\ \A j \in 1..(Len(s) - i) : b[j] = s[i + j]
  BY <1>0
<1>3. /\ Len(a \o b) = Len(a) + Len(b)
      /\ \A j \in 1..(Len(a) + Len(b)) : (a \o b)[j] = IF j <= Len(a) THEN a[j] ELSE b[j - Len(a)]
  BY <1>1, <1>2, ConcatProperties
<1> HIDE DEF a, b
<1>4. ASSUME NEW j \in 1..(Len(s) - 1)
      PROVE  (a \o b)[j] = IF j < i THEN s[j] ELSE s[j + 1]
  <2>0. (a \o b)[j] = IF j <= i - 1 THEN a[j] ELSE b[j - (i - 1)]
    BY <1>0, <1>1, <1>2, <1>3
  <2>1. CASE j < i
    BY <1>1, <2>0, <2>1
  <2>2. CASE j >= i
    <3>1. j - (i - 1) \in 1..(Len(s) - i) /\ i + (j - (i - 1)) = j + 1
      BY <1>0, <2>2
    <3>2. (a \o b)[j] = b[j - (i - 1)]
      BY <2>0, <2>2
    <3>3. b[j - (i - 1)] = s[i + (j - (i - 1))]
      BY <1>2, <3>1
    <3> QED BY <1>0, <2>2, <3>1, <3>2, <3>3
  <2>3. j < i \/ j >= i
    BY <1>0
  <2> QED BY <2>1, <2>2, <2>3
<1>5. Len(a \o b) = Len(s) - 1
  BY <1>0, <1>1, <1>2, <1>3
<1> QED
  BY <1>4, <1>5 DEF RemoveAt, a, b

\* The task queue's variables keep their types: every operation of
\* internal/taskqueue/queue.go leaves well-formed tables behind.
THEOREM TypeCorrect == Spec => []TypeOK
<1>1. Init => TypeOK
  <2> SUFFICES ASSUME Init PROVE TypeOK
    OBVIOUS
  <2> USE DEF Init
  <2>1. clock \in 0..MaxClock /\ seq \in 0..MaxTasks
    BY QueueAssumption
  <2>2. chatOf \in [TaskId -> Chats \union {NoChat}] /\ status \in [TaskId -> TaskStatus]
    BY DEF TaskStatus
  <2>3. chatQueues \in [Chats -> QueueId \union {None}]
    OBVIOUS
  <2>4. buf \in [QueueId -> Seq(TaskId)] /\ semWait \in Seq(QueueId)
    BY EmptySeq
  <2>5. lastUsed \in [QueueId -> 0..MaxClock] /\ startedAt \in [QueueId -> 0..MaxClock]
    BY QueueAssumption
  <2>6. worker \in [QueueId -> WorkerState] /\ held \in [QueueId -> TaskId \union {None}]
    BY DEF WorkerState
  <2> QED
    BY <2>1, <2>2, <2>3, <2>4, <2>5, <2>6 DEF TypeOK
<1>2. TypeOK /\ [Next]_vars => TypeOK'
  <2> SUFFICES ASSUME TypeOK, [Next]_vars
               PROVE  TypeOK'
    OBVIOUS
  <2>0. QueueId = TaskId /\ TaskId \subseteq Nat \ {0}
    BY QueueAssumption DEF QueueId, TaskId
  <2>1. ASSUME NEW c \in Chats, Submit(c) PROVE TypeOK'
    <3> DEFINE t == seq + 1
               q == IF chatQueues[c] = None THEN t ELSE chatQueues[c]
    <3>1. t \in TaskId /\ q \in QueueId /\ t \in 0..MaxTasks
      BY <2>0, <2>1 DEF Submit, Refreshed, TypeOK, TaskId
    <3>2. seq' \in 0..MaxTasks /\ listed' \in SUBSET TaskId
      BY <2>1, <3>1 DEF Submit, Refreshed, TypeOK
    <3>3. chatOf' \in [TaskId -> Chats \union {NoChat}]
      BY <2>1, <3>1 DEF Submit, Refreshed, TypeOK
    <3>4. status' \in [TaskId -> TaskStatus]
      BY <2>1, <3>1 DEF Submit, Refreshed, TypeOK, TaskStatus
    <3>5. chatQueues' \in [Chats -> QueueId \union {None}]
      BY <2>1, <3>1 DEF Submit, Refreshed, TypeOK
    <3>6. worker' \in [QueueId -> WorkerState]
      BY <2>1, <3>1 DEF Submit, Refreshed, TypeOK, WorkerState
    <3>7. lastUsed' \in [QueueId -> 0..MaxClock]
      BY <2>1, <3>1 DEF Submit, Refreshed, TypeOK
    <3>8. sending' \in [task : TaskId, queue : QueueId] \union {NoSend}
      BY <2>1, <3>1 DEF Submit, Refreshed
    <3> QED
      BY <2>1, <3>2, <3>3, <3>4, <3>5, <3>6, <3>7, <3>8 DEF Submit, Refreshed, TypeOK
  <2>2. CASE Send
    <3>1. sending.queue \in QueueId /\ sending.task \in TaskId
      BY <2>2 DEF Send, TypeOK
    <3>2. Append(buf[sending.queue], sending.task) \in Seq(TaskId)
      BY <3>1, AppendProperties DEF TypeOK
    <3>3. buf' \in [QueueId -> Seq(TaskId)]
      BY <2>2, <3>1, <3>2 DEF Send, TypeOK
    <3> QED
      BY <2>2, <3>3 DEF Send, TypeOK, taskVars, workerVars
  <2>3. ASSUME NEW q \in QueueId, Receive(q) PROVE TypeOK'
    <3>1. Head(buf[q]) \in TaskId /\ Tail(buf[q]) \in Seq(TaskId)
      BY <2>3, HeadTailProperties DEF Receive, TypeOK
    <3>2. buf' \in [QueueId -> Seq(TaskId)] /\ held' \in [QueueId -> TaskId \union {None}]
      BY <2>3, <3>1 DEF Receive, TypeOK
    <3>3. worker' \in [QueueId -> WorkerState]
      BY <2>3 DEF Receive, TypeOK, WorkerState
    <3>4. Append(semWait, q) \in Seq(QueueId)
      BY AppendProperties DEF TypeOK
    <3>5. sem' \in SUBSET QueueId /\ semWait' \in Seq(QueueId)
      BY <2>3, <3>4 DEF Receive, TypeOK
    <3> QED
      BY <2>3, <3>2, <3>3, <3>5 DEF Receive, TypeOK, taskVars
  <2>4. ASSUME NEW q \in QueueId, Start(q) PROVE TypeOK'
    <3>1. status' \in [TaskId -> TaskStatus]
      BY <2>4 DEF Start, TypeOK, TaskStatus
    <3>2. worker' \in [QueueId -> WorkerState] /\ startedAt' \in [QueueId -> 0..MaxClock]
      BY <2>4 DEF Start, TypeOK, WorkerState
    <3> QED
      BY <2>4, <3>1, <3>2 DEF Start, TypeOK, queueVars
  <2>5. ASSUME NEW q \in QueueId, Finish(q) PROVE TypeOK'
    <3>1. status' \in [TaskId -> TaskStatus]
      <4>1. PICK outcome \in Terminal : status' = [status EXCEPT ![held[q]] = outcome]
        BY <2>5 DEF Finish
      <4> QED BY <4>1 DEF TypeOK, TaskStatus, Terminal
    <3>2. startedAt' \in [QueueId -> 0..MaxClock]
      BY <2>5, QueueAssumption DEF Finish, TypeOK
    <3>3. /\ worker' \in [QueueId -> WorkerState]
          /\ sem' \in SUBSET QueueId /\ semWait' \in Seq(QueueId)
      <4>1. CASE semWait = <<>>
        BY <2>5, <4>1 DEF Finish, Release, TypeOK, WorkerState
      <4>2. CASE semWait # <<>>
        <5>1. Head(semWait) \in QueueId /\ Tail(semWait) \in Seq(QueueId)
          BY <4>2, HeadTailProperties DEF TypeOK
        <5>2. /\ sem' = (sem \ {q}) \union {Head(semWait)}
              /\ worker' = [worker EXCEPT ![q] = "served", ![Head(semWait)] = "granted"]
              /\ semWait' = Tail(semWait)
          BY <2>5, <4>2 DEF Finish, Release
        <5>3. worker' \in [QueueId -> WorkerState]
          BY <5>1, <5>2 DEF TypeOK, WorkerState
        <5> QED
          BY <5>1, <5>2, <5>3 DEF TypeOK
      <4> QED BY <4>1, <4>2
    <3> QED
      BY <2>5, <3>1, <3>2, <3>3 DEF Finish, TypeOK, queueVars
  <2>6. ASSUME NEW q \in QueueId, GiveUp(q) PROVE TypeOK'
    <3>1. semWait' \in Seq(QueueId)
      BY <2>6, RemoveAtType DEF GiveUp, TypeOK
    <3>2. worker' \in [QueueId -> WorkerState]
      BY <2>6 DEF GiveUp, TypeOK, WorkerState
    <3> QED
      BY <2>6, <3>1, <3>2 DEF GiveUp, TypeOK, taskVars, queueVars
  <2>7. ASSUME NEW q \in QueueId, Touch(q) PROVE TypeOK'
    <3>1. worker' \in [QueueId -> WorkerState]
      BY <2>7 DEF Touch, Refreshed, TypeOK, WorkerState
    <3>2. held' \in [QueueId -> TaskId \union {None}] /\ lastUsed' \in [QueueId -> 0..MaxClock]
      BY <2>7 DEF Touch, Refreshed, TypeOK
    <3> QED
      BY <2>7, <3>1, <3>2 DEF Touch, Refreshed, TypeOK, taskVars
  <2>8. ASSUME NEW q \in QueueId, Exit(q) PROVE TypeOK'
    <3>1. worker' \in [QueueId -> WorkerState]
      BY <2>8 DEF Exit, TypeOK, WorkerState
    <3> QED
      BY <2>8, <3>1 DEF Exit, TypeOK, taskVars, queueVars
  <2>9. CASE CleanupIdleQueues
    <3>1. closed' \in SUBSET QueueId
      BY <2>9 DEF CleanupIdleQueues, Reclaimable, TypeOK
    <3>2. chatQueues' \in [Chats -> QueueId \union {None}]
      BY <2>9 DEF CleanupIdleQueues, TypeOK
    <3> QED
      BY <2>9, <3>1, <3>2 DEF CleanupIdleQueues, TypeOK, taskVars, workerVars
  <2>10. CASE PruneOldTasks
    BY <2>10 DEF PruneOldTasks, TypeOK, queueVars, workerVars
  <2>11. CASE Stop
    BY <2>11 DEF Stop, TypeOK, taskVars, queueVars, workerVars
  <2>12. CASE Tick
    <3>1. clock' \in 0..MaxClock
      BY <2>12, QueueAssumption DEF Tick, TypeOK
    <3> QED
      BY <2>12, <3>1 DEF Tick, TypeOK, taskVars, queueVars, workerVars
  <2>13. CASE UNCHANGED vars
    BY <2>13 DEF TypeOK, vars
  <2> QED
    BY <2>1, <2>2, <2>3, <2>4, <2>5, <2>6, <2>7, <2>8, <2>9, <2>10, <2>11, <2>12, <2>13
    DEF Next, WorkerStep, AtRest
<1> QED
  BY <1>1, <1>2, PTL DEF Spec
----------------------------------------------------------------------------
(* The inductive invariants.                                               *)

\* A registered channel is open, and only channels that exist were closed.
RegistryInv ==
  /\ \A c \in Chats : chatQueues[c] # None =>
       chatQueues[c] \in 1..seq /\ chatQueues[c] \notin closed
  /\ closed \subseteq 1..seq

\* Whoever is about to use a channel keeps the janitor off it: the blocked
\* Submit because the channel is full or was used just now, and the worker
\* with work in its channel because the channel was used just now.
FreshInv ==
  /\ sending # NoSend =>
       /\ sending.queue \notin closed
       /\ Len(buf[sending.queue]) >= QueueCap \/ lastUsed[sending.queue] = clock
  /\ \A q \in QueueId : worker[q] = "idle" /\ buf[q] # <<>> => lastUsed[q] = clock

WaitsOnce ==
  \A i, j \in 1..Len(semWait) : semWait[i] = semWait[j] => i = j

\* The semaphore's accounts; nobody waits for it twice, and only channels that
\* exist have a worker.
SemInv ==
  /\ SemaphoreAccounting
  /\ WaitsOnce
  /\ \A q \in QueueId : worker[q] # "absent" => q \in 1..seq

Busy == {"waiting", "granted", "running", "served"}

\* A task never leaves the channel of its chat, and a channel somebody works
\* from, or is about to, is the one registered for its chat.
RegisteredOwn == \A c \in Chats : chatQueues[c] # None => chatOf[chatQueues[c]] = c

SendingOwn ==
  sending # NoSend =>
    /\ sending.task \in 1..seq
    /\ sending.queue \in 1..seq
    /\ chatOf[sending.task] = chatOf[sending.queue]
    /\ chatQueues[chatOf[sending.queue]] = sending.queue

BufferedOwn ==
  \A q \in QueueId : \A i \in 1..Len(buf[q]) :
    buf[q][i] \in 1..seq /\ chatOf[buf[q][i]] = chatOf[q]

HeldOwn ==
  \A q \in QueueId : worker[q] \in Busy =>
    held[q] \in 1..seq /\ chatOf[held[q]] = chatOf[q]

WorkedRegistered ==
  \A q \in QueueId : worker[q] \in Busy \/ buf[q] # <<>> =>
    q \in 1..seq /\ chatQueues[chatOf[q]] = q

ChatInv ==
  /\ RegisteredOwn
  /\ SendingOwn
  /\ BufferedOwn
  /\ HeldOwn
  /\ WorkedRegistered
  /\ \A t \in 1..seq : chatOf[t] \in Chats

\* The janitor closes no channel whose worker has a task in hand.
SparesBusy == \A q \in closed' \ closed : worker[q] \notin Busy

\* How far lastUsed can lag behind the clock when nobody waits for a token.
AgeInv ==
  \A q \in QueueId :
    /\ lastUsed[q] <= clock
    /\ worker[q] = "granted" => lastUsed[q] = clock
    /\ worker[q] = "running" =>
         /\ startedAt[q] <= lastUsed[q]
         /\ clock <= startedAt[q] + TaskTimeout
    /\ worker[q] = "served" => clock <= lastUsed[q] + TaskTimeout
----------------------------------------------------------------------------
\* Every step keeps the registry of channels in order.
LEMMA RegistryStep ==
  ASSUME TypeOK, RegistryInv, [Next]_vars
  PROVE  RegistryInv'
<1>0. /\ QueueId = 1..MaxTasks /\ TaskId = 1..MaxTasks
      /\ seq \in Nat /\ MaxTasks \in Nat /\ None = 0
  BY QueueAssumption DEF QueueId, TaskId, TypeOK, None
<1>1. ASSUME NEW c \in Chats, Submit(c) PROVE RegistryInv'
  <2>1. /\ seq' = seq + 1 /\ closed' = closed
        /\ chatQueues' = [chatQueues EXCEPT ![c] =
                            IF chatQueues[c] = None THEN seq + 1 ELSE chatQueues[c]]
    BY <1>1 DEF Submit, Refreshed
  <2>2. 1..seq \subseteq 1..seq' /\ seq + 1 \in 1..seq'
    BY <1>0, <2>1
  <2>3. closed' \subseteq 1..seq'
    BY <2>1, <2>2 DEF RegistryInv
  <2>4. seq + 1 \notin closed
    BY <1>0 DEF RegistryInv
  <2>5. ASSUME NEW d \in Chats, chatQueues'[d] # None
        PROVE  chatQueues'[d] \in 1..seq' /\ chatQueues'[d] \notin closed'
    <3>1. CASE chatQueues'[d] = chatQueues[d]
      BY <2>1, <2>2, <2>5, <3>1 DEF RegistryInv
    <3>2. CASE chatQueues'[d] = seq + 1
      BY <2>1, <2>2, <2>4, <3>2
    <3> QED
      BY <2>1, <3>1, <3>2 DEF TypeOK
  <2> QED
    BY <2>3, <2>5 DEF RegistryInv
<1>2. CASE CleanupIdleQueues
  <2>1. /\ seq' = seq
        /\ closed' = closed \union {chatQueues[c] : c \in Reclaimable}
        /\ chatQueues' = [c \in Chats |-> IF c \in Reclaimable THEN None ELSE chatQueues[c]]
    BY <1>2 DEF CleanupIdleQueues, taskVars
  <2>2. closed' \subseteq 1..seq'
    BY <2>1 DEF RegistryInv, Reclaimable
  <2>3. ASSUME NEW c \in Chats, chatQueues'[c] # None
        PROVE  chatQueues'[c] \in 1..seq' /\ chatQueues'[c] \notin closed'
    <3>1. c \notin Reclaimable /\ chatQueues'[c] = chatQueues[c]
      BY <2>1, <2>3
    <3>2. ~IdleTooLong(chatQueues[c])
      BY <2>3, <3>1 DEF Reclaimable
    <3>3. chatQueues[c] \notin {chatQueues[d] : d \in Reclaimable}
      BY <3>2 DEF Reclaimable
    <3> QED
      BY <2>1, <2>3, <3>1, <3>3 DEF RegistryInv
  <2> QED
    BY <2>2, <2>3 DEF RegistryInv
<1>3. CASE UNCHANGED <<seq, chatQueues, closed>>
  BY <1>3 DEF RegistryInv
<1> QED
  BY <1>1, <1>2, <1>3
  DEF Next, WorkerStep, Send, Receive, Start, Finish, GiveUp, Touch, Exit, PruneOldTasks,
      Stop, Tick, AtRest, taskVars, queueVars, vars

\* Every step keeps the channels that are about to be used fresh.
LEMMA FreshStep ==
  ASSUME TypeOK, RegistryInv, FreshInv, [Next]_vars
  PROVE  FreshInv'
<1>0. /\ QueueId = 1..MaxTasks /\ TaskId = 1..MaxTasks
      /\ seq \in Nat /\ MaxTasks \in Nat /\ None = 0
      /\ clock \in Nat /\ QueueCap \in Nat \ {0} /\ IdleTimeout \in Nat \ {0}
  BY QueueAssumption DEF QueueId, TaskId, TypeOK, None
<1>1. ASSUME NEW c \in Chats, Submit(c) PROVE FreshInv'
  <2> DEFINE q == IF chatQueues[c] = None THEN seq + 1 ELSE chatQueues[c]
  <2>1. /\ sending' = [task |-> seq + 1, queue |-> q] /\ sending'.queue = q
        /\ lastUsed' = [lastUsed EXCEPT ![q] = clock]
        /\ worker' = IF chatQueues[c] = None THEN [worker EXCEPT ![q] = "idle"] ELSE worker
        /\ UNCHANGED <<clock, closed, buf>>
    BY <1>1 DEF Submit, Refreshed
  <2>2. q \in QueueId /\ q \notin closed
    BY <1>0, <1>1 DEF Submit, Refreshed, RegistryInv, TypeOK
  <2>3. lastUsed'[q] = clock
    BY <2>1, <2>2 DEF TypeOK
  <2>4. ASSUME NEW p \in QueueId, worker'[p] = "idle", buf'[p] # <<>>
        PROVE  lastUsed'[p] = clock'
    BY <2>1, <2>2, <2>3, <2>4 DEF FreshInv, TypeOK
  <2> QED
    BY <2>1, <2>2, <2>3, <2>4 DEF FreshInv
<1>2. CASE Send
  <2> DEFINE q == sending.queue
  <2>1. /\ sending' = NoSend
        /\ buf' = [buf EXCEPT ![q] = Append(@, sending.task)]
        /\ UNCHANGED <<clock, lastUsed, worker>>
    BY <1>2 DEF Send, workerVars
  <2>2. q \in QueueId /\ sending # NoSend /\ Len(buf[q]) < QueueCap /\ Len(buf[q]) \in Nat
    BY <1>2, LenProperties DEF Send, TypeOK
  <2>3. lastUsed[q] = clock
    BY <1>0, <2>2 DEF FreshInv
  <2>4. ASSUME NEW p \in QueueId, worker'[p] = "idle", buf'[p] # <<>>
        PROVE  lastUsed'[p] = clock'
    BY <2>1, <2>2, <2>3, <2>4 DEF FreshInv, TypeOK
  <2> QED
    BY <2>1, <2>4 DEF FreshInv
<1>3. ASSUME NEW q \in QueueId, Receive(q) PROVE FreshInv'
  <2>1. /\ buf' = [buf EXCEPT ![q] = Tail(@)] /\ worker'[q] # "idle"
        /\ \A p \in QueueId \ {q} : worker'[p] = worker[p] /\ buf'[p] = buf[p]
        /\ UNCHANGED <<clock, closed, lastUsed, sending>>
    BY <1>3 DEF Receive, TypeOK
  <2>2. lastUsed[q] = clock
    BY <1>3 DEF Receive, FreshInv
  <2>3. sending # NoSend => sending.queue \in QueueId
    BY DEF TypeOK
  <2>4. sending' # NoSend =>
          Len(buf'[sending'.queue]) >= QueueCap \/ lastUsed'[sending'.queue] = clock'
    BY <2>1, <2>2, <2>3 DEF FreshInv
  <2> QED
    BY <2>1, <2>4 DEF FreshInv
<1>4. ASSUME NEW q \in QueueId, Start(q) \/ Exit(q) \/ Finish(q) \/ GiveUp(q)
      PROVE  FreshInv'
  <2>1. UNCHANGED <<clock, buf, closed, lastUsed, sending>>
    BY <1>4 DEF Start, Exit, Finish, GiveUp, queueVars
  <2>2. \A p \in QueueId : worker'[p] = "idle" => worker[p] = "idle"
    <3>1. CASE Start(q) \/ Exit(q) \/ GiveUp(q)
      BY <3>1 DEF Start, Exit, GiveUp, TypeOK
    <3>2. CASE Finish(q)
      <4>1. Release(q)
        BY <3>2 DEF Finish
      <4> QED
        BY <4>1 DEF Release, TypeOK
    <3> QED BY <1>4, <3>1, <3>2
  <2> QED
    BY <2>1, <2>2 DEF FreshInv
<1>5. ASSUME NEW q \in QueueId, Touch(q) PROVE FreshInv'
  <2>1. /\ lastUsed' = [lastUsed EXCEPT ![q] = clock]
        /\ worker' = [worker EXCEPT ![q] = "idle"]
        /\ UNCHANGED <<clock, buf, closed, sending>>
    BY <1>5 DEF Touch, Refreshed
  <2>2. sending # NoSend => sending.queue \in QueueId
    BY DEF TypeOK
  <2> QED
    BY <2>1, <2>2 DEF FreshInv, TypeOK
<1>6. CASE CleanupIdleQueues
  <2>1. /\ closed' = closed \union {chatQueues[c] : c \in Reclaimable}
        /\ UNCHANGED <<clock, buf, lastUsed, sending, worker>>
    BY <1>6 DEF CleanupIdleQueues, workerVars
  <2>2. ASSUME sending # NoSend, sending.queue \in {chatQueues[c] : c \in Reclaimable}
        PROVE  FALSE
    <3> DEFINE q == sending.queue
    <3>1. q \in QueueId /\ clock - lastUsed[q] > IdleTimeout /\ buf[q] = <<>>
      BY <2>2 DEF Reclaimable, IdleTooLong, TypeOK
    <3>2. Len(buf[q]) = 0 /\ lastUsed[q] # clock
      BY <1>0, <3>1, EmptySeq DEF TypeOK
    <3> QED
      BY <1>0, <2>2, <3>2 DEF FreshInv
  <2> QED
    BY <2>1, <2>2 DEF FreshInv
<1>7. CASE Tick
  <2>1. Settled /\ UNCHANGED <<buf, closed, lastUsed, sending, worker>>
    BY <1>7 DEF Tick, queueVars, workerVars
  <2> QED
    BY <2>1 DEF Settled, FreshInv
<1>8. CASE UNCHANGED <<clock, buf, closed, lastUsed, sending, worker>>
  BY <1>8 DEF FreshInv
<1> QED
  BY <1>1, <1>2, <1>3, <1>4, <1>5, <1>6, <1>7, <1>8
  DEF Next, WorkerStep, PruneOldTasks, Stop, AtRest, taskVars, queueVars, workerVars, vars

\* queue.go sends on a channel outside the lock under which the janitor closes
\* channels, yet the send never finds its channel closed: it does not panic.
THEOREM SendNeverPanics == Spec => []NoSendOnClosed
<1>1. Init => RegistryInv /\ FreshInv
  BY DEF Init, RegistryInv, FreshInv, NoSend, None
<1>2. TypeOK /\ RegistryInv /\ FreshInv /\ [Next]_vars => RegistryInv' /\ FreshInv'
  BY RegistryStep, FreshStep
<1>3. FreshInv => NoSendOnClosed
  BY DEF FreshInv, NoSendOnClosed
<1> QED
  BY <1>1, <1>2, <1>3, TypeCorrect, PTL DEF Spec
----------------------------------------------------------------------------
\* Every step keeps the accounts of the semaphore.
LEMMA SemStep ==
  ASSUME TypeOK, SemInv, [Next]_vars
  PROVE  SemInv'
<1> DEFINE Waiters(s) == {s[i] : i \in 1..Len(s)}
           HasToken(w) == {p \in QueueId : w[p] \in {"granted", "running"}}
           Queued(w) == {p \in QueueId : w[p] = "waiting"}
<1>0. /\ QueueId = 1..MaxTasks /\ TaskId = 1..MaxTasks
      /\ seq \in Nat /\ MaxTasks \in Nat /\ None = 0 /\ MaxConcurrent \in Nat \ {0}
      /\ sem \subseteq QueueId /\ semWait \in Seq(QueueId) /\ Len(semWait) \in Nat
      /\ worker \in [QueueId -> WorkerState]
      /\ IsFiniteSet(sem) /\ Cardinality(sem) \in Nat
  <2>1. IsFiniteSet(1..MaxTasks)
    BY QueueAssumption, FS_Interval
  <2>2. sem \subseteq 1..MaxTasks
    BY DEF TypeOK, QueueId, TaskId
  <2>3. IsFiniteSet(sem)
    BY <2>1, <2>2, FS_Subset
  <2> QED
    BY <2>3, QueueAssumption, FS_CardinalityType, LenProperties
    DEF QueueId, TaskId, TypeOK, None
<1>1. /\ sem = HasToken(worker)
      /\ Cardinality(sem) <= MaxConcurrent
      /\ semWait # <<>> => Cardinality(sem) = MaxConcurrent
      /\ Waiters(semWait) = Queued(worker)
      /\ WaitsOnce
      /\ \A p \in QueueId : worker[p] # "absent" => p \in 1..seq
  BY DEF SemInv, SemaphoreAccounting
<1>2. \* It is enough that the new state has the same shape.
      ASSUME /\ sem' = HasToken(worker')
             /\ Cardinality(sem') <= MaxConcurrent
             /\ semWait' # <<>> => Cardinality(sem') = MaxConcurrent
             /\ Waiters(semWait') = Queued(worker')
             /\ WaitsOnce'
             /\ \A p \in QueueId : worker'[p] # "absent" => p \in 1..seq'
      PROVE  SemInv'
  BY <1>2 DEF SemInv, SemaphoreAccounting
<1>3. ASSUME UNCHANGED <<sem, semWait, seq>>, worker' \in [QueueId -> WorkerState],
             \A p \in QueueId : /\ worker'[p] \in {"granted", "running"}
                                     <=> worker[p] \in {"granted", "running"}
                                /\ worker'[p] = "waiting" <=> worker[p] = "waiting"
                                /\ worker'[p] = "absent" <=> worker[p] = "absent"
      PROVE  SemInv'
  <2>1. HasToken(worker') = HasToken(worker) /\ Queued(worker') = Queued(worker)
    BY <1>3
  <2>2. \A p \in QueueId : worker'[p] # "absent" => p \in 1..seq'
    BY <1>1, <1>3
  <2> HIDE DEF HasToken, Queued, Waiters
  <2> QED
    BY <1>1, <1>2, <1>3, <2>1, <2>2 DEF WaitsOnce
<1>4. ASSUME NEW c \in Chats, Submit(c) PROVE SemInv'
  <2>1. CASE chatQueues[c] = None
    <3>1. /\ worker' = [worker EXCEPT ![seq + 1] = "idle"] /\ seq' = seq + 1
          /\ seq + 1 \in QueueId /\ UNCHANGED <<sem, semWait>>
      BY <1>0, <1>4, <2>1 DEF Submit, Refreshed
    <3>2. worker[seq + 1] = "absent" /\ 1..seq \subseteq 1..seq' /\ seq + 1 \in 1..seq'
      BY <1>0, <1>1, <3>1
    <3>3. /\ HasToken(worker') = HasToken(worker) /\ Queued(worker') = Queued(worker)
          /\ \A p \in QueueId : worker'[p] # "absent" => p \in 1..seq'
      BY <1>0, <1>1, <3>1, <3>2
    <3> HIDE DEF HasToken, Queued, Waiters
    <3> QED
      BY <1>1, <1>2, <3>1, <3>3 DEF WaitsOnce
  <2>2. CASE chatQueues[c] # None
    <3>1. worker' = worker /\ seq' = seq + 1 /\ UNCHANGED <<sem, semWait>>
      BY <1>4, <2>2 DEF Submit, Refreshed
    <3>2. \A p \in QueueId : worker'[p] # "absent" => p \in 1..seq'
      BY <1>0, <1>1, <3>1
    <3> HIDE DEF HasToken, Queued, Waiters
    <3> QED
      BY <1>1, <1>2, <3>1, <3>2 DEF WaitsOnce
  <2> QED BY <2>1, <2>2
<1>5. ASSUME NEW q \in QueueId, Receive(q) PROVE SemInv'
  <2>1. worker[q] = "idle" /\ seq' = seq
    BY <1>5 DEF Receive, taskVars
  <2>2. q \notin sem /\ q \notin Waiters(semWait)
    BY <1>1, <2>1
  <2>3. CASE /\ Cardinality(sem) < MaxConcurrent
             /\ sem' = sem \union {q}
             /\ worker' = [worker EXCEPT ![q] = "granted"]
             /\ UNCHANGED semWait
    <3>1. Cardinality(sem') = Cardinality(sem) + 1
      BY <1>0, <2>2, <2>3, FS_AddElement
    <3>2. /\ HasToken(worker') = HasToken(worker) \union {q} /\ Queued(worker') = Queued(worker)
          /\ \A p \in QueueId : worker'[p] # "absent" => p \in 1..seq'
      BY <1>0, <1>1, <2>1, <2>3
    <3>3. semWait = <<>>
      BY <1>0, <1>1, <2>3
    <3>4. Cardinality(sem') <= MaxConcurrent
      BY <1>0, <2>3, <3>1
    <3>5. WaitsOnce' /\ Waiters(semWait') = Waiters(semWait)
      BY <1>1, <2>3 DEF WaitsOnce
    <3> HIDE DEF HasToken, Queued, Waiters
    <3>6. sem' = HasToken(worker') /\ Waiters(semWait') = Queued(worker') /\ semWait' = <<>>
      BY <1>1, <2>3, <3>2, <3>3, <3>5
    <3> QED
      BY <1>2, <3>2, <3>4, <3>5, <3>6
  <2>4. CASE /\ Cardinality(sem) >= MaxConcurrent
             /\ semWait' = Append(semWait, q)
             /\ worker' = [worker EXCEPT ![q] = "waiting"]
             /\ UNCHANGED sem
    <3>1. /\ Len(semWait') = Len(semWait) + 1
          /\ \A i \in 1..Len(semWait) : semWait'[i] = semWait[i]
          /\ semWait'[Len(semWait) + 1] = q
      BY <1>0, <2>4, AppendProperties
    <3>2. Waiters(semWait') = Waiters(semWait) \union {q}
      <4>0. Len(semWait) \in Nat /\ 1..Len(semWait') = 1..(Len(semWait) + 1)
        BY <1>0, <3>1, LenProperties
      <4>1. Waiters(semWait') \subseteq Waiters(semWait) \union {q}
        <5> SUFFICES ASSUME NEW i \in 1..(Len(semWait) + 1)
                     PROVE  semWait'[i] \in Waiters(semWait) \union {q}
          BY <4>0
        <5>1. CASE i \in 1..Len(semWait)
          BY <3>1, <5>1
        <5>2. CASE i \notin 1..Len(semWait)
          <6>1. i = Len(semWait) + 1
            BY <4>0, <5>2
          <6> QED BY <3>1, <6>1
        <5> QED BY <5>1, <5>2
      <4>2. Waiters(semWait) \subseteq Waiters(semWait')
        BY <3>1, <4>0
      <4>3. q \in Waiters(semWait')
        BY <1>0, <3>1
      <4> QED BY <4>1, <4>2, <4>3
    <3>3. WaitsOnce'
      <4> SUFFICES ASSUME NEW i \in 1..(Len(semWait) + 1), NEW j \in 1..(Len(semWait) + 1),
                          semWait'[i] = semWait'[j]
                   PROVE  i = j
        BY <3>1 DEF WaitsOnce
      <4>1. CASE i \in 1..Len(semWait) /\ j \in 1..Len(semWait)
        BY <1>1, <3>1, <4>1 DEF WaitsOnce
      <4>2. CASE i = Len(semWait) + 1 /\ j \in 1..Len(semWait)
        BY <2>2, <3>1, <4>2
      <4>3. CASE j = Len(semWait) + 1 /\ i \in 1..Len(semWait)
        BY <2>2, <3>1, <4>3
      <4> QED BY <1>0, <4>1, <4>2, <4>3
    <3>4. /\ HasToken(worker') = HasToken(worker) /\ Queued(worker') = Queued(worker) \union {q}
          /\ \A p \in QueueId : worker'[p] # "absent" => p \in 1..seq'
      BY <1>0, <1>1, <2>1, <2>4
    <3>5. Cardinality(sem') = MaxConcurrent
      BY <1>0, <1>1, <2>4
    <3> HIDE DEF HasToken, Queued, Waiters
    <3> QED
      BY <1>0, <1>1, <1>2, <2>4, <3>2, <3>3, <3>4, <3>5
  <2>5. CASE worker' = [worker EXCEPT ![q] = "served"] /\ UNCHANGED <<sem, semWait>>
    <3>1. worker' \in [QueueId -> WorkerState]
      BY <1>0, <2>5 DEF WorkerState
    <3> QED
      BY <1>0, <1>3, <2>1, <2>5, <3>1
  <2> QED
    BY <1>5, <2>3, <2>4, <2>5 DEF Receive
<1>6. ASSUME NEW q \in QueueId, Start(q) \/ Touch(q) \/ Exit(q) PROVE SemInv'
  <2>1. UNCHANGED <<sem, semWait, seq>> /\ worker' \in [QueueId -> WorkerState]
    BY <1>0, <1>6 DEF Start, Touch, Refreshed, Exit, taskVars, WorkerState
  <2>2. \A p \in QueueId : /\ worker'[p] \in {"granted", "running"}
                                <=> worker[p] \in {"granted", "running"}
                           /\ worker'[p] = "waiting" <=> worker[p] = "waiting"
                           /\ worker'[p] = "absent" <=> worker[p] = "absent"
    BY <1>0, <1>6 DEF Start, Touch, Refreshed, Exit
  <2> QED
    BY <1>3, <2>1, <2>2
<1>7. ASSUME NEW q \in QueueId, Finish(q) PROVE SemInv'
  <2>1. worker[q] = "running" /\ Release(q) /\ seq' = seq
    BY <1>7 DEF Finish
  <2>2. q \in sem
    BY <1>1, <2>1
  <2>3. Cardinality(sem \ {q}) = Cardinality(sem) - 1 /\ IsFiniteSet(sem \ {q})
    BY <1>0, <2>2, FS_RemoveElement
  <2>4. CASE semWait = <<>>
    <3>1. /\ sem' = sem \ {q} /\ worker' = [worker EXCEPT ![q] = "served"]
          /\ semWait' = semWait
      BY <2>1, <2>4 DEF Release
    <3>2. /\ HasToken(worker') = HasToken(worker) \ {q} /\ Queued(worker') = Queued(worker)
          /\ \A p \in QueueId : worker'[p] # "absent" => p \in 1..seq'
      BY <1>0, <1>1, <2>1, <3>1
    <3>3. Cardinality(sem') <= MaxConcurrent
      BY <1>0, <1>1, <2>3, <3>1
    <3>4. WaitsOnce' /\ Waiters(semWait') = Waiters(semWait)
      BY <1>1, <3>1 DEF WaitsOnce
    <3> HIDE DEF HasToken, Queued, Waiters
    <3>5. sem' = HasToken(worker') /\ Waiters(semWait') = Queued(worker') /\ semWait' = <<>>
      BY <1>1, <2>4, <3>1, <3>2, <3>4
    <3> QED
      BY <1>2, <3>2, <3>3, <3>4, <3>5
  <2>5. CASE semWait # <<>>
    <3> DEFINE w == Head(semWait)
    <3>1. /\ sem' = (sem \ {q}) \union {w}
          /\ worker' = [worker EXCEPT ![q] = "served", ![w] = "granted"]
          /\ semWait' = Tail(semWait)
      BY <2>1, <2>5 DEF Release
    <3>2. /\ w = semWait[1] /\ 1 \in 1..Len(semWait) /\ w \in QueueId
          /\ Len(semWait') = Len(semWait) - 1
          /\ \A i \in 1..(Len(semWait) - 1) : semWait'[i] = semWait[i + 1]
      BY <1>0, <2>5, <3>1, HeadTailProperties, EmptySeq
    <3>3. worker[w] = "waiting" /\ w # q /\ w \notin sem
      <4>1. w \in Waiters(semWait)
        BY <3>2
      <4> QED BY <1>1, <2>1, <4>1
    <3>4. Cardinality(sem') = Cardinality(sem)
      <4>1. Cardinality((sem \ {q}) \union {w}) = Cardinality(sem \ {q}) + 1
        BY <2>3, <3>3, FS_AddElement
      <4> QED BY <1>0, <2>3, <3>1, <4>1
    <3>5. Waiters(semWait') = Waiters(semWait) \ {w}
      <4>1. ASSUME NEW i \in 1..Len(semWait') PROVE semWait'[i] \in Waiters(semWait) \ {w}
        <5>1. i + 1 \in 1..Len(semWait) /\ semWait'[i] = semWait[i + 1] /\ i + 1 # 1
          BY <1>0, <3>2
        <5> QED BY <1>1, <3>2, <5>1 DEF WaitsOnce
      <4>2. ASSUME NEW i \in 1..Len(semWait), semWait[i] # w
            PROVE  semWait[i] \in Waiters(semWait')
        <5>1. i - 1 \in 1..Len(semWait') /\ semWait'[i - 1] = semWait[i]
          BY <1>0, <3>2, <4>2
        <5> QED BY <5>1
      <4> QED BY <4>1, <4>2
    <3>6. WaitsOnce'
      <4> SUFFICES ASSUME NEW i \in 1..(Len(semWait) - 1), NEW j \in 1..(Len(semWait) - 1),
                          semWait'[i] = semWait'[j]
                   PROVE  i = j
        BY <3>2 DEF WaitsOnce
      <4>1. i + 1 \in 1..Len(semWait) /\ j + 1 \in 1..Len(semWait)
        BY <1>0
      <4>2. i + 1 = j + 1
        BY <1>1, <3>2, <4>1 DEF WaitsOnce
      <4> QED BY <1>0, <4>2
    <3>7. worker'[q] = "served" /\ worker'[w] = "granted"
          /\ \A p \in QueueId \ {q, w} : worker'[p] = worker[p]
      BY <1>0, <3>1, <3>2, <3>3
    <3>8. /\ HasToken(worker') = (HasToken(worker) \ {q}) \union {w}
          /\ Queued(worker') = Queued(worker) \ {w}
          /\ \A p \in QueueId : worker'[p] # "absent" => p \in 1..seq'
      BY <1>1, <2>1, <3>2, <3>3, <3>7
    <3>9. Cardinality(sem') = MaxConcurrent
      BY <1>1, <2>5, <3>4
    <3> HIDE DEF HasToken, Queued, Waiters, w
    <3>10. sem' = HasToken(worker') /\ Waiters(semWait') = Queued(worker')
      BY <1>1, <3>1, <3>5, <3>8
    <3>11. Cardinality(sem') <= MaxConcurrent
      BY <1>0, <3>9
    <3> QED
      BY <1>2, <3>6, <3>8, <3>9, <3>10, <3>11
  <2> QED BY <2>4, <2>5
<1>8. ASSUME NEW q \in QueueId, GiveUp(q) PROVE SemInv'
  <2>1. PICK k \in 1..Len(semWait) : semWait[k] = q /\ semWait' = RemoveAt(semWait, k)
    BY <1>8 DEF GiveUp
  <2>2. /\ worker[q] = "waiting" /\ worker' = [worker EXCEPT ![q] = "served"]
        /\ UNCHANGED <<sem, seq>>
    BY <1>8 DEF GiveUp, taskVars
  <2>3. /\ Len(semWait') = Len(semWait) - 1
        /\ \A j \in 1..(Len(semWait) - 1) :
             semWait'[j] = IF j < k THEN semWait[j] ELSE semWait[j + 1]
    BY <1>0, <2>1, RemoveAtElements
  <2>4. Waiters(semWait') = Waiters(semWait) \ {q}
    <3>1. ASSUME NEW i \in 1..Len(semWait') PROVE semWait'[i] \in Waiters(semWait) \ {q}
      <4>1. CASE i < k
        <5>1. i \in 1..Len(semWait) /\ i # k /\ semWait'[i] = semWait[i]
          BY <1>0, <2>1, <2>3, <4>1
        <5>2. semWait[i] # q
          BY <1>1, <2>1, <5>1 DEF WaitsOnce
        <5> QED BY <5>1, <5>2
      <4>2. CASE i >= k
        <5>1. i + 1 \in 1..Len(semWait) /\ semWait'[i] = semWait[i + 1] /\ i + 1 # k
          BY <1>0, <2>3, <4>2
        <5> QED BY <1>1, <2>1, <5>1 DEF WaitsOnce
      <4> QED BY <1>0, <2>3, <4>1, <4>2
    <3>2. ASSUME NEW i \in 1..Len(semWait), semWait[i] # q
          PROVE  semWait[i] \in Waiters(semWait')
      <4>1. CASE i < k
        <5>1. i \in 1..(Len(semWait) - 1)
          BY <1>0, <4>1
        <5>2. i \in 1..Len(semWait') /\ semWait'[i] = semWait[i]
          BY <2>3, <4>1, <5>1
        <5> QED BY <5>2
      <4>2. CASE i > k
        <5>1. i - 1 \in 1..(Len(semWait) - 1) /\ ~(i - 1 < k) /\ (i - 1) + 1 = i
          BY <1>0, <4>2
        <5>2. i - 1 \in 1..Len(semWait') /\ semWait'[i - 1] = semWait[i]
          BY <2>3, <5>1
        <5> QED BY <5>2
      <4> QED BY <1>0, <2>1, <3>2, <4>1, <4>2
    <3> QED BY <3>1, <3>2
  <2>5. WaitsOnce'
    <3> SUFFICES ASSUME NEW i \in 1..(Len(semWait) - 1), NEW j \in 1..(Len(semWait) - 1),
                        semWait'[i] = semWait'[j]
                 PROVE  i = j
      BY <2>3 DEF WaitsOnce
    <3> DEFINE Old(x) == IF x < k THEN x ELSE x + 1
    <3>1. /\ Old(i) \in 1..Len(semWait) /\ Old(j) \in 1..Len(semWait)
          /\ semWait'[i] = semWait[Old(i)] /\ semWait'[j] = semWait[Old(j)]
      <4> SUFFICES ASSUME NEW x \in 1..(Len(semWait) - 1)
                   PROVE  Old(x) \in 1..Len(semWait) /\ semWait'[x] = semWait[Old(x)]
        OBVIOUS
      <4>1. semWait'[x] = IF x < k THEN semWait[x] ELSE semWait[x + 1]
        BY <2>3
      <4>2. x \in 1..Len(semWait) /\ x + 1 \in 1..Len(semWait)
        BY <1>0
      <4> QED BY <4>1, <4>2
    <3>2. Old(i) = Old(j)
      BY <1>1, <3>1 DEF WaitsOnce
    <3> QED BY <1>0, <3>2
  <2>6. /\ HasToken(worker') = HasToken(worker) /\ Queued(worker') = Queued(worker) \ {q}
        /\ \A p \in QueueId : worker'[p] # "absent" => p \in 1..seq'
    BY <1>0, <1>1, <2>2
  <2>7. semWait # <<>>
    BY <1>0, <2>1, EmptySeq
  <2> HIDE DEF HasToken, Queued, Waiters
  <2> QED
    BY <1>1, <1>2, <2>2, <2>4, <2>5, <2>6, <2>7
<1>9. CASE UNCHANGED <<worker, sem, semWait, seq>>
  BY <1>0, <1>3, <1>9
<1> QED
  BY <1>4, <1>5, <1>6, <1>7, <1>8, <1>9
  DEF Next, WorkerStep, Send, CleanupIdleQueues, PruneOldTasks, Stop, Tick, AtRest,
      taskVars, workerVars, vars

\* Initially nobody holds or wants a token.
LEMMA SemInit == Init => SemInv
<1> SUFFICES ASSUME Init PROVE SemInv
  OBVIOUS
<1>1. Cardinality({}) <= MaxConcurrent
  BY FS_EmptySet, QueueAssumption
<1>2. sem = {} /\ semWait = <<>> /\ \A q \in QueueId : worker[q] = "absent"
  BY DEF Init
<1>3. Len(semWait) = 0
  BY <1>2, EmptySeq
<1> QED
  BY <1>1, <1>2, <1>3 DEF SemInv, SemaphoreAccounting, WaitsOnce

\* The counting semaphore of executeTask bounds the handlers that run at once
\* by maxConcurrent and never leaves a worker waiting beside a free token.
THEOREM SemaphoreIsAccounted == Spec => []SemaphoreAccounting
<1>1. Init => SemInv
  BY SemInit
<1>2. TypeOK /\ SemInv /\ [Next]_vars => SemInv'
  BY SemStep
<1>3. SemInv => SemaphoreAccounting
  BY DEF SemInv
<1> QED
  BY <1>1, <1>2, <1>3, TypeCorrect, PTL DEF Spec
----------------------------------------------------------------------------
\* Every step that closes no busy channel keeps each task with the one
\* channel of its chat.
LEMMA ChatStep ==
  ASSUME TypeOK, RegistryInv, FreshInv, FreshInv', SemInv, ChatInv, SparesBusy, [Next]_vars
  PROVE  ChatInv'
<1>0. /\ QueueId = 1..MaxTasks /\ TaskId = 1..MaxTasks
      /\ seq \in Nat /\ MaxTasks \in Nat /\ None = 0
      /\ worker \in [QueueId -> WorkerState]
  BY QueueAssumption DEF QueueId, TaskId, TypeOK, None
<1>1. \* Steps that only move a worker on.
      ASSUME UNCHANGED <<seq, chatOf, chatQueues, sending>>,
             \A p \in QueueId :
               /\ buf'[p] = buf[p]
               /\ worker'[p] \in Busy => worker[p] \in Busy /\ held'[p] = held[p]
      PROVE  ChatInv'
  BY <1>1 DEF ChatInv, RegisteredOwn, SendingOwn, BufferedOwn, HeldOwn, WorkedRegistered
<1>2. ASSUME NEW c \in Chats, Submit(c) PROVE ChatInv'
  <2> DEFINE t == seq + 1
             q == IF chatQueues[c] = None THEN t ELSE chatQueues[c]
  <2>1. /\ seq' = t /\ t \in TaskId
        /\ chatOf' = [chatOf EXCEPT ![t] = c]
        /\ chatQueues' = [chatQueues EXCEPT ![c] = q]
        /\ worker' = IF chatQueues[c] = None THEN [worker EXCEPT ![q] = "idle"] ELSE worker
        /\ sending' = [task |-> t, queue |-> q]
        /\ UNCHANGED <<buf, held>>
    BY <1>2 DEF Submit, Refreshed
  <2>2. /\ 1..seq \subseteq 1..seq' /\ t \in 1..seq' /\ t \notin 1..seq
        /\ \A u \in 1..seq' : u \in 1..seq \/ u = t
    BY <1>0, <2>1
  <2>3. /\ chatOf'[t] = c
        /\ \A u \in 1..seq : chatOf'[u] = chatOf[u]
    BY <1>0, <2>1, <2>2 DEF TypeOK
  <2>4. /\ chatQueues'[c] = q
        /\ \A d \in Chats \ {c} : chatQueues'[d] = chatQueues[d]
    BY <2>1 DEF TypeOK
  <2>5. \A d \in Chats : chatQueues[d] # None => chatQueues[d] \in 1..seq
    BY DEF RegistryInv
  <2>6. q \in 1..seq' /\ chatOf'[q] = c
    BY <2>2, <2>3, <2>5 DEF ChatInv, RegisteredOwn
  <2>7. RegisteredOwn'
    BY <2>2, <2>3, <2>4, <2>5, <2>6 DEF ChatInv, RegisteredOwn
  <2>8. SendingOwn'
    BY <2>1, <2>2, <2>3, <2>4, <2>6 DEF SendingOwn
  <2>9. \A p \in QueueId : /\ worker'[p] \in Busy => worker[p] \in Busy
                           /\ worker'[p] \in Busy \/ buf[p] # <<>> => p \in 1..seq
    BY <1>0, <2>1 DEF ChatInv, WorkedRegistered, Busy
  <2>10. BufferedOwn'
    <3> SUFFICES ASSUME NEW p \in QueueId, NEW i \in 1..Len(buf[p])
                 PROVE  buf[p][i] \in 1..seq' /\ chatOf'[buf[p][i]] = chatOf'[p]
      BY <2>1 DEF BufferedOwn
    <3>1. buf[p] # <<>>
      BY EmptySeq
    <3> QED
      BY <2>2, <2>3, <2>9, <3>1 DEF ChatInv, BufferedOwn
  <2>11. HeldOwn'
    BY <2>1, <2>2, <2>3, <2>9 DEF ChatInv, HeldOwn
  <2>12. WorkedRegistered'
    <3> SUFFICES ASSUME NEW p \in QueueId, worker'[p] \in Busy \/ buf'[p] # <<>>
                 PROVE  p \in 1..seq' /\ chatQueues'[chatOf'[p]] = p
      BY DEF WorkedRegistered
    <3>1. worker[p] \in Busy \/ buf[p] # <<>>
      BY <2>1, <2>9
    <3>2. p \in 1..seq /\ chatQueues[chatOf[p]] = p /\ chatOf'[p] = chatOf[p]
      BY <2>3, <3>1 DEF ChatInv, WorkedRegistered
    <3>3. chatOf[p] = c => q = p
      BY <1>0, <3>2
    <3>4. chatOf[p] \in Chats
      BY <3>2 DEF ChatInv
    <3> QED
      BY <2>2, <2>4, <3>2, <3>3, <3>4
  <2>13. \A u \in 1..seq' : chatOf'[u] \in Chats
    BY <2>2, <2>3 DEF ChatInv
  <2> QED
    BY <2>7, <2>8, <2>10, <2>11, <2>12, <2>13 DEF ChatInv
<1>3. CASE Send
  <2> DEFINE q == sending.queue
  <2>1. /\ sending # NoSend /\ sending' = NoSend
        /\ buf' = [buf EXCEPT ![q] = Append(@, sending.task)]
        /\ UNCHANGED <<seq, chatOf, chatQueues, worker, held>>
    BY <1>3 DEF Send, taskVars, workerVars
  <2>2. /\ q \in QueueId /\ q \in 1..seq /\ sending.task \in TaskId /\ sending.task \in 1..seq
        /\ chatOf[sending.task] = chatOf[q] /\ chatQueues[chatOf[q]] = q
    BY <2>1 DEF ChatInv, SendingOwn, TypeOK
  <2>3. /\ buf[q] \in Seq(TaskId) /\ Len(buf[q]) \in Nat
        /\ buf'[q] = Append(buf[q], sending.task)
        /\ \A p \in QueueId \ {q} : buf'[p] = buf[p]
    BY <2>1, <2>2, LenProperties DEF TypeOK
  <2>4. BufferedOwn'
    <3> SUFFICES ASSUME NEW p \in QueueId, NEW i \in 1..Len(buf'[p])
                 PROVE  buf'[p][i] \in 1..seq /\ chatOf[buf'[p][i]] = chatOf[p]
      BY <2>1 DEF BufferedOwn
    <3>1. CASE p # q
      BY <2>3, <3>1 DEF ChatInv, BufferedOwn
    <3>2. CASE p = q /\ i \in 1..Len(buf[q])
      <4>1. buf'[p][i] = buf[q][i]
        <5>1. buf[q] \in Seq(TaskId) /\ sending.task \in TaskId /\ buf'[p] = Append(buf[q], sending.task)
          BY <2>2, <2>3, <3>2
        <5> QED BY <3>2, <5>1, AppendProperties
      <4> QED BY <2>2, <3>2, <4>1 DEF ChatInv, BufferedOwn
    <3>3. CASE p = q /\ i = Len(buf[q]) + 1
      BY <2>2, <2>3, <3>3, AppendProperties
    <3>4. p = q => i \in 1..(Len(buf[q]) + 1)
      BY <2>2, <2>3, AppendProperties
    <3> QED
      BY <2>3, <3>1, <3>2, <3>3, <3>4
  <2>5. WorkedRegistered'
    BY <2>1, <2>2, <2>3 DEF ChatInv, WorkedRegistered
  <2>6. HeldOwn' /\ RegisteredOwn' /\ SendingOwn'
    BY <2>1 DEF ChatInv, HeldOwn, RegisteredOwn, SendingOwn
  <2> QED
    BY <2>1, <2>4, <2>5, <2>6 DEF ChatInv
<1>4. ASSUME NEW q \in QueueId, Receive(q) PROVE ChatInv'
  <2>1. /\ buf[q] # <<>> /\ buf[q] \in Seq(TaskId)
        /\ buf' = [buf EXCEPT ![q] = Tail(@)]
        /\ held' = [held EXCEPT ![q] = Head(buf[q])]
        /\ \A p \in QueueId \ {q} : worker'[p] = worker[p]
        /\ UNCHANGED <<seq, chatOf, chatQueues, sending>>
    BY <1>4 DEF Receive, TypeOK, taskVars
  <2>2. /\ Head(buf[q]) = buf[q][1] /\ 1 \in 1..Len(buf[q]) /\ Len(buf[q]) \in Nat
        /\ Len(Tail(buf[q])) = Len(buf[q]) - 1
        /\ \A i \in 1..(Len(buf[q]) - 1) : Tail(buf[q])[i] = buf[q][i + 1]
    BY <2>1, HeadTailProperties, EmptySeq, LenProperties
  <2>3. Head(buf[q]) \in 1..seq /\ chatOf[Head(buf[q])] = chatOf[q]
    BY <2>2 DEF ChatInv, BufferedOwn
  <2>4. BufferedOwn'
    <3> SUFFICES ASSUME NEW p \in QueueId, NEW i \in 1..Len(buf'[p])
                 PROVE  buf'[p][i] \in 1..seq /\ chatOf[buf'[p][i]] = chatOf[p]
      BY <2>1 DEF BufferedOwn
    <3>1. CASE p # q
      BY <2>1, <3>1 DEF ChatInv, BufferedOwn, TypeOK
    <3>2. CASE p = q
      <4>1. buf'[q] = Tail(buf[q])
        BY <2>1 DEF TypeOK
      <4>2. i \in 1..(Len(buf[q]) - 1) /\ i + 1 \in 1..Len(buf[q])
        BY <2>2, <3>2, <4>1
      <4>3. buf'[p][i] = buf[q][i + 1]
        BY <2>2, <3>2, <4>1, <4>2
      <4> QED
        BY <3>2, <4>2, <4>3 DEF ChatInv, BufferedOwn
    <3> QED BY <3>1, <3>2
  <2>5. HeldOwn'
    BY <2>1, <2>3 DEF ChatInv, HeldOwn, TypeOK
  <2>6. WorkedRegistered'
    BY <2>1 DEF ChatInv, WorkedRegistered, TypeOK
  <2>7. RegisteredOwn' /\ SendingOwn'
    BY <2>1 DEF ChatInv, RegisteredOwn, SendingOwn
  <2> QED
    BY <2>1, <2>4, <2>5, <2>6, <2>7 DEF ChatInv
<1>5. ASSUME NEW q \in QueueId, Start(q) \/ GiveUp(q) \/ Touch(q) \/ Exit(q) PROVE ChatInv'
  <2>1. UNCHANGED <<seq, chatOf, chatQueues, sending, buf>>
    BY <1>5 DEF Start, GiveUp, Touch, Refreshed, Exit, taskVars, queueVars
  <2>0. worker \in [QueueId -> WorkerState] /\ held \in [QueueId -> TaskId \union {None}]
    BY <1>0 DEF TypeOK
  <2>2. \A p \in QueueId : worker'[p] \in Busy => worker[p] \in Busy /\ held'[p] = held[p]
    <3>1. CASE Start(q) \/ GiveUp(q) \/ Exit(q)
      <4>1. held' = held /\ \A p \in QueueId \ {q} : worker'[p] = worker[p]
        BY <2>0, <3>1 DEF Start, GiveUp, Exit
      <4>2. worker'[q] \in Busy => worker[q] \in Busy
        BY <2>0, <3>1 DEF Start, GiveUp, Exit, Busy
      <4> QED BY <4>1, <4>2
    <3>2. CASE Touch(q)
      <4>1. \A p \in QueueId \ {q} : worker'[p] = worker[p] /\ held'[p] = held[p]
        BY <2>0, <3>2 DEF Touch
      <4>2. worker'[q] \notin Busy
        BY <2>0, <3>2 DEF Touch, Busy
      <4> QED BY <4>1, <4>2
    <3> QED BY <1>5, <3>1, <3>2
  <2> QED BY <1>1, <2>1, <2>2
<1>6. ASSUME NEW q \in QueueId, Finish(q) PROVE ChatInv'
  <2>1. UNCHANGED <<seq, chatOf, chatQueues, sending, buf, held>>
    BY <1>6 DEF Finish, queueVars
  <2>2. worker[q] = "running" /\ Release(q)
    BY <1>6 DEF Finish
  <2>3. semWait # <<>> => Head(semWait) \in QueueId /\ worker[Head(semWait)] = "waiting"
    <3> SUFFICES ASSUME semWait # <<>>
                 PROVE  Head(semWait) \in QueueId /\ worker[Head(semWait)] = "waiting"
      OBVIOUS
    <3>1. Head(semWait) = semWait[1] /\ 1 \in 1..Len(semWait)
      BY EmptySeq, LenProperties DEF TypeOK
    <3>2. semWait[1] \in {semWait[i] : i \in 1..Len(semWait)}
      BY <3>1
    <3> QED
      BY <3>1, <3>2 DEF SemInv, SemaphoreAccounting
  <2>4. \A p \in QueueId : worker'[p] \in Busy => worker[p] \in Busy
    BY <1>0, <2>2, <2>3 DEF Release, Busy
  <2> QED BY <1>1, <2>1, <2>4
<1>7. CASE CleanupIdleQueues
  <2>1. /\ closed' = closed \union {chatQueues[c] : c \in Reclaimable}
        /\ chatQueues' = [c \in Chats |-> IF c \in Reclaimable THEN None ELSE chatQueues[c]]
        /\ UNCHANGED <<seq, chatOf, sending, buf, worker, held>>
    BY <1>7 DEF CleanupIdleQueues, taskVars, workerVars
  <2>2. ASSUME NEW p \in QueueId, worker[p] \in Busy \/ buf[p] # <<>>
        PROVE  chatOf[p] \notin Reclaimable
    <3>1. p \in 1..seq /\ chatQueues[chatOf[p]] = p /\ p # None /\ chatOf[p] \in Chats
      BY <1>0, <2>2 DEF ChatInv, WorkedRegistered
    <3>2. p \notin closed
      BY <3>1 DEF RegistryInv
    <3>3. SUFFICES ASSUME chatOf[p] \in Reclaimable PROVE FALSE
      OBVIOUS
    <3>4. p \in closed' \ closed
      BY <2>1, <3>1, <3>2, <3>3
    <3>5. buf[p] = <<>>
      BY <3>1, <3>3 DEF Reclaimable, IdleTooLong
    <3> QED
      BY <2>2, <3>4, <3>5 DEF SparesBusy
  <2>3. WorkedRegistered'
    BY <2>1, <2>2 DEF ChatInv, WorkedRegistered
  <2>4. SendingOwn'
    <3> SUFFICES ASSUME sending # NoSend PROVE SendingOwn'
      BY <2>1 DEF SendingOwn
    <3>1. sending.queue \notin closed'
      BY <2>1 DEF FreshInv
    <3>2. chatQueues[chatOf[sending.queue]] = sending.queue /\ chatOf[sending.queue] \in Chats
      BY DEF ChatInv, SendingOwn
    <3>3. chatOf[sending.queue] \notin Reclaimable
      BY <2>1, <3>1, <3>2
    <3> QED
      BY <2>1, <3>2, <3>3 DEF ChatInv, SendingOwn
  <2>5. RegisteredOwn' /\ BufferedOwn' /\ HeldOwn'
    BY <2>1 DEF ChatInv, RegisteredOwn, BufferedOwn, HeldOwn
  <2> QED
    BY <2>1, <2>3, <2>4, <2>5 DEF ChatInv
<1>8. CASE UNCHANGED <<seq, chatOf, chatQueues, sending, buf, worker, held>>
  BY <1>1, <1>8
<1> QED
  BY <1>2, <1>3, <1>4, <1>5, <1>6, <1>7, <1>8
  DEF Next, WorkerStep, PruneOldTasks, Stop, Tick, AtRest, taskVars, queueVars,
      workerVars, vars

\* Tasks that keep to their chat's registered channel run one at a time.
LEMMA OneChannelOneTask ==
  ASSUME ChatInv
  PROVE  PerChatSerial
<1> SUFFICES ASSUME NEW p \in QueueId, NEW q \in QueueId,
                    worker[p] = "running", worker[q] = "running",
                    chatOf[held[p]] = chatOf[held[q]]
             PROVE  p = q
  BY DEF PerChatSerial
<1>1. worker[p] \in Busy /\ worker[q] \in Busy
  BY DEF Busy
<1>2. chatOf[p] = chatOf[q]
  BY <1>1 DEF ChatInv, HeldOwn
<1> QED
  BY <1>1, <1>2 DEF ChatInv, WorkedRegistered

IInv == RegistryInv /\ FreshInv /\ SemInv /\ ChatInv

\* The strengthened invariant holds initially,
LEMMA IInvInit == Init => IInv
<1> SUFFICES ASSUME Init PROVE IInv
  OBVIOUS
<1>1. RegistryInv /\ FreshInv
  BY DEF Init, RegistryInv, FreshInv, NoSend, None
<1>2. SemInv
  BY SemInit
<1>3. Len(<<>>) = 0 /\ 1..0 = {}
  BY EmptySeq
<1>4. ChatInv
  BY <1>3 DEF Init, ChatInv, RegisteredOwn, SendingOwn, BufferedOwn, HeldOwn,
              WorkedRegistered, Busy
<1> QED BY <1>1, <1>2, <1>4 DEF IInv

\* and every step that closes no busy channel keeps it.
LEMMA IInvStep ==
  ASSUME TypeOK, IInv, SparesBusy, [Next]_vars
  PROVE  IInv'
<1>1. RegistryInv' /\ FreshInv' /\ SemInv'
  BY RegistryStep, FreshStep, SemStep DEF IInv
<1> QED
  BY <1>1, ChatStep DEF IInv

\* If the janitor never closes the channel of a busy worker, messages of one
\* chat are handled one after the other, over all the channels the chat has
\* had: the janitor is the only thing that can break the serialization.
THEOREM SerialIfJanitorSparesBusy ==
  Spec /\ [][SparesBusy]_vars => []PerChatSerial
<1>1. Init => IInv
  BY IInvInit
<1>2. TypeOK /\ IInv /\ [Next]_vars /\ [SparesBusy]_vars => IInv'
  <2> SUFFICES ASSUME TypeOK, IInv, [Next]_vars, [SparesBusy]_vars PROVE IInv'
    OBVIOUS
  <2>1. SparesBusy
    BY DEF SparesBusy, vars
  <2> QED
    BY <2>1, IInvStep
<1>3. IInv => PerChatSerial
  BY OneChannelOneTask DEF IInv
<1> QED
  BY <1>1, <1>2, <1>3, TypeCorrect, PTL DEF Spec
----------------------------------------------------------------------------
\* While no worker waits for a token, every step keeps busy channels young.
LEMMA AgeStep ==
  ASSUME TypeOK, FreshInv, AgeInv, semWait = <<>>, [Next]_vars
  PROVE  AgeInv'
<1>0. /\ clock \in Nat /\ TaskTimeout \in Nat \ {0}
      /\ lastUsed \in [QueueId -> Nat] /\ startedAt \in [QueueId -> Nat]
      /\ worker \in [QueueId -> WorkerState]
  BY QueueAssumption DEF TypeOK
<1>1. ASSUME NEW c \in Chats, Submit(c) PROVE AgeInv'
  <2> DEFINE q == IF chatQueues[c] = None THEN seq + 1 ELSE chatQueues[c]
  <2>1. /\ lastUsed' = [lastUsed EXCEPT ![q] = clock]
        /\ worker' = IF chatQueues[c] = None THEN [worker EXCEPT ![q] = "idle"] ELSE worker
        /\ UNCHANGED <<clock, startedAt>>
    BY <1>1 DEF Submit, Refreshed
  <2> HIDE DEF q
  <2> QED
    BY <1>0, <2>1 DEF AgeInv
<1>2. ASSUME NEW q \in QueueId, Receive(q) PROVE AgeInv'
  <2>1. /\ worker'[q] \in {"granted", "waiting", "served"}
        /\ \A p \in QueueId \ {q} : worker'[p] = worker[p]
        /\ UNCHANGED <<clock, lastUsed, startedAt>>
    BY <1>0, <1>2 DEF Receive
  <2>2. lastUsed[q] = clock
    BY <1>2 DEF Receive, FreshInv
  <2> QED
    BY <1>0, <2>1, <2>2 DEF AgeInv
<1>3. ASSUME NEW q \in QueueId, Start(q) PROVE AgeInv'
  BY <1>0, <1>3 DEF Start, queueVars, AgeInv
<1>4. ASSUME NEW q \in QueueId, Finish(q) PROVE AgeInv'
  <2>1. /\ worker[q] = "running" /\ worker' = [worker EXCEPT ![q] = "served"]
        /\ startedAt' = [startedAt EXCEPT ![q] = 0]
        /\ UNCHANGED <<clock, lastUsed>>
    BY <1>4 DEF Finish, Release, queueVars
  <2> QED
    BY <1>0, <2>1 DEF AgeInv
<1>5. ASSUME NEW q \in QueueId, GiveUp(q) PROVE AgeInv'
  <2>1. Len(semWait) = 0
    BY EmptySeq
  <2> QED
    BY <1>5, <2>1 DEF GiveUp
<1>6. ASSUME NEW q \in QueueId, Touch(q) \/ Exit(q) PROVE AgeInv'
  BY <1>0, <1>6 DEF Touch, Refreshed, Exit, queueVars, AgeInv
<1>7. CASE Tick
  <2>1. Settled /\ clock' = clock + 1 /\ UNCHANGED <<lastUsed, worker, startedAt>>
    BY <1>7 DEF Tick, queueVars, workerVars
  <2> QED
    BY <1>0, <2>1 DEF Settled, AgeInv
<1>8. CASE UNCHANGED <<clock, lastUsed, worker, startedAt>>
  BY <1>8 DEF AgeInv
<1> QED
  BY <1>1, <1>2, <1>3, <1>4, <1>5, <1>6, <1>7, <1>8
  DEF Next, WorkerStep, Send, CleanupIdleQueues, PruneOldTasks, Stop, AtRest, taskVars,
      queueVars, workerVars, vars

\* A channel too old for the janitor has no busy worker, if a handler's
\* deadline is no longer than the janitor's patience and no worker waits.
LEMMA OldChannelsAreIdle ==
  ASSUME TaskTimeout <= IdleTimeout, TypeOK, SemInv, AgeInv, semWait = <<>>, [Next]_vars
  PROVE  SparesBusy
<1>1. ASSUME CleanupIdleQueues PROVE SparesBusy
  <2> SUFFICES ASSUME NEW c \in Reclaimable, worker[chatQueues[c]] \in Busy PROVE FALSE
    BY <1>1 DEF CleanupIdleQueues, SparesBusy
  <2> DEFINE q == chatQueues[c]
  <2>0. /\ clock \in Nat /\ TaskTimeout \in Nat /\ IdleTimeout \in Nat
        /\ lastUsed \in [QueueId -> Nat] /\ startedAt \in [QueueId -> Nat]
    BY QueueAssumption DEF TypeOK
  <2>1. q \in QueueId /\ clock - lastUsed[q] > IdleTimeout
    BY DEF Reclaimable, IdleTooLong, TypeOK
  <2>2. worker[q] # "waiting"
    <3>1. Len(semWait) = 0
      BY EmptySeq
    <3> QED
      BY <2>1, <3>1 DEF SemInv, SemaphoreAccounting
  <2>3. clock <= lastUsed[q] + TaskTimeout
    BY <2>0, <2>1, <2>2 DEF AgeInv, Busy
  <2> QED
    BY <2>0, <2>1, <2>3
<1>2. ASSUME closed' = closed PROVE SparesBusy
  BY <1>2 DEF SparesBusy
<1> QED
  BY <1>1, <1>2
  DEF Next, WorkerStep, Submit, Send, Receive, Start, Finish, GiveUp, Touch, Exit,
      PruneOldTasks, Stop, Tick, AtRest, queueVars, vars

\* With task timeouts no longer than the five minutes of the idle sweep, and as
\* long as tokens are not scarce, the messages of a chat are handled one after
\* the other.  The gateway's defaults (1800 s, 5 min) do not meet the first
\* condition, and TLC shows the property fail there.
THEOREM SerialWithShortTasks ==
  ASSUME TaskTimeout <= IdleTimeout
  PROVE  Spec /\ [](semWait = <<>>) => []PerChatSerial
<1>1. Init => IInv /\ AgeInv
  <2>1. Init => AgeInv
    BY DEF Init, AgeInv
  <2> QED
    BY <2>1, IInvInit
<1>2. TypeOK /\ IInv /\ AgeInv /\ semWait = <<>> /\ [Next]_vars => IInv' /\ AgeInv'
  <2> SUFFICES ASSUME TypeOK, IInv, AgeInv, semWait = <<>>, [Next]_vars
               PROVE  IInv' /\ AgeInv'
    OBVIOUS
  <2>1. SparesBusy
    BY OldChannelsAreIdle DEF IInv
  <2>2. AgeInv'
    BY AgeStep DEF IInv
  <2> QED
    BY <2>1, <2>2, IInvStep
<1>3. IInv => PerChatSerial
  BY OneChannelOneTask DEF IInv
<1> QED
  BY <1>1, <1>2, <1>3, TypeCorrect, PTL DEF Spec
----------------------------------------------------------------------------
(* Where a task is until its handler returns. *)

\* The worker has a task in hand that it has not finished.
InHand(q) == worker[q] \in {"waiting", "granted", "running"}

\* A task is held as long as the worker is busy with it.
HandsInv ==
  /\ \A q \in QueueId : InHand(q) => held[q] \in 1..seq
  /\ \A q \in QueueId : worker[q] \in {"absent", "idle", "exited"} => held[q] = None
  /\ \A p, q \in QueueId : InHand(p) /\ InHand(q) /\ held[p] = held[q] => p = q
  /\ \A q \in QueueId : InHand(q) =>
       status[held[q]] = (IF worker[q] = "running" THEN "running" ELSE "pending")

\* A channel buffers pending tasks, each once and none that a worker holds.
BuffersInv ==
  \A q \in QueueId : \A i \in 1..Len(buf[q]) :
    /\ buf[q][i] \in 1..seq
    /\ status[buf[q][i]] = "pending"
    /\ \A p \in QueueId : \A j \in 1..Len(buf[p]) : buf[p][j] = buf[q][i] => p = q /\ i = j
    /\ \A p \in QueueId : InHand(p) => held[p] # buf[q][i]

\* The task of a Submit that has not sent it yet is in neither place.
SendingInv ==
  sending # NoSend =>
    /\ sending.task \in 1..seq
    /\ status[sending.task] = "pending"
    /\ \A q \in QueueId : InHand(q) => held[q] # sending.task
    /\ \A q \in QueueId : \A i \in 1..Len(buf[q]) : buf[q][i] # sending.task

HasPlace(t) ==
  \/ sending.task = t
  \/ \E q \in QueueId : InHand(q) /\ held[q] = t
  \/ \E q \in QueueId : \E i \in 1..Len(buf[q]) : buf[q][i] = t

\* A task is listed until it is finished, marked running by nobody but the worker
\* that runs it, and forgotten by nobody while the queue is open.
LiveInv ==
  \A t \in 1..seq : status[t] \notin Terminal =>
    /\ t \in listed
    /\ ~stopped => HasPlace(t)
    /\ status[t] = "running" => \E q \in QueueId : worker[q] = "running" /\ held[q] = t

PlacesInv == HandsInv /\ BuffersInv /\ SendingInv /\ LiveInv

\* A step that leaves the tasks, the channels and the hands of the workers as they are,
\* lets a worker come to rest with no task and forgets none but finished tasks.
LEMMA PlacesRest ==
  ASSUME PlacesInv, UNCHANGED <<seq, status, buf, sending>>,
         \A q \in QueueId : /\ InHand(q)' <=> InHand(q)
                            /\ InHand(q) => worker'[q] = worker[q] /\ held'[q] = held[q]
                            /\ worker'[q] \in {"absent", "idle", "exited"} => held'[q] = None,
         stopped => stopped',
         \A t \in listed \ listed' : status[t] \in Terminal
  PROVE  PlacesInv'
<1>1. HandsInv'
  BY DEF PlacesInv, HandsInv
<1>2. BuffersInv' /\ SendingInv'
  <2>1. \A p \in QueueId : InHand(p)' => InHand(p) /\ held'[p] = held[p]
    OBVIOUS
  <2> QED BY <2>1 DEF PlacesInv, BuffersInv, SendingInv
<1>3. LiveInv'
  <2>1. \A q \in QueueId : worker[q] = "running" => worker'[q] = "running" /\ held'[q] = held[q]
    BY DEF InHand
  <2>2. \A t \in 1..seq : HasPlace(t) => HasPlace(t)'
    BY DEF HasPlace
  <2> QED BY <2>1, <2>2 DEF PlacesInv, LiveInv
<1> QED BY <1>1, <1>2, <1>3 DEF PlacesInv

\* Submit: the new task has a place, and no other place had it.
LEMMA PlacesSubmit ==
  ASSUME TypeOK, SemInv, PlacesInv, NEW c \in Chats, Submit(c)
  PROVE  PlacesInv'
<1> DEFINE t == seq + 1
<1>0. /\ QueueId = 1..MaxTasks /\ TaskId = 1..MaxTasks /\ seq \in Nat /\ MaxTasks \in Nat
      /\ None = 0 /\ t \in TaskId /\ t \notin 1..seq
  BY QueueAssumption DEF QueueId, TaskId, TypeOK, None, Submit
<1>1. /\ seq' = t /\ 1..seq' = 1..seq \union {t}
      /\ sending = NoSend /\ sending' # NoSend /\ sending'.task = t
      /\ ~stopped /\ listed' = listed \union {t}
      /\ UNCHANGED <<buf, held, stopped>>
  BY <1>0 DEF Submit, NoSend
<1>2. /\ status'[t] = "pending"
      /\ \A u \in 1..seq : status'[u] = status[u]
  BY <1>0 DEF Submit, TypeOK
<1>3. \A q \in QueueId : \/ worker'[q] = worker[q]
                         \/ q = t /\ worker'[q] = "idle" /\ worker[q] = "absent"
  <2>1. worker[t] = "absent"
    BY <1>0 DEF SemInv, QueueId
  <2>2. \/ worker' = worker
        \/ worker' = [worker EXCEPT ![t] = "idle"]
    BY DEF Submit
  <2> QED BY <1>0, <2>1, <2>2 DEF TypeOK
<1>4. \A q \in QueueId : /\ InHand(q)' <=> InHand(q)
                         /\ InHand(q) => worker'[q] = worker[q]
                         /\ worker'[q] = "running" <=> worker[q] = "running"
  BY <1>3 DEF InHand
<1> HIDE DEF t
<1>5. HandsInv'
  <2>1. \A q \in QueueId : worker'[q] \in {"absent", "idle", "exited"} => held[q] = None
    BY <1>3 DEF PlacesInv, HandsInv
  <2>2. \A q \in QueueId : InHand(q) => held[q] \in 1..seq
    BY DEF PlacesInv, HandsInv
  <2> QED BY <1>1, <1>2, <1>4, <2>1, <2>2 DEF PlacesInv, HandsInv
<1>6. BuffersInv'
  BY <1>1, <1>2, <1>4 DEF PlacesInv, BuffersInv
<1>7. SendingInv'
  <2>1. \A q \in QueueId : InHand(q) => held[q] # t
    BY <1>0 DEF PlacesInv, HandsInv
  <2>2. \A q \in QueueId : \A i \in 1..Len(buf[q]) : buf[q][i] # t
    BY <1>0 DEF PlacesInv, BuffersInv
  <2> QED BY <1>1, <1>2, <1>4, <2>1, <2>2 DEF SendingInv
<1>8. LiveInv'
  <2>1. ASSUME NEW u \in 1..seq, HasPlace(u) PROVE HasPlace(u)'
    <3>1. sending.task # u
      BY <1>1 DEF NoSend, None
    <3> QED BY <1>1, <1>4, <2>1, <3>1 DEF HasPlace
  <2>2. ASSUME NEW u, u = t PROVE HasPlace(u)'
    BY <1>1, <2>2 DEF HasPlace
  <2> SUFFICES ASSUME NEW u \in 1..seq', status'[u] \notin Terminal
               PROVE  /\ u \in listed' /\ HasPlace(u)'
                      /\ status'[u] = "running" =>
                           \E q \in QueueId : worker'[q] = "running" /\ held'[q] = u
    BY DEF LiveInv
  <2>3. CASE u = t
    BY <1>1, <1>2, <2>2, <2>3
  <2>4. CASE u \in 1..seq
    <3>1. status[u] \notin Terminal /\ status'[u] = status[u]
      BY <1>2, <2>4
    <3>2. /\ u \in listed /\ HasPlace(u)
          /\ status[u] = "running" => \E q \in QueueId : worker[q] = "running" /\ held[q] = u
      BY <1>1, <2>4, <3>1 DEF PlacesInv, LiveInv
    <3> QED BY <1>1, <1>4, <2>1, <2>4, <3>1, <3>2
  <2> QED BY <1>1, <2>3, <2>4
<1> QED BY <1>5, <1>6, <1>7, <1>8 DEF PlacesInv

\* Send: the task moves from the blocked Submit to the end of its channel.
LEMMA PlacesSend ==
  ASSUME TypeOK, PlacesInv, Send
  PROVE  PlacesInv'
<1> DEFINE q == sending.queue
           t == sending.task
           n == Len(buf[q])
<1>1. /\ sending # NoSend /\ sending' = NoSend /\ sending'.task = None
      /\ buf' = [buf EXCEPT ![q] = Append(@, t)]
      /\ UNCHANGED <<seq, status, listed, stopped, worker, held>>
  BY DEF Send, taskVars, workerVars, NoSend
<1>2. q \in QueueId /\ t \in TaskId /\ t \in 1..seq /\ status[t] = "pending"
  BY <1>1 DEF TypeOK, PlacesInv, SendingInv
<1>3. buf[q] \in Seq(TaskId) /\ n \in Nat
  BY <1>2, LenProperties DEF TypeOK
<1>4. /\ buf'[q] = Append(buf[q], t)
      /\ \A p \in QueueId \ {q} : buf'[p] = buf[p]
  BY <1>1, <1>2 DEF TypeOK
<1>5. /\ Len(Append(buf[q], t)) = n + 1
      /\ \A i \in 1..n : Append(buf[q], t)[i] = buf[q][i]
      /\ Append(buf[q], t)[n + 1] = t
  BY <1>2, <1>3, AppendProperties
<1>6. \A p \in QueueId : \A i \in 1..Len(buf'[p]) :
        \/ i \in 1..Len(buf[p]) /\ buf'[p][i] = buf[p][i]
        \/ p = q /\ i = n + 1 /\ buf'[p][i] = t
  <2> SUFFICES ASSUME NEW p \in QueueId, NEW i \in 1..Len(buf'[p])
               PROVE  \/ i \in 1..Len(buf[p]) /\ buf'[p][i] = buf[p][i]
                      \/ p = q /\ i = n + 1 /\ buf'[p][i] = t
    OBVIOUS
  <2>1. CASE p # q
    BY <1>4, <2>1
  <2>2. CASE p = q
    <3>1. i \in 1..(n + 1)
      BY <1>4, <1>5, <2>2
    <3> QED BY <1>3, <1>4, <1>5, <2>2, <3>1
  <2> QED BY <2>1, <2>2
<1>7. \A p \in QueueId : \A i \in 1..Len(buf[p]) : i \in 1..Len(buf'[p]) /\ buf'[p][i] = buf[p][i]
  <2> SUFFICES ASSUME NEW p \in QueueId, NEW i \in 1..Len(buf[p])
               PROVE  i \in 1..Len(buf'[p]) /\ buf'[p][i] = buf[p][i]
    OBVIOUS
  <2>1. CASE p # q
    BY <1>4, <2>1
  <2>2. CASE p = q
    BY <1>3, <1>4, <1>5, <2>2
  <2> QED BY <2>1, <2>2
<1>8. n + 1 \in 1..Len(buf'[q]) /\ buf'[q][n + 1] = t
  BY <1>3, <1>4, <1>5
<1> HIDE DEF q, t, n
<1>9. \A p \in QueueId : InHand(p)' <=> InHand(p)
  BY <1>1 DEF InHand
<1>10. HandsInv'
  BY <1>1, <1>9 DEF PlacesInv, HandsInv
<1>11. /\ \A p \in QueueId : InHand(p) => held[p] # t
       /\ \A p \in QueueId : \A i \in 1..Len(buf[p]) : buf[p][i] # t
  BY <1>1 DEF PlacesInv, SendingInv, t
<1>12. BuffersInv'
  <2>1. ASSUME NEW p \in QueueId, NEW i \in 1..Len(buf'[p])
        PROVE  /\ buf'[p][i] \in 1..seq
               /\ status[buf'[p][i]] = "pending"
               /\ \A r \in QueueId : InHand(r) => held[r] # buf'[p][i]
    BY <1>2, <1>6, <1>11 DEF PlacesInv, BuffersInv
  <2>2. ASSUME NEW p \in QueueId, NEW i \in 1..Len(buf'[p]),
               NEW r \in QueueId, NEW j \in 1..Len(buf'[r]), buf'[r][j] = buf'[p][i]
        PROVE  r = p /\ j = i
    <3>1. CASE i \in 1..Len(buf[p]) /\ buf'[p][i] = buf[p][i] /\ j \in 1..Len(buf[r]) /\ buf'[r][j] = buf[r][j]
      BY <2>2, <3>1 DEF PlacesInv, BuffersInv
    <3> QED BY <1>6, <1>11, <2>2, <3>1
  <2> QED BY <1>1, <1>9, <2>1, <2>2 DEF BuffersInv
<1>13. SendingInv'
  BY <1>1 DEF SendingInv
<1>14. \A u \in 1..seq : HasPlace(u) => HasPlace(u)'
  <2> SUFFICES ASSUME NEW u \in 1..seq, HasPlace(u) PROVE HasPlace(u)'
    OBVIOUS
  <2>1. CASE sending.task = u
    BY <1>2, <1>8, <2>1 DEF HasPlace, t
  <2>2. CASE \E p \in QueueId : InHand(p) /\ held[p] = u
    BY <1>1, <1>9, <2>2 DEF HasPlace
  <2>3. CASE \E p \in QueueId : \E i \in 1..Len(buf[p]) : buf[p][i] = u
    BY <1>7, <2>3 DEF HasPlace
  <2> QED BY <2>1, <2>2, <2>3 DEF HasPlace
<1>15. LiveInv'
  BY <1>1, <1>14 DEF PlacesInv, LiveInv
<1> QED BY <1>10, <1>12, <1>13, <1>15 DEF PlacesInv

\* Receive: the first task moves from the channel to the worker, or is dropped after Stop.
LEMMA PlacesReceive ==
  ASSUME TypeOK, PlacesInv, NEW q \in QueueId, Receive(q)
  PROVE  PlacesInv'
<1> DEFINE t == Head(buf[q])
           n == Len(buf[q])
<1>1. /\ worker[q] = "idle"
      /\ buf' = [buf EXCEPT ![q] = Tail(@)]
      /\ held' = [held EXCEPT ![q] = t]
      /\ UNCHANGED <<seq, status, listed, stopped, sending>>
      /\ worker' = [worker EXCEPT ![q] = worker'[q]]
      /\ \/ worker'[q] \in {"granted", "waiting"}
         \/ worker'[q] = "served" /\ stopped
  BY DEF Receive, taskVars, TypeOK
<1>2. buf[q] \in Seq(TaskId) /\ buf[q] # <<>>
  BY DEF Receive, TypeOK
<1>3. /\ n \in Nat /\ 1 \in 1..n /\ t = buf[q][1]
      /\ Len(Tail(buf[q])) = n - 1
      /\ \A i \in 1..(n - 1) : Tail(buf[q])[i] = buf[q][i + 1]
  BY <1>2, HeadTailProperties, EmptySeq, LenProperties
<1>4. /\ buf'[q] = Tail(buf[q]) /\ held'[q] = t
      /\ \A p \in QueueId \ {q} : buf'[p] = buf[p] /\ held'[p] = held[p] /\ worker'[p] = worker[p]
  BY <1>1 DEF TypeOK
<1>5. /\ t \in 1..seq /\ status[t] = "pending"
      /\ \A p \in QueueId : InHand(p) => held[p] # t
  BY <1>3 DEF PlacesInv, BuffersInv
\* Where the tasks that stay in a channel were.
<1> DEFINE was(p, i) == IF p = q THEN i + 1 ELSE i
<1>6. \A p \in QueueId : \A i \in 1..Len(buf'[p]) :
        /\ was(p, i) \in 1..Len(buf[p])
        /\ buf'[p][i] = buf[p][was(p, i)]
        /\ p = q => was(p, i) # 1
  <2> SUFFICES ASSUME NEW p \in QueueId, NEW i \in 1..Len(buf'[p])
               PROVE  /\ was(p, i) \in 1..Len(buf[p])
                      /\ buf'[p][i] = buf[p][was(p, i)]
                      /\ p = q => was(p, i) # 1
    OBVIOUS
  <2>1. CASE p # q
    BY <1>4, <2>1
  <2>2. CASE p = q
    <3>1. i \in 1..(n - 1)
      BY <1>3, <1>4, <2>2
    <3>2. was(p, i) = i + 1 /\ i + 1 \in 1..n /\ i + 1 # 1
      BY <1>3, <2>2, <3>1
    <3>3. Tail(buf[q])[i] = buf[q][i + 1]
      BY <1>3, <3>1
    <3> HIDE DEF was
    <3> QED BY <1>4, <2>2, <3>2, <3>3
  <2> QED BY <2>1, <2>2
<1>7. \A p \in QueueId : \A i \in 1..Len(buf[p]) :
        \/ p = q /\ i = 1
        \/ \E j \in 1..Len(buf'[p]) : buf'[p][j] = buf[p][i]
  <2> SUFFICES ASSUME NEW p \in QueueId, NEW i \in 1..Len(buf[p]), ~(p = q /\ i = 1)
               PROVE  \E j \in 1..Len(buf'[p]) : buf'[p][j] = buf[p][i]
    OBVIOUS
  <2>1. CASE p # q
    BY <1>4, <2>1
  <2>2. CASE p = q
    <3>1. i - 1 \in 1..(n - 1) /\ (i - 1) + 1 = i
      BY <1>3, <2>2
    <3>2. Tail(buf[q])[i - 1] = buf[q][i]
      BY <1>3, <3>1
    <3>3. i - 1 \in 1..Len(buf'[q])
      BY <1>3, <1>4, <3>1
    <3> QED BY <1>4, <2>2, <3>2, <3>3
  <2> QED BY <2>1, <2>2
<1>8. \A p \in QueueId \ {q} : InHand(p)' <=> InHand(p)
  BY <1>4 DEF InHand
<1>9. ~InHand(q)
  BY <1>1 DEF InHand
<1>0. 1 \in 1..Len(buf[q])
  BY <1>3
<1> HIDE DEF t, n
<1>10. HandsInv'
  <2>1. \A p \in QueueId : InHand(p)' => held'[p] \in 1..seq
    BY <1>4, <1>5, <1>8 DEF PlacesInv, HandsInv
  <2>2. \A p \in QueueId : worker'[p] \in {"absent", "idle", "exited"} => held'[p] = None
    BY <1>1, <1>4 DEF PlacesInv, HandsInv
  <2>3. \A p, r \in QueueId : InHand(p)' /\ InHand(r)' /\ held'[p] = held'[r] => p = r
    BY <1>4, <1>5, <1>8 DEF PlacesInv, HandsInv
  <2>4. \A p \in QueueId : InHand(p)' =>
          status[held'[p]] = (IF worker'[p] = "running" THEN "running" ELSE "pending")
    <3> SUFFICES ASSUME NEW p \in QueueId, InHand(p)'
                 PROVE  status[held'[p]] = (IF worker'[p] = "running" THEN "running" ELSE "pending")
      OBVIOUS
    <3>1. CASE p = q
      BY <1>1, <1>4, <1>5, <3>1
    <3>2. CASE p # q
      BY <1>4, <1>8, <3>2 DEF PlacesInv, HandsInv
    <3> QED BY <3>1, <3>2
  <2> QED BY <1>1, <2>1, <2>2, <2>3, <2>4 DEF HandsInv
<1>11. BuffersInv'
  <2>1. \A p \in QueueId : \A i \in 1..Len(buf'[p]) : buf'[p][i] # t
    <3> SUFFICES ASSUME NEW p \in QueueId, NEW i \in 1..Len(buf'[p]), buf'[p][i] = t
                 PROVE  FALSE
      OBVIOUS
    <3>1. /\ was(p, i) \in 1..Len(buf[p]) /\ buf[p][was(p, i)] = buf[q][1]
          /\ p = q => was(p, i) # 1
      BY <1>3, <1>6
    <3> HIDE DEF was
    <3> QED BY <1>0, <3>1 DEF PlacesInv, BuffersInv
  <2>2. ASSUME NEW p \in QueueId, NEW i \in 1..Len(buf'[p])
        PROVE  /\ buf'[p][i] \in 1..seq
               /\ status[buf'[p][i]] = "pending"
               /\ \A r \in QueueId : InHand(r)' => held'[r] # buf'[p][i]
    <3>1. was(p, i) \in 1..Len(buf[p]) /\ buf'[p][i] = buf[p][was(p, i)]
      BY <1>6
    <3> HIDE DEF was
    <3>2. /\ buf'[p][i] \in 1..seq /\ status[buf'[p][i]] = "pending"
          /\ \A r \in QueueId : InHand(r) => held[r] # buf'[p][i]
      BY <3>1 DEF PlacesInv, BuffersInv
    <3> QED BY <1>4, <1>8, <2>1, <3>2
  <2>3. ASSUME NEW p \in QueueId, NEW i \in 1..Len(buf'[p]),
               NEW r \in QueueId, NEW j \in 1..Len(buf'[r]), buf'[r][j] = buf'[p][i]
        PROVE  r = p /\ j = i
    <3>1. /\ was(r, j) \in 1..Len(buf[r]) /\ was(p, i) \in 1..Len(buf[p])
          /\ buf[r][was(r, j)] = buf[p][was(p, i)]
      BY <1>6, <2>3
    <3>2. r = p /\ was(r, j) = was(p, i)
      <4> HIDE DEF was
      <4> QED BY <3>1 DEF PlacesInv, BuffersInv
    <3> QED BY <3>2
  <2> HIDE DEF was
  <2> SUFFICES ASSUME NEW p \in QueueId, NEW i \in 1..Len(buf'[p])
               PROVE  /\ buf'[p][i] \in 1..seq'
                      /\ status'[buf'[p][i]] = "pending"
                      /\ \A r \in QueueId : \A j \in 1..Len(buf'[r]) :
                           buf'[r][j] = buf'[p][i] => r = p /\ j = i
                      /\ \A r \in QueueId : InHand(r)' => held'[r] # buf'[p][i]
    BY DEF BuffersInv
  <2>4. buf'[p][i] \in 1..seq' /\ status'[buf'[p][i]] = "pending"
    BY <1>1, <2>2
  <2> QED BY <2>2, <2>3, <2>4
<1>12. SendingInv'
  <2> SUFFICES ASSUME sending # NoSend
               PROVE  /\ sending.task \in 1..seq
                      /\ status[sending.task] = "pending"
                      /\ \A p \in QueueId : InHand(p)' => held'[p] # sending.task
                      /\ \A p \in QueueId : \A i \in 1..Len(buf'[p]) : buf'[p][i] # sending.task
    BY <1>1 DEF SendingInv
  <2>1. /\ sending.task \in 1..seq /\ status[sending.task] = "pending"
        /\ \A p \in QueueId : InHand(p) => held[p] # sending.task
        /\ \A p \in QueueId : \A i \in 1..Len(buf[p]) : buf[p][i] # sending.task
    BY DEF PlacesInv, SendingInv
  <2>2. sending.task # t
    BY <1>0, <1>3, <2>1
  <2>3. \A p \in QueueId : \A i \in 1..Len(buf'[p]) : buf'[p][i] # sending.task
    BY <1>6, <2>1
  <2> QED BY <1>4, <1>8, <2>1, <2>2, <2>3
<1>13. ASSUME NEW u \in 1..seq, HasPlace(u), ~stopped
       PROVE  HasPlace(u)'
  <2>1. CASE sending.task = u
    BY <1>1, <2>1 DEF HasPlace
  <2>2. CASE \E p \in QueueId : InHand(p) /\ held[p] = u
    BY <1>4, <1>8, <1>9, <2>2 DEF HasPlace
  <2>3. CASE u = t
    <3>1. InHand(q)'
      BY <1>1, <1>13 DEF InHand
    <3> QED BY <1>4, <2>3, <3>1 DEF HasPlace
  <2>4. CASE u # t /\ \E p \in QueueId : \E i \in 1..Len(buf[p]) : buf[p][i] = u
    <3>1. PICK p \in QueueId : \E i \in 1..Len(buf[p]) : buf[p][i] = u
      BY <2>4
    <3>3. PICK i \in 1..Len(buf[p]) : buf[p][i] = u
      BY <3>1
    <3>2. ~(p = q /\ i = 1)
      BY <1>3, <2>4, <3>3
    <3> QED BY <1>7, <3>2, <3>3 DEF HasPlace
  <2> QED BY <1>13, <2>1, <2>2, <2>3, <2>4 DEF HasPlace
<1>14. LiveInv'
  <2>1. \A p \in QueueId : worker[p] = "running" => worker'[p] = "running" /\ held'[p] = held[p]
    BY <1>1, <1>4
  <2> QED BY <1>1, <1>13, <2>1 DEF PlacesInv, LiveInv
<1> QED BY <1>10, <1>11, <1>12, <1>14 DEF PlacesInv

\* Start: the worker marks the task it holds, and no other, running.
LEMMA PlacesStart ==
  ASSUME TypeOK, PlacesInv, NEW q \in QueueId, Start(q)
  PROVE  PlacesInv'
<1> DEFINE t == held[q]
<1>0. QueueId = 1..MaxTasks /\ TaskId = 1..MaxTasks /\ seq \in 0..MaxTasks
  BY DEF QueueId, TaskId, TypeOK
<1>1. /\ worker[q] = "granted" /\ worker' = [worker EXCEPT ![q] = "running"]
      /\ status' = [status EXCEPT ![t] = "running"]
      /\ UNCHANGED <<seq, listed, stopped, sending, held, buf>>
  BY DEF Start, queueVars
<1>2. InHand(q) /\ t \in 1..seq /\ \A p \in QueueId : InHand(p) /\ held[p] = t => p = q
  BY <1>1 DEF InHand, PlacesInv, HandsInv
<1>3. /\ status'[t] = "running"
      /\ \A u \in 1..seq : u # t => status'[u] = status[u]
  BY <1>0, <1>1, <1>2, QueueAssumption DEF TypeOK
<1>4. worker'[q] = "running" /\ \A p \in QueueId \ {q} : worker'[p] = worker[p]
  BY <1>1 DEF TypeOK
<1>5. \A p \in QueueId : InHand(p)' <=> InHand(p)
  BY <1>1, <1>4 DEF InHand
<1> HIDE DEF t
<1>6. HandsInv'
  <2>1. \A p \in QueueId : InHand(p) => held[p] \in 1..seq
    BY DEF PlacesInv, HandsInv
  <2>2. \A p \in QueueId : worker'[p] \in {"absent", "idle", "exited"} => held[p] = None
    BY <1>4 DEF PlacesInv, HandsInv
  <2>3. \A p, r \in QueueId : InHand(p) /\ InHand(r) /\ held[p] = held[r] => p = r
    BY DEF PlacesInv, HandsInv
  <2>4. \A p \in QueueId : InHand(p) =>
          status'[held[p]] = (IF worker'[p] = "running" THEN "running" ELSE "pending")
    <3> SUFFICES ASSUME NEW p \in QueueId, InHand(p)
                 PROVE  status'[held[p]] = (IF worker'[p] = "running" THEN "running" ELSE "pending")
      OBVIOUS
    <3>1. CASE p = q
      BY <1>3, <1>4, <3>1 DEF t
    <3>2. CASE p # q
      <4>1. held[p] # t /\ held[p] \in 1..seq
        BY <1>2, <2>1, <3>2
      <4>2. status[held[p]] = (IF worker[p] = "running" THEN "running" ELSE "pending")
        BY DEF PlacesInv, HandsInv
      <4> QED BY <1>3, <1>4, <3>2, <4>1, <4>2
    <3> QED BY <3>1, <3>2
  <2> QED BY <1>1, <1>5, <2>1, <2>2, <2>3, <2>4 DEF HandsInv
<1>7. BuffersInv'
  <2>1. \A p \in QueueId : \A i \in 1..Len(buf[p]) : buf[p][i] \in 1..seq /\ buf[p][i] # t
    BY <1>2 DEF PlacesInv, BuffersInv, t
  <2> QED BY <1>1, <1>3, <1>5, <2>1 DEF PlacesInv, BuffersInv
<1>8. SendingInv'
  <2>1. sending # NoSend => sending.task \in 1..seq /\ sending.task # t
    BY <1>2 DEF PlacesInv, SendingInv, t
  <2> QED BY <1>1, <1>3, <1>5, <2>1 DEF PlacesInv, SendingInv
<1>9. LiveInv'
  <2>1. \A u \in 1..seq : HasPlace(u) => HasPlace(u)'
    BY <1>1, <1>5 DEF HasPlace
  <2> SUFFICES ASSUME NEW u \in 1..seq, status'[u] \notin Terminal
               PROVE  /\ u \in listed
                      /\ ~stopped => HasPlace(u)'
                      /\ status'[u] = "running" =>
                           \E p \in QueueId : worker'[p] = "running" /\ held[p] = u
    BY <1>1 DEF LiveInv
  <2>2. CASE u = t
    <3>1. status[t] = "pending"
      BY <1>1, <1>2 DEF PlacesInv, HandsInv, t
    <3>2. status[t] \notin Terminal
      BY <3>1 DEF Terminal
    <3> QED BY <1>4, <2>1, <2>2, <3>2 DEF PlacesInv, LiveInv, t
  <2>3. CASE u # t
    <3>1. status'[u] = status[u]
      BY <1>3, <2>3
    <3>2. \A p \in QueueId : worker[p] = "running" => worker'[p] = "running"
      BY <1>4
    <3> QED BY <2>1, <3>1, <3>2 DEF PlacesInv, LiveInv
  <2> QED BY <2>2, <2>3
<1> QED BY <1>6, <1>7, <1>8, <1>9 DEF PlacesInv

\* The worker that waited longest is a worker that waits.
LEMMA FirstWaits ==
  ASSUME TypeOK, SemInv, semWait # <<>>
  PROVE  Head(semWait) \in QueueId /\ worker[Head(semWait)] = "waiting"
<1>1. Head(semWait) = semWait[1] /\ 1 \in 1..Len(semWait) /\ semWait \in Seq(QueueId)
  BY EmptySeq, LenProperties, HeadTailProperties DEF TypeOK
<1>2. semWait[1] \in {semWait[i] : i \in 1..Len(semWait)} /\ semWait[1] \in QueueId
  BY <1>1, ElementOfSeq
<1> QED BY <1>1, <1>2 DEF SemInv, SemaphoreAccounting

\* Finish: the task leaves its worker as it gets its outcome; the token that is passed on
\* leaves every other task in the hands it was in.
LEMMA PlacesFinish ==
  ASSUME TypeOK, SemInv, PlacesInv, NEW q \in QueueId, Finish(q)
  PROVE  PlacesInv'
<1> DEFINE t == held[q]
<1>0. QueueId = 1..MaxTasks /\ TaskId = 1..MaxTasks /\ seq \in 0..MaxTasks
  BY DEF QueueId, TaskId, TypeOK
<1>1. /\ worker[q] = "running" /\ Release(q)
      /\ \E outcome \in Terminal : status' = [status EXCEPT ![t] = outcome]
      /\ UNCHANGED <<seq, listed, stopped, sending, held, buf>>
  BY DEF Finish, queueVars
<1>2. InHand(q) /\ t \in 1..seq /\ \A p \in QueueId : InHand(p) /\ held[p] = t => p = q
  BY <1>1 DEF InHand, PlacesInv, HandsInv
<1>3. /\ status'[t] \in Terminal
      /\ \A u \in 1..seq : u # t => status'[u] = status[u]
  BY <1>0, <1>1, <1>2, QueueAssumption DEF TypeOK
<1>4. /\ worker'[q] = "served"
      /\ \A p \in QueueId \ {q} : \/ worker'[p] = worker[p]
                                  \/ worker[p] = "waiting" /\ worker'[p] = "granted"
  <2>1. CASE semWait = <<>>
    BY <1>1, <2>1 DEF Release, TypeOK
  <2>2. CASE semWait # <<>>
    <3> DEFINE w == Head(semWait)
    <3>1. w \in QueueId /\ worker[w] = "waiting" /\ w # q
      BY <1>1, <2>2, FirstWaits
    <3>2. worker' = [worker EXCEPT ![q] = "served", ![w] = "granted"]
      BY <1>1, <2>2 DEF Release
    <3> HIDE DEF w
    <3> QED BY <3>1, <3>2 DEF TypeOK
  <2> QED BY <2>1, <2>2
<1>5. /\ ~InHand(q)'
      /\ \A p \in QueueId \ {q} : /\ InHand(p)' <=> InHand(p)
                                  /\ worker'[p] = "running" <=> worker[p] = "running"
                                  /\ worker'[p] \in {"absent", "idle", "exited"} => worker'[p] = worker[p]
  BY <1>4 DEF InHand
<1> HIDE DEF t
<1>6. \A p \in QueueId : InHand(p)' => p # q /\ InHand(p) /\ held[p] # t /\ held[p] \in 1..seq
  BY <1>2, <1>5 DEF PlacesInv, HandsInv
<1>7. HandsInv'
  <2>1. \A p \in QueueId : InHand(p)' => held[p] \in 1..seq
    BY <1>6
  <2>2. \A p \in QueueId : worker'[p] \in {"absent", "idle", "exited"} => held[p] = None
    BY <1>4, <1>5 DEF PlacesInv, HandsInv
  <2>3. \A p, r \in QueueId : InHand(p)' /\ InHand(r)' /\ held[p] = held[r] => p = r
    BY <1>6 DEF PlacesInv, HandsInv
  <2>4. \A p \in QueueId : InHand(p)' =>
          status'[held[p]] = (IF worker'[p] = "running" THEN "running" ELSE "pending")
    <3> SUFFICES ASSUME NEW p \in QueueId, InHand(p)'
                 PROVE  status'[held[p]] = (IF worker'[p] = "running" THEN "running" ELSE "pending")
      OBVIOUS
    <3>1. p # q /\ InHand(p) /\ held[p] # t /\ held[p] \in 1..seq
      BY <1>6
    <3>2. status[held[p]] = (IF worker[p] = "running" THEN "running" ELSE "pending")
      BY <3>1 DEF PlacesInv, HandsInv
    <3> QED BY <1>3, <1>5, <3>1, <3>2
  <2> QED BY <1>1, <2>1, <2>2, <2>3, <2>4 DEF HandsInv
<1>8. BuffersInv'
  <2>1. \A p \in QueueId : \A i \in 1..Len(buf[p]) : buf[p][i] \in 1..seq /\ buf[p][i] # t
    BY <1>2 DEF PlacesInv, BuffersInv, t
  <2>2. \A p \in QueueId : \A i \in 1..Len(buf[p]) : status'[buf[p][i]] = status[buf[p][i]]
    BY <1>3, <2>1
  <2>3. \A p \in QueueId : InHand(p)' => InHand(p)
    BY <1>6
  <2> QED BY <1>1, <2>2, <2>3 DEF PlacesInv, BuffersInv
<1>9. SendingInv'
  <2>1. sending # NoSend => sending.task \in 1..seq /\ sending.task # t
    BY <1>2 DEF PlacesInv, SendingInv, t
  <2>2. \A p \in QueueId : InHand(p)' => InHand(p)
    BY <1>6
  <2> QED BY <1>1, <1>3, <2>1, <2>2 DEF PlacesInv, SendingInv
<1>10. LiveInv'
  <2> SUFFICES ASSUME NEW u \in 1..seq, status'[u] \notin Terminal
               PROVE  /\ u \in listed
                      /\ ~stopped => HasPlace(u)'
                      /\ status'[u] = "running" =>
                           \E p \in QueueId : worker'[p] = "running" /\ held[p] = u
    BY <1>1 DEF LiveInv
  <2>1. u # t /\ status'[u] = status[u]
    BY <1>3
  <2>2. \A p \in QueueId : held[p] = u => p # q
    BY <2>1 DEF t
  <2>3. HasPlace(u) => HasPlace(u)'
    BY <1>1, <1>5, <2>2 DEF HasPlace
  <2> QED BY <1>5, <2>1, <2>2, <2>3 DEF PlacesInv, LiveInv
<1> QED BY <1>7, <1>8, <1>9, <1>10 DEF PlacesInv

\* GiveUp: after Stop a worker that waits for a token drops its task.
LEMMA PlacesGiveUp ==
  ASSUME TypeOK, PlacesInv, NEW q \in QueueId, GiveUp(q)
  PROVE  PlacesInv'
<1>1. /\ worker[q] = "waiting" /\ stopped
      /\ worker' = [worker EXCEPT ![q] = "served"]
      /\ UNCHANGED <<seq, status, listed, stopped, sending, held, buf>>
  BY DEF GiveUp, taskVars, queueVars
<1>2. worker'[q] = "served" /\ \A p \in QueueId \ {q} : worker'[p] = worker[p]
  BY <1>1 DEF TypeOK
<1>3. ~InHand(q)' /\ \A p \in QueueId \ {q} : InHand(p)' <=> InHand(p)
  BY <1>2 DEF InHand
<1>4. HandsInv'
  <2>1. \A p \in QueueId : InHand(p)' => InHand(p) /\ worker'[p] = worker[p]
    BY <1>2, <1>3
  <2>2. \A p \in QueueId : worker'[p] \in {"absent", "idle", "exited"} => worker'[p] = worker[p]
    BY <1>2
  <2> QED BY <1>1, <2>1, <2>2 DEF PlacesInv, HandsInv
<1>5. BuffersInv' /\ SendingInv'
  <2>1. \A p \in QueueId : InHand(p)' => InHand(p)
    BY <1>3
  <2> QED BY <1>1, <2>1 DEF PlacesInv, BuffersInv, SendingInv
<1>6. LiveInv'
  <2>1. \A p \in QueueId : worker[p] = "running" => worker'[p] = "running"
    BY <1>1, <1>2
  <2> QED BY <1>1, <2>1 DEF PlacesInv, LiveInv
<1> QED BY <1>4, <1>5, <1>6 DEF PlacesInv

\* Every step keeps the tasks accounted for.
LEMMA PlacesStep ==
  ASSUME TypeOK, SemInv, PlacesInv, [Next]_vars
  PROVE  PlacesInv'
<1>1. ASSUME NEW q \in QueueId, Touch(q) PROVE PlacesInv'
  <2>1. /\ worker[q] = "served" /\ worker'[q] = "idle" /\ held'[q] = None
        /\ \A p \in QueueId \ {q} : worker'[p] = worker[p] /\ held'[p] = held[p]
        /\ UNCHANGED <<seq, status, listed, buf, sending, stopped>>
    BY <1>1 DEF Touch, taskVars, TypeOK
  <2>2. \A p \in QueueId : /\ InHand(p)' <=> InHand(p)
                           /\ InHand(p) => worker'[p] = worker[p] /\ held'[p] = held[p]
                           /\ worker'[p] \in {"absent", "idle", "exited"} => held'[p] = None
    BY <2>1 DEF InHand, PlacesInv, HandsInv
  <2> QED BY <2>1, <2>2, PlacesRest
<1>2. ASSUME NEW q \in QueueId, Exit(q) PROVE PlacesInv'
  <2>1. /\ worker[q] = "idle" /\ worker'[q] = "exited"
        /\ \A p \in QueueId \ {q} : worker'[p] = worker[p]
        /\ UNCHANGED <<seq, status, listed, buf, sending, held, stopped>>
    BY <1>2 DEF Exit, taskVars, queueVars, TypeOK
  <2>2. \A p \in QueueId : /\ InHand(p)' <=> InHand(p)
                           /\ InHand(p) => worker'[p] = worker[p] /\ held'[p] = held[p]
                           /\ worker'[p] \in {"absent", "idle", "exited"} => held'[p] = None
    BY <2>1 DEF InHand, PlacesInv, HandsInv
  <2> QED BY <2>1, <2>2, PlacesRest
<1>3. ASSUME CleanupIdleQueues \/ PruneOldTasks \/ Stop \/ Tick \/ UNCHANGED vars
      PROVE  PlacesInv'
  <2>1. UNCHANGED <<seq, status, buf, sending, worker, held>>
    BY <1>3 DEF CleanupIdleQueues, PruneOldTasks, Stop, Tick, taskVars, queueVars, workerVars, vars
  <2>2. stopped => stopped'
    BY <1>3 DEF CleanupIdleQueues, PruneOldTasks, Stop, Tick, vars
  <2>3. \A t \in listed \ listed' : status[t] \in Terminal
    BY <1>3 DEF CleanupIdleQueues, PruneOldTasks, Prunable, Stop, Tick, taskVars, vars
  <2>4. \A p \in QueueId : /\ InHand(p)' <=> InHand(p)
                           /\ worker'[p] \in {"absent", "idle", "exited"} => held'[p] = None
    BY <2>1 DEF InHand, PlacesInv, HandsInv
  <2> QED BY <2>1, <2>2, <2>3, <2>4, PlacesRest
<1>4. ASSUME NEW q \in QueueId, WorkerStep(q) PROVE PlacesInv'
  BY <1>1, <1>2, <1>4, PlacesReceive, PlacesStart, PlacesFinish, PlacesGiveUp DEF WorkerStep
<1> QED
  BY <1>3, <1>4, PlacesSubmit, PlacesSend DEF Next, AtRest

\* Tasks that the places account for are accounted for one by one.
LEMMA PlacesCounted ==
  ASSUME TypeOK, PlacesInv
  PROVE  LiveTasksAccounted
<1> SUFFICES ASSUME NEW t \in 1..seq, status[t] \notin Terminal
             PROVE  LET places == Cardinality(Buffered(t)) + Cardinality(HeldBy(t))
                                    + (IF sending.task = t THEN 1 ELSE 0)
                    IN /\ t \in listed
                       /\ places <= 1
                       /\ places = 0 => stopped
                       /\ (status[t] = "running") = (\E q \in HeldBy(t) : worker[q] = "running")
  BY DEF LiveTasksAccounted
<1>0. t # None
  BY DEF None
<1>1. HeldBy(t) = {q \in QueueId : InHand(q) /\ held[q] = t}
  BY <1>0 DEF HeldBy, InHand, PlacesInv, HandsInv, TypeOK, WorkerState
<1>2. Buffered(t) # {} => (\E q : Buffered(t) = {q}) /\ HeldBy(t) = {} /\ sending.task # t
  <2> SUFFICES ASSUME Buffered(t) # {}
               PROVE  (\E q : Buffered(t) = {q}) /\ HeldBy(t) = {} /\ sending.task # t
    OBVIOUS
  <2>1. PICK q \in QueueId : \E i \in 1..Len(buf[q]) : buf[q][i] = t
    BY DEF Buffered
  <2>2. PICK i \in 1..Len(buf[q]) : buf[q][i] = t
    BY <2>1
  <2>3. \A p \in QueueId : \A j \in 1..Len(buf[p]) : buf[p][j] = t => p = q
    BY <2>2 DEF PlacesInv, BuffersInv
  <2>4. Buffered(t) = {q}
    BY <2>1, <2>3 DEF Buffered
  <2>5. HeldBy(t) = {}
    BY <1>1, <2>2 DEF PlacesInv, BuffersInv
  <2>6. sending.task # t
    BY <1>0, <2>2 DEF PlacesInv, SendingInv, NoSend
  <2> QED BY <2>4, <2>5, <2>6
<1>3. HeldBy(t) # {} => (\E q : HeldBy(t) = {q}) /\ sending.task # t
  <2> SUFFICES ASSUME NEW q \in HeldBy(t)
               PROVE  (\E p : HeldBy(t) = {p}) /\ sending.task # t
    OBVIOUS
  <2>1. HeldBy(t) = {q}
    BY <1>1 DEF PlacesInv, HandsInv
  <2>2. sending.task # t
    BY <1>0, <1>1 DEF PlacesInv, SendingInv, NoSend
  <2> QED BY <2>1, <2>2
<1>4. /\ Buffered(t) = {} => Cardinality(Buffered(t)) = 0
      /\ Buffered(t) # {} => Cardinality(Buffered(t)) = 1
      /\ HeldBy(t) = {} => Cardinality(HeldBy(t)) = 0
      /\ HeldBy(t) # {} => Cardinality(HeldBy(t)) = 1
  <2>1. (Buffered(t) # {} => \E q : Buffered(t) = {q}) /\ (HeldBy(t) # {} => \E q : HeldBy(t) = {q})
    BY <1>2, <1>3
  <2> QED BY <2>1, FS_EmptySet, FS_Singleton
<1>5. ~stopped => Buffered(t) # {} \/ HeldBy(t) # {} \/ sending.task = t
  BY <1>1 DEF PlacesInv, LiveInv, HasPlace, Buffered
<1>6. t \in listed
  BY DEF PlacesInv, LiveInv
<1>7. (status[t] = "running") <=> (\E q \in HeldBy(t) : worker[q] = "running")
  <2>1. ASSUME status[t] = "running" PROVE \E q \in HeldBy(t) : worker[q] = "running"
    BY <1>1, <2>1 DEF PlacesInv, LiveInv, InHand
  <2>2. ASSUME NEW q \in HeldBy(t), worker[q] = "running" PROVE status[t] = "running"
    BY <1>1, <2>2 DEF PlacesInv, HandsInv
  <2> QED BY <2>1, <2>2
<1> DEFINE places == Cardinality(Buffered(t)) + Cardinality(HeldBy(t))
                       + (IF sending.task = t THEN 1 ELSE 0)
<1>8. places <= 1 /\ (places = 0 => stopped)
  BY <1>2, <1>3, <1>4, <1>5
<1>9. (status[t] = "running") = (\E q \in HeldBy(t) : worker[q] = "running")
  BY <1>7
<1> QED BY <1>6, <1>8, <1>9

LEMMA PlacesInit == Init => PlacesInv
<1> SUFFICES ASSUME Init PROVE PlacesInv
  OBVIOUS
<1>1. Len(<<>>) = 0 /\ 1..0 = {}
  BY EmptySeq
<1> QED
  BY <1>1 DEF Init, PlacesInv, HandsInv, BuffersInv, SendingInv, LiveInv, InHand

\* A task that has not finished is in one place - the blocked Submit, one channel or one
\* worker - until Stop lets a worker drop it; only the task a worker runs is marked running,
\* and pruning forgets no other than finished tasks: whatever the janitor closes.
THEOREM TasksAreAccounted == Spec => []LiveTasksAccounted
<1>1. Init => SemInv /\ PlacesInv
  BY SemInit, PlacesInit
<1>2. TypeOK /\ SemInv /\ PlacesInv /\ [Next]_vars => SemInv' /\ PlacesInv'
  BY SemStep, PlacesStep
<1>3. TypeOK /\ PlacesInv => LiveTasksAccounted
  BY PlacesCounted
<1> QED
  BY <1>1, <1>2, <1>3, TypeCorrect, PTL DEF Spec
----------------------------------------------------------------------------
(* The queue implements the service: what each operation does to the line  *)
(* of a chat, and which operation of ChatService that is.                  *)

\* The line of a chat, as the refinement mapping has it: the task its worker took, what
\* its channel buffers, and the task that a Submit has still to send.
BufferOf(c) == IF chatQueues[c] = None THEN <<>> ELSE buf[chatQueues[c]]
Line(c) == TakenFor(c) \o BufferOf(c) \o SendingTo(c)
Serve(c) == {held[q] : q \in {p \in QueueId : worker[p] = "running" /\ chatOf[held[p]] = c}}
Done == {t \in TaskId : status[t] \in Terminal}

\* The first element comes off a sequence it was put in front of.
LEMMA FirstOff ==
  ASSUME NEW S, NEW s \in Seq(S), NEW e \in S
  PROVE  /\ <<e>> \o s # <<>>
         /\ Head(<<e>> \o s) = e
         /\ Tail(<<e>> \o s) = s
<1> DEFINE h == <<e>> \o s
<1>1. <<e>> \in Seq(S) /\ Len(<<e>>) = 1 /\ <<e>>[1] = e /\ Len(s) \in Nat
  OBVIOUS
<1>2. /\ h \in Seq(S) /\ Len(h) = 1 + Len(s)
      /\ \A i \in 1..(1 + Len(s)) : h[i] = IF i <= 1 THEN <<e>>[i] ELSE s[i - 1]
  BY <1>1, ConcatProperties
<1> HIDE DEF h
<1>3. h # <<>> /\ Head(h) = h[1] /\ h[1] = e
  BY <1>1, <1>2, EmptySeq
<1>4. /\ Tail(h) \in Seq(S) /\ Len(Tail(h)) = Len(s)
      /\ \A i \in 1..Len(Tail(h)) : Tail(h)[i] = h[i + 1]
  BY <1>1, <1>2, <1>3, HeadTailProperties
<1>5. \A i \in 1..Len(s) : Tail(h)[i] = s[i]
  <2> SUFFICES ASSUME NEW i \in 1..Len(s) PROVE Tail(h)[i] = s[i]
    OBVIOUS
  <2>1. h[i + 1] = s[i]
    <3>1. i + 1 \in 1..(1 + Len(s)) /\ ~(i + 1 <= 1) /\ (i + 1) - 1 = i
      BY <1>1
    <3> QED BY <1>2, <3>1
  <2> QED BY <1>4, <2>1
<1>6. Tail(h) = s
  BY <1>4, <1>5, SeqEqual
<1> QED BY <1>3, <1>6 DEF h

\* A sequence is its head and its tail.
LEMMA HeadBack ==
  ASSUME NEW S, NEW s \in Seq(S), s # <<>>
  PROVE  s = <<Head(s)>> \o Tail(s)
<1> DEFINE e == Head(s)
           r == Tail(s)
           h == <<e>> \o r
<1>1. /\ e \in S /\ r \in Seq(S) /\ Len(r) = Len(s) - 1 /\ Len(s) \in Nat /\ e = s[1]
      /\ \A i \in 1..Len(r) : r[i] = s[i + 1]
  BY HeadTailProperties, LenProperties
<1> HIDE DEF e, r
<1>2. <<e>> \in Seq(S) /\ Len(<<e>>) = 1 /\ <<e>>[1] = e
  BY <1>1
<1>3. /\ h \in Seq(S) /\ Len(h) = 1 + Len(r)
      /\ \A i \in 1..(1 + Len(r)) : h[i] = IF i <= 1 THEN <<e>>[i] ELSE r[i - 1]
  BY <1>1, <1>2, ConcatProperties
<1> HIDE DEF h
<1>4. Len(h) = Len(s)
  BY <1>1, <1>3
<1>5. \A i \in 1..Len(s) : h[i] = s[i]
  <2> SUFFICES ASSUME NEW i \in 1..Len(s) PROVE h[i] = s[i]
    OBVIOUS
  <2>1. CASE i = 1
    BY <1>1, <1>2, <1>3, <2>1
  <2>2. CASE i # 1
    <3>1. i - 1 \in 1..Len(r) /\ i \in 1..(1 + Len(r)) /\ (i - 1) + 1 = i
      BY <1>1, <2>2
    <3>2. h[i] = r[i - 1]
      BY <1>3, <2>2, <3>1
    <3> QED BY <1>1, <3>1, <3>2
  <2> QED BY <2>1, <2>2
<1>6. h = s
  BY <1>3, <1>4, <1>5, SeqEqual
<1> QED BY <1>6 DEF h, e, r

\* The pieces of a line are sequences of tasks.
LEMMA LineTyped ==
  ASSUME TypeOK, HandsInv, NEW c \in Chats
  PROVE  /\ TakenFor(c) \in Seq(TaskId)
         /\ BufferOf(c) \in Seq(TaskId)
         /\ SendingTo(c) \in Seq(TaskId)
<1>0. chatQueues[c] # None => chatQueues[c] \in QueueId
  BY DEF TypeOK
<1>1. TakenFor(c) \in Seq(TaskId)
  <2>1. ASSUME NEW q \in QueueId, worker[q] \in {"waiting", "granted"} PROVE held[q] \in TaskId
    <3>1. held[q] \in 1..seq /\ held[q] \in TaskId \union {None}
      BY <2>1 DEF HandsInv, InHand, TypeOK
    <3>2. held[q] # None
      BY <3>1 DEF None, TypeOK
    <3> QED BY <3>1, <3>2
  <2>2. \A t \in TaskId : <<t>> \in Seq(TaskId)
    OBVIOUS
  <2> QED BY <1>0, <2>1, <2>2, EmptySeq DEF TakenFor
<1>2. BufferOf(c) \in Seq(TaskId)
  BY <1>0, EmptySeq DEF BufferOf, TypeOK
<1>3. SendingTo(c) \in Seq(TaskId)
  <2>1. sending # NoSend => sending.task \in TaskId
    BY DEF TypeOK
  <2>2. \A t \in TaskId : <<t>> \in Seq(TaskId)
    OBVIOUS
  <2> QED BY <2>1, <2>2, EmptySeq DEF SendingTo
<1> QED BY <1>1, <1>2, <1>3

\* Taking a task off the channel leaves the line as it is; dropping it, or serving the one
\* that was taken, takes the line's head.
LEMMA LineMoves ==
  ASSUME NEW S, NEW b \in Seq(S), NEW x \in Seq(S), NEW e \in S
  PROVE  /\ (<<e>> \o b) \o x # <<>>
         /\ Head((<<e>> \o b) \o x) = e
         /\ Tail((<<e>> \o b) \o x) = (<<>> \o b) \o x
         /\ b # <<>> => /\ (<<>> \o b) \o x = (<<Head(b)>> \o Tail(b)) \o x
                        /\ (<<>> \o b) \o x # <<>>
                        /\ Tail((<<>> \o b) \o x) = (<<>> \o Tail(b)) \o x
<1>1. <<>> \o b = b
  BY ConcatEmptySeq
<1>2. /\ (<<e>> \o b) \o x # <<>>
      /\ Head((<<e>> \o b) \o x) = e
      /\ Tail((<<e>> \o b) \o x) = b \o x
  <2>1. <<e>> \in Seq(S)
    OBVIOUS
  <2>2. (<<e>> \o b) \o x = <<e>> \o (b \o x)
    BY <2>1, ConcatAssociative
  <2>3. b \o x \in Seq(S)
    BY ConcatProperties
  <2> QED BY <2>2, <2>3, FirstOff
<1>3. ASSUME b # <<>>
      PROVE  /\ b \o x = (<<Head(b)>> \o Tail(b)) \o x
             /\ b \o x # <<>>
             /\ Tail(b \o x) = (<<>> \o Tail(b)) \o x
  <2> DEFINE h == Head(b)
             r == Tail(b)
  <2>1. b = <<h>> \o r
    BY <1>3, HeadBack
  <2>2. h \in S /\ r \in Seq(S)
    BY <1>3, HeadTailProperties
  <2>3. <<>> \o r = r
    BY <2>2, ConcatEmptySeq
  <2> HIDE DEF h, r
  <2>4. <<h>> \in Seq(S)
    BY <2>2
  <2>5. (<<h>> \o r) \o x = <<h>> \o (r \o x)
    BY <2>2, <2>4, ConcatAssociative
  <2>6. r \o x \in Seq(S)
    BY <2>2, ConcatProperties
  <2>7. <<h>> \o (r \o x) # <<>> /\ Tail(<<h>> \o (r \o x)) = r \o x
    BY <2>2, <2>6, FirstOff
  <2>8. b \o x # <<>> /\ Tail(b \o x) = r \o x
    BY <2>1, <2>5, <2>7
  <2> QED BY <2>1, <2>3, <2>8 DEF h, r
<1> QED BY <1>1, <1>2, <1>3

\* A Submit puts its task at the end of the line, and its send moves it to the channel.
LEMMA LineGrows ==
  ASSUME NEW S, NEW a \in Seq(S), NEW b \in Seq(S), NEW e \in S
  PROVE  /\ (a \o b) \o <<e>> = Append((a \o b) \o <<>>, e)
         /\ (a \o b) \o <<e>> = (a \o Append(b, e)) \o <<>>
<1>1. a \o b \in Seq(S) /\ <<e>> \in Seq(S)
  BY ConcatProperties
<1>2. (a \o b) \o <<>> = a \o b
  BY <1>1, ConcatEmptySeq
<1>3. Append(a \o b, e) = (a \o b) \o <<e>>
  BY <1>1, AppendIsConcat
<1>4. Append(b, e) = b \o <<e>> /\ Append(b, e) \in Seq(S)
  BY AppendIsConcat, AppendProperties
<1>5. (a \o b) \o <<e>> = a \o (b \o <<e>>)
  BY <1>1, ConcatAssociative
<1>6. a \o Append(b, e) \in Seq(S)
  BY <1>4, ConcatProperties
<1>7. (a \o Append(b, e)) \o <<>> = a \o Append(b, e)
  BY <1>6, ConcatEmptySeq
<1> QED BY <1>2, <1>3, <1>4, <1>5, <1>7

\* Steps of the queue seen as steps of the service.
LEMMA AsArrive ==
  ASSUME NEW c \in Chats, ~stopped, ~stopped', seq' = seq + 1, Done' = Done,
         \A d \in Chats : Serve(d)' = Serve(d),
         \A d \in Chats : Line(d)' = (IF d = c THEN Append(Line(c), seq + 1) ELSE Line(d))
  PROVE  Service!Next
<1>1. Service!Arrive(c)
  BY DEF Service!Arrive, Line, BufferOf, Serve, Done
<1> QED BY <1>1 DEF Service!Next

LEMMA AsBegin ==
  ASSUME NEW c \in Chats, stopped' = stopped, seq' = seq, Done' = Done,
         Line(c) # <<>>, Serve(c) = {},
         Cardinality({d \in Chats : Serve(d) # {}}) < MaxConcurrent,
         \A d \in Chats : Serve(d)' = (IF d = c THEN {Head(Line(c))} ELSE Serve(d)),
         \A d \in Chats : Line(d)' = (IF d = c THEN Tail(Line(c)) ELSE Line(d))
  PROVE  Service!Next
<1>0. Service!Busy = {d \in Chats : Serve(d) # {}}
  BY DEF Service!Busy, Serve
<1>1. Service!Begin(c)
  <2>2. Service!Cardinality(Service!Busy) = Cardinality(Service!Busy)
    BY DEF Service!Cardinality, Cardinality
  <2>1. Service!Cardinality(Service!Busy) < MaxConcurrent
    BY <1>0, <2>2
  <2> QED BY <2>1 DEF Service!Begin, Line, BufferOf, Serve, Done
<1> QED BY <1>1 DEF Service!Next

LEMMA AsEnd ==
  ASSUME NEW c \in Chats, stopped' = stopped, seq' = seq, Serve(c) # {},
         Done' = Done \union Serve(c),
         \A d \in Chats : Serve(d)' = (IF d = c THEN {} ELSE Serve(d)),
         \A d \in Chats : Line(d)' = Line(d)
  PROVE  Service!Next
<1>1. Service!End(c)
  BY DEF Service!End, Line, BufferOf, Serve, Done
<1> QED BY <1>1 DEF Service!Next

LEMMA AsAbandon ==
  ASSUME NEW c \in Chats, stopped, stopped', seq' = seq, Done' = Done, Line(c) # <<>>,
         \A d \in Chats : Serve(d)' = Serve(d),
         \A d \in Chats : Line(d)' = (IF d = c THEN Tail(Line(c)) ELSE Line(d))
  PROVE  Service!Next
<1>1. Service!Abandon(c)
  BY DEF Service!Abandon, Line, BufferOf, Serve, Done
<1> QED BY <1>1 DEF Service!Next

LEMMA AsClose ==
  ASSUME ~stopped, stopped', seq' = seq, Done' = Done,
         \A d \in Chats : Serve(d)' = Serve(d) /\ Line(d)' = Line(d)
  PROVE  Service!Next
<1>1. Service!Close
  BY DEF Service!Close, Line, BufferOf, Serve, Done
<1> QED BY <1>1 DEF Service!Next

LEMMA AsStutter ==
  ASSUME stopped' = stopped, seq' = seq, Done' = Done,
         \A d \in Chats : Serve(d)' = Serve(d) /\ Line(d)' = Line(d)
  PROVE  UNCHANGED Service!vars
BY DEF Service!vars, Line, BufferOf, Serve, Done

\* What the steps of the proof know about the state.
Served == TypeOK /\ IInv /\ PlacesInv

\* The chat of the channel that a worker works from, and of its task.
LEMMA OwnChat ==
  ASSUME Served, NEW q \in QueueId, worker[q] \in Busy \/ buf[q] # <<>>
  PROVE  /\ chatOf[q] \in Chats /\ chatQueues[chatOf[q]] = q /\ q # None
         /\ \A d \in Chats : chatQueues[d] = q => d = chatOf[q]
         /\ worker[q] \in Busy => chatOf[held[q]] = chatOf[q] /\ held[q] \in 1..seq
<1>1. q \in 1..seq /\ chatQueues[chatOf[q]] = q /\ chatOf[q] \in Chats
  BY DEF Served, IInv, ChatInv, WorkedRegistered
<1>2. q # None
  BY <1>1 DEF None
<1>3. worker[q] \in Busy => chatOf[held[q]] = chatOf[q] /\ held[q] \in 1..seq
  BY DEF Served, IInv, ChatInv, HeldOwn
<1>4. \A d \in Chats : chatQueues[d] = q => d = chatOf[q]
  BY <1>2 DEF Served, IInv, ChatInv, RegisteredOwn
<1> QED BY <1>1, <1>2, <1>3, <1>4

\* A chat is served by the worker of its registered channel, and by no other.
LEMMA ServeIs ==
  ASSUME Served, NEW c \in Chats
  PROVE  Serve(c) = IF chatQueues[c] # None /\ worker[chatQueues[c]] = "running"
                    THEN {held[chatQueues[c]]}
                    ELSE {}
<1>1. \A q \in QueueId : worker[q] = "running" =>
        /\ q # None /\ chatOf[held[q]] = chatOf[q] /\ chatQueues[chatOf[q]] = q
        /\ \A d \in Chats : chatQueues[d] = q => d = chatOf[q]
  BY OwnChat DEF Busy
<1>2. chatQueues[c] # None => chatQueues[c] \in QueueId
  BY DEF Served, TypeOK
<1>3. \A q \in QueueId : worker[q] = "running" /\ chatOf[held[q]] = c <=> q = chatQueues[c] /\ worker[q] = "running"
  BY <1>1
<1>4. CASE chatQueues[c] # None /\ worker[chatQueues[c]] = "running"
  <2>1. {q \in QueueId : worker[q] = "running" /\ chatOf[held[q]] = c} = {chatQueues[c]}
    BY <1>2, <1>3, <1>4
  <2> QED BY <1>4, <2>1 DEF Serve
<1>5. CASE ~(chatQueues[c] # None /\ worker[chatQueues[c]] = "running")
  <2>1. {q \in QueueId : worker[q] = "running" /\ chatOf[held[q]] = c} = {}
    <3> SUFFICES ASSUME NEW q \in QueueId, worker[q] = "running", chatOf[held[q]] = c PROVE FALSE
      OBVIOUS
    <3> QED BY <1>1, <1>5
  <2> QED BY <1>5, <2>1 DEF Serve
<1> QED BY <1>4, <1>5

\* The same of the state a step leads to.
ServedByOwn ==
  Served => \A c \in Chats :
    Serve(c) = IF chatQueues[c] # None /\ worker[chatQueues[c]] = "running"
               THEN {held[chatQueues[c]]}
               ELSE {}

LEMMA ServeIsNow == ServedByOwn
  BY ServeIs DEF ServedByOwn

LEMMA ServeIsNext == ServedByOwn'
  BY ServeIsNow, PTL

\* A chat whose channel, worker and Submit are left alone keeps its line and its server.
LEMMA LineStays ==
  ASSUME NEW c \in Chats, chatQueues'[c] = chatQueues[c],
         chatQueues[c] # None =>
           /\ worker'[chatQueues[c]] \in {"waiting", "granted"} <=>
                worker[chatQueues[c]] \in {"waiting", "granted"}
           /\ worker[chatQueues[c]] \in {"waiting", "granted"} =>
                held'[chatQueues[c]] = held[chatQueues[c]]
           /\ buf'[chatQueues[c]] = buf[chatQueues[c]],
         SendingTo(c)' = SendingTo(c)
  PROVE  Line(c)' = Line(c)
<1>1. TakenFor(c)' = TakenFor(c)
  BY DEF TakenFor
<1>2. BufferOf(c)' = BufferOf(c)
  BY DEF BufferOf
<1> QED BY <1>1, <1>2 DEF Line

LEMMA ServeStays ==
  ASSUME Served, Served', NEW c \in Chats, chatQueues'[c] = chatQueues[c],
         chatQueues[c] # None =>
           /\ worker'[chatQueues[c]] = "running" <=> worker[chatQueues[c]] = "running"
           /\ worker[chatQueues[c]] = "running" => held'[chatQueues[c]] = held[chatQueues[c]]
  PROVE  Serve(c)' = Serve(c)
<1>1. Serve(c)' = IF chatQueues'[c] # None /\ worker'[chatQueues'[c]] = "running"
                  THEN {held'[chatQueues'[c]]}
                  ELSE {}
  BY ServeIsNext DEF ServedByOwn
<1> QED BY <1>1, ServeIs

\* Only submitted tasks are finished.
Unborn == \A t \in TaskId : status[t] \in Terminal => t \in 1..seq

LEMMA UnbornStep ==
  ASSUME TypeOK, PlacesInv, Unborn, [Next]_vars
  PROVE  Unborn'
<1>0. TaskId = 1..MaxTasks /\ seq \in Nat
  BY QueueAssumption DEF TaskId, TypeOK
<1>1. ASSUME NEW c \in Chats, Submit(c) PROVE Unborn'
  <2>1. seq' = seq + 1 /\ status' = [status EXCEPT ![seq + 1] = "pending"]
    BY <1>1 DEF Submit
  <2>2. \A t \in TaskId : status'[t] = status[t] \/ t = seq + 1
    BY <2>1 DEF TypeOK
  <2> QED BY <1>0, <2>1, <2>2 DEF Unborn
<1>2. ASSUME NEW q \in QueueId, Start(q) \/ Finish(q) PROVE Unborn'
  <2>1. InHand(q) /\ seq' = seq
    BY <1>2 DEF Start, Finish, InHand
  <2>2. held[q] \in 1..seq
    BY <2>1 DEF PlacesInv, HandsInv
  <2>3. \A t \in TaskId : status'[t] = status[t] \/ t = held[q]
    BY <1>2 DEF Start, Finish, TypeOK
  <2> QED BY <2>1, <2>2, <2>3 DEF Unborn
<1>3. CASE UNCHANGED <<seq, status>>
  BY <1>3 DEF Unborn
<1> QED
  BY <1>1, <1>2, <1>3
  DEF Next, WorkerStep, Send, Receive, GiveUp, Touch, Exit, CleanupIdleQueues, PruneOldTasks,
      Stop, Tick, AtRest, taskVars, vars

LEMMA SubmitServes ==
  ASSUME Served, Served', Unborn, NEW c \in Chats, Submit(c)
  PROVE  Service!Next
<1> DEFINE t == seq + 1
<1>0. /\ QueueId = 1..MaxTasks /\ TaskId = 1..MaxTasks /\ seq \in Nat
      /\ t \in TaskId /\ t \notin 1..seq /\ TypeOK /\ t # None
  <2>0. TypeOK
    BY DEF Served
  <2>1. TypeOK /\ seq \in Nat /\ t \in TaskId
    BY <2>0, QueueAssumption DEF TypeOK, Submit
  <2>2. t \notin 1..seq /\ t # None
    BY <2>1 DEF None
  <2> QED BY <2>1, <2>2 DEF QueueId, TaskId
<1>1. /\ sending = NoSend /\ sending' # NoSend /\ sending'.task = t
      /\ ~stopped /\ ~stopped' /\ seq' = t
      /\ chatOf' = [chatOf EXCEPT ![t] = c]
      /\ status' = [status EXCEPT ![t] = "pending"]
      /\ UNCHANGED <<buf, held>>
  BY <1>0 DEF Submit, NoSend, None
<1>2. /\ chatQueues'[c] = (IF chatQueues[c] = None THEN t ELSE chatQueues[c])
      /\ \A d \in Chats \ {c} : chatQueues'[d] = chatQueues[d]
  BY <1>0 DEF Submit, TypeOK
<1>3. worker' = IF chatQueues[c] = None THEN [worker EXCEPT ![t] = "idle"] ELSE worker
  BY DEF Submit
<1>4. \A d \in Chats : chatQueues[d] # None => chatQueues[d] \in QueueId /\ chatQueues[d] # t
  <2>1. \A d \in Chats : chatQueues[d] # None => chatQueues[d] \in 1..seq
    BY DEF Served, IInv, RegistryInv
  <2>2. \A d \in Chats : chatQueues[d] # None => chatQueues[d] \in QueueId
    BY <1>0 DEF TypeOK
  <2> QED BY <1>0, <2>1, <2>2
<1>5. \A p \in QueueId \ {t} : worker'[p] = worker[p]
  BY <1>3 DEF Served, TypeOK
<1>6. Done' = Done
  BY <1>0, <1>1 DEF Done, Unborn, Terminal, TypeOK
<1>7. \A d \in Chats : SendingTo(d) = <<>> /\ SendingTo(d)' = (IF d = c THEN <<t>> ELSE <<>>)
  <2>1. chatOf'[t] = c
    BY <1>0, <1>1 DEF TypeOK
  <2> QED BY <1>1, <2>1 DEF SendingTo
<1> HIDE DEF t
<1>8. ASSUME NEW d \in Chats
      PROVE  TakenFor(d)' = TakenFor(d) /\ BufferOf(d)' = BufferOf(d) /\ Serve(d)' = Serve(d)
  <2>1. CASE d # c \/ chatQueues[c] # None
    <3>1. chatQueues'[d] = chatQueues[d] /\ (chatQueues[d] # None => worker'[chatQueues[d]] = worker[chatQueues[d]])
      BY <1>2, <1>4, <1>5, <2>1
    <3>2. TakenFor(d)' = TakenFor(d)
      BY <1>1, <3>1 DEF TakenFor
    <3>3. BufferOf(d)' = BufferOf(d)
      BY <1>1, <3>1 DEF BufferOf
    <3>4. Serve(d)' = Serve(d)
      BY <1>1, <3>1, ServeStays
    <3> QED BY <3>2, <3>3, <3>4
  <2>2. CASE d = c /\ chatQueues[c] = None
    <3>1. chatQueues'[d] = t /\ worker'[t] = "idle"
      BY <1>0, <1>2, <1>3, <2>2 DEF TypeOK
    <3>2. buf[t] = <<>>
      BY <1>0 DEF Served, IInv, ChatInv, WorkedRegistered
    <3>3. TakenFor(d)' = <<>> /\ TakenFor(d) = <<>>
      BY <2>2, <3>1 DEF TakenFor
    <3>4. BufferOf(d)' = <<>> /\ BufferOf(d) = <<>>
      BY <1>1, <2>2, <3>1, <3>2 DEF BufferOf
    <3>5. Serve(d) = {}
      BY <2>2, ServeIs
    <3>6. Serve(d)' = {}
      BY <3>1, ServeIsNext DEF ServedByOwn
    <3> QED BY <3>3, <3>4, <3>5, <3>6
  <2> QED BY <2>1, <2>2
<1>9. ASSUME NEW d \in Chats
      PROVE  Line(d)' = (IF d = c THEN Append(Line(c), t) ELSE Line(d))
  <2>1. Line(d)' = (TakenFor(d) \o BufferOf(d)) \o (IF d = c THEN <<t>> ELSE <<>>)
    BY <1>7, <1>8 DEF Line
  <2>2. Line(d) = (TakenFor(d) \o BufferOf(d)) \o <<>>
    BY <1>7 DEF Line
  <2>3. TakenFor(d) \in Seq(TaskId) /\ BufferOf(d) \in Seq(TaskId)
    BY LineTyped DEF Served, PlacesInv
  <2>4. (TakenFor(d) \o BufferOf(d)) \o <<t>> = Append((TakenFor(d) \o BufferOf(d)) \o <<>>, t)
    BY <1>0, <2>3, LineGrows
  <2> QED BY <2>1, <2>2, <2>4
<1> QED BY <1>1, <1>6, <1>8, <1>9, AsArrive DEF t

LEMMA SendServes ==
  ASSUME Served, Served', Send
  PROVE  UNCHANGED Service!vars
<1> DEFINE q == sending.queue
           t == sending.task
           c == chatOf[t]
<1>1. /\ sending # NoSend /\ sending' = NoSend
      /\ buf' = [buf EXCEPT ![q] = Append(@, t)]
      /\ UNCHANGED <<seq, chatOf, status, chatQueues, worker, held, stopped>>
  BY DEF Send, taskVars, workerVars
<1>2. /\ q \in QueueId /\ t \in TaskId /\ q # None
      /\ c = chatOf[q] /\ c \in Chats /\ chatQueues[c] = q
      /\ \A d \in Chats : chatQueues[d] = q => d = c
  <2>1. q \in QueueId /\ t \in TaskId /\ q \in 1..seq /\ c = chatOf[q] /\ chatQueues[chatOf[q]] = q
    BY <1>1 DEF Served, TypeOK, IInv, ChatInv, SendingOwn
  <2>2. q # None
    BY <2>1 DEF None
  <2>3. chatOf[q] \in Chats
    BY <2>1 DEF Served, IInv, ChatInv
  <2>4. \A d \in Chats : chatQueues[d] = q => d = chatOf[q]
    BY <2>2 DEF Served, IInv, ChatInv, RegisteredOwn
  <2> QED BY <2>1, <2>2, <2>3, <2>4
<1>3. /\ buf'[q] = Append(buf[q], t)
      /\ \A p \in QueueId \ {q} : buf'[p] = buf[p]
  BY <1>1, <1>2 DEF Served, TypeOK
<1>4. \A d \in Chats : SendingTo(d)' = <<>> /\ SendingTo(d) = (IF d = c THEN <<t>> ELSE <<>>)
  BY <1>1 DEF SendingTo
<1>5. \A d \in Chats : TakenFor(d)' = TakenFor(d)
  BY <1>1 DEF TakenFor
<1> HIDE DEF q, t, c
<1>6. \A d \in Chats : chatQueues[d] # None => chatQueues[d] \in QueueId
  BY DEF Served, TypeOK
<1>7. \A d \in Chats : BufferOf(d)' = (IF d = c THEN Append(BufferOf(d), t) ELSE BufferOf(d))
  BY <1>1, <1>2, <1>3, <1>6 DEF BufferOf
<1>8. ASSUME NEW d \in Chats PROVE Line(d)' = Line(d)
  <2>1. TakenFor(d) \in Seq(TaskId) /\ BufferOf(d) \in Seq(TaskId)
    BY LineTyped DEF Served, PlacesInv
  <2>2. (TakenFor(d) \o BufferOf(d)) \o <<t>> = (TakenFor(d) \o Append(BufferOf(d), t)) \o <<>>
    BY <1>2, <2>1, LineGrows
  <2>3. CASE d = c
    BY <1>4, <1>5, <1>7, <2>2, <2>3 DEF Line
  <2>4. CASE d # c
    BY <1>4, <1>5, <1>7, <2>4 DEF Line
  <2> QED BY <2>3, <2>4
<1>9. ASSUME NEW d \in Chats PROVE Serve(d)' = Serve(d)
  BY <1>1, ServeStays
<1>10. Done' = Done
  BY <1>1 DEF Done
<1> QED BY <1>1, <1>8, <1>9, <1>10, AsStutter

\* What Receive, Start, GiveUp and Finish do to the worker of one channel.
LEMMA ReceiveServes ==
  ASSUME Served, Served', NEW q \in QueueId, NEW c \in Chats, c = chatOf[q], Receive(q)
  PROVE  Service!Next \/ UNCHANGED Service!vars
<1> DEFINE b == buf[q]
<1>1. /\ worker[q] = "idle" /\ b # <<>> /\ b \in Seq(TaskId)
      /\ UNCHANGED <<seq, chatOf, status, chatQueues, sending, stopped>>
      /\ buf'[q] = Tail(b) /\ held'[q] = Head(b)
      /\ \A p \in QueueId \ {q} : buf'[p] = buf[p] /\ held'[p] = held[p] /\ worker'[p] = worker[p]
  BY DEF Receive, taskVars, Served, TypeOK
<1>2. \/ worker'[q] \in {"waiting", "granted"}
      \/ worker'[q] = "served" /\ stopped
  BY DEF Receive, Served, TypeOK
<1>3. /\ chatQueues[c] = q /\ q # None
      /\ \A d \in Chats : chatQueues[d] = q => d = c
  BY <1>1, OwnChat
<1>4. \A d \in Chats : chatQueues[d] # None => chatQueues[d] \in QueueId
  BY DEF Served, TypeOK
<1>5. \A d \in Chats : SendingTo(d)' = SendingTo(d)
  BY <1>1 DEF SendingTo
<1>6. ASSUME NEW d \in Chats, d # c PROVE Line(d)' = Line(d)
  <2>1. chatQueues[d] # None => chatQueues[d] \in QueueId \ {q}
    BY <1>3, <1>4, <1>6
  <2> QED BY <1>1, <1>5, <2>1, LineStays
<1>7. ASSUME NEW d \in Chats PROVE Serve(d)' = Serve(d)
  <2>1. chatQueues[d] # None => chatQueues[d] = q \/ chatQueues[d] \in QueueId \ {q}
    BY <1>4
  <2>2. worker[q] # "running" /\ worker'[q] # "running"
    BY <1>1, <1>2
  <2>3. chatQueues[d] # None =>
          /\ worker'[chatQueues[d]] = "running" <=> worker[chatQueues[d]] = "running"
          /\ worker[chatQueues[d]] = "running" => held'[chatQueues[d]] = held[chatQueues[d]]
    BY <1>1, <2>1, <2>2
  <2> QED BY <1>1, <2>3, ServeStays
<1>8. Done' = Done
  BY <1>1 DEF Done
<1>9. Line(c) = (<<>> \o b) \o SendingTo(c)
  BY <1>1, <1>3 DEF Line, TakenFor, BufferOf
<1>10. SendingTo(c) \in Seq(TaskId)
  BY <1>3, LineTyped DEF Served, PlacesInv
<1>11. /\ (<<>> \o b) \o SendingTo(c) = (<<Head(b)>> \o Tail(b)) \o SendingTo(c)
       /\ (<<>> \o b) \o SendingTo(c) # <<>>
       /\ Tail((<<>> \o b) \o SendingTo(c)) = (<<>> \o Tail(b)) \o SendingTo(c)
  <2>1. Head(b) \in TaskId /\ b \in Seq(TaskId) /\ b # <<>>
    BY <1>1, HeadTailProperties
  <2> DEFINE x == SendingTo(c)
             e == Head(b)
  <2>2. x \in Seq(TaskId) /\ e \in TaskId
    BY <1>10, <2>1
  <2> HIDE DEF b, x, e
  <2>3. /\ (<<>> \o b) \o x = (<<Head(b)>> \o Tail(b)) \o x
        /\ (<<>> \o b) \o x # <<>>
        /\ Tail((<<>> \o b) \o x) = (<<>> \o Tail(b)) \o x
    BY <2>1, <2>2, LineMoves
  <2> QED BY <2>3 DEF x
<1> HIDE DEF b
<1>12. BufferOf(c)' = Tail(b)
  BY <1>1, <1>3 DEF BufferOf
<1>13. CASE worker'[q] \in {"waiting", "granted"}
  <2>1. TakenFor(c)' = <<Head(b)>>
    BY <1>1, <1>3, <1>13 DEF TakenFor
  <2>2. Line(c)' = Line(c)
    BY <1>3, <1>5, <1>9, <1>11, <1>12, <2>1 DEF Line
  <2> QED BY <1>1, <1>6, <1>7, <1>8, <2>2, AsStutter
<1>14. CASE worker'[q] = "served" /\ stopped
  <2>1. TakenFor(c)' = <<>>
    BY <1>1, <1>3, <1>14 DEF TakenFor
  <2>2. Line(c)' = Tail(Line(c)) /\ Line(c) # <<>>
    BY <1>3, <1>5, <1>9, <1>11, <1>12, <2>1 DEF Line
  <2>3. stopped'
    BY <1>1, <1>14
  <2>4. \A d \in Chats : Line(d)' = (IF d = c THEN Tail(Line(c)) ELSE Line(d))
    BY <1>6, <2>2
  <2> QED BY <1>1, <1>3, <1>7, <1>8, <1>14, <2>2, <2>3, <2>4, AsAbandon
<1> QED BY <1>2, <1>13, <1>14

LEMMA GiveUpServes ==
  ASSUME Served, Served', NEW q \in QueueId, NEW c \in Chats, c = chatOf[q], GiveUp(q)
  PROVE  Service!Next
<1>1. /\ worker[q] = "waiting" /\ stopped /\ worker'[q] = "served"
      /\ UNCHANGED <<seq, chatOf, status, chatQueues, sending, stopped, buf, held>>
      /\ \A p \in QueueId \ {q} : worker'[p] = worker[p]
  BY DEF GiveUp, taskVars, queueVars, Served, TypeOK
<1>2. worker[q] \in Busy
  BY <1>1 DEF Busy
<1>3. /\ chatQueues[c] = q /\ q # None
      /\ \A d \in Chats : chatQueues[d] = q => d = c
  BY <1>2, OwnChat
<1>4. \A d \in Chats : chatQueues[d] # None => chatQueues[d] \in QueueId
  BY DEF Served, TypeOK
<1>5. \A d \in Chats : SendingTo(d)' = SendingTo(d)
  BY <1>1 DEF SendingTo
<1>6. ASSUME NEW d \in Chats, d # c PROVE Line(d)' = Line(d)
  <2>1. chatQueues[d] # None => chatQueues[d] \in QueueId \ {q}
    BY <1>3, <1>4, <1>6
  <2> QED BY <1>1, <1>5, <2>1, LineStays
<1>7. ASSUME NEW d \in Chats PROVE Serve(d)' = Serve(d)
  <2>1. chatQueues[d] # None =>
          /\ worker'[chatQueues[d]] = "running" <=> worker[chatQueues[d]] = "running"
          /\ held'[chatQueues[d]] = held[chatQueues[d]]
    BY <1>1, <1>4
  <2> QED BY <1>1, <2>1, ServeStays
<1>8. Done' = Done
  BY <1>1 DEF Done
<1>9. Line(c) # <<>> /\ Line(c)' = Tail(Line(c))
  <2>1. TakenFor(c) = <<held[q]>> /\ TakenFor(c)' = <<>>
    BY <1>1, <1>3 DEF TakenFor
  <2>2. BufferOf(c)' = BufferOf(c)
    BY <1>1 DEF BufferOf
  <2>3. BufferOf(c) \in Seq(TaskId) /\ SendingTo(c) \in Seq(TaskId) /\ held[q] \in TaskId
    <3>0. seq \in 0..MaxTasks
      BY DEF Served, TypeOK
    <3>1. InHand(q) /\ 1..seq \subseteq TaskId
      BY <1>1, <3>0, QueueAssumption DEF InHand, TaskId
    <3>2. held[q] \in 1..seq
      BY <3>1 DEF Served, PlacesInv, HandsInv
    <3> QED BY <1>3, <3>1, <3>2, LineTyped DEF Served, PlacesInv
  <2>4. /\ (<<held[q]>> \o BufferOf(c)) \o SendingTo(c) # <<>>
        /\ Tail((<<held[q]>> \o BufferOf(c)) \o SendingTo(c)) = (<<>> \o BufferOf(c)) \o SendingTo(c)
    BY <2>3, LineMoves
  <2> QED BY <1>3, <1>5, <2>1, <2>2, <2>4 DEF Line
<1>10. \A d \in Chats : Line(d)' = (IF d = c THEN Tail(Line(c)) ELSE Line(d))
  BY <1>6, <1>9
<1>11. stopped'
  BY <1>1
<1> QED BY <1>1, <1>3, <1>7, <1>8, <1>9, <1>10, <1>11, AsAbandon

\* The chats being served are fewer than the tokens when one of the tokens is held by a
\* worker that has not started yet.
LEMMA RoomToServe ==
  ASSUME Served, NEW q \in QueueId, worker[q] = "granted"
  PROVE  Cardinality({d \in Chats : Serve(d) # {}}) < MaxConcurrent
<1> DEFINE B == {d \in Chats : Serve(d) # {}}
           S == sem \ {q}
           f == [d \in B |-> chatQueues[d]]
<1>1. /\ sem = {p \in QueueId : worker[p] \in {"granted", "running"}}
      /\ Cardinality(sem) <= MaxConcurrent /\ MaxConcurrent \in Nat
  BY QueueAssumption DEF Served, IInv, SemInv, SemaphoreAccounting
<1>2. IsFiniteSet(sem)
  <2>1. sem \subseteq 1..MaxTasks /\ IsFiniteSet(1..MaxTasks)
    BY QueueAssumption, FS_Interval DEF Served, TypeOK, QueueId, TaskId
  <2> QED BY <2>1, FS_Subset
<1>3. q \in sem
  BY <1>1
<1>4. IsFiniteSet(S) /\ Cardinality(S) = Cardinality(sem) - 1 /\ Cardinality(sem) \in Nat
  BY <1>2, <1>3, FS_RemoveElement, FS_CardinalityType
<1>5. \A d \in B : chatQueues[d] \in QueueId /\ chatQueues[d] # None /\ worker[chatQueues[d]] = "running"
  BY ServeIs DEF Served, TypeOK
<1>6. \A d \in B : chatQueues[d] \in S
  BY <1>1, <1>5
<1>7. \A d, e \in B : chatQueues[d] = chatQueues[e] => d = e
  BY <1>5 DEF Served, IInv, ChatInv, RegisteredOwn
<1>8. f \in Injection(B, S)
  BY <1>6, <1>7 DEF Injection, IsInjective
<1>9. IsFiniteSet(B) /\ Cardinality(B) <= Cardinality(S)
  <2> HIDE DEF B, S, f
  <2>1. \A g \in Injection(B, S) : IsFiniteSet(B) /\ Cardinality(B) <= Cardinality(S)
    BY <1>4, FS_Injection, Zenon
  <2> QED BY <1>8, <2>1
<1>10. Cardinality(B) \in Nat
  BY <1>9, FS_CardinalityType
<1> HIDE DEF B, S
<1>11. Cardinality(B) < MaxConcurrent
  BY <1>1, <1>4, <1>9, <1>10
<1> QED BY <1>11 DEF B

LEMMA StartServes ==
  ASSUME Served, Served', NEW q \in QueueId, NEW c \in Chats, c = chatOf[q], Start(q)
  PROVE  Service!Next
<1>1. /\ worker[q] = "granted" /\ worker'[q] = "running"
      /\ status' = [status EXCEPT ![held[q]] = "running"]
      /\ UNCHANGED <<seq, chatOf, chatQueues, sending, stopped, buf, held>>
      /\ \A p \in QueueId \ {q} : worker'[p] = worker[p]
  BY DEF Start, queueVars, Served, TypeOK
<1>2. worker[q] \in Busy
  BY <1>1 DEF Busy
<1>3. /\ chatQueues[c] = q /\ q # None
      /\ \A d \in Chats : chatQueues[d] = q => d = c
  BY <1>2, OwnChat
<1>4. \A d \in Chats : chatQueues[d] # None => chatQueues[d] \in QueueId
  BY DEF Served, TypeOK
<1>5. \A d \in Chats : SendingTo(d)' = SendingTo(d)
  BY <1>1 DEF SendingTo
<1>6. ASSUME NEW d \in Chats, d # c PROVE Line(d)' = Line(d) /\ Serve(d)' = Serve(d)
  <2>1. chatQueues[d] # None => chatQueues[d] \in QueueId \ {q}
    BY <1>3, <1>4, <1>6
  <2> QED BY <1>1, <1>5, <2>1, LineStays, ServeStays
<1>7. held[q] \in TaskId /\ status[held[q]] \notin Terminal
  <2>0. seq \in 0..MaxTasks
    BY DEF Served, TypeOK
  <2>1. InHand(q) /\ 1..seq \subseteq TaskId
    BY <1>1, <2>0, QueueAssumption DEF InHand, TaskId
  <2>2. held[q] \in 1..seq /\ status[held[q]] = "pending"
    BY <1>1, <2>1 DEF Served, PlacesInv, HandsInv
  <2> QED BY <2>1, <2>2 DEF Terminal
<1>8. Done' = Done
  BY <1>1, <1>7 DEF Done, Terminal, Served, TypeOK
<1>9. Line(c) # <<>> /\ Head(Line(c)) = held[q] /\ Line(c)' = Tail(Line(c))
  <2>1. TakenFor(c) = <<held[q]>> /\ TakenFor(c)' = <<>>
    BY <1>1, <1>3 DEF TakenFor
  <2>2. BufferOf(c)' = BufferOf(c)
    BY <1>1 DEF BufferOf
  <2>3. BufferOf(c) \in Seq(TaskId) /\ SendingTo(c) \in Seq(TaskId)
    BY LineTyped DEF Served, PlacesInv
  <2>4. /\ (<<held[q]>> \o BufferOf(c)) \o SendingTo(c) # <<>>
        /\ Head((<<held[q]>> \o BufferOf(c)) \o SendingTo(c)) = held[q]
        /\ Tail((<<held[q]>> \o BufferOf(c)) \o SendingTo(c)) = (<<>> \o BufferOf(c)) \o SendingTo(c)
    BY <1>7, <2>3, LineMoves
  <2> QED BY <1>5, <2>1, <2>2, <2>4 DEF Line
<1>10. Serve(c) = {}
  BY <1>1, <1>3, ServeIs
<1>11. Serve(c)' = {held[q]}
  BY <1>1, <1>3, ServeIsNext DEF ServedByOwn
<1>12. Cardinality({d \in Chats : Serve(d) # {}}) < MaxConcurrent
  BY <1>1, RoomToServe
<1>13. /\ \A d \in Chats : Serve(d)' = (IF d = c THEN {Head(Line(c))} ELSE Serve(d))
       /\ \A d \in Chats : Line(d)' = (IF d = c THEN Tail(Line(c)) ELSE Line(d))
  BY <1>6, <1>9, <1>11
<1> QED BY <1>1, <1>8, <1>9, <1>10, <1>12, <1>13, AsBegin

LEMMA FinishServes ==
  ASSUME Served, Served', NEW q \in QueueId, NEW c \in Chats, c = chatOf[q], Finish(q)
  PROVE  Service!Next
<1>1. /\ worker[q] = "running" /\ Release(q)
      /\ \E outcome \in Terminal : status' = [status EXCEPT ![held[q]] = outcome]
      /\ UNCHANGED <<seq, chatOf, chatQueues, sending, stopped, buf, held>>
  BY DEF Finish, queueVars
<1>2. worker[q] \in Busy
  BY <1>1 DEF Busy
<1>3. /\ chatQueues[c] = q /\ q # None
      /\ \A d \in Chats : chatQueues[d] = q => d = c
  BY <1>2, OwnChat
<1>4. \A d \in Chats : chatQueues[d] # None => chatQueues[d] \in QueueId
  BY DEF Served, TypeOK
<1>5. /\ worker'[q] = "served"
      /\ \A p \in QueueId \ {q} : \/ worker'[p] = worker[p]
                                  \/ worker[p] = "waiting" /\ worker'[p] = "granted"
  <2>1. CASE semWait = <<>>
    BY <1>1, <2>1 DEF Release, Served, TypeOK
  <2>2. CASE semWait # <<>>
    <3> DEFINE w == Head(semWait)
    <3>1. w \in QueueId /\ worker[w] = "waiting" /\ w # q
      BY <1>1, <2>2, FirstWaits DEF Served, IInv
    <3>2. worker' = [worker EXCEPT ![q] = "served", ![w] = "granted"]
      BY <1>1, <2>2 DEF Release
    <3> HIDE DEF w
    <3> QED BY <3>1, <3>2 DEF Served, TypeOK
  <2> QED BY <2>1, <2>2
<1>6. \A d \in Chats : SendingTo(d)' = SendingTo(d)
  BY <1>1 DEF SendingTo
<1>7. ASSUME NEW d \in Chats PROVE Line(d)' = Line(d)
  <2>1. chatQueues[d] # None =>
          worker'[chatQueues[d]] \in {"waiting", "granted"} <=>
            worker[chatQueues[d]] \in {"waiting", "granted"}
    BY <1>1, <1>4, <1>5
  <2> QED BY <1>1, <1>6, <2>1, LineStays
<1>8. ASSUME NEW d \in Chats, d # c PROVE Serve(d)' = Serve(d)
  <2>1. chatQueues[d] # None => chatQueues[d] \in QueueId \ {q}
    BY <1>3, <1>4, <1>8
  <2> QED BY <1>1, <1>5, <2>1, ServeStays
<1>9. held[q] \in TaskId
  <2>0. seq \in 0..MaxTasks
    BY DEF Served, TypeOK
  <2>1. InHand(q) /\ 1..seq \subseteq TaskId
    BY <1>1, <2>0, QueueAssumption DEF InHand, TaskId
  <2> QED BY <2>1 DEF Served, PlacesInv, HandsInv
<1>10. Serve(c) = {held[q]}
  BY <1>1, <1>3, ServeIs
<1>11. Serve(c)' = {}
  BY <1>1, <1>3, <1>5, ServeIsNext DEF ServedByOwn
<1>12. Done' = Done \union Serve(c)
  BY <1>1, <1>9, <1>10 DEF Done, Served, TypeOK
<1>13. \A d \in Chats : Serve(d)' = (IF d = c THEN {} ELSE Serve(d))
  BY <1>8, <1>11
<1> QED BY <1>1, <1>7, <1>10, <1>12, <1>13, AsEnd

\* The other steps of a worker are not seen.
LEMMA RestServes ==
  ASSUME Served, Served', NEW q \in QueueId, Touch(q) \/ Exit(q)
  PROVE  UNCHANGED Service!vars
<1>1. /\ worker[q] \in {"served", "idle"} /\ worker'[q] \in {"idle", "exited"}
      /\ UNCHANGED <<seq, chatOf, status, chatQueues, sending, stopped, buf>>
      /\ \A p \in QueueId \ {q} : worker'[p] = worker[p] /\ held'[p] = held[p]
  BY DEF Touch, Exit, taskVars, queueVars, Served, TypeOK
<1>2. \A d \in Chats : chatQueues[d] # None => chatQueues[d] \in QueueId
  BY DEF Served, TypeOK
<1>3. \A d \in Chats : SendingTo(d)' = SendingTo(d)
  BY <1>1 DEF SendingTo
<1>4. ASSUME NEW d \in Chats PROVE Line(d)' = Line(d) /\ Serve(d)' = Serve(d)
  <2>1. chatQueues[d] # None => chatQueues[d] = q \/ chatQueues[d] \in QueueId \ {q}
    BY <1>2
  <2>2. Line(d)' = Line(d)
    BY <1>1, <1>3, <2>1, LineStays
  <2>3. Serve(d)' = Serve(d)
    BY <1>1, <2>1, ServeStays
  <2> QED BY <2>2, <2>3
<1>5. Done' = Done
  BY <1>1 DEF Done
<1> QED BY <1>1, <1>4, <1>5, AsStutter

\* The janitor forgets channels that nobody sees.
LEMMA CleanupServes ==
  ASSUME Served, Served', SparesBusy, CleanupIdleQueues
  PROVE  UNCHANGED Service!vars
<1>1. /\ closed' = closed \union {chatQueues[c] : c \in Reclaimable}
      /\ chatQueues' = [c \in Chats |-> IF c \in Reclaimable THEN None ELSE chatQueues[c]]
      /\ UNCHANGED <<seq, chatOf, status, sending, stopped, buf, worker, held>>
  BY DEF CleanupIdleQueues, taskVars, workerVars
<1>2. \A d \in Chats : SendingTo(d)' = SendingTo(d)
  BY <1>1 DEF SendingTo
<1>3. ASSUME NEW d \in Chats PROVE Line(d)' = Line(d) /\ Serve(d)' = Serve(d)
  <2>1. CASE d \notin Reclaimable
    <3>1. chatQueues'[d] = chatQueues[d]
      BY <1>1, <2>1
    <3> QED BY <1>1, <1>2, <3>1, LineStays, ServeStays
  <2>2. CASE d \in Reclaimable
    <3>1. /\ chatQueues'[d] = None /\ chatQueues[d] # None /\ buf[chatQueues[d]] = <<>>
          /\ chatQueues[d] \in closed'
      BY <1>1, <2>2 DEF Reclaimable, IdleTooLong
    <3>2. chatQueues[d] \notin closed
      BY <3>1 DEF Served, IInv, RegistryInv
    <3>3. worker[chatQueues[d]] \notin Busy
      BY <3>1, <3>2 DEF SparesBusy
    <3>4. TakenFor(d) = <<>> /\ TakenFor(d)' = <<>>
      BY <3>1, <3>3 DEF TakenFor, Busy
    <3>5. BufferOf(d) = <<>> /\ BufferOf(d)' = <<>>
      BY <3>1 DEF BufferOf
    <3>6. Serve(d) = {}
      BY <3>3, ServeIs DEF Busy
    <3>7. Serve(d)' = {}
      BY <3>1, ServeIsNext DEF ServedByOwn
    <3> QED BY <1>2, <3>4, <3>5, <3>6, <3>7 DEF Line
  <2> QED BY <2>1, <2>2
<1>4. Done' = Done
  BY <1>1 DEF Done
<1> QED BY <1>1, <1>3, <1>4, AsStutter

\* Stop closes the service; pruning and the clock are not seen.
LEMMA OutsideServes ==
  ASSUME Served, Served', Stop \/ PruneOldTasks \/ Tick \/ UNCHANGED vars
  PROVE  Service!Next \/ UNCHANGED Service!vars
<1>1. UNCHANGED <<seq, chatOf, status, chatQueues, sending, buf, worker, held>>
  BY DEF Stop, PruneOldTasks, Tick, taskVars, queueVars, workerVars, vars
<1>2. ASSUME NEW d \in Chats PROVE Line(d)' = Line(d) /\ Serve(d)' = Serve(d)
  <2>1. SendingTo(d)' = SendingTo(d)
    BY <1>1 DEF SendingTo
  <2> QED BY <1>1, <2>1, LineStays, ServeStays
<1>3. Done' = Done
  BY <1>1 DEF Done
<1>4. CASE Stop
  <2>1. ~stopped /\ stopped'
    BY <1>4 DEF Stop
  <2> QED BY <1>1, <1>2, <1>3, <2>1, AsClose
<1>5. CASE PruneOldTasks
  <2>1. stopped' = stopped
    BY <1>5 DEF PruneOldTasks
  <2> QED BY <1>1, <1>2, <1>3, <2>1, AsStutter
<1>6. CASE Tick
  <2>1. stopped' = stopped
    BY <1>6 DEF Tick
  <2> QED BY <1>1, <1>2, <1>3, <2>1, AsStutter
<1>7. CASE UNCHANGED vars
  <2>1. stopped' = stopped
    BY <1>7 DEF vars
  <2> QED BY <1>1, <1>2, <1>3, <2>1, AsStutter
<1> QED BY <1>4, <1>5, <1>6, <1>7

\* Every step of the queue is a step of the service, or none.
LEMMA StepServes ==
  ASSUME Served, Served', Unborn, SparesBusy, [Next]_vars
  PROVE  [Service!Next]_Service!vars
<1>1. ASSUME NEW q \in QueueId, WorkerStep(q) PROVE Service!Next \/ UNCHANGED Service!vars
  <2> DEFINE c == chatOf[q]
  <2>1. ASSUME Receive(q) PROVE Service!Next \/ UNCHANGED Service!vars
    <3>1. c \in Chats
      BY <2>1, OwnChat DEF Receive
    <3> QED BY <2>1, <3>1, ReceiveServes
  <2>2. ASSUME Start(q) \/ Finish(q) \/ GiveUp(q) PROVE Service!Next
    <3>1. worker[q] \in Busy
      BY <2>2 DEF Start, Finish, GiveUp, Busy
    <3>2. c \in Chats
      BY <3>1, OwnChat
    <3> QED BY <2>2, <3>2, StartServes, FinishServes, GiveUpServes
  <2> QED BY <1>1, <2>1, <2>2, RestServes DEF WorkerStep
<1> QED
  BY <1>1, SubmitServes, SendServes, CleanupServes, OutsideServes DEF Next, AtRest

LEMMA InitServes == Init => Service!Init
<1> SUFFICES ASSUME Init PROVE Service!Init
  OBVIOUS
<1> USE DEF Init
<1>1. \A c \in Chats : TakenFor(c) = <<>> /\ SendingTo(c) = <<>> /\ BufferOf(c) = <<>>
  BY DEF TakenFor, SendingTo, BufferOf
<1>2. <<>> \o <<>> = <<>>
  BY EmptySeq, ConcatEmptySeq
<1>3. \A c \in Chats : Line(c) = <<>>
  BY <1>1, <1>2 DEF Line
<1>4. \A c \in Chats : Serve(c) = {}
  BY DEF Serve
<1>5. Done = {}
  BY DEF Done, Terminal
<1> QED BY <1>3, <1>4, <1>5 DEF Service!Init, Line, BufferOf, Serve, Done

\* The queue is the service its callers see - one task at a time per chat, in the order of
\* submission, at most MaxConcurrent at once and none lost while it is open - as long as
\* the janitor closes no channel whose worker has a task in hand.
THEOREM ServesIfJanitorSparesBusy ==
  Spec /\ [][SparesBusy]_vars => ImplementsService
<1>1. Init => IInv /\ PlacesInv /\ Unborn
  <2>1. Init => Unborn
    BY DEF Init, Unborn, Terminal
  <2> QED BY <2>1, IInvInit, PlacesInit
<1>2. TypeOK /\ IInv /\ PlacesInv /\ Unborn /\ [Next]_vars /\ [SparesBusy]_vars
        => IInv' /\ PlacesInv' /\ Unborn'
  <2> SUFFICES ASSUME TypeOK, IInv, PlacesInv, Unborn, [Next]_vars, [SparesBusy]_vars
               PROVE  IInv' /\ PlacesInv' /\ Unborn'
    OBVIOUS
  <2>1. SparesBusy
    BY DEF SparesBusy, vars
  <2>2. SemInv
    BY DEF IInv
  <2> QED BY <2>1, <2>2, IInvStep, PlacesStep, UnbornStep
<1>3. Served /\ Served' /\ Unborn /\ [Next]_vars /\ [SparesBusy]_vars
        => [Service!Next]_Service!vars
  <2> SUFFICES ASSUME Served, Served', Unborn, [Next]_vars, [SparesBusy]_vars
               PROVE  [Service!Next]_Service!vars
    OBVIOUS
  <2>1. SparesBusy
    BY DEF SparesBusy, vars
  <2> QED BY <2>1, StepServes
<1>4. TypeOK /\ IInv /\ PlacesInv => Served
  BY DEF Served
<1> QED
  BY <1>1, <1>2, <1>3, <1>4, InitServes, TypeCorrect, PTL DEF Spec, ImplementsService, Service!Spec
----------------------------------------------------------------------------
(* How long a worker can wait for a token.  A chat has one worker at work, *)
(* and the tokens turn over once in a task timeout, so a worker that is    *)
(* i-th in the line gets one after i task timeouts.                        *)

\* The workers that can wait while others hold every token: one per chat that is left.
Spare == Cardinality(Chats) - MaxConcurrent

\* The task timeouts that a worker at place i of the line has been let wait already.
Waited(i) == (Spare - i) * TaskTimeout

\* The longest wait for a token.
Longest == IF Spare > 0 THEN Spare * TaskTimeout ELSE 0

\* There are few enough chats for the janitor's patience to outlast a wait for a token and
\* the task that follows it.
FewChats == IsFiniteSet(Chats) /\ Longest + TaskTimeout <= IdleTimeout

\* Since when the worker has used its token.
Since(p) == IF worker[p] = "running" THEN startedAt[p] ELSE clock

\* How far the last use of a channel can lie back, by what its worker is doing.
WaitInv ==
  /\ \A q \in QueueId : lastUsed[q] <= clock
  /\ \A i \in 1..Len(semWait) : \A p \in sem :
       clock - lastUsed[semWait[i]] <= Waited(i) + (clock - Since(p))
  /\ \A q \in QueueId : worker[q] = "granted" => clock - lastUsed[q] <= Longest
  /\ \A q \in QueueId : worker[q] = "running" =>
       /\ startedAt[q] <= clock
       /\ clock <= startedAt[q] + TaskTimeout
       /\ startedAt[q] - lastUsed[q] <= Longest
  /\ \A q \in QueueId : worker[q] = "served" => clock - lastUsed[q] <= Longest + TaskTimeout

\* No more workers wait than chats are left.
LineFits == Len(semWait) <= Spare \/ semWait = <<>>

\* Arithmetic about the waits.
LEMMA WaitFacts ==
  ASSUME FewChats
  PROVE  /\ Spare \in Int /\ Longest \in Nat /\ TaskTimeout \in Nat \ {0}
         /\ Longest + TaskTimeout <= IdleTimeout
         /\ \A i \in Nat : /\ Waited(i) \in Int
                           /\ Waited(i) = Waited(i + 1) + TaskTimeout
                           /\ i <= Spare => Waited(i) >= 0
         /\ Spare >= 1 => Waited(1) + TaskTimeout = Longest
         /\ \A i \in Nat : Waited(i) <= Longest
<1>1. Spare \in Int /\ TaskTimeout \in Nat \ {0}
  BY FS_CardinalityType, QueueAssumption DEF FewChats, Spare
<1>2. ASSUME NEW i \in Nat
      PROVE  /\ Waited(i) \in Int /\ Waited(i) = Waited(i + 1) + TaskTimeout
             /\ i <= Spare => Waited(i) >= 0
  <2> DEFINE d == Spare - i
  <2>1. d \in Int /\ Waited(i) = d * TaskTimeout /\ Waited(i + 1) = (d - 1) * TaskTimeout
    BY <1>1 DEF Waited
  <2>2. i <= Spare => d \in Nat
    BY <1>1
  <2> HIDE DEF d
  <2>3. d * TaskTimeout \in Int /\ d * TaskTimeout = (d - 1) * TaskTimeout + TaskTimeout
    BY <1>1, <2>1
  <2>4. d \in Nat => d * TaskTimeout >= 0
    BY <1>1
  <2> QED BY <2>1, <2>2, <2>3, <2>4
<1>3. Longest \in Nat
  <2>1. Spare > 0 => Spare * TaskTimeout \in Nat
    BY <1>1
  <2> QED BY <2>1 DEF Longest
<1>4. Spare >= 1 => Waited(1) + TaskTimeout = Longest
  <2>1. Waited(1) = (Spare - 1) * TaskTimeout
    BY DEF Waited
  <2>2. (Spare - 1) * TaskTimeout + TaskTimeout = Spare * TaskTimeout
    BY <1>1
  <2> QED BY <1>1, <2>1, <2>2 DEF Longest
<1>5. ASSUME NEW i \in Nat PROVE Waited(i) <= Longest
  <2> DEFINE d == Spare - i
  <2>1. d \in Int /\ d <= Spare /\ Waited(i) = d * TaskTimeout
    BY <1>1 DEF Waited
  <2> HIDE DEF d
  <2>2. d * TaskTimeout <= Spare * TaskTimeout
    BY <1>1, <2>1
  <2>3. Spare <= 0 => Spare * TaskTimeout <= 0
    BY <1>1
  <2>4. Spare * TaskTimeout \in Int /\ d * TaskTimeout \in Int
    BY <1>1, <2>1
  <2> QED BY <1>1, <2>1, <2>2, <2>3, <2>4 DEF Longest
<1> QED BY <1>1, <1>2, <1>3, <1>4, <1>5 DEF FewChats

\* A worker that waits or holds a token is the one worker of its chat.
LEMMA WaitersFit ==
  ASSUME FewChats, Served
  PROVE  LineFits
<1> SUFFICES ASSUME semWait # <<>> PROVE Len(semWait) <= Spare
  BY DEF LineFits
<1> DEFINE n == Len(semWait)
           W == {q \in QueueId : worker[q] = "waiting"}
           f == [i \in 1..n |-> semWait[i]]
           g == [q \in W \union sem |-> chatOf[q]]
<1>1. /\ sem = {q \in QueueId : worker[q] \in {"granted", "running"}}
      /\ Cardinality(sem) = MaxConcurrent
      /\ {semWait[i] : i \in 1..n} = W
      /\ \A i, j \in 1..n : semWait[i] = semWait[j] => i = j
  BY DEF Served, IInv, SemInv, SemaphoreAccounting, WaitsOnce
<1>2. n \in Nat /\ MaxConcurrent \in Nat
  BY LenProperties, QueueAssumption DEF Served, TypeOK
<1>3. IsFiniteSet(W) /\ IsFiniteSet(sem)
  <2>1. IsFiniteSet(QueueId)
    BY QueueAssumption, FS_Interval DEF QueueId, TaskId
  <2>2. W \subseteq QueueId /\ sem \subseteq QueueId
    BY <1>1
  <2> QED BY <2>1, <2>2, FS_Subset
<1>4. f \in Injection(1..n, W)
  BY <1>1 DEF Injection, IsInjective
<1>5. W \intersect sem = {}
  BY <1>1
<1>6. \A q \in W \union sem : chatOf[q] \in Chats /\ chatQueues[chatOf[q]] = q
  <2>1. \A q \in W \union sem : q \in QueueId /\ worker[q] \in Busy
    BY <1>1 DEF Busy
  <2> QED BY <2>1, OwnChat
<1>7. g \in Injection(W \union sem, Chats)
  BY <1>6 DEF Injection, IsInjective
<1> HIDE DEF n, W, f, g
<1>8. Cardinality(1..n) = n
  BY <1>2, FS_Interval
<1>9. n <= Cardinality(W)
  BY <1>3, <1>4, <1>8, FS_Injection
<1>10. Cardinality(W \union sem) <= Cardinality(Chats)
  BY <1>7, FS_Injection DEF FewChats
<1>11. Cardinality(W) \in Nat /\ Cardinality(Chats) \in Nat /\ Cardinality(sem) \in Nat
  BY <1>3, FS_CardinalityType DEF FewChats
<1>12. Cardinality(W \union sem) = Cardinality(W) + Cardinality(sem)
  <2>1. Cardinality(W \union sem) = Cardinality(W) + Cardinality(sem) - Cardinality(W \intersect sem)
    BY <1>3, FS_Union
  <2>2. Cardinality(W \intersect sem) = 0
    BY <1>5, FS_EmptySet
  <2> QED BY <1>11, <2>1, <2>2
<1>13. n <= Spare
  BY <1>1, <1>2, <1>9, <1>10, <1>11, <1>12 DEF Spare
<1> QED BY <1>13 DEF n

\* The line of waiting workers, and the tokens, as numbers.
LEMMA LineFacts ==
  ASSUME FewChats, Served
  PROVE  /\ Len(semWait) \in Nat
         /\ \A i \in 1..Len(semWait) : semWait[i] \in QueueId /\ worker[semWait[i]] = "waiting"
         /\ \A i \in 1..Len(semWait) : Waited(i) >= 0
         /\ sem = {q \in QueueId : worker[q] \in {"granted", "running"}}
         /\ semWait # <<>> => sem # {} /\ Spare >= 1
<1>1. Len(semWait) \in Nat /\ semWait \in Seq(QueueId)
  BY LenProperties DEF Served, TypeOK
<1>2. /\ sem = {q \in QueueId : worker[q] \in {"granted", "running"}}
      /\ semWait # <<>> => Cardinality(sem) = MaxConcurrent
      /\ {semWait[i] : i \in 1..Len(semWait)} = {q \in QueueId : worker[q] = "waiting"}
  BY DEF Served, IInv, SemInv, SemaphoreAccounting
<1>3. \A i \in 1..Len(semWait) : semWait[i] \in QueueId /\ worker[semWait[i]] = "waiting"
  BY <1>2
<1>4. semWait # <<>> => Len(semWait) <= Spare /\ Len(semWait) >= 1
  BY <1>1, WaitersFit, EmptySeq DEF LineFits
<1>5. Spare \in Int /\ \A i \in Nat : i <= Spare => Waited(i) >= 0
  BY WaitFacts
<1>6. \A i \in 1..Len(semWait) : Waited(i) >= 0
  <2> SUFFICES ASSUME NEW i \in 1..Len(semWait) PROVE Waited(i) >= 0
    OBVIOUS
  <2>1. semWait # <<>>
    BY EmptySeq
  <2> QED BY <1>1, <1>4, <1>5, <2>1
<1>7. semWait # <<>> => sem # {}
  <2> SUFFICES ASSUME semWait # <<>>, sem = {} PROVE FALSE
    OBVIOUS
  <2>1. Cardinality(sem) = 0
    BY FS_EmptySet
  <2> QED BY <1>2, <2>1, QueueAssumption
<1>8. semWait # <<>> => Spare >= 1
  BY <1>1, <1>4, <1>5
<1> QED BY <1>1, <1>2, <1>3, <1>6, <1>7, <1>8

\* The parts of WaitInv, and what a step changes of them.
InLine(i) == \A p \in sem : clock - lastUsed[semWait[i]] <= Waited(i) + (clock - Since(p))

AtWork(q) ==
  /\ lastUsed[q] <= clock
  /\ worker[q] = "granted" => clock - lastUsed[q] <= Longest
  /\ worker[q] = "running" => /\ startedAt[q] <= clock
                              /\ clock <= startedAt[q] + TaskTimeout
                              /\ startedAt[q] - lastUsed[q] <= Longest
  /\ worker[q] = "served" => clock - lastUsed[q] <= Longest + TaskTimeout

LEMMA WaitParts ==
  WaitInv <=> (\A i \in 1..Len(semWait) : InLine(i)) /\ (\A q \in QueueId : AtWork(q))
BY DEF WaitInv, InLine, AtWork

WaitPartsNow ==
  WaitInv <=> (\A i \in 1..Len(semWait) : InLine(i)) /\ (\A q \in QueueId : AtWork(q))

LEMMA WaitPartsAlways == WaitPartsNow
BY WaitParts DEF WaitPartsNow

LEMMA WaitPartsNext == WaitPartsNow'
BY WaitPartsAlways, PTL

FitsNow == FewChats /\ Served => LineFits

LEMMA FitsAlways == FitsNow
BY WaitersFit DEF FitsNow

LEMMA FitsNext == FitsNow'
BY FitsAlways, PTL

\* Every step keeps the waits within their bounds.
LEMMA WaitStep ==
  ASSUME FewChats, Served, Served', WaitInv, [Next]_vars
  PROVE  WaitInv'
<1> DEFINE Goal == (\A i \in 1..Len(semWait) : InLine(i))' /\ (\A q \in QueueId : AtWork(q))'
<1> SUFFICES Goal
  BY WaitPartsNext DEF WaitPartsNow
<1>0. /\ clock \in Nat /\ TaskTimeout \in Nat \ {0} /\ Longest \in Nat
      /\ lastUsed \in [QueueId -> Nat] /\ startedAt \in [QueueId -> Nat]
      /\ worker \in [QueueId -> WorkerState] /\ semWait \in Seq(QueueId)
  <2>1. TypeOK
    BY DEF Served
  <2>2. 0..MaxClock \subseteq Nat
    BY QueueAssumption
  <2>3. /\ lastUsed \in [QueueId -> 0..MaxClock] /\ startedAt \in [QueueId -> 0..MaxClock]
        /\ clock \in 0..MaxClock /\ worker \in [QueueId -> WorkerState] /\ semWait \in Seq(QueueId)
    BY <2>1 DEF TypeOK
  <2> QED BY <2>2, <2>3, WaitFacts
<1>n. clock \in Nat /\ TaskTimeout \in Nat /\ Longest \in Nat
  BY <1>0
<1>1. (\A i \in 1..Len(semWait) : InLine(i)) /\ (\A q \in QueueId : AtWork(q))
  BY WaitParts
<1>2. /\ Len(semWait) \in Nat
      /\ \A i \in 1..Len(semWait) : /\ semWait[i] \in QueueId /\ worker[semWait[i]] = "waiting"
                                    /\ Waited(i) \in Int /\ Waited(i) >= 0
      /\ sem = {q \in QueueId : worker[q] \in {"granted", "running"}}
      /\ semWait # <<>> => sem # {}
  <2>1. /\ Len(semWait) \in Nat
        /\ \A i \in 1..Len(semWait) : semWait[i] \in QueueId /\ worker[semWait[i]] = "waiting"
        /\ \A i \in 1..Len(semWait) : Waited(i) >= 0
        /\ sem = {q \in QueueId : worker[q] \in {"granted", "running"}}
        /\ semWait # <<>> => sem # {}
    BY LineFacts
  <2>2. \A i \in 1..Len(semWait) : Waited(i) \in Int
    BY <2>1, WaitFacts
  <2> QED BY <2>1, <2>2
\* A token has been used for no longer than a task timeout.
<1>3. \A p \in sem : /\ p \in QueueId /\ Since(p) \in Nat /\ Since(p) <= clock
                     /\ clock - Since(p) <= TaskTimeout
  BY <1>0, <1>1, <1>2 DEF AtWork, Since
\* Nothing changes but what AtWork and InLine do not look at.
<1>4. ASSUME UNCHANGED <<clock, lastUsed, worker, startedAt, sem, semWait>> PROVE Goal
  BY <1>1, <1>4 DEF InLine, AtWork, Since
<1>5. ASSUME NEW c \in Chats, Submit(c) PROVE Goal
  <2> DEFINE q == IF chatQueues[c] = None THEN seq + 1 ELSE chatQueues[c]
  <2>1. /\ lastUsed' = [lastUsed EXCEPT ![q] = clock]
        /\ worker' = IF chatQueues[c] = None THEN [worker EXCEPT ![q] = "idle"] ELSE worker
        /\ UNCHANGED <<clock, startedAt, sem, semWait>>
    BY <1>5 DEF Submit, Refreshed
  <2>2. chatQueues[c] = None => worker[q] = "absent"
    <3>1. seq \in Nat /\ q \in QueueId
      BY <1>5 DEF Submit, Served, TypeOK, QueueId
    <3>2. chatQueues[c] = None => q \notin 1..seq
      BY <3>1
    <3> QED BY <3>1, <3>2 DEF Served, IInv, SemInv
  <2> HIDE DEF q
  <2>3. ASSUME NEW p \in QueueId
        PROVE  /\ \/ worker'[p] = worker[p]
                  \/ worker'[p] = "idle" /\ worker[p] = "absent"
               /\ lastUsed'[p] = lastUsed[p] \/ lastUsed'[p] = clock
    <3>1. lastUsed'[p] = lastUsed[p] \/ lastUsed'[p] = clock
      BY <1>0, <2>1
    <3>2. CASE chatQueues[c] = None
      <4>1. worker' = [worker EXCEPT ![q] = "idle"] /\ worker[q] = "absent"
        BY <2>1, <2>2, <3>2
      <4> QED BY <1>0, <3>1, <4>1
    <3>3. CASE chatQueues[c] # None
      BY <2>1, <3>1, <3>3
    <3> QED BY <3>2, <3>3
  <2>4. \A p \in QueueId : AtWork(p)'
    <3> SUFFICES ASSUME NEW p \in QueueId PROVE AtWork(p)'
      OBVIOUS
    <3>1. /\ AtWork(p) /\ lastUsed[p] \in Nat /\ startedAt[p] \in Nat
          /\ UNCHANGED <<clock, startedAt>>
      BY <1>0, <1>1, <2>1
    <3>2. CASE lastUsed'[p] = lastUsed[p]
      BY <2>3, <3>1, <3>2 DEF AtWork
    <3>3. CASE lastUsed'[p] = clock
      BY <1>n, <2>3, <3>1, <3>3 DEF AtWork
    <3> QED BY <2>3, <3>2, <3>3
  <2>5. \A p \in sem : Since(p)' = Since(p)
    BY <1>2, <2>1, <2>3 DEF Since
  <2>6. ASSUME NEW i \in 1..Len(semWait), NEW p \in sem
        PROVE  clock - lastUsed'[semWait[i]] <= Waited(i) + (clock - Since(p))
    <3>1. clock - lastUsed[semWait[i]] <= Waited(i) + (clock - Since(p))
      BY <1>1 DEF InLine
    <3>2. lastUsed[semWait[i]] \in Nat /\ (lastUsed'[semWait[i]] = lastUsed[semWait[i]] \/ lastUsed'[semWait[i]] = clock)
      BY <1>0, <1>2, <2>3
    <3>3. Waited(i) \in Int /\ Waited(i) >= 0 /\ Since(p) \in Nat /\ Since(p) <= clock
      BY <1>2, <1>3
    <3> QED BY <1>0, <3>1, <3>2, <3>3
  <2>7. (\A i \in 1..Len(semWait) : InLine(i))'
    BY <2>1, <2>5, <2>6 DEF InLine
  <2> QED BY <2>4, <2>7
<1>6. ASSUME NEW q \in QueueId, Receive(q) PROVE Goal
  <2>1. /\ UNCHANGED <<clock, lastUsed, startedAt>>
        /\ worker[q] = "idle" /\ \A p \in QueueId \ {q} : worker'[p] = worker[p]
        /\ worker'[q] \in {"granted", "waiting", "served"}
    BY <1>0, <1>6 DEF Receive
  <2>2. lastUsed[q] = clock
    BY <1>6 DEF Receive, Served, IInv, FreshInv
  <2>3. \A p \in QueueId : AtWork(p)'
    BY <1>0, <1>1, <2>1, <2>2 DEF AtWork
  <2>4. \A p \in sem : Since(p)' = Since(p)
    BY <1>2, <2>1 DEF Since
  <2>5. CASE semWait' = semWait /\ sem' = sem
    <3> QED BY <1>1, <2>1, <2>3, <2>4, <2>5 DEF InLine
  <2>6. CASE semWait' = semWait /\ Cardinality(sem) < MaxConcurrent
    <3>1. semWait = <<>>
      BY <2>6, QueueAssumption DEF Served, IInv, SemInv, SemaphoreAccounting
    <3>2. 1..Len(semWait') = {}
      BY <2>6, <3>1, EmptySeq
    <3> QED BY <2>3, <3>2
  <2>7. CASE semWait' = Append(semWait, q) /\ sem' = sem
    <3>1. /\ Len(semWait') = Len(semWait) + 1
          /\ \A i \in 1..Len(semWait) : semWait'[i] = semWait[i]
          /\ semWait'[Len(semWait) + 1] = q
      BY <1>0, <2>7, AppendProperties
    <3>2. \A i \in 1..Len(semWait) : InLine(i)'
      BY <1>1, <2>1, <2>4, <2>7, <3>1 DEF InLine
    <3>3. ASSUME NEW i, i = Len(semWait) + 1 PROVE InLine(i)'
      <4>1. semWait' # <<>>
        BY <1>2, <3>1, EmptySeq
      <4>2. i <= Spare
        BY <3>1, <3>3, <4>1, FitsNext DEF FitsNow, LineFits
      <4>3. Waited(i) \in Int /\ Waited(i) >= 0
        BY <1>2, <3>3, <4>2, WaitFacts
      <4>4. clock - lastUsed'[semWait'[i]] = 0
        BY <1>0, <2>1, <2>2, <3>1, <3>3
      <4>5. \A p \in sem : 0 <= Waited(i) + (clock - Since(p))
        BY <1>0, <1>3, <4>3
      <4> QED BY <2>1, <2>4, <2>7, <4>4, <4>5 DEF InLine
    <3>4. \A i \in 1..Len(semWait') : i \in 1..Len(semWait) \/ i = Len(semWait) + 1
      BY <1>2, <3>1
    <3> QED BY <2>3, <3>2, <3>3, <3>4
  <2> QED BY <1>6, <2>5, <2>6, <2>7 DEF Receive
<1>7. ASSUME NEW q \in QueueId, Start(q) PROVE Goal
  <2>1. /\ worker[q] = "granted" /\ worker'[q] = "running" /\ startedAt'[q] = clock
        /\ \A p \in QueueId \ {q} : worker'[p] = worker[p] /\ startedAt'[p] = startedAt[p]
        /\ UNCHANGED <<clock, lastUsed, sem, semWait>>
    BY <1>0, <1>7 DEF Start, queueVars
  <2>2. \A p \in QueueId : AtWork(p)'
    BY <1>0, <1>1, <2>1 DEF AtWork
  <2>3. \A p \in sem : Since(p)' = Since(p)
    BY <1>2, <2>1 DEF Since
  <2> QED BY <1>1, <2>1, <2>2, <2>3 DEF InLine
<1>8. ASSUME NEW q \in QueueId, Finish(q) PROVE Goal
  <2>1. /\ worker[q] = "running" /\ Release(q)
        /\ startedAt' = [startedAt EXCEPT ![q] = 0]
        /\ UNCHANGED <<clock, lastUsed>>
    BY <1>8 DEF Finish, queueVars
  <2>2. CASE semWait = <<>>
    <3>1. /\ worker'[q] = "served" /\ semWait' = <<>>
          /\ \A p \in QueueId \ {q} : worker'[p] = worker[p] /\ startedAt'[p] = startedAt[p]
      BY <1>0, <2>1, <2>2 DEF Release
    <3>2. \A p \in QueueId : AtWork(p)'
      BY <1>0, <1>1, <2>1, <3>1 DEF AtWork
    <3>3. 1..Len(semWait') = {}
      BY <3>1, EmptySeq
    <3> QED BY <3>2, <3>3
  <2>3. CASE semWait # <<>>
    <3> DEFINE w == Head(semWait)
               n == Len(semWait)
    <3>1. /\ w = semWait[1] /\ n \in Nat /\ 1 \in 1..n
          /\ Len(Tail(semWait)) = n - 1
          /\ \A i \in 1..(n - 1) : Tail(semWait)[i] = semWait[i + 1]
      BY <1>0, <2>3, HeadTailProperties, EmptySeq
    <3>2. w \in QueueId /\ worker[w] = "waiting" /\ w # q
      BY <1>2, <2>1, <3>1
    <3>3. /\ sem' = (sem \ {q}) \union {w}
          /\ worker' = [worker EXCEPT ![q] = "served", ![w] = "granted"]
          /\ semWait' = Tail(semWait)
      BY <2>1, <2>3 DEF Release
    <3>4. /\ worker'[q] = "served" /\ worker'[w] = "granted"
          /\ \A p \in QueueId \ {q, w} : worker'[p] = worker[p]
          /\ \A p \in QueueId \ {q} : startedAt'[p] = startedAt[p]
      BY <1>0, <2>1, <3>2, <3>3
    <3>5. q \in sem
      BY <1>2, <2>1
    \* The worker that is first in the line has not waited longer than the longest wait.
    <3>6. clock - lastUsed[w] <= Longest
      <4>1. clock - lastUsed[w] <= Waited(1) + (clock - Since(q))
        BY <1>1, <3>1, <3>5 DEF InLine
      <4>2. Waited(1) + TaskTimeout = Longest /\ Waited(1) \in Int
        BY <2>3, LineFacts, WaitFacts
      <4> QED BY <1>0, <1>3, <3>2, <3>5, <4>1, <4>2
    <3> HIDE DEF w, n
    <3>7. \A p \in QueueId : AtWork(p)'
      BY <1>0, <1>1, <2>1, <3>2, <3>4, <3>6 DEF AtWork
    <3>8. ASSUME NEW i \in 1..(n - 1) PROVE InLine(i)'
      <4>1. i + 1 \in 1..n /\ i \in 1..n /\ i \in Nat
        BY <3>1
      <4>2. semWait'[i] = semWait[i + 1]
        BY <3>1, <3>3
      <4>3. Waited(i) = Waited(i + 1) + TaskTimeout /\ Waited(i) \in Int /\ Waited(i + 1) \in Int
        BY <4>1, WaitFacts
      <4>4. \A p \in sem : clock - lastUsed[semWait[i + 1]] <= Waited(i + 1) + (clock - Since(p))
        BY <1>1, <4>1 DEF InLine, n
      <4>5. lastUsed[semWait[i + 1]] \in Nat
        BY <1>0, <1>2, <4>1 DEF n
      <4>6. clock - lastUsed[semWait[i + 1]] <= Waited(i)
        <5>1. /\ Since(q) \in Nat /\ clock - Since(q) <= TaskTimeout
              /\ clock - lastUsed[semWait[i + 1]] <= Waited(i + 1) + (clock - Since(q))
          BY <1>3, <3>5, <4>4
        <5> QED BY <1>n, <4>3, <4>5, <5>1
      <4> SUFFICES ASSUME NEW p \in sem'
                   PROVE  clock - lastUsed[semWait[i + 1]] <= Waited(i) + (clock - Since(p)')
        BY <2>1, <4>2 DEF InLine
      <4>7. CASE p = w
        <5>1. Since(p)' = clock
          BY <2>1, <3>4, <4>7 DEF Since
        <5> QED BY <1>0, <4>3, <4>5, <4>6, <5>1
      <4>8. CASE p # w
        <5>1. p \in sem /\ p # q /\ Since(p)' = Since(p)
          BY <1>2, <2>1, <3>3, <3>4, <4>8 DEF Since
        <5>2. Since(p) \in Nat /\ Since(p) <= clock
          BY <1>3, <5>1
        <5> QED BY <1>n, <4>3, <4>5, <4>6, <5>1, <5>2
      <4> QED BY <4>7, <4>8
    <3>9. Len(semWait') = n - 1
      BY <3>1, <3>3
    <3> QED BY <3>7, <3>8, <3>9
  <2> QED BY <2>2, <2>3
<1>9. ASSUME NEW q \in QueueId, GiveUp(q) PROVE Goal
  <2>1. /\ UNCHANGED <<clock, lastUsed, startedAt, sem>>
        /\ worker[q] = "waiting" /\ worker'[q] = "served"
        /\ \A p \in QueueId \ {q} : worker'[p] = worker[p]
    BY <1>0, <1>9 DEF GiveUp, queueVars
  <2>2. PICK k \in 1..Len(semWait) : semWait[k] = q /\ semWait' = RemoveAt(semWait, k)
    BY <1>9 DEF GiveUp
  <2>3. /\ Len(semWait') = Len(semWait) - 1
        /\ \A j \in 1..(Len(semWait) - 1) :
             semWait'[j] = IF j < k THEN semWait[j] ELSE semWait[j + 1]
    BY <1>0, <2>2, RemoveAtElements
  <2>4. \A p \in sem : Since(p)' = Since(p)
    BY <1>2, <2>1 DEF Since
  <2>5. clock - lastUsed[q] <= Longest + TaskTimeout
    <3>1. PICK p \in sem : TRUE
      BY <1>2, <2>2, EmptySeq
    <3>2. clock - lastUsed[q] <= Waited(k) + (clock - Since(p))
      BY <1>1, <2>2 DEF InLine
    <3>3. Waited(k) \in Int /\ Waited(k) <= Longest
      BY <1>2, <2>2, WaitFacts
    <3>4. Since(p) \in Nat /\ clock - Since(p) <= TaskTimeout /\ lastUsed[q] \in Nat
      BY <1>0, <1>3
    <3> DEFINE v == Waited(k)
               u == lastUsed[q]
               r == Since(p)
    <3>5. /\ clock - u <= v + (clock - r) /\ clock - r <= TaskTimeout
          /\ v \in Int /\ v <= Longest /\ u \in Nat /\ r \in Nat
      BY <3>2, <3>3, <3>4
    <3> HIDE DEF v, u, r
    <3>6. clock - u <= Longest + TaskTimeout
      BY <1>n, <3>5
    <3> QED BY <3>6 DEF u
  <2>6. \A p \in QueueId : AtWork(p)'
    BY <1>0, <1>1, <2>1, <2>5 DEF AtWork
  <2>7. ASSUME NEW i \in 1..(Len(semWait) - 1) PROVE InLine(i)'
    <3>1. i \in 1..Len(semWait) /\ i + 1 \in 1..Len(semWait) /\ i \in Nat
      BY <1>2
    <3>2. CASE i < k
      BY <1>1, <2>1, <2>3, <2>4, <3>1, <3>2 DEF InLine
    <3>3. CASE ~(i < k)
      <4>1. Waited(i) = Waited(i + 1) + TaskTimeout /\ Waited(i + 1) \in Int /\ Waited(i) \in Int
        BY <3>1, WaitFacts
      <4>2. semWait'[i] = semWait[i + 1]
        BY <2>3, <3>3
      <4>3. \A p \in sem : clock - lastUsed[semWait[i + 1]] <= Waited(i + 1) + (clock - Since(p))
        BY <1>1, <3>1 DEF InLine
      <4>4. lastUsed[semWait[i + 1]] \in Nat
        BY <1>0, <1>2, <3>1
      <4>5. ASSUME NEW p \in sem
            PROVE  clock - lastUsed[semWait[i + 1]] <= Waited(i) + (clock - Since(p))
        <5>1. /\ clock - lastUsed[semWait[i + 1]] <= Waited(i + 1) + (clock - Since(p))
              /\ Since(p) \in Nat
          BY <1>3, <4>3
        <5> DEFINE v == Waited(i + 1)
                   u == lastUsed[semWait[i + 1]]
        <5>2. Waited(i) = v + TaskTimeout /\ v \in Int /\ u \in Nat
          BY <4>1, <4>4
        <5>3. clock - u <= v + (clock - Since(p))
          BY <5>1
        <5> HIDE DEF v, u
        <5>4. clock - u <= Waited(i) + (clock - Since(p))
          BY <1>n, <5>1, <5>2, <5>3
        <5> QED BY <5>4 DEF u
      <4> QED BY <2>1, <2>4, <4>2, <4>5 DEF InLine
    <3> QED BY <3>2, <3>3
  <2> QED BY <2>3, <2>6, <2>7
<1>10. ASSUME NEW q \in QueueId, Touch(q) \/ Exit(q) PROVE Goal
  <2>1. /\ UNCHANGED <<clock, startedAt, sem, semWait>>
        /\ worker[q] \in {"served", "idle"} /\ worker'[q] \in {"idle", "exited"}
        /\ \A p \in QueueId \ {q} : worker'[p] = worker[p] /\ lastUsed'[p] = lastUsed[p]
        /\ \/ lastUsed'[q] = lastUsed[q]
           \/ lastUsed'[q] = clock
    BY <1>0, <1>10 DEF Touch, Exit, Refreshed, queueVars
  <2>2. \A p \in QueueId : AtWork(p)'
    BY <1>0, <1>1, <2>1 DEF AtWork
  <2>3. \A p \in sem : Since(p)' = Since(p)
    BY <1>2, <2>1 DEF Since
  <2>4. \A i \in 1..Len(semWait) : semWait[i] # q
    BY <1>2, <2>1
  <2>5. \A i \in 1..Len(semWait) : lastUsed'[semWait[i]] = lastUsed[semWait[i]]
    BY <1>2, <2>1, <2>4
  <2>6. (\A i \in 1..Len(semWait) : InLine(i))'
    BY <1>1, <2>1, <2>3, <2>5 DEF InLine
  <2> QED BY <2>2, <2>6
<1>11. CASE Tick
  <2>1. /\ clock' = clock + 1 /\ UNCHANGED <<lastUsed, worker, startedAt, sem, semWait>>
        /\ \A q \in QueueId : /\ worker[q] \notin {"granted", "served"}
                              /\ worker[q] = "running" => clock < startedAt[q] + TaskTimeout
    BY <1>11 DEF Tick, Settled, queueVars, workerVars
  <2>2. \A p \in QueueId : AtWork(p)'
    BY <1>0, <1>1, <2>1 DEF AtWork
  <2>3. \A p \in sem : Since(p)' = Since(p)
    BY <1>2, <2>1 DEF Since
  <2>4. ASSUME NEW i \in 1..Len(semWait), NEW p \in sem
        PROVE  clock + 1 - lastUsed[semWait[i]] <= Waited(i) + (clock + 1 - Since(p))
    <3>1. clock - lastUsed[semWait[i]] <= Waited(i) + (clock - Since(p))
      BY <1>1 DEF InLine
    <3>2. lastUsed[semWait[i]] \in Nat /\ Since(p) \in Nat /\ Waited(i) \in Int
      BY <1>0, <1>2, <1>3
    <3> DEFINE v == Waited(i)
               u == lastUsed[semWait[i]]
               r == Since(p)
    <3>3. clock - u <= v + (clock - r) /\ v \in Int /\ u \in Nat /\ r \in Nat
      BY <3>1, <3>2
    <3> HIDE DEF v, u, r
    <3>4. clock + 1 - u <= v + (clock + 1 - r)
      BY <1>n, <3>3
    <3> QED BY <3>4 DEF v, u, r
  <2>5. ASSUME NEW i \in 1..Len(semWait) PROVE InLine(i)'
    <3> SUFFICES ASSUME NEW p \in sem
                 PROVE  clock' - lastUsed'[semWait'[i]] <= Waited(i) + (clock' - Since(p)')
      BY <2>1 DEF InLine
    <3>1. clock + 1 - lastUsed[semWait[i]] <= Waited(i) + (clock + 1 - Since(p))
      BY <2>4
    <3>2. clock' = clock + 1 /\ lastUsed'[semWait'[i]] = lastUsed[semWait[i]] /\ Since(p)' = Since(p)
      BY <2>1, <2>3
    <3>3. lastUsed[semWait[i]] \in Nat /\ Since(p) \in Nat /\ Waited(i) \in Int
      BY <1>0, <1>2, <1>3
    <3> DEFINE v == Waited(i)
               u == lastUsed[semWait[i]]
               r == Since(p)
               un == lastUsed'[semWait'[i]]
               rn == Since(p)'
    <3>4. /\ clock + 1 - u <= v + (clock + 1 - r) /\ v \in Int /\ u \in Nat /\ r \in Nat
          /\ clock' = clock + 1 /\ un = u /\ rn = r
      BY <3>1, <3>2, <3>3
    <3> HIDE DEF v, u, r, un, rn
    <3>5. clock' - un <= v + (clock' - rn)
      BY <1>n, <3>4
    <3> QED BY <3>5 DEF v, un, rn
  <2> QED BY <2>1, <2>2, <2>5
<1>12. ASSUME NEW q \in QueueId, WorkerStep(q) PROVE Goal
  BY <1>6, <1>7, <1>8, <1>9, <1>10, <1>12 DEF WorkerStep
<1>13. ASSUME Send \/ CleanupIdleQueues \/ PruneOldTasks \/ Stop \/ UNCHANGED vars PROVE Goal
  <2>1. UNCHANGED <<clock, lastUsed, worker, startedAt, sem, semWait>>
    BY <1>13 DEF Send, CleanupIdleQueues, PruneOldTasks, Stop, queueVars, workerVars, vars
  <2> QED BY <1>4, <2>1
<1> HIDE DEF Goal
<1> QED BY <1>5, <1>11, <1>12, <1>13 DEF Next, AtRest

\* With few chats, a channel the janitor closes is one whose worker is idle: a worker that is
\* busy has used its channel within the longest wait for a token and one task.
LEMMA OldChannelsAreSpare ==
  ASSUME FewChats, Served, WaitInv, [Next]_vars
  PROVE  SparesBusy
<1>1. ASSUME CleanupIdleQueues PROVE SparesBusy
  <2> SUFFICES ASSUME NEW q \in closed' \ closed, worker[q] \in Busy
               PROVE  FALSE
    BY DEF SparesBusy
  <2>1. PICK c \in Reclaimable : q = chatQueues[c]
    BY <1>1 DEF CleanupIdleQueues
  <2>2. q \in QueueId /\ clock - lastUsed[q] > IdleTimeout
    <3>1. chatQueues[c] \in QueueId
      BY <2>1 DEF Reclaimable, Served, TypeOK
    <3> QED BY <2>1, <3>1 DEF Reclaimable, IdleTooLong
  <2>3. clock \in Nat /\ lastUsed[q] \in Nat /\ startedAt[q] \in Nat
    BY <2>2, QueueAssumption DEF Served, TypeOK
  <2>4. /\ Longest \in Nat /\ TaskTimeout \in Nat \ {0}
        /\ Longest + TaskTimeout <= IdleTimeout /\ IdleTimeout \in Nat
    BY WaitFacts, QueueAssumption
  <2>5. CASE worker[q] = "waiting"
    <3>1. PICK i \in 1..Len(semWait) : semWait[i] = q
      <4>1. {semWait[i] : i \in 1..Len(semWait)} = {p \in QueueId : worker[p] = "waiting"}
        BY DEF Served, IInv, SemInv, SemaphoreAccounting
      <4>2. q \in {p \in QueueId : worker[p] = "waiting"}
        BY <2>2, <2>5
      <4>3. q \in {semWait[i] : i \in 1..Len(semWait)}
        BY <4>1, <4>2
      <4> QED BY <4>3
    <3>2. semWait # <<>> /\ i \in Nat
      BY <3>1, EmptySeq, LineFacts
    <3>3. PICK p \in sem : TRUE
      BY <3>2, LineFacts
    <3>4. p \in QueueId /\ worker[p] \in {"granted", "running"}
      BY <3>3, LineFacts
    <3>5. clock - lastUsed[q] <= Waited(i) + (clock - Since(p))
      BY <3>1, <3>3 DEF WaitInv
    <3>6. Since(p) \in Nat /\ clock - Since(p) <= TaskTimeout
      <4>1. startedAt[p] \in Nat
        BY <3>4, QueueAssumption DEF Served, TypeOK
      <4>2. worker[p] = "running" => clock <= startedAt[p] + TaskTimeout
        BY <3>4 DEF WaitInv
      <4> QED BY <2>3, <2>4, <4>1, <4>2 DEF Since
    <3>7. Waited(i) \in Int /\ Waited(i) <= Longest
      BY <3>2, WaitFacts
    <3> QED BY <2>2, <2>3, <2>4, <3>5, <3>6, <3>7
  <2>6. CASE worker[q] = "granted"
    <3>1. clock - lastUsed[q] <= Longest
      BY <2>2, <2>6 DEF WaitInv
    <3> QED BY <2>2, <2>3, <2>4, <3>1
  <2>7. CASE worker[q] = "running"
    <3>1. clock <= startedAt[q] + TaskTimeout /\ startedAt[q] - lastUsed[q] <= Longest
      BY <2>2, <2>7 DEF WaitInv
    <3> QED BY <2>2, <2>3, <2>4, <3>1
  <2>8. CASE worker[q] = "served"
    <3>1. clock - lastUsed[q] <= Longest + TaskTimeout
      BY <2>2, <2>8 DEF WaitInv
    <3> QED BY <2>2, <2>3, <2>4, <3>1
  <2> QED BY <2>5, <2>6, <2>7, <2>8 DEF Busy
<1>2. ASSUME closed' = closed PROVE SparesBusy
  BY <1>2 DEF SparesBusy
<1> QED
  BY <1>1, <1>2 DEF Next, WorkerStep, Submit, Send, Receive, Start, Finish, GiveUp, Touch, Exit,
      PruneOldTasks, Stop, Tick, AtRest, queueVars, vars

LEMMA WaitInit == Init => WaitInv
<1> SUFFICES ASSUME Init PROVE WaitInv
  OBVIOUS
<1>1. \A q \in QueueId : lastUsed[q] = 0 /\ clock = 0 /\ worker[q] = "absent"
  BY DEF Init
<1>2. Len(semWait) = 0
  BY EmptySeq DEF Init
<1> QED BY <1>1, <1>2 DEF WaitInv

\* What few chats are enough for, in every state and at every step.
LEMMA FewChatsServed ==
  ASSUME FewChats
  PROVE  Spec => [](Served /\ WaitInv) /\ [][SparesBusy]_vars
<1>1. Init => IInv /\ PlacesInv /\ WaitInv
  BY IInvInit, PlacesInit, WaitInit
<1>2. TypeOK /\ IInv /\ PlacesInv /\ WaitInv => Served
  BY DEF Served
<1>3. Served /\ WaitInv /\ [Next]_vars => [SparesBusy]_vars /\ IInv' /\ PlacesInv'
  <2> SUFFICES ASSUME Served, WaitInv, [Next]_vars PROVE SparesBusy /\ IInv' /\ PlacesInv'
    OBVIOUS
  <2>1. SparesBusy
    BY OldChannelsAreSpare
  <2>2. TypeOK /\ IInv /\ PlacesInv /\ SemInv
    BY DEF Served, IInv
  <2> QED BY <2>1, <2>2, IInvStep, PlacesStep
<1>4. Served /\ Served' /\ WaitInv /\ [Next]_vars => WaitInv'
  BY WaitStep
<1> QED
  BY <1>1, <1>2, <1>3, <1>4, TypeCorrect, PTL DEF Spec, Served

\* The tasks of a chat run one after the other whenever the janitor's patience outlasts the
\* longest wait for a token and the task that follows: with n chats and m tokens, when
\* (n - m + 1) * taskTimeout <= idleTimeout, or taskTimeout <= idleTimeout when n <= m.
\* Nothing is assumed of what the queue does.
THEOREM SerialWithFewChats ==
  ASSUME FewChats
  PROVE  Spec => []PerChatSerial
BY FewChatsServed, SerialIfJanitorSparesBusy, PTL

\* Under the same condition on the configuration the queue is the service that ChatService
\* describes: per chat a line of tasks, served one at a time and in order.
THEOREM ServesWithFewChats ==
  ASSUME FewChats
  PROVE  Spec => ImplementsService
BY FewChatsServed, ServesIfJanitorSparesBusy, PTL
=============================================================================
