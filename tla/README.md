# TLA+ models of fluctio

fluctio is a self-hosted gateway for LLM agents: chat channels, a dashboard, cron jobs and webhooks feed messages to
agents, which run tool-calling turns over sessions kept in a database.  Several gateway processes ("replicas") may share
one database, with or without Redis.  This directory holds TLA+ modules of the parts of the gateway whose correctness
depends on interleavings, crashes, timers and shared rows; TLC configurations that check them on small instances; and
theorems about them with proofs for TLAPS.  All paths below are relative to the repository.

    tlc -workers 2 -config MCTaskQueue.cfg MCTaskQueue     # one run
    tlapm TaskQueueProofs.tla                              # one module of proofs

## 1. The system

### Components, state, operations

| component | state | operations | hard behaviour | what makes it correct |
|---|---|---|---|---|
| task queue `internal/taskqueue` | task table, one channel and goroutine per chat, counting semaphore | Submit, worker loop, janitor, pruning, Stop | lock released before the channel send; janitor against a busy worker; semaphore against Stop | one handler per chat, submission order, no task lost, no panic, no token lost |
| channel lease `internal/channels/lease.go`, `internal/rediscoord`, `internal/store` | lease row (holder, expiry), one gate goroutine per channel and replica | Acquire, Renew, Release, sleep | replica crash, failed calls, slow adapter stop, shutdown races | one adapter per account, takeover after a crash |
| cron scheduler `internal/cron` | `cron_jobs` rows (next run, lock, failures), one polling loop per replica | create, edit, delete, poll, lock, fire, reschedule, give up, sleep | replicas share the table; blocking bus; lock expiry; best-effort updates; edits that overwrite | every occurrence fired once and on time; given up only after real misses |
| message bus `internal/bus` | bounded Inbound/Outbound channels, Redis streams and a pub/sub bridge | publish, consume, acknowledge | full channels, crash between hand-over and acknowledgement | no message lost or handled twice |
| inbound routing `internal/gateway/routing.go`, `dedup.go` | recently seen message ids | processInbound, dispatch | single consumer blocks on a full chat channel | every message is submitted once |
| sessions `internal/session` | working set per session, steer buffer, turn depth; archive and snapshot rows | Get, Append, BeginTurn, TryBeginTurn, EndTurn, PushSteer, DrainSteer, ReplaceMessages, healing | turns of one session overlap; cached session re-read while a turn appends; restart in a turn | tool calls always answered, no user message lost |
| agent loop `internal/agent/loop.go` | the turn in progress | user append, compaction, ReAct rounds, steering, finish | two writers of one history; failure retries against live turns | the session protocol is respected on every exit |
| user spaces `internal/gateway/userspace.go` | loaded spaces, last use | getOrLoad, invalidate, evictIdle | eviction while a turn runs makes a second Session object | one live Session per conversation |
| workflow engine `internal/workflow`, `internal/store/workflow.go` | run record, node rows, pending form; per Service object a mutex or in-flight slot for each workflow | Run, Resume, executeStep, Acquire, finalise, reapers, deletion | crash between node and row, two resumes, a reload while runs walk, cancellation between nodes, reaper against a slow run | one live walk per Service; a non-idempotent node not repeated; a waiting run can be answered; a run ends |
| workflow schedules `internal/gateway/workflow_scheduler.go` | schedule rows with locks | poll, lock, run | as the cron scheduler | as the cron scheduler |
| sandbox pool `internal/sandbox/lifecycle.go`, `e2b_executor.go` | executors, last use, the file system at the provider, the workspace store | Get, Exec, recreate, hydrate, snapshot, mirror, evictIdle, Release, CloseAll | eviction, moves and reloads against calls; two calls replacing a lost sandbox; snapshots put late | no closed executor in the pool; what a call wrote survives the sandbox |
| failure sweep `internal/gateway/gateway_failure_sweep.go` | failed-call rows, the cache of settled sessions, notice claims | pass, analysis of a history, replay, judge, claim, deliver | history rewritten between analysis and replay; claim before delivery; refused calls that leave no row; restarts | replays capped and safe, one notice per outcome, no failed request forgotten |
| quota breaker `internal/agent/quota_breaker.go` | open, probe time, streak per agent | gate, trip, clear | calls of several sessions trip, probe and clear it | a success clears; a refused call is retried |
| the rest | | | CRUD, HTTP, LLM and subprocess clients, text pipelines | not modelled, see section 8 |

### Interaction

Channel adapters (each behind a lease gate), cron schedulers, webhooks and failure retries push messages on
`bus.Inbound`, a Go channel of 100 that blocks its producers.  One goroutine, `processInbound`, takes them off, routes
them and calls `Queue.Submit`; the worker of the chat runs the agent's turn, which reads and writes the session and
pushes the answer on `bus.Outbound`.  The dashboard starts turns without the task queue.  Replicas meet only in the
database and in Redis: lease rows, cron and schedule rows, sessions, workflow runs.

## 2. Plan

Order, most important behaviour first; the state is given in brackets.

1. `ChatService`, `TaskQueue`, `TaskQueueProofs`: the abstract per-chat service, the queue that implements it, theorems
   [done].
2. `ChannelLease`, `ChannelLeaseProofs`: the cross-replica singleton, theorems [done].
3. `CronScheduler`, `CronSchedulerProofs`: schedulers, table, users' edits, theorems [done].
4. `SessionTurn`, `SessionTurnProofs`: turn claim, steering, orphan tool calls, healing, theorems [done]; then
   compaction and rollback (`ReplaceMessages` with an older snapshot), parked authorizations, and the composition with
   the user-space registry (a second Session object of one conversation).
5. `FailureSweep` with the quota breaker, `FailureSweepProofs` [done].
6. `SandboxPool`, `SandboxPoolProofs`: the cloud backend [done]; the container backend with its hydration flag would be
   a second instance of the lifecycle half.
7. `WorkflowRun`, `WorkflowRunProofs`: one run under each concurrency policy [done]; several runs of one workflow, so that
   `serial` is contended by runs as well as by resumes, and schedules over the lock protocol of `CronScheduler`.
8. `RedisBus` with inbound deduplication, composed with `TaskQueue`: delivery across a crash [open].
9. `CronMatch`, `WhenExpr`: pure evaluators against reference definitions over bounded inputs [open].

Theorems: every invariant, action property and refinement that a passing run checks is proved for all values of the
constants (section 6).  Worth proving next: what the steps above that are still open will promise, and that under
`cancel_previous` a canceled walker makes no call after the node it is in.

## 3. Modules and how they correspond to the code

Time is a number of ticks.  In the first three models a step of a goroutine that is due is *prompt*: the clock does not
advance while one is enabled, so only waits the code really has (timers, a handler, a full channel, the semaphore) take
time.  Without this a lease could expire between any two lines, and no lease protocol is safe: what is assumed of a
deployment is that pauses of a process are short compared with the timeouts.  `SessionTurn` has no clock.  In
`FailureSweep` a tick is a sweep period, and only LLM calls last that long, for `CallTime` of them at most; in `SandboxPool` only commands last as long as
the idle time; in `WorkflowRun` time passes freely.  Except in `TaskQueue` and `CronScheduler`, time is kept as ages and
remaining waits that saturate where no guard tells further values apart, so that no horizon is needed.

**`ChatService`** is what the callers of the queue rely on, with no channel, goroutine or clock: tasks numbered by
arrival, a line per chat, service from the head of the line, one at a time per chat and `MaxServing` over all.

**`TaskQueue`** follows `internal/taskqueue/queue.go`.  `Submit` is the critical section (93-136) and `Send` the channel
send after it (138): the gap between them is where the janitor could strike.  There is one submitter, because
`processInbound` is the only caller, and `Gateway.Start` calls `Stop` after that goroutine is gone.  A worker goes
through `Receive` (the select of `processChatQueue` and that of `executeTask`), `Start`, `Finish` with the deferred
token release, `Touch`, and `Exit`; `GiveUp` is the `ctx.Done` case of the semaphore select.  The semaphore is the set of
token holders and a FIFO of blocked workers, as Go serves blocked senders in order.  Channels are named by the task whose
Submit made them, so a reclaimed chat that comes back has a new channel while the old one still exists.
`CleanupIdleQueues` is one pass of the janitor and `PruneOldTasks` one pass of the pruning; the tick interval of the
janitor is left free.  A handler returns by its deadline (`context.WithTimeout`).

**`ChannelLease`** follows `runWithLease`, `renewUntilLost` and `sleepOrDone` for one (channel, account), and the three
statements of the lease row: `Acquire`, `Renew`, `Release`, on SQL (one UPSERT or DELETE each) and on Redis (SETNX and
scripts).  The backends differ in one thing the model keeps: Redis forgets an expired key, SQL lets its holder renew an
expired row that nobody has taken (`Holds`).  A call may fail with or without having taken effect.  A `drain` is the wait
for the adapter after a shutdown, a `drop` the one after a lost lease; an adapter needs up to `StopTime` to return.  Time
is kept as time left, so the state space is finite without a horizon.  `HostOf` gives the replica of a gate: gates of one
replica present one holder id, and the dashboard can register the same channel twice.

**`CronScheduler`** follows `pollStore` and `processDueJobs` with each database call a step of its own, over rows that
keep `enabled`, `next_run`, `failures` and `locked_at`.  A round reads the due list (`Poll`), then for each job in order
locks it (`Take`), checks its channel (`Reach` or `Miss`, then `Drop`), pushes on the bus (`Push`, blocked while full)
and writes the row (`Update`); `Plan` is the sleep computation and `Wake` the timer or the notification.  Users create,
edit and delete jobs; an edit is a read and a later whole-row write, as in the PATCH handler and the CLI.  History
variables remember what fired (`fired`, `doubled`), the excusing events (`mishap`), the misses since the last fire, and
how long a job has been due while the scheduler could act (`late`).

**`SessionTurn`** follows one conversation: the `Session` object of `internal/session/manager.go`, its saved row, and what
`HandleMessage`, `handlePlanMode` and `handleRegexHookReply` of `internal/agent/loop.go` do to it.  Every actor (a turn, or
a message beside the turns) first goes through `Manager.Get`: `Fetch` and `Install` for a loaded session, which read the
row and assign it without the session's lock in between, `Load` for one that is not loaded, with its healing.  A turn
takes the claim (`BeginTurn`, or `TryBeginTurn` for a replay), appends its message, and then answers with text, asks for
tools, runs into the loop detector, fails, is cancelled or runs out of iterations; each way out goes through the deferred
`ScanOrphans`, `MarkAborted` and `EndTurn`.  Messages appended one by one are in `todo`, so another actor may append between
two of them, and the process may die there.  A message is steered (`PushSteer`) or noted (`Inject`).  Contents are abstracted: a
tool message keeps the call it claims to answer and the one its content comes from, `text` stands for answers, warnings
and notices.  History variables: `lost` (steers dropped by a crash, by a `Get` that put another history in place, or by a
regex hook), `reloaded` (there was such a `Get`), `overlapped`.

**`FailureSweep`** follows `sweepFailures` and what it calls (`handleFailureSession`, `analyzeFailureChain`,
`replayFailedTurn`, `claimFailureNotice`, `deliverSweepNudge`), the turns it watches, and the quota breaker of their agent.
A history is the list of entries since the user's last message: the chain analysis looks no further back, and everything
the sweep knows (how often a request was replayed, whether tools ran) it reads off that list.  A session has a set of turns
of its user (`UserTurns`) and the one of a replay (`Sweeper`).  A turn stores its message, asks for a call, is refused or
calls, and ends with an answer, a notice, a round of tools, or the user's stop; a steer starts the history over in the middle of a
turn (`SteeredOn`).  A user's turn begins whatever is in flight, as `BeginTurn` does, so it may overlap a replay and both
write the one history; only the replay asks first (`StartReplay`, `TryBeginTurn`).  A pass lists the rows of the window
(`StartPass`), then takes session by session: settle, wait, notify, or replay (`HandleSession`, the analysis and the probe of
`TurnInFlight` in one step); a replay claims the session some time after the analysis, so the user may come first.
`ClaimNotice` and `DeliverNotice` are the two halves of a notice, with the settings row in which claims survive a restart.
`newer` holds the sessions that failed again since the pass read its list, for the cache compares row ids.  `Crash` is the
restart, which also writes the abort marker that healing leaves in a history.  `ran` and the sweep's copy of it are history
variables: a tool has run for the request, independently of what the notices in the history say.

**`SandboxPool`** follows the lazy executor of `lifecycle.go` over the E2B pool of `e2b_executor.go`, for one chat.  The
workspace is one file with numbered contents, so that "an older content replaced a newer one" is a comparison of
numbers.  A tool call takes the executor (`Get`, which may create and hydrate one), runs (`Finish`: it writes a new content or
none, and ends well or badly), and syncs: a command by snapshot and put, however it ended, a write by mirroring its bytes.  A
snapshot, a put and a mirror may fail in a live sandbox, which is logged and not reported: the call has been answered, so it is
acknowledged.  A sandbox that answers 404 or 502 is replaced once (`Recreate`, `Hydrate`), and a hydration that
fails leaves the executor with the new sandbox, hydrated or not.  An eviction whose snapshot fails goes on.  The other
actors are the eviction loop (`PickIdle`, flush, `Remove`, `Close`), the release of a moved chat (`MoveChat`), the reload of
the settings (`CloseAll`), and the provider (`Expire`).  An executor is named by the sandbox it was created with, and `at`
gives the one it has now.  `excused` is a history variable: the newest content that one of the mishaps listed at
`AckedIsStored` may have lost.

**`WorkflowRun`** follows one run: the trigger or the resumes that walk it (each a *walker*), its record and the newest
row of each node, the policy that lets walkers in (`Acquire`), and the sweeps that give a run up.  The mutex and the
in-flight slot of the policy are those of the `Service` object that serves a request (`svc`): every replica has its own, and
saving or deleting a definition gives the agent a new one (`ReloadWorkflows`) while walks that the old one let in go on.  So
the model has a set of Services, and `split` remembers that a walk began while another Service had one going.  A walk reads the rows
once (`Load`), starts over at the entry, skips what succeeded, refuses to repeat a failed node that is not idempotent,
calls a node (`Invoke`) and appends its row after (`Record`); a form parks the run in two statements (`Form`, `Park`).
A form that nobody can be asked for (a run
without owner) fails instead.  Resuming marks the run as running without looking at its status again (`Open`).  What a node does is arbitrary; edges are
plain, chosen by a model, or conditions on a variable that only a `set` node of the same walk has written.  `calls` counts
the calls of a node whose outcome is, or will be, on record: a crash between call and row takes its call off, since no
later walk can know of it.  Nodes are numbered in a topological order, as `Validate` refuses a cycle.

`*Proofs` modules hold the theorems of section 6.  `MC*` modules only name model values, small sets and symmetry.

## 4. Runs

| run | instance | shows |
|---|---|---|
| `task_queue` (MCTaskQueue.cfg) | 3 chats, 2 tokens, idle timeout longer than task timeout plus token wait | types; `PerChatSerial`; `SemaphoreAccounting`; `NoSendOnClosed`; `ImplementsService`: the queue implements `ChatService` under the mapping at the end of `TaskQueue` |
| `task_queue_live` | 2 chats, 1 token | `EveryTaskServed` under fairness; `LiveTasksAccounted`: a task that is not finished is in exactly one place and still in the table |
| `task_queue_defaults` (violation) | idle timeout below task timeout, as the gateway's defaults | `PerChatSerial` fails, see section 7 |
| `channel_lease` | 3 replicas, TTL 3, renewal and retry 1, stop 1, 3 failed calls, both backends | types; `OnePoller`; `OutageBounded`; `SomeonePolls`; `EvictedStops` |
| `cron_replicas` | 2 schedulers, 1 cron job through a channel, 1 fault | types; `FiredOnce`; `GivenUpWhenMissed` |
| `cron_timely` | 1 scheduler, a `once` and an interval job, 1 crash, 1 failed call | `OnTime`: a due job is handled at once, and at most a lock TTL per crash or failed call later |
| `session_turns` | 2 turns that may overlap, 1 message steered or noted, no fault | types; `SteersHaveATaker`; `SteersKept`; `CallsAnswered`; `OneMarker` |
| `session_faults` | 1 turn with up to 2 tool calls per answer, 2 messages, 2 faults | `CallsAnswered` and `OneMarker` across crashes, also during healing; `SteersFolded` under fairness |
| `session_mispaired` (violation) | 1 turn with 2 tool calls, no fault | `ResultsMatchCalls` fails |
| `failure_sweep` | 1 session, 1 turn of its user that may overlap a replay, 2 replays waited for 1 and 2 ticks, a window of 4, 1 fault, the breaker shared with other calls | types; `CapKept`; `ReplaySafe`; `ToldOnce`; `NoStall`: a failed request is replayed until it is answered, superseded, or given up with a notice |
| `sandbox_pool` | 2 calls at once, 2 sandboxes, 2 contents, 1 fault | types; `OpenWhenHeld`; `AckedIsStored`; `Evicted`: an unused sandbox goes in the end |
| `workflow_runs` | a trigger and 2 resumes; a graph with a routed choice, a form, a variable and a join; `serial` with one Service, another one after a reload, or one per replica; `cancel_previous` with one Service; 1 fault | types; `OnceOnly`; `OneLive`; `WaitingAsks`; `SuccessIsWhole`; `Settles`: no run stays running or waiting for ever |

`OnePoller` is conditional on `Punctual`, (errors + 1) * RenewEvery + StopTime <= TTL: with 30 s and 10 s the code
tolerates one failed renewal and an adapter that stops in 10 s.  The run includes more failures than that: then the
property claims nothing about pollers, and `EvictedStops` and `OutageBounded` still hold.
`OutageBound` is (TTL + RetryEvery) * (1 + MaxErrors): a failed Acquire that took effect gives the row to a replica that
may die at once.

`FiredOnce` says that an occurrence fires twice only for a job that met one of three events: a lock taken over because it
was old, a lock taken with a due list that had become stale, or an edit that wrote an old row back.  The second event
needs no fault: two replicas read the same due list, one fires and reschedules, the other then locks the row again,
because the lock statement does not compare `next_run`.  The property shows there is no fourth way; failed calls and
crashes are covered because the lock they leave must expire first.

`SteersKept` says where an accepted steer is, and names the three events that may drop it.  Two of them are known
weaknesses rather than faults: `Get` may put an older row in place of a working set that a running turn has just extended,
and a regex hook that happens to be the last turn to end ignores the leftovers `EndTurn` gives it.  `CallsAnswered` is
about histories of turns that did not overlap: two overlapping turns pad each other's open calls, which then get two
results.

`ReplaySafe` is about the moment a replay is stored, long after its history was judged: no tool has run until then for the
request the sweep judged, in whatever turn.  It does not go by the notices of the history, which the sweep reads, but by `ran`,
which is kept beside it.  A message of the user or a steer in between is another request: what tools run for that one is not
counted, and the sweep judges it anew on a later pass.  `ToldOnce` excuses one thing, a claim that a failed write kept
out of the settings row and a crash then lost.  `NoStall` speaks of requests whose first call failed; one whose very first
call is refused leaves no row to be found by.  It also needs that the faults fit the window: each session that cannot be
loaded costs a sweep period, and with two such faults and the window of 4 of the run a request is forgotten.  The code's
window is 6 hours against a ladder of 105 minutes (`gateway_failure_sweep.go:195`).

`AckedIsStored` says that what an acknowledged call has written is in the store, or a newer content is, and lists what may
have lost it, each excuse reaching no further than what had been written by then:

- its sandbox went, was replaced while live (a 404 for a missing file does that), or was hydrated over, after a command had
  ended in it and before its snapshot was taken;
- the snapshot after the command, its put, or the mirror of a write failed;
- a snapshot or a mirror was put over a newer content.  The snapshot may be one of a command or of an eviction: an eviction that
  finds a sandbox holding an older file than the store writes it back, even if nobody uses that sandbox;
- a snapshot had the size of the older content in the store and was taken for the same file.

The run shows that nothing else loses it.  In particular the end of a sandbox, by an eviction, a move, a reload or the provider, is
harmless to calls that have returned.

`OnceOnly`, `WaitingAsks` and `SuccessIsWhole` are about `serial` as long as no walk begins while another Service has
one going (`Serial`): under the other two policies, and between two Services, overlapping walks do break them, see
section 7.  `OneLive` is what both `serial` and `cancel_previous` promise within one Service, and it does hold at every step.

## 5. Bounds and fairness

Every bound is a CONSTANT, named as such in its comment.  Task queue: three or four tasks over two or three chats are enough for a chat
that is reclaimed and comes back while another holds a token, and a channel of capacity 1 makes the submitter block.
Lease: three replicas, so that a takeover can itself be contended; the errors exceed what the TTL tolerates.  Cron: the
horizon covers two lock TTLs and a restart, and a bus of one message makes `Push` block; crashes, failed calls and edits
are bounded together by `MaxFaults`, since the product of all three is out of reach with two schedulers.
Session: with two turns, a third adds no new pair of overlapping steps; faults are explored with one turn, two messages
and answers with two calls, since both together are out of reach.  One iteration is followed by the forced final answer,
so a turn has a round of tools, a drain and an answer.
Failure sweep: one session is enough, since sessions meet only in the breaker (its other calls are `OtherCallEnds`) and in
the order of a pass; two replays are the first number for which the backoff doubles, and the window is longer than both
waits together.  Steers, and turns of the user that begin over another, are counted with the faults, to bound how often a
turn starts over.  A call ends within `CallTime`: the provider's clients bound the wait for headers and for the first token
(`loop.go:1124`), and a stream that has begun is taken to end.  With two faults the safety properties were checked by hand
(6.5 million states); `NoStall` fails there, for the reason given in section 4.  Sandbox: two sandboxes are one that
ends, or is replaced, and one that follows; two contents tell an older from a newer one.  By hand, the safety properties
were checked with three sandboxes (4 million states up to symmetry).  Workflow: three walkers let two resumes race with the
trigger; the graph has one node of each kind, a choice, a join, and a path on which a variable is set before it is
read.  Two Services are enough for a walk to split from another; `cancel_previous` with several is left to the proof.  `allow` has no property but types and termination and is left out of the run.
Symmetry is used in runs without liveness properties and over interchangeable values only (schedulers, chats, turns).

Deadlock is checked in every run but two.  The queue has an explicit `AtRest` step after Stop, and a cron model at its horizon
has `Restart`, `Consume` or adapter changes left; `SessionTurn` has an `AtRest` step once every actor is done.  The two
exceptions are `sandbox_pool` and `workflow_runs`, where the system really stops: a closed pool with no calls has nothing
left to do once the provider's sandboxes are used up, and neither has a run that is settled, old, and out of walkers.

Fairness: `TaskQueue` assumes weak fairness of the submitter's send and of each worker: goroutines that can run do run
and a handler returns by its deadline.  No fairness is assumed of the janitor, of pruning, of Stop or of callers.
`ChannelLease` assumes weak fairness of time and of each gate (not of crashes, failures, registrations or adapters that
end on their own).  `SessionTurn` assumes it of each turn and of a `Get` that has read its row: model calls and tools end
(they have timeouts and can be cancelled).  `FailureSweep` assumes it of the sweep's goroutine, of time and of each turn (an LLM call returns);
`SandboxPool` of the eviction loop and of time, not of the calls; `WorkflowRun` of the walkers together, of the hourly sweep
and of time: nobody has to trigger or resume, and no single walker has to get on.  `CronScheduler` states no fairness: its timing property `OnTime` is a safety property over `late`.

## 6. Proofs

`TaskQueueProofs` (for every set of chats, bound and timeout):

- `TypeCorrect`: `TypeOK`, by `TypeOK /\ [Next]_vars => TypeOK'`.
- `SendNeverPanics`: `NoSendOnClosed`.  The invariant relates the clock to `lastUsed`: the Submit that is between unlock
  and send has refreshed its channel, and while the send can proceed the clock stands still; while it cannot, the buffer
  is full and the janitor passes over it.
- `SemaphoreIsAccounted`: the tokens are the workers in "granted" or "running", the blocked ones are a FIFO without
  repetition, and nobody waits while a token is free.
- `SerialIfJanitorSparesBusy`: `PerChatSerial` in every behaviour whose janitor steps reclaim no channel of a busy worker:
  the busy channel of a chat is then the registered one.
- `SerialWithShortTasks`: `PerChatSerial` when TaskTimeout <= IdleTimeout and no worker ever waits for a token: the
  side condition under which the test of the janitor is sound, and which the defaults (30 min and 5 min) do not meet.
- `TasksAreAccounted`: `LiveTasksAccounted`, whatever the janitor closes.  `PlacesInv` says of each of the three places (the
  blocked Submit, the channels, the hands of the workers) that it holds unfinished tasks, each once, and none that
  another place holds; that one place is left for every unfinished task then follows by counting.
- `ServesIfJanitorSparesBusy`: `ImplementsService`, under the hypothesis of `SerialIfJanitorSparesBusy`, which it needs: a
  second worker of a chat would serve two tasks of its line at once.  The steps are simulated one by one: `Submit` is
  the arrival, `Start` the service of the line's head, `Finish` its end, a drop after Stop removes a head, and the
  rest are stutters because taking a task off a channel leaves the line (task taken, buffer, Submit's task) as it was.
- `SerialWithFewChats`, `ServesWithFewChats`: both without any hypothesis about behaviours, when the constants satisfy
  `FewChats`: with n chats, m tokens, n > m, (n - m + 1) * TaskTimeout <= IdleTimeout (TaskTimeout <= IdleTimeout if n <= m).
  `WaitInv` bounds the age of a busy channel: all tokens are held while somebody waits, the chats that hold none are at
  most n - m, tokens are granted first come first served, so the i-th of the line has waited for no more task timeouts
  than those that were before it.  It is an invariant only together with the registry, which says that a chat has one worker,
  and that in turn needs that no busy channel is reclaimed: the step lemmas use each other's invariant in the state
  before.  The bound is exact on the instance of the runs: TLC finds two workers of one chat with an idle timeout one
  tick shorter.  It is a guide for a deployment, not what one gets: 30 min of task timeout never meet it with 5 min of
  idle timeout.

`ChannelLeaseProofs` (for every number of replicas, timers and budgets, with one gate per replica,
`OneGatePerReplica`; section 7 says what happens without):

- `TypeCorrect`: `TypeOK`.
- `RunningIsCovered`: the inductive invariant.  `OnePoller` alone is not inductive: it says nothing of how long the lease
  lasts.  `Covered` says that, while `Punctual`, each running adapter belongs to the holder and the row outlives its next
  renewal or its stop by the margin that the failures so far have left.
- `OnlyOnePoller`: `OnePoller` follows, since the row has one holder and the holder one gate.
- `OutagesAreBounded`: `OutageBounded`, also without `OneGatePerReplica`.  `Awaited` gives the outage a budget of one TTL and one
  retry, and as much again per failed call; neither what is left of the row nor the sleep of a gate that waits reaches
  past it, since an `Acquire` that fails after taking the row spends an error and buys a TTL.

`CronSchedulerProofs` (for any jobs, schedulers, periods, lock TTL, edits and faults):

- `TypeCorrect`: `TypeOK`, with `Placed`: a scheduler at a job has one, and outside a round its due list is empty.
- `FiredOnlyOnce`: `FiredOnce`.  It is not inductive: that the row has moved on says nothing of who is about to fire it.  The
  invariant `Good` says of a job without a mishap that one scheduler holds it at a time (`Alone`), that its row is locked
  meanwhile and names the occurrence held (`Locked`), which was not fired before it is sent (`Unfired`), and that whatever
  was fired is before the row's occurrence, or is it and the row is locked (`Moved`).  `Known` adds that an occurrence on
  a due list was due when the list was read: the next one, computed from then, is later (`NextTyped`).  Most steps leave
  a job alone (`Kept`), which one lemma shows to be enough.
- `GivenUpOnlyWhenMissed`: `GivenUpWhenMissed`, by `Counted`: the row of a job counts no more failures than there were since it
  last fired, except while its holder has sent and not cleared it, when it is locked.
- `JobsAreOnTime`: `OnTime`, for one process that nobody edits jobs under and whose idle sleep does not exceed the lock TTL
  (`OneProcess`; both are 5 min in the code).  The invariant charges delays to faults: a row that is locked without
  a holder (`LockPaidFor`), and a scheduler that sleeps past a row (`SleepPaidFor`), are each there because a process died
  or a call failed, and end within one lock TTL, which that fault has added to what is allowed.

`SessionTurnProofs` (for any turns, messages, iterations and faults):

- `SteersAlwaysHaveATaker`: `SteersHaveATaker`.  The inductive invariant `Counted` adds only that `pc` is a function on
  the actors; a step moves one actor, which joins or leaves the set of turns in flight or stays where it is
  (`TakesOff`, `Lands`, `StaysPut`).
- `TypeCorrect`: `TypeOK`.  What the results of a round are paired with must be calls: the calls of an answer have
  distinct positions (`Fine`), so ranking them leaves no gap (`Ranked`), and every pad names the call it was made for.
- `OnlyOneMarker`: `OneMarker`.  `Markers` extends it to the row that a `Get` has read and not installed, and says that nothing
  still to be appended is a marker.
- `NoSteerIsLost`: `SteersKept`.  `Placed` says where each steer is, at every step and also before it is accepted (nowhere) and
  while no process is up (in the row); `Kept`, that the row is a prefix of the working set as long as no `Get` replaced it,
  so that what a crash leaves of an appended steer is known.
- `EveryCallIsAnswered`: `CallsAnswered`.  The history is kept `Paired` (no call asked or answered twice, no answer before its
  call) and `OpenLast` (only the latest round has open calls), and so is the row, which is a state of the history at some
  earlier moment.  `Turning` says for each state of the turn which calls are open: none, those whose results it holds, or
  after its loop those that its deferred scan will pad.  `Past` keeps fresh the calls it may still ask for.  The
  pads of a healing are the open calls, each once, and a healing that is cut short leaves a history in order.

`FailureSweepProofs` (for any sessions, attempts, waits, window and faults):

- `NoticeToldOnce`: `ToldOnce`.  The invariant `Claimed` says that a notice was never delivered more recently than it was
  claimed, unless a crash lost the claim, and that what the sweep is about to deliver has been claimed just now and was
  not delivered within the window.
- `ReplaysAreCapped`: `CapKept`.  Typing adds that a session has a replay under way only if the sweep is there
  (`OneReplay`); `Capped`, that a replay chosen or begun but not stored finds fewer than `MaxAttempts` in the history, since
  whatever happens meanwhile adds none.  The count the sweep takes (half the length of the chain) is no less than the
  number of replays in it: a pigeonhole argument on positions, which needs no induction (`TimesChain`).
- `ReplaysAreSafe`: `ReplaySafe`, for any number of turns at once.  `RanShown` relates the history variable to the history: if a
  tool has run for the request, a round of tools stands in its history, whichever turn ran it, and a chain holds none
  (`ChainToolless`).  `Beginning` keeps that until the replay is stored: no turn is in flight at the analysis, and one that
  begins after it must store its message, another request, before it runs a tool.
- `TypeCorrect`: `TypeOK`.  Its bounds on waits and ages are the point: the breaker's interval is doubled at each trip and stops
  at its cap, and the wait for a replay is a backoff of a number of failures read off a history of any length.  It
  needs that 2^n grows with n; instead of an induction, which the provers cannot do here, the proof takes 2^n for the
  number of subsets of a set of n elements, a fact of the library.

`SandboxPoolProofs` (for any calls, sandboxes, contents, idle time and faults):

- `TypeCorrect`: `TypeOK`, with who has an executor at which step.
- `HeldIsOpen`: `OpenWhenHeld`.  It is not inductive: closing is a step after removal, and replacing moves an executor to
  another sandbox.  The invariant `Owned` adds that an executor in use was created (`Born`), that no two in use have the
  same sandbox (`Apart`), and that what is being closed is no longer in the pool (`Out`).
- `LostOnlyWhenExcused`: `AckedIsStored`.  `acked` is the newest content a returned call has written.  Until a command returns,
  its content, or a newer one, is in its live sandbox when it comes to take the snapshot and in the snapshot when it puts it,
  or excused (`Carried`).  A sandbox in which a command carries something keeps it or excuses it (`Kept`, for which
  `Stranded` is made); the store only falls back when `Overwrite` excuses what it held.

`WorkflowRunProofs` (for any graph, walkers, policies and bounds):

- `OneLiveWalker`: `OneLive`, for any Services.  Under `serial` a walker past `Acquire` holds the mutex of its Service; under
  `cancel_previous` one whose context is alive is in its slot; and unless `split` says so, no two Services walk (`Admitted`).
- `CalledOnce`: `OnceOnly`.  What a walk remembers of the rows is what they are, for nobody else writes them: under `serial` no
  other request of its Service walks, and `Serial` says that none of another does, unless the run was deleted.  A call
  counts once, while it is under way or as the row it left (`OnceInv`).
- `TypeCorrect`: `TypeOK`.  The count of calls needs the count of walkers that are in a call not to exceed it.
- `WaitingRunAsks`, `SuccessfulRunIsWhole`: `WaitingAsks`, `SuccessIsWhole`.  `Whole` says of the rows what `SuccessIsWhole`
  says of a succeeded run, and where the walk stands was reached from a succeeded node.

Only model-checked: liveness under fairness (`EveryTaskServed`, `SomeonePolls`, `EvictedStops`, `SteersFolded`, `NoStall`,
`Evicted`, `Settles`), which is outside TLAPS here: its proof needs ENABLED.  Every other property of a passing run
has a theorem; those with a hypothesis are `OnePoller` (`OneGatePerReplica`), `OnTime` (`OneProcess`), `PerChatSerial` and
`ImplementsService` (a janitor that spares busy channels, or `FewChats`).  Without it `OnePoller`, `PerChatSerial` and
`ImplementsService` fail (section 7); `OnTime` is neither checked nor claimed, as an edit may overwrite a row's next run.
Each property of a passing run has a mutant (an operator marked `Mutant:` next to the definition it would replace) that
violates it: a bug of the kind the property is there to exclude.

## 7. Findings

- `task_queue_defaults`: the janitor looks at the age and the buffer of a channel and not at its worker, so a chat whose
  handler runs for more than 5 minutes gets a second worker with its next message ("running them serially",
  `queue.go:142`).
- `session_mispaired`: the results of a round are recorded by position, although refused and deferred calls were moved to
  the end of the list, so that a refusal and an output swap their calls ("each already paired to its tool_use id",
  `loop.go:4035`).

The models also behave as follows where the code does.  No run asks for it, and a property or an exemption says where:

- Re-saving a running channel starts a second gate with the same holder id, and the first is not cancelled
  (`channels/reload.go:107`): two adapters run with no failure at all.  `ChannelLease` has it when `HostOf` maps two gates to
  one replica; the proofs assume it away by name.  Telegram has its own claim.
- A missed cron job stays due, so its misses follow each other without a pause and it is given up at once rather than
  after some minutes (`cron/scheduler.go:68`, `:264`).  Enabling a job through the dashboard does not wake the scheduler
  (`setup/handlers_cron.go:95`); `OnTime` counts only the time the scheduler could act.
- A user's message may make a replay skip and end its chain at once: the sweep then announces a recovery that was none
  of its doing, and settles the session (`gateway_failure_sweep.go:462`), although the comment above it says "nothing
  appended, chain unresolved), retried next pass" (`:439`).  A turn that failed after its tools ran is a failure the sweep reports
  only if its notice closes a chain.
- The idle timer of a sandbox is set when a call begins: a command that runs for longer than the idle time is evicted
  under, and what it has written so far may be lost (`lifecycle.go:159`).  A file that was edited without changing its size
  is not synced (`lifecycle.go:220`).  An eviction writes what its sandbox holds over a file of the store that has become
  newer (`lifecycle.go:223`).  A read of a file that does not exist answers 404, on which the live sandbox is replaced by a new one,
  and left at the provider (`e2b_executor.go:615`): what its commands wrote since the last snapshot, and what is outside
  the workspace, is gone with it.
- A resumed walk skips the nodes that succeeded without restoring the variables they set, so a branch on such a variable
  fails on every resume (`workflow/runner.go:248`).
- "serial: a per-workflow lock serializes runs [...] so runs execute one at a time (AC1)" (`workflow/concurrency.go:16`)
  holds within one Service object only.  A workflow that is saved or deleted gives its agent a new Service with new locks
  (`agent/workflow_tools.go:49`, from `setup/handlers_workflow.go:411` and `:468`) while runs walk, and replicas never share
  one: two resumes that both found the run resumable then walk it at once and both call a node that is not idempotent.
  `Serial` names this, and without `~split` TLC finds `OnceOnly`, `WaitingAsks` and `SuccessIsWhole` violated.
- Under `allow` and `cancel_previous` two resumes may run the same node: a canceled walk notices at the next node boundary
  only.  The stale-run reaper looks at rows, not at walkers: it may fail a run that a slow node is still executing, and
  that walker then finalises it (`store/workflow.go:257`).

## 8. Not modelled, and why

The components marked `not_modelled` in PROJECT.json: planned ones (section 2), protocol clients and drivers (LLM
providers, MCP, plugins, adapters) that keep no state of their own, text pipelines (memory, diary, wiki, knowledge
base), CRUD and HTTP handlers, the CLI and the web frontend.  Within the modelled components: the in-memory jobs of
configuration files (one ticker each, no shared state), the parsing and matching of cron expressions (the model takes
fixed times), the Telegram token claim; of sessions, saves that are split between the working set and the archive,
compaction, rollback, parked authorizations (`/yes`), the streaming loop and a second Session object of the same
conversation; logging and metrics.  Clocks of replicas are taken to agree; a skew would be
subtracted from the TTL in `Punctual`.
Of the failure sweep: LLM streams that never end, the gap between the analysis of a history and the probe for a turn in
flight, the wording of notices and the choice of the channel they go to, and the loss of a failed-call row
(written at best effort).  Of the sandboxes: the death of the gateway process, which loses
what was not synced and leaves the sandbox to the provider, the container backend, whose workspace is a directory of the host, and the
provider's wire protocol.  Of workflows: an edit of the definition between two walks
(a reload keeps the graph, and replaces only the locks), what expressions, references and retries inside a node compute, validation and
versions of definitions, and other runs of the same workflow.  Of the bus: the Redis bridge, with its acknowledgements.
