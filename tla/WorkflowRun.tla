---------------------------- MODULE WorkflowRun ----------------------------
(***************************************************************************)
(* One run of a workflow: its record and its node rows in the store        *)
(* (store/workflow.go), the goroutines that walk it (workflow/runner.go),  *)
(* the policy that lets them in (workflow/concurrency.go, service.go), the *)
(* two entry points that resume it (setup/handlers_workflow.go,            *)
(* agent/workflow_tools.go) and the hourly sweep that gives it up          *)
(* (gateway/gateway_workflow_retention.go).                                *)
(*                                                                         *)
(* A walker serves one request: Starter triggers the run, every other one  *)
(* resumes it, if it is ever called.  The policy is that of a Service      *)
(* object: every replica has its own, and a saved or deleted definition    *)
(* gives an agent a new one (ReloadWorkflows), while the walks the old one *)
(* let in go on.  What a node returns, and whether it fails, is arbitrary; *)
(* outputs are not modelled, except that a "set" node writes the variable  *)
(* that the branches of kind "var" read.                                   *)
(***************************************************************************)
EXTENDS Naturals, FiniteSets

CONSTANTS
  Walkers,       \* the requests that may come for the run
  Starter,       \* the one that triggers it
  NoWalker,
  Services,      \* the Service objects: one per replica, another after a reload
  Nodes,         \* the nodes of the definition, numbered in a topological order
  Entry,         \* the one without incoming edge
  Kind,          \* "pure" | "once" (non-idempotent) | "set" | "form"
  Succ,          \* the targets of the node's edges
  Branch,        \* what its edges are: "plain" | "route" (llm_route) | "var"
  Settings,      \* the concurrency policy the definition declares (mode), and which
                 \* Service serves which request (svc)
  FormTTL,       \* a form is waited for this long, in ticks
  StaleTTL,      \* a running run may be this long without a new row
  MaxFaults      \* crashes, failed statements and closed connections

NoNode == 0

ASSUME WalkersAssumption ==
  /\ IsFiniteSet(Walkers) /\ Starter \in Walkers /\ NoWalker \notin Walkers
ASSUME GraphAssumption ==
  /\ Nodes \subseteq Nat \ {NoNode} /\ IsFiniteSet(Nodes) /\ Entry \in Nodes
  /\ Kind \in [Nodes -> {"pure", "once", "set", "form"}]
  /\ Succ \in [Nodes -> SUBSET Nodes]
  /\ \A n \in Nodes : \A m \in Succ[n] : n < m     \* Validate refuses a cycle
  /\ Branch \in [Nodes -> {"plain", "route", "var"}]
ASSUME PolicyAssumption ==
  /\ Settings \subseteq [mode : {"allow", "serial", "cancel_previous"},
                         svc : [Walkers -> Services]]
  /\ FormTTL \in Nat /\ StaleTTL \in Nat /\ MaxFaults \in Nat

VARIABLES
  mode,     \* the definition's concurrency
  run,      \* the row of workflow_runs: status, pending form, age of started_at
  rows,     \* the latest attempt of each node in workflow_node_outputs
  quiet,    \* ticks since the newest row, since started_at while there is none
  svc,      \* the Service that serves each request
  lock,     \* serial: who holds the workflow's mutex in each Service
  inflight, \* cancel_previous: the run a new one cancels in each Service
  walk,     \* the walkers' stacks
  calls,    \* calls of a non-idempotent node with the outcome on record, or on its way there
  split,    \* a walk began while another Service had one going (history)
  faults

vars == <<mode, run, rows, quiet, svc, lock, inflight, walk, calls, split, faults>>

Row == [attempt : Nat, status : {"none", "succeeded", "failed", "waiting"}]
NoRow == [attempt |-> 0, status |-> "none"]
NoRows == [n \in Nodes |-> NoRow]
Once == {n \in Nodes : Kind[n] = "once"}

Terminal == {"succeeded", "failed", "needs_intervention"}
Resumable == {"waiting", "failed"}
MaxAge == 1 + (IF FormTTL > StaleTTL THEN FormTTL ELSE StaleTTL)

Stopped == [pc |-> "done", node |-> NoNode, canceled |-> FALSE, form |-> NoNode,
            prior |-> NoRows, set |-> FALSE]
Idle == [Stopped EXCEPT !.pc = "idle"]

TypeOK ==
  /\ [mode |-> mode, svc |-> svc] \in Settings
  /\ run \in [status : {"none", "running", "waiting"} \cup Terminal,
              form : Nodes \cup {NoNode}, age : 0..MaxAge]
  /\ rows \in [Nodes -> Row] /\ quiet \in 0..MaxAge
  /\ lock \in [Services -> Walkers \cup {NoWalker}]
  /\ inflight \in [Services -> Walkers \cup {NoWalker}]
  /\ split \in BOOLEAN
  /\ calls \in [Once -> Nat] /\ faults \in 0..MaxFaults
  /\ walk \in [Walkers ->
       [pc : {"idle", "acquire", "open", "load", "node", "exec", "park", "edge",
              "end", "done"},
        node : Nodes \cup {NoNode}, canceled : BOOLEAN,
        form : Nodes \cup {NoNode}, prior : [Nodes -> Row], set : BOOLEAN]]

Init ==
  /\ \E setting \in Settings : mode = setting.mode /\ svc = setting.svc
  /\ run = [status |-> "none", form |-> NoNode, age |-> 0]
  /\ rows = NoRows /\ quiet = 0
  /\ lock = [s \in Services |-> NoWalker] /\ inflight = [s \in Services |-> NoWalker]
  /\ walk = [w \in Walkers |-> Idle]
  /\ calls = [n \in Once |-> 0] /\ split = FALSE /\ faults = 0

----------------------------------------------------------------------------
\* A walker past Acquire, and where it stands.
Walking(w) == walk[w].pc \notin {"idle", "acquire", "done"}
Goto(w, pc) == walk' = [walk EXCEPT ![w].pc = pc]

Fault == faults < MaxFaults /\ faults' = faults + 1

\* AppendWorkflowNodeOutput; loadSnapshot takes the highest attempt, the later of two.
Append(n, attempt, status) ==
  /\ rows' = IF attempt >= rows[n].attempt
             THEN [rows EXCEPT ![n] = [attempt |-> attempt, status |-> status]]
             ELSE rows
  /\ quiet' = 0

Attempt(w) == walk[w].prior[walk[w].node].attempt + 1

\* A call whose row never got written: nobody will know of it.
Forget(ns) == calls' = [n \in Once |-> calls[n] - Cardinality({w \in ns : walk[w].node = n})]

\* A walker gives up what it holds in its Service, if it still holds it.
Release(held, w) == [held EXCEPT ![svc[w]] = IF @ = w THEN NoWalker ELSE @]

\* Mutant: the slot is cleared, whoever has it.
Return_Blind(w) ==
  /\ lock' = Release(lock, w)
  /\ inflight' = [inflight EXCEPT ![svc[w]] = NoWalker]
  /\ walk' = [walk EXCEPT ![w] = Stopped]

\* The walker returns, and with it the deferred release: the slot is cleared only
\* while it is still this walker's.
Return(w) ==
  /\ lock' = Release(lock, w) /\ inflight' = Release(inflight, w)
  /\ walk' = [walk EXCEPT ![w] = Stopped]

\* FinalizeWorkflowRun, unconditional, and the return; the pending form is left as
\* it is.  If the statement fails the run stays as it is.
Finish(w, verdict) ==
  /\ Return(w)
  /\ \/ /\ run' = IF run.status = "none" THEN run ELSE [run EXCEPT !.status = verdict]
        /\ UNCHANGED faults
     \/ Fault /\ UNCHANGED run
  /\ UNCHANGED <<mode, rows, quiet, svc, calls, split>>

----------------------------------------------------------------------------
\* A trigger, by a user or by a schedule.
Trigger ==
  /\ walk[Starter].pc = "idle" /\ run.status = "none"
  /\ walk' = [walk EXCEPT ![Starter].pc = "acquire"]
  /\ UNCHANGED <<mode, svc, run, rows, quiet, lock, inflight, calls, split, faults>>

\* A resume reads the run once: it must be resumable, and if it waits the
\* request carries answers for the form it waits on.
Resume(w) ==
  /\ w # Starter /\ walk[w].pc = "idle" /\ run.status \in Resumable
  /\ walk' = [walk EXCEPT ![w].pc = "acquire",
                ![w].form = IF run.status = "waiting" THEN run.form ELSE NoNode]
  /\ UNCHANGED <<mode, svc, run, rows, quiet, lock, inflight, calls, split, faults>>

Split(w) == split' = (split \/ \E v \in Walkers : Walking(v) /\ svc[v] # svc[w])

\* Mutant: nobody waits for the mutex.
Acquire_Unlocked(w) ==
  /\ walk[w].pc = "acquire"
  /\ IF mode = "serial" THEN lock' = [lock EXCEPT ![svc[w]] = w] ELSE UNCHANGED lock
  /\ Goto(w, "open") /\ Split(w)
  /\ UNCHANGED <<mode, run, rows, quiet, svc, inflight, calls, faults>>

\* In the request's Service, "serial" waits for the workflow's mutex, "cancel_previous"
\* cancels the run in the slot and takes it, "allow" does nothing.
Acquire(w) ==
  /\ walk[w].pc = "acquire"
  /\ \/ /\ mode # "cancel_previous"
        /\ IF mode = "serial"
           THEN lock[svc[w]] = NoWalker /\ lock' = [lock EXCEPT ![svc[w]] = w]
           ELSE UNCHANGED lock
        /\ Goto(w, "open") /\ UNCHANGED inflight
     \/ /\ mode = "cancel_previous"
        /\ walk' = [v \in Walkers |->
             IF v = w THEN [walk[v] EXCEPT !.pc = "open"]
             ELSE IF v = inflight[svc[w]] THEN [walk[v] EXCEPT !.canceled = TRUE]
             ELSE walk[v]]
        /\ inflight' = [inflight EXCEPT ![svc[w]] = w] /\ UNCHANGED lock
  /\ Split(w)
  /\ UNCHANGED <<mode, run, rows, quiet, svc, calls, faults>>

\* CreateWorkflowRun for a trigger, MarkRunRunning for a resume: whatever became
\* of the run since Resume read it, it is running again.
Open(w) ==
  /\ walk[w].pc = "open"
  /\ IF w = Starter
     THEN /\ run' = [status |-> "running", form |-> NoNode, age |-> 0] /\ quiet' = 0
          /\ walk' = [walk EXCEPT ![w].pc = "node", ![w].node = Entry]
     ELSE /\ run' = IF run.status = "none" THEN run
                    ELSE [run EXCEPT !.status = "running", !.form = NoNode]
          /\ Goto(w, "load") /\ UNCHANGED quiet
  /\ UNCHANGED <<mode, svc, rows, lock, inflight, calls, split, faults>>

\* loadSnapshot at the start of a resume; the walk starts over at the entry node,
\* with no variables.
Load(w) ==
  /\ walk[w].pc = "load"
  /\ walk' = [walk EXCEPT ![w].pc = "node", ![w].node = Entry, ![w].prior = rows]
  /\ UNCHANGED <<mode, svc, run, rows, quiet, lock, inflight, calls, split, faults>>

----------------------------------------------------------------------------
AtNode(w) == walk[w].pc = "node"
Prior(w) == walk[w].prior[walk[w].node].status
Refused(w) == Kind[walk[w].node] = "once" /\ Prior(w) = "failed"

\* Mutant: the run gets a status of its own.
Cancel_OwnStatus(w) == AtNode(w) /\ walk[w].canceled /\ Finish(w, "canceled")

\* A canceled context is seen at the next node boundary.
Cancel(w) == AtNode(w) /\ walk[w].canceled /\ Finish(w, "failed")

\* Mutant: a form that has been asked counts as answered.
Done_Seen(w) == Prior(w) \in {"succeeded", "waiting"}

\* A node that succeeded before is skipped.
Done(w) == Prior(w) = "succeeded"

\* A node that is not idempotent and failed is never run again.
Refuse(w) ==
  /\ AtNode(w) /\ ~walk[w].canceled /\ Refused(w)
  /\ Finish(w, "needs_intervention")

\* execNode is called ...
Invoke(w) ==
  /\ AtNode(w) /\ ~walk[w].canceled /\ Kind[walk[w].node] # "form"
  /\ ~Done(w) /\ ~Refused(w)
  /\ Goto(w, "exec")
  /\ calls' = [n \in Once |-> IF n = walk[w].node THEN calls[n] + 1 ELSE calls[n]]
  /\ UNCHANGED <<mode, svc, run, rows, quiet, lock, inflight, split, faults>>

\* ... and returns, well or not; only then is its row appended.
Record(w) ==
  /\ walk[w].pc = "exec"
  /\ \/ /\ Append(walk[w].node, Attempt(w), "succeeded")
        /\ walk' = [walk EXCEPT ![w].pc = "edge",
                                ![w].set = @ \/ Kind[walk[w].node] = "set"]
     \/ /\ Append(walk[w].node, Attempt(w), "failed")
        /\ Goto(w, "end")
  /\ UNCHANGED <<mode, svc, run, lock, inflight, calls, split, faults>>

\* Mutant: the run parks without a row of the form.
Form_Unrecorded(w) ==
  /\ AtNode(w) /\ ~walk[w].canceled /\ Kind[walk[w].node] = "form" /\ ~Done(w)
  /\ Goto(w, "park")
  /\ UNCHANGED <<mode, svc, run, rows, quiet, lock, inflight, calls, split, faults>>

\* A form node: without answers for it the run parks, or fails if nobody can be asked (a
\* schedule, a resume whose owner is unknown), and the walk ends either way; answers are
\* checked against the form's schema.
Form(w) ==
  /\ AtNode(w) /\ ~walk[w].canceled /\ Kind[walk[w].node] = "form" /\ ~Done(w)
  /\ \/ /\ walk[w].form # walk[w].node
        /\ \/ Append(walk[w].node, Attempt(w), "waiting") /\ Goto(w, "park")
           \/ Append(walk[w].node, Attempt(w), "failed") /\ Goto(w, "end")
     \/ /\ walk[w].form = walk[w].node
        /\ \/ Append(walk[w].node, Attempt(w), "succeeded") /\ Goto(w, "edge")
           \/ Append(walk[w].node, Attempt(w), "failed") /\ Goto(w, "end")
  /\ UNCHANGED <<mode, svc, run, lock, inflight, calls, split, faults>>

\* SetRunWaiting, after the row.
Park(w) ==
  /\ walk[w].pc = "park"
  /\ run' = IF run.status = "none" THEN run
            ELSE [run EXCEPT !.status = "waiting", !.form = walk[w].node]
  /\ Return(w)
  /\ UNCHANGED <<mode, svc, rows, quiet, calls, split, faults>>

\* A failed row is followed by endRun.
EndFailed(w) == walk[w].pc = "end" /\ Finish(w, "failed")

\* Past a node that succeeded, now or before, selectEdge: a plain edge is taken, an
\* LLM picks any or none, and a condition on the variable is an error unless the
\* variable was set in this walk.
Passed(w) == walk[w].pc = "edge" \/ (AtNode(w) /\ ~walk[w].canceled /\ Done(w))
Unresolved(w) == Branch[walk[w].node] = "var" /\ ~walk[w].set

Follow(w) ==
  /\ Passed(w) /\ ~Unresolved(w)
  /\ \E m \in Succ[walk[w].node] : walk' = [walk EXCEPT ![w].pc = "node", ![w].node = m]
  /\ UNCHANGED <<mode, svc, run, rows, quiet, lock, inflight, calls, split, faults>>

NoEdge(w) ==
  /\ Passed(w) /\ Succ[walk[w].node] # {}
  /\ Branch[walk[w].node] = "route" \/ Unresolved(w)
  /\ Finish(w, "failed")

Complete(w) == Passed(w) /\ Succ[walk[w].node] = {} /\ Finish(w, "succeeded")

----------------------------------------------------------------------------
\* A statement fails: the walker returns the error and the run stays as it is.
StatementFails(w) ==
  /\ \/ walk[w].pc \in {"open", "load", "exec", "park"}
     \/ AtNode(w) /\ Kind[walk[w].node] = "form" /\ ~walk[w].canceled /\ ~Done(w)
  /\ Fault
  /\ IF walk[w].pc = "exec" THEN Forget({w}) ELSE UNCHANGED calls
  /\ Return(w)
  /\ UNCHANGED <<mode, svc, run, rows, quiet, split>>

\* The client that waits for the answer goes away, and its context with it.
Disconnect(w) ==
  /\ walk[w].pc \notin {"idle", "done"} /\ ~walk[w].canceled /\ Fault
  /\ walk' = [walk EXCEPT ![w].canceled = TRUE]
  /\ UNCHANGED <<mode, svc, run, rows, quiet, lock, inflight, calls, split>>

\* A process stops, or several: what is in its Services and not in the store is gone.
Crash ==
  \E gone \in SUBSET Services :
    LET hit == {w \in Walkers : svc[w] \in gone /\ walk[w].pc \notin {"idle", "done"}}
    IN  /\ hit # {} /\ Fault
        /\ walk' = [w \in Walkers |-> IF w \in hit THEN Stopped ELSE walk[w]]
        /\ lock' = [s \in Services |-> IF s \in gone THEN NoWalker ELSE lock[s]]
        /\ inflight' = [s \in Services |-> IF s \in gone THEN NoWalker ELSE inflight[s]]
        /\ Forget({w \in hit : walk[w].pc = "exec"})
        /\ UNCHANGED <<mode, run, rows, quiet, svc, split>>

\* Deleted by hand, in any state, or by the retention, the rows with the run.
Delete ==
  /\ run.status # "none"
  /\ run' = [status |-> "none", form |-> NoNode, age |-> 0]
  /\ rows' = NoRows /\ quiet' = 0
  /\ calls' = [n \in Once |-> Cardinality({w \in Walkers :
                                  walk[w].pc = "exec" /\ walk[w].node = n})]
  /\ UNCHANGED <<mode, svc, lock, inflight, walk, split, faults>>

\* TimeoutWaitingRuns counts from the start of the run.
TimeoutWaiting ==
  /\ run.status = "waiting" /\ run.age > FormTTL
  /\ run' = [run EXCEPT !.status = "needs_intervention"]
  /\ UNCHANGED <<mode, svc, rows, quiet, lock, inflight, walk, calls, split, faults>>

\* Mutant: a run without rows has no age.
FailStale_RowsOnly ==
  /\ run.status = "running" /\ quiet > StaleTTL /\ rows # NoRows
  /\ run' = [run EXCEPT !.status = "failed"]
  /\ UNCHANGED <<mode, svc, rows, quiet, lock, inflight, walk, calls, split, faults>>

\* FailStaleRunningRuns counts from the newest row, and from the start without one.
FailStale ==
  /\ run.status = "running" /\ quiet > StaleTTL
  /\ run' = [run EXCEPT !.status = "failed"]
  /\ UNCHANGED <<mode, svc, rows, quiet, lock, inflight, walk, calls, split, faults>>

Tick ==
  /\ run.status # "none" /\ (run.age < MaxAge \/ quiet < MaxAge)
  /\ run' = [run EXCEPT !.age = IF @ < MaxAge THEN @ + 1 ELSE @]
  /\ quiet' = IF quiet < MaxAge THEN quiet + 1 ELSE quiet
  /\ UNCHANGED <<mode, svc, rows, lock, inflight, walk, calls, split, faults>>

----------------------------------------------------------------------------
Walk(w) ==
  \/ Acquire(w) \/ Open(w) \/ Load(w)
  \/ Cancel(w) \/ Refuse(w) \/ Invoke(w) \/ Record(w) \/ Form(w) \/ Park(w)
  \/ EndFailed(w) \/ Follow(w) \/ NoEdge(w) \/ Complete(w)

Next ==
  \/ Trigger
  \/ \E w \in Walkers : Resume(w) \/ Walk(w) \/ StatementFails(w) \/ Disconnect(w)
  \/ Crash \/ Delete \/ TimeoutWaiting \/ FailStale \/ Tick

Spec == Init /\ [][Next]_vars

\* A call of a node returns and the scheduler runs some walker while any can run, the
\* clock moves, and the hourly sweep comes round.  Nobody has to trigger or to resume.
FairSpec ==
  /\ Spec
  /\ WF_vars(\E w \in Walkers : Walk(w))
  /\ WF_vars(TimeoutWaiting \/ FailStale)
  /\ WF_vars(Tick)

----------------------------------------------------------------------------
\* The policy is "serial" and no walk began while one of another Service was going:
\* within one Service that is what the mutex sees to, between two nothing does.
Serial == mode = "serial" /\ ~split

\* Under "serial", and but for walks of two Services at once, a node that is not
\* idempotent is called once for each outcome on record, whatever crashes, sweeps, failed
\* statements and overlapping resumes do: it is called again only if the row of its last
\* call was lost with the process, a failed statement or the run itself (executeStep,
\* loadSnapshot, Acquire).
OnceOnly ==
  Serial => \A n \in Once : calls[n] <= 1

\* Two requests of one Service never both walk the workflow with a live context, unless
\* it allows overlap: the later one waits, or has canceled the earlier (Acquire).
OneLive ==
  mode # "allow" =>
    \A s \in Services :
      Cardinality({w \in Walkers : svc[w] = s /\ Walking(w) /\ ~walk[w].canceled}) <= 1

\* Under "serial", and but for walks of two Services at once, a waiting run names the form
\* it waits on, and the newest attempt of that node is the one that asked: an answer
\* always has a place to go (execFormNode, SetRunWaiting, MarkRunRunning).
WaitingAsks ==
  Serial /\ run.status = "waiting" => run.form # NoNode /\ rows[run.form].status = "waiting"

\* Under "serial", and but for walks of two Services at once, a run that succeeded reached
\* an end of the graph, and every node whose newest attempt succeeded was reached from one
\* that did, back to the entry, although each resumed walk routes anew (Run, loadSnapshot,
\* selectEdge).
SuccessIsWhole ==
  LET Succeeded == {n \in Nodes : rows[n].status = "succeeded"} IN
  Serial /\ run.status = "succeeded" =>
    /\ \E n \in Succeeded : Succ[n] = {}
    /\ \A n \in Succeeded \ {Entry} : \E m \in Succeeded : n \in Succ[m]

\* A run that was triggered is settled in the end, or deleted: no crash, failed
\* statement or form nobody answers leaves it running or waiting for ever
\* (FailStaleRunningRuns, TimeoutWaitingRuns).
Settles == run.status \in {"running", "waiting"} ~> run.status \notin {"running", "waiting"}
=============================================================================
