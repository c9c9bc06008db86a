---------------------------- MODULE SessionTurn ----------------------------
(***************************************************************************)
(* One conversation of an agent: the Session object of                     *)
(* internal/session/manager.go, the row it is saved to, and the turns of   *)
(* internal/agent/loop.go (HandleMessage, handlePlanMode and               *)
(* handleRegexHookReply) that read and write it.                           *)
(*                                                                         *)
(* Turns of one conversation may overlap: the dashboard starts them without*)
(* the task queue.  While one runs, messages are steered into it or noted  *)
(* in the history.  Each caller gets hold of the Session through           *)
(* Manager.Get, which reads the row of a loaded session again, and heals a *)
(* session that it loads.                                                  *)
(*                                                                         *)
(* A message keeps what tells two messages apart: who wrote it, and for    *)
(* the results of tools the call they claim to answer and the call they    *)
(* come from.                                                              *)
(***************************************************************************)
EXTENDS Integers, Sequences, FiniteSets

CONSTANTS
  Turns,         \* calls of HandleMessage
  Messages,      \* what users and other bots send beside the turns
  NoActor,       \* stands for the caller of Manager.Get when there is none
  MaxIterations, \* maxToolIterations: model calls of a turn
  MaxCalls,      \* bound: tool calls of one answer
  MaxFaults      \* bound: process deaths, failed reads and failed saves

Actors == Turns \union Messages

ASSUME SessionAssumption ==
  /\ NoActor \notin Actors
  /\ Turns \intersect Messages = {}
  /\ IsFiniteSet(Turns)
  /\ IsFiniteSet(Messages)
  /\ MaxIterations \in Nat \ {0}
  /\ MaxCalls \in Nat \ {0}
  /\ MaxFaults \in Nat

\* A tool call: the turn, the model call and the position in its answer.
Call == [turn : Turns, iter : 0..MaxIterations, pos : 1..MaxCalls]

\* What a tool message may carry: the result of a call, or a pad.
Pad == [turn |-> NoActor, iter |-> 0, pos |-> 0]

\* "said": by a user or another bot.  "calls": the assistant asks for tools.
\* "tool": a result.  "text": an answer, the loop warning or the notice of a failed
\* turn.  "aborted": the turn-aborted marker.
Message ==
  [kind : {"said"}, by : Actors]
    \union [kind : {"calls"}, calls : SUBSET Call]
    \union [kind : {"tool"}, call : Call, result : Call \union {Pad}]
    \union [kind : {"text", "aborted"}]

Said(a) == [kind |-> "said", by |-> a]
Calls(cs) == [kind |-> "calls", calls |-> cs]
Tool(c, r) == [kind |-> "tool", call |-> c, result |-> r]
Text == [kind |-> "text"]
Aborted == [kind |-> "aborted"]

VARIABLES
  loaded,    \* the process holds a Session object
  msgs,      \* Session.Messages, the working set
  row,       \* sessions.messages: the saved working set
  depth,     \* Session.turnDepth
  steerBuf,  \* Session.steerBuf
  getting,   \* the Manager.Get that has read the row of the loaded session
  pc,        \* where each actor is
  iter,      \* model calls each turn has made
  todo,      \* the messages each turn is about to append, one at a time
  faults,    \* process deaths, failed reads and failed saves so far
  lost,      \* steers that were accepted and then dropped by a known cause
  reloaded,  \* a Get put another history in place of the working set or of the row
  overlapped \* a turn began while another one was in flight

sessionVars == <<loaded, msgs, row, depth, steerBuf, getting>>
turnVars == <<pc, iter, todo>>
history == <<faults, lost, reloaded, overlapped>>
vars == <<sessionVars, turnVars, history>>

\* "new", "fetched", "got": before, in and after Manager.Get.  Of a turn: "user":
\* in flight.  "llm", "plan": at a model call.  "results", "parked", "fold", "padding",
\* "flush", "hook": appending todo.  "drain", "final": at a drain of steers.
\* "pad", "mark", "end", "hookEnd": the deferred calls.  "skipped": a retry that
\* lost its claim.  Of a message: "accepted" or "refused" as a steer, or "noted".
TurnState == {"new", "fetched", "got", "user", "llm", "plan", "results", "parked", "fold",
              "drain", "final", "pad", "padding", "mark", "end", "flush", "hook",
              "hookEnd", "skipped", "done", "dead"}
MessageState == {"new", "fetched", "got", "accepted", "refused", "noted", "dead"}

\* A turn that has begun and not ended.
InFlight == {"user", "llm", "plan", "results", "parked", "fold", "drain", "final", "pad",
             "padding", "mark", "end", "hook", "hookEnd"}

NoGet == [actor |-> NoActor, row |-> <<>>]

Init ==
  /\ loaded = FALSE
  /\ msgs = <<>>
  /\ row = <<>>
  /\ depth = 0
  /\ steerBuf = <<>>
  /\ getting = NoGet
  /\ pc = [a \in Actors |-> "new"]
  /\ iter = [t \in Turns |-> 0]
  /\ todo = [t \in Turns |-> <<>>]
  /\ faults = 0
  /\ lost = {}
  /\ reloaded = FALSE
  /\ overlapped = FALSE
----------------------------------------------------------------------------
(* Histories, and what repairs them. *)

Kinds(h, k) == {i \in DOMAIN h : h[i].kind = k}
Positions(h, m) == {i \in DOMAIN h : h[i] = m}

\* The tool messages of h for call c that follow position i.
AnswersAfter(h, i, c) == {k \in Kinds(h, "tool") : k > i /\ h[k].call = c}

\* Mutant: the earliest answer with calls is repaired and not the latest.
OrphansOfEarliest(h) ==
  LET asked == Kinds(h, "calls")
      i == CHOOSE k \in asked : \A other \in asked : k <= other
  IN IF asked = {} THEN {} ELSE {c \in h[i].calls : AnswersAfter(h, i, c) = {}}

\* PadOrphanToolResults: the unanswered calls of the latest assistant message
\* that has calls.  Earlier ones are not looked at.
OrphanCalls(h) ==
  LET asked == Kinds(h, "calls")
      i == CHOOSE k \in asked : \A other \in asked : other <= k
  IN IF asked = {} THEN {} ELSE {c \in h[i].calls : AnswersAfter(h, i, c) = {}}

\* The calls of a set in the order of the answer: the i-th has i - 1 before it.
Ranked(calls, i) == CHOOSE c \in calls : Cardinality({d \in calls : d.pos <= c.pos}) = i

PadsFor(h) ==
  LET orphans == OrphanCalls(h)
  IN [i \in 1..Cardinality(orphans) |-> Tool(Ranked(orphans, i), Pad)]

\* Mutant: the marker is appended whether or not there is one.
AlwaysMarked(h) == Append(h, Aborted)

\* AppendClaimOnce: one marker per working set.
Marked(h) == IF Kinds(h, "aborted") = {} THEN Append(h, Aborted) ELSE h

\* Mutant: only calls at the very end of the history are taken for interrupted.
HealsOpenTail(h) ==
  IF h # <<>> /\ h[Len(h)].kind = "calls" THEN Marked(h \o PadsFor(h))
  ELSE IF h # <<>> /\ h[Len(h)].kind = "said" THEN Marked(h)
  ELSE h

\* healInterruptedTurn: pad the calls a crash left open, or say that the last
\* message was never answered.
Healed(h) ==
  IF OrphanCalls(h) # {} THEN Marked(h \o PadsFor(h))
  ELSE IF h # <<>> /\ h[Len(h)].kind = "said" THEN Marked(h)
  ELSE h
----------------------------------------------------------------------------
(* Manager.Get and Session.Append. *)

Goto(a, state) == pc' = [pc EXCEPT ![a] = state]

\* getByKey: a loaded session is read from its row and then assigned, and
\* the session lock is not held in between.
Fetch(a) ==
  /\ pc[a] = "new"
  /\ loaded
  /\ getting = NoGet
  /\ getting' = [actor |-> a, row |-> row]
  /\ Goto(a, "fetched")
  /\ UNCHANGED <<loaded, msgs, row, depth, steerBuf, iter, todo, history>>

SteersIn(h) == {s \in Messages : Positions(h, Said(s)) # {}}

\* The second half overwrites whatever was appended since, unless the read failed.
Install(a) ==
  /\ pc[a] = "fetched"
  /\ \/ /\ msgs' = getting.row
        /\ reloaded' = (reloaded \/ msgs # getting.row)
        /\ lost' = lost \union (SteersIn(msgs) \ SteersIn(getting.row))
        /\ UNCHANGED faults
     \/ faults < MaxFaults /\ faults' = faults + 1 /\ UNCHANGED <<msgs, reloaded, lost>>
  /\ getting' = NoGet
  /\ Goto(a, "got")
  /\ UNCHANGED <<loaded, row, depth, steerBuf, iter, todo, overlapped>>

\* A session that is not loaded is read, healed and published, all under the
\* manager's lock.
Load(a) ==
  /\ pc[a] = "new"
  /\ ~loaded
  /\ loaded' = TRUE
  /\ msgs' = Healed(row)
  /\ row' = Healed(row)
  /\ Goto(a, "got")
  /\ UNCHANGED <<depth, steerBuf, getting, iter, todo, history>>

\* The read fails and the session starts out empty: the next append then saves
\* a history of one message over the old one.
LoadNothing(a) ==
  /\ pc[a] = "new"
  /\ ~loaded
  /\ faults < MaxFaults
  /\ faults' = faults + 1
  /\ loaded' = TRUE
  /\ reloaded' = (reloaded \/ row # <<>>)
  /\ lost' = lost \union SteersIn(row)
  /\ Goto(a, "got")
  /\ UNCHANGED <<msgs, row, depth, steerBuf, getting, iter, todo, overlapped>>

\* The repairs are saved one by one: the process may die between two of them.
DieLoading(a) ==
  /\ pc[a] = "new"
  /\ ~loaded
  /\ faults < MaxFaults
  /\ faults' = faults + 1
  /\ \E n \in Len(row)..Len(Healed(row)) : row' = SubSeq(Healed(row), 1, n)
  /\ Goto(a, "dead")
  /\ UNCHANGED <<loaded, msgs, depth, steerBuf, getting, iter, todo, lost, reloaded, overlapped>>

\* The working set becomes h and is saved; the error of a save is dropped.
Save(h) ==
  /\ msgs' = h
  /\ \/ row' = h /\ UNCHANGED faults
     \/ faults < MaxFaults /\ faults' = faults + 1 /\ UNCHANGED row
----------------------------------------------------------------------------
(* Messages that reach the conversation beside its turns. *)

\* Mutant: a steer is buffered whether or not a turn is in flight.
PushSteerAlways(s) ==
  /\ pc[s] = "got"
  /\ steerBuf' = Append(steerBuf, Said(s))
  /\ Goto(s, "accepted")
  /\ UNCHANGED <<loaded, msgs, row, depth, getting, iter, todo, history>>

\* PushSteerIfActive: the message joins the turn in flight, if there is one.
PushSteer(s) ==
  /\ pc[s] = "got"
  /\ \/ /\ depth > 0
        /\ steerBuf' = Append(steerBuf, Said(s))
        /\ Goto(s, "accepted")
     \/ /\ depth = 0
        /\ Goto(s, "refused")
        /\ UNCHANGED steerBuf
  /\ UNCHANGED <<loaded, msgs, row, depth, getting, iter, todo, history>>

\* InjectGroupMessage: another bot's message is noted in the history.
Inject(m) ==
  /\ pc[m] = "got"
  /\ Save(Append(msgs, Said(m)))
  /\ Goto(m, "noted")
  /\ UNCHANGED <<loaded, depth, steerBuf, getting, iter, todo, lost, reloaded, overlapped>>
----------------------------------------------------------------------------
(* A turn. *)

\* BeginTurn.  A replay of the failure sweep takes TryBeginTurn and is skipped
\* when a turn is in flight.
Begin(t) ==
  /\ depth' = depth + 1
  /\ overlapped' = (overlapped \/ depth > 0)
  /\ Goto(t, "user")

\* Mutant: the deferred end of the turn is registered before the claim.
ClaimEndsAnyway(t) ==
  /\ pc[t] = "got"
  /\ \/ Begin(t)
     \/ depth > 0 /\ Goto(t, "skipped") /\ depth' = depth - 1 /\ UNCHANGED overlapped
  /\ UNCHANGED <<loaded, msgs, row, steerBuf, getting, iter, todo, faults, lost, reloaded>>

Claim(t) ==
  /\ pc[t] = "got"
  /\ \/ Begin(t)
     \/ depth > 0 /\ Goto(t, "skipped") /\ UNCHANGED <<depth, overlapped>>
  /\ UNCHANGED <<loaded, msgs, row, steerBuf, getting, iter, todo, faults, lost, reloaded>>

CallOf(t, p) == [turn |-> t, iter |-> iter[t], pos |-> p]

\* The message of the user, in an ordinary turn, in plan mode, or before the
\* exchange a regex hook writes.
AppendUser(t) ==
  /\ pc[t] = "user"
  /\ Save(Append(msgs, Said(t)))
  /\ \/ Goto(t, "llm") /\ UNCHANGED todo
     \/ Goto(t, "plan") /\ UNCHANGED todo
     \/ /\ Goto(t, "hook")
        /\ todo' = [todo EXCEPT ![t] =
                      <<Calls({CallOf(t, 1)}), Tool(CallOf(t, 1), CallOf(t, 1)), Text>>]
  /\ UNCHANGED <<loaded, depth, steerBuf, getting, iter, lost, reloaded, overlapped>>

\* handlePlanMode: one model call, whose answer is recorded unless it fails.
Plan(t) ==
  /\ pc[t] = "plan"
  /\ Save(Append(msgs, Text)) \/ UNCHANGED <<msgs, row, faults>>
  /\ Goto(t, "pad")
  /\ UNCHANGED <<loaded, depth, steerBuf, getting, iter, todo, lost, reloaded, overlapped>>

MayCall(t) == pc[t] = "llm" /\ iter[t] < MaxIterations

\* The model answers with text.  The turn looks for steers, or asks for the rest
\* of an answer that was cut off.
Reply(t) ==
  /\ MayCall(t)
  /\ Save(Append(msgs, Text))
  /\ iter' = [iter EXCEPT ![t] = @ + 1]
  /\ \E next \in {"final", "llm"} : Goto(t, next)
  /\ UNCHANGED <<loaded, depth, steerBuf, getting, todo, lost, reloaded, overlapped>>

\* In which order the results of n calls are appended.  Calls that ran come first,
\* in the order of the answer; those the authorization gate refused follow
\* in the order of a map.
ResultOrders(n) ==
  {order \in [1..n -> 1..n] : \A i, k \in 1..n : i # k => order[i] # order[k]}

\* The model asks for tools.  They run, or the gate refuses some; the results
\* are matched to the calls by position.  A refusal that asks the user for
\* authorization ends the turn after the results.
CallTools(t) ==
  /\ MayCall(t)
  /\ \E n \in 1..MaxCalls :
       /\ Save(Append(msgs, Calls({CallOf(t, p) : p \in 1..n})))
       /\ \E order \in ResultOrders(n) :
            todo' = [todo EXCEPT ![t] = [p \in 1..n |-> Tool(CallOf(t, p), CallOf(t, order[p]))]]
  /\ iter' = [iter EXCEPT ![t] = @ + 1]
  /\ \E next \in {"results", "parked"} : Goto(t, next)
  /\ UNCHANGED <<loaded, depth, steerBuf, getting, lost, reloaded, overlapped>>

\* The same call for the third time: the calls are recorded and not run, and
\* the loop is left for the final answer.
CallInLoop(t) ==
  /\ MayCall(t)
  /\ \E n \in 1..MaxCalls : Save(Append(msgs, Calls({CallOf(t, p) : p \in 1..n})))
  /\ todo' = [todo EXCEPT ![t] = <<Text>>]
  /\ iter' = [iter EXCEPT ![t] = MaxIterations]
  /\ Goto(t, "fold")
  /\ UNCHANGED <<loaded, depth, steerBuf, getting, lost, reloaded, overlapped>>

\* The model call fails (failTurn).
FailTurn(t) ==
  /\ MayCall(t)
  /\ Save(Append(msgs, Text))
  /\ Goto(t, "pad")
  /\ UNCHANGED <<loaded, depth, steerBuf, getting, iter, todo, lost, reloaded, overlapped>>

\* It is cancelled or answers nothing: nothing is recorded.
Quit(t) ==
  /\ MayCall(t)
  /\ Goto(t, "pad")
  /\ UNCHANGED <<sessionVars, iter, todo, history>>

\* No iteration is left: a last answer without tools, and no drain.
Conclude(t) ==
  /\ pc[t] = "llm"
  /\ iter[t] = MaxIterations
  /\ Save(Append(msgs, Text))
  /\ Goto(t, "pad")
  /\ UNCHANGED <<loaded, depth, steerBuf, getting, iter, todo, lost, reloaded, overlapped>>

\* Where a turn goes when it has appended everything.
After(state) ==
  CASE state = "results" -> "drain"
    [] state = "parked" -> "pad"
    [] state = "fold" -> "llm"
    [] state = "padding" -> "mark"
    [] state = "flush" -> "done"
    [] state = "hook" -> "hookEnd"

Appending == {"results", "parked", "fold", "padding", "flush", "hook"}

AppendNext(t) ==
  /\ pc[t] \in Appending
  /\ Save(Append(msgs, Head(todo[t])))
  /\ todo' = [todo EXCEPT ![t] = Tail(@)]
  /\ IF Len(todo[t]) = 1 THEN Goto(t, After(pc[t])) ELSE UNCHANGED pc
  /\ UNCHANGED <<loaded, depth, steerBuf, getting, iter, lost, reloaded, overlapped>>

\* DrainSteer and appendSteer, between rounds and after a final answer.
Drain(t) ==
  /\ pc[t] \in {"drain", "final"}
  /\ \/ /\ steerBuf # <<>>
        /\ todo' = [todo EXCEPT ![t] = steerBuf]
        /\ steerBuf' = <<>>
        /\ Goto(t, "fold")
     \/ /\ steerBuf = <<>>
        /\ Goto(t, IF pc[t] = "drain" THEN "llm" ELSE "pad")
        /\ UNCHANGED <<todo, steerBuf>>
  /\ UNCHANGED <<loaded, msgs, row, depth, getting, iter, history>>
----------------------------------------------------------------------------
(* The deferred calls of a turn, and a crash. *)

\* The loop has been left.  PadOrphanToolResults works on a copy of the working set.
ScanOrphans(t) ==
  /\ pc[t] = "pad"
  /\ iter' = [iter EXCEPT ![t] = 0]
  /\ \/ PadsFor(msgs) = <<>> /\ Goto(t, "end") /\ UNCHANGED todo
     \/ /\ PadsFor(msgs) # <<>>
        /\ todo' = [todo EXCEPT ![t] = PadsFor(msgs)]
        /\ Goto(t, "padding")
  /\ UNCHANGED <<sessionVars, history>>

MarkAborted(t) ==
  /\ pc[t] = "mark"
  /\ \/ Marked(msgs) # msgs /\ Save(Marked(msgs))
     \/ Marked(msgs) = msgs /\ UNCHANGED <<msgs, row, faults>>
  /\ Goto(t, "end")
  /\ UNCHANGED <<loaded, depth, steerBuf, getting, iter, todo, lost, reloaded, overlapped>>

\* Mutant: a turn is released twice, with no floor.
ReleasedTwice == depth - 2

Released == IF depth > 0 THEN depth - 1 ELSE 0

\* Mutant: what is left in the buffer is cleared and not flushed.
EndDiscards(t) ==
  /\ pc[t] = "end"
  /\ depth' = Released
  /\ steerBuf' = IF Released = 0 THEN <<>> ELSE steerBuf
  /\ Goto(t, "done")
  /\ UNCHANGED <<loaded, msgs, row, getting, iter, todo, history>>

\* EndTurn, then flushLeftoverSteer: the last turn to end takes what is left in
\* the buffer and appends it.
EndTurn(t) ==
  /\ pc[t] = "end"
  /\ depth' = Released
  /\ \/ /\ Released = 0 /\ steerBuf # <<>>
        /\ todo' = [todo EXCEPT ![t] = steerBuf]
        /\ steerBuf' = <<>>
        /\ Goto(t, "flush")
     \/ /\ Released > 0 \/ steerBuf = <<>>
        /\ Goto(t, "done")
        /\ UNCHANGED <<todo, steerBuf>>
  /\ UNCHANGED <<loaded, msgs, row, getting, iter, history>>

\* The end of a regex hook's exchange drops what EndTurn returns.
EndHook(t) ==
  /\ pc[t] = "hookEnd"
  /\ depth' = Released
  /\ \/ /\ Released = 0
        /\ lost' = lost \union SteersIn(steerBuf)
        /\ steerBuf' = <<>>
     \/ Released > 0 /\ UNCHANGED <<lost, steerBuf>>
  /\ Goto(t, "done")
  /\ UNCHANGED <<loaded, msgs, row, getting, iter, todo, faults, reloaded, overlapped>>

\* Steers that were accepted and are not in the row.
Unsaved == {s \in Messages : pc[s] = "accepted" /\ s \notin SteersIn(row)}

Crash ==
  /\ loaded
  /\ faults < MaxFaults
  /\ faults' = faults + 1
  /\ loaded' = FALSE
  /\ msgs' = <<>>
  /\ depth' = 0
  /\ steerBuf' = <<>>
  /\ getting' = NoGet
  /\ lost' = lost \union Unsaved
  /\ pc' = [a \in Actors |->
              IF pc[a] \in {"new", "skipped", "done", "accepted", "refused", "noted"}
              THEN pc[a] ELSE "dead"]
  /\ todo' = [t \in Turns |-> <<>>]
  /\ iter' = [t \in Turns |-> 0]
  /\ UNCHANGED <<row, reloaded, overlapped>>

Get(a) == Fetch(a) \/ Install(a) \/ Load(a) \/ LoadNothing(a) \/ DieLoading(a)

TurnStep(t) ==
  \/ Claim(t) \/ AppendUser(t) \/ Plan(t)
  \/ Reply(t) \/ CallTools(t) \/ CallInLoop(t) \/ FailTurn(t) \/ Quit(t) \/ Conclude(t)
  \/ AppendNext(t) \/ Drain(t)
  \/ ScanOrphans(t) \/ MarkAborted(t) \/ EndTurn(t) \/ EndHook(t)

\* Every message has been dealt with.
AtRest ==
  /\ \A a \in Actors : pc[a] \in {"accepted", "refused", "noted", "done", "skipped", "dead"}
  /\ UNCHANGED vars

Next ==
  \/ \E a \in Actors : Get(a)
  \/ \E m \in Messages : PushSteer(m) \/ Inject(m)
  \/ \E t \in Turns : TurnStep(t)
  \/ Crash
  \/ AtRest

\* A turn that can take a step takes one: model calls and tools end.
Fairness ==
  /\ \A t \in Turns : WF_vars(TurnStep(t))
  /\ \A a \in Actors : WF_vars(Install(a))

Spec == Init /\ [][Next]_vars
FairSpec == Spec /\ Fairness
----------------------------------------------------------------------------
History == Seq(Message)

TypeOK ==
  /\ loaded \in BOOLEAN
  /\ msgs \in History
  /\ row \in History
  /\ depth \in Nat
  /\ steerBuf \in History
  /\ getting \in [actor : Actors, row : History] \union {NoGet}
  /\ \A t \in Turns : pc[t] \in TurnState
  /\ \A m \in Messages : pc[m] \in MessageState
  /\ iter \in [Turns -> 0..MaxIterations]
  /\ todo \in [Turns -> History]
  /\ faults \in 0..MaxFaults
  /\ lost \in SUBSET Messages
  /\ reloaded \in BOOLEAN
  /\ overlapped \in BOOLEAN

\* turnDepth counts the turns in flight, however they overlap, end, lose their
\* claim or die, and a steer is buffered only while one of them is left to take it.
SteersHaveATaker ==
  /\ depth = Cardinality({t \in Turns : pc[t] \in InFlight})
  /\ steerBuf # <<>> => depth > 0

\* The places where an accepted steer may be: as often as it is there.
Places(s) ==
  Cardinality(Positions(msgs, Said(s)))
    + Cardinality(Positions(steerBuf, Said(s)))
    + Cardinality(UNION {{t} \X Positions(todo[t], Said(s)) : t \in Turns})

\* A steer that was accepted is in the buffer, in the hands of one turn or in the
\* history, and in one place only (in one at least when a Get put another history in
\* place), unless one of three events dropped it: a crash, such a Get, or the end
\* of a regex hook, which ignores what EndTurn returns.
SteersKept ==
  \A s \in Messages :
    pc[s] = "accepted" /\ loaded /\ s \notin lost =>
      IF reloaded THEN Places(s) >= 1 ELSE Places(s) = 1

\* When no turn is in flight every tool call of the history has one result, be it
\* a pad: however the turns ended, wherever the process died and however often,
\* unless turns overlapped (each pads the other's calls) or a Get put another
\* history in place.
CallsAnswered ==
  loaded /\ depth = 0 /\ ~overlapped /\ ~reloaded =>
    \A i \in Kinds(msgs, "calls") : \A c \in msgs[i].calls :
      Cardinality(AnswersAfter(msgs, i, c)) = 1

\* The turn-aborted marker is there once at most, whoever claims it.
OneMarker == Cardinality(Kinds(msgs, "aborted")) <= 1 /\ Cardinality(Kinds(row, "aborted")) <= 1

\* An accepted steer reaches the history, or is dropped by one of the three events.
SteersFolded ==
  \A s \in Messages :
    (pc[s] = "accepted") ~> (s \in lost \/ s \in SteersIn(msgs) \/ s \in SteersIn(row))

\* A tool message carries the result of the call it is recorded for ("each already
\* paired to its tool_use id", HandleMessage).
ResultsMatchCalls ==
  \A i \in Kinds(msgs, "tool") : msgs[i].result \in {msgs[i].call, Pad}
=============================================================================
