---------------------------- MODULE FailureSweep ----------------------------
(***************************************************************************)
(* The failure sweep of internal/gateway/gateway_failure_sweep.go: every    *)
(* pass looks at the sessions with recent failed LLM calls, replays a turn  *)
(* that died before any tool ran, with a doubling backoff and a cap, and    *)
(* tells the user once what became of it; with the turns it watches         *)
(* (internal/agent/loop.go) and the quota breaker every LLM call of an      *)
(* agent passes (internal/agent/quota_breaker.go).                          *)
(*                                                                          *)
(* A session's history is kept from the last message its user wrote: the    *)
(* chain analysis never looks further back.  Time is kept as ages and       *)
(* remaining waits, in ticks of one sweep period, each saturating where no  *)
(* guard tells further values apart: the clock has no end and the state     *)
(* space has one.  The knobs are such that the longest backoff fits the     *)
(* window, as the defaults do: it is not stretched, and a settled cache     *)
(* entry is older than the window (and pruned) only when its row is.        *)
(***************************************************************************)
EXTENDS Integers, Sequences, FiniteSets

CONSTANTS
    Sessions,     \* the sessions of one agent, which share its quota breaker
    NoSession,    \* the sweep is at no session
    UserTurns,    \* how many turns of its user's messages overlap on a session
    Sweeper,      \* the turn of the sweep's replay
    MaxAttempts,  \* replays of one failed turn (failureRetryMax)
    Base,         \* wait before the first replay, doubled after each
    Window,       \* failureScanWindow: rows looked at, notices remembered
    Probe,        \* the quota breaker's first probe interval
    CallTime,     \* an LLM call is over within so many sweep periods
    ProbeCap,     \* doublings of that interval (6 in the code)
    MaxFaults     \* bound: crashes, failed writes, deliveries and loads, steers and
                  \* user turns begun over another turn, together

ASSUME FailureAssumption ==
    /\ NoSession \notin Sessions /\ Sweeper \notin UserTurns
    /\ MaxAttempts \in Nat \ {0} /\ Base \in Nat \ {0}
    /\ Window \in Nat /\ Window > Base * 2^(MaxAttempts - 1)
    /\ Probe \in Nat \ {0} /\ ProbeCap \in Nat /\ CallTime \in Nat /\ MaxFaults \in Nat

VARIABLES
    hist,      \* hist[s]: the entries since the user's last message
    noticeAge, \* noticeAge[s]: age of the newest failure notice
    turn,      \* turn[s][t]: the turn t of session s
    ran,       \* ran[s]: a tool has run since the user's last message (history)
    rowAge,    \* rowAge[s]: age of the newest failed-call row
    breaker,   \* the agent's quota breaker
    scan,      \* scan[s]: the sweep's cache entry (failureScanState)
    claim,     \* claim[s][e]: age of the claim on notice e (failureNotified)
    saved,     \* saved[s]: the claims the settings row holds
    told,      \* told[s][e]: age of the last delivery of notice e (history)
    forgot,    \* forgot[s]: claims lost with a process since (history)
    sweep,     \* where the sweep's goroutine is
    due,       \* the ticker has fired
    faults     \* faults so far

vars == <<hist, noticeAge, turn, ran, rowAge, breaker, scan, claim, saved, told,
          forgot, sweep, due, faults>>

Turns == UserTurns \cup {Sweeper}

-----------------------------------------------------------------------------
\* Failure notices (OriginTurnError): of a call that failed, of a call the breaker
\* refused (category quota_open), and of either after tools ran (toolsExecuted > 0).
Notices == {"failed", "refused", "failedMidTool"}
Entries == {"user", "retry", "tools", "reply", "abort"} \cup Notices
Events == {"not_replayable", "gave_up", "recovered"}

Least(a, b) == IF a < b THEN a ELSE b
Greatest(a, b) == IF a < b THEN b ELSE a

Backoff(retries) == Base * 2^retries
LongestBackoff == Backoff(MaxAttempts - 1)

\* A history that ends in an unresolved failure: the user's request, then replays,
\* each followed by a notice.
IsChain(h) ==
    /\ Len(h) >= 2 /\ Len(h) % 2 = 0
    /\ \A i \in 1..Len(h) :
          h[i] \in CASE i = 1     -> {"user"}
                     [] i % 2 = 0 -> Notices
                     [] OTHER     -> {"retry"}
Retries_Unstamped(h) == 0        \* mutant: the replay's tag is not recognised
Retries(h) == Len(h) \div 2 - 1
Replayable(h) == \A i \in 1..Len(h) : h[i] # "failedMidTool"

NoTurn == [pc |-> "none", tools |-> FALSE, took |-> 0]
Begun == [pc |-> "begun", tools |-> FALSE, took |-> 0]
Asking(tools) == [pc |-> "asking", tools |-> tools, took |-> 0]
Unseen == [handled |-> FALSE, pending |-> FALSE, wait |-> 0]
Closed == [open |-> FALSE, wait |-> 0, streak |-> 0]
AtRest == [pc |-> "idle", at |-> NoSession, todo |-> {}, newer |-> {},
           event |-> "none", fresh |-> FALSE, ran |-> FALSE]

TypeOK ==
    /\ hist \in [Sessions -> Seq(Entries)]
    /\ noticeAge \in [Sessions -> 0..LongestBackoff]
    /\ turn \in [Sessions -> [Turns -> [pc : {"none", "begun", "asking", "calling"},
                                        tools : BOOLEAN, took : 0..CallTime]]]
    /\ ran \in [Sessions -> BOOLEAN]
    /\ rowAge \in [Sessions -> 0..Window + 1]
    /\ breaker \in [open : BOOLEAN, wait : 0..Probe * 2^ProbeCap, streak : 0..ProbeCap]
    /\ scan \in [Sessions -> [handled : BOOLEAN, pending : BOOLEAN,
                              wait : 0..LongestBackoff]]
    /\ claim \in [Sessions -> [Events -> 0..Window]]
    /\ told \in [Sessions -> [Events -> 0..Window]]
    /\ saved \in [Sessions -> SUBSET Events]
    /\ forgot \in [Sessions -> SUBSET Events]
    /\ sweep \in [pc : {"idle", "pass", "notify", "deliver", "replay", "running", "judge"},
                  at : Sessions \cup {NoSession}, todo : SUBSET Sessions,
                  newer : SUBSET Sessions, event : Events \cup {"none"}, fresh : BOOLEAN,
                  ran : BOOLEAN]
    /\ due \in BOOLEAN
    /\ faults \in 0..MaxFaults

Init ==
    /\ hist = [s \in Sessions |-> <<>>]
    /\ noticeAge = [s \in Sessions |-> 0]
    /\ turn = [s \in Sessions |-> [t \in Turns |-> NoTurn]]
    /\ ran = [s \in Sessions |-> FALSE]
    /\ rowAge = [s \in Sessions |-> Window + 1]
    /\ breaker = Closed
    /\ scan = [s \in Sessions |-> Unseen]
    /\ claim = [s \in Sessions |-> [e \in Events |-> Window]]
    /\ saved = [s \in Sessions |-> {}]
    /\ told = [s \in Sessions |-> [e \in Events |-> Window]]
    /\ forgot = [s \in Sessions |-> {}]
    /\ sweep = AtRest
    /\ due = TRUE
    /\ faults = 0

Fault == faults < MaxFaults /\ faults' = faults + 1

-----------------------------------------------------------------------------
(* Turns.                                                                   *)

InFlight(s) == \E t \in Turns : turn[s][t] # NoTurn

\* A user's turn begins whatever is in flight (BeginTurn); only the sweep's asks first.
\* (One that begins over another is counted with the faults.)
UserBegin(s, t) ==
    /\ t \in UserTurns /\ turn[s][t] = NoTurn
    /\ turn' = [turn EXCEPT ![s][t] = Begun]
    /\ \/ ~InFlight(s) /\ UNCHANGED faults
       \/ InFlight(s) /\ Fault
    /\ UNCHANGED <<hist, noticeAge, ran, rowAge, breaker, scan, claim, saved, told, forgot,
                   sweep, due>>

\* A message of the user starts the history over: it is another request than the one
\* the sweep may be about to replay.
NewRequest(s) ==
    /\ hist' = [hist EXCEPT ![s] = <<"user">>]
    /\ ran' = [ran EXCEPT ![s] = FALSE]
    /\ sweep' = [sweep EXCEPT !.fresh = @ /\ sweep.at # s]

\* The message is stored some time after the turn began; a replay is stamped as one.
StoreMessage(s, t) ==
    /\ turn[s][t].pc = "begun"
    /\ turn' = [turn EXCEPT ![s][t].pc = "asking"]
    /\ \/ t \in UserTurns /\ NewRequest(s)
       \/ /\ t = Sweeper
          /\ hist' = [hist EXCEPT ![s] = Append(@, "retry")]
          /\ UNCHANGED <<ran, sweep>>
    /\ UNCHANGED <<noticeAge, rowAge, breaker, scan, claim, saved, told, forgot, due, faults>>

Blocked == breaker.open /\ breaker.wait > 0

\* The turn ends with a notice on its failure.
FailTurn(s, t, notice) ==
    /\ hist' = [hist EXCEPT ![s] = Append(@, IF turn[s][t].tools THEN "failedMidTool"
                                                                 ELSE notice)]
    /\ noticeAge' = [noticeAge EXCEPT ![s] = 0]
    /\ turn' = [turn EXCEPT ![s][t] = NoTurn]

\* The call is refused while the breaker is open and no probe is due: no row is
\* written for it.
RefuseCall(s, t) ==
    /\ turn[s][t].pc = "asking" /\ Blocked
    /\ FailTurn(s, t, "refused")
    /\ UNCHANGED <<ran, rowAge, breaker, scan, claim, saved, told, forgot, sweep, due, faults>>

StartCall(s, t) ==
    /\ turn[s][t].pc = "asking" /\ ~Blocked
    /\ turn' = [turn EXCEPT ![s][t].pc = "calling"]
    /\ UNCHANGED <<hist, noticeAge, ran, rowAge, breaker, scan, claim, saved, told, forgot,
                   sweep, due, faults>>

\* A round of tools: calls and results are appended (rounds in a row count as one).  The
\* sweep is told (history) if it is for the request it is about to replay.
RunTools(s, t) ==
    /\ hist' = [hist EXCEPT ![s] = IF @ # <<>> /\ @[Len(@)] = "tools" THEN @
                                                                  ELSE Append(@, "tools")]
    /\ turn' = [turn EXCEPT ![s][t] = Asking(TRUE)]
    /\ ran' = [ran EXCEPT ![s] = TRUE]
    /\ sweep' = [sweep EXCEPT !.ran = @ \/ (sweep.fresh /\ sweep.at = s)]

\* Any success clears the breaker; the turn ends, or runs tools and asks again.
CallSucceeds(s, t) ==
    /\ turn[s][t].pc = "calling"
    /\ breaker' = Closed
    /\ \/ /\ hist' = [hist EXCEPT ![s] = Append(@, "reply")]
          /\ turn' = [turn EXCEPT ![s][t] = NoTurn]
          /\ UNCHANGED <<ran, sweep>>
       \/ RunTools(s, t)
    /\ UNCHANGED <<noticeAge, rowAge, scan, claim, saved, told, forgot, due, faults>>

\* After a reply or a round of tools, messages steered into the turn are appended and it
\* goes on: to the analysis, they are the request.  (Counted with the faults, to bound
\* how often it happens.)
SteeredOn(s, t) ==
    /\ turn[s][t].pc = "calling"
    /\ Fault
    /\ breaker' = Closed
    /\ NewRequest(s)
    /\ \E tools \in {turn[s][t].tools, TRUE} : turn' = [turn EXCEPT ![s][t] = Asking(tools)]
    /\ UNCHANGED <<noticeAge, rowAge, scan, claim, saved, told, forgot, due>>

\* A failed call leaves a row (at best effort in the code; here it is always written), which
\* is not among those the running pass has listed.
NewRow(s) ==
    /\ rowAge' = [rowAge EXCEPT ![s] = 0]
    /\ scan' = [scan EXCEPT ![s].handled = FALSE]
    /\ sweep' = [sweep EXCEPT !.newer = @ \cup {s}]

\* Mutant: the streak has no cap.
Trip_Uncapped == [open |-> TRUE, wait |-> Probe * 2^breaker.streak, streak |-> breaker.streak + 1]

Trip == [open |-> TRUE, wait |-> Probe * 2^breaker.streak,
         streak |-> Least(breaker.streak + 1, ProbeCap)]

CallFails(s, t) ==
    /\ turn[s][t].pc = "calling"
    /\ FailTurn(s, t, "failed")
    /\ NewRow(s)
    /\ breaker' \in {breaker, Trip}      \* out of quota, or another failure
    /\ UNCHANGED <<ran, claim, saved, told, forgot, due, faults>>

\* A call of a session that is not modelled passes the same breaker.
OtherCallEnds ==
    /\ Fault
    /\ breaker' \in {Closed, Trip}
    /\ UNCHANGED <<hist, noticeAge, turn, ran, rowAge, scan, claim, saved, told, forgot, sweep,
                   due>>

\* The user stops the turn: nothing is appended.
StopTurn(s, t) ==
    /\ t \in UserTurns /\ turn[s][t].pc = "calling"
    /\ turn' = [turn EXCEPT ![s][t] = NoTurn]
    /\ UNCHANGED <<hist, noticeAge, ran, rowAge, breaker, scan, claim, saved, told, forgot,
                   sweep, due, faults>>

-----------------------------------------------------------------------------
(* The sweep.                                                               *)

ShouldScan(s) ==
    /\ scan[s].pending => scan[s].wait = 0
    /\ scan[s].pending \/ ~scan[s].handled

\* The rows of the window, newest per session, less the sessions that are settled or
\* whose wait is not over.  Nothing but the sweep changes its cache but for new rows.
StartPass ==
    /\ sweep.pc = "idle" /\ due
    /\ due' = FALSE
    /\ sweep' = [AtRest EXCEPT !.pc = "pass",
                    !.todo = {s \in Sessions : rowAge[s] <= Window /\ ShouldScan(s)}]
    /\ UNCHANGED <<hist, noticeAge, turn, ran, rowAge, breaker, scan, claim, saved, told, forgot,
                   faults>>

\* setFailureState(handledUpTo = the row of the list, nextAt).
SetScan(s, pending, wait) ==
    scan' = [scan EXCEPT ![s] = [handled |-> s \notin sweep.newer, pending |-> pending,
                                 wait |-> wait]]

NextSession(s) == [sweep EXCEPT !.pc = "pass", !.at = NoSession, !.event = "none",
                                !.fresh = FALSE, !.ran = FALSE, !.todo = @ \ {s}]

\* The agent, its owner's space or the session cannot be loaded: tried again next pass.
SkipSession(s) ==
    /\ sweep.pc = "pass" /\ s \in sweep.todo
    /\ Fault
    /\ sweep' = NextSession(s)
    /\ UNCHANGED <<hist, noticeAge, turn, ran, rowAge, breaker, scan, claim, saved, told, forgot, due>>

Settle(s, event) ==
    /\ SetScan(s, FALSE, 0)
    /\ sweep' = IF event = "none" THEN NextSession(s)
                ELSE [sweep EXCEPT !.pc = "notify", !.at = s, !.event = event]

Wait(s, ticks) == SetScan(s, TRUE, ticks) /\ sweep' = NextSession(s)

\* handleFailureSession, for what the analysis of the history found.
Handle(s, failed, replayable) ==
    LET retries == Retries(hist[s])
        left == Backoff(retries) - noticeAge[s]
    IN  \/ ~failed /\ Settle(s, "none")
        \/ failed /\ ~replayable /\ Settle(s, "not_replayable")
        \/ failed /\ replayable /\ retries >= MaxAttempts /\ Settle(s, "gave_up")
        \/ failed /\ replayable /\ retries < MaxAttempts /\ left > 0 /\ Wait(s, left)
        \/ /\ failed /\ replayable /\ retries < MaxAttempts /\ left <= 0
           /\ \/ InFlight(s) /\ Wait(s, 0)
              \/ /\ ~InFlight(s)
                 /\ sweep' = [sweep EXCEPT !.pc = "replay", !.at = s, !.fresh = TRUE,
                                           !.ran = ran[s]]
                 /\ UNCHANGED scan

\* Mutant: the last notice alone decides.
HandleSession_ByTail(s) ==
    /\ sweep.pc = "pass" /\ s \in sweep.todo
    /\ Handle(s, hist[s] # <<>> /\ hist[s][Len(hist[s])] \in Notices, TRUE)
    /\ UNCHANGED <<hist, noticeAge, turn, ran, rowAge, breaker, claim, saved, told, forgot, due, faults>>

HandleSession(s) ==
    /\ sweep.pc = "pass" /\ s \in sweep.todo
    /\ Handle(s, IsChain(hist[s]), Replayable(hist[s]))
    /\ UNCHANGED <<hist, noticeAge, turn, ran, rowAge, breaker, claim, saved, told, forgot, due, faults>>

\* HandleMessage claims the session for the replay, unless a turn is in flight by now.
StartReplay ==
    LET s == sweep.at
    IN  /\ sweep.pc = "replay"
        /\ \/ /\ ~InFlight(s)
              /\ turn' = [turn EXCEPT ![s][Sweeper] = Begun]
              /\ sweep' = [sweep EXCEPT !.pc = "running"]
           \/ /\ InFlight(s)
              /\ sweep' = [sweep EXCEPT !.pc = "judge"]
              /\ UNCHANGED turn
        /\ UNCHANGED <<hist, noticeAge, ran, rowAge, breaker, scan, claim, saved, told, forgot,
                       due, faults>>

ReplayEnds ==
    /\ sweep.pc = "running" /\ turn[sweep.at][Sweeper] = NoTurn
    /\ sweep' = [sweep EXCEPT !.pc = "judge"]
    /\ UNCHANGED <<hist, noticeAge, turn, ran, rowAge, breaker, scan, claim, saved, told, forgot,
                   due, faults>>

\* Mutant: the session is settled until a newer row comes; a refused call writes none.
JudgeReplay_Settles ==
    LET s == sweep.at
    IN  /\ sweep.pc = "judge"
        /\ \/ IsChain(hist[s]) /\ Settle(s, "none")
           \/ /\ ~IsChain(hist[s])
              /\ sweep' = [sweep EXCEPT !.pc = "notify", !.event = "recovered"]
              /\ UNCHANGED scan
        /\ UNCHANGED <<hist, noticeAge, turn, ran, rowAge, breaker, claim, saved, told, forgot, due,
                       faults>>

\* Success is read off the history: it no longer ends in a failure chain.
JudgeReplay ==
    LET s == sweep.at
    IN  /\ sweep.pc = "judge"
        /\ \/ IsChain(hist[s]) /\ Wait(s, 0)
           \/ /\ ~IsChain(hist[s])
              /\ sweep' = [sweep EXCEPT !.pc = "notify", !.event = "recovered"]
              /\ UNCHANGED scan
        /\ UNCHANGED <<hist, noticeAge, turn, ran, rowAge, breaker, claim, saved, told, forgot,
                       due, faults>>

\* After a notice the pass goes on; after a recovery the session is settled first.
AfterNotice(s) ==
    /\ sweep' = NextSession(s)
    /\ \/ sweep.event = "recovered" /\ SetScan(s, FALSE, 0)
       \/ sweep.event # "recovered" /\ UNCHANGED scan

\* Mutant: the claims of the settings row are not consulted, as before they were kept.
Kept_Nothing(s, e) == Window

\* The age of a claim after a restart (loadFailureNotified).
Kept(s, e) == IF e \in saved[s] THEN claim[s][e] ELSE Window

\* claimFailureNotice: a claim younger than the window suppresses the notice; a new
\* one is written through with every claim still in the window, at best effort.
ClaimNotice ==
    LET s == sweep.at
        e == sweep.event
    IN  /\ sweep.pc = "notify"
        /\ \/ /\ claim[s][e] < Window
              /\ AfterNotice(s)
              /\ UNCHANGED <<claim, saved, faults>>
           \/ /\ claim[s][e] >= Window
              /\ claim' = [claim EXCEPT ![s][e] = 0]
              /\ \/ /\ saved' = [r \in Sessions |-> {f \in Events : claim'[r][f] < Window}]
                    /\ UNCHANGED faults
                 \/ Fault /\ saved' = [saved EXCEPT ![s] = @ \ {e}]
              /\ sweep' = [sweep EXCEPT !.pc = "deliver"]
              /\ UNCHANGED scan
        /\ UNCHANGED <<hist, noticeAge, turn, ran, rowAge, breaker, told, forgot, due>>

\* deliverSweepNudge: the channel and the queue may both fail.
DeliverNotice ==
    LET s == sweep.at
        e == sweep.event
    IN  /\ sweep.pc = "deliver"
        /\ \/ /\ told' = [told EXCEPT ![s][e] = 0]
              /\ forgot' = [forgot EXCEPT ![s] = @ \ {e}]
              /\ UNCHANGED faults
           \/ Fault /\ UNCHANGED <<told, forgot>>
        /\ AfterNotice(s)
        /\ UNCHANGED <<hist, noticeAge, turn, ran, rowAge, breaker, claim, saved, due>>

EndPass ==
    /\ sweep.pc = "pass" /\ sweep.todo = {}
    /\ sweep' = AtRest
    /\ UNCHANGED <<hist, noticeAge, turn, ran, rowAge, breaker, scan, claim, saved, told, forgot,
                   due, faults>>

-----------------------------------------------------------------------------
\* The process dies and starts again: turns, the sweep's cache and the breaker are
\* gone, the claims of the settings row are loaded, and a session that ends on an
\* unanswered message gets a marker when it is loaded.
Crash ==
    /\ Fault
    /\ hist' = [s \in Sessions |->
                  IF hist[s] # <<>> /\ hist[s][Len(hist[s])] \in {"user", "retry"}
                  THEN Append(hist[s], "abort") ELSE hist[s]]
    /\ turn' = [s \in Sessions |-> [t \in Turns |-> NoTurn]]
    /\ breaker' = Closed
    /\ scan' = [s \in Sessions |-> Unseen]
    /\ claim' = [s \in Sessions |-> [e \in Events |-> Kept(s, e)]]
    /\ forgot' = [s \in Sessions |-> forgot[s] \cup {e \in Events \ saved[s] :
                                                        claim[s][e] < Window}]
    /\ sweep' = AtRest
    /\ due' = TRUE
    /\ UNCHANGED <<noticeAge, ran, rowAge, saved, told>>

Older(age, cap) == Least(age + 1, cap)
Sooner(wait) == Greatest(wait - 1, 0)

\* A sweep period passes: the sweep is at rest, or in a replay; other steps of turns
\* than LLM calls take no time on this scale, and a call no more than CallTime.
Tick ==
    /\ \/ sweep.pc = "idle" /\ ~due
       \/ sweep.pc = "running" /\ turn[sweep.at][Sweeper] # NoTurn
    /\ \A s \in Sessions, t \in Turns : turn[s][t].pc \in {"none", "calling"}
    /\ \A s \in Sessions, t \in Turns : turn[s][t].pc = "calling" => turn[s][t].took < CallTime
    /\ turn' = [s \in Sessions |-> [t \in Turns |->
                  IF turn[s][t].pc = "calling" THEN [turn[s][t] EXCEPT !.took = @ + 1]
                  ELSE turn[s][t]]]
    /\ due' = TRUE
    /\ noticeAge' = [s \in Sessions |-> Older(noticeAge[s], LongestBackoff)]
    /\ rowAge' = [s \in Sessions |-> Older(rowAge[s], Window + 1)]
    /\ breaker' = [breaker EXCEPT !.wait = Sooner(@)]
    /\ scan' = [s \in Sessions |-> [scan[s] EXCEPT !.wait = Sooner(@)]]
    /\ claim' = [s \in Sessions |-> [e \in Events |-> Older(claim[s][e], Window)]]
    /\ told' = [s \in Sessions |-> [e \in Events |-> Older(told[s][e], Window)]]
    /\ UNCHANGED <<hist, ran, saved, forgot, sweep, faults>>

TurnStep(s, t) ==
    \/ StoreMessage(s, t)
    \/ RefuseCall(s, t)
    \/ StartCall(s, t)
    \/ CallSucceeds(s, t)
    \/ CallFails(s, t)

SweepStep ==
    \/ StartPass
    \/ \E s \in Sessions : HandleSession(s)
    \/ StartReplay
    \/ ReplayEnds
    \/ JudgeReplay
    \/ ClaimNotice
    \/ DeliverNotice
    \/ EndPass

Next ==
    \/ \E s \in Sessions, t \in Turns :
          UserBegin(s, t) \/ TurnStep(s, t) \/ SteeredOn(s, t) \/ StopTurn(s, t)
    \/ \E s \in Sessions : SkipSession(s)
    \/ OtherCallEnds
    \/ SweepStep
    \/ Crash
    \/ Tick

Spec == Init /\ [][Next]_vars

\* The goroutine of the sweep goes on, the replay it runs included, time passes, and a
\* turn that was begun goes on: an LLM call returns in the end.
Fairness ==
    /\ WF_vars(SweepStep \/ \E s \in Sessions : TurnStep(s, Sweeper))
    /\ WF_vars(Tick)
    /\ \A s \in Sessions, t \in UserTurns : WF_vars(TurnStep(s, t))

FairSpec == Spec /\ Fairness

-----------------------------------------------------------------------------
(* What must hold.                                                          *)

\* A request is replayed at most MaxAttempts times, whatever crashes, races and
\* refused calls lie between two replays: the count is read off the history alone.
CapKept ==
    \A s \in Sessions :
        Cardinality({i \in 1..Len(hist[s]) : hist[s][i] = "retry"}) <= MaxAttempts

\* When a replay is stored, no tool has run for the request it replays: not in the
\* user's turn, nor in an earlier replay, nor in a turn that overlapped them; whether or
\* not messages and steers have come between the analysis and the replay.
ReplaySafe ==
    [][\A s \in Sessions :
          turn[s][Sweeper].pc = "begun" /\ turn'[s][Sweeper].pc = "asking" => ~sweep.ran]_vars

\* The same notice of a session is delivered twice within the window only after a
\* crash lost its claim, which a failed write had kept out of the settings row.
ToldOnce ==
    [][\A s \in Sessions, e \in Events :
          sweep.pc = "deliver" /\ sweep.at = s /\ sweep.event = e /\ told'[s] # told[s]
          => told[s][e] >= Window \/ e \in forgot[s]]_vars

\* A failed request does not stay where it is: it is replayed until it is answered,
\* stopped or superseded, or the cap is reached and giving up is announced, though a
\* replay the breaker refuses writes no row to be found by.  (A request whose very first
\* call is refused has no row either, and is not covered: nothing makes the sweep look.)
NoStall ==
    \A s \in Sessions :
        IsChain(hist[s]) /\ hist[s][2] = "failed" /\ Retries(hist[s]) < MaxAttempts
        ~> \/ ~IsChain(hist[s])
           \/ Retries(hist[s]) >= MaxAttempts /\ claim[s]["gave_up"] < Window
=============================================================================
