------------------------- MODULE FailureSweepProofs -------------------------
(***************************************************************************)
(* Proofs about the failure sweep, for any sessions, knobs and faults, and *)
(* any number of overlapping turns: a request is replayed no more often    *)
(* than the cap says, and not once a tool has run for it; a notice is not  *)
(* delivered twice, and every variable keeps its type, the waits and ages  *)
(* their bounds.                                                           *)
(***************************************************************************)
EXTENDS FailureSweep, FiniteSetTheorems, TLAPS

Turn == [pc : {"none", "begun", "asking", "calling"}, tools : BOOLEAN, took : 0..CallTime]
SweepState == [pc : {"idle", "pass", "notify", "deliver", "replay", "running", "judge"},
               at : Sessions \cup {NoSession}, todo : SUBSET Sessions,
               newer : SUBSET Sessions, event : Events \cup {"none"}, fresh : BOOLEAN,
               ran : BOOLEAN]
Ages == [Sessions -> [Events -> 0..Window]]

\* What the rest needs of the types.
Typed ==
  /\ hist \in [Sessions -> Seq(Entries)]
  /\ turn \in [Sessions -> [Turns -> Turn]]
  /\ ran \in [Sessions -> BOOLEAN]
  /\ sweep \in SweepState
  /\ claim \in Ages /\ told \in Ages
  /\ forgot \in [Sessions -> SUBSET Events]
  /\ sweep.pc \in {"notify", "deliver", "replay", "running", "judge"} => sweep.at \in Sessions
  /\ sweep.pc \in {"notify", "deliver"} => sweep.event \in Events

\* A replay in flight is the one the sweep waits for.
OneReplay ==
  \A s \in Sessions : turn[s][Sweeper].pc # "none" => sweep.pc = "running" /\ sweep.at = s

WellFormed == Typed /\ OneReplay

LEMMA TurnsTyped == NoTurn \in Turn /\ Begun \in Turn /\ \A tools \in BOOLEAN : Asking(tools) \in Turn
  <1>1. 0 \in 0..CallTime
    BY FailureAssumption
  <1> QED BY <1>1 DEF NoTurn, Begun, Asking, Turn

LEMMA ConstantsTyped ==
  Window \in Nat /\ MaxAttempts \in Nat /\ AtRest \in SweepState /\ Sweeper \in Turns
  BY FailureAssumption DEF AtRest, SweepState, Turns

LEMMA TypedInit == Init => WellFormed
  <1> SUFFICES ASSUME Init PROVE WellFormed
    OBVIOUS
  <1>1. turn \in [Sessions -> [Turns -> Turn]]
    BY TurnsTyped DEF Init
  <1>2. Typed
    BY <1>1, ConstantsTyped DEF Init, Typed, Ages, AtRest
  <1>3. OneReplay
    BY ConstantsTyped DEF Init, OneReplay, NoTurn
  <1> QED BY <1>2, <1>3 DEF WellFormed

----------------------------------------------------------------------------
(* The steps of turns.                                                      *)

TurnAction(s, t) == UserBegin(s, t) \/ TurnStep(s, t) \/ SteeredOn(s, t) \/ StopTurn(s, t)

\* The turn t of s becomes u: it begins only for a message of the user, and the sweep's
\* only where the sweep begins it.
Becomes(s, t, u) ==
  /\ turn' = [turn EXCEPT ![s][t] = u]
  /\ u.pc = "begun" => t \in UserTurns
  /\ t = Sweeper /\ u.pc # "none" => turn[s][t].pc # "none"

\* What a turn does to the history.
Written(s, t) ==
  \/ hist' = hist
  \/ hist' = [hist EXCEPT ![s] = <<"user">>]
  \/ \E e \in Entries \ {"retry"} : hist' = [hist EXCEPT ![s] = Append(hist[s], e)]
  \/ /\ t = Sweeper /\ turn[s][t].pc = "begun"
     /\ hist' = [hist EXCEPT ![s] = Append(hist[s], "retry")]

\* ... and to what is known of its tools: nothing, unless a message starts another request
\* or tools run.
Marked(s, t) ==
  \/ /\ ran' = ran /\ sweep'.fresh = sweep.fresh /\ sweep'.ran = sweep.ran
     /\ t \in UserTurns => turn[s][t].pc # "begun"
     /\ hist' = hist \/ \E e \in Entries : hist' = [hist EXCEPT ![s] = Append(hist[s], e)]
  \/ /\ UserBegin(s, t)
  \/ /\ ran' = [ran EXCEPT ![s] = FALSE] /\ sweep'.ran = sweep.ran
     /\ sweep'.fresh = (sweep.fresh /\ sweep.at # s)
  \/ turn[s][t].pc = "calling" /\ RunTools(s, t)

\* How a turn changes.
LEMMA TurnSet ==
  ASSUME WellFormed, NEW s \in Sessions, NEW t \in Turns, NEW u \in Turn,
         turn' = [turn EXCEPT ![s][t] = u]
  PROVE  /\ turn' \in [Sessions -> [Turns -> Turn]]
         /\ \A r \in Sessions, v \in Turns :
               turn'[r][v] = IF r = s /\ v = t THEN u ELSE turn[r][v]
  BY DEF WellFormed, Typed

\* How a history changes.
LEMMA HistTyped ==
  ASSUME WellFormed, NEW s \in Sessions, NEW e \in Entries
  PROVE  /\ [hist EXCEPT ![s] = Append(hist[s], e)] \in [Sessions -> Seq(Entries)]
         /\ [hist EXCEPT ![s] = <<"user">>] \in [Sessions -> Seq(Entries)]
  <1>1. Append(hist[s], e) \in Seq(Entries)
    BY DEF WellFormed, Typed
  <1>2. <<"user">> \in Seq(Entries)
    BY DEF Entries
  <1> QED BY <1>1, <1>2 DEF WellFormed, Typed

\* A round of tools is written, once.
LEMMA ToolsWritten ==
  ASSUME WellFormed, NEW s \in Sessions, NEW t \in Turns, RunTools(s, t)
  PROVE  /\ \/ hist' = hist
            \/ hist' = [hist EXCEPT ![s] = Append(hist[s], "tools")]
         /\ \E i \in 1..Len(hist'[s]) : hist'[s][i] = "tools"
  <1>1. hist[s] \in Seq(Entries)
    BY DEF WellFormed, Typed
  <1>2. CASE hist[s] # <<>> /\ hist[s][Len(hist[s])] = "tools"
    <2>1. hist' = [hist EXCEPT ![s] = hist[s]]
      BY <1>2 DEF RunTools
    <2>2. hist' = hist
      BY <2>1 DEF WellFormed, Typed
    <2>3. Len(hist[s]) \in 1..Len(hist[s])
      BY <1>1, <1>2
    <2> QED BY <1>2, <2>2, <2>3
  <1>3. CASE ~(hist[s] # <<>> /\ hist[s][Len(hist[s])] = "tools")
    <2>1. hist' = [hist EXCEPT ![s] = Append(hist[s], "tools")]
      BY <1>3 DEF RunTools
    <2>2. hist'[s] = Append(hist[s], "tools")
      BY <2>1 DEF WellFormed, Typed
    <2>3. Len(hist[s]) + 1 \in 1..Len(hist'[s]) /\ hist'[s][Len(hist[s]) + 1] = "tools"
      BY <1>1, <2>2
    <2> QED BY <2>1, <2>3
  <1> QED BY <1>2, <1>3

LEMMA TurnActs ==
  ASSUME WellFormed, NEW s \in Sessions, NEW t \in Turns, TurnAction(s, t)
  PROVE  /\ \E u \in Turn : Becomes(s, t, u)
         /\ Written(s, t) /\ Marked(s, t)
         /\ sweep' \in SweepState /\ sweep'.pc = sweep.pc /\ sweep'.at = sweep.at
         /\ sweep'.event = sweep.event
         /\ UNCHANGED <<claim, told, forgot>>
         /\ ran' \in [Sessions -> BOOLEAN]
  <1> DEFINE old == turn[s][t]
             Acted == /\ \E u \in Turn : Becomes(s, t, u)
                      /\ Written(s, t) /\ Marked(s, t)
                      /\ sweep' \in SweepState /\ sweep'.pc = sweep.pc /\ sweep'.at = sweep.at
                      /\ sweep'.event = sweep.event
                      /\ UNCHANGED <<claim, told, forgot>>
                      /\ ran' \in [Sessions -> BOOLEAN]
  <1>0. /\ old \in Turn /\ sweep \in SweepState /\ ran \in [Sessions -> BOOLEAN]
        /\ t \in UserTurns \/ t = Sweeper
        /\ Sweeper \notin UserTurns
    BY FailureAssumption DEF WellFormed, Typed, Turns
  <1>m. ASSUME NEW pc \in {"asking", "calling"}
        PROVE  [old EXCEPT !.pc = pc] \in Turn /\ [old EXCEPT !.pc = pc].pc = pc
    BY <1>0 DEF Turn
  <1>1. CASE UserBegin(s, t)
    <2>1. Becomes(s, t, Begun)
      BY <1>0, <1>1 DEF UserBegin, Becomes
    <2> QED BY <1>0, <1>1, <2>1, TurnsTyped DEF UserBegin, Written, Marked
  <1>n. ASSUME NewRequest(s)
        PROVE  /\ Written(s, t) /\ Marked(s, t) /\ ran' \in [Sessions -> BOOLEAN]
               /\ sweep' \in SweepState /\ sweep'.pc = sweep.pc /\ sweep'.at = sweep.at
               /\ sweep'.event = sweep.event
    <2> DEFINE fresh == sweep.fresh /\ sweep.at # s
    <2>1. fresh \in BOOLEAN
      BY <1>0 DEF SweepState
    <2>2. sweep' = [sweep EXCEPT !.fresh = fresh]
      BY <1>n DEF NewRequest
    <2> HIDE DEF fresh
    <2>3. /\ sweep' \in SweepState /\ sweep'.pc = sweep.pc /\ sweep'.at = sweep.at
          /\ sweep'.event = sweep.event /\ sweep'.ran = sweep.ran /\ sweep'.fresh = fresh
      BY <1>0, <2>1, <2>2 DEF SweepState
    <2>4. ran' = [ran EXCEPT ![s] = FALSE] /\ hist' = [hist EXCEPT ![s] = <<"user">>]
      BY <1>n DEF NewRequest
    <2>5. Marked(s, t)
      BY <2>3, <2>4 DEF Marked, fresh
    <2> QED BY <1>0, <2>3, <2>4, <2>5 DEF Written
  <1>2. CASE StoreMessage(s, t)
    <2> DEFINE u == [old EXCEPT !.pc = "asking"]
    <2>1. u \in Turn /\ u.pc = "asking" /\ old.pc = "begun" /\ turn' = [turn EXCEPT ![s][t] = u]
      BY <1>2, <1>m DEF StoreMessage
    <2> HIDE DEF u
    <2>2. Becomes(s, t, u)
      BY <2>1 DEF Becomes
    <2>3. UNCHANGED <<claim, told, forgot>>
      BY <1>2 DEF StoreMessage
    <2>4. CASE NewRequest(s)
      BY <1>n, <2>1, <2>2, <2>3, <2>4
    <2>5. CASE /\ t = Sweeper /\ hist' = [hist EXCEPT ![s] = Append(hist[s], "retry")]
               /\ UNCHANGED <<ran, sweep>>
      <3>1. Written(s, t)
        BY <2>1, <2>5 DEF Written
      <3>2. Marked(s, t)
        BY <1>0, <2>5 DEF Marked, Entries
      <3> QED BY <1>0, <2>1, <2>2, <2>3, <2>5, <3>1, <3>2
    <2> QED BY <1>2, <2>4, <2>5 DEF StoreMessage
  <1>3. CASE RefuseCall(s, t) \/ CallFails(s, t)
    <2>1. PICK notice \in Notices : FailTurn(s, t, notice)
      BY <1>3 DEF RefuseCall, CallFails, Notices
    <2>2. Becomes(s, t, NoTurn)
      BY <2>1 DEF FailTurn, Becomes, NoTurn
    <2>3. \E e \in Entries \ {"retry"} : hist' = [hist EXCEPT ![s] = Append(hist[s], e)]
      <3> DEFINE e == IF old.tools THEN "failedMidTool" ELSE notice
      <3>1. e \in Entries \ {"retry"} /\ hist' = [hist EXCEPT ![s] = Append(hist[s], e)]
        BY <2>1 DEF FailTurn, Notices, Entries
      <3> HIDE DEF e
      <3> QED BY <3>1
    <2>4. /\ sweep' \in SweepState /\ sweep'.pc = sweep.pc /\ sweep'.at = sweep.at
          /\ sweep'.event = sweep.event /\ sweep'.fresh = sweep.fresh /\ sweep'.ran = sweep.ran
      <3>1. CASE RefuseCall(s, t)
        BY <1>0, <3>1 DEF RefuseCall
      <3>2. CASE CallFails(s, t)
        <4> DEFINE newer == sweep.newer \cup {s}
        <4>1. newer \in SUBSET Sessions /\ sweep' = [sweep EXCEPT !.newer = newer]
          BY <1>0, <3>2 DEF SweepState, CallFails, NewRow
        <4> HIDE DEF newer
        <4> QED BY <1>0, <4>1 DEF SweepState
      <3> QED BY <1>3, <3>1, <3>2
    <2>5. UNCHANGED <<ran, claim, told, forgot>> /\ old.pc # "begun"
      BY <1>3 DEF RefuseCall, CallFails
    <2>6. Written(s, t) /\ Marked(s, t)
      BY <2>3, <2>4, <2>5 DEF Written, Marked
    <2> QED BY <1>0, <2>2, <2>4, <2>5, <2>6, TurnsTyped
  <1>4. CASE StartCall(s, t)
    <2> DEFINE u == [old EXCEPT !.pc = "calling"]
    <2>1. u \in Turn /\ u.pc = "calling" /\ old.pc = "asking" /\ turn' = [turn EXCEPT ![s][t] = u]
      BY <1>4, <1>m DEF StartCall
    <2> HIDE DEF u
    <2>2. Becomes(s, t, u)
      BY <2>1 DEF Becomes
    <2>3. UNCHANGED <<hist, ran, sweep, claim, told, forgot>>
      BY <1>4 DEF StartCall
    <2>4. Written(s, t) /\ Marked(s, t)
      BY <2>1, <2>3 DEF Written, Marked
    <2> QED BY <1>0, <2>1, <2>2, <2>3, <2>4
  <1>a. ASSUME old.pc = "calling", NEW tools \in BOOLEAN, turn' = [turn EXCEPT ![s][t] = Asking(tools)]
        PROVE  \E u \in Turn : Becomes(s, t, u)
    <2>1. Becomes(s, t, Asking(tools))
      BY <1>a DEF Becomes, Asking
    <2> QED BY <2>1, TurnsTyped
  <1>5. CASE CallSucceeds(s, t)
    <2>1. old.pc = "calling" /\ UNCHANGED <<claim, told, forgot>>
      BY <1>5 DEF CallSucceeds
    <2>2. CASE /\ hist' = [hist EXCEPT ![s] = Append(@, "reply")]
               /\ turn' = [turn EXCEPT ![s][t] = NoTurn]
               /\ UNCHANGED <<ran, sweep>>
      <3>1. Becomes(s, t, NoTurn)
        BY <2>2 DEF Becomes, NoTurn
      <3>2. "reply" \in Entries \ {"retry"}
        BY DEF Entries
      <3>3. Written(s, t) /\ Marked(s, t)
        BY <2>1, <2>2, <3>2 DEF Written, Marked
      <3> QED BY <1>0, <2>1, <2>2, <3>1, <3>3, TurnsTyped
    <2>3. CASE RunTools(s, t)
      <3>1. \E u \in Turn : Becomes(s, t, u)
        BY <1>a, <2>1, <2>3 DEF RunTools
      <3>2. "tools" \in Entries \ {"retry"}
        BY DEF Entries
      <3>3. Written(s, t) /\ Marked(s, t)
        BY <2>1, <2>3, <3>2, ToolsWritten DEF Written, Marked
      <3> DEFINE tooled == sweep.ran \/ (sweep.fresh /\ sweep.at = s)
      <3>4. tooled \in BOOLEAN /\ sweep' = [sweep EXCEPT !.ran = tooled]
        BY <1>0, <2>3 DEF RunTools, SweepState
      <3> HIDE DEF tooled
      <3>5. /\ sweep' \in SweepState /\ sweep'.pc = sweep.pc /\ sweep'.at = sweep.at
            /\ sweep'.event = sweep.event
        BY <1>0, <3>4 DEF SweepState
      <3>6. ran' \in [Sessions -> BOOLEAN]
        BY <1>0, <2>3 DEF RunTools
      <3> QED BY <2>1, <3>1, <3>3, <3>5, <3>6
    <2> QED BY <1>5, <2>2, <2>3 DEF CallSucceeds
  <1>6. CASE SteeredOn(s, t)
    <2>1. PICK tools \in {old.tools, TRUE} : turn' = [turn EXCEPT ![s][t] = Asking(tools)]
      BY <1>6 DEF SteeredOn
    <2>2. tools \in BOOLEAN /\ old.pc = "calling" /\ NewRequest(s) /\ UNCHANGED <<claim, told, forgot>>
      BY <1>0, <1>6, <2>1 DEF SteeredOn, Turn
    <2> QED BY <1>a, <1>n, <2>1, <2>2
  <1>7. CASE StopTurn(s, t)
    <2>1. Becomes(s, t, NoTurn)
      BY <1>7 DEF StopTurn, Becomes, NoTurn
    <2>2. UNCHANGED <<hist, ran, sweep, claim, told, forgot>> /\ old.pc = "calling"
      BY <1>7 DEF StopTurn
    <2>3. Written(s, t) /\ Marked(s, t)
      BY <2>2 DEF Written, Marked
    <2> QED BY <1>0, <2>1, <2>2, <2>3, TurnsTyped
  <1> HIDE DEF Acted
  <1>8. Acted
    BY <1>1, <1>2, <1>3, <1>4, <1>5, <1>6, <1>7 DEF TurnAction, TurnStep, Acted
  <1> QED BY <1>8 DEF Acted

LEMMA TypedTurns ==
  ASSUME WellFormed, NEW s \in Sessions, NEW t \in Turns, TurnAction(s, t)
  PROVE  WellFormed'
  <1>1. PICK u \in Turn : Becomes(s, t, u)
    BY TurnActs
  <1>2. /\ turn' \in [Sessions -> [Turns -> Turn]]
        /\ \A r \in Sessions, v \in Turns : turn'[r][v] = IF r = s /\ v = t THEN u ELSE turn[r][v]
    BY <1>1, TurnSet DEF Becomes
  <1>3. hist' \in [Sessions -> Seq(Entries)]
    <2>1. Written(s, t) /\ "retry" \in Entries
      BY TurnActs DEF Entries
    <2>2. CASE hist' = hist
      BY <2>2 DEF WellFormed, Typed
    <2>3. CASE hist' = [hist EXCEPT ![s] = <<"user">>]
      BY <2>1, <2>3, HistTyped
    <2>4. ASSUME NEW e \in Entries, hist' = [hist EXCEPT ![s] = Append(hist[s], e)]
          PROVE  hist' \in [Sessions -> Seq(Entries)]
      BY <2>4, HistTyped
    <2> QED BY <2>1, <2>2, <2>3, <2>4 DEF Written
  <1>4. /\ sweep' \in SweepState /\ sweep'.pc = sweep.pc /\ sweep'.at = sweep.at
        /\ sweep'.event = sweep.event /\ UNCHANGED <<claim, told, forgot>>
        /\ ran' \in [Sessions -> BOOLEAN]
    BY TurnActs
  <1>5. Typed'
    BY <1>2, <1>3, <1>4 DEF WellFormed, Typed
  <1>6. OneReplay'
    <2> SUFFICES ASSUME NEW r \in Sessions, turn'[r][Sweeper].pc # "none"
                 PROVE  sweep'.pc = "running" /\ sweep'.at = r
      BY DEF OneReplay
    <2>1. turn[r][Sweeper].pc # "none"
      BY <1>1, <1>2, ConstantsTyped DEF Becomes
    <2> QED BY <1>4, <2>1 DEF WellFormed, OneReplay
  <1> QED BY <1>5, <1>6 DEF WellFormed

----------------------------------------------------------------------------
(* The steps of the sweep.                                                  *)

\* The sweep moves on while it waits for no replay.
LEMMA SweepMoved ==
  ASSUME WellFormed, UNCHANGED turn,
         sweep.pc = "running" => turn[sweep.at][Sweeper].pc = "none"
  PROVE  OneReplay'
  BY DEF WellFormed, OneReplay

LEMMA NextSessionTyped ==
  ASSUME WellFormed, NEW s \in Sessions
  PROVE  NextSession(s) \in SweepState /\ NextSession(s).pc = "pass"
  BY DEF NextSession, WellFormed, Typed, SweepState

\* The session is settled, with a notice or without, or looked at again later.
LEMMA JudgedTyped ==
  ASSUME WellFormed, NEW s \in Sessions,
         \/ \E event \in Events \cup {"none"} : Settle(s, event)
         \/ \E ticks : Wait(s, ticks)
         \/ /\ sweep' = [sweep EXCEPT !.pc = "replay", !.at = s, !.fresh = TRUE, !.ran = ran[s]]
         \/ /\ sweep.at = s
            /\ sweep' = [sweep EXCEPT !.pc = "notify", !.event = "recovered"]
  PROVE  /\ sweep' \in SweepState
         /\ sweep'.pc \in {"pass", "notify", "replay"}
         /\ sweep'.pc # "pass" => sweep'.at = s
         /\ sweep'.pc = "notify" => sweep'.event \in Events
         /\ sweep'.pc = "replay" =>
               sweep' = [sweep EXCEPT !.pc = "replay", !.at = s, !.fresh = TRUE, !.ran = ran[s]]
  <1> USE DEF WellFormed, Typed, SweepState
  <1>1. CASE \E event \in Events \cup {"none"} : Settle(s, event)
    <2>1. PICK event \in Events \cup {"none"} : Settle(s, event)
      BY <1>1
    <2>2. CASE event = "none"
      BY <2>1, <2>2, NextSessionTyped DEF Settle
    <2>3. CASE event \in Events /\ event # "none"
      BY <2>1, <2>3, NextSessionTyped DEF Settle
    <2> QED BY <2>2, <2>3
  <1>2. CASE \E ticks : Wait(s, ticks)
    BY <1>2, NextSessionTyped DEF Wait
  <1>3. CASE sweep' = [sweep EXCEPT !.pc = "replay", !.at = s, !.fresh = TRUE, !.ran = ran[s]]
    BY <1>3
  <1>4. CASE /\ sweep.at = s
             /\ sweep' = [sweep EXCEPT !.pc = "notify", !.event = "recovered"]
    BY <1>4 DEF Events
  <1> QED BY <1>1, <1>2, <1>3, <1>4

\* What handleFailureSession decides.
LEMMA HandleDecides ==
  ASSUME NEW s \in Sessions, HandleSession(s)
  PROVE  \/ \E event \in Events \cup {"none"} : Settle(s, event)
         \/ \E ticks : Wait(s, ticks)
         \/ /\ sweep' = [sweep EXCEPT !.pc = "replay", !.at = s, !.fresh = TRUE, !.ran = ran[s]]
            /\ ~InFlight(s) /\ IsChain(hist[s]) /\ Replayable(hist[s])
            /\ Retries(hist[s]) < MaxAttempts
  BY DEF HandleSession, Handle, Events

LEMMA AfterNoticeTyped ==
  ASSUME WellFormed, NEW s \in Sessions, AfterNotice(s)
  PROVE  sweep' \in SweepState /\ sweep'.pc = "pass"
  BY NextSessionTyped DEF AfterNotice

LEMMA TypedSweep ==
  ASSUME WellFormed, SweepStep \/ \E s \in Sessions : SkipSession(s)
  PROVE  WellFormed'
  <1> USE DEF WellFormed, Typed
  <1>1. CASE StartPass
    <2>1. sweep' \in SweepState /\ sweep'.pc = "pass" /\ sweep.pc = "idle"
      BY <1>1, ConstantsTyped DEF StartPass, AtRest, SweepState
    <2> QED BY <1>1, <2>1, SweepMoved DEF StartPass
  <1>2. ASSUME NEW s \in Sessions, HandleSession(s) PROVE WellFormed'
    <2>1. /\ sweep' \in SweepState /\ sweep'.pc \in {"pass", "notify", "replay"}
          /\ sweep'.pc # "pass" => sweep'.at = s
          /\ sweep'.pc = "notify" => sweep'.event \in Events
      BY <1>2, HandleDecides, JudgedTyped
    <2>2. sweep.pc = "pass" /\ UNCHANGED <<hist, turn, ran, claim, told, forgot>>
      BY <1>2 DEF HandleSession
    <2> QED BY <2>1, <2>2, SweepMoved
  <1>3. ASSUME NEW s \in Sessions, SkipSession(s) PROVE WellFormed'
    BY <1>3, NextSessionTyped, SweepMoved DEF SkipSession
  <1>4. CASE StartReplay
    <2>1. sweep.pc = "replay" /\ sweep.at \in Sessions
      BY <1>4 DEF StartReplay
    <2>2. CASE /\ turn' = [turn EXCEPT ![sweep.at][Sweeper] = Begun]
               /\ sweep' = [sweep EXCEPT !.pc = "running"]
      <3>1. /\ turn' \in [Sessions -> [Turns -> Turn]]
            /\ \A r \in Sessions, v \in Turns :
                 turn'[r][v] = IF r = sweep.at /\ v = Sweeper THEN Begun ELSE turn[r][v]
        BY <2>1, <2>2, TurnSet, TurnsTyped, ConstantsTyped
      <3>2. sweep' \in SweepState /\ sweep'.pc = "running" /\ sweep'.at = sweep.at
        BY <2>2 DEF SweepState
      <3>3. OneReplay'
        BY <2>1, <3>1, <3>2, ConstantsTyped DEF OneReplay
      <3> QED BY <1>4, <2>1, <3>1, <3>2, <3>3 DEF StartReplay
    <2>3. CASE UNCHANGED turn /\ sweep' = [sweep EXCEPT !.pc = "judge"]
      <3>1. sweep' \in SweepState /\ sweep'.pc = "judge" /\ sweep'.at = sweep.at
        BY <2>3 DEF SweepState
      <3> QED BY <1>4, <2>1, <2>3, <3>1, SweepMoved DEF StartReplay
    <2> QED BY <1>4, <2>2, <2>3 DEF StartReplay
  <1>5. CASE ReplayEnds
    <2>1. sweep' \in SweepState /\ sweep'.pc = "judge" /\ sweep'.at = sweep.at /\ sweep.at \in Sessions
      BY <1>5 DEF ReplayEnds, SweepState
    <2>2. turn[sweep.at][Sweeper].pc = "none"
      BY <1>5 DEF ReplayEnds, NoTurn
    <2> QED BY <1>5, <2>1, <2>2, SweepMoved DEF ReplayEnds
  <1>6. CASE JudgeReplay
    <2>1. sweep.pc = "judge" /\ sweep.at \in Sessions /\ UNCHANGED <<hist, turn, ran, claim, told, forgot>>
      BY <1>6 DEF JudgeReplay
    <2>2. \/ Wait(sweep.at, 0)
          \/ sweep' = [sweep EXCEPT !.pc = "notify", !.event = "recovered"]
      BY <1>6 DEF JudgeReplay
    <2>3. /\ sweep' \in SweepState /\ sweep'.pc \in {"pass", "notify", "replay"}
          /\ sweep'.pc # "pass" => sweep'.at = sweep.at
          /\ sweep'.pc = "notify" => sweep'.event \in Events
      BY <2>1, <2>2, JudgedTyped
    <2> QED BY <2>1, <2>3, SweepMoved
  <1>7. CASE ClaimNotice
    <2>1. sweep.pc = "notify" /\ sweep.at \in Sessions /\ sweep.event \in Events
          /\ UNCHANGED <<hist, turn, ran, told, forgot>>
      BY <1>7 DEF ClaimNotice
    <2>2. CASE AfterNotice(sweep.at) /\ UNCHANGED claim
      BY <2>1, <2>2, AfterNoticeTyped, SweepMoved
    <2>3. CASE /\ claim' = [claim EXCEPT ![sweep.at][sweep.event] = 0]
               /\ sweep' = [sweep EXCEPT !.pc = "deliver"]
      <3>1. sweep' \in SweepState /\ sweep'.pc = "deliver" /\ sweep'.at = sweep.at
            /\ sweep'.event = sweep.event
        BY <2>3 DEF SweepState
      <3>2. claim' \in Ages
        BY <2>1, <2>3, ConstantsTyped DEF Ages
      <3> QED BY <2>1, <3>1, <3>2, SweepMoved
    <2> QED BY <1>7, <2>2, <2>3 DEF ClaimNotice
  <1>8. CASE DeliverNotice
    <2>1. sweep.pc = "deliver" /\ sweep.at \in Sessions /\ sweep.event \in Events
          /\ UNCHANGED <<hist, turn, ran, claim>> /\ AfterNotice(sweep.at)
      BY <1>8 DEF DeliverNotice
    <2>2. told' \in Ages /\ forgot' \in [Sessions -> SUBSET Events]
      <3>1. CASE UNCHANGED <<told, forgot>>
        BY <3>1
      <3>2. CASE /\ told' = [told EXCEPT ![sweep.at][sweep.event] = 0]
                 /\ forgot' = [forgot EXCEPT ![sweep.at] = @ \ {sweep.event}]
        <4>1. told' \in Ages
          BY <2>1, <3>2, ConstantsTyped DEF Ages
        <4>2. forgot' \in [Sessions -> SUBSET Events]
          BY <3>2
        <4> QED BY <4>1, <4>2
      <3> QED BY <1>8, <3>1, <3>2 DEF DeliverNotice
    <2> QED BY <2>1, <2>2, AfterNoticeTyped, SweepMoved
  <1>9. CASE EndPass
    BY <1>9, ConstantsTyped, SweepMoved DEF EndPass, AtRest
  <1> QED BY <1>1, <1>2, <1>3, <1>4, <1>5, <1>6, <1>7, <1>8, <1>9 DEF SweepStep

LEMMA OlderTyped ==
  ASSUME NEW cap \in Nat, NEW age \in 0..cap
  PROVE  Older(age, cap) \in 0..cap
  BY DEF Older, Least

\* The clock touches no turn but for how long its call has taken.
LEMMA TickTyped ==
  ASSUME WellFormed, Tick
  PROVE  /\ turn' \in [Sessions -> [Turns -> Turn]]
         /\ \A s \in Sessions, t \in Turns : turn'[s][t].pc = turn[s][t].pc
  <1> DEFINE next(s, t) == IF turn[s][t].pc = "calling" THEN [turn[s][t] EXCEPT !.took = @ + 1]
                           ELSE turn[s][t]
  <1>1. ASSUME NEW s \in Sessions, NEW t \in Turns
        PROVE  next(s, t) \in Turn /\ next(s, t).pc = turn[s][t].pc
    <2>1. turn[s][t] \in Turn /\ CallTime \in Nat
      BY FailureAssumption DEF WellFormed, Typed
    <2>2. CASE turn[s][t].pc = "calling"
      <3>1. turn[s][t].took < CallTime
        BY <2>2 DEF Tick
      <3>2. turn[s][t].took + 1 \in 0..CallTime
        BY <2>1, <3>1 DEF Turn
      <3> QED BY <2>1, <2>2, <3>2 DEF Turn
    <2> QED BY <2>1, <2>2
  <1>2. turn' = [s \in Sessions |-> [t \in Turns |-> next(s, t)]]
    BY DEF Tick
  <1> HIDE DEF next
  <1> QED BY <1>1, <1>2

LEMMA TypedNext == WellFormed /\ [Next]_vars => WellFormed'
  <1> SUFFICES ASSUME WellFormed, [Next]_vars PROVE WellFormed'
    OBVIOUS
  <1>1. CASE UNCHANGED vars \/ OtherCallEnds
    <2>1. UNCHANGED <<hist, turn, ran, sweep, claim, told, forgot>>
      BY <1>1 DEF vars, OtherCallEnds
    <2> QED BY <2>1 DEF WellFormed, Typed, OneReplay
  <1>2. CASE \E s \in Sessions, t \in Turns : TurnAction(s, t)
    BY <1>2, TypedTurns
  <1>3. CASE SweepStep \/ \E s \in Sessions : SkipSession(s)
    BY <1>3, TypedSweep
  <1>4. CASE Crash
    <2>1. hist' \in [Sessions -> Seq(Entries)]
      <3>1. ASSUME NEW s \in Sessions PROVE hist'[s] \in Seq(Entries)
        <4>1. "abort" \in Entries /\ hist[s] \in Seq(Entries)
          BY DEF Entries, WellFormed, Typed
        <4>2. Append(hist[s], "abort") \in Seq(Entries)
          BY <4>1
        <4> QED BY <1>4, <4>1, <4>2 DEF Crash
      <3> QED BY <1>4, <3>1 DEF Crash
    <2>2. claim' \in Ages
      BY <1>4, ConstantsTyped DEF Crash, Kept, Ages, WellFormed, Typed
    <2>3. forgot' \in [Sessions -> SUBSET Events]
      BY <1>4 DEF Crash, WellFormed, Typed
    <2>4. /\ turn' = [s \in Sessions |-> [t \in Turns |-> NoTurn]] /\ sweep' = AtRest
          /\ told' = told /\ ran' = ran
      BY <1>4 DEF Crash
    <2>5. OneReplay'
      BY <2>4, ConstantsTyped DEF OneReplay, NoTurn
    <2>6. turn' \in [Sessions -> [Turns -> Turn]]
      BY <2>4, TurnsTyped
    <2>7. Typed'
      BY <2>1, <2>2, <2>3, <2>4, <2>6, ConstantsTyped DEF WellFormed, Typed, AtRest
    <2> QED BY <2>5, <2>7 DEF WellFormed
  <1>5. CASE Tick
    <2>1. claim' \in Ages /\ told' \in Ages
      <3>1. ASSUME NEW s \in Sessions, NEW e \in Events
            PROVE  Older(claim[s][e], Window) \in 0..Window /\ Older(told[s][e], Window) \in 0..Window
        BY OlderTyped, ConstantsTyped DEF WellFormed, Typed, Ages
      <3> QED BY <1>5, <3>1 DEF Tick, Ages
    <2>2. UNCHANGED <<hist, ran, forgot, sweep>>
      BY <1>5 DEF Tick
    <2>3. turn' \in [Sessions -> [Turns -> Turn]]
          /\ \A s \in Sessions : turn'[s][Sweeper].pc = turn[s][Sweeper].pc
      BY <1>5, TickTyped, ConstantsTyped
    <2> QED BY <2>1, <2>2, <2>3 DEF WellFormed, Typed, OneReplay
  <1> QED BY <1>1, <1>2, <1>3, <1>4, <1>5 DEF Next, TurnAction

----------------------------------------------------------------------------
(* A notice is not delivered twice within the window.                       *)

\* The last delivery of a notice is no younger than the claim on it, unless that was
\* lost; and the sweep delivers what was not delivered within the window.
Claimed ==
  /\ \A s \in Sessions, e \in Events : e \in forgot[s] \/ claim[s][e] <= told[s][e]
  /\ sweep.pc = "deliver" =>
       /\ claim[sweep.at][sweep.event] = 0
       /\ told[sweep.at][sweep.event] >= Window \/ sweep.event \in forgot[sweep.at]

LEMMA ClaimedSweep ==
  ASSUME WellFormed, Claimed, SweepStep \/ \E s \in Sessions : SkipSession(s)
  PROVE  Claimed'
  <1> USE DEF WellFormed, Typed
  <1>1. CASE StartPass \/ EndPass \/ StartReplay \/ ReplayEnds \/ \E s \in Sessions : SkipSession(s)
    <2>1. UNCHANGED <<claim, told, forgot>>
      BY <1>1 DEF StartPass, EndPass, StartReplay, ReplayEnds, SkipSession
    <2>2. sweep'.pc # "deliver"
      <3>0. CASE StartPass
        <4> DEFINE todo == {s \in Sessions : rowAge[s] <= Window /\ ShouldScan(s)}
        <4>1. sweep' = [AtRest EXCEPT !.pc = "pass", !.todo = todo]
          BY <3>0 DEF StartPass
        <4> HIDE DEF todo
        <4> QED BY <4>1 DEF AtRest
      <3>1. CASE EndPass
        BY <3>1 DEF EndPass, AtRest
      <3>2. CASE StartReplay \/ ReplayEnds
        BY <3>2 DEF StartReplay, ReplayEnds, SweepState
      <3>3. CASE \E s \in Sessions : SkipSession(s)
        BY <3>3, NextSessionTyped DEF SkipSession
      <3> QED BY <1>1, <3>0, <3>1, <3>2, <3>3
    <2> QED BY <2>1, <2>2 DEF Claimed
  <1>2. CASE JudgeReplay \/ \E s \in Sessions : HandleSession(s)
    <2>1. UNCHANGED <<claim, told, forgot>>
      BY <1>2 DEF JudgeReplay, HandleSession
    <2>2. sweep'.pc # "deliver"
      <3>1. CASE JudgeReplay
        BY <3>1, JudgedTyped DEF JudgeReplay
      <3>2. CASE \E s \in Sessions : HandleSession(s)
        BY <3>2, HandleDecides, JudgedTyped
      <3> QED BY <1>2, <3>1, <3>2
    <2> QED BY <2>1, <2>2 DEF Claimed
  <1>3. CASE ClaimNotice
    <2> DEFINE s0 == sweep.at
               e0 == sweep.event
    <2>1. s0 \in Sessions /\ e0 \in Events /\ UNCHANGED <<told, forgot>>
      BY <1>3 DEF ClaimNotice
    <2>2. CASE AfterNotice(s0) /\ UNCHANGED claim
      BY <2>1, <2>2, AfterNoticeTyped DEF Claimed
    <2>3. CASE /\ claim[s0][e0] >= Window
               /\ claim' = [claim EXCEPT ![s0][e0] = 0]
               /\ sweep' = [sweep EXCEPT !.pc = "deliver"]
      <3>1. sweep'.at = s0 /\ sweep'.event = e0
        BY <2>3 DEF SweepState
      <3>2. \A s \in Sessions, e \in Events :
              claim'[s][e] = IF s = s0 /\ e = e0 THEN 0 ELSE claim[s][e]
        BY <2>1, <2>3 DEF Ages
      <3>3. \A s \in Sessions, e \in Events : claim[s][e] \in 0..Window /\ told[s][e] \in 0..Window
        BY DEF Ages
      <3> HIDE DEF s0, e0
      <3>c. Window \in Nat
        BY ConstantsTyped
      <3>4. told[s0][e0] >= Window \/ e0 \in forgot[s0]
        BY <2>1, <2>3, <3>3, ConstantsTyped DEF Claimed
      <3>5. sweep'.pc = "deliver"
        BY <2>3 DEF SweepState
      <3>6. ASSUME NEW s \in Sessions, NEW e \in Events, ~(s = s0 /\ e = e0)
            PROVE  claim'[s][e] = claim[s][e] /\ told'[s][e] = told[s][e] /\ forgot'[s] = forgot[s]
        BY <2>1, <3>2, <3>6
      <3>7. claim'[s0][e0] = 0 /\ told'[s0][e0] = told[s0][e0] /\ forgot'[s0] = forgot[s0]
        BY <2>1, <3>2
      <3>8. ASSUME NEW s \in Sessions, NEW e \in Events
            PROVE  claim'[s][e] <= told'[s][e] \/ e \in forgot'[s]
        BY <3>3, <3>6, <3>7, <3>8 DEF Claimed
      <3> QED BY <3>1, <3>4, <3>5, <3>7, <3>8 DEF Claimed
    <2> QED BY <1>3, <2>2, <2>3 DEF ClaimNotice
  <1>4. CASE DeliverNotice
    <2> DEFINE s0 == sweep.at
               e0 == sweep.event
    <2>1. /\ s0 \in Sessions /\ e0 \in Events /\ UNCHANGED claim /\ claim[s0][e0] = 0
          /\ sweep'.pc = "pass"
      BY <1>4, AfterNoticeTyped DEF DeliverNotice, Claimed
    <2>2. CASE UNCHANGED <<told, forgot>>
      BY <2>1, <2>2 DEF Claimed
    <2>3. CASE /\ told' = [told EXCEPT ![s0][e0] = 0]
               /\ forgot' = [forgot EXCEPT ![s0] = @ \ {e0}]
      <3>1. \A s \in Sessions, e \in Events :
              /\ told'[s][e] = IF s = s0 /\ e = e0 THEN 0 ELSE told[s][e]
              /\ e \in forgot[s] /\ ~(s = s0 /\ e = e0) => e \in forgot'[s]
        BY <2>1, <2>3 DEF Ages
      <3> HIDE DEF s0, e0
      <3> QED BY <2>1, <3>1 DEF Claimed
    <2> QED BY <1>4, <2>2, <2>3 DEF DeliverNotice
  <1> QED BY <1>1, <1>2, <1>3, <1>4 DEF SweepStep

LEMMA ClaimedNext == WellFormed /\ Claimed /\ [Next]_vars => Claimed'
  <1> SUFFICES ASSUME WellFormed, Claimed, [Next]_vars PROVE Claimed'
    OBVIOUS
  <1>1. CASE UNCHANGED vars \/ OtherCallEnds
    BY <1>1 DEF vars, OtherCallEnds, Claimed
  <1>2. CASE \E s \in Sessions, t \in Turns : TurnAction(s, t)
    BY <1>2, TurnActs DEF Claimed
  <1>3. CASE SweepStep \/ \E s \in Sessions : SkipSession(s)
    BY <1>3, ClaimedSweep
  <1>4. CASE Crash
    <2>1. sweep'.pc # "deliver" /\ UNCHANGED told
      BY <1>4 DEF Crash, AtRest
    <2>2. ASSUME NEW s \in Sessions, NEW e \in Events
          PROVE  e \in forgot'[s] \/ claim'[s][e] <= told[s][e]
      <3>1. claim'[s][e] = Kept(s, e)
        BY <1>4 DEF Crash
      <3>2. /\ forgot[s] \subseteq forgot'[s]
            /\ e \notin saved[s] /\ claim[s][e] < Window => e \in forgot'[s]
        BY <1>4 DEF Crash
      <3>3. e \in forgot[s] \/ claim[s][e] <= told[s][e]
        BY DEF Claimed
      <3>4. claim[s][e] \in 0..Window
        BY DEF WellFormed, Typed, Ages
      <3> QED BY <3>1, <3>2, <3>3, <3>4, ConstantsTyped DEF Kept
    <2> QED BY <2>1, <2>2 DEF Claimed
  <1>5. CASE Tick
    <2>1. sweep'.pc # "deliver" /\ UNCHANGED forgot
      BY <1>5 DEF Tick
    <2>2. ASSUME NEW s \in Sessions, NEW e \in Events
          PROVE  e \in forgot[s] \/ claim'[s][e] <= told'[s][e]
      <3>1. claim'[s][e] = Older(claim[s][e], Window) /\ told'[s][e] = Older(told[s][e], Window)
        BY <1>5 DEF Tick
      <3>2. e \in forgot[s] \/ claim[s][e] <= told[s][e]
        BY DEF Claimed
      <3>3. claim[s][e] \in 0..Window /\ told[s][e] \in 0..Window
        BY DEF WellFormed, Typed, Ages
      <3> QED BY <3>1, <3>2, <3>3, ConstantsTyped DEF Older, Least
    <2> QED BY <2>1, <2>2 DEF Claimed
  <1> QED BY <1>1, <1>2, <1>3, <1>4, <1>5 DEF Next, TurnAction

LEMMA ClaimedInit == Init => Claimed
  BY ConstantsTyped DEF Init, Claimed, AtRest

\* The same notice of a session is delivered twice within the window only after its claim
\* was lost with the process, whatever fails and crashes in between.
THEOREM NoticeToldOnce == Spec => ToldOnce
  <1>1. WellFormed /\ Claimed /\ [Next]_vars =>
          [\A s \in Sessions, e \in Events :
             sweep.pc = "deliver" /\ sweep.at = s /\ sweep.event = e /\ told'[s] # told[s]
             => told[s][e] >= Window \/ e \in forgot[s]]_vars
    BY DEF Claimed
  <1> QED BY <1>1, TypedInit, TypedNext, ClaimedInit, ClaimedNext, PTL DEF Spec, ToldOnce

----------------------------------------------------------------------------
(* A request is replayed at most MaxAttempts times, and never after a tool. *)

Retried(h) == {i \in 1..Len(h) : h[i] = "retry"}
Times(h) == Cardinality(Retried(h))
Toolless(h) == \A i \in 1..Len(h) : h[i] \notin {"tools", "failedMidTool", "reply"}

LEMMA TimesTyped ==
  ASSUME NEW h \in Seq(Entries)
  PROVE  IsFiniteSet(Retried(h)) /\ Times(h) \in Nat
  <1>1. IsFiniteSet(1..Len(h))
    BY FS_Interval
  <1>2. IsFiniteSet(Retried(h))
    BY <1>1, FS_Subset DEF Retried
  <1> QED BY <1>2, FS_CardinalityType DEF Times

LEMMA TimesAppend ==
  ASSUME NEW h \in Seq(Entries), NEW e \in Entries
  PROVE  Times(Append(h, e)) = IF e = "retry" THEN Times(h) + 1 ELSE Times(h)
  <1> DEFINE g == Append(h, e)
             n == Len(h) + 1
  <1>1. /\ Len(g) = n /\ g[n] = e /\ \A i \in 1..Len(h) : g[i] = h[i]
        /\ Len(h) \in Nat
    OBVIOUS
  <1> HIDE DEF g
  <1>2. CASE e = "retry"
    <2>1. Retried(g) = Retried(h) \cup {n} /\ n \notin Retried(h)
      BY <1>1, <1>2 DEF Retried
    <2>2. Cardinality(Retried(g)) = Cardinality(Retried(h)) + 1
      BY <2>1, TimesTyped, FS_AddElement
    <2> QED BY <1>2, <2>2 DEF Times, g
  <1>3. CASE e # "retry"
    <2>1. Retried(g) = Retried(h)
      BY <1>1, <1>3 DEF Retried
    <2> QED BY <1>3, <2>1 DEF Times, g
  <1> QED BY <1>2, <1>3

LEMMA TimesNone == Times(<<>>) = 0 /\ Times(<<"user">>) = 0
  <1>1. Retried(<<>>) = {} /\ Retried(<<"user">>) = {}
    BY DEF Retried
  <1> QED BY <1>1, FS_EmptySet DEF Times

LEMMA Halves ==
  ASSUME NEW n \in Nat
  PROVE  /\ n % 2 = 0 => n = 2 * (n \div 2)
         /\ n % 2 # 0 => \E k \in Nat : n = 2 * k + 1 /\ k = (n - 1) \div 2
  <1>1. CASE n % 2 = 0
    <2>1. \E k \in Nat : n = 2 * k /\ n \div 2 = k
      BY <1>1
    <2> QED BY <1>1, <2>1
  <1>2. CASE n % 2 # 0
    <2>1. PICK k \in Nat : n = 2 * k + 1
      BY <1>2
    <2>2. k = (n - 1) \div 2
      BY <2>1
    <2> QED BY <1>2, <2>1, <2>2
  <1> QED BY <1>1, <1>2

\* The analysis counts no fewer replays than there are.
LEMMA TimesChain ==
  ASSUME NEW h \in Seq(Entries), IsChain(h)
  PROVE  Times(h) <= Retries(h)
  <1> DEFINE k == Len(h) \div 2 - 1
             f == [i \in Retried(h) |-> (i - 1) \div 2]
  <1>1. Len(h) \in Nat /\ Len(h) >= 2 /\ k \in Nat
    BY DEF IsChain
  <1>2. ASSUME NEW i \in Retried(h) PROVE i \in 3..Len(h) /\ i % 2 = 1 /\ i # Len(h)
    <2>1. i \in 1..Len(h) /\ h[i] = "retry"
      BY DEF Retried
    <2>2. h[i] \in CASE i = 1     -> {"user"}
                     [] i % 2 = 0 -> Notices
                     [] OTHER     -> {"retry"}
      BY <2>1 DEF IsChain
    <2>3. i # 1
      BY <2>1, <2>2
    <2>4. i % 2 # 0
      BY <2>1, <2>2, <2>3 DEF Notices
    <2>5. Len(h) % 2 = 0
      BY DEF IsChain
    <2> QED BY <1>1, <2>1, <2>3, <2>4, <2>5
  <1>3. ASSUME NEW i \in Retried(h) PROVE f[i] \in 1..k /\ i = 2 * f[i] + 1
    <2>1. Len(h) = 2 * (k + 1)
      BY <1>1, Halves DEF IsChain
    <2>2. i \in Nat /\ i % 2 # 0
      BY <1>2
    <2>3. \E q \in Nat : i = 2 * q + 1 /\ q = (i - 1) \div 2
      BY <2>2, Halves
    <2> HIDE DEF k
    <2> QED BY <1>1, <1>2, <2>1, <2>3
  <1>4. IsFiniteSet(1..k) /\ Cardinality(1..k) = k
    <2>1. k \in Nat
      BY <1>1
    <2> HIDE DEF k
    <2> QED BY <2>1, FS_Interval
  <1>5. ~(Cardinality(1..k) < Cardinality(Retried(h)))
    <2>1. f \in [Retried(h) -> 1..k]
      BY <1>3
    <2>2. \A i, j \in Retried(h) : f[i] = f[j] => i = j
      BY <1>3
    <2>3. IsFiniteSet(Retried(h))
      BY TimesTyped
    <2>4. Cardinality(1..k) < Cardinality(Retried(h)) =>
            \E i, j \in Retried(h) : i # j /\ f[i] = f[j]
      <3> HIDE DEF f, k
      <3> QED BY <1>4, <2>1, <2>3, FS_PigeonHole
    <2> HIDE DEF f, k
    <2> QED BY <2>2, <2>4
  <1> QED BY <1>1, <1>4, <1>5, TimesTyped DEF Times, Retries

LEMMA ChainToolless ==
  ASSUME NEW h \in Seq(Entries), IsChain(h), Replayable(h)
  PROVE  Toolless(h)
  <1> SUFFICES ASSUME NEW i \in 1..Len(h) PROVE h[i] \notin {"tools", "failedMidTool", "reply"}
    BY DEF Toolless
  <1>1. h[i] \in CASE i = 1     -> {"user"}
                   [] i % 2 = 0 -> Notices
                   [] OTHER     -> {"retry"}
    BY DEF IsChain
  <1>2. h[i] \in {"user", "retry"} \cup Notices
    BY <1>1
  <1> QED BY <1>2 DEF Notices, Replayable

\* The sweep replays, and has begun to replay, only below the cap.
Capped ==
  /\ \A s \in Sessions :
       /\ Times(hist[s]) <= MaxAttempts
       /\ turn[s][Sweeper].pc = "begun" => Times(hist[s]) < MaxAttempts
  /\ sweep.pc = "replay" => Times(hist[sweep.at]) < MaxAttempts

\* What tools ran for, the history shows.
RanShown ==
  \A s \in Sessions : ran[s] => \E i \in 1..Len(hist[s]) : hist[s][i] = "tools"

\* A replay that is about to be stored: no tool has run for it, and until a message or a
\* steer comes no turn is in flight that could run one.
Beginning ==
  sweep.pc = "replay" \/ (\E s \in Sessions : turn[s][Sweeper].pc = "begun") =>
    /\ ~sweep.ran
    /\ sweep.fresh => \A t \in Turns : turn[sweep.at][t].pc \in {"none", "begun"}

Spared == RanShown /\ Beginning

\* A step of one session's turn: what it may do to the history.
LEMMA TurnsKeepCap ==
  ASSUME WellFormed, Capped, NEW s \in Sessions, NEW t \in Turns, TurnAction(s, t)
  PROVE  Capped'
  <1>1. /\ hist[s] \in Seq(Entries) /\ Times(hist[s]) \in Nat /\ Times(hist[s]) <= MaxAttempts
        /\ MaxAttempts \in Nat \ {0} /\ Sweeper \in Turns /\ Sweeper \notin UserTurns
    BY TimesTyped, FailureAssumption DEF WellFormed, Typed, Capped, Turns
  <1>2. PICK u \in Turn : Becomes(s, t, u)
    BY TurnActs
  <1>3. \A r \in Sessions, v \in Turns : turn'[r][v] = IF r = s /\ v = t THEN u ELSE turn[r][v]
    BY <1>2, TurnSet DEF Becomes
  <1>w. Written(s, t)
    BY TurnActs
  <1>4. \A r \in Sessions \ {s} : hist'[r] = hist[r]
    BY <1>w DEF Written, WellFormed, Typed
  <1>5. ASSUME NEW r \in Sessions, turn'[r][Sweeper].pc = "begun"
        PROVE  turn[r][Sweeper].pc = "begun" /\ ~(r = s /\ t = Sweeper)
    BY <1>1, <1>2, <1>3, <1>5 DEF Becomes
  <1>6. \/ Times(hist'[s]) \in 0..Times(hist[s])
        \/ /\ t = Sweeper /\ turn[s][Sweeper].pc = "begun"
           /\ Times(hist'[s]) = Times(hist[s]) + 1
    <2>1. CASE hist' = hist
      BY <1>1, <2>1
    <2>2. CASE hist' = [hist EXCEPT ![s] = <<"user">>]
      <3>1. hist'[s] = <<"user">>
        BY <2>2 DEF WellFormed, Typed
      <3> QED BY <1>1, <3>1, TimesNone
    <2>3. ASSUME NEW e \in Entries \ {"retry"}, hist' = [hist EXCEPT ![s] = Append(hist[s], e)]
          PROVE  Times(hist'[s]) = Times(hist[s])
      <3>1. hist'[s] = Append(hist[s], e)
        BY <2>3 DEF WellFormed, Typed
      <3> QED BY <1>1, <3>1, TimesAppend
    <2>4. CASE /\ t = Sweeper /\ turn[s][t].pc = "begun"
               /\ hist' = [hist EXCEPT ![s] = Append(hist[s], "retry")]
      <3>1. hist'[s] = Append(hist[s], "retry") /\ "retry" \in Entries
        BY <2>4 DEF WellFormed, Typed, Entries
      <3>2. Times(hist'[s]) = Times(hist[s]) + 1
        BY <1>1, <3>1, TimesAppend
      <3> QED BY <2>4, <3>2
    <2> QED BY <1>1, <1>w, <2>1, <2>2, <2>3, <2>4 DEF Written
  \* Were the replay to be stored, or begun, it would be below the cap.
  <1>7. ASSUME sweep.pc = "replay" \/ \E r \in Sessions : turn[r][Sweeper].pc = "begun" /\ t # Sweeper
        PROVE  Times(hist'[s]) \in 0..Times(hist[s])
    <2>1. ~(t = Sweeper /\ turn[s][Sweeper].pc = "begun")
      BY <1>7 DEF WellFormed, OneReplay
    <2> QED BY <1>6, <2>1
  <1>8. Times(hist'[s]) <= MaxAttempts
    <2>1. turn[s][Sweeper].pc = "begun" => Times(hist[s]) < MaxAttempts
      BY DEF Capped
    <2> QED BY <1>1, <1>6, <2>1
  <1>9. ASSUME NEW r \in Sessions, turn'[r][Sweeper].pc = "begun"
        PROVE  Times(hist'[r]) < MaxAttempts
    <2>1. turn[r][Sweeper].pc = "begun" /\ ~(r = s /\ t = Sweeper) /\ Times(hist[r]) < MaxAttempts
      BY <1>5, <1>9 DEF Capped
    <2>2. CASE r = s
      BY <1>1, <1>7, <2>1, <2>2
    <2>3. CASE r # s
      BY <1>4, <2>1, <2>3
    <2> QED BY <2>2, <2>3
  <1>10. sweep'.pc = "replay" => Times(hist'[sweep'.at]) < MaxAttempts
    <2>1. sweep'.pc = sweep.pc /\ sweep'.at = sweep.at
      BY TurnActs
    <2>2. ASSUME sweep.pc = "replay" PROVE Times(hist'[sweep.at]) < MaxAttempts
      <3>1. sweep.at \in Sessions /\ Times(hist[sweep.at]) < MaxAttempts
        BY <2>2 DEF WellFormed, Typed, Capped
      <3>2. CASE sweep.at = s
        BY <1>1, <1>7, <2>2, <3>1, <3>2
      <3>3. CASE sweep.at # s
        BY <1>4, <3>1, <3>3
      <3> QED BY <3>2, <3>3
    <2> QED BY <2>1, <2>2
  <1>11. ASSUME NEW r \in Sessions PROVE Times(hist'[r]) <= MaxAttempts
    BY <1>4, <1>8 DEF Capped
  <1> QED BY <1>9, <1>10, <1>11 DEF Capped

\* What an entry is appended to still shows what it showed.
LEMMA StillShown ==
  ASSUME NEW h \in Seq(Entries), NEW e \in Entries, NEW i \in 1..Len(h)
  PROVE  i \in 1..Len(Append(h, e)) /\ Append(h, e)[i] = h[i]
  OBVIOUS

LEMMA TurnsSpare ==
  ASSUME WellFormed, Spared, NEW s \in Sessions, NEW t \in Turns, TurnAction(s, t)
  PROVE  Spared'
  <1>1. PICK u \in Turn : Becomes(s, t, u)
    BY TurnActs
  <1>2. \A r \in Sessions, v \in Turns : turn'[r][v] = IF r = s /\ v = t THEN u ELSE turn[r][v]
    BY <1>1, TurnSet DEF Becomes
  <1>3. /\ sweep'.pc = sweep.pc /\ sweep'.at = sweep.at
        /\ ran \in [Sessions -> BOOLEAN] /\ hist \in [Sessions -> Seq(Entries)]
        /\ Sweeper \in Turns /\ Sweeper \notin UserTurns /\ (t \in UserTurns \/ t = Sweeper)
    BY TurnActs, FailureAssumption DEF WellFormed, Typed, Turns
  \* What the turn does to the notes on its session's tools.
  <1>m. \/ /\ ran' = ran /\ sweep'.fresh = sweep.fresh /\ sweep'.ran = sweep.ran
           /\ t \in UserTurns => turn[s][t].pc # "begun"
           /\ hist' = hist \/ \E e \in Entries : hist' = [hist EXCEPT ![s] = Append(hist[s], e)]
        \/ UserBegin(s, t)
        \/ /\ ran' = [ran EXCEPT ![s] = FALSE] /\ sweep'.ran = sweep.ran
           /\ sweep'.fresh = (sweep.fresh /\ sweep.at # s)
        \/ turn[s][t].pc = "calling" /\ RunTools(s, t)
    BY TurnActs DEF Marked
  <1>4. RanShown'
    <2> SUFFICES ASSUME NEW r \in Sessions, ran'[r]
                 PROVE  \E i \in 1..Len(hist'[r]) : hist'[r][i] = "tools"
      BY DEF RanShown
    <2>0. ran[r] => \E i \in 1..Len(hist[r]) : hist[r][i] = "tools"
      BY DEF Spared, RanShown
    <2>1. ASSUME ran' = ran, NEW e \in Entries, hist' = [hist EXCEPT ![s] = Append(hist[s], e)]
          PROVE  \E i \in 1..Len(hist'[r]) : hist'[r][i] = "tools"
      <3>1. PICK i \in 1..Len(hist[r]) : hist[r][i] = "tools"
        BY <2>0, <2>1
      <3>2. hist'[r] = hist[r] \/ hist'[r] = Append(hist[r], e)
        BY <1>3, <2>1
      <3>3. hist[r] \in Seq(Entries)
        BY <1>3
      <3>4. i \in 1..Len(hist'[r]) /\ hist'[r][i] = "tools"
        BY <3>1, <3>2, <3>3, StillShown
      <3> QED BY <3>4
    <2>2. CASE ran' = ran /\ hist' = hist
      BY <2>0, <2>2
    <2>3. CASE UserBegin(s, t)
      <3>1. ran' = ran /\ hist' = hist
        BY <2>3 DEF UserBegin
      <3> QED BY <2>2, <3>1
    <2>4. CASE ran' = [ran EXCEPT ![s] = FALSE]
      <3>1. r # s /\ ran[r]
        BY <1>3, <2>4
      <3>2. hist'[r] = hist[r]
        BY <1>3, <3>1, TurnActs DEF Written
      <3> QED BY <2>0, <3>1, <3>2
    <2>5. CASE RunTools(s, t)
      <3>1. CASE r = s
        BY <2>5, <3>1, ToolsWritten
      <3>2. CASE r # s
        <4>1. ran[r]
          BY <1>3, <2>5, <3>2 DEF RunTools
        <4>2. hist'[r] = hist[r]
          BY <1>3, <3>2, TurnActs DEF Written
        <4> QED BY <2>0, <4>1, <4>2
      <3> QED BY <3>1, <3>2
    <2> QED BY <1>m, <2>1, <2>2, <2>3, <2>4, <2>5
  <1>5. Beginning'
    <2> SUFFICES ASSUME sweep.pc = "replay" \/ \E r \in Sessions : turn'[r][Sweeper].pc = "begun"
                 PROVE  /\ ~sweep'.ran
                        /\ sweep'.fresh => \A v \in Turns : turn'[sweep.at][v].pc \in {"none", "begun"}
      BY <1>3 DEF Beginning
    <2>1. ASSUME NEW r \in Sessions, turn'[r][Sweeper].pc = "begun"
          PROVE  turn[r][Sweeper].pc = "begun" /\ ~(r = s /\ t = Sweeper)
      BY <1>1, <1>2, <1>3, <2>1 DEF Becomes
    <2>2. /\ ~sweep.ran
          /\ sweep.fresh => \A v \in Turns : turn[sweep.at][v].pc \in {"none", "begun"}
      BY <2>1 DEF Spared, Beginning
    <2>3. sweep.at \in Sessions
      BY <2>1 DEF WellFormed, Typed, OneReplay
    \* The replay itself takes no step before it is stored.
    <2>4. ~(t = Sweeper /\ sweep.at = s)
      <3>1. CASE sweep.pc = "replay"
        <4>1. turn[s][Sweeper].pc = "none"
          BY <3>1 DEF WellFormed, OneReplay
        <4>2. t = Sweeper => turn[s][Sweeper].pc # "none"
          BY <1>3 DEF TurnAction, UserBegin, TurnStep, StoreMessage, RefuseCall, StartCall,
                      CallSucceeds, CallFails, SteeredOn, StopTurn
        <4> QED BY <4>1, <4>2
      <3>2. ASSUME NEW r \in Sessions, turn'[r][Sweeper].pc = "begun"
            PROVE  ~(t = Sweeper /\ sweep.at = s)
        BY <2>1, <3>2 DEF WellFormed, OneReplay
      <3> QED BY <3>1, <3>2
    <2>5. CASE sweep'.fresh = sweep.fresh /\ sweep'.ran = sweep.ran /\ t \in UserTurns
               /\ turn[s][t].pc # "begun" /\ ~UserBegin(s, t)
      <3>1. ASSUME sweep.fresh, sweep.at = s PROVE FALSE
        <4>1. turn[s][t].pc = "none"
          BY <2>2, <2>5, <3>1
        <4>2. UserBegin(s, t)
          BY <4>1 DEF TurnAction, UserBegin, TurnStep, StoreMessage, RefuseCall, StartCall,
                      CallSucceeds, CallFails, SteeredOn, StopTurn
        <4> QED BY <2>5, <4>2
      <3> QED BY <1>2, <2>2, <2>3, <2>5, <3>1
    <2>6. CASE sweep'.fresh = sweep.fresh /\ sweep'.ran = sweep.ran /\ t = Sweeper
      BY <1>2, <2>2, <2>3, <2>4, <2>6
    <2>7. CASE UserBegin(s, t)
      <3>1. sweep' = sweep /\ turn' = [turn EXCEPT ![s][t] = Begun]
        BY <2>7 DEF UserBegin
      <3>2. \A v \in Turns : turn'[sweep.at][v] = turn[sweep.at][v] \/ turn'[sweep.at][v] = Begun
        BY <2>3, <3>1, TurnSet, TurnsTyped
      <3> QED BY <2>2, <3>1, <3>2 DEF Begun
    <2>8. CASE sweep'.ran = sweep.ran /\ sweep'.fresh = (sweep.fresh /\ sweep.at # s)
      BY <1>2, <2>2, <2>3, <2>8
    <2>9. CASE turn[s][t].pc = "calling" /\ RunTools(s, t)
      <3>1. ~(sweep.fresh /\ sweep.at = s)
        BY <2>2, <2>9
      <3>2. sweep' = [sweep EXCEPT !.ran = sweep.ran \/ (sweep.fresh /\ sweep.at = s)]
        BY <2>9 DEF RunTools
      <3>3. ~sweep'.ran /\ sweep'.fresh = sweep.fresh
        BY <2>2, <3>1, <3>2 DEF WellFormed, Typed, SweepState
      <3> QED BY <1>2, <2>2, <2>3, <3>1, <3>3
    <2> QED BY <1>m, <1>3, <2>5, <2>6, <2>7, <2>8, <2>9
  <1> QED BY <1>4, <1>5 DEF Spared

LEMMA SweepKeepsCap ==
  ASSUME WellFormed, Capped, Spared, SweepStep \/ \E s \in Sessions : SkipSession(s)
  PROVE  Capped' /\ Spared'
  <1> USE DEF WellFormed, Typed
  <1>0. sweep.pc # "running" => \A r \in Sessions : turn[r][Sweeper].pc = "none"
    BY DEF OneReplay
  <1>1. CASE StartReplay
    <2> DEFINE s0 == sweep.at
    <2>1. s0 \in Sessions /\ sweep.pc = "replay" /\ UNCHANGED <<hist, ran>>
      BY <1>1 DEF StartReplay
    <2>2. sweep'.pc \in {"running", "judge"} /\ sweep'.fresh = sweep.fresh /\ sweep'.ran = sweep.ran
          /\ sweep'.at = s0
      BY <1>1 DEF StartReplay, SweepState
    <2>3. CASE UNCHANGED turn
      BY <2>1, <2>2, <2>3 DEF Capped, Spared, RanShown, Beginning
    <2>4. CASE turn' = [turn EXCEPT ![s0][Sweeper] = Begun]
      <3>1. \A r \in Sessions, v \in Turns :
              turn'[r][v] = IF r = s0 /\ v = Sweeper THEN Begun ELSE turn[r][v]
        BY <2>1, <2>4, TurnSet, TurnsTyped, ConstantsTyped
      <3> HIDE DEF s0
      <3>2. Capped'
        <4>1. \A r \in Sessions \ {s0} : turn'[r][Sweeper] = turn[r][Sweeper]
          BY <3>1, ConstantsTyped
        <4> QED BY <2>1, <2>2, <4>1 DEF Capped, s0
      <3>3. /\ ~sweep.ran
            /\ sweep.fresh => \A v \in Turns : turn[s0][v].pc \in {"none", "begun"}
        BY <2>1 DEF Spared, Beginning, s0
      <3>4. ASSUME sweep.fresh, NEW v \in Turns PROVE turn'[s0][v].pc \in {"none", "begun"}
        <4>1. s0 \in Sessions
          BY <2>1
        <4>2. turn'[s0][v] = Begun \/ turn'[s0][v] = turn[s0][v]
          BY <3>1, <4>1
        <4> QED BY <3>3, <3>4, <4>2 DEF Begun
      <3>5. Beginning'
        BY <2>2, <3>3, <3>4 DEF Beginning
      <3> QED BY <2>1, <3>2, <3>5 DEF Spared, RanShown
    <2> QED BY <1>1, <2>3, <2>4 DEF StartReplay
  <1>2. ASSUME NEW s \in Sessions, HandleSession(s) PROVE Capped' /\ Spared'
    <2>1. sweep.pc = "pass" /\ UNCHANGED <<hist, turn, ran>>
      BY <1>2 DEF HandleSession
    <2>2. \A r \in Sessions : turn[r][Sweeper].pc = "none"
      BY <1>0, <2>1
    <2>3. CASE sweep'.pc # "replay"
      BY <2>1, <2>2, <2>3 DEF Capped, Spared, RanShown, Beginning
    <2>4. CASE sweep'.pc = "replay"
      <3>1. /\ ~InFlight(s) /\ IsChain(hist[s]) /\ Replayable(hist[s])
            /\ Retries(hist[s]) < MaxAttempts /\ sweep'.at = s /\ sweep'.ran = ran[s]
        <4>1. ASSUME NEW event \in Events \cup {"none"} PROVE ~Settle(s, event)
          BY <2>4, NextSessionTyped DEF Settle, SweepState
        <4>2. ASSUME NEW ticks PROVE ~Wait(s, ticks)
          BY <2>4, NextSessionTyped DEF Wait
        <4>3. /\ ~InFlight(s) /\ IsChain(hist[s]) /\ Replayable(hist[s])
              /\ Retries(hist[s]) < MaxAttempts
              /\ sweep' = [sweep EXCEPT !.pc = "replay", !.at = s, !.fresh = TRUE, !.ran = ran[s]]
          BY <1>2, <4>1, <4>2, HandleDecides
        <4> QED BY <4>3 DEF SweepState
      <3>2. Times(hist[s]) < MaxAttempts /\ Toolless(hist[s])
        <4>1. Times(hist[s]) <= Retries(hist[s]) /\ Times(hist[s]) \in Nat
          BY <3>1, TimesChain, TimesTyped
        <4>2. Retries(hist[s]) \in Int
          BY <3>1 DEF Retries, IsChain
        <4> QED BY <3>1, <4>1, <4>2, ChainToolless, ConstantsTyped
      <3>3. \A v \in Turns : turn[s][v].pc = "none"
        BY <3>1 DEF InFlight, NoTurn
      <3>4. ~ran[s]
        BY <3>2 DEF Toolless, Spared, RanShown
      <3>5. Capped'
        BY <2>1, <2>2, <3>1, <3>2 DEF Capped
      <3>6. Beginning'
        BY <2>1, <3>1, <3>3, <3>4 DEF Beginning
      <3> QED BY <2>1, <3>5, <3>6 DEF Spared, RanShown
    <2> QED BY <2>3, <2>4
  <1>3. ASSUME UNCHANGED <<hist, turn, ran>>, sweep'.pc # "replay",
               sweep.pc # "running" \/ (/\ sweep'.fresh = sweep.fresh /\ sweep'.ran = sweep.ran
                                        /\ sweep'.at = sweep.at)
        PROVE  Capped' /\ Spared'
    BY <1>0, <1>3 DEF Capped, Spared, RanShown, Beginning
  <1>4. CASE StartPass
    <2> DEFINE todo == {s \in Sessions : rowAge[s] <= Window /\ ShouldScan(s)}
    <2>1. sweep' = [AtRest EXCEPT !.pc = "pass", !.todo = todo]
      BY <1>4 DEF StartPass
    <2> HIDE DEF todo
    <2>2. sweep'.pc # "replay" /\ sweep.pc # "running"
      BY <1>4, <2>1 DEF StartPass, AtRest
    <2> QED BY <1>3, <1>4, <2>2 DEF StartPass
  <1>5. CASE EndPass \/ \E s \in Sessions : SkipSession(s)
    BY <1>3, <1>5, NextSessionTyped DEF EndPass, AtRest, SkipSession
  <1>6. CASE ReplayEnds
    <2>1. sweep'.pc # "replay" /\ sweep'.fresh = sweep.fresh /\ sweep'.ran = sweep.ran
          /\ sweep'.at = sweep.at
      BY <1>6 DEF ReplayEnds, SweepState
    <2> QED BY <1>3, <1>6, <2>1 DEF ReplayEnds
  <1>7. CASE JudgeReplay
    <2>1. sweep.pc = "judge" /\ sweep.at \in Sessions /\ UNCHANGED <<hist, turn, ran>>
      BY <1>7 DEF JudgeReplay
    <2>2. sweep'.pc # "replay"
      <3>1. CASE Wait(sweep.at, 0)
        BY <2>1, <3>1, NextSessionTyped DEF Wait
      <3>2. CASE sweep' = [sweep EXCEPT !.pc = "notify", !.event = "recovered"]
        BY <3>2 DEF SweepState
      <3> QED BY <1>7, <3>1, <3>2 DEF JudgeReplay
    <2> QED BY <1>3, <2>1, <2>2
  <1>8. CASE ClaimNotice
    <2>1. sweep.pc = "notify" /\ sweep.at \in Sessions /\ UNCHANGED <<hist, turn, ran>>
      BY <1>8 DEF ClaimNotice
    <2>2. sweep'.pc # "replay"
      <3>1. CASE AfterNotice(sweep.at)
        BY <2>1, <3>1, AfterNoticeTyped
      <3>2. CASE sweep' = [sweep EXCEPT !.pc = "deliver"]
        BY <3>2 DEF SweepState
      <3> QED BY <1>8, <3>1, <3>2 DEF ClaimNotice
    <2> QED BY <1>3, <2>1, <2>2
  <1>9. CASE DeliverNotice
    <2>1. sweep.pc = "deliver" /\ sweep.at \in Sessions /\ UNCHANGED <<hist, turn, ran>>
          /\ AfterNotice(sweep.at)
      BY <1>9 DEF DeliverNotice
    <2> QED BY <1>3, <2>1, AfterNoticeTyped
  <1> QED BY <1>1, <1>2, <1>4, <1>5, <1>6, <1>7, <1>8, <1>9 DEF SweepStep

LEMMA CappedNext == WellFormed /\ Capped /\ Spared /\ [Next]_vars => Capped' /\ Spared'
  <1> SUFFICES ASSUME WellFormed, Capped, Spared, [Next]_vars PROVE Capped' /\ Spared'
    OBVIOUS
  <1>1. CASE UNCHANGED vars \/ OtherCallEnds
    <2>1. UNCHANGED <<hist, turn, ran, sweep>>
      BY <1>1 DEF vars, OtherCallEnds
    <2> QED BY <2>1 DEF Capped, Spared, RanShown, Beginning
  <1>2. CASE Tick
    <2>1. UNCHANGED <<hist, ran, sweep>>
      BY <1>2 DEF Tick
    <2>2. \A s \in Sessions, t \in Turns : turn'[s][t].pc = turn[s][t].pc
      BY <1>2, TickTyped
    <2>3. \A s \in Sessions : turn'[s][Sweeper].pc = turn[s][Sweeper].pc
      BY <2>2, ConstantsTyped
    <2>4. sweep.pc = "replay" \/ (\E s \in Sessions : turn[s][Sweeper].pc = "begun")
          => sweep.at \in Sessions
      BY DEF WellFormed, Typed, OneReplay
    <2>5. Capped'
      BY <2>1, <2>3 DEF Capped
    <2>6. Beginning'
      BY <2>1, <2>2, <2>3, <2>4 DEF Beginning, Spared
    <2> QED BY <2>1, <2>5, <2>6 DEF Spared, RanShown
  <1>3. CASE \E s \in Sessions, t \in Turns : TurnAction(s, t)
    BY <1>3, TurnsKeepCap, TurnsSpare
  <1>4. CASE SweepStep \/ \E s \in Sessions : SkipSession(s)
    BY <1>4, SweepKeepsCap
  <1>5. CASE Crash
    <2>1. ASSUME NEW s \in Sessions
          PROVE  Times(hist'[s]) <= MaxAttempts
                 /\ (ran'[s] => \E i \in 1..Len(hist'[s]) : hist'[s][i] = "tools")
      <3>1. hist'[s] = hist[s] \/ hist'[s] = Append(hist[s], "abort")
        BY <1>5 DEF Crash
      <3>2. hist[s] \in Seq(Entries) /\ "abort" \in Entries /\ Times(hist[s]) <= MaxAttempts
        BY DEF WellFormed, Typed, Capped, Entries
      <3>3. Times(hist'[s]) <= MaxAttempts
        BY <3>1, <3>2, TimesAppend
      <3>4. ASSUME ran'[s] PROVE \E i \in 1..Len(hist'[s]) : hist'[s][i] = "tools"
        <4>1. ran[s]
          BY <1>5, <3>4 DEF Crash
        <4>2. PICK i \in 1..Len(hist[s]) : hist[s][i] = "tools"
          BY <4>1 DEF Spared, RanShown
        <4>3. i \in 1..Len(hist'[s]) /\ hist'[s][i] = "tools"
          BY <3>1, <3>2, <4>2, StillShown
        <4> QED BY <4>3
      <3> QED BY <3>3, <3>4
    <2>2. turn' = [s \in Sessions |-> [t \in Turns |-> NoTurn]] /\ sweep'.pc = "idle"
      BY <1>5 DEF Crash, AtRest
    <2>3. \A s \in Sessions : turn'[s][Sweeper].pc = "none"
      BY <2>2, ConstantsTyped DEF NoTurn
    <2> QED BY <2>1, <2>2, <2>3 DEF Capped, Spared, RanShown, Beginning
  <1> QED BY <1>1, <1>2, <1>3, <1>4, <1>5 DEF Next, TurnAction

LEMMA CappedInit == Init => Capped /\ Spared
  <1> SUFFICES ASSUME Init PROVE Capped /\ Spared
    OBVIOUS
  <1>1. \A s \in Sessions : hist[s] = <<>> /\ ~ran[s] /\ turn[s][Sweeper].pc = "none"
    BY ConstantsTyped DEF Init, NoTurn
  <1>2. sweep.pc = "idle"
    BY DEF Init, AtRest
  <1> QED BY <1>1, <1>2, TimesNone, ConstantsTyped DEF Capped, Spared, RanShown, Beginning

\* What the user asked once is replayed at most MaxAttempts times, whatever crashes,
\* refused calls and messages come in between.
THEOREM ReplaysAreCapped == Spec => []CapKept
  <1>1. Capped => CapKept
    BY DEF Capped, CapKept, Times, Retried
  <1> QED BY <1>1, TypedInit, TypedNext, CappedInit, CappedNext, PTL DEF Spec

\* When a replay is stored, no tool has run for the request it replays, in the user's turn,
\* in an earlier replay or in a turn that overlapped them, for any number of turns at once.
\* A message or a steer that comes between the analysis and the replay is a request of its
\* own: its turn may run tools, and this says nothing of them.
THEOREM ReplaysAreSafe == Spec => ReplaySafe
  <1>1. WellFormed /\ Spared /\ [Next]_vars =>
          [\A s \in Sessions :
             turn[s][Sweeper].pc = "begun" /\ turn'[s][Sweeper].pc = "asking" => ~sweep.ran]_vars
    BY DEF Spared, Beginning
  <1> QED BY <1>1, TypedInit, TypedNext, CappedInit, CappedNext, PTL DEF Spec, ReplaySafe
----------------------------------------------------------------------------
(* The types of what is timed: no wait and no age outgrows its bound.       *)

BreakerState == [open : BOOLEAN, wait : 0..Probe * 2^ProbeCap, streak : 0..ProbeCap]
ScanState == [handled : BOOLEAN, pending : BOOLEAN, wait : 0..LongestBackoff]

Rested ==
  /\ noticeAge \in [Sessions -> 0..LongestBackoff]
  /\ rowAge \in [Sessions -> 0..Window + 1]
  /\ scan \in [Sessions -> ScanState]

Timed ==
  /\ Rested
  /\ breaker \in BreakerState
  /\ saved \in [Sessions -> SUBSET Events]
  /\ due \in BOOLEAN
  /\ faults \in 0..MaxFaults

\* There are 2^n sets of n things.
LEMMA Doubled ==
  ASSUME NEW m \in Nat, NEW n \in Nat, m <= n
  PROVE  2^m \in Nat /\ 2^n \in Nat /\ 2^m <= 2^n
  <1>1. /\ IsFiniteSet(1..m) /\ Cardinality(1..m) = m
        /\ IsFiniteSet(1..n) /\ Cardinality(1..n) = n
    BY FS_Interval
  <1>2. /\ IsFiniteSet(SUBSET (1..m)) /\ Cardinality(SUBSET (1..m)) = 2^m
        /\ IsFiniteSet(SUBSET (1..n)) /\ Cardinality(SUBSET (1..n)) = 2^n
    BY <1>1, FS_SUBSET
  <1>3. SUBSET (1..m) \in SUBSET (SUBSET (1..n))
    <2>1. 1..m \subseteq 1..n
      OBVIOUS
    <2> QED BY <2>1
  <1>4. Cardinality(SUBSET (1..m)) <= Cardinality(SUBSET (1..n))
    BY <1>2, <1>3, FS_Subset
  <1> QED BY <1>2, <1>4, FS_CardinalityType

LEMMA Multiplied ==
  ASSUME NEW x \in Nat, NEW a \in Nat, NEW b \in Nat, a <= b
  PROVE  x * a \in Nat /\ x * b \in Nat /\ x * a <= x * b
  <1>1. x * a + x * (b - a) = x * b
    OBVIOUS
  <1>2. x * a \in Nat /\ x * b \in Nat /\ x * (b - a) \in Nat
    OBVIOUS
  <1> QED BY <1>1, <1>2

\* The waits are doubled no further than their bound.
LEMMA WaitsBounded ==
  /\ LongestBackoff \in Nat
  /\ \A retries \in 0..MaxAttempts - 1 : Backoff(retries) \in 0..LongestBackoff
  /\ Probe * 2^ProbeCap \in Nat
  /\ \A streak \in 0..ProbeCap : Probe * 2^streak \in 0..Probe * 2^ProbeCap
  <1>1. MaxAttempts \in Nat \ {0} /\ Base \in Nat /\ Probe \in Nat /\ ProbeCap \in Nat
    BY FailureAssumption
  <1>2. ASSUME NEW x \in Nat, NEW n \in Nat, NEW m \in 0..n
        PROVE  x * 2^n \in Nat /\ x * 2^m \in 0..x * 2^n
    <2> DEFINE a == 2^m
               b == 2^n
    <2>1. a \in Nat /\ b \in Nat /\ a <= b
      BY Doubled
    <2> HIDE DEF a, b
    <2>2. x * a \in Nat /\ x * b \in Nat /\ x * a <= x * b
      BY <2>1, Multiplied
    <2>3. x * b \in Nat /\ x * a \in 0..x * b
      <3> DEFINE c == x * a
                 d == x * b
      <3> HIDE DEF c, d
      <3>1. c \in Nat /\ d \in Nat /\ c <= d
        BY <2>2 DEF c, d
      <3>2. d \in Nat /\ c \in 0..d
        BY <3>1
      <3> QED BY <3>2 DEF c, d
    <2> QED BY <2>3 DEF a, b
  <1>3. MaxAttempts - 1 \in Nat
    BY <1>1
  <1>4. Base * 2^(MaxAttempts - 1) \in Nat
        /\ \A m \in 0..MaxAttempts - 1 : Base * 2^m \in 0..Base * 2^(MaxAttempts - 1)
    <2>1. 0 \in 0..MaxAttempts - 1
      BY <1>3
    <2> QED BY <1>1, <1>2, <1>3, <2>1
  <1>5. Probe * 2^ProbeCap \in Nat /\ \A m \in 0..ProbeCap : Probe * 2^m \in 0..Probe * 2^ProbeCap
    <2>1. 0 \in 0..ProbeCap
      BY <1>1
    <2> QED BY <1>1, <1>2, <2>1
  <1> QED BY <1>4, <1>5 DEF LongestBackoff, Backoff

LEMMA TimedInit == Init => Timed
  <1> SUFFICES ASSUME Init PROVE Timed
    OBVIOUS
  <1>1. /\ LongestBackoff \in Nat /\ Probe * 2^ProbeCap \in Nat /\ Window \in Nat
        /\ ProbeCap \in Nat /\ MaxFaults \in Nat
    BY WaitsBounded, FailureAssumption
  <1>2. Unseen \in ScanState
    BY <1>1 DEF Unseen, ScanState
  <1>3. Closed \in BreakerState
    <2> DEFINE w == Probe * 2^ProbeCap
    <2>1. w \in Nat
      BY <1>1
    <2> HIDE DEF w
    <2>2. 0 \in 0..w
      BY <2>1
    <2> QED BY <1>1, <2>2 DEF Closed, BreakerState, w
  <1>4. noticeAge \in [Sessions -> 0..LongestBackoff] /\ rowAge \in [Sessions -> 0..Window + 1]
    BY <1>1 DEF Init
  <1>5. due \in BOOLEAN /\ faults \in 0..MaxFaults /\ saved \in [Sessions -> SUBSET Events]
    <2>1. due \in BOOLEAN
      BY DEF Init
    <2> QED BY <1>1, <2>1 DEF Init
  <1>6. scan \in [Sessions -> ScanState] /\ breaker \in BreakerState
    BY <1>2, <1>3 DEF Init
  <1> QED BY <1>4, <1>5, <1>6 DEF Timed, Rested

\* The breaker trips, is cleared, or comes a period nearer to its probe.
LEMMA BreakerTyped ==
  ASSUME Timed
  PROVE  /\ Closed \in BreakerState /\ Trip \in BreakerState
         /\ [breaker EXCEPT !.wait = Sooner(breaker.wait)] \in BreakerState
  <1> DEFINE w == Probe * 2^ProbeCap
             streak == breaker.streak
             wait == breaker.wait
  <1>1. w \in Nat /\ ProbeCap \in Nat /\ streak \in 0..ProbeCap /\ wait \in 0..w
        /\ Probe * 2^streak \in 0..w
    BY WaitsBounded, FailureAssumption DEF Timed, BreakerState
  <1>2. 0 \in 0..w /\ 0 \in 0..ProbeCap
    <2> HIDE DEF w
    <2> QED BY <1>1
  <1>3. Least(streak + 1, ProbeCap) \in 0..ProbeCap
    <2> HIDE DEF streak, w
    <2> QED BY <1>1 DEF Least
  <1>4. Sooner(wait) \in 0..w
    <2> HIDE DEF wait, w
    <2> QED BY <1>1 DEF Sooner, Greatest
  <1>5. Closed \in BreakerState
    BY <1>2 DEF Closed, BreakerState
  <1>6. Trip \in BreakerState
    BY <1>1, <1>3 DEF Trip, BreakerState
  <1>7. [breaker EXCEPT !.wait = Sooner(breaker.wait)] \in BreakerState
    <2> HIDE DEF w
    <2> QED BY <1>4 DEF Timed, BreakerState, w
  <1> QED BY <1>5, <1>6, <1>7

LEMMA FaultTyped ==
  ASSUME Timed, Fault
  PROVE  faults' \in 0..MaxFaults
  BY FailureAssumption DEF Timed, Fault

\* An entry of the sweep's cache is set, or dropped for a new row.
LEMMA ScanTyped ==
  ASSUME Timed, NEW s \in Sessions
  PROVE  /\ \A pending \in BOOLEAN : \A wait \in 0..LongestBackoff :
              SetScan(s, pending, wait) => scan' \in [Sessions -> ScanState]
         /\ NewRow(s) => scan' \in [Sessions -> ScanState] /\ rowAge' \in [Sessions -> 0..Window + 1]
  <1>1. scan \in [Sessions -> ScanState] /\ rowAge \in [Sessions -> 0..Window + 1]
        /\ 0 \in 0..Window + 1
    BY FailureAssumption DEF Timed, Rested
  <1>2. ASSUME NEW pending \in BOOLEAN, NEW wait \in 0..LongestBackoff, SetScan(s, pending, wait)
        PROVE  scan' \in [Sessions -> ScanState]
    <2> DEFINE entry == [handled |-> s \notin sweep.newer, pending |-> pending, wait |-> wait]
    <2>1. entry \in ScanState
      <3> DEFINE handled == s \notin sweep.newer
      <3>1. handled \in BOOLEAN
        OBVIOUS
      <3> HIDE DEF handled
      <3>2. [handled |-> handled, pending |-> pending, wait |-> wait] \in ScanState
        BY <3>1 DEF ScanState
      <3> QED BY <3>2 DEF handled
    <2>2. scan' = [scan EXCEPT ![s] = entry]
      BY <1>2 DEF SetScan
    <2> HIDE DEF entry
    <2> QED BY <1>1, <2>1, <2>2
  <1>3. ASSUME NewRow(s)
        PROVE  scan' \in [Sessions -> ScanState] /\ rowAge' \in [Sessions -> 0..Window + 1]
    <2> DEFINE entry == [scan[s] EXCEPT !.handled = FALSE]
    <2>1. entry \in ScanState
      BY <1>1 DEF ScanState
    <2>2. scan' = [scan EXCEPT ![s] = entry] /\ rowAge' = [rowAge EXCEPT ![s] = 0]
      BY <1>3 DEF NewRow
    <2> HIDE DEF entry
    <2> QED BY <1>1, <2>1, <2>2
  <1> QED BY <1>2, <1>3

LEMMA TimedTurns ==
  ASSUME Timed, NEW s \in Sessions, NEW t \in Turns, TurnAction(s, t)
  PROVE  Timed'
  <1>t. /\ Rested /\ breaker \in BreakerState /\ saved \in [Sessions -> SUBSET Events]
        /\ due \in BOOLEAN /\ faults \in 0..MaxFaults
    BY DEF Timed
  <1>n. ASSUME NEW notice, FailTurn(s, t, notice)
        PROVE  noticeAge' \in [Sessions -> 0..LongestBackoff]
    <2>1. 0 \in 0..LongestBackoff /\ noticeAge \in [Sessions -> 0..LongestBackoff]
      BY <1>t, WaitsBounded DEF Rested
    <2> QED BY <1>n, <2>1 DEF FailTurn
  <1>0. CASE UserBegin(s, t)
    <2>1. /\ UNCHANGED <<noticeAge, rowAge, scan, breaker, saved, due>>
          /\ UNCHANGED faults \/ Fault
      BY <1>0 DEF UserBegin
    <2>2. faults' \in 0..MaxFaults
      BY <1>t, <2>1, FaultTyped
    <2> QED BY <1>t, <2>1, <2>2 DEF Timed, Rested
  <1>1. CASE StopTurn(s, t) \/ StoreMessage(s, t) \/ StartCall(s, t)
    <2>1. UNCHANGED <<noticeAge, rowAge, scan, breaker, saved, due, faults>>
      BY <1>1 DEF StopTurn, StoreMessage, StartCall
    <2> QED BY <1>t, <2>1 DEF Timed, Rested
  <1>2. CASE RefuseCall(s, t)
    <2>1. UNCHANGED <<rowAge, scan, breaker, saved, due, faults>> /\ FailTurn(s, t, "refused")
      BY <1>2 DEF RefuseCall
    <2> QED BY <1>t, <1>n, <2>1 DEF Timed, Rested
  <1>3. CASE CallSucceeds(s, t) \/ SteeredOn(s, t)
    <2>1. /\ UNCHANGED <<noticeAge, rowAge, scan, saved, due>> /\ breaker' = Closed
          /\ UNCHANGED faults \/ Fault
      BY <1>3 DEF CallSucceeds, SteeredOn
    <2>2. faults' \in 0..MaxFaults
      BY <1>t, <2>1, FaultTyped
    <2> QED BY <1>t, <2>1, <2>2, BreakerTyped DEF Timed, Rested
  <1>4. CASE CallFails(s, t)
    <2>1. /\ UNCHANGED <<saved, due, faults>> /\ FailTurn(s, t, "failed") /\ NewRow(s)
          /\ breaker' \in {breaker, Trip}
      BY <1>4 DEF CallFails
    <2>2. breaker' \in BreakerState
      BY <1>t, <2>1, BreakerTyped
    <2> QED BY <1>t, <1>n, <2>1, <2>2, ScanTyped DEF Timed, Rested
  <1> QED BY <1>0, <1>1, <1>2, <1>3, <1>4 DEF TurnAction, TurnStep

\* A chain of n replays is a message and n + 1 failures, and n replays.
LEMMA RetriesTyped ==
  ASSUME NEW h \in Seq(Entries), IsChain(h)
  PROVE  Retries(h) \in Nat
  BY DEF IsChain, Retries

LEMMA HandleTyped ==
  ASSUME WellFormed, Timed, NEW s \in Sessions, HandleSession(s)
  PROVE  scan' \in [Sessions -> ScanState]
  <1>1. /\ scan \in [Sessions -> ScanState] /\ noticeAge[s] \in 0..LongestBackoff
        /\ LongestBackoff \in Nat /\ 0 \in 0..LongestBackoff /\ hist[s] \in Seq(Entries)
        /\ MaxAttempts \in Nat
    BY WaitsBounded, FailureAssumption DEF Timed, Rested, WellFormed, Typed
  <1>2. \/ \E event : Settle(s, event)
        \/ Wait(s, 0)
        \/ /\ IsChain(hist[s]) /\ Retries(hist[s]) < MaxAttempts
           /\ Backoff(Retries(hist[s])) - noticeAge[s] > 0
           /\ Wait(s, Backoff(Retries(hist[s])) - noticeAge[s])
        \/ UNCHANGED scan
    BY DEF HandleSession, Handle
  <1>3. CASE \E event : Settle(s, event)
    BY <1>1, <1>3, ScanTyped DEF Settle
  <1>4. CASE Wait(s, 0)
    BY <1>1, <1>4, ScanTyped DEF Wait
  <1>5. CASE /\ IsChain(hist[s]) /\ Retries(hist[s]) < MaxAttempts
             /\ Backoff(Retries(hist[s])) - noticeAge[s] > 0
             /\ Wait(s, Backoff(Retries(hist[s])) - noticeAge[s])
    <2> DEFINE retries == Retries(hist[s])
               backoff == Backoff(retries)
               age == noticeAge[s]
               longest == LongestBackoff
    <2>1. retries \in Nat /\ retries < MaxAttempts
      BY <1>1, <1>5, RetriesTyped
    <2>2. backoff \in 0..longest
      <3> HIDE DEF retries
      <3>1. retries \in 0..MaxAttempts - 1
        BY <1>1, <2>1
      <3> QED BY <3>1, WaitsBounded
    <2>3. longest \in Nat /\ age \in 0..longest /\ backoff - age > 0
      BY <1>1, <1>5
    <2>4. SetScan(s, TRUE, backoff - age)
      BY <1>5 DEF Wait
    <2> HIDE DEF backoff, age, longest
    <2>5. backoff - age \in 0..longest
      BY <2>2, <2>3
    <2> QED BY <2>4, <2>5, ScanTyped DEF longest
  <1>6. CASE UNCHANGED scan
    BY <1>1, <1>6
  <1> QED BY <1>2, <1>3, <1>4, <1>5, <1>6

LEMMA TimedSweep ==
  ASSUME WellFormed, Timed, SweepStep \/ \E s \in Sessions : SkipSession(s)
  PROVE  Timed'
  <1>t. /\ Rested /\ breaker \in BreakerState /\ saved \in [Sessions -> SUBSET Events]
        /\ due \in BOOLEAN /\ faults \in 0..MaxFaults /\ scan \in [Sessions -> ScanState]
        /\ 0 \in 0..LongestBackoff
    BY WaitsBounded DEF Timed, Rested
  <1>c. ASSUME UNCHANGED <<noticeAge, rowAge, breaker, saved, due, faults>>,
               scan' \in [Sessions -> ScanState]
        PROVE  Timed'
    BY <1>t, <1>c DEF Timed, Rested
  <1>n. ASSUME NEW s \in Sessions, AfterNotice(s) PROVE scan' \in [Sessions -> ScanState]
    BY <1>n, <1>t, ScanTyped DEF AfterNotice
  <1>1. CASE StartPass
    <2>1. due' \in BOOLEAN /\ UNCHANGED <<noticeAge, rowAge, breaker, saved, faults, scan>>
      BY <1>1 DEF StartPass
    <2> QED BY <1>t, <2>1 DEF Timed, Rested
  <1>2. ASSUME NEW s \in Sessions, HandleSession(s) PROVE Timed'
    BY <1>c, <1>2, HandleTyped DEF HandleSession
  <1>3. ASSUME NEW s \in Sessions, SkipSession(s) PROVE Timed'
    <2>1. Fault /\ UNCHANGED <<noticeAge, rowAge, breaker, saved, due, scan>>
      BY <1>3 DEF SkipSession
    <2> QED BY <1>t, <2>1, FaultTyped DEF Timed, Rested
  <1>4. CASE StartReplay \/ ReplayEnds \/ EndPass
    <2>1. UNCHANGED <<noticeAge, rowAge, breaker, saved, due, faults, scan>>
      BY <1>4 DEF StartReplay, ReplayEnds, EndPass
    <2> QED BY <1>c, <1>t, <2>1
  <1>5. CASE JudgeReplay
    <2>1. /\ sweep.at \in Sessions
          /\ Wait(sweep.at, 0) \/ UNCHANGED scan
          /\ UNCHANGED <<noticeAge, rowAge, breaker, saved, due, faults>>
      BY <1>5 DEF JudgeReplay, WellFormed, Typed
    <2>2. scan' \in [Sessions -> ScanState]
      BY <1>t, <2>1, ScanTyped DEF Wait
    <2> QED BY <1>c, <2>1, <2>2
  <1>6. CASE ClaimNotice
    <2>1. /\ sweep.at \in Sessions /\ sweep.event \in Events
          /\ UNCHANGED <<noticeAge, rowAge, breaker, due>>
      BY <1>6 DEF ClaimNotice, WellFormed, Typed
    <2>2. CASE AfterNotice(sweep.at) /\ UNCHANGED <<saved, faults>>
      BY <1>c, <1>n, <2>1, <2>2
    <2>3. CASE UNCHANGED scan
      <3>1. saved' \in [Sessions -> SUBSET Events] /\ (Fault \/ UNCHANGED faults)
        BY <1>6, <1>t, <2>1 DEF ClaimNotice
      <3>2. faults' \in 0..MaxFaults
        BY <1>t, <3>1, FaultTyped
      <3> QED BY <1>t, <2>1, <2>3, <3>1, <3>2 DEF Timed, Rested
    <2> QED BY <1>6, <2>2, <2>3 DEF ClaimNotice
  <1>7. CASE DeliverNotice
    <2>1. /\ sweep.at \in Sessions /\ UNCHANGED <<noticeAge, rowAge, breaker, saved, due>>
          /\ (Fault \/ UNCHANGED faults) /\ AfterNotice(sweep.at)
      BY <1>7 DEF DeliverNotice, WellFormed, Typed
    <2>2. faults' \in 0..MaxFaults /\ scan' \in [Sessions -> ScanState]
      BY <1>t, <1>n, <2>1, FaultTyped
    <2> QED BY <1>t, <2>1, <2>2 DEF Timed, Rested
  <1> QED BY <1>1, <1>2, <1>3, <1>4, <1>5, <1>6, <1>7 DEF SweepStep

LEMMA TimedNext ==
  ASSUME WellFormed, Timed, [Next]_vars
  PROVE  Timed'
  <1>t. /\ Rested /\ breaker \in BreakerState /\ saved \in [Sessions -> SUBSET Events]
        /\ due \in BOOLEAN /\ faults \in 0..MaxFaults
    BY DEF Timed
  <1>1. CASE UNCHANGED vars
    BY <1>1 DEF vars, Timed, Rested
  <1>2. CASE OtherCallEnds
    <2>1. /\ Fault /\ breaker' \in {Closed, Trip}
          /\ UNCHANGED <<noticeAge, rowAge, scan, saved, due>>
      BY <1>2 DEF OtherCallEnds
    <2> QED BY <1>t, <2>1, FaultTyped, BreakerTyped DEF Timed, Rested
  <1>3. CASE \E s \in Sessions, t \in Turns : TurnAction(s, t)
    BY <1>3, TimedTurns
  <1>4. CASE SweepStep \/ \E s \in Sessions : SkipSession(s)
    BY <1>4, TimedSweep
  <1>5. CASE Crash
    <2>1. /\ Fault /\ breaker' = Closed /\ scan' = [s \in Sessions |-> Unseen]
          /\ UNCHANGED <<noticeAge, rowAge, saved>>
      BY <1>5 DEF Crash
    <2>2. due' \in BOOLEAN
      BY <1>5 DEF Crash
    <2>3. Unseen \in ScanState
      BY WaitsBounded DEF Unseen, ScanState
    <2> QED BY <1>t, <2>1, <2>2, <2>3, FaultTyped, BreakerTyped DEF Timed, Rested
  <1>6. CASE Tick
    <2>1. due' \in BOOLEAN
      BY <1>6 DEF Tick
    <2>2. breaker' \in BreakerState /\ UNCHANGED <<saved, faults>>
      BY <1>6, BreakerTyped DEF Tick
    <2> DEFINE longest == LongestBackoff
    <2>3. longest \in Nat /\ Window + 1 \in Nat
      BY WaitsBounded, FailureAssumption
    <2>4. noticeAge' \in [Sessions -> 0..longest]
      <3>1. \A s \in Sessions : Older(noticeAge[s], longest) \in 0..longest
        <4>1. \A s \in Sessions : noticeAge[s] \in 0..longest
          BY <1>t DEF Rested
        <4> HIDE DEF longest
        <4> QED BY <2>3, <4>1, OlderTyped
      <3> QED BY <1>6, <3>1 DEF Tick
    <2>5. rowAge' \in [Sessions -> 0..Window + 1]
      <3>1. \A s \in Sessions : Older(rowAge[s], Window + 1) \in 0..Window + 1
        BY <1>t, <2>3, OlderTyped DEF Rested
      <3> QED BY <1>6, <3>1 DEF Tick
    <2>6. scan' \in [Sessions -> ScanState]
      <3>1. ASSUME NEW s \in Sessions
            PROVE  [scan[s] EXCEPT !.wait = Sooner(scan[s].wait)] \in ScanState
        <4> DEFINE wait == scan[s].wait
        <4>1. scan[s] \in ScanState /\ wait \in 0..longest
          BY <1>t DEF Rested, ScanState
        <4>2. Sooner(wait) \in 0..longest
          <5> HIDE DEF wait, longest
          <5> QED BY <2>3, <4>1 DEF Sooner, Greatest
        <4> QED BY <4>1, <4>2 DEF ScanState
      <3> QED BY <1>6, <3>1 DEF Tick
    <2> QED BY <1>t, <2>1, <2>2, <2>4, <2>5, <2>6 DEF Timed, Rested
  <1> QED BY <1>1, <1>2, <1>3, <1>4, <1>5, <1>6 DEF Next, TurnAction

\* Every variable keeps its type, for any knobs: the breaker (quota_breaker.go) waits no longer
\* than its capped interval however many probes fail, and no wait for a replay is negative or
\* longer than the longest backoff, whatever the history the sweep reads it off.
THEOREM TypeCorrect == Spec => []TypeOK
  <1>1. WellFormed /\ Timed => TypeOK
    <2> SUFFICES ASSUME WellFormed, Timed PROVE TypeOK
      OBVIOUS
    <2>1. /\ hist \in [Sessions -> Seq(Entries)] /\ turn \in [Sessions -> [Turns -> Turn]]
          /\ sweep \in SweepState /\ ran \in [Sessions -> BOOLEAN]
          /\ claim \in Ages /\ told \in Ages /\ forgot \in [Sessions -> SUBSET Events]
      BY DEF WellFormed, Typed
    <2>2. /\ noticeAge \in [Sessions -> 0..LongestBackoff]
          /\ rowAge \in [Sessions -> 0..Window + 1]
          /\ scan \in [Sessions -> ScanState] /\ breaker \in BreakerState
          /\ saved \in [Sessions -> SUBSET Events] /\ due \in BOOLEAN /\ faults \in 0..MaxFaults
      BY DEF Timed, Rested
    <2> QED BY <2>1, <2>2 DEF TypeOK, Turn, SweepState, Ages, ScanState, BreakerState
  <1>2. WellFormed /\ Timed /\ [Next]_vars => (WellFormed /\ Timed)'
    BY TypedNext, TimedNext
  <1> QED BY <1>1, <1>2, TypedInit, TimedInit, PTL DEF Spec
=============================================================================
