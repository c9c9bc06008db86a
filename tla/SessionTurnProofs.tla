------------------------- MODULE SessionTurnProofs -------------------------
(***************************************************************************)
(* Proofs about the conversation, for any turns, messages, iterations and  *)
(* faults: the in-flight count is exact, and a steer is buffered only while*)
(* a turn is left to take it; the variables keep their types; at most one  *)
(* turn-aborted marker is in the history; a steer that was accepted is     *)
(* dropped by no other path than the three that the code has; and between  *)
(* turns every tool call has one result.                                   *)
(***************************************************************************)
EXTENDS SessionTurn, FiniteSetTheorems, SequenceTheorems, TLAPS

Flying == {t \in Turns : pc[t] \in InFlight}

\* pc is a function on the actors: the only typing that the rest needs.
IsPc == pc = [a \in Actors |-> pc[a]]

\* The count and the buffer.
Counted ==
  /\ IsPc
  /\ depth = Cardinality(Flying)
  /\ steerBuf # <<>> => depth > 0
----------------------------------------------------------------------------
(* What a move of one actor does to the set of turns in flight. *)

LEMMA FlyingFinite ==
  /\ IsFiniteSet(Flying)
  /\ Cardinality(Flying) \in Nat
  <1>1. Flying \in SUBSET Turns
    BY DEF Flying
  <1>2. IsFiniteSet(Flying)
    BY <1>1, FS_Subset, SessionAssumption
  <1> QED BY <1>2, FS_CardinalityType

LEMMA StaysPut ==
  ASSUME Counted, NEW a \in Actors, NEW state, Goto(a, state),
         a \in Turns => (pc[a] \in InFlight <=> state \in InFlight)
  PROVE  IsPc' /\ Flying' = Flying
  <1>1. IsPc'
    BY DEF Counted, Goto, IsPc
  <1>2. \A t \in Turns : pc'[t] \in InFlight <=> pc[t] \in InFlight
    BY DEF Counted, IsPc, Goto, Actors
  <1> QED BY <1>1, <1>2 DEF Flying

LEMMA TakesOff ==
  ASSUME Counted, NEW t \in Turns, NEW state \in InFlight,
         pc[t] \notin InFlight, Goto(t, state)
  PROVE  /\ IsPc'
         /\ Cardinality(Flying') = Cardinality(Flying) + 1
  <1>1. IsPc'
    BY DEF Counted, Goto, IsPc
  <1>2. \A u \in Turns : pc'[u] = IF u = t THEN state ELSE pc[u]
    BY DEF Counted, IsPc, Goto, Actors
  <1>3. Flying' = Flying \union {t} /\ t \notin Flying
    BY <1>2 DEF Flying
  <1> QED BY <1>1, <1>3, FlyingFinite, FS_AddElement

LEMMA Lands ==
  ASSUME Counted, NEW t \in Turns, NEW state, state \notin InFlight,
         pc[t] \in InFlight, Goto(t, state)
  PROVE  /\ IsPc'
         /\ Cardinality(Flying') = Cardinality(Flying) - 1
         /\ Cardinality(Flying) > 0
  <1>1. IsPc'
    BY DEF Counted, Goto, IsPc
  <1>2. \A u \in Turns : pc'[u] = IF u = t THEN state ELSE pc[u]
    BY DEF Counted, IsPc, Goto, Actors
  <1>3. Flying' = Flying \ {t} /\ t \in Flying
    BY <1>2 DEF Flying
  <1>4. Cardinality(Flying') = Cardinality(Flying) - 1
    BY <1>3, FlyingFinite, FS_RemoveElement
  <1>5. Cardinality(Flying \ {t}) \in Nat
    BY FlyingFinite, FS_RemoveElement, FS_CardinalityType
  <1> QED BY <1>1, <1>3, <1>4, <1>5, FlyingFinite

\* A step that leaves the count and the buffer alone keeps them right.
LEMMA Undisturbed ==
  ASSUME Counted, IsPc', Flying' = Flying,
         UNCHANGED <<depth, steerBuf>>
  PROVE  Counted'
  BY DEF Counted
----------------------------------------------------------------------------
LEMMA CountedInit == Init => Counted
  <1> SUFFICES ASSUME Init PROVE Counted
    OBVIOUS
  <1>1. IsPc
    BY DEF Init, IsPc
  <1>2. Flying = {}
    BY DEF Init, Flying, InFlight, Actors
  <1> QED BY <1>1, <1>2, FS_EmptySet DEF Init, Counted

LEMMA GetCounted ==
  ASSUME Counted, NEW a \in Actors, Get(a)
  PROVE  Counted'
  <1>1. CASE Fetch(a)
    <2>1. IsPc' /\ Flying' = Flying
      BY <1>1, StaysPut DEF Fetch, InFlight
    <2> QED BY <1>1, <2>1, Undisturbed DEF Fetch
  <1>2. CASE Install(a)
    <2>1. IsPc' /\ Flying' = Flying
      BY <1>2, StaysPut DEF Install, InFlight
    <2> QED BY <1>2, <2>1, Undisturbed DEF Install
  <1>3. CASE Load(a)
    <2>1. IsPc' /\ Flying' = Flying
      BY <1>3, StaysPut DEF Load, InFlight
    <2> QED BY <1>3, <2>1, Undisturbed DEF Load
  <1>4. CASE LoadNothing(a)
    <2>1. IsPc' /\ Flying' = Flying
      BY <1>4, StaysPut DEF LoadNothing, InFlight
    <2> QED BY <1>4, <2>1, Undisturbed DEF LoadNothing
  <1>5. CASE DieLoading(a)
    <2>1. IsPc' /\ Flying' = Flying
      BY <1>5, StaysPut DEF DieLoading, InFlight
    <2> QED BY <1>5, <2>1, Undisturbed DEF DieLoading
  <1> QED BY <1>1, <1>2, <1>3, <1>4, <1>5 DEF Get

LEMMA MessageCounted ==
  ASSUME Counted, NEW m \in Messages, PushSteer(m) \/ Inject(m)
  PROVE  Counted'
  <1>1. m \in Actors /\ m \notin Turns
    BY SessionAssumption DEF Actors
  <1>2. CASE PushSteer(m)
    <2>1. IsPc' /\ Flying' = Flying
      BY <1>1, <1>2, StaysPut DEF PushSteer
    <2>2. depth' = depth /\ (steerBuf' # <<>> => depth > 0)
      BY <1>2 DEF PushSteer, Counted
    <2> QED BY <2>1, <2>2 DEF Counted
  <1>3. CASE Inject(m)
    <2>1. IsPc' /\ Flying' = Flying
      BY <1>1, <1>3, StaysPut DEF Inject
    <2> QED BY <1>3, <2>1, Undisturbed DEF Inject
  <1> QED BY <1>2, <1>3
----------------------------------------------------------------------------
(* The steps of a turn. *)

\* The steps between the claim and the deferred end.
Within(t) ==
  \/ AppendUser(t) \/ Plan(t)
  \/ Reply(t) \/ CallTools(t) \/ CallInLoop(t) \/ FailTurn(t) \/ Quit(t) \/ Conclude(t)
  \/ AppendNext(t) \/ ScanOrphans(t) \/ MarkAborted(t)

LEMMA WithinStaysPut ==
  ASSUME Counted, NEW t \in Turns, Within(t)
  PROVE  /\ IsPc' /\ Flying' = Flying
         /\ UNCHANGED <<depth, steerBuf>>
  <1>0. t \in Actors
    BY DEF Actors
  <1>1. CASE AppendUser(t)
    BY <1>0, <1>1, StaysPut DEF AppendUser, InFlight
  <1>2. CASE Plan(t)
    BY <1>0, <1>2, StaysPut DEF Plan, InFlight
  <1>3. CASE Reply(t)
    BY <1>0, <1>3, StaysPut DEF Reply, MayCall, InFlight
  <1>4. CASE CallTools(t)
    BY <1>0, <1>4, StaysPut DEF CallTools, MayCall, InFlight
  <1>5. CASE CallInLoop(t)
    BY <1>0, <1>5, StaysPut DEF CallInLoop, MayCall, InFlight
  <1>6. CASE FailTurn(t)
    BY <1>0, <1>6, StaysPut DEF FailTurn, MayCall, InFlight
  <1>7. CASE Quit(t)
    BY <1>0, <1>7, StaysPut DEF Quit, MayCall, InFlight, sessionVars
  <1>8. CASE Conclude(t)
    BY <1>0, <1>8, StaysPut DEF Conclude, InFlight
  <1>9. CASE AppendNext(t)
    <2>1. UNCHANGED <<depth, steerBuf>>
      BY <1>9 DEF AppendNext
    <2>2. CASE UNCHANGED pc
      BY <2>1, <2>2 DEF Counted, IsPc, Flying
    <2>3. CASE Goto(t, After(pc[t]))
      <3>1. pc[t] \in Appending
        BY <1>9 DEF AppendNext
      <3>2. pc[t] \in InFlight <=> After(pc[t]) \in InFlight
        BY <3>1 DEF Appending, After, InFlight
      <3> QED BY <1>0, <2>1, <2>3, <3>2, StaysPut
    <2> QED BY <1>9, <2>2, <2>3 DEF AppendNext
  <1>10. CASE ScanOrphans(t)
    BY <1>0, <1>10, StaysPut DEF ScanOrphans, InFlight, sessionVars
  <1>11. CASE MarkAborted(t)
    BY <1>0, <1>11, StaysPut DEF MarkAborted, InFlight
  <1> QED BY <1>1, <1>2, <1>3, <1>4, <1>5, <1>6, <1>7, <1>8, <1>9, <1>10, <1>11 DEF Within

\* The end of a turn: it lands, and the last one leaves an empty buffer.
LEMMA EndCounted ==
  ASSUME Counted, NEW t \in Turns, EndTurn(t) \/ EndHook(t)
  PROVE  Counted'
  <1>1. PICK state \in {"flush", "done"} : Goto(t, state)
    BY DEF EndTurn, EndHook
  <1>2. pc[t] \in InFlight
    BY DEF EndTurn, EndHook, InFlight
  <1>3. state \notin InFlight
    BY <1>1 DEF InFlight
  <1>4. /\ IsPc'
        /\ Cardinality(Flying') = Cardinality(Flying) - 1
        /\ Cardinality(Flying) > 0
    BY <1>1, <1>2, <1>3, Lands
  <1>5. depth \in Nat /\ depth > 0 /\ depth' = depth - 1
    BY <1>4, FlyingFinite DEF Counted, EndTurn, EndHook, Released
  <1>6. steerBuf' # <<>> => depth' > 0
    BY <1>5 DEF EndTurn, EndHook, Released
  <1> QED BY <1>4, <1>5, <1>6 DEF Counted

LEMMA TurnCounted ==
  ASSUME Counted, NEW t \in Turns, TurnStep(t)
  PROVE  Counted'
  <1>0. t \in Actors
    BY DEF Actors
  <1>1. CASE Claim(t) /\ Begin(t)
    <2>1. /\ IsPc'
          /\ Cardinality(Flying') = Cardinality(Flying) + 1
      BY <1>1, TakesOff DEF Claim, Begin, InFlight
    <2> QED BY <1>1, <2>1, FlyingFinite DEF Claim, Begin, Counted
  <1>2. CASE Claim(t) /\ ~Begin(t)
    <2>1. pc[t] = "got" /\ Goto(t, "skipped") /\ UNCHANGED <<depth, steerBuf>>
      BY <1>2 DEF Claim
    <2>2. IsPc' /\ Flying' = Flying
      BY <1>0, <2>1, StaysPut DEF InFlight
    <2> QED BY <2>1, <2>2, Undisturbed
  <1>3. CASE Within(t)
    BY <1>3, WithinStaysPut, Undisturbed
  <1>4. CASE Drain(t)
    <2>1. PICK state \in {"fold", "llm", "pad"} : Goto(t, state)
      BY <1>4 DEF Drain
    <2>2. IsPc' /\ Flying' = Flying
      BY <1>0, <1>4, <2>1, StaysPut DEF Drain, InFlight
    <2>3. depth' = depth /\ steerBuf' = <<>>
      BY <1>4 DEF Drain
    <2> QED BY <2>2, <2>3 DEF Counted
  <1>5. CASE EndTurn(t) \/ EndHook(t)
    BY <1>5, EndCounted
  <1> QED BY <1>1, <1>2, <1>3, <1>4, <1>5 DEF TurnStep, Within

\* A crash takes every turn in flight with it.
LEMMA CrashCounted ==
  ASSUME Counted, Crash
  PROVE  Counted'
  <1>1. IsPc'
    BY DEF Crash, Counted, IsPc
  <1>2. \A t \in Turns : pc'[t] \notin InFlight
    BY DEF Crash, Counted, IsPc, Actors, InFlight
  <1>3. Flying' = {}
    BY <1>2 DEF Flying
  <1> QED BY <1>1, <1>3, FS_EmptySet DEF Crash, Counted
----------------------------------------------------------------------------
LEMMA CountedNext == Counted /\ [Next]_vars => Counted'
  <1> SUFFICES ASSUME Counted, [Next]_vars PROVE Counted'
    OBVIOUS
  <1>1. CASE \E a \in Actors : Get(a)
    BY <1>1, GetCounted
  <1>2. CASE \E m \in Messages : PushSteer(m) \/ Inject(m)
    BY <1>2, MessageCounted
  <1>3. CASE \E t \in Turns : TurnStep(t)
    BY <1>3, TurnCounted
  <1>4. CASE Crash
    BY <1>4, CrashCounted
  <1>5. CASE UNCHANGED vars
    BY <1>5 DEF vars, sessionVars, turnVars, Counted, IsPc, Flying
  <1> QED BY <1>1, <1>2, <1>3, <1>4, <1>5 DEF Next, AtRest

\* turnDepth is the number of turns in flight, and the buffer of steers is empty
\* when it is zero (BeginTurn, TryBeginTurn, EndTurn, PushSteerIfActive): for any
\* number of overlapping turns and whatever fails.
THEOREM SteersAlwaysHaveATaker == Spec => []SteersHaveATaker
  <1>1. Counted => SteersHaveATaker
    BY DEF Counted, SteersHaveATaker, Flying
  <1> QED BY <1>1, CountedInit, CountedNext, PTL DEF Spec
----------------------------------------------------------------------------
(* The types.  No two calls of one message share their position. *)

Fine == {m \in Message : m.kind = "calls" => \A c, d \in m.calls : c.pos = d.pos => c = d}
Histories == Seq(Fine)

LEMMA MessageFacts ==
  /\ \A a \in Actors : Said(a) \in Fine
  /\ \A c \in Call : \A r \in Call \union {Pad} : Tool(c, r) \in Fine
  /\ Text \in Fine /\ Aborted \in Fine
  /\ \A cs \in SUBSET Call : (\A c, d \in cs : c.pos = d.pos => c = d) => Calls(cs) \in Fine
  /\ \A m \in Fine : /\ m \in Message
                     /\ m.kind = "calls" => /\ m.calls \in SUBSET Call
                                            /\ \A c, d \in m.calls : c.pos = d.pos => c = d
  <1>1. \A a \in Actors : Said(a) \in Fine
    BY DEF Fine, Message, Said
  <1>2. \A c \in Call : \A r \in Call \union {Pad} : Tool(c, r) \in Fine
    BY DEF Fine, Message, Tool
  <1>3. Text \in Fine /\ Aborted \in Fine
    BY DEF Fine, Message, Text, Aborted
  <1>4. \A cs \in SUBSET Call : (\A c, d \in cs : c.pos = d.pos => c = d) => Calls(cs) \in Fine
    BY DEF Fine, Message, Calls
  <1>5. \A m \in Fine : m \in Message /\ (m.kind = "calls" => m.calls \in SUBSET Call)
    BY DEF Fine, Message
  <1> QED BY <1>1, <1>2, <1>3, <1>4, <1>5 DEF Fine

\* Calls with different positions are ranked without a gap.
LEMMA RankedFacts ==
  ASSUME NEW S \in SUBSET Call, \A c, d \in S : c.pos = d.pos => c = d
  PROVE  /\ IsFiniteSet(S) /\ Cardinality(S) \in Nat
         /\ \A i \in 1..Cardinality(S) : Ranked(S, i) \in S
         /\ \A i, k \in 1..Cardinality(S) : Ranked(S, i) = Ranked(S, k) => i = k
         /\ \A c \in S : \E i \in 1..Cardinality(S) : Ranked(S, i) = c
  <1> DEFINE Below(c) == {d \in S : d.pos <= c.pos}
             rank == [c \in S |-> Cardinality(Below(c))]
  <1>1. \A c \in S : c.pos \in 1..MaxCalls
    BY DEF Call
  <1>2. IsFiniteSet(S) /\ Cardinality(S) \in Nat
    <2> DEFINE f == [c \in S |-> c.pos]
    <2>1. f \in Injection(S, 1..MaxCalls)
      BY <1>1 DEF Injection, IsInjective
    <2>2. IsFiniteSet(1..MaxCalls)
      BY SessionAssumption, FS_Interval
    <2> QED BY <2>1, <2>2, FS_Injection, FS_CardinalityType
  <1>3. ASSUME NEW c \in S
        PROVE  /\ Below(c) \in SUBSET S /\ c \in Below(c) /\ IsFiniteSet(Below(c))
               /\ rank[c] = Cardinality(Below(c)) /\ rank[c] \in 1..Cardinality(S)
    <2>1. Below(c) \in SUBSET S /\ c \in Below(c)
      BY <1>1
    <2>2. IsFiniteSet(Below(c)) /\ Cardinality(Below(c)) <= Cardinality(S)
      BY <1>2, <2>1, FS_Subset
    <2>3. Cardinality(Below(c)) \in Nat /\ Cardinality(Below(c)) # 0
      BY <2>1, <2>2, FS_EmptySet, FS_CardinalityType
    <2> QED BY <1>2, <2>1, <2>2, <2>3
  <1>4. ASSUME NEW c \in S, NEW d \in S, rank[c] = rank[d], c.pos <= d.pos PROVE c = d
    <2>1. Below(c) \in SUBSET Below(d)
      BY <1>1, <1>4
    <2>2. Below(c) = Below(d)
      BY <1>3, <1>4, <2>1, FS_Subset
    <2>3. d.pos <= c.pos
      BY <1>3, <2>2
    <2> QED BY <1>1, <1>4, <2>3
  <1>5. \A c, d \in S : rank[c] = rank[d] => c = d
    <2>1. \A c, d \in S : c.pos <= d.pos \/ d.pos <= c.pos
      BY <1>1
    <2> QED BY <1>4, <2>1
  <1>6. rank \in Surjection(S, 1..Cardinality(S))
    <2>1. rank \in Injection(S, 1..Cardinality(S))
      <3>1. rank \in [S -> 1..Cardinality(S)]
        BY <1>3
      <3> HIDE DEF rank
      <3> QED BY <1>5, <3>1 DEF Injection, IsInjective
    <2>2. IsFiniteSet(1..Cardinality(S)) /\ Cardinality(1..Cardinality(S)) = Cardinality(S)
      BY <1>2, FS_Interval
    <2> QED BY <2>1, <2>2, FS_Injection
  <1>7. ASSUME NEW i \in 1..Cardinality(S)
        PROVE  Ranked(S, i) \in S /\ rank[Ranked(S, i)] = i
    <2>1. \E c \in S : Cardinality(Below(c)) = i
      BY <1>3, <1>6 DEF Surjection
    <2>2. Ranked(S, i) \in S /\ Cardinality(Below(Ranked(S, i))) = i
      BY <2>1 DEF Ranked
    <2> QED BY <1>3, <2>2
  <1>8. ASSUME NEW c \in S PROVE Ranked(S, rank[c]) = c
    <2>1. rank[c] \in 1..Cardinality(S)
      BY <1>3
    <2> HIDE DEF rank
    <2>2. Ranked(S, rank[c]) \in S /\ rank[Ranked(S, rank[c])] = rank[c]
      BY <1>7, <2>1
    <2> QED BY <1>5, <2>2
  <1> HIDE DEF rank
  <1> QED BY <1>2, <1>3, <1>7, <1>8

\* Among finitely many positions there is a last one.
LEMMA LatestExists ==
  ASSUME NEW n \in Nat, NEW S \in SUBSET (1..n), S # {}
  PROVE  \E k \in S : \A other \in S : other <= k
  <1> DEFINE R == {p \in Nat \X Nat : p[1] < p[2]}
             T == {n - i : i \in S}
  <1>1. IsWellFoundedOn(R, Nat)
    BY NatLessThanWellFounded DEF OpToRel
  <1>2. T \subseteq Nat /\ T # {}
    <2>1. \A i \in S : n - i \in Nat
      OBVIOUS
    <2>2. PICK i \in S : TRUE
      OBVIOUS
    <2>3. n - i \in T
      BY <2>2
    <2> QED BY <2>1, <2>3
  <1>3. PICK x \in T : \A y \in T : <<y, x>> \notin R
    <2> HIDE DEF R, T
    <2> QED BY <1>1, <1>2, WFMin
  <1>4. PICK k \in S : x = n - k
    BY <1>3
  <1>5. ASSUME NEW other \in S PROVE other <= k
    <2>1. n - other \in T /\ n - other \in Nat /\ x \in Nat
      BY <1>2, <1>3
    <2>2. ~(n - other < x)
      BY <1>3, <2>1
    <2> HIDE DEF R, T
    <2> QED BY <1>4, <2>2
  <1> QED BY <1>5

LEMMA HistoryFacts ==
  ASSUME NEW h \in Histories
  PROVE  /\ Len(h) \in Nat /\ DOMAIN h = 1..Len(h)
         /\ \A i \in 1..Len(h) : h[i] \in Fine
         /\ \A k : Kinds(h, k) = {i \in 1..Len(h) : h[i].kind = k}
         /\ \A m : Positions(h, m) = {i \in 1..Len(h) : h[i] = m}
  BY LenProperties, ElementOfSeq DEF Histories, Kinds, Positions

\* g is the start of h.
Starts(g, h) == Len(g) <= Len(h) /\ \A i \in 1..Len(g) : h[i] = g[i]

LEMMA StartsItself == ASSUME NEW h \in Histories PROVE Starts(h, h)
  BY HistoryFacts DEF Starts

LEMMA StartsOn ==
  ASSUME NEW f \in Histories, NEW g \in Histories, NEW h \in Histories, Starts(f, g), Starts(g, h)
  PROVE  Starts(f, h)
  BY HistoryFacts DEF Starts

LEMMA Appended ==
  ASSUME NEW h \in Histories, NEW m \in Fine
  PROVE  LET long == Append(h, m)
         IN  /\ long \in Histories /\ Len(long) = Len(h) + 1 /\ long # <<>>
             /\ Starts(h, long) /\ long[Len(h) + 1] = m
             /\ \A k : Kinds(long, k) = Kinds(h, k) \union IF m.kind = k THEN {Len(h) + 1} ELSE {}
             /\ \A x : Positions(long, x) = Positions(h, x) \union IF m = x THEN {Len(h) + 1} ELSE {}
  <1> DEFINE long == Append(h, m)
  <1>1. /\ long \in Histories /\ Len(long) = Len(h) + 1 /\ long # <<>>
        /\ Starts(h, long) /\ long[Len(h) + 1] = m
    BY AppendProperties, HistoryFacts DEF Histories, Starts
  <1>2. \A i \in 1..Len(h) + 1 : long[i] = IF i = Len(h) + 1 THEN m ELSE h[i]
    BY <1>1, HistoryFacts DEF Starts
  <1> HIDE DEF long
  <1>3. ASSUME NEW k
        PROVE Kinds(long, k) = Kinds(h, k) \union IF m.kind = k THEN {Len(h) + 1} ELSE {}
    BY <1>1, <1>2, HistoryFacts
  <1>4. ASSUME NEW x
        PROVE Positions(long, x) = Positions(h, x) \union IF m = x THEN {Len(h) + 1} ELSE {}
    BY <1>1, <1>2, HistoryFacts
  <1> QED BY <1>1, <1>3, <1>4 DEF long

LEMMA Joined ==
  ASSUME NEW g \in Histories, NEW h \in Histories
  PROVE  LET both == g \o h
         IN  /\ both \in Histories /\ Len(both) = Len(g) + Len(h) /\ Starts(g, both)
             /\ \A i \in 1..Len(h) : both[Len(g) + i] = h[i]
             /\ \A k : Kinds(h, k) = {} => Kinds(both, k) = Kinds(g, k)
             /\ \A x : Positions(h, x) = {} => Positions(both, x) = Positions(g, x)
  <1> DEFINE both == g \o h
  <1>1. /\ both \in Histories /\ Len(both) = Len(g) + Len(h) /\ Len(g) \in Nat /\ Len(h) \in Nat
        /\ \A i \in 1..Len(g) + Len(h) : both[i] = IF i <= Len(g) THEN g[i] ELSE h[i - Len(g)]
    BY ConcatProperties, HistoryFacts DEF Histories
  <1> HIDE DEF both
  <1>2. Starts(g, both) /\ \A i \in 1..Len(h) : both[Len(g) + i] = h[i]
    BY <1>1 DEF Starts
  <1>3. ASSUME NEW i \in 1..Len(g) + Len(h), ~(i <= Len(g)) PROVE i - Len(g) \in 1..Len(h)
    BY <1>1, <1>3
  <1>4. ASSUME NEW k, Kinds(h, k) = {} PROVE Kinds(both, k) = Kinds(g, k)
    <2>1. \A j \in 1..Len(h) : h[j].kind # k
      BY <1>4, HistoryFacts
    <2>2. \A i \in 1..Len(g) + Len(h) : both[i].kind = k <=> (i <= Len(g) /\ g[i].kind = k)
      BY <1>1, <1>3, <2>1
    <2>3. Kinds(both, k) = {i \in 1..Len(g) + Len(h) : both[i].kind = k}
      BY <1>1, HistoryFacts
    <2>4. Kinds(g, k) = {i \in 1..Len(g) : g[i].kind = k}
      BY HistoryFacts
    <2> QED BY <1>1, <2>2, <2>3, <2>4
  <1>5. ASSUME NEW x, Positions(h, x) = {} PROVE Positions(both, x) = Positions(g, x)
    <2>1. \A j \in 1..Len(h) : h[j] # x
      BY <1>5, HistoryFacts
    <2>2. \A i \in 1..Len(g) + Len(h) : both[i] = x <=> (i <= Len(g) /\ g[i] = x)
      BY <1>1, <1>3, <2>1
    <2>3. Positions(both, x) = {i \in 1..Len(g) + Len(h) : both[i] = x}
      BY <1>1, HistoryFacts
    <2>4. Positions(g, x) = {i \in 1..Len(g) : g[i] = x}
      BY HistoryFacts
    <2> QED BY <1>1, <2>2, <2>3, <2>4
  <1> QED BY <1>1, <1>2, <1>4, <1>5 DEF both

\* A first part of a history.
LEMMA Cut ==
  ASSUME NEW h \in Histories, NEW n \in 0..Len(h)
  PROVE  LET part == SubSeq(h, 1, n)
         IN  part \in Histories /\ Len(part) = n /\ Starts(part, h)
  <1>1. Len(h) \in Nat /\ \A i \in 1..n : h[i] \in Fine
    BY HistoryFacts
  <1>2. /\ SubSeq(h, 1, n) \in Histories /\ Len(SubSeq(h, 1, n)) = IF 1 <= n THEN n - 1 + 1 ELSE 0
        /\ \A i \in 1..n - 1 + 1 : SubSeq(h, 1, n)[i] = h[1 + i - 1]
    BY <1>1, SubSeqProperties DEF Histories
  <1> QED BY <1>1, <1>2 DEF Starts

\* The message whose calls PadOrphanToolResults looks at, and the pads.
LEMMA OrphanFacts ==
  ASSUME NEW h \in Histories
  PROVE  /\ OrphanCalls(h) \in SUBSET Call
         /\ \A c, d \in OrphanCalls(h) : c.pos = d.pos => c = d
         /\ OrphanCalls(h) # {} =>
              \E i \in Kinds(h, "calls") :
                /\ \A other \in Kinds(h, "calls") : other <= i
                /\ OrphanCalls(h) = {c \in h[i].calls : AnswersAfter(h, i, c) = {}}
  <1> DEFINE asked == Kinds(h, "calls")
             i == CHOOSE k \in asked : \A other \in asked : other <= k
  <1>1. CASE asked = {}
    BY <1>1 DEF OrphanCalls
  <1>2. CASE asked # {}
    <2>1. asked \in SUBSET (1..Len(h)) /\ Len(h) \in Nat
      BY HistoryFacts
    <2>2. \E k \in asked : \A other \in asked : other <= k
      <3> HIDE DEF asked
      <3> QED BY <1>2, <2>1, LatestExists
    <2>3. i \in asked /\ \A other \in asked : other <= i
      BY <2>2
    <2>4. h[i] \in Fine /\ h[i].kind = "calls"
      BY <2>1, <2>3, HistoryFacts
    <2>5. OrphanCalls(h) = {c \in h[i].calls : AnswersAfter(h, i, c) = {}}
      BY <1>2 DEF OrphanCalls
    <2> HIDE DEF i
    <2> QED BY <2>3, <2>4, <2>5, MessageFacts
  <1> QED BY <1>1, <1>2

LEMMA PadsFacts ==
  ASSUME NEW h \in Histories
  PROVE  LET pads == PadsFor(h)
             orphans == OrphanCalls(h)
         IN  /\ pads \in Histories /\ Len(pads) = Cardinality(orphans)
             /\ pads = <<>> <=> orphans = {}
             /\ \A i \in 1..Len(pads) : pads[i] = Tool(Ranked(orphans, i), Pad)
             /\ \A k : k # "tool" => Kinds(pads, k) = {}
             /\ \A s : Positions(pads, Said(s)) = {}
  <1> DEFINE pads == PadsFor(h)
             orphans == OrphanCalls(h)
             n == Cardinality(orphans)
  <1>1. IsFiniteSet(orphans) /\ n \in Nat /\ \A i \in 1..n : Ranked(orphans, i) \in Call
    BY OrphanFacts, RankedFacts
  <1>2. pads = [i \in 1..n |-> Tool(Ranked(orphans, i), Pad)]
    BY DEF PadsFor
  <1>3. \A i \in 1..n : Tool(Ranked(orphans, i), Pad) \in Fine
    BY <1>1, MessageFacts
  <1> HIDE DEF pads, n
  <1>4. pads \in Histories /\ Len(pads) = n
    <2>1. pads \in [1..n -> Fine]
      BY <1>2, <1>3
    <2>2. pads \in Seq(Fine)
      BY <1>1, <2>1, SeqDef
    <2> QED BY <1>1, <2>1, <2>2, LenProperties DEF Histories
  <1>5. \A i \in 1..n : pads[i] = Tool(Ranked(orphans, i), Pad)
    BY <1>2
  <1>6. pads = <<>> <=> orphans = {}
    <2>1. n = 0 <=> orphans = {}
      BY <1>1, FS_EmptySet DEF n
    <2>2. pads = <<>> <=> n = 0
      BY <1>4, EmptySeq DEF Histories
    <2> QED BY <2>1, <2>2
  <1>7. \A i \in 1..n : pads[i].kind = "tool"
    <2>1. \A c, r : Tool(c, r).kind = "tool"
      BY DEF Tool
    <2> QED BY <1>5, <2>1
  <1>8. ASSUME NEW k, k # "tool" PROVE Kinds(pads, k) = {}
    BY <1>4, <1>7, <1>8, HistoryFacts
  <1>9. ASSUME NEW s PROVE Positions(pads, Said(s)) = {}
    <2>1. \A i \in 1..n : pads[i] # Said(s)
      BY <1>7 DEF Said
    <2> QED BY <1>4, <2>1, HistoryFacts
  <1> QED BY <1>4, <1>5, <1>6, <1>8, <1>9 DEF pads, n

AtMostOneMarker(h) == \A i, k \in Kinds(h, "aborted") : i = k

\* What repairs a history keeps it: nothing that was said comes or goes.
LEMMA RepairFacts ==
  ASSUME NEW h \in Histories
  PROVE  /\ Marked(h) \in Histories /\ Starts(h, Marked(h))
         /\ Healed(h) \in Histories /\ Starts(h, Healed(h))
         /\ AtMostOneMarker(h) => AtMostOneMarker(Marked(h)) /\ AtMostOneMarker(Healed(h))
         /\ \A s : /\ Positions(Marked(h), Said(s)) = Positions(h, Said(s))
                   /\ Positions(Healed(h), Said(s)) = Positions(h, Said(s))
  <1>1. ASSUME NEW g \in Histories
        PROVE  /\ Marked(g) \in Histories /\ Starts(g, Marked(g))
               /\ AtMostOneMarker(g) => AtMostOneMarker(Marked(g))
               /\ \A s : Positions(Marked(g), Said(s)) = Positions(g, Said(s))
    <2>1. CASE Marked(g) = g
      BY <2>1, StartsItself
    <2>2. CASE Marked(g) # g
      <3>1. Kinds(g, "aborted") = {} /\ Marked(g) = Append(g, Aborted)
        BY <2>2 DEF Marked
      <3>2. Aborted \in Fine /\ Aborted.kind = "aborted" /\ \A s : Aborted # Said(s)
        BY MessageFacts DEF Aborted, Said
      <3>3. /\ Marked(g) \in Histories /\ Starts(g, Marked(g))
            /\ Kinds(Marked(g), "aborted") = {Len(g) + 1}
            /\ \A s : Positions(Marked(g), Said(s)) = Positions(g, Said(s))
        <4>1. /\ Marked(g) \in Histories /\ Starts(g, Marked(g))
              /\ \A k : Kinds(Marked(g), k)
                          = Kinds(g, k) \union IF Aborted.kind = k THEN {Len(g) + 1} ELSE {}
              /\ \A x : Positions(Marked(g), x)
                          = Positions(g, x) \union IF Aborted = x THEN {Len(g) + 1} ELSE {}
          BY <3>1, <3>2, Appended
        <4> QED BY <3>1, <3>2, <4>1
      <3> QED BY <3>3 DEF AtMostOneMarker
    <2> QED BY <2>1, <2>2
  <1>2. CASE Healed(h) = h
    BY <1>1, <1>2, StartsItself
  <1>3. CASE Healed(h) = Marked(h)
    BY <1>1, <1>3
  <1>4. CASE Healed(h) = Marked(h \o PadsFor(h))
    <2> DEFINE padded == h \o PadsFor(h)
    <2>1. PadsFor(h) \in Histories /\ Kinds(PadsFor(h), "aborted") = {}
          /\ \A s : Positions(PadsFor(h), Said(s)) = {}
      BY PadsFacts
    <2>2. /\ padded \in Histories /\ Starts(h, padded)
          /\ Kinds(padded, "aborted") = Kinds(h, "aborted")
          /\ \A s : Positions(padded, Said(s)) = Positions(h, Said(s))
      BY <2>1, Joined
    <2> HIDE DEF padded
    <2>3. Healed(h) = Marked(padded)
      BY <1>4 DEF padded
    <2>4. Healed(h) \in Histories /\ Starts(padded, Healed(h))
          /\ (AtMostOneMarker(padded) => AtMostOneMarker(Healed(h)))
          /\ \A s : Positions(Healed(h), Said(s)) = Positions(padded, Said(s))
      BY <1>1, <2>2, <2>3
    <2>5. Starts(h, Healed(h))
      BY <2>2, <2>4, StartsOn
    <2>6. AtMostOneMarker(h) => AtMostOneMarker(padded)
      BY <2>2 DEF AtMostOneMarker
    <2> QED BY <1>1, <2>2, <2>4, <2>5, <2>6
  <1> QED BY <1>2, <1>3, <1>4 DEF Healed
----------------------------------------------------------------------------
PcTyped ==
  /\ IsPc
  /\ \A t \in Turns : pc[t] \in TurnState
  /\ \A m \in Messages : pc[m] \in MessageState

SavedTyped == msgs \in Histories /\ row \in Histories /\ faults \in 0..MaxFaults

BufferTyped ==
  /\ steerBuf \in Histories
  /\ getting \in [actor : Actors, row : Histories] \union {NoGet}

FlagsTyped ==
  /\ loaded \in BOOLEAN /\ depth \in Nat
  /\ lost \in SUBSET Messages /\ reloaded \in BOOLEAN /\ overlapped \in BOOLEAN

\* A turn that appends has something to append.
TurnsTyped ==
  /\ iter \in [Turns -> 0..MaxIterations]
  /\ todo \in [Turns -> Histories]
  /\ \A t \in Turns : pc[t] \in Appending => todo[t] # <<>>

WellTyped == PcTyped /\ SavedTyped /\ BufferTyped /\ FlagsTyped /\ TurnsTyped

LEMMA WellTypedImpliesTypeOK == WellTyped => TypeOK
  <1> SUFFICES ASSUME WellTyped PROVE TypeOK
    OBVIOUS
  <1>1. Fine \subseteq Message
    BY DEF Fine
  <1>2. \A h \in Histories : h \in History
    BY <1>1, SeqMonotonic DEF Histories, History
  <1>3. msgs \in History /\ row \in History /\ steerBuf \in History
    BY <1>2 DEF WellTyped, SavedTyped, BufferTyped
  <1>4. getting \in [actor : Actors, row : History] \union {NoGet}
    BY <1>2 DEF WellTyped, BufferTyped
  <1>5. todo \in [Turns -> History]
    BY <1>2 DEF WellTyped, TurnsTyped
  <1> QED BY <1>3, <1>4, <1>5
          DEF WellTyped, PcTyped, SavedTyped, FlagsTyped, TurnsTyped, TypeOK

LEMMA WellTypedInit == Init => WellTyped
  <1> SUFFICES ASSUME Init PROVE WellTyped
    OBVIOUS
  <1>1. <<>> \in Histories
    BY EmptySeq DEF Histories
  <1>2. PcTyped
    BY DEF Init, PcTyped, IsPc, Actors, TurnState, MessageState
  <1>3. SavedTyped /\ BufferTyped
    BY <1>1, SessionAssumption DEF Init, SavedTyped, BufferTyped
  <1>4. FlagsTyped
    <2>1. loaded \in BOOLEAN /\ reloaded \in BOOLEAN /\ overlapped \in BOOLEAN
      BY DEF Init
    <2> QED BY <2>1 DEF Init, FlagsTyped
  <1>5. TurnsTyped
    BY <1>1, SessionAssumption DEF Init, TurnsTyped, Appending, Actors
  <1> QED BY <1>2, <1>3, <1>4, <1>5 DEF WellTyped

LEMMA SaveTyped ==
  ASSUME SavedTyped, NEW h \in Histories, Save(h)
  PROVE  SavedTyped'
  BY SessionAssumption DEF Save, SavedTyped

\* One actor moves.
LEMMA Moves ==
  ASSUME PcTyped, NEW a \in Actors, NEW state, Goto(a, state),
         a \in Turns => state \in TurnState, a \in Messages => state \in MessageState
  PROVE  PcTyped' /\ \A b \in Actors : pc'[b] = IF b = a THEN state ELSE pc[b]
  <1>1. IsPc' /\ \A b \in Actors : pc'[b] = IF b = a THEN state ELSE pc[b]
    BY DEF PcTyped, Goto, IsPc
  <1> QED BY <1>1 DEF PcTyped, Actors

\* A turn moves, and what it is about to append may change.
LEMMA TurnMoves ==
  ASSUME PcTyped, TurnsTyped, NEW t \in Turns, NEW state \in TurnState, Goto(t, state),
         NEW q \in Histories, state \in Appending => q # <<>>,
         NEW n \in 0..MaxIterations, iter' = [iter EXCEPT ![t] = n],
         todo' = [todo EXCEPT ![t] = q]
  PROVE  PcTyped' /\ TurnsTyped'
  <1>1. t \in Actors /\ t \notin Messages
    BY SessionAssumption DEF Actors
  <1>2. PcTyped' /\ \A u \in Turns : pc'[u] = IF u = t THEN state ELSE pc[u]
    BY <1>1, Moves DEF Actors
  <1>3. iter' \in [Turns -> 0..MaxIterations] /\ todo' \in [Turns -> Histories]
    BY DEF TurnsTyped
  <1>4. \A u \in Turns : todo'[u] = IF u = t THEN q ELSE todo[u]
    BY DEF TurnsTyped
  <1> QED BY <1>2, <1>3, <1>4 DEF TurnsTyped

\* An actor that holds no turn in the middle of appending moves.
LEMMA OutsiderMoves ==
  ASSUME PcTyped, TurnsTyped, NEW a \in Actors, NEW state, state \notin Appending, Goto(a, state),
         a \in Turns => state \in TurnState, a \in Messages => state \in MessageState,
         UNCHANGED <<iter, todo>>
  PROVE  PcTyped' /\ TurnsTyped'
  <1>1. PcTyped' /\ \A b \in Actors : pc'[b] = IF b = a THEN state ELSE pc[b]
    BY Moves
  <1> QED BY <1>1 DEF TurnsTyped, Actors
----------------------------------------------------------------------------
LEMMA GetTyped ==
  ASSUME WellTyped, NEW a \in Actors, Get(a)
  PROVE  WellTyped'
  <1>t. PcTyped /\ SavedTyped /\ BufferTyped /\ FlagsTyped /\ TurnsTyped
    BY DEF WellTyped
  <1>1. PcTyped' /\ TurnsTyped'
    <2>1. PICK state \in {"fetched", "got", "dead"} : Goto(a, state)
      BY DEF Get, Fetch, Install, Load, LoadNothing, DieLoading
    <2>2. UNCHANGED <<iter, todo>>
      BY DEF Get, Fetch, Install, Load, LoadNothing, DieLoading
    <2>3. state \in TurnState /\ state \in MessageState /\ state \notin Appending
      BY <2>1 DEF TurnState, MessageState, Appending
    <2> QED BY <1>t, <2>1, <2>2, <2>3, OutsiderMoves
  <1>2. CASE Fetch(a)
    <2>1. SavedTyped' /\ FlagsTyped'
      BY <1>t, <1>2 DEF Fetch, history, SavedTyped, FlagsTyped
    <2>2. BufferTyped'
      BY <1>t, <1>2 DEF Fetch, SavedTyped, BufferTyped
    <2> QED BY <1>1, <2>1, <2>2 DEF WellTyped
  <1>3. CASE Install(a)
    <2>1. getting.row \in Histories
      <3>1. <<>> \in Histories
        BY EmptySeq DEF Histories
      <3> QED BY <1>t, <3>1 DEF BufferTyped, NoGet
    <2>2. BufferTyped'
      BY <1>t, <1>3 DEF Install, BufferTyped
    <2>3. SavedTyped'
      BY <1>t, <1>3, <2>1, SessionAssumption DEF Install, SavedTyped
    <2>4. reloaded' \in BOOLEAN
      BY <1>t, <1>3 DEF Install, FlagsTyped
    <2>5. FlagsTyped'
      BY <1>t, <1>3, <2>4 DEF Install, FlagsTyped, SteersIn
    <2> QED BY <1>1, <2>2, <2>3, <2>5 DEF WellTyped
  <1>4. CASE Load(a)
    <2>1. Healed(row) \in Histories
      BY <1>t, RepairFacts DEF SavedTyped
    <2>2. SavedTyped' /\ BufferTyped'
      BY <1>t, <1>4, <2>1 DEF Load, history, SavedTyped, BufferTyped
    <2>3. loaded' \in BOOLEAN
      BY <1>4 DEF Load
    <2>4. FlagsTyped'
      BY <1>t, <1>4, <2>3 DEF Load, history, FlagsTyped
    <2> QED BY <1>1, <2>2, <2>4 DEF WellTyped
  <1>5. CASE LoadNothing(a)
    <2>1. SavedTyped' /\ BufferTyped'
      BY <1>t, <1>5, SessionAssumption DEF LoadNothing, SavedTyped, BufferTyped
    <2>2. loaded' \in BOOLEAN /\ reloaded' \in BOOLEAN
      BY <1>t, <1>5 DEF LoadNothing, FlagsTyped
    <2>3. FlagsTyped'
      BY <1>t, <1>5, <2>2 DEF LoadNothing, FlagsTyped, SteersIn
    <2> QED BY <1>1, <2>1, <2>3 DEF WellTyped
  <1>6. CASE DieLoading(a)
    <2>1. PICK n \in Len(row)..Len(Healed(row)) : row' = SubSeq(Healed(row), 1, n)
      BY <1>6 DEF DieLoading
    <2>2. Healed(row) \in Histories /\ n \in 0..Len(Healed(row))
      BY <1>t, <2>1, RepairFacts, HistoryFacts DEF SavedTyped
    <2>3. row' \in Histories
      BY <2>1, <2>2, Cut
    <2>4. SavedTyped' /\ BufferTyped'
      BY <1>t, <1>6, <2>3, SessionAssumption DEF DieLoading, SavedTyped, BufferTyped
    <2>5. FlagsTyped'
      BY <1>t, <1>6 DEF DieLoading, FlagsTyped
    <2> QED BY <1>1, <2>4, <2>5 DEF WellTyped
  <1> QED BY <1>2, <1>3, <1>4, <1>5, <1>6 DEF Get

LEMMA MessageTyped ==
  ASSUME WellTyped, NEW m \in Messages, PushSteer(m) \/ Inject(m)
  PROVE  WellTyped'
  <1>t. PcTyped /\ SavedTyped /\ BufferTyped /\ FlagsTyped /\ TurnsTyped
    BY DEF WellTyped
  <1>m. m \in Actors /\ m \notin Turns /\ Said(m) \in Fine
    BY SessionAssumption, MessageFacts DEF Actors
  <1>1. PcTyped' /\ TurnsTyped'
    <2>1. PICK state \in {"accepted", "refused", "noted"} : Goto(m, state)
      BY DEF PushSteer, Inject
    <2>2. UNCHANGED <<iter, todo>>
      BY DEF PushSteer, Inject
    <2>3. state \in MessageState /\ state \notin Appending
      BY <2>1 DEF MessageState, Appending
    <2> QED BY <1>t, <1>m, <2>1, <2>2, <2>3, OutsiderMoves
  <1>2. CASE PushSteer(m)
    <2>1. SavedTyped' /\ FlagsTyped'
      BY <1>t, <1>2 DEF PushSteer, history, SavedTyped, FlagsTyped
    <2>2. Append(steerBuf, Said(m)) \in Histories
      BY <1>t, <1>m, Appended DEF BufferTyped
    <2>3. BufferTyped'
      BY <1>t, <1>2, <2>2 DEF PushSteer, BufferTyped
    <2> QED BY <1>1, <2>1, <2>3 DEF WellTyped
  <1>3. CASE Inject(m)
    <2>1. Append(msgs, Said(m)) \in Histories
      BY <1>t, <1>m, Appended DEF SavedTyped
    <2>2. SavedTyped'
      BY <1>t, <1>3, <2>1, SaveTyped DEF Inject
    <2>3. BufferTyped' /\ FlagsTyped'
      BY <1>t, <1>3 DEF Inject, BufferTyped, FlagsTyped
    <2> QED BY <1>1, <2>2, <2>3 DEF WellTyped
  <1> QED BY <1>2, <1>3

\* The calls of an answer, and their results in any order.
LEMMA AnswerFacts ==
  ASSUME TurnsTyped, NEW t \in Turns, NEW n \in 1..MaxCalls
  PROVE  /\ n \in Nat /\ \A p \in 1..n : CallOf(t, p) \in Call
         /\ Calls({CallOf(t, p) : p \in 1..n}) \in Fine
         /\ \A order \in ResultOrders(n) :
              LET results == [p \in 1..n |-> Tool(CallOf(t, p), CallOf(t, order[p]))]
              IN  results \in Histories /\ Len(results) = n /\ results # <<>>
  <1>1. n \in Nat /\ n > 0 /\ iter[t] \in 0..MaxIterations
    BY SessionAssumption DEF TurnsTyped
  <1>2. \A p \in 1..n : CallOf(t, p) \in Call /\ CallOf(t, p).pos = p
    BY <1>1, SessionAssumption DEF CallOf, Call
  <1>3. Calls({CallOf(t, p) : p \in 1..n}) \in Fine
    <2> DEFINE cs == {CallOf(t, p) : p \in 1..n}
    <2>1. cs \in SUBSET Call
      BY <1>2
    <2>2. \A c, d \in cs : c.pos = d.pos => c = d
      BY <1>2
    <2> QED BY <2>1, <2>2, MessageFacts
  <1>4. ASSUME NEW order \in ResultOrders(n)
        PROVE  LET results == [p \in 1..n |-> Tool(CallOf(t, p), CallOf(t, order[p]))]
               IN  results \in Histories /\ Len(results) = n /\ results # <<>>
    <2> DEFINE results == [p \in 1..n |-> Tool(CallOf(t, p), CallOf(t, order[p]))]
    <2>1. \A p \in 1..n : order[p] \in 1..n
      BY DEF ResultOrders
    <2>2. \A p \in 1..n : Tool(CallOf(t, p), CallOf(t, order[p])) \in Fine
      BY <1>2, <2>1, MessageFacts
    <2>3. results \in [1..n -> Fine]
      BY <2>2
    <2> HIDE DEF results
    <2>4. results \in Histories
      BY <1>1, <2>3, SeqDef DEF Histories
    <2>5. Len(results) = n
      BY <1>1, <2>3, <2>4, LenProperties DEF Histories
    <2>6. results # <<>>
      BY <1>1, <2>5, EmptySeq
    <2> QED BY <2>4, <2>5, <2>6 DEF results
  <1> QED BY <1>1, <1>2, <1>3, <1>4

\* The steps of a turn keep the rest: it is saved, or it is put in the buffer's place.
LEMMA TurnTyped ==
  ASSUME WellTyped, NEW t \in Turns, TurnStep(t)
  PROVE  WellTyped'
  <1>t. PcTyped /\ SavedTyped /\ BufferTyped /\ FlagsTyped /\ TurnsTyped
    BY DEF WellTyped
  <1>s. Said(t) \in Fine /\ Text \in Fine /\ <<>> \in Histories
    BY MessageFacts, EmptySeq DEF Actors, Histories
  <1>i. /\ iter[t] \in 0..MaxIterations /\ todo[t] \in Histories
        /\ iter = [iter EXCEPT ![t] = iter[t]] /\ todo = [todo EXCEPT ![t] = todo[t]]
        /\ 0 \in 0..MaxIterations /\ MaxIterations \in 0..MaxIterations
        /\ iter[t] < MaxIterations => iter[t] + 1 \in 0..MaxIterations
    BY <1>t, SessionAssumption DEF TurnsTyped
  <1>a. ASSUME NEW m \in Fine, Save(Append(msgs, m)) PROVE SavedTyped'
    <2>1. Append(msgs, m) \in Histories
      BY <1>t, Appended DEF SavedTyped
    <2> QED BY <1>t, <1>a, <2>1, SaveTyped
  <1>u. ASSUME UNCHANGED <<msgs, row, faults>> PROVE SavedTyped'
    BY <1>t, <1>u DEF SavedTyped
  <1>b. ASSUME UNCHANGED <<steerBuf, getting>> PROVE BufferTyped'
    BY <1>t, <1>b DEF BufferTyped
  <1>f. ASSUME UNCHANGED <<loaded, depth, lost, reloaded, overlapped>> PROVE FlagsTyped'
    BY <1>t, <1>f DEF FlagsTyped
  \* It goes where it appends nothing, and its count of model calls may change.
  <1>g. ASSUME NEW state \in TurnState \ Appending, Goto(t, state),
               NEW n \in 0..MaxIterations, iter' = [iter EXCEPT ![t] = n], UNCHANGED todo
        PROVE  PcTyped' /\ TurnsTyped'
    BY <1>t, <1>i, <1>g, TurnMoves
  <1>h. ASSUME NEW state \in TurnState \ Appending, Goto(t, state), UNCHANGED <<iter, todo>>
        PROVE  PcTyped' /\ TurnsTyped'
    BY <1>i, <1>g, <1>h
  \* It goes where it appends q.
  <1>q. ASSUME NEW state \in TurnState, Goto(t, state), NEW q \in Histories, q # <<>>,
               todo' = [todo EXCEPT ![t] = q],
               NEW n \in 0..MaxIterations, iter' = [iter EXCEPT ![t] = n]
        PROVE  PcTyped' /\ TurnsTyped'
    BY <1>t, <1>q, TurnMoves
  <1>1. CASE Claim(t)
    <2>1. PICK state \in {"user", "skipped"} : Goto(t, state)
      BY <1>1 DEF Claim, Begin
    <2>2. PcTyped' /\ TurnsTyped'
      BY <1>1, <1>h, <2>1 DEF Claim, TurnState, Appending
    <2>3. overlapped' \in BOOLEAN
      BY <1>1, <1>t DEF Claim, Begin, FlagsTyped
    <2>4. FlagsTyped'
      BY <1>1, <1>t, <2>3 DEF Claim, Begin, FlagsTyped
    <2> QED BY <1>1, <1>u, <1>b, <2>2, <2>4 DEF Claim, WellTyped
  <1>2. CASE AppendUser(t)
    <2>1. SavedTyped' /\ BufferTyped' /\ FlagsTyped'
      BY <1>2, <1>s, <1>a, <1>b, <1>f DEF AppendUser
    <2>2. PcTyped' /\ TurnsTyped'
      <3>1. CASE (Goto(t, "llm") \/ Goto(t, "plan")) /\ UNCHANGED todo
        BY <1>2, <1>h, <3>1 DEF AppendUser, TurnState, Appending
      <3>2. CASE /\ Goto(t, "hook")
                 /\ todo' = [todo EXCEPT ![t] =
                               <<Calls({CallOf(t, 1)}), Tool(CallOf(t, 1), CallOf(t, 1)), Text>>]
        <4> DEFINE c == CallOf(t, 1)
                   exchange == <<Calls({c}), Tool(c, c), Text>>
        <4>1. c \in Call
          BY <1>i, SessionAssumption DEF CallOf, Call
        <4>2. Calls({c}) \in Fine /\ Tool(c, c) \in Fine
          BY <4>1, MessageFacts
        <4>3. exchange \in Histories /\ exchange # <<>>
          BY <1>s, <4>2 DEF Histories
        <4>4. todo' = [todo EXCEPT ![t] = exchange] /\ iter' = [iter EXCEPT ![t] = iter[t]]
          BY <1>2, <1>i, <3>2 DEF AppendUser
        <4> HIDE DEF exchange
        <4> QED BY <1>i, <1>q, <3>2, <4>3, <4>4 DEF TurnState
      <3> QED BY <1>2, <3>1, <3>2 DEF AppendUser
    <2> QED BY <2>1, <2>2 DEF WellTyped
  <1>3. CASE Plan(t)
    <2>1. PcTyped' /\ TurnsTyped'
      BY <1>3, <1>h DEF Plan, TurnState, Appending
    <2> QED BY <1>3, <1>s, <1>a, <1>u, <1>b, <1>f, <2>1 DEF Plan, WellTyped
  <1>4. CASE Reply(t)
    <2>1. PICK state \in {"final", "llm"} : Goto(t, state)
      BY <1>4 DEF Reply
    <2>2. iter[t] + 1 \in 0..MaxIterations /\ iter' = [iter EXCEPT ![t] = iter[t] + 1]
      BY <1>4, <1>i DEF Reply, MayCall
    <2>3. PcTyped' /\ TurnsTyped'
      BY <1>4, <1>g, <2>1, <2>2 DEF Reply, TurnState, Appending
    <2> QED BY <1>4, <1>s, <1>a, <1>b, <1>f, <2>3 DEF Reply, WellTyped
  <1>5. CASE CallTools(t)
    <2>1. PICK n \in 1..MaxCalls :
            /\ Save(Append(msgs, Calls({CallOf(t, p) : p \in 1..n})))
            /\ \E order \in ResultOrders(n) :
                 todo' = [todo EXCEPT ![t] = [p \in 1..n |-> Tool(CallOf(t, p), CallOf(t, order[p]))]]
      BY <1>5 DEF CallTools
    <2>2. PICK order \in ResultOrders(n) :
            todo' = [todo EXCEPT ![t] = [p \in 1..n |-> Tool(CallOf(t, p), CallOf(t, order[p]))]]
      BY <2>1
    <2>3. PICK state \in {"results", "parked"} : Goto(t, state)
      BY <1>5 DEF CallTools
    <2>4. iter[t] + 1 \in 0..MaxIterations /\ iter' = [iter EXCEPT ![t] = iter[t] + 1]
      BY <1>5, <1>i DEF CallTools, MayCall
    <2> DEFINE results == [p \in 1..n |-> Tool(CallOf(t, p), CallOf(t, order[p]))]
    <2>5. results \in Histories /\ results # <<>>
      BY <1>t, AnswerFacts
    <2>6. todo' = [todo EXCEPT ![t] = results]
      BY <2>2
    <2> HIDE DEF results
    <2>7. PcTyped' /\ TurnsTyped'
      BY <1>q, <2>3, <2>4, <2>5, <2>6 DEF TurnState
    <2>8. SavedTyped'
      BY <1>a, <1>t, <2>1, AnswerFacts
    <2> QED BY <1>5, <1>b, <1>f, <2>7, <2>8 DEF CallTools, WellTyped
  <1>6. CASE CallInLoop(t)
    <2>1. PICK n \in 1..MaxCalls : Save(Append(msgs, Calls({CallOf(t, p) : p \in 1..n})))
      BY <1>6 DEF CallInLoop
    <2>2. SavedTyped'
      BY <1>a, <1>t, <2>1, AnswerFacts
    <2>3. <<Text>> \in Histories /\ <<Text>> # <<>>
      BY <1>s DEF Histories
    <2>4. PcTyped' /\ TurnsTyped'
      BY <1>6, <1>q, <1>i, <2>3 DEF CallInLoop, TurnState
    <2> QED BY <1>6, <1>b, <1>f, <2>2, <2>4 DEF CallInLoop, WellTyped
  <1>7. CASE FailTurn(t) \/ Conclude(t)
    <2>1. PcTyped' /\ TurnsTyped'
      BY <1>7, <1>h DEF FailTurn, Conclude, TurnState, Appending
    <2> QED BY <1>7, <1>s, <1>a, <1>b, <1>f, <2>1 DEF FailTurn, Conclude, WellTyped
  <1>8. CASE Quit(t)
    <2>1. PcTyped' /\ TurnsTyped'
      BY <1>8, <1>h DEF Quit, TurnState, Appending
    <2> QED BY <1>8, <1>u, <1>b, <1>f, <2>1 DEF Quit, sessionVars, history, WellTyped
  <1>9. CASE AppendNext(t)
    <2>1. pc[t] \in Appending /\ todo[t] # <<>>
      BY <1>9, <1>t DEF AppendNext, TurnsTyped
    <2>2. /\ Head(todo[t]) \in Fine /\ Tail(todo[t]) \in Histories
          /\ Len(Tail(todo[t])) = Len(todo[t]) - 1
      BY <1>i, <2>1, HeadTailProperties DEF Histories
    <2>3. PcTyped' /\ TurnsTyped'
      <3>1. todo' = [todo EXCEPT ![t] = Tail(todo[t])] /\ iter' = [iter EXCEPT ![t] = iter[t]]
        BY <1>9, <1>i DEF AppendNext
      <3>2. PICK state \in TurnState :
              Goto(t, state) /\ (state \in Appending => Tail(todo[t]) # <<>>)
        <4>1. CASE Len(todo[t]) = 1
          <5>1. After(pc[t]) \in TurnState /\ After(pc[t]) \notin Appending
            BY <2>1 DEF Appending, After, TurnState
          <5> QED BY <1>9, <4>1, <5>1 DEF AppendNext
        <4>2. CASE Len(todo[t]) # 1
          <5>1. Tail(todo[t]) # <<>>
            <6>1. Len(todo[t]) \in Nat /\ Len(Tail(todo[t])) # 0
              BY <1>i, <2>2, <4>2, HistoryFacts
            <6>2. Len(<<>>) = 0
              OBVIOUS
            <6> QED BY <6>1, <6>2
          <5>2. pc[t] \in TurnState /\ Goto(t, pc[t])
            <6>1. UNCHANGED pc
              BY <1>9, <4>2 DEF AppendNext
            <6> QED BY <1>t, <6>1 DEF PcTyped, Goto, IsPc
          <5> QED BY <5>1, <5>2
        <4> QED BY <4>1, <4>2
      <3> QED BY <1>t, <1>i, <2>2, <3>1, <3>2, TurnMoves
    <2> QED BY <1>9, <1>a, <1>b, <1>f, <2>2, <2>3 DEF AppendNext, WellTyped
  <1>10. CASE Drain(t)
    <2>1. PcTyped' /\ TurnsTyped'
      <3>1. CASE steerBuf # <<>> /\ todo' = [todo EXCEPT ![t] = steerBuf] /\ Goto(t, "fold")
        BY <1>10, <1>t, <1>i, <1>q, <3>1 DEF Drain, BufferTyped, TurnState
      <3>2. CASE Goto(t, IF pc[t] = "drain" THEN "llm" ELSE "pad") /\ UNCHANGED todo
        BY <1>10, <1>h, <3>2 DEF Drain, TurnState, Appending
      <3> QED BY <1>10, <3>1, <3>2 DEF Drain
    <2>2. BufferTyped'
      BY <1>10, <1>t, <1>s DEF Drain, BufferTyped
    <2> QED BY <1>10, <1>u, <1>f, <2>1, <2>2 DEF Drain, history, WellTyped
  <1>11. CASE ScanOrphans(t)
    <2>1. PadsFor(msgs) \in Histories
      BY <1>t, PadsFacts DEF SavedTyped
    <2>2. PcTyped' /\ TurnsTyped'
      <3>1. CASE Goto(t, "end") /\ UNCHANGED todo
        BY <1>11, <1>i, <1>g, <3>1 DEF ScanOrphans, TurnState, Appending
      <3>2. CASE PadsFor(msgs) # <<>> /\ todo' = [todo EXCEPT ![t] = PadsFor(msgs)]
                 /\ Goto(t, "padding")
        BY <1>11, <1>i, <1>q, <2>1, <3>2 DEF ScanOrphans, TurnState
      <3> QED BY <1>11, <3>1, <3>2 DEF ScanOrphans
    <2> QED BY <1>11, <1>u, <1>b, <1>f, <2>2 DEF ScanOrphans, sessionVars, history, WellTyped
  <1>12. CASE MarkAborted(t)
    <2>1. PcTyped' /\ TurnsTyped'
      BY <1>12, <1>h DEF MarkAborted, TurnState, Appending
    <2>2. SavedTyped'
      <3>1. Marked(msgs) \in Histories
        BY <1>t, RepairFacts DEF SavedTyped
      <3> QED BY <1>12, <1>t, <1>u, <3>1, SaveTyped DEF MarkAborted
    <2> QED BY <1>12, <1>b, <1>f, <2>1, <2>2 DEF MarkAborted, WellTyped
  <1>13. CASE EndTurn(t) \/ EndHook(t)
    <2>1. PcTyped' /\ TurnsTyped'
      <3>1. CASE Goto(t, "done") /\ UNCHANGED todo
        BY <1>13, <1>h, <3>1 DEF EndTurn, EndHook, TurnState, Appending
      <3>2. CASE steerBuf # <<>> /\ todo' = [todo EXCEPT ![t] = steerBuf] /\ Goto(t, "flush")
                 /\ UNCHANGED iter
        BY <1>t, <1>i, <1>q, <3>2 DEF BufferTyped, TurnState
      <3> QED BY <1>13, <3>1, <3>2 DEF EndTurn, EndHook
    <2>2. BufferTyped'
      BY <1>13, <1>t, <1>s DEF EndTurn, EndHook, BufferTyped
    <2>3. FlagsTyped'
      <3>1. depth' \in Nat
        BY <1>13, <1>t DEF EndTurn, EndHook, Released, FlagsTyped
      <3>2. lost' \in SUBSET Messages
        BY <1>13, <1>t DEF EndTurn, EndHook, FlagsTyped, SteersIn, history
      <3>3. UNCHANGED <<loaded, reloaded, overlapped>>
        BY <1>13 DEF EndTurn, EndHook, history
      <3> QED BY <1>t, <3>1, <3>2, <3>3 DEF FlagsTyped
    <2> QED BY <1>13, <1>u, <2>1, <2>2, <2>3 DEF EndTurn, EndHook, history, WellTyped
  <1> QED BY <1>1, <1>2, <1>3, <1>4, <1>5, <1>6, <1>7, <1>8, <1>9, <1>10, <1>11, <1>12, <1>13
          DEF TurnStep

LEMMA CrashTyped ==
  ASSUME WellTyped, Crash
  PROVE  WellTyped'
  <1>t. PcTyped /\ SavedTyped /\ BufferTyped /\ FlagsTyped /\ TurnsTyped
    BY DEF WellTyped
  <1>1. PcTyped'
    BY <1>t, SessionAssumption DEF Crash, PcTyped, IsPc, Actors, TurnState, MessageState
  <1>2. <<>> \in Histories
    BY EmptySeq DEF Histories
  <1>3. SavedTyped' /\ BufferTyped'
    BY <1>t, <1>2, SessionAssumption DEF Crash, SavedTyped, BufferTyped
  <1>4. TurnsTyped'
    <2>1. \A t \in Turns : pc'[t] \notin Appending
      BY DEF Crash, Actors, Appending
    <2> QED BY <1>2, <2>1, SessionAssumption DEF Crash, TurnsTyped
  <1>5. loaded' \in BOOLEAN /\ UNCHANGED <<reloaded, overlapped>>
    BY DEF Crash
  <1>6. FlagsTyped'
    BY <1>t, <1>5 DEF Crash, FlagsTyped, Unsaved
  <1> QED BY <1>1, <1>3, <1>4, <1>6 DEF WellTyped

LEMMA WellTypedNext == WellTyped /\ [Next]_vars => WellTyped'
  <1> SUFFICES ASSUME WellTyped, [Next]_vars PROVE WellTyped'
    OBVIOUS
  <1>1. CASE \E a \in Actors : Get(a)
    BY <1>1, GetTyped
  <1>2. CASE \E m \in Messages : PushSteer(m) \/ Inject(m)
    BY <1>2, MessageTyped
  <1>3. CASE \E t \in Turns : TurnStep(t)
    BY <1>3, TurnTyped
  <1>4. CASE Crash
    BY <1>4, CrashTyped
  <1>5. CASE UNCHANGED vars
    BY <1>5 DEF vars, sessionVars, turnVars, history, WellTyped, PcTyped, IsPc, SavedTyped,
                BufferTyped, FlagsTyped, TurnsTyped
  <1> QED BY <1>1, <1>2, <1>3, <1>4, <1>5 DEF Next, AtRest

\* Every variable keeps its type, for any turns, messages, calls and faults: among others,
\* a tool message always names a call, whoever padded it, and no more model calls are made
\* than the limit.
THEOREM TypeCorrect == Spec => []TypeOK
  BY WellTypedInit, WellTypedNext, WellTypedImpliesTypeOK, PTL DEF Spec
----------------------------------------------------------------------------
(* The marker. *)

Unmarked(h) == Kinds(h, "aborted") = {}

\* Nobody is about to append a marker but who checks that there is none.
Markers ==
  /\ AtMostOneMarker(msgs) /\ AtMostOneMarker(row) /\ AtMostOneMarker(getting.row)
  /\ Unmarked(steerBuf) /\ \A t \in Turns : Unmarked(todo[t])

LEMMA EmptyUnmarked == Unmarked(<<>>) /\ AtMostOneMarker(<<>>)
  BY DEF Unmarked, AtMostOneMarker, Kinds

\* No message but the marker is one.
LEMMA AppendedUnmarked ==
  ASSUME NEW h \in Histories, NEW m \in Fine, m.kind # "aborted"
  PROVE  /\ AtMostOneMarker(h) => AtMostOneMarker(Append(h, m))
         /\ Unmarked(h) => Unmarked(Append(h, m))
  <1>1. \A k : Kinds(Append(h, m), k) = Kinds(h, k) \union IF m.kind = k THEN {Len(h) + 1} ELSE {}
    BY Appended
  <1>2. Kinds(Append(h, m), "aborted") = Kinds(h, "aborted")
    BY <1>1
  <1> QED BY <1>2 DEF AtMostOneMarker, Unmarked

\* What is left to append.
LEMMA TailUnmarked ==
  ASSUME NEW h \in Histories, h # <<>>, Unmarked(h)
  PROVE  Head(h).kind # "aborted" /\ Unmarked(Tail(h))
  <1>1. \A i \in 1..Len(h) : h[i].kind # "aborted"
    BY HistoryFacts DEF Unmarked
  <1>2. /\ Tail(h) \in Histories /\ Len(Tail(h)) = Len(h) - 1 /\ Len(h) \in Nat \ {0}
        /\ \A i \in 1..Len(Tail(h)) : Tail(h)[i] = h[i + 1]
        /\ Head(h) = h[1]
    BY HeadTailProperties, EmptySeq DEF Histories
  <1>3. \A i \in 1..Len(Tail(h)) : Tail(h)[i].kind # "aborted"
    <2>1. \A i \in 1..Len(Tail(h)) : i + 1 \in 1..Len(h)
      BY <1>2
    <2> QED BY <1>1, <1>2, <2>1
  <1>4. Unmarked(Tail(h))
    <2> DEFINE rest == Tail(h)
    <2>1. rest \in Histories /\ \A i \in 1..Len(rest) : rest[i].kind # "aborted"
      BY <1>2, <1>3
    <2> HIDE DEF rest
    <2>2. Unmarked(rest)
      BY <2>1, HistoryFacts DEF Unmarked
    <2> QED BY <2>2 DEF rest
  <1>5. Head(h).kind # "aborted"
    BY <1>1, <1>2
  <1> QED BY <1>4, <1>5

LEMMA CutMarked ==
  ASSUME NEW h \in Histories, AtMostOneMarker(h), NEW n \in 0..Len(h)
  PROVE  AtMostOneMarker(SubSeq(h, 1, n))
  <1> DEFINE part == SubSeq(h, 1, n)
  <1>1. part \in Histories /\ Len(part) = n /\ Len(h) \in Nat /\ \A i \in 1..n : part[i] = h[i]
    BY Cut, HistoryFacts DEF Starts
  <1> HIDE DEF part
  <1>2. Kinds(part, "aborted") \subseteq Kinds(h, "aborted")
    BY <1>1, HistoryFacts
  <1> QED BY <1>2 DEF AtMostOneMarker, part

LEMMA MarkersInit == Init => Markers
  BY EmptyUnmarked DEF Init, Markers, NoGet

LEMMA GetMarkers ==
  ASSUME WellTyped, Markers, NEW a \in Actors, Get(a)
  PROVE  Markers'
  <1>1. UNCHANGED <<steerBuf, todo>>
    BY DEF Get, Fetch, Install, Load, LoadNothing, DieLoading
  <1>2. CASE Fetch(a)
    BY <1>1, <1>2 DEF Fetch, Markers
  <1>3. CASE Install(a)
    <2>1. AtMostOneMarker(msgs') /\ row' = row /\ getting' = NoGet
      BY <1>3 DEF Install, Markers
    <2>2. AtMostOneMarker(NoGet.row)
      BY EmptyUnmarked DEF NoGet
    <2> QED BY <1>1, <2>1, <2>2 DEF Markers
  <1>4. CASE Load(a)
    <2>1. AtMostOneMarker(Healed(row))
      BY RepairFacts DEF Markers, WellTyped, SavedTyped
    <2> QED BY <1>1, <1>4, <2>1 DEF Load, Markers
  <1>5. CASE LoadNothing(a)
    BY <1>1, <1>5 DEF LoadNothing, Markers
  <1>6. CASE DieLoading(a)
    <2>1. PICK n \in Len(row)..Len(Healed(row)) : row' = SubSeq(Healed(row), 1, n)
      BY <1>6 DEF DieLoading
    <2>2. Healed(row) \in Histories /\ AtMostOneMarker(Healed(row))
      BY RepairFacts DEF Markers, WellTyped, SavedTyped
    <2>3. n \in 0..Len(Healed(row))
      BY <2>1, <2>2, HistoryFacts DEF WellTyped, SavedTyped
    <2>4. AtMostOneMarker(row')
      BY <2>1, <2>2, <2>3, CutMarked
    <2> QED BY <1>1, <1>6, <2>4 DEF DieLoading, Markers
  <1> QED BY <1>2, <1>3, <1>4, <1>5, <1>6 DEF Get

LEMMA SaveMarkers ==
  ASSUME Markers, NEW h, AtMostOneMarker(h), Save(h), UNCHANGED <<steerBuf, getting>>,
         \A t \in Turns : Unmarked(todo'[t])
  PROVE  Markers'
  BY DEF Markers, Save

LEMMA MessageMarkers ==
  ASSUME WellTyped, Markers, NEW m \in Messages, PushSteer(m) \/ Inject(m)
  PROVE  Markers'
  <1>1. Said(m) \in Fine /\ Said(m).kind # "aborted"
    BY MessageFacts DEF Actors, Said
  <1>2. CASE PushSteer(m)
    <2>1. Unmarked(Append(steerBuf, Said(m)))
      BY <1>1, AppendedUnmarked DEF Markers, WellTyped, BufferTyped
    <2> QED BY <1>2, <2>1 DEF PushSteer, Markers
  <1>3. CASE Inject(m)
    <2>1. AtMostOneMarker(Append(msgs, Said(m)))
      BY <1>1, AppendedUnmarked DEF Markers, WellTyped, SavedTyped
    <2> QED BY <1>3, <2>1, SaveMarkers DEF Inject, Markers
  <1> QED BY <1>2, <1>3

LEMMA TurnMarkers ==
  ASSUME WellTyped, Markers, NEW t \in Turns, TurnStep(t)
  PROVE  Markers'
  <1>t. msgs \in Histories /\ todo \in [Turns -> Histories] /\ TurnsTyped
        /\ (pc[t] \in Appending => todo[t] # <<>>)
    BY DEF WellTyped, SavedTyped, TurnsTyped
  <1>s. /\ Said(t) \in Fine /\ Said(t).kind # "aborted"
        /\ Text \in Fine /\ Text.kind # "aborted"
        /\ \A cs : Calls(cs).kind # "aborted"
        /\ \A c, r : Tool(c, r).kind # "aborted"
    BY MessageFacts DEF Actors, Said, Text, Calls, Tool
  <1>a. ASSUME NEW m \in Fine, m.kind # "aborted" PROVE AtMostOneMarker(Append(msgs, m))
    BY <1>t, <1>a, AppendedUnmarked DEF Markers
  <1>q. ASSUME NEW q, Unmarked(q), todo' = [todo EXCEPT ![t] = q]
        PROVE  \A u \in Turns : Unmarked(todo'[u])
    BY <1>t, <1>q DEF Markers
  <1>u. ASSUME UNCHANGED todo PROVE \A u \in Turns : Unmarked(todo'[u])
    BY <1>u DEF Markers
  <1>x. ASSUME NEW q \in Seq(Fine), \A i \in 1..Len(q) : q[i].kind # "aborted" PROVE Unmarked(q)
    BY <1>x, HistoryFacts DEF Histories, Unmarked
  <1>1. CASE Claim(t) \/ Quit(t)
    BY <1>1 DEF Claim, Quit, sessionVars, Markers
  <1>2. CASE AppendUser(t)
    <2>1. \A u \in Turns : Unmarked(todo'[u])
      <3>1. CASE UNCHANGED todo
        BY <1>u, <3>1
      <3>2. CASE todo' = [todo EXCEPT ![t] =
                            <<Calls({CallOf(t, 1)}), Tool(CallOf(t, 1), CallOf(t, 1)), Text>>]
        <4> DEFINE q == <<Calls({CallOf(t, 1)}), Tool(CallOf(t, 1), CallOf(t, 1)), Text>>
        <4>1. Unmarked(q)
          BY <1>s DEF Unmarked, Kinds
        <4> HIDE DEF q
        <4> QED BY <1>q, <3>2, <4>1 DEF q
      <3> QED BY <1>2, <3>1, <3>2 DEF AppendUser
    <2> QED BY <1>2, <1>s, <1>a, <2>1, SaveMarkers DEF AppendUser
  <1>3. CASE Plan(t) \/ Reply(t) \/ FailTurn(t) \/ Conclude(t)
    <2>1. UNCHANGED <<todo, steerBuf, getting>> /\ (Save(Append(msgs, Text)) \/ UNCHANGED <<msgs, row>>)
      BY <1>3 DEF Plan, Reply, FailTurn, Conclude
    <2>2. CASE UNCHANGED <<msgs, row>>
      BY <2>1, <2>2 DEF Markers
    <2> QED BY <1>s, <1>a, <1>u, <2>1, <2>2, SaveMarkers
  <1>4. CASE CallTools(t)
    <2>1. PICK n \in 1..MaxCalls :
            /\ Save(Append(msgs, Calls({CallOf(t, p) : p \in 1..n})))
            /\ \E order \in ResultOrders(n) :
                 todo' = [todo EXCEPT ![t] = [p \in 1..n |-> Tool(CallOf(t, p), CallOf(t, order[p]))]]
      BY <1>4 DEF CallTools
    <2>2. PICK order \in ResultOrders(n) :
            todo' = [todo EXCEPT ![t] = [p \in 1..n |-> Tool(CallOf(t, p), CallOf(t, order[p]))]]
      BY <2>1
    <2> DEFINE q == [p \in 1..n |-> Tool(CallOf(t, p), CallOf(t, order[p]))]
    <2>3. q \in Histories /\ Len(q) = n
      BY <1>t, AnswerFacts
    <2>4. \A p \in 1..n : q[p].kind # "aborted"
      BY <1>s
    <2>5. todo' = [todo EXCEPT ![t] = q]
      BY <2>2
    <2> HIDE DEF q
    <2>6. Unmarked(q)
      BY <1>x, <2>3, <2>4 DEF Histories
    <2>7. AtMostOneMarker(Append(msgs, Calls({CallOf(t, p) : p \in 1..n})))
      BY <1>t, <1>s, <1>a, AnswerFacts
    <2>8. UNCHANGED <<steerBuf, getting>>
      BY <1>4 DEF CallTools
    <2> QED BY <1>q, <2>1, <2>5, <2>6, <2>7, <2>8, SaveMarkers
  <1>5. CASE CallInLoop(t)
    <2>1. PICK n \in 1..MaxCalls : Save(Append(msgs, Calls({CallOf(t, p) : p \in 1..n})))
      BY <1>5 DEF CallInLoop
    <2>2. AtMostOneMarker(Append(msgs, Calls({CallOf(t, p) : p \in 1..n})))
      BY <1>t, <1>s, <1>a, AnswerFacts
    <2>3. Unmarked(<<Text>>)
      BY <1>s DEF Unmarked, Kinds
    <2>4. todo' = [todo EXCEPT ![t] = <<Text>>] /\ UNCHANGED <<steerBuf, getting>>
      BY <1>5 DEF CallInLoop
    <2> QED BY <1>q, <2>1, <2>2, <2>3, <2>4, SaveMarkers
  <1>6. CASE AppendNext(t)
    <2>1. /\ Save(Append(msgs, Head(todo[t]))) /\ UNCHANGED <<steerBuf, getting>>
          /\ todo' = [todo EXCEPT ![t] = Tail(todo[t])] /\ todo[t] # <<>>
      BY <1>6, <1>t DEF AppendNext
    <2>2. Head(todo[t]).kind # "aborted" /\ Unmarked(Tail(todo[t])) /\ Head(todo[t]) \in Fine
      BY <1>t, <2>1, TailUnmarked, HeadTailProperties DEF Markers, Histories
    <2> QED BY <1>a, <1>q, <2>1, <2>2, SaveMarkers
  <1>7. CASE Drain(t) \/ EndTurn(t) \/ EndHook(t)
    <2>1. UNCHANGED <<msgs, row, getting>> /\ (steerBuf' = <<>> \/ steerBuf' = steerBuf)
          /\ (todo' = [todo EXCEPT ![t] = steerBuf] \/ UNCHANGED todo)
      BY <1>7 DEF Drain, EndTurn, EndHook
    <2>2. \A u \in Turns : Unmarked(todo'[u])
      BY <1>q, <1>u, <2>1 DEF Markers
    <2> QED BY <2>1, <2>2, EmptyUnmarked DEF Markers
  <1>8. CASE ScanOrphans(t)
    <2>1. Unmarked(PadsFor(msgs))
      BY <1>t, PadsFacts DEF Unmarked
    <2>2. UNCHANGED <<msgs, row, steerBuf, getting>>
          /\ (todo' = [todo EXCEPT ![t] = PadsFor(msgs)] \/ UNCHANGED todo)
      BY <1>8 DEF ScanOrphans, sessionVars
    <2>3. \A u \in Turns : Unmarked(todo'[u])
      BY <1>q, <1>u, <2>1, <2>2
    <2> QED BY <2>2, <2>3 DEF Markers
  <1>9. CASE MarkAborted(t)
    <2>1. UNCHANGED <<todo, steerBuf, getting>> /\ (Save(Marked(msgs)) \/ UNCHANGED <<msgs, row>>)
      BY <1>9 DEF MarkAborted
    <2>2. CASE UNCHANGED <<msgs, row>>
      BY <2>1, <2>2 DEF Markers
    <2>3. AtMostOneMarker(Marked(msgs))
      BY <1>t, RepairFacts DEF Markers
    <2> QED BY <1>u, <2>1, <2>2, <2>3, SaveMarkers
  <1> QED BY <1>1, <1>2, <1>3, <1>4, <1>5, <1>6, <1>7, <1>8, <1>9 DEF TurnStep

LEMMA MarkersNext == WellTyped /\ Markers /\ [Next]_vars => Markers'
  <1> SUFFICES ASSUME WellTyped, Markers, [Next]_vars PROVE Markers'
    OBVIOUS
  <1>1. CASE \E a \in Actors : Get(a)
    BY <1>1, GetMarkers
  <1>2. CASE \E m \in Messages : PushSteer(m) \/ Inject(m)
    BY <1>2, MessageMarkers
  <1>3. CASE \E t \in Turns : TurnStep(t)
    BY <1>3, TurnMarkers
  <1>4. CASE Crash
    BY <1>4, EmptyUnmarked DEF Crash, Markers, NoGet
  <1>5. CASE UNCHANGED vars
    BY <1>5 DEF vars, sessionVars, turnVars, Markers
  <1> QED BY <1>1, <1>2, <1>3, <1>4, <1>5 DEF Next, AtRest

LEMMA AtMostOneCounts ==
  ASSUME NEW h \in Histories, AtMostOneMarker(h)
  PROVE  Cardinality(Kinds(h, "aborted")) <= 1
  <1>1. CASE Kinds(h, "aborted") = {}
    BY <1>1, FS_EmptySet
  <1>2. CASE \E i : Kinds(h, "aborted") = {i}
    BY <1>2, FS_Singleton
  <1> QED BY <1>1, <1>2 DEF AtMostOneMarker

\* The working set and the saved history each have one turn-aborted marker at most, whoever
\* claims it and however often the process dies: the repair of a load, the end of a turn and
\* a Get that puts an earlier history back all leave one.
THEOREM OnlyOneMarker == Spec => []OneMarker
  <1>1. Init => WellTyped /\ Markers
    BY WellTypedInit, MarkersInit
  <1>2. WellTyped /\ Markers /\ [Next]_vars => (WellTyped /\ Markers)'
    BY WellTypedNext, MarkersNext
  <1>3. WellTyped /\ Markers => OneMarker
    BY AtMostOneCounts DEF WellTyped, SavedTyped, Markers, OneMarker
  <1> QED BY <1>1, <1>2, <1>3, PTL DEF Spec
----------------------------------------------------------------------------
(* Where a steer is. *)

\* The states of an actor with nothing in hand.
Idle == {"new", "skipped", "done", "accepted", "refused", "noted", "dead"}

Absent(h, s) == Positions(h, Said(s)) = {}
Once(h, s) == \E i : Positions(h, Said(s)) = {i}

Nowhere(s) ==
  /\ Absent(msgs, s) /\ Absent(row, s) /\ Absent(steerBuf, s) /\ Absent(getting.row, s)
  /\ \A t \in Turns : Absent(todo[t], s)

InOnePlace(s) ==
  \/ Once(msgs, s) /\ Absent(steerBuf, s) /\ \A t \in Turns : Absent(todo[t], s)
  \/ Absent(msgs, s) /\ Once(steerBuf, s) /\ \A t \in Turns : Absent(todo[t], s)
  \/ /\ Absent(msgs, s) /\ Absent(steerBuf, s)
     /\ \E t \in Turns : Once(todo[t], s) /\ \A u \in Turns \ {t} : Absent(todo[u], s)

Somewhere(s) ==
  ~Absent(msgs, s) \/ ~Absent(steerBuf, s) \/ \E t \in Turns : ~Absent(todo[t], s)

\* Where the steers are that are not lost: nowhere before they are accepted, then in one
\* place of the process, or of the row when there is no process.
Unsent == {"new", "fetched", "got"}
Placed(s) ==
  /\ pc[s] \in Unsent => Nowhere(s)
  /\ pc[s] = "accepted" /\ s \notin lost =>
       /\ loaded /\ ~reloaded => InOnePlace(s)
       /\ loaded /\ reloaded => Somewhere(s)
       /\ ~loaded /\ ~reloaded => Once(row, s)
       /\ ~loaded /\ reloaded => ~Absent(row, s)

\* The row is the working set but for what is last, a turn holds a list only while it
\* appends it, and nothing is left of a process that died.
Kept ==
  /\ loaded /\ ~reloaded => Starts(row, msgs)
  /\ \A t \in Turns : pc[t] \notin Appending => todo[t] = <<>>
  /\ ~loaded => msgs = <<>> /\ steerBuf = <<>> /\ \A a \in Actors : pc[a] \in Idle

Steers == Kept /\ \A s \in Messages : Placed(s)

LEMMA PlaceFacts ==
  /\ \A s : Absent(<<>>, s)
  /\ \A h, s : Once(h, s) => ~Absent(h, s)
  /\ \A s : InOnePlace(s) => Somewhere(s)
  /\ \A a, b : Said(a) = Said(b) => a = b
  <1>1. \A s : Absent(<<>>, s)
    BY DEF Absent, Positions
  <1>2. \A h, s : Once(h, s) => ~Absent(h, s)
    BY DEF Absent, Once
  <1>3. \A a, b : Said(a) = Said(b) => a = b
    BY DEF Said
  <1> QED BY <1>1, <1>2, <1>3 DEF InOnePlace, Somewhere

\* What follows when the places of a steer are as before.
LEMMA Unmoved ==
  ASSUME NEW s,
         Positions(msgs', Said(s)) = Positions(msgs, Said(s)),
         Positions(steerBuf', Said(s)) = Positions(steerBuf, Said(s)),
         \A t \in Turns : Positions(todo'[t], Said(s)) = Positions(todo[t], Said(s))
  PROVE  /\ InOnePlace(s) => InOnePlace(s)'
         /\ Somewhere(s) => Somewhere(s)'
         /\ Nowhere(s) /\ row' \in {row, msgs'} /\ getting' = getting => Nowhere(s)'
  <1>1. /\ Absent(msgs', s) <=> Absent(msgs, s)
        /\ Absent(steerBuf', s) <=> Absent(steerBuf, s)
        /\ \A t \in Turns : Absent(todo'[t], s) <=> Absent(todo[t], s)
    BY DEF Absent
  <1>2. /\ Once(msgs', s) <=> Once(msgs, s)
        /\ Once(steerBuf', s) <=> Once(steerBuf, s)
        /\ \A t \in Turns : Once(todo'[t], s) <=> Once(todo[t], s)
    BY DEF Once
  <1>3. InOnePlace(s) => InOnePlace(s)'
    BY <1>1, <1>2 DEF InOnePlace
  <1>4. Somewhere(s) => Somewhere(s)'
    BY <1>1 DEF Somewhere
  <1>5. Nowhere(s) /\ row' \in {row, msgs'} /\ getting' = getting => Nowhere(s)'
    BY <1>1 DEF Nowhere
  <1> QED BY <1>3, <1>4, <1>5

LEMMA SteersInit == Init => Steers
  <1> SUFFICES ASSUME Init PROVE Steers
    OBVIOUS
  <1>1. Kept
    BY DEF Init, Kept, Idle, Actors
  <1>2. ASSUME NEW s \in Messages PROVE Placed(s)
    <2>1. Nowhere(s)
      BY PlaceFacts DEF Init, Nowhere, NoGet
    <2>2. pc[s] = "new"
      BY DEF Init, Actors
    <2> QED BY <2>1, <2>2 DEF Placed
  <1> QED BY <1>1, <1>2 DEF Steers

\* What starts a history says no more than it.
LEMMA StartsSay ==
  ASSUME NEW g \in Histories, NEW h \in Histories, Starts(g, h), NEW x
  PROVE  Positions(g, x) \subseteq Positions(h, x)
  <1> SUFFICES ASSUME NEW i \in Positions(g, x) PROVE i \in Positions(h, x)
    OBVIOUS
  <1>1. i \in 1..Len(g) /\ g[i] = x /\ Len(g) \in Nat /\ Len(h) \in Nat
    BY HistoryFacts
  <1>2. i \in 1..Len(h) /\ h[i] = x
    BY <1>1 DEF Starts
  <1> QED BY <1>2, HistoryFacts

\* A history between two that say the same of a steer says the same.
LEMMA Between ==
  ASSUME NEW f \in Histories, NEW g \in Histories, NEW h \in Histories, Starts(f, g), Starts(g, h),
         NEW x, Positions(f, x) = Positions(h, x)
  PROVE  Positions(g, x) = Positions(f, x)
  BY StartsSay

\* What a history that starts another says of a steer that is once in the other.
LEMMA StartsOnce ==
  ASSUME NEW g \in Histories, NEW h \in Histories, Starts(g, h), NEW s
  PROVE  /\ Absent(h, s) => Absent(g, s)
         /\ Once(h, s) /\ ~Absent(g, s) => Once(g, s)
  <1>1. Positions(g, Said(s)) \subseteq Positions(h, Said(s))
    BY StartsSay
  <1> QED BY <1>1 DEF Absent, Once

LEMMA GetSteers ==
  ASSUME WellTyped, WellTyped', Steers, NEW a \in Actors, Get(a)
  PROVE  Steers'
  <1>t. msgs \in Histories /\ row \in Histories /\ PcTyped /\ getting.row \in Histories
    <2>1. <<>> \in Histories
      BY EmptySeq DEF Histories
    <2> QED BY <2>1 DEF WellTyped, SavedTyped, BufferTyped, NoGet
  <1>k. Kept /\ \A s \in Messages : Placed(s)
    BY DEF Steers
  <1>1. PICK state \in {"fetched", "got", "dead"} : Goto(a, state)
    BY DEF Get, Fetch, Install, Load, LoadNothing, DieLoading
  <1>2. UNCHANGED <<steerBuf, todo>>
    BY DEF Get, Fetch, Install, Load, LoadNothing, DieLoading
  <1>3. \A b \in Actors : pc'[b] = IF b = a THEN state ELSE pc[b]
    BY <1>t, <1>1 DEF PcTyped, IsPc, Goto
  <1>4. pc[a] \in {"new", "fetched"} /\ pc[a] \in Unsent
    BY DEF Get, Fetch, Install, Load, LoadNothing, DieLoading, Unsent
  <1>5. \A s \in Messages : /\ pc'[s] \in Unsent => pc[s] \in Unsent
                            /\ pc'[s] = "accepted" => pc[s] = "accepted"
    BY <1>1, <1>3, <1>4 DEF Actors
  <1>6. \A t \in Turns : pc'[t] \notin Appending => todo'[t] = <<>>
    BY <1>1, <1>2, <1>3, <1>4, <1>k DEF Actors, Appending, Kept
  <1>7. CASE Fetch(a)
    <2>1. UNCHANGED <<loaded, msgs, row, reloaded, lost>> /\ loaded /\ getting'.row = row
      BY <1>7 DEF Fetch, history
    <2>2. Kept'
      BY <1>6, <1>k, <2>1 DEF Kept
    <2>3. ASSUME NEW s \in Messages PROVE Placed(s)'
      <3>1. Nowhere(s) => Nowhere(s)'
        BY <1>2, <2>1 DEF Nowhere
      <3>2. (InOnePlace(s) => InOnePlace(s)') /\ (Somewhere(s) => Somewhere(s)')
        BY <1>2, <2>1, Unmoved
      <3> QED BY <1>5, <1>k, <2>1, <3>1, <3>2 DEF Placed
    <2> QED BY <2>2, <2>3 DEF Steers
  <1>8. CASE Install(a)
    <2>1. loaded
      BY <1>4, <1>8, <1>k DEF Install, Kept, Idle
    <2>2. UNCHANGED <<loaded, row>> /\ getting' = NoGet
      BY <1>8 DEF Install
    <2>3. /\ reloaded => reloaded'
          /\ ~reloaded' => ~reloaded /\ msgs' = msgs
      <3>1. CASE UNCHANGED <<msgs, reloaded>>
        BY <3>1
      <3>2. CASE msgs' = getting.row /\ reloaded' = (reloaded \/ msgs # getting.row)
        BY <3>2
      <3> QED BY <1>8, <3>1, <3>2 DEF Install
    <2>r. \/ msgs' = msgs /\ lost' = lost
          \/ msgs' = getting.row /\ lost' = lost \union (SteersIn(msgs) \ SteersIn(getting.row))
      BY <1>8 DEF Install
    <2>4. Kept'
      BY <1>6, <1>k, <2>1, <2>2, <2>3 DEF Kept
    <2>5. ASSUME NEW s \in Messages PROVE Placed(s)'
      <3>1. Nowhere(s) => Nowhere(s)'
        BY <1>2, <2>2, <2>r, PlaceFacts DEF Nowhere, NoGet
      <3>2. ~reloaded' => (InOnePlace(s) => InOnePlace(s)')
        BY <1>2, <2>3, Unmoved
      <3>3. s \notin lost' => s \notin lost /\ (Somewhere(s) => Somewhere(s)')
        BY <1>2, <2>r DEF Somewhere, Absent, SteersIn
      <3>4. InOnePlace(s) => Somewhere(s)
        BY PlaceFacts
      <3> QED BY <1>5, <1>k, <2>1, <2>2, <2>3, <3>1, <3>2, <3>3, <3>4 DEF Placed
    <2> QED BY <2>4, <2>5 DEF Steers
  <1>9. CASE Load(a)
    <2>1. /\ ~loaded /\ loaded' /\ msgs' = Healed(row) /\ row' = Healed(row)
          /\ UNCHANGED <<getting, reloaded, lost>>
      BY <1>9 DEF Load, history
    <2>2. Healed(row) \in Histories /\ \A s : Positions(Healed(row), Said(s)) = Positions(row, Said(s))
      BY <1>t, RepairFacts
    <2>3. steerBuf = <<>> /\ \A t \in Turns : todo[t] = <<>>
      <3>1. \A t \in Turns : pc[t] \notin Appending
        BY <1>k, <2>1 DEF Kept, Idle, Appending, Actors
      <3> QED BY <1>k, <2>1, <3>1 DEF Kept
    <2>4. Kept'
      BY <1>6, <2>1, <2>2, StartsItself DEF Kept
    <2>5. ASSUME NEW s \in Messages PROVE Placed(s)'
      <3>1. Nowhere(s) => Nowhere(s)'
        BY <1>2, <2>1, <2>2 DEF Nowhere, Absent
      <3>2. Absent(steerBuf', s) /\ \A t \in Turns : Absent(todo'[t], s)
        BY <1>2, <2>3, PlaceFacts
      <3>3. (Once(row, s) => InOnePlace(s)') /\ (~Absent(row, s) => Somewhere(s)')
        BY <2>1, <2>2, <3>2 DEF InOnePlace, Somewhere, Once, Absent
      <3> QED BY <1>5, <1>k, <2>1, <3>1, <3>3 DEF Placed
    <2> QED BY <2>4, <2>5 DEF Steers
  <1>10. CASE LoadNothing(a)
    <2>1. /\ ~loaded /\ loaded' /\ reloaded' = (reloaded \/ row # <<>>)
          /\ lost' = lost \union SteersIn(row) /\ UNCHANGED <<msgs, row, getting>>
      BY <1>10 DEF LoadNothing
    <2>2. ~reloaded' => Starts(row', msgs')
      BY <1>k, <1>t, <2>1, StartsItself DEF Kept
    <2>3. Kept'
      BY <1>6, <2>1, <2>2 DEF Kept
    <2>4. ASSUME NEW s \in Messages PROVE Placed(s)'
      <3>1. Nowhere(s) => Nowhere(s)'
        BY <1>2, <2>1 DEF Nowhere
      <3>2. s \notin lost' => s \notin lost /\ Absent(row, s)
        BY <2>1 DEF SteersIn, Absent
      <3>3. pc[s] = "accepted" /\ s \notin lost => ~Absent(row, s)
        BY <1>k, <2>1, PlaceFacts DEF Placed
      <3> QED BY <1>5, <1>k, <3>1, <3>2, <3>3 DEF Placed
    <2> QED BY <2>3, <2>4 DEF Steers
  <1>11. CASE DieLoading(a)
    <2>1. PICK n \in Len(row)..Len(Healed(row)) : row' = SubSeq(Healed(row), 1, n)
      BY <1>11 DEF DieLoading
    <2>2. ~loaded /\ UNCHANGED <<loaded, msgs, getting, lost, reloaded>> /\ state = "dead"
      <3>1. Goto(a, "dead")
        BY <1>11 DEF DieLoading
      <3>2. pc'[a] = "dead"
        BY <1>t, <3>1 DEF PcTyped, IsPc, Goto
      <3> QED BY <1>3, <1>11, <3>2 DEF DieLoading
    <2>3. /\ Healed(row) \in Histories /\ Starts(row, Healed(row))
          /\ \A s : Positions(Healed(row), Said(s)) = Positions(row, Said(s))
      BY <1>t, RepairFacts
    <2>4. n \in 0..Len(Healed(row)) /\ Len(row) <= n /\ Len(row) \in Nat
      BY <1>t, <2>1, <2>3, HistoryFacts
    <2>5. row' \in Histories /\ Len(row') = n /\ Starts(row', Healed(row))
      BY <2>1, <2>3, <2>4, Cut
    <2>6. Starts(row, row')
      BY <2>3, <2>4, <2>5 DEF Starts
    <2>7. \A s : Positions(row', Said(s)) = Positions(row, Said(s))
      BY <1>t, <2>3, <2>5, <2>6, Between
    <2>8. Kept'
      BY <1>3, <1>6, <1>2, <1>k, <2>2 DEF Kept, Idle
    <2>9. ASSUME NEW s \in Messages PROVE Placed(s)'
      <3>1. Nowhere(s) => Nowhere(s)'
        BY <1>2, <2>2, <2>7 DEF Nowhere, Absent
      <3>2. (Once(row, s) => Once(row', s)) /\ (~Absent(row, s) => ~Absent(row', s))
        BY <2>7 DEF Once, Absent
      <3> QED BY <1>5, <1>k, <2>2, <3>1, <3>2 DEF Placed
    <2> QED BY <2>8, <2>9 DEF Steers
  <1> QED BY <1>7, <1>8, <1>9, <1>10, <1>11 DEF Get

\* A message appended beside a steer does not move it.
LEMMA AppendedBeside ==
  ASSUME NEW h \in Histories, NEW m \in Fine, NEW s, m # Said(s)
  PROVE  Positions(Append(h, m), Said(s)) = Positions(h, Said(s))
  <1>1. \A x : Positions(Append(h, m), x) = Positions(h, x) \union IF m = x THEN {Len(h) + 1} ELSE {}
    BY Appended
  <1> QED BY <1>1

LEMMA AppendedOnce ==
  ASSUME NEW h \in Histories, NEW s, Said(s) \in Fine
  PROVE  ~Absent(Append(h, Said(s)), s) /\ (Absent(h, s) => Once(Append(h, Said(s)), s))
  <1>1. \A x : Positions(Append(h, Said(s)), x)
                 = Positions(h, x) \union IF Said(s) = x THEN {Len(h) + 1} ELSE {}
    BY Appended
  <1>2. Positions(Append(h, Said(s)), Said(s)) = Positions(h, Said(s)) \union {Len(h) + 1}
    BY <1>1
  <1> QED BY <1>2 DEF Absent, Once

LEMMA SaveStarts ==
  ASSUME NEW h \in Histories, msgs \in Histories, row \in Histories, Starts(msgs, h), Save(h),
         ~reloaded => Starts(row, msgs)
  PROVE  row' \in {row, msgs'} /\ msgs' = h /\ (~reloaded => Starts(row', msgs'))
  <1>1. row' \in {row, h} /\ msgs' = h
    BY DEF Save
  <1>2. ~reloaded => Starts(row, h)
    BY StartsOn
  <1> QED BY <1>1, <1>2, StartsItself

LEMMA MessageSteers ==
  ASSUME WellTyped, Steers, NEW m \in Messages, PushSteer(m) \/ Inject(m)
  PROVE  Steers'
  <1>t. /\ msgs \in Histories /\ row \in Histories /\ steerBuf \in Histories /\ PcTyped
        /\ m \in Actors /\ m \notin Turns /\ Said(m) \in Fine
    BY MessageFacts, SessionAssumption DEF WellTyped, SavedTyped, BufferTyped, Actors
  <1>k. Kept /\ \A s \in Messages : Placed(s)
    BY DEF Steers
  <1>1. PICK state \in {"accepted", "refused", "noted"} : Goto(m, state)
    BY DEF PushSteer, Inject
  <1>2. pc[m] = "got" /\ UNCHANGED <<loaded, todo, getting, lost, reloaded>>
    BY DEF PushSteer, Inject, history
  <1>3. \A b \in Actors : pc'[b] = IF b = m THEN state ELSE pc[b]
    BY <1>t, <1>1 DEF PcTyped, IsPc, Goto
  <1>4. loaded
    BY <1>k, <1>t, <1>2 DEF Kept, Idle
  <1>5. \A t \in Turns : pc'[t] \notin Appending => todo'[t] = <<>>
    BY <1>t, <1>2, <1>3, <1>k DEF Kept, Actors
  <1>6. \A s \in Messages \ {m} : Said(m) # Said(s) /\ pc'[s] = pc[s]
    BY <1>3, PlaceFacts DEF Actors
  <1>7. CASE PushSteer(m)
    <2>1. UNCHANGED <<msgs, row>>
      BY <1>7 DEF PushSteer
    <2>2. Kept'
      BY <1>2, <1>4, <1>5, <1>k, <2>1 DEF Kept
    <2>3. CASE state = "accepted" /\ steerBuf' = Append(steerBuf, Said(m))
      <3>1. ASSUME NEW s \in Messages \ {m} PROVE Placed(s)'
        <4>1. Positions(steerBuf', Said(s)) = Positions(steerBuf, Said(s))
          BY <1>t, <1>6, <2>3, AppendedBeside
        <4> QED BY <1>2, <1>4, <1>6, <1>k, <2>1, <4>1, Unmoved DEF Placed
      <3>2. Placed(m)'
        <4>1. Nowhere(m)
          BY <1>2, <1>k DEF Placed, Unsent
        <4>2. Once(steerBuf', m) /\ ~Absent(steerBuf', m)
          BY <1>t, <2>3, <4>1, AppendedOnce DEF Nowhere
        <4>3. InOnePlace(m)' /\ Somewhere(m)'
          BY <1>2, <2>1, <4>1, <4>2 DEF Nowhere, InOnePlace, Somewhere
        <4>4. pc'[m] = "accepted"
          BY <1>3, <1>t, <2>3
        <4> QED BY <1>2, <1>4, <4>3, <4>4 DEF Placed, Unsent
      <3> QED BY <2>2, <3>1, <3>2 DEF Steers
    <2>4. CASE state # "accepted" /\ UNCHANGED steerBuf
      <3>1. ASSUME NEW s \in Messages \ {m} PROVE Placed(s)'
        BY <1>2, <1>4, <1>6, <1>k, <2>1, <2>4, Unmoved DEF Placed
      <3>2. Placed(m)'
        BY <1>1, <1>3, <1>t, <2>4 DEF Placed, Unsent
      <3> QED BY <2>2, <3>1, <3>2 DEF Steers
    <2>5. pc'[m] = state
      BY <1>3, <1>t
    <2>6. \/ pc'[m] = "accepted" /\ steerBuf' = Append(steerBuf, Said(m))
          \/ pc'[m] # "accepted" /\ UNCHANGED steerBuf
      <3>1. \A other : Goto(m, other) => pc'[m] = other
        BY <1>t DEF Goto, PcTyped, IsPc
      <3> QED BY <1>7, <3>1 DEF PushSteer
    <2> QED BY <2>3, <2>4, <2>5, <2>6
  <1>8. CASE Inject(m)
    <2>1. UNCHANGED steerBuf /\ Save(Append(msgs, Said(m))) /\ pc'[m] = "noted"
      BY <1>8, <1>t DEF Inject, Goto, PcTyped, IsPc
    <2>2. Append(msgs, Said(m)) \in Histories /\ Starts(msgs, Append(msgs, Said(m)))
      BY <1>t, Appended
    <2>3. row' \in {row, msgs'} /\ msgs' = Append(msgs, Said(m)) /\ (~reloaded => Starts(row', msgs'))
      BY <1>t, <1>4, <1>k, <2>1, <2>2, SaveStarts DEF Kept
    <2>4. Kept'
      BY <1>2, <1>4, <1>5, <2>3 DEF Kept
    <2>5. ASSUME NEW s \in Messages \ {m} PROVE Placed(s)'
      <3>1. Positions(msgs', Said(s)) = Positions(msgs, Said(s))
        BY <1>t, <1>6, <2>3, AppendedBeside
      <3>2. /\ InOnePlace(s) => InOnePlace(s)'
            /\ Somewhere(s) => Somewhere(s)'
            /\ Nowhere(s) => Nowhere(s)'
        BY <1>2, <2>1, <2>3, <3>1, Unmoved
      <3> QED BY <1>2, <1>4, <1>6, <1>k, <3>2 DEF Placed
    <2>6. Placed(m)'
      BY <2>1 DEF Placed, Unsent
    <2> QED BY <2>4, <2>5, <2>6 DEF Steers
  <1> QED BY <1>7, <1>8

\* A step of a turn, which may move steers but not lose them.
LEMMA TurnFrame ==
  ASSUME PcTyped, Steers, NEW t \in Turns, pc[t] \notin Idle, NEW state, Goto(t, state),
         UNCHANGED <<loaded, getting, reloaded>>, lost \subseteq lost',
         ~reloaded => Starts(row', msgs'),
         state \notin Appending => todo'[t] = <<>>,
         \A u \in Turns \ {t} : todo'[u] = todo[u],
         \A s \in Messages : /\ Nowhere(s) => Nowhere(s)'
                             /\ s \notin lost' /\ InOnePlace(s) => InOnePlace(s)'
                             /\ s \notin lost' /\ Somewhere(s) => Somewhere(s)'
  PROVE  Steers'
  <1>t. t \in Actors /\ t \notin Messages
    BY SessionAssumption DEF Actors
  <1>k. Kept /\ \A s \in Messages : Placed(s)
    BY DEF Steers
  <1>1. \A b \in Actors : pc'[b] = IF b = t THEN state ELSE pc[b]
    BY <1>t DEF PcTyped, IsPc, Goto
  <1>2. loaded
    BY <1>k, <1>t DEF Kept
  <1>3. Kept'
    BY <1>1, <1>2, <1>k DEF Kept, Actors
  <1>4. \A s \in Messages : pc'[s] = pc[s]
    BY <1>1, <1>t DEF Actors
  <1> QED BY <1>2, <1>3, <1>4, <1>k DEF Steers, Placed

\* A step of a turn that moves none.
LEMMA TurnBeside ==
  ASSUME PcTyped, Steers, NEW t \in Turns, pc[t] \notin Idle, NEW state, Goto(t, state),
         UNCHANGED <<loaded, getting, reloaded, steerBuf, lost>>,
         ~reloaded => Starts(row', msgs'), row' \in {row, msgs'},
         \A s \in Messages : Positions(msgs', Said(s)) = Positions(msgs, Said(s)),
         state \notin Appending => todo'[t] = <<>>,
         \A u \in Turns \ {t} : todo'[u] = todo[u],
         \A s \in Messages : Positions(todo'[t], Said(s)) = Positions(todo[t], Said(s))
  PROVE  Steers'
  <1>1. ASSUME NEW s \in Messages
        PROVE  /\ Nowhere(s) => Nowhere(s)'
               /\ InOnePlace(s) => InOnePlace(s)'
               /\ Somewhere(s) => Somewhere(s)'
    <2>1. \A u \in Turns : Positions(todo'[u], Said(s)) = Positions(todo[u], Said(s))
      OBVIOUS
    <2> QED BY <2>1, Unmoved
  <1> QED BY <1>1, TurnFrame

\* What a turn appends first is no longer in its hands.
LEMMA TailOnce ==
  ASSUME NEW h \in Histories, h # <<>>, NEW s
  PROVE  /\ Absent(h, s) => Head(h) # Said(s) /\ Absent(Tail(h), s)
         /\ Once(h, s) /\ Head(h) = Said(s) => Absent(Tail(h), s)
         /\ Once(h, s) /\ Head(h) # Said(s) => Once(Tail(h), s)
         /\ ~Absent(h, s) /\ Head(h) # Said(s) => ~Absent(Tail(h), s)
  <1> DEFINE rest == Tail(h)
             there == Positions(h, Said(s))
             left == Positions(rest, Said(s))
  <1>1. /\ rest \in Histories /\ Len(rest) = Len(h) - 1 /\ Len(h) \in Nat \ {0}
        /\ \A i \in 1..Len(rest) : rest[i] = h[i + 1]
        /\ Head(h) = h[1]
    BY HeadTailProperties, EmptySeq DEF Histories
  <1>2. /\ there = {i \in 1..Len(h) : h[i] = Said(s)}
        /\ left = {i \in 1..Len(rest) : rest[i] = Said(s)}
    BY <1>1, HistoryFacts
  <1> HIDE DEF rest, there, left
  <1>3. \A i : i \in left <=> i \in 1..Len(h) - 1 /\ i + 1 \in there
    BY <1>1, <1>2
  <1>4. Head(h) = Said(s) <=> 1 \in there
    BY <1>1, <1>2
  <1>5. \A i \in there : i \in 1..Len(h) /\ (i # 1 => i - 1 \in left)
    BY <1>1, <1>2
  <1>6. there = {} => 1 \notin there /\ left = {}
    BY <1>3
  <1>7. ASSUME NEW i, there = {i}, 1 \in there PROVE left = {}
    <2>1. \A k \in left : k + 1 = 1 /\ k \in 1..Len(h) - 1
      BY <1>3, <1>7
    <2> QED BY <1>1, <2>1
  <1>8. ASSUME NEW i, there = {i}, 1 \notin there PROVE left = {i - 1}
    <2>1. i - 1 \in left /\ i \in Nat
      BY <1>1, <1>5, <1>8
    <2>2. \A k \in left : k + 1 = i /\ k \in Nat
      BY <1>1, <1>3, <1>8
    <2>3. \A k \in left : k = i - 1
      BY <2>1, <2>2
    <2> QED BY <2>1, <2>3
  <1>9. there # {} /\ 1 \notin there => left # {}
    BY <1>5
  <1> QED BY <1>4, <1>6, <1>7, <1>8, <1>9 DEF Absent, Once, rest, there, left

LEMMA TurnSteers ==
  ASSUME WellTyped, Steers, NEW t \in Turns, TurnStep(t)
  PROVE  Steers'
  <1>t. /\ msgs \in Histories /\ row \in Histories /\ steerBuf \in Histories /\ PcTyped
        /\ todo \in [Turns -> Histories] /\ TurnsTyped /\ t \in Actors
        /\ \A u \in Turns : pc[u] \in Appending => todo[u] # <<>>
    BY DEF WellTyped, SavedTyped, BufferTyped, TurnsTyped, Actors
  <1>k. Kept /\ \A s \in Messages : Placed(s)
    BY DEF Steers
  <1>i. pc[t] \notin Idle /\ UNCHANGED <<loaded, getting, reloaded>>
    BY DEF TurnStep, Claim, AppendUser, Plan, Reply, CallTools, CallInLoop, FailTurn, Quit, Conclude,
           MayCall, AppendNext, Appending, Drain, ScanOrphans, MarkAborted, EndTurn, EndHook, Idle,
           sessionVars, history
  <1>l. loaded
    BY <1>k, <1>i, <1>t DEF Kept
  <1>s. /\ Text \in Fine /\ Said(t) \in Fine
        /\ \A s : Text # Said(s) /\ \A cs : Calls(cs) # Said(s)
        /\ \A s, c, r : Tool(c, r) # Said(s)
        /\ \A s \in Messages : Said(t) # Said(s)
    <2>1. \A s \in Messages : Said(t) # Said(s)
      BY PlaceFacts, SessionAssumption
    <2> QED BY <2>1, <1>t, MessageFacts DEF Text, Said, Calls, Tool
  <1> DEFINE Beside == /\ ~reloaded => Starts(row', msgs')
                       /\ row' \in {row, msgs'}
                       /\ \A s \in Messages : Positions(msgs', Said(s)) = Positions(msgs, Said(s))
             Aside == /\ \A u \in Turns \ {t} : todo'[u] = todo[u]
                      /\ \A s \in Messages : Positions(todo'[t], Said(s)) = Positions(todo[t], Said(s))
  <1>a. ASSUME NEW m \in Fine, Save(Append(msgs, m)), \A s \in Messages : m # Said(s) PROVE Beside
    <2>1. Append(msgs, m) \in Histories /\ Starts(msgs, Append(msgs, m))
      BY <1>t, Appended
    <2>2. row' \in {row, msgs'} /\ msgs' = Append(msgs, m) /\ (~reloaded => Starts(row', msgs'))
      BY <1>a, <1>t, <1>l, <1>k, <2>1, SaveStarts DEF Kept
    <2> QED BY <1>a, <1>t, <2>2, AppendedBeside
  <1>u. ASSUME UNCHANGED <<msgs, row>> PROVE Beside
    BY <1>u, <1>l, <1>k DEF Kept
  <1>q. ASSUME NEW q, \A s \in Messages : Absent(q, s), todo' = [todo EXCEPT ![t] = q],
               pc[t] \notin Appending
        PROVE  Aside /\ todo'[t] = q
    <2>1. todo[t] = <<>> /\ todo'[t] = q /\ \A u \in Turns \ {t} : todo'[u] = todo[u]
      BY <1>q, <1>t, <1>k DEF Kept
    <2>2. \A s : Absent(<<>>, s)
      BY PlaceFacts
    <2> QED BY <1>q, <2>1, <2>2 DEF Absent
  <1>v. ASSUME UNCHANGED todo, pc[t] \notin Appending PROVE Aside /\ todo'[t] = <<>>
    BY <1>v, <1>k DEF Kept
  <1>x. ASSUME NEW q \in Histories, \A i \in 1..Len(q) : \A s : q[i] # Said(s)
        PROVE  \A s \in Messages : Absent(q, s)
    BY <1>x, HistoryFacts DEF Absent
  <1>g. ASSUME Beside, Aside, UNCHANGED <<steerBuf, lost>>, NEW state, Goto(t, state),
               state \notin Appending => todo'[t] = <<>>
        PROVE  Steers'
    BY <1>g, <1>t, <1>i, TurnBeside
  <1> HIDE DEF Beside, Aside
  <1>1. CASE Claim(t) \/ Quit(t)
    <2>1. PICK state : Goto(t, state)
      BY <1>1 DEF Claim, Begin, Quit
    <2>2. UNCHANGED <<msgs, row, todo, steerBuf, lost>> /\ pc[t] \notin Appending
      BY <1>1 DEF Claim, Quit, MayCall, sessionVars, history, Appending
    <2> QED BY <1>u, <1>v, <1>g, <2>1, <2>2
  <1>2. CASE AppendUser(t)
    <2>1. UNCHANGED <<steerBuf, lost>> /\ Save(Append(msgs, Said(t))) /\ pc[t] \notin Appending
      BY <1>2 DEF AppendUser, Appending
    <2>2. Beside
      BY <1>a, <1>s, <2>1
    <2>3. CASE UNCHANGED todo /\ (Goto(t, "llm") \/ Goto(t, "plan"))
      BY <1>v, <1>g, <2>1, <2>2, <2>3
    <2>4. CASE /\ Goto(t, "hook")
               /\ todo' = [todo EXCEPT ![t] =
                             <<Calls({CallOf(t, 1)}), Tool(CallOf(t, 1), CallOf(t, 1)), Text>>]
      <3> DEFINE q == <<Calls({CallOf(t, 1)}), Tool(CallOf(t, 1), CallOf(t, 1)), Text>>
      <3>1. \A s \in Messages : Absent(q, s)
        BY <1>s DEF Absent, Positions
      <3> HIDE DEF q
      <3>2. Aside
        BY <1>q, <2>1, <2>4, <3>1 DEF q
      <3>3. "hook" \in Appending
        BY DEF Appending
      <3> QED BY <1>g, <2>1, <2>2, <2>4, <3>2, <3>3
    <2> QED BY <1>2, <2>3, <2>4 DEF AppendUser
  <1>3. CASE Plan(t) \/ Reply(t) \/ FailTurn(t) \/ Conclude(t)
    <2>1. /\ UNCHANGED <<todo, steerBuf, lost>> /\ (Save(Append(msgs, Text)) \/ UNCHANGED <<msgs, row>>)
          /\ pc[t] \notin Appending
      BY <1>3 DEF Plan, Reply, FailTurn, Conclude, MayCall, Appending
    <2>2. PICK state : Goto(t, state)
      BY <1>3 DEF Plan, Reply, FailTurn, Conclude
    <2>3. Beside
      BY <1>a, <1>u, <1>s, <2>1
    <2> QED BY <1>v, <1>g, <2>1, <2>2, <2>3
  <1>4. CASE CallTools(t)
    <2>1. PICK n \in 1..MaxCalls :
            /\ Save(Append(msgs, Calls({CallOf(t, p) : p \in 1..n})))
            /\ \E order \in ResultOrders(n) :
                 todo' = [todo EXCEPT ![t] = [p \in 1..n |-> Tool(CallOf(t, p), CallOf(t, order[p]))]]
      BY <1>4 DEF CallTools
    <2>2. PICK order \in ResultOrders(n) :
            todo' = [todo EXCEPT ![t] = [p \in 1..n |-> Tool(CallOf(t, p), CallOf(t, order[p]))]]
      BY <2>1
    <2> DEFINE q == [p \in 1..n |-> Tool(CallOf(t, p), CallOf(t, order[p]))]
    <2>3. q \in Histories /\ Len(q) = n
      BY <1>t, AnswerFacts
    <2>4. \A p \in 1..n : \A s : q[p] # Said(s)
      BY <1>s
    <2>5. todo' = [todo EXCEPT ![t] = q]
      BY <2>2
    <2> HIDE DEF q
    <2>6. UNCHANGED <<steerBuf, lost>> /\ pc[t] \notin Appending
      BY <1>4 DEF CallTools, MayCall, Appending
    <2>7. Aside
      BY <1>q, <1>x, <2>3, <2>4, <2>5, <2>6
    <2>8. Beside
      BY <1>a, <1>s, <1>t, <2>1, AnswerFacts
    <2>9. PICK state \in {"results", "parked"} : Goto(t, state)
      BY <1>4 DEF CallTools
    <2>10. state \in Appending
      BY <2>9 DEF Appending
    <2> QED BY <1>g, <2>6, <2>7, <2>8, <2>9, <2>10
  <1>5. CASE CallInLoop(t)
    <2>1. PICK n \in 1..MaxCalls : Save(Append(msgs, Calls({CallOf(t, p) : p \in 1..n})))
      BY <1>5 DEF CallInLoop
    <2>2. Beside
      BY <1>a, <1>s, <1>t, <2>1, AnswerFacts
    <2>3. \A s \in Messages : Absent(<<Text>>, s)
      BY <1>s DEF Absent, Positions
    <2>4. /\ todo' = [todo EXCEPT ![t] = <<Text>>] /\ UNCHANGED <<steerBuf, lost>>
          /\ pc[t] \notin Appending /\ Goto(t, "fold") /\ "fold" \in Appending
      BY <1>5 DEF CallInLoop, MayCall, Appending
    <2> QED BY <1>q, <1>g, <2>2, <2>3, <2>4
  <1>6. CASE ScanOrphans(t)
    <2>1. UNCHANGED <<msgs, row, steerBuf, lost>> /\ pc[t] \notin Appending
      BY <1>6 DEF ScanOrphans, sessionVars, history, Appending
    <2>2. \A s \in Messages : Absent(PadsFor(msgs), s)
      BY <1>t, PadsFacts DEF Absent
    <2>3. CASE Goto(t, "end") /\ UNCHANGED todo
      BY <1>u, <1>v, <1>g, <2>1, <2>3
    <2>4. CASE todo' = [todo EXCEPT ![t] = PadsFor(msgs)] /\ Goto(t, "padding")
      <3>1. "padding" \in Appending
        BY DEF Appending
      <3> QED BY <1>u, <1>q, <1>g, <2>1, <2>2, <2>4, <3>1
    <2> QED BY <1>6, <2>3, <2>4 DEF ScanOrphans
  <1>7. CASE MarkAborted(t)
    <2>1. UNCHANGED <<todo, steerBuf, lost>> /\ (Save(Marked(msgs)) \/ UNCHANGED <<msgs, row>>)
          /\ pc[t] \notin Appending /\ Goto(t, "end")
      BY <1>7 DEF MarkAborted, Appending
    <2>2. Beside
      <3>1. CASE Save(Marked(msgs))
        <4>1. /\ Marked(msgs) \in Histories /\ Starts(msgs, Marked(msgs))
              /\ \A s : Positions(Marked(msgs), Said(s)) = Positions(msgs, Said(s))
          BY <1>t, RepairFacts
        <4>2. row' \in {row, msgs'} /\ msgs' = Marked(msgs) /\ (~reloaded => Starts(row', msgs'))
          BY <1>t, <1>l, <1>k, <3>1, <4>1, SaveStarts DEF Kept
        <4> QED BY <4>1, <4>2 DEF Beside
      <3> QED BY <1>u, <2>1, <3>1
    <2> QED BY <1>v, <1>g, <2>1, <2>2
  <1>8. CASE AppendNext(t)
    <2> DEFINE h == todo[t]
               m == Head(h)
    <2>1. /\ Save(Append(msgs, m)) /\ UNCHANGED <<steerBuf, lost>>
          /\ todo' = [todo EXCEPT ![t] = Tail(h)] /\ pc[t] \in Appending /\ h # <<>>
          /\ h \in Histories /\ (IF Len(h) = 1 THEN Goto(t, After(pc[t])) ELSE UNCHANGED pc)
      BY <1>8, <1>t DEF AppendNext
    <2>2. todo'[t] = Tail(h) /\ \A u \in Turns \ {t} : todo'[u] = todo[u]
      BY <1>t, <2>1
    <2>3. /\ m \in Fine /\ Tail(h) \in Histories /\ Len(Tail(h)) = Len(h) - 1
      BY <2>1, HeadTailProperties DEF Histories
    <2>4. Append(msgs, m) \in Histories /\ Starts(msgs, Append(msgs, m))
      BY <1>t, <2>3, Appended
    <2> HIDE DEF h, m
    <2>5. row' \in {row, msgs'} /\ msgs' = Append(msgs, m) /\ (~reloaded => Starts(row', msgs'))
      BY <1>t, <1>l, <1>k, <2>1, <2>4, SaveStarts DEF Kept
    <2>6. PICK state : Goto(t, state) /\ (state \notin Appending => todo'[t] = <<>>)
      <3>1. CASE Len(h) = 1
        <4>1. Len(Tail(h)) = 0
          BY <2>3, <3>1
        <4>2. Tail(h) = <<>>
          BY <2>3, <4>1, EmptySeq DEF Histories
        <4> QED BY <2>1, <2>2, <3>1, <4>2
      <3>2. CASE Len(h) # 1
        <4>1. Goto(t, pc[t])
          <5>1. UNCHANGED pc
            BY <2>1, <3>2
          <5> QED BY <1>t, <5>1 DEF PcTyped, IsPc, Goto
        <4> QED BY <2>1, <4>1
      <3> QED BY <3>1, <3>2
    <2>7. ASSUME NEW s \in Messages
          PROVE  /\ Nowhere(s) => Nowhere(s)'
                 /\ InOnePlace(s) => InOnePlace(s)'
                 /\ Somewhere(s) => Somewhere(s)'
      <3>1. /\ Absent(h, s) => m # Said(s) /\ Absent(todo'[t], s)
            /\ Once(h, s) /\ m = Said(s) => Absent(todo'[t], s)
            /\ Once(h, s) /\ m # Said(s) => Once(todo'[t], s)
            /\ ~Absent(h, s) /\ m # Said(s) => ~Absent(todo'[t], s)
        BY <2>1, <2>2, TailOnce DEF m
      <3>2. ~Absent(msgs, s) => ~Absent(msgs', s)
        BY <1>t, <2>3, <2>4, <2>5, StartsOnce
      <3>3. CASE m = Said(s)
        <4>1. ~Absent(msgs', s) /\ (Absent(msgs, s) => Once(msgs', s))
          BY <1>t, <2>3, <2>5, <3>3, AppendedOnce
        <4>2. ~Absent(todo[t], s)
          BY <3>1, <3>3 DEF h
        <4>3. InOnePlace(s) => Absent(msgs, s) /\ Absent(steerBuf, s) /\ Once(todo[t], s)
                               /\ \A u \in Turns \ {t} : Absent(todo[u], s)
          BY <4>2 DEF InOnePlace
        <4>4. InOnePlace(s) => Absent(todo'[t], s)
          BY <3>1, <3>3, <4>3 DEF h
        <4>5. InOnePlace(s) => InOnePlace(s)'
          BY <2>1, <2>2, <4>1, <4>3, <4>4 DEF InOnePlace
        <4> QED BY <4>1, <4>2, <4>5 DEF Nowhere, Somewhere
      <3>4. CASE m # Said(s)
        <4>1. Positions(msgs', Said(s)) = Positions(msgs, Said(s))
          BY <1>t, <2>3, <2>5, <3>4, AppendedBeside
        <4>2. (Absent(msgs', s) <=> Absent(msgs, s)) /\ (Once(msgs', s) <=> Once(msgs, s))
          BY <4>1 DEF Absent, Once
        <4>3. /\ Absent(todo[t], s) <=> Absent(todo'[t], s)
              /\ Once(todo[t], s) => Once(todo'[t], s)
          BY <3>1, <3>4 DEF h
        <4>4. /\ \A u \in Turns : Absent(todo[u], s) <=> Absent(todo'[u], s)
              /\ \A u \in Turns : Once(todo[u], s) => Once(todo'[u], s)
          BY <2>2, <4>3
        <4>5. InOnePlace(s) => InOnePlace(s)'
          BY <2>1, <4>2, <4>4 DEF InOnePlace
        <4>6. Somewhere(s) => Somewhere(s)'
          BY <2>1, <4>2, <4>4 DEF Somewhere
        <4>7. Nowhere(s) => Nowhere(s)'
          BY <1>i, <2>1, <2>5, <4>2, <4>4 DEF Nowhere
        <4> QED BY <4>5, <4>6, <4>7
      <3> QED BY <3>3, <3>4
    <2> QED BY <1>t, <1>i, <2>1, <2>2, <2>5, <2>6, <2>7, TurnFrame
  <1>9. CASE Drain(t) \/ EndTurn(t) \/ EndHook(t)
    <2>1. UNCHANGED <<msgs, row>> /\ pc[t] \notin Appending /\ lost \subseteq lost'
      BY <1>9 DEF Drain, EndTurn, EndHook, history, Appending
    <2>2. PICK state : Goto(t, state) /\ (state \in Appending \/ UNCHANGED todo)
      BY <1>9 DEF Drain, EndTurn, EndHook, Appending
    <2>3. \/ /\ todo' = [todo EXCEPT ![t] = steerBuf] /\ steerBuf' = <<>>
          \/ UNCHANGED <<todo, steerBuf>>
          \/ UNCHANGED todo /\ steerBuf' = <<>> /\ lost' = lost \union SteersIn(steerBuf)
      BY <1>9 DEF Drain, EndTurn, EndHook
    <2>4. todo[t] = <<>> /\ \A s : Absent(<<>>, s)
      BY <1>k, <2>1, PlaceFacts DEF Kept
    <2>5. \A u \in Turns \ {t} : todo'[u] = todo[u]
      BY <1>t, <2>3
    <2>6. state \notin Appending => todo'[t] = <<>>
      BY <2>2, <2>4
    <2>7. ASSUME NEW s \in Messages
          PROVE  /\ Nowhere(s) => Nowhere(s)'
                 /\ s \notin lost' /\ InOnePlace(s) => InOnePlace(s)'
                 /\ s \notin lost' /\ Somewhere(s) => Somewhere(s)'
      <3>1. CASE todo' = [todo EXCEPT ![t] = steerBuf] /\ steerBuf' = <<>>
        <4>1. todo'[t] = steerBuf
          BY <1>t, <3>1
        <4>2. Absent(todo[t], s) /\ Absent(steerBuf', s)
          BY <2>4, <3>1
        <4>3. ~Once(todo[t], s)
          BY <4>2, PlaceFacts
        <4>4. InOnePlace(s) => InOnePlace(s)'
          <5>1. CASE Once(msgs, s) /\ Absent(steerBuf, s) /\ \A u \in Turns : Absent(todo[u], s)
            BY <2>1, <2>5, <4>1, <4>2, <5>1 DEF InOnePlace
          <5>2. CASE Absent(msgs, s) /\ Once(steerBuf, s) /\ \A u \in Turns : Absent(todo[u], s)
            BY <2>1, <2>5, <4>1, <4>2, <5>2 DEF InOnePlace
          <5>3. CASE /\ Absent(msgs, s) /\ Absent(steerBuf, s)
                     /\ \E u \in Turns : Once(todo[u], s) /\ \A v \in Turns \ {u} : Absent(todo[v], s)
            <6>1. PICK u \in Turns : Once(todo[u], s) /\ \A v \in Turns \ {u} : Absent(todo[v], s)
              BY <5>3
            <6>2. u # t
              BY <4>3, <6>1
            <6>3. Once(todo'[u], s) /\ \A v \in Turns \ {u} : Absent(todo'[v], s)
              BY <2>5, <4>1, <5>3, <6>1, <6>2
            <6> QED BY <2>1, <4>2, <5>3, <6>3 DEF InOnePlace
          <5> QED BY <5>1, <5>2, <5>3 DEF InOnePlace
        <4>5. Somewhere(s) => Somewhere(s)'
          BY <2>1, <2>5, <4>1, <4>2 DEF Somewhere
        <4>6. Nowhere(s) => Nowhere(s)'
          BY <1>i, <2>1, <2>5, <4>1, <4>2 DEF Nowhere
        <4> QED BY <4>4, <4>5, <4>6
      <3>2. CASE UNCHANGED <<todo, steerBuf>>
        BY <1>i, <2>1, <3>2 DEF Nowhere, InOnePlace, Somewhere
      <3>3. CASE UNCHANGED todo /\ steerBuf' = <<>> /\ lost' = lost \union SteersIn(steerBuf)
        <4>1. s \notin lost' => Absent(steerBuf, s)
          BY <3>3 DEF SteersIn, Absent
        <4>2. Absent(steerBuf', s)
          BY <2>4, <3>3
        <4>3. Nowhere(s) => Nowhere(s)'
          BY <1>i, <2>1, <3>3, <4>2 DEF Nowhere
        <4>4. s \notin lost' /\ InOnePlace(s) => InOnePlace(s)'
          BY <2>1, <3>3, <4>1, <4>2, PlaceFacts DEF InOnePlace
        <4>5. s \notin lost' /\ Somewhere(s) => Somewhere(s)'
          BY <2>1, <3>3, <4>1, <4>2 DEF Somewhere
        <4> QED BY <4>3, <4>4, <4>5
      <3> QED BY <2>3, <3>1, <3>2, <3>3
    <2>8. ~reloaded => Starts(row', msgs')
      BY <1>l, <1>k, <2>1 DEF Kept
    <2> QED BY <1>t, <1>i, <2>1, <2>2, <2>5, <2>6, <2>7, <2>8, TurnFrame
  <1> QED BY <1>1, <1>2, <1>3, <1>4, <1>5, <1>6, <1>7, <1>8, <1>9 DEF TurnStep

LEMMA CrashSteers ==
  ASSUME WellTyped, Steers, Crash
  PROVE  Steers'
  <1>t. msgs \in Histories /\ row \in Histories
    BY DEF WellTyped, SavedTyped
  <1>k. Kept /\ \A s \in Messages : Placed(s)
    BY DEF Steers
  <1>c. /\ loaded /\ ~loaded' /\ msgs' = <<>> /\ steerBuf' = <<>> /\ getting' = NoGet
        /\ lost' = lost \union Unsaved /\ UNCHANGED row
        /\ todo' = [u \in Turns |-> <<>>]
        /\ pc' = [a \in Actors |->
                    IF pc[a] \in {"new", "skipped", "done", "accepted", "refused", "noted"}
                    THEN pc[a] ELSE "dead"]
    BY DEF Crash
  <1>d. reloaded' <=> reloaded
    BY DEF Crash
  <1>1. Kept'
    BY <1>c DEF Kept, Idle
  <1>2. ASSUME NEW s \in Messages PROVE Placed(s)'
    <2>1. /\ pc'[s] \in Unsent => pc[s] = "new"
          /\ pc'[s] = "accepted" => pc[s] = "accepted"
      BY <1>c DEF Actors, Unsent
    <2>2. Nowhere(s) => Nowhere(s)'
      BY <1>c, PlaceFacts DEF Nowhere, NoGet
    <2>3. pc'[s] = "accepted" /\ s \notin lost' => s \notin lost /\ ~Absent(row, s)
      BY <1>c, <2>1 DEF Unsaved, SteersIn, Absent
    <2>4. ~reloaded /\ InOnePlace(s) /\ ~Absent(row, s) => Once(row, s)
      <3>1. ~reloaded => Starts(row, msgs)
        BY <1>c, <1>k DEF Kept
      <3>2. InOnePlace(s) /\ ~Absent(msgs, s) => Once(msgs, s)
        BY DEF InOnePlace
      <3> QED BY <1>t, <3>1, <3>2, StartsOnce
    <2> QED BY <1>c, <1>d, <1>k, <2>1, <2>2, <2>3, <2>4 DEF Placed, Unsent
  <1> QED BY <1>1, <1>2 DEF Steers

LEMMA SteersNext == WellTyped /\ Steers /\ [Next]_vars => Steers'
  <1> SUFFICES ASSUME WellTyped, Steers, [Next]_vars PROVE Steers'
    OBVIOUS
  <1>w. WellTyped'
    BY WellTypedNext
  <1>1. CASE \E a \in Actors : Get(a)
    BY <1>1, <1>w, GetSteers
  <1>2. CASE \E m \in Messages : PushSteer(m) \/ Inject(m)
    BY <1>2, MessageSteers
  <1>3. CASE \E t \in Turns : TurnStep(t)
    BY <1>3, TurnSteers
  <1>4. CASE Crash
    BY <1>4, CrashSteers
  <1>5. CASE UNCHANGED vars
    BY <1>5 DEF vars, sessionVars, turnVars, history, Steers, Kept, Placed, Nowhere, InOnePlace,
                Somewhere
  <1> QED BY <1>1, <1>2, <1>3, <1>4, <1>5 DEF Next, AtRest

\* Counting the places.
LEMMA PlacesCounted ==
  ASSUME WellTyped, NEW s \in Messages
  PROVE  /\ Somewhere(s) => Places(s) >= 1
         /\ InOnePlace(s) => Places(s) = 1
  <1> DEFINE M == Positions(msgs, Said(s))
             B == Positions(steerBuf, Said(s))
             P(t) == Positions(todo[t], Said(s))
             F == {{t} \X P(t) : t \in Turns}
             U == UNION F
  <1>t. msgs \in Histories /\ steerBuf \in Histories /\ todo \in [Turns -> Histories]
    BY DEF WellTyped, SavedTyped, BufferTyped, TurnsTyped
  <1>1. ASSUME NEW h \in Histories PROVE IsFiniteSet(Positions(h, Said(s)))
    <2>1. Len(h) \in Nat /\ Positions(h, Said(s)) \in SUBSET (1..Len(h))
      BY HistoryFacts
    <2>2. IsFiniteSet(1..Len(h))
      BY <2>1, FS_Interval
    <2> QED BY <2>1, <2>2, FS_Subset
  <1>2. IsFiniteSet(M) /\ IsFiniteSet(B) /\ \A t \in Turns : IsFiniteSet({t} \X P(t))
    <2>1. IsFiniteSet(M) /\ IsFiniteSet(B)
      BY <1>1, <1>t
    <2>2. \A t \in Turns : IsFiniteSet({t}) /\ IsFiniteSet(P(t))
      BY <1>1, <1>t, FS_Singleton
    <2> QED BY <2>1, <2>2, FS_Product
  <1>3. IsFiniteSet(U)
    <2> DEFINE f == [t \in Turns |-> {t} \X P(t)]
    <2>1. f \in Surjection(Turns, F)
      BY DEF Surjection
    <2> HIDE DEF F, f
    <2>2. IsFiniteSet(F)
      BY <2>1, SessionAssumption, FS_Surjection
    <2>3. \A T \in F : IsFiniteSet(T)
      BY <1>2 DEF F
    <2> QED BY <2>2, <2>3, FS_UNION
  <1>4. Places(s) = Cardinality(M) + Cardinality(B) + Cardinality(U)
    BY DEF Places
  <1>5. \A S : IsFiniteSet(S) => Cardinality(S) \in Nat /\ (Cardinality(S) = 0 <=> S = {})
    BY FS_CardinalityType, FS_EmptySet
  <1>6. \A t \in Turns : \A i \in P(t) : <<t, i>> \in U
    OBVIOUS
  <1>7. (\A t \in Turns : Absent(todo[t], s)) => U = {}
    BY DEF Absent
  <1>8. ASSUME NEW t \in Turns, Once(todo[t], s), \A u \in Turns \ {t} : Absent(todo[u], s)
        PROVE  \E p : U = {p}
    <2>1. PICK i : P(t) = {i}
      BY <1>8 DEF Once
    <2>2. \A u \in Turns \ {t} : P(u) = {}
      BY <1>8 DEF Absent
    <2>3. U = {<<t, i>>}
      BY <2>1, <2>2
    <2> QED BY <2>3
  <1> HIDE DEF U, M, B
  <1>9. Somewhere(s) => Places(s) >= 1
    <2>1. Absent(msgs, s) \/ Cardinality(M) # 0
      BY <1>2, <1>5 DEF Absent, M
    <2>2. Absent(steerBuf, s) \/ Cardinality(B) # 0
      BY <1>2, <1>5 DEF Absent, B
    <2>3. (\A t \in Turns : Absent(todo[t], s)) \/ Cardinality(U) # 0
      BY <1>3, <1>5, <1>6 DEF Absent
    <2>4. Cardinality(M) \in Nat /\ Cardinality(B) \in Nat /\ Cardinality(U) \in Nat
      BY <1>2, <1>3, <1>5
    <2>5. Somewhere(s) => Cardinality(M) # 0 \/ Cardinality(B) # 0 \/ Cardinality(U) # 0
      BY <2>1, <2>2, <2>3 DEF Somewhere
    <2> QED BY <1>4, <2>4, <2>5
  <1>10. InOnePlace(s) => Places(s) = 1
    <2>1. /\ Absent(msgs, s) => Cardinality(M) = 0
          /\ Once(msgs, s) => Cardinality(M) = 1
      BY FS_EmptySet, FS_Singleton DEF Absent, Once, M
    <2>2. /\ Absent(steerBuf, s) => Cardinality(B) = 0
          /\ Once(steerBuf, s) => Cardinality(B) = 1
      BY FS_EmptySet, FS_Singleton DEF Absent, Once, B
    <2>3. /\ (\A t \in Turns : Absent(todo[t], s)) => Cardinality(U) = 0
          /\ \A t \in Turns : Once(todo[t], s) /\ (\A u \in Turns \ {t} : Absent(todo[u], s))
                                => Cardinality(U) = 1
      BY <1>7, <1>8, FS_EmptySet, FS_Singleton
    <2>4. ASSUME InOnePlace(s)
          PROVE  \/ Cardinality(M) = 1 /\ Cardinality(B) = 0 /\ Cardinality(U) = 0
                 \/ Cardinality(M) = 0 /\ Cardinality(B) = 1 /\ Cardinality(U) = 0
                 \/ Cardinality(M) = 0 /\ Cardinality(B) = 0 /\ Cardinality(U) = 1
      BY <2>1, <2>2, <2>3, <2>4 DEF InOnePlace
    <2> QED BY <1>4, <2>4
  <1> QED BY <1>9, <1>10

\* A steer that was accepted is in the buffer, in the hands of one turn or in the history, in
\* one place only as long as no Get has put another history in place, and is dropped by no
\* other event than a crash, such a Get and the end of a regex hook: for any number of
\* steers and turns, in any order.
THEOREM NoSteerIsLost == Spec => []SteersKept
  <1>1. Init => WellTyped /\ Steers
    BY WellTypedInit, SteersInit
  <1>2. WellTyped /\ Steers /\ [Next]_vars => (WellTyped /\ Steers)'
    BY WellTypedNext, SteersNext
  <1>3. WellTyped /\ Steers => SteersKept
    BY PlacesCounted DEF Steers, Placed, SteersKept
  <1> QED BY <1>1, <1>2, <1>3, PTL DEF Spec
----------------------------------------------------------------------------
(* The calls of a history and their results. *)

Asked(h) == UNION {h[i].calls : i \in Kinds(h, "calls")}
Answered(h) == {h[k].call : k \in Kinds(h, "tool")}
Open(h) == Asked(h) \ Answered(h)

\* No call is asked for twice or answered twice, and none is answered before it is asked for.
Paired(h) ==
  /\ \A i, k \in Kinds(h, "calls") : \A c \in h[i].calls : c \in h[k].calls => i = k
  /\ \A i, k \in Kinds(h, "tool") : h[i].call = h[k].call => i = k
  /\ \A k \in Kinds(h, "tool") : \E i \in Kinds(h, "calls") : i < k /\ h[k].call \in h[i].calls

\* Only the latest message with calls has open ones.
OpenLast(h) ==
  \A i, k \in Kinds(h, "calls") : \A c \in h[i].calls : c \in Open(h) => k <= i

\* Messages that neither ask nor answer.
Talk(h) == Kinds(h, "calls") = {} /\ Kinds(h, "tool") = {}

\* Results of different calls.
Results(h) ==
  /\ \A i \in 1..Len(h) : h[i].kind = "tool"
  /\ \A i, k \in 1..Len(h) : h[i].call = h[k].call => i = k

\* The second of two histories has what the first has.
LEMMA StartsPairs ==
  ASSUME NEW g \in Histories, NEW h \in Histories, Starts(g, h)
  PROVE  /\ \A k : Kinds(g, k) \subseteq Kinds(h, k)
         /\ Asked(g) \subseteq Asked(h) /\ Answered(g) \subseteq Answered(h)
         /\ Paired(h) => Paired(g)
  <1>1. /\ Len(g) <= Len(h) /\ \A i \in 1..Len(g) : h[i] = g[i] /\ i \in 1..Len(h)
        /\ Len(g) \in Nat /\ Len(h) \in Nat
    BY HistoryFacts DEF Starts
  <1>2. \A k : Kinds(g, k) = {i \in 1..Len(g) : g[i].kind = k}
    BY HistoryFacts
  <1>3. \A k : Kinds(h, k) = {i \in 1..Len(h) : h[i].kind = k}
    BY HistoryFacts
  <1>4. \A k : Kinds(g, k) \subseteq Kinds(h, k)
    BY <1>1, <1>2, <1>3
  <1>5. Asked(g) \subseteq Asked(h) /\ Answered(g) \subseteq Answered(h)
    <2>1. \A k : \A i \in Kinds(g, k) : i \in Kinds(h, k) /\ h[i] = g[i]
      BY <1>1, <1>2, <1>4
    <2> QED BY <2>1 DEF Asked, Answered
  <1>6. ASSUME Paired(h) PROVE Paired(g)
    <2>1. \A k : \A i \in Kinds(g, k) : i \in Kinds(h, k) /\ h[i] = g[i]
      BY <1>1, <1>2, <1>4
    <2>2. \A i, k \in Kinds(g, "calls") : \A c \in g[i].calls : c \in g[k].calls => i = k
      BY <1>6, <2>1 DEF Paired
    <2>3. \A i, k \in Kinds(g, "tool") : g[i].call = g[k].call => i = k
      BY <1>6, <2>1 DEF Paired
    <2>4. ASSUME NEW k \in Kinds(g, "tool")
          PROVE  \E i \in Kinds(g, "calls") : i < k /\ g[k].call \in g[i].calls
      <3>1. k \in Kinds(h, "tool") /\ h[k] = g[k] /\ k \in 1..Len(g)
        BY <1>2, <2>1
      <3>2. PICK i \in Kinds(h, "calls") : i < k /\ h[k].call \in h[i].calls
        BY <1>6, <3>1 DEF Paired
      <3>3. i \in 1..Len(h) /\ h[i].kind = "calls"
        BY <1>3
      <3>4. i \in 1..Len(g) /\ h[i] = g[i]
        BY <1>1, <3>1, <3>2, <3>3
      <3>5. i \in Kinds(g, "calls")
        BY <1>2, <3>3, <3>4
      <3> QED BY <3>1, <3>2, <3>4, <3>5
    <2> QED BY <2>2, <2>3, <2>4 DEF Paired
  <1> QED BY <1>4, <1>5, <1>6

LEMMA AnsweredAsked ==
  ASSUME NEW h \in Histories, Paired(h)
  PROVE  Answered(h) \subseteq Asked(h) /\ Asked(h) \in SUBSET Call
  <1>1. Answered(h) \subseteq Asked(h)
    BY DEF Paired, Answered, Asked
  <1>2. \A i \in Kinds(h, "calls") : h[i].calls \in SUBSET Call
    BY HistoryFacts, MessageFacts
  <1> QED BY <1>1, <1>2 DEF Asked

LEMMA NothingPaired == Paired(<<>>) /\ OpenLast(<<>>) /\ Asked(<<>>) = {} /\ Open(<<>>) = {} /\ Talk(<<>>)
  <1>1. \A k : Kinds(<<>>, k) = {}
    BY DEF Kinds
  <1> QED BY <1>1 DEF Paired, OpenLast, Asked, Open, Talk

\* A longer history whose messages with calls are those of a shorter one.
LEMMA OpenLastStays ==
  ASSUME NEW g \in Histories, NEW h \in Histories, Starts(g, h),
         Kinds(h, "calls") = Kinds(g, "calls"), OpenLast(g)
  PROVE  OpenLast(h) /\ Asked(h) = Asked(g)
  <1>1. \A i \in Kinds(g, "calls") : h[i] = g[i]
    BY HistoryFacts DEF Starts
  <1>2. Asked(h) = Asked(g)
    BY <1>1 DEF Asked
  <1>3. Open(h) \subseteq Open(g)
    BY <1>2, StartsPairs DEF Open
  <1>4. \A i, k \in Kinds(h, "calls") : \A c \in h[i].calls : c \in Open(h) => k <= i
    BY <1>1, <1>3 DEF OpenLast
  <1> QED BY <1>2, <1>4 DEF OpenLast

\* A message that neither asks nor answers.
LEMMA TalkOn ==
  ASSUME NEW h \in Histories, Paired(h), OpenLast(h),
         NEW m \in Fine, m.kind # "calls", m.kind # "tool"
  PROVE  LET long == Append(h, m)
         IN  /\ long \in Histories /\ Paired(long) /\ OpenLast(long)
             /\ Asked(long) = Asked(h) /\ Open(long) = Open(h)
  <1> DEFINE long == Append(h, m)
  <1>1. /\ long \in Histories /\ Starts(h, long)
        /\ \A k : Kinds(long, k) = Kinds(h, k) \union IF m.kind = k THEN {Len(h) + 1} ELSE {}
    BY Appended
  <1> HIDE DEF long
  <1>2. Kinds(long, "calls") = Kinds(h, "calls") /\ Kinds(long, "tool") = Kinds(h, "tool")
    BY <1>1
  <1>3. \A i \in Kinds(h, "calls") \union Kinds(h, "tool") : long[i] = h[i]
    BY <1>1, HistoryFacts DEF Starts
  <1>4. OpenLast(long) /\ Asked(long) = Asked(h)
    BY <1>1, <1>2, OpenLastStays
  <1>5. Answered(long) = Answered(h)
    BY <1>2, <1>3 DEF Answered
  <1>6. Paired(long)
    BY <1>2, <1>3 DEF Paired
  <1> QED BY <1>1, <1>4, <1>5, <1>6 DEF Open, long

\* A message that asks for new calls, when no call is open.
LEMMA AskOn ==
  ASSUME NEW h \in Histories, Paired(h), Open(h) = {},
         NEW cs \in SUBSET Call, Calls(cs) \in Fine, cs \intersect Asked(h) = {}
  PROVE  LET long == Append(h, Calls(cs))
         IN  /\ long \in Histories /\ Paired(long) /\ OpenLast(long)
             /\ Asked(long) = Asked(h) \union cs /\ Open(long) = cs
  <1> DEFINE m == Calls(cs)
             long == Append(h, m)
             n == Len(h) + 1
  <1>0. m.kind = "calls" /\ m.calls = cs /\ m \in Fine /\ Len(h) \in Nat
    BY HistoryFacts DEF Calls
  <1>1. /\ long \in Histories /\ Starts(h, long) /\ long[n] = m
        /\ \A k : Kinds(long, k) = Kinds(h, k) \union IF m.kind = k THEN {n} ELSE {}
    BY Appended
  <1> HIDE DEF long, m
  <1>2. Kinds(long, "calls") = Kinds(h, "calls") \union {n} /\ Kinds(long, "tool") = Kinds(h, "tool")
    BY <1>0, <1>1
  <1>3. \A k : \A i \in Kinds(h, k) : i \in 1..Len(h) /\ long[i] = h[i]
    BY <1>1, HistoryFacts DEF Starts
  <1>4. Asked(long) = Asked(h) \union cs
    BY <1>0, <1>1, <1>2, <1>3 DEF Asked
  <1>5. Answered(long) = Answered(h)
    BY <1>2, <1>3 DEF Answered
  <1>6. Answered(h) \subseteq Asked(h)
    BY AnsweredAsked
  <1>7. Open(long) = cs
    BY <1>4, <1>5, <1>6 DEF Open
  <1>8. \A i \in Kinds(h, "calls") : h[i].calls \subseteq Asked(h)
    BY DEF Asked
  <1>9. Paired(long)
    <2>1. \A i, k \in Kinds(long, "calls") : \A c \in long[i].calls : c \in long[k].calls => i = k
      <3>1. ASSUME NEW i \in Kinds(h, "calls"), NEW c \in h[i].calls PROVE c \notin cs
        BY <1>8
      <3>2. \A i, k \in Kinds(h, "calls") : \A c \in h[i].calls : c \in h[k].calls => i = k
        BY DEF Paired
      <3> QED BY <1>0, <1>1, <1>2, <1>3, <3>1, <3>2
    <2>2. \A i, k \in Kinds(long, "tool") : long[i].call = long[k].call => i = k
      BY <1>2, <1>3 DEF Paired
    <2>3. \A k \in Kinds(long, "tool") : \E i \in Kinds(long, "calls") : i < k /\ long[k].call \in long[i].calls
      BY <1>2, <1>3 DEF Paired
    <2> QED BY <2>1, <2>2, <2>3 DEF Paired
  <1>10. OpenLast(long)
    <2> SUFFICES ASSUME NEW i \in Kinds(long, "calls"), NEW k \in Kinds(long, "calls"),
                        NEW c \in long[i].calls, c \in Open(long)
                 PROVE  k <= i
      BY DEF OpenLast
    <2>1. i = n
      <3>1. ASSUME i \in Kinds(h, "calls") PROVE FALSE
        BY <1>3, <1>7, <1>8, <3>1
      <3> QED BY <1>2, <3>1
    <2>2. k \in 1..Len(h) \/ k = n
      BY <1>2, <1>3
    <2> QED BY <1>0, <2>1, <2>2
  <1> QED BY <1>1, <1>4, <1>7, <1>9, <1>10 DEF long, m

\* The result of an open call.
LEMMA AnswerOn ==
  ASSUME NEW h \in Histories, Paired(h), OpenLast(h),
         NEW m \in Fine, m.kind = "tool", m.call \in Open(h)
  PROVE  LET long == Append(h, m)
         IN  /\ long \in Histories /\ Paired(long) /\ OpenLast(long)
             /\ Asked(long) = Asked(h) /\ Open(long) = Open(h) \ {m.call}
  <1> DEFINE long == Append(h, m)
             n == Len(h) + 1
  <1>1. /\ long \in Histories /\ Starts(h, long) /\ long[n] = m /\ Len(h) \in Nat
        /\ \A k : Kinds(long, k) = Kinds(h, k) \union IF m.kind = k THEN {n} ELSE {}
    BY Appended, HistoryFacts
  <1> HIDE DEF long
  <1>2. Kinds(long, "calls") = Kinds(h, "calls") /\ Kinds(long, "tool") = Kinds(h, "tool") \union {n}
    BY <1>1
  <1>3. \A k : \A i \in Kinds(h, k) : i \in 1..Len(h) /\ long[i] = h[i]
    BY <1>1, HistoryFacts DEF Starts
  <1>4. OpenLast(long) /\ Asked(long) = Asked(h)
    BY <1>1, <1>2, OpenLastStays
  <1>5. Answered(long) = Answered(h) \union {m.call}
    BY <1>1, <1>2, <1>3 DEF Answered
  <1>6. Paired(long)
    <2>1. \A i, k \in Kinds(long, "calls") : \A c \in long[i].calls : c \in long[k].calls => i = k
      BY <1>2, <1>3 DEF Paired
    <2>2. \A i, k \in Kinds(long, "tool") : long[i].call = long[k].call => i = k
      <3>1. \A i \in Kinds(h, "tool") : h[i].call # m.call
        BY DEF Open, Answered
      <3>2. \A i, k \in Kinds(h, "tool") : h[i].call = h[k].call => i = k
        BY DEF Paired
      <3> QED BY <1>1, <1>2, <1>3, <3>1, <3>2
    <2>3. ASSUME NEW k \in Kinds(long, "tool")
          PROVE  \E i \in Kinds(long, "calls") : i < k /\ long[k].call \in long[i].calls
      <3>1. CASE k \in Kinds(h, "tool")
        BY <1>2, <1>3, <3>1 DEF Paired
      <3>2. CASE k = n
        <4>1. PICK i \in Kinds(h, "calls") : m.call \in h[i].calls
          BY DEF Open, Asked
        <4>2. i < k /\ long[i] = h[i]
          BY <1>1, <1>3, <3>2
        <4> QED BY <1>1, <1>2, <3>2, <4>1, <4>2
      <3> QED BY <1>2, <3>1, <3>2
    <2> QED BY <2>1, <2>2, <2>3 DEF Paired
  <1> QED BY <1>1, <1>4, <1>5, <1>6 DEF Open, long

\* The results of different open calls, one after the other.
LEMMA ResultsOn ==
  ASSUME NEW h \in Histories, Paired(h), OpenLast(h),
         NEW q \in Histories, Results(q), Answered(q) \subseteq Open(h)
  PROVE  LET both == h \o q
         IN  /\ both \in Histories /\ Starts(h, both) /\ Paired(both)
             /\ Kinds(both, "calls") = Kinds(h, "calls")
             /\ Open(both) = Open(h) \ Answered(q)
  <1> DEFINE both == h \o q
             n == Len(h)
             l == Len(q)
  <1>1. Kinds(q, "calls") = {} /\ Kinds(q, "tool") = 1..l
    <2>1. \A k : Kinds(q, k) = {i \in 1..l : q[i].kind = k}
      BY HistoryFacts
    <2>2. \A i \in 1..l : q[i].kind = "tool"
      BY DEF Results
    <2>3. Kinds(q, "calls") = {i \in 1..l : q[i].kind = "calls"} /\ Kinds(q, "tool") = {i \in 1..l : q[i].kind = "tool"}
      BY <2>1
    <2> HIDE DEF l
    <2>4. {i \in 1..l : q[i].kind = "calls"} = {} /\ {i \in 1..l : q[i].kind = "tool"} = 1..l
      BY <2>2
    <2> QED BY <2>3, <2>4
  <1>2. /\ both \in Histories /\ Len(both) = n + l /\ Starts(h, both) /\ n \in Nat /\ l \in Nat
        /\ \A i \in 1..l : both[n + i] = q[i]
        /\ Kinds(both, "calls") = Kinds(h, "calls")
    <2>1. /\ both \in Histories /\ Len(both) = n + l /\ Starts(h, both)
          /\ \A i \in 1..l : both[n + i] = q[i]
          /\ \A k : Kinds(q, k) = {} => Kinds(both, k) = Kinds(h, k)
      BY Joined
    <2>2. n \in Nat /\ l \in Nat
      BY HistoryFacts
    <2> QED BY <1>1, <2>1, <2>2
  <1> HIDE DEF both
  <1>3. \A k : \A i \in Kinds(h, k) : i \in 1..n /\ both[i] = h[i] /\ h[i].kind = k
    BY <1>2, HistoryFacts DEF Starts
  <1>4. \A i \in Kinds(both, "tool") : \/ i \in Kinds(h, "tool")
                                       \/ i - n \in 1..l /\ both[i] = q[i - n]
    <2> SUFFICES ASSUME NEW i \in Kinds(both, "tool")
                 PROVE  i \in Kinds(h, "tool") \/ (i - n \in 1..l /\ both[i] = q[i - n])
      OBVIOUS
    <2>1. i \in 1..(n + l) /\ both[i].kind = "tool"
      BY <1>2, HistoryFacts
    <2>2. CASE i <= n
      <3>1. i \in 1..n
        BY <1>2, <2>1, <2>2
      <3>2. h[i] = both[i]
        BY <1>2, <3>1 DEF Starts
      <3> QED BY <2>1, <3>1, <3>2, HistoryFacts
    <2>3. CASE ~(i <= n)
      <3>1. i - n \in 1..l /\ n + (i - n) = i
        BY <1>2, <2>1, <2>3
      <3> QED BY <1>2, <3>1
    <2> QED BY <2>2, <2>3
  <1>5. \A j \in 1..l : n + j \in Kinds(both, "tool") /\ both[n + j] = q[j]
    <2>1. \A j \in 1..l : n + j \in 1..Len(both) /\ both[n + j].kind = "tool"
      BY <1>2 DEF Results
    <2> QED BY <1>2, <2>1, HistoryFacts
  <1>6. \A i \in Kinds(h, "tool") : i \in Kinds(both, "tool")
    BY <1>2, StartsPairs
  <1>7. Answered(both) = Answered(h) \union Answered(q)
    <2>1. ASSUME NEW i \in Kinds(both, "tool") PROVE both[i].call \in Answered(h) \union Answered(q)
      <3>1. CASE i \in Kinds(h, "tool")
        BY <1>3, <3>1 DEF Answered
      <3>2. CASE i - n \in 1..l /\ both[i] = q[i - n]
        BY <1>1, <3>2 DEF Answered
      <3> QED BY <1>4, <3>1, <3>2
    <2>2. \A i \in Kinds(h, "tool") : h[i].call \in Answered(both)
      BY <1>3, <1>6 DEF Answered
    <2>3. \A j \in Kinds(q, "tool") : q[j].call \in Answered(both)
      BY <1>1, <1>5 DEF Answered
    <2>4. Answered(both) \subseteq Answered(h) \union Answered(q)
      BY <2>1 DEF Answered
    <2>5. Answered(h) \subseteq Answered(both) /\ Answered(q) \subseteq Answered(both)
      BY <2>2, <2>3 DEF Answered
    <2> QED BY <2>4, <2>5
  <1>8. Asked(both) = Asked(h)
    BY <1>2, OpenLastStays
  <1>9. Open(both) = Open(h) \ Answered(q)
    BY <1>7, <1>8 DEF Open
  <1>10. Paired(both)
    <2>1. \A i, k \in Kinds(both, "calls") : \A c \in both[i].calls : c \in both[k].calls => i = k
      BY <1>2, <1>3 DEF Paired
    <2>2. ASSUME NEW i \in Kinds(both, "tool"), NEW k \in Kinds(both, "tool"),
                 both[i].call = both[k].call
          PROVE  i = k
      <3>1. \A x \in Kinds(h, "tool") : \A j \in 1..l : h[x].call # q[j].call
        <4>1. \A j \in 1..l : q[j].call \in Open(h)
          BY <1>1 DEF Answered
        <4> QED BY <4>1 DEF Open, Answered
      <3>2. CASE i \in Kinds(h, "tool") /\ k \in Kinds(h, "tool")
        BY <1>3, <2>2, <3>2 DEF Paired
      <3>3. CASE i \in Kinds(h, "tool") /\ (k - n \in 1..l /\ both[k] = q[k - n])
        BY <1>3, <2>2, <3>1, <3>3
      <3>4. CASE k \in Kinds(h, "tool") /\ (i - n \in 1..l /\ both[i] = q[i - n])
        BY <1>3, <2>2, <3>1, <3>4
      <3>5. CASE (i - n \in 1..l /\ both[i] = q[i - n]) /\ (k - n \in 1..l /\ both[k] = q[k - n])
        <4>1. i - n = k - n
          BY <2>2, <3>5 DEF Results
        <4>2. i \in Int /\ k \in Int
          BY <1>2, HistoryFacts
        <4> QED BY <1>2, <4>1, <4>2
      <3> QED BY <1>4, <3>2, <3>3, <3>4, <3>5
    <2>3. ASSUME NEW k \in Kinds(both, "tool")
          PROVE  \E i \in Kinds(both, "calls") : i < k /\ both[k].call \in both[i].calls
      <3>1. CASE k \in Kinds(h, "tool")
        BY <1>2, <1>3, <3>1 DEF Paired
      <3>2. CASE k - n \in 1..l /\ both[k] = q[k - n]
        <4>1. both[k].call \in Open(h)
          BY <1>1, <3>2 DEF Answered
        <4>2. PICK i \in Kinds(h, "calls") : both[k].call \in h[i].calls
          BY <4>1 DEF Open, Asked
        <4>3. i \in 1..n /\ both[i] = h[i] /\ k \in Int
          BY <1>2, <1>3, HistoryFacts
        <4>4. i < k
          BY <1>2, <3>2, <4>3
        <4> QED BY <1>2, <4>2, <4>3, <4>4
      <3> QED BY <1>4, <3>1, <3>2
    <2> QED BY <2>1, <2>2, <2>3 DEF Paired
  <1> QED BY <1>2, <1>9, <1>10 DEF both

\* The calls that PadOrphanToolResults pads are the open ones.
LEMMA OrphansAreOpen ==
  ASSUME NEW h \in Histories, Paired(h), OpenLast(h)
  PROVE  OrphanCalls(h) = Open(h)
  <1>1. ASSUME NEW i \in Kinds(h, "calls"), NEW c \in h[i].calls
        PROVE  AnswersAfter(h, i, c) = {} <=> c \in Open(h)
    <2>1. c \in Asked(h)
      BY DEF Asked
    <2>2. ASSUME NEW k \in Kinds(h, "tool"), h[k].call = c PROVE k > i
      <3>1. PICK j \in Kinds(h, "calls") : j < k /\ c \in h[j].calls
        BY <2>2 DEF Paired
      <3>2. j = i
        BY <3>1 DEF Paired
      <3> QED BY <3>1, <3>2
    <2>3. AnswersAfter(h, i, c) = {k \in Kinds(h, "tool") : h[k].call = c}
      BY <2>2 DEF AnswersAfter
    <2> QED BY <2>1, <2>3 DEF Open, Answered
  <1>2. CASE Kinds(h, "calls") = {}
    BY <1>2 DEF OrphanCalls, Open, Asked
  <1>3. CASE Kinds(h, "calls") # {}
    <2> DEFINE asked == Kinds(h, "calls")
               i == CHOOSE k \in asked : \A other \in asked : other <= k
    <2>1. asked \in SUBSET (1..Len(h)) /\ Len(h) \in Nat
      BY HistoryFacts
    <2>2. \E k \in asked : \A other \in asked : other <= k
      <3> HIDE DEF asked
      <3> QED BY <1>3, <2>1, LatestExists DEF asked
    <2>3. i \in asked /\ \A other \in asked : other <= i
      BY <2>2
    <2>4. OrphanCalls(h) = {c \in h[i].calls : AnswersAfter(h, i, c) = {}}
      BY <1>3 DEF OrphanCalls
    <2> HIDE DEF i
    <2>5. OrphanCalls(h) = {c \in h[i].calls : c \in Open(h)}
      BY <1>1, <2>3, <2>4
    <2>6. ASSUME NEW c \in Open(h) PROVE c \in h[i].calls
      <3>1. PICK k \in asked : c \in h[k].calls
        BY DEF Open, Asked
      <3>2. i <= k /\ k <= i /\ k \in 1..Len(h) /\ i \in 1..Len(h)
        BY <2>1, <2>3, <3>1 DEF OpenLast
      <3>3. i = k
        BY <3>2
      <3> QED BY <3>1, <3>3
    <2> QED BY <2>5, <2>6
  <1> QED BY <1>2, <1>3

\* The pads answer the orphans, each once.
LEMMA PadsAnswer ==
  ASSUME NEW h \in Histories
  PROVE  Results(PadsFor(h)) /\ Answered(PadsFor(h)) = OrphanCalls(h)
  <1> DEFINE pads == PadsFor(h)
             orphans == OrphanCalls(h)
             n == Cardinality(orphans)
  <1>1. /\ pads \in Histories /\ Len(pads) = n
        /\ \A i \in 1..n : pads[i] = Tool(Ranked(orphans, i), Pad)
    BY PadsFacts
  <1>2. /\ \A i \in 1..n : Ranked(orphans, i) \in orphans
        /\ \A i, k \in 1..n : Ranked(orphans, i) = Ranked(orphans, k) => i = k
        /\ \A c \in orphans : \E i \in 1..n : Ranked(orphans, i) = c
    BY OrphanFacts, RankedFacts
  <1> HIDE DEF pads, orphans, n
  <1>3. \A i \in 1..n : pads[i].kind = "tool" /\ pads[i].call = Ranked(orphans, i)
    BY <1>1 DEF Tool
  <1>4. Results(pads)
    BY <1>1, <1>2, <1>3 DEF Results
  <1>5. Kinds(pads, "tool") = 1..n
    BY <1>1, <1>3, HistoryFacts
  <1>6. Answered(pads) = orphans
    <2>1. Answered(pads) = {pads[i].call : i \in 1..n}
      BY <1>5 DEF Answered
    <2>2. \A i \in 1..n : pads[i].call \in orphans
      BY <1>2, <1>3
    <2>3. ASSUME NEW c \in orphans PROVE \E i \in 1..n : pads[i].call = c
      BY <1>2, <1>3
    <2> QED BY <2>1, <2>2, <2>3
  <1> QED BY <1>4, <1>6 DEF pads, orphans

LEMMA MarkedPairs ==
  ASSUME NEW h \in Histories, Paired(h), OpenLast(h)
  PROVE  /\ Paired(Marked(h)) /\ OpenLast(Marked(h))
         /\ Asked(Marked(h)) = Asked(h) /\ Open(Marked(h)) = Open(h)
         /\ Kinds(Marked(h), "calls") = Kinds(h, "calls")
  <1>1. Aborted \in Fine /\ Aborted.kind = "aborted"
    BY MessageFacts DEF Aborted
  <1>2. CASE Marked(h) = h
    BY <1>2
  <1>3. CASE Marked(h) = Append(h, Aborted)
    <2>1. \A k : Kinds(Append(h, Aborted), k)
                   = Kinds(h, k) \union IF Aborted.kind = k THEN {Len(h) + 1} ELSE {}
      BY <1>1, Appended
    <2>2. Kinds(Append(h, Aborted), "calls") = Kinds(h, "calls")
      BY <1>1, <2>1
    <2> QED BY <1>1, <1>3, <2>2, TalkOn
  <1> QED BY <1>2, <1>3 DEF Marked

\* A healed history has no open call, and one that is healed in part is still in order.
LEMMA HealedPairs ==
  ASSUME NEW h \in Histories, Paired(h), OpenLast(h)
  PROVE  /\ Paired(Healed(h)) /\ OpenLast(Healed(h)) /\ Open(Healed(h)) = {}
         /\ Asked(Healed(h)) = Asked(h)
         /\ \A n \in Len(h)..Len(Healed(h)) :
              LET part == SubSeq(Healed(h), 1, n)
              IN  Paired(part) /\ OpenLast(part) /\ Asked(part) = Asked(h)
  <1>1. OrphanCalls(h) = Open(h)
    BY OrphansAreOpen
  <1>2. /\ Paired(Healed(h)) /\ OpenLast(Healed(h)) /\ Open(Healed(h)) = {}
        /\ Asked(Healed(h)) = Asked(h) /\ Kinds(Healed(h), "calls") = Kinds(h, "calls")
    <2>1. CASE OrphanCalls(h) # {}
      <3> DEFINE q == PadsFor(h)
                 both == h \o q
      <3>1. q \in Histories /\ Results(q) /\ Answered(q) = Open(h)
        BY <1>1, PadsFacts, PadsAnswer
      <3>2. /\ both \in Histories /\ Starts(h, both) /\ Paired(both)
            /\ Kinds(both, "calls") = Kinds(h, "calls") /\ Open(both) = {}
        BY <3>1, ResultsOn
      <3>3. OpenLast(both) /\ Asked(both) = Asked(h)
        BY <3>2, OpenLastStays
      <3>4. Healed(h) = Marked(both)
        BY <2>1 DEF Healed
      <3> HIDE DEF both
      <3> QED BY <3>2, <3>3, <3>4, MarkedPairs
    <2>2. CASE OrphanCalls(h) = {} /\ Healed(h) = Marked(h)
      BY <1>1, <2>2, MarkedPairs
    <2>3. CASE OrphanCalls(h) = {} /\ Healed(h) = h
      BY <1>1, <2>3
    <2> QED BY <2>1, <2>2, <2>3 DEF Healed
  <1>3. Healed(h) \in Histories /\ Starts(h, Healed(h))
    BY RepairFacts
  <1>4. ASSUME NEW n \in Len(h)..Len(Healed(h))
        PROVE  LET part == SubSeq(Healed(h), 1, n)
               IN  Paired(part) /\ OpenLast(part) /\ Asked(part) = Asked(h)
    <2> DEFINE part == SubSeq(Healed(h), 1, n)
    <2>0. Len(h) \in Nat /\ n \in 0..Len(Healed(h))
      BY <1>3, HistoryFacts
    <2>1. part \in Histories /\ Len(part) = n /\ Starts(part, Healed(h))
      BY <1>3, <2>0, Cut
    <2> HIDE DEF part
    <2>2. Paired(part)
      BY <1>2, <1>3, <2>1, StartsPairs
    <2>3. Starts(h, part)
      BY <1>3, <2>0, <2>1 DEF Starts
    <2>4. Kinds(part, "calls") = Kinds(h, "calls")
      <3>1. Kinds(part, "calls") \subseteq Kinds(Healed(h), "calls")
        BY <1>3, <2>1, StartsPairs
      <3>2. Kinds(h, "calls") \subseteq Kinds(part, "calls")
        BY <2>1, <2>3, StartsPairs
      <3> QED BY <1>2, <3>1, <3>2
    <2>5. OpenLast(part) /\ Asked(part) = Asked(h)
      BY <2>1, <2>3, <2>4, OpenLastStays
    <2> QED BY <2>2, <2>5 DEF part
  <1> QED BY <1>2, <1>4

\* Nothing open means that every call has one answer after it.
LEMMA PairedAnswers ==
  ASSUME NEW h \in Histories, Paired(h), Open(h) = {},
         NEW i \in Kinds(h, "calls"), NEW c \in h[i].calls
  PROVE  Cardinality(AnswersAfter(h, i, c)) = 1
  <1>1. c \in Answered(h)
    BY DEF Open, Asked
  <1>2. PICK k \in Kinds(h, "tool") : h[k].call = c
    BY <1>1 DEF Answered
  <1>3. PICK j \in Kinds(h, "calls") : j < k /\ c \in h[j].calls
    BY <1>2 DEF Paired
  <1>4. j = i
    BY <1>3 DEF Paired
  <1>5. AnswersAfter(h, i, c) = {k}
    BY <1>2, <1>3, <1>4 DEF AnswersAfter, Paired
  <1> QED BY <1>5, FS_Singleton
----------------------------------------------------------------------------
(* The turn in flight and what is open.  *)

\* States of a turn that has asked for nothing, and those of the loop.
Early == {"new", "fetched", "got", "user"}
Looping == {"llm", "results", "parked", "fold", "drain", "final"}

\* The calls of S are not among those that a turn may still ask for.
Past(S, at, made, next) ==
  \A c \in S :
    /\ at[c.turn] \notin Early
    /\ at[c.turn] \in Looping => c.iter < made[c.turn]
    /\ at[c.turn] = "hook" => Len(next[c.turn]) < 3

\* What a regex hook writes, and how far it has got.
Exchange(c) == <<Calls({c}), Tool(c, c), Text>>
Hooked(c, next) ==
  \/ next = Exchange(c) /\ Open(msgs) = {}
  \/ next = Tail(Exchange(c)) /\ Open(msgs) = {c}
  \/ next = Tail(Tail(Exchange(c))) /\ Open(msgs) = {}

\* The calls that are open while turn t is in flight: those whose results it holds, those
\* of a loop that was cut short, or any at all once the loop is left and until it pads them.
Turning(t) ==
  /\ pc[t] \in {"user", "plan", "drain", "final", "mark", "end", "hookEnd"} => Open(msgs) = {}
  /\ pc[t] \in {"llm", "fold"} => Open(msgs) = {} \/ iter[t] = MaxIterations
  /\ pc[t] \in {"results", "parked", "padding"} =>
       Results(todo[t]) /\ Answered(todo[t]) = Open(msgs)
  /\ pc[t] = "hook" => Hooked(CallOf(t, 1), todo[t])

Ordered(h) == Paired(h) /\ OpenLast(h)

\* One turn at a time, and nothing open between two of them.
Orderly ==
  /\ \A t, u \in Flying : t = u
  /\ Ordered(msgs) /\ Past(Asked(msgs), pc, iter, todo)
  /\ Ordered(row) /\ Past(Asked(row), pc, iter, todo)
  /\ loaded /\ Flying = {} => Open(msgs) = {}
  /\ \A t \in Flying : Turning(t)

\* A steer neither asks nor answers.
Talks == Talk(steerBuf) /\ \A t \in Turns : pc[t] \in {"fold", "flush"} => Talk(todo[t])

Pairs == Talks /\ (~reloaded /\ ~overlapped => Orderly)

\* A message that asks for nothing and answers nothing.
Plain(m) == m.kind # "calls" /\ m.kind # "tool"

LEMMA TalkFacts ==
  ASSUME NEW h \in Histories
  PROVE  /\ \A m \in Fine : Talk(h) /\ Plain(m) => Talk(Append(h, m))
         /\ h # <<>> => /\ Head(h) \in Fine /\ Tail(h) \in Histories
                        /\ Talk(h) => Plain(Head(h)) /\ Talk(Tail(h))
  <1>1. ASSUME NEW m \in Fine, Talk(h), Plain(m) PROVE Talk(Append(h, m))
    <2>1. \A k : Kinds(Append(h, m), k) = Kinds(h, k) \union IF m.kind = k THEN {Len(h) + 1} ELSE {}
      BY Appended
    <2>2. /\ Kinds(Append(h, m), "calls") = Kinds(h, "calls")
          /\ Kinds(Append(h, m), "tool") = Kinds(h, "tool")
      BY <1>1, <2>1 DEF Plain
    <2> QED BY <1>1, <2>2 DEF Talk
  <1>2. ASSUME h # <<>>
        PROVE  /\ Head(h) \in Fine /\ Tail(h) \in Histories
               /\ Talk(h) => Plain(Head(h)) /\ Talk(Tail(h))
    <2> DEFINE rest == Tail(h)
    <2>1. /\ Head(h) \in Fine /\ Head(h) = h[1] /\ 1 \in 1..Len(h)
          /\ rest \in Histories /\ \A i \in 1..Len(rest) : rest[i] = h[i + 1] /\ i + 1 \in 1..Len(h)
      <3>1. /\ Head(h) \in Fine /\ Head(h) = h[1] /\ rest \in Histories
            /\ Len(rest) = Len(h) - 1 /\ Len(h) \in Nat \ {0}
            /\ \A i \in 1..Len(rest) : rest[i] = h[i + 1]
        BY <1>2, HeadTailProperties, EmptySeq DEF Histories
      <3> HIDE DEF rest
      <3> QED BY <3>1
    <2> HIDE DEF rest
    <2>2. ASSUME Talk(h) PROVE Plain(Head(h)) /\ Talk(rest)
      <3>1. \A i \in 1..Len(h) : h[i].kind # "calls" /\ h[i].kind # "tool"
        BY <2>2, HistoryFacts DEF Talk
      <3>2. Plain(Head(h))
        BY <2>1, <3>1 DEF Plain
      <3>3. \A i \in 1..Len(rest) : rest[i].kind # "calls" /\ rest[i].kind # "tool"
        BY <2>1, <3>1
      <3> QED BY <2>1, <3>2, <3>3, HistoryFacts DEF Talk
    <2> QED BY <2>1, <2>2 DEF rest
  <1> QED BY <1>1, <1>2

LEMMA TurnGoes ==
  ASSUME PcTyped, NEW t \in Turns, NEW state, Goto(t, state)
  PROVE  pc'[t] = state /\ \A u \in Actors \ {t} : pc'[u] = pc[u]
  BY DEF PcTyped, IsPc, Goto, Actors

LEMMA TalksNext ==
  ASSUME WellTyped, Talks, [Next]_vars
  PROVE  Talks'
  <1>t. /\ PcTyped /\ steerBuf \in Histories /\ todo \in [Turns -> Histories] /\ Turns \subseteq Actors
        /\ \A t \in Turns : pc[t] \in Appending => todo[t] # <<>>
    BY DEF WellTyped, BufferTyped, TurnsTyped, Actors
  <1>1. CASE \E a \in Actors : Get(a)
    <2>1. PICK a \in Actors : Get(a)
      BY <1>1
    <2>2. PICK state \in {"fetched", "got", "dead"} : Goto(a, state)
      BY <2>1 DEF Get, Fetch, Install, Load, LoadNothing, DieLoading
    <2>3. UNCHANGED <<steerBuf, todo>>
      BY <2>1 DEF Get, Fetch, Install, Load, LoadNothing, DieLoading
    <2>4. \A t \in Turns : pc'[t] \in {"fold", "flush"} => pc'[t] = pc[t]
      BY <1>t, <2>2 DEF PcTyped, IsPc, Goto
    <2> QED BY <2>3, <2>4 DEF Talks
  <1>2. CASE \E m \in Messages : PushSteer(m) \/ Inject(m)
    <2>1. PICK m \in Messages : PushSteer(m) \/ Inject(m)
      BY <1>2
    <2>2. m \notin Turns /\ Said(m) \in Fine /\ Plain(Said(m))
      BY SessionAssumption, MessageFacts DEF Actors, Said, Plain
    <2>3. PICK state : Goto(m, state)
      BY <2>1 DEF PushSteer, Inject
    <2>4. \A t \in Turns : pc'[t] = pc[t] /\ todo'[t] = todo[t]
      BY <1>t, <2>1, <2>2, <2>3 DEF PcTyped, IsPc, Goto, PushSteer, Inject
    <2>5. Talk(Append(steerBuf, Said(m)))
      BY <1>t, <2>2, TalkFacts DEF Talks
    <2>6. Talk(steerBuf')
      BY <2>1, <2>5 DEF PushSteer, Inject, Talks
    <2> QED BY <2>4, <2>6 DEF Talks
  <1>3. CASE \E t \in Turns : TurnStep(t)
    <2>1. PICK t \in Turns : TurnStep(t)
      BY <1>3
    <2>2. ASSUME NEW state, Goto(t, state), NEW q, todo' = [todo EXCEPT ![t] = q],
                 state \in {"fold", "flush"} => Talk(q), steerBuf' \in {steerBuf, <<>>}
          PROVE  Talks'
      <3>1. pc'[t] = state /\ todo'[t] = q
            /\ \A u \in Turns \ {t} : pc'[u] = pc[u] /\ todo'[u] = todo[u]
        BY <1>t, <2>2, TurnGoes
      <3>2. Talk(steerBuf')
        BY <2>2, NothingPaired DEF Talks
      <3> QED BY <2>2, <3>1, <3>2 DEF Talks
    <2>3. ASSUME NEW state, Goto(t, state), state \notin {"fold", "flush"},
                 steerBuf' \in {steerBuf, <<>>}, \A u \in Turns \ {t} : todo'[u] = todo[u]
          PROVE  Talks'
      <3>1. pc'[t] = state /\ \A u \in Turns \ {t} : pc'[u] = pc[u]
        BY <1>t, <2>3, TurnGoes
      <3>2. Talk(steerBuf')
        BY <2>3, NothingPaired DEF Talks
      <3> QED BY <2>3, <3>1, <3>2 DEF Talks
    <2>4. CASE \/ Claim(t) \/ AppendUser(t) \/ Plan(t) \/ Reply(t) \/ CallTools(t) \/ FailTurn(t)
               \/ Quit(t) \/ Conclude(t) \/ ScanOrphans(t) \/ MarkAborted(t)
      <3>1. UNCHANGED steerBuf /\ \A u \in Turns \ {t} : todo'[u] = todo[u]
        BY <1>t, <2>4 DEF Claim, AppendUser, Plan, Reply, CallTools, FailTurn, Quit, Conclude,
                          ScanOrphans, MarkAborted, sessionVars
      <3>2. \E state : Goto(t, state) /\ state \notin {"fold", "flush"}
        BY <2>4 DEF Claim, Begin, AppendUser, Plan, Reply, CallTools, FailTurn, Quit, Conclude,
                    ScanOrphans, MarkAborted
      <3> QED BY <2>3, <3>1, <3>2
    <2>5. CASE CallInLoop(t)
      <3>1. Talk(<<Text>>)
        BY DEF Talk, Kinds, Text
      <3> QED BY <2>2, <2>5, <3>1 DEF CallInLoop
    <2>6. CASE AppendNext(t)
      <3> DEFINE h == todo[t]
      <3>1. h \in Histories /\ h # <<>> /\ pc[t] \in Appending
        BY <1>t, <2>6 DEF AppendNext
      <3>2. PICK state : Goto(t, state) /\ (state \in {"fold", "flush"} => state = pc[t])
        <4>1. CASE Goto(t, After(pc[t]))
          <5>1. After(pc[t]) \notin {"fold", "flush"}
            BY <3>1 DEF Appending, After
          <5> QED BY <4>1, <5>1
        <4>2. CASE UNCHANGED pc
          <5>1. Goto(t, pc[t])
            BY <1>t, <4>2 DEF PcTyped, IsPc, Goto
          <5> QED BY <5>1
        <4> QED BY <2>6, <4>1, <4>2 DEF AppendNext
      <3>3. todo' = [todo EXCEPT ![t] = Tail(h)] /\ UNCHANGED steerBuf
        BY <2>6 DEF AppendNext
      <3>4. state \in {"fold", "flush"} => Talk(h)
        BY <3>2 DEF Talks
      <3> HIDE DEF h
      <3>5. state \in {"fold", "flush"} => Talk(Tail(h))
        BY <3>1, <3>4, TalkFacts
      <3> QED BY <2>2, <3>2, <3>3, <3>5
    <2>7. CASE Drain(t) \/ EndTurn(t) \/ EndHook(t)
      <3>1. CASE todo' = [todo EXCEPT ![t] = steerBuf] /\ steerBuf' = <<>>
                 /\ (Goto(t, "fold") \/ Goto(t, "flush"))
        BY <2>2, <3>1 DEF Talks
      <3>2. CASE /\ UNCHANGED todo /\ steerBuf' \in {steerBuf, <<>>}
                 /\ \E state \in {"llm", "pad", "done"} : Goto(t, state)
        BY <2>3, <3>2
      <3> QED BY <2>7, <3>1, <3>2 DEF Drain, EndTurn, EndHook
    <2> QED BY <2>1, <2>4, <2>5, <2>6, <2>7 DEF TurnStep
  <1>4. CASE Crash
    <2>1. steerBuf' = <<>> /\ \A t \in Turns : pc'[t] \notin {"fold", "flush"}
      BY <1>4 DEF Crash, Actors
    <2> QED BY <2>1, NothingPaired DEF Talks
  <1>5. CASE UNCHANGED vars
    BY <1>5 DEF vars, sessionVars, turnVars, Talks
  <1> QED BY <1>1, <1>2, <1>3, <1>4, <1>5 DEF Next, AtRest

\* A turn that moves has asked for what it moves past.
Forward(t) ==
  /\ \A u \in Turns \ {t} : pc'[u] = pc[u] /\ iter'[u] = iter[u] /\ todo'[u] = todo[u]
  /\ \/ pc[t] \in Early
     \/ /\ pc'[t] \notin Early
        /\ pc'[t] \in Looping => pc[t] \in Looping /\ iter[t] <= iter'[t]
        /\ pc'[t] = "hook" => pc[t] = "hook" /\ Len(todo'[t]) <= Len(todo[t])

LEMMA PastMoves ==
  ASSUME WellTyped, WellTyped', NEW t \in Turns, Forward(t),
         NEW S \in SUBSET Call, Past(S, pc, iter, todo)
  PROVE  Past(S, pc', iter', todo')
  <1> SUFFICES ASSUME NEW c \in S
               PROVE  /\ pc'[c.turn] \notin Early
                      /\ pc'[c.turn] \in Looping => c.iter < iter'[c.turn]
                      /\ pc'[c.turn] = "hook" => Len(todo'[c.turn]) < 3
    BY DEF Past
  <1>1. /\ pc[c.turn] \notin Early
        /\ pc[c.turn] \in Looping => c.iter < iter[c.turn]
        /\ pc[c.turn] = "hook" => Len(todo[c.turn]) < 3
    BY DEF Past
  <1>2. c.turn \in Turns /\ c.iter \in 0..MaxIterations
    BY DEF Call
  <1>3. CASE c.turn # t
    BY <1>1, <1>2, <1>3 DEF Forward
  <1>4. CASE c.turn = t
    <2>1. /\ pc'[t] \notin Early
          /\ pc'[t] \in Looping => pc[t] \in Looping /\ iter[t] <= iter'[t]
          /\ pc'[t] = "hook" => pc[t] = "hook" /\ Len(todo'[t]) <= Len(todo[t])
      BY <1>1, <1>4 DEF Forward
    <2>2. iter[t] \in 0..MaxIterations /\ iter'[t] \in 0..MaxIterations
          /\ todo[t] \in Histories /\ todo'[t] \in Histories
      BY DEF WellTyped, TurnsTyped
    <2>3. Len(todo[t]) \in Nat /\ Len(todo'[t]) \in Nat
      BY <2>2, HistoryFacts
    <2> DEFINE old == Len(todo[t])
               new == Len(todo'[t])
               made == iter[t]
               makes == iter'[t]
    <2>4. pc'[t] \in Looping => c.iter < makes
      <3> SUFFICES ASSUME pc'[t] \in Looping PROVE c.iter < makes
        OBVIOUS
      <3>1. c.iter < made /\ made <= makes
        BY <1>1, <1>4, <2>1
      <3>2. made \in Int /\ makes \in Int /\ c.iter \in Int
        BY <1>2, <2>2, SessionAssumption
      <3> HIDE DEF made, makes
      <3> QED BY <3>1, <3>2
    <2>5. pc'[t] = "hook" => new < 3
      <3> SUFFICES ASSUME pc'[t] = "hook" PROVE new < 3
        OBVIOUS
      <3>1. old < 3 /\ new <= old
        BY <1>1, <1>4, <2>1
      <3>2. old \in Nat /\ new \in Nat
        BY <2>3
      <3> HIDE DEF old, new
      <3> QED BY <3>1, <3>2
    <2> QED BY <1>4, <2>1, <2>4, <2>5
  <1> QED BY <1>3, <1>4

LEMMA AskedCalls ==
  ASSUME NEW h \in Histories, Ordered(h)
  PROVE  Asked(h) \in SUBSET Call
  BY AnsweredAsked DEF Ordered

\* A step of the turn in flight.
LEMMA FlightStep ==
  ASSUME WellTyped, WellTyped', Orderly, NEW t \in Turns, pc[t] \in InFlight, Forward(t),
         row' \in {row, msgs'}, Ordered(msgs'), Past(Asked(msgs'), pc', iter', todo'),
         IF pc'[t] \in InFlight THEN Turning(t)' ELSE Open(msgs') = {}
  PROVE  Orderly'
  <1>1. \A u \in Turns \ {t} : pc[u] \notin InFlight /\ pc'[u] = pc[u]
    BY DEF Orderly, Flying, Forward
  <1>2. Flying' = IF pc'[t] \in InFlight THEN {t} ELSE {}
    BY <1>1 DEF Flying
  <1>3. row \in Histories
    BY DEF WellTyped, SavedTyped
  <1>4. Ordered(row) /\ Past(Asked(row), pc', iter', todo')
    <2>1. Ordered(row) /\ Past(Asked(row), pc, iter, todo)
      BY DEF Orderly
    <2>2. Asked(row) \in SUBSET Call
      BY <1>3, <2>1, AskedCalls
    <2> QED BY <2>1, <2>2, PastMoves
  <1>5. Ordered(row') /\ Past(Asked(row'), pc', iter', todo')
    BY <1>4
  <1>6. loaded' /\ Flying' = {} => Open(msgs') = {}
    BY <1>2
  <1>7. \A u \in Flying' : Turning(u)'
    BY <1>2
  <1>8. \A u, v \in Flying' : u = v
    BY <1>2
  <1> QED BY <1>5, <1>6, <1>7, <1>8 DEF Orderly

\* What is open stays open, and nothing is asked for.
Quiet ==
  /\ Ordered(msgs') /\ Asked(msgs') = Asked(msgs) /\ Open(msgs') = Open(msgs)
  /\ row' \in {row, msgs'}

LEMMA QuietFlight ==
  ASSUME WellTyped, WellTyped', Orderly, NEW t \in Turns, pc[t] \in InFlight, Forward(t), Quiet,
         IF pc'[t] \in InFlight THEN Turning(t)' ELSE Open(msgs) = {}
  PROVE  Orderly'
  <1>1. Ordered(msgs) /\ Past(Asked(msgs), pc, iter, todo) /\ msgs \in Histories
    BY DEF Orderly, WellTyped, SavedTyped
  <1>2. Asked(msgs) \in SUBSET Call
    BY <1>1, AskedCalls
  <1>3. Past(Asked(msgs), pc', iter', todo')
    BY <1>1, <1>2, PastMoves
  <1>4. Ordered(msgs') /\ Past(Asked(msgs'), pc', iter', todo') /\ Open(msgs') = Open(msgs)
        /\ row' \in {row, msgs'}
    BY <1>3 DEF Quiet
  <1> QED BY <1>4, FlightStep

\* A step of an actor that has no turn in flight before it or after it.
LEMMA BesideStep ==
  ASSUME WellTyped, WellTyped', Orderly, UNCHANGED <<loaded, iter>>, NEW a \in Actors, Quiet,
         \A b \in Actors \ {a} : pc'[b] = pc[b],
         \A u \in Turns \ {a} : todo'[u] = todo[u],
         a \in Turns => /\ pc[a] \notin InFlight /\ pc'[a] \notin InFlight
                        /\ pc[a] \in Early \/ pc'[a] \notin Early \union Looping
  PROVE  Orderly'
  <1>0. "hook" \in InFlight /\ Turns \subseteq Actors
    BY DEF InFlight, Actors
  <1>1. Flying' = Flying
    BY <1>0 DEF Flying
  <1>2. ASSUME NEW S \in SUBSET Call, Past(S, pc, iter, todo)
        PROVE  Past(S, pc', iter', todo')
    <2> SUFFICES ASSUME NEW c \in S
                 PROVE  /\ pc'[c.turn] \notin Early
                        /\ pc'[c.turn] \in Looping => c.iter < iter'[c.turn]
                        /\ pc'[c.turn] = "hook" => Len(todo'[c.turn]) < 3
      BY DEF Past
    <2>1. /\ pc[c.turn] \notin Early
          /\ pc[c.turn] \in Looping => c.iter < iter[c.turn]
          /\ pc[c.turn] = "hook" => Len(todo[c.turn]) < 3
      BY <1>2 DEF Past
    <2>2. c.turn \in Turns
      BY DEF Call
    <2>3. CASE c.turn = a
      BY <1>0, <2>1, <2>2, <2>3
    <2>4. CASE c.turn # a
      BY <1>0, <2>1, <2>2, <2>4
    <2> QED BY <2>3, <2>4
  <1>3. /\ Ordered(row) /\ Past(Asked(row), pc, iter, todo) /\ row \in Histories
        /\ Ordered(msgs) /\ Past(Asked(msgs), pc, iter, todo) /\ msgs \in Histories
    BY DEF Orderly, WellTyped, SavedTyped
  <1>4. Past(Asked(row), pc', iter', todo') /\ Past(Asked(msgs), pc', iter', todo')
    BY <1>2, <1>3, AskedCalls
  <1>5. /\ Ordered(msgs') /\ Past(Asked(msgs'), pc', iter', todo')
        /\ Ordered(row') /\ Past(Asked(row'), pc', iter', todo')
    BY <1>3, <1>4 DEF Quiet
  <1>6. loaded' /\ Flying' = {} => Open(msgs') = {}
    BY <1>1 DEF Orderly, Quiet
  <1>7. ASSUME NEW u \in Flying PROVE Turning(u)'
    <2>1. Turning(u) /\ u \in Turns /\ u # a
      BY DEF Orderly, Flying
    <2>2. pc'[u] = pc[u] /\ todo'[u] = todo[u] /\ iter'[u] = iter[u] /\ Open(msgs') = Open(msgs)
      BY <1>0, <2>1 DEF Quiet
    <2> QED BY <2>1, <2>2 DEF Turning, Hooked, CallOf
  <1> QED BY <1>1, <1>5, <1>6, <1>7 DEF Orderly

\* Nobody is in flight after the step: the process was loaded, or has died.
LEMMA GroundedStep ==
  ASSUME Flying' = {}, Ordered(msgs'), Ordered(row'), loaded' => Open(msgs') = {},
         Past(Asked(msgs'), pc', iter', todo'), Past(Asked(row'), pc', iter', todo')
  PROVE  Orderly'
  BY DEF Orderly

LEMMA GetPairs ==
  ASSUME WellTyped, WellTyped', Kept, Pairs, NEW a \in Actors, Get(a), ~reloaded', ~overlapped'
  PROVE  Orderly'
  <1>t. msgs \in Histories /\ row \in Histories /\ PcTyped /\ Turns \subseteq Actors
    BY DEF WellTyped, SavedTyped, Actors
  <1>1. PICK state \in {"fetched", "got", "dead"} : Goto(a, state)
    BY DEF Get, Fetch, Install, Load, LoadNothing, DieLoading
  <1>2. pc'[a] = state /\ \A b \in Actors \ {a} : pc'[b] = pc[b]
    BY <1>t, <1>1 DEF PcTyped, IsPc, Goto
  <1>3. pc[a] \in {"new", "fetched"} /\ UNCHANGED <<iter, todo, overlapped>>
    BY DEF Get, Fetch, Install, Load, LoadNothing, DieLoading, history
  <1>4. Orderly
    <2>1. reloaded => reloaded'
      BY Zenon DEF Get, Fetch, Install, Load, LoadNothing, DieLoading, history
    <2> QED BY <1>3, <2>1 DEF Pairs
  <1>5. pc[a] \in Early /\ pc[a] \notin InFlight /\ pc'[a] \notin InFlight
    BY <1>2, <1>3 DEF Early, InFlight
  <1>6. CASE UNCHANGED <<loaded, msgs, row>>
    <2>1. Quiet
      BY <1>4, <1>6 DEF Quiet, Orderly
    <2> QED BY <1>2, <1>3, <1>4, <1>5, <1>6, <2>1, BesideStep
  <1>7. CASE Fetch(a)
    BY <1>6, <1>7 DEF Fetch
  <1>8. CASE Install(a)
    BY <1>6, <1>8 DEF Install
  <1>9. ASSUME ~loaded, UNCHANGED msgs \/ msgs' = row', Ordered(row'), Asked(row') = Asked(row),
               loaded' => Open(msgs') = {}
        PROVE  Orderly'
    <2>1. msgs = <<>> /\ \A b \in Actors : pc[b] \in Idle
      BY <1>9 DEF Kept
    <2>2. Flying' = {}
      BY <1>t, <1>2, <1>5, <2>1 DEF Flying, Idle, InFlight
    <2>3. ASSUME NEW S \in SUBSET Call, Past(S, pc, iter, todo)
          PROVE  Past(S, pc', iter', todo')
      <3> SUFFICES ASSUME NEW c \in S
                   PROVE  pc'[c.turn] \notin Early /\ pc'[c.turn] \notin Looping
                          /\ pc'[c.turn] # "hook"
        BY DEF Past
      <3>1. c.turn \in Turns /\ pc[c.turn] \notin Early
        BY <2>3 DEF Past, Call
      <3>2. c.turn # a
        BY <1>5, <3>1
      <3> QED BY <1>t, <1>2, <2>1, <3>1, <3>2 DEF Idle, Looping
    <2>4. Ordered(row) /\ Past(Asked(row), pc, iter, todo)
      BY <1>4 DEF Orderly
    <2>5. Past(Asked(row'), pc', iter', todo')
      BY <1>t, <1>9, <2>3, <2>4, AskedCalls
    <2>6. Ordered(<<>>) /\ Past(Asked(<<>>), pc', iter', todo')
      BY NothingPaired DEF Ordered, Past
    <2>7. Ordered(msgs') /\ Past(Asked(msgs'), pc', iter', todo')
      BY <1>9, <2>1, <2>5, <2>6
    <2> QED BY <1>9, <2>2, <2>5, <2>7, GroundedStep
  <1>10. CASE Load(a)
    <2>1. Paired(row) /\ OpenLast(row)
      BY <1>4 DEF Orderly, Ordered
    <2>2. Paired(Healed(row)) /\ OpenLast(Healed(row)) /\ Open(Healed(row)) = {}
          /\ Asked(Healed(row)) = Asked(row)
      BY <1>t, <2>1, HealedPairs
    <2> QED BY <1>9, <1>10, <2>2 DEF Load, Ordered
  <1>11. CASE LoadNothing(a)
    <2>1. UNCHANGED <<msgs, row>> /\ ~loaded
      BY <1>11 DEF LoadNothing
    <2>2. msgs = <<>>
      BY <2>1 DEF Kept
    <2> QED BY <1>4, <1>9, <2>1, <2>2, NothingPaired DEF Orderly
  <1>12. CASE DieLoading(a)
    <2>1. Paired(row) /\ OpenLast(row)
      BY <1>4 DEF Orderly, Ordered
    <2>2. PICK n \in Len(row)..Len(Healed(row)) : row' = SubSeq(Healed(row), 1, n)
      BY <1>12 DEF DieLoading
    <2>3. Paired(row') /\ OpenLast(row') /\ Asked(row') = Asked(row)
      BY <1>t, <2>1, <2>2, HealedPairs
    <2> QED BY <1>9, <1>12, <2>3 DEF DieLoading, Ordered
  <1> QED BY <1>7, <1>8, <1>10, <1>11, <1>12 DEF Get

\* Messages beside the turns are said, and no more.
LEMMA SaidQuietly ==
  ASSUME WellTyped, Orderly, NEW m \in Fine, Plain(m), Save(Append(msgs, m))
  PROVE  Quiet
  <1>1. msgs \in Histories /\ Paired(msgs) /\ OpenLast(msgs)
    BY DEF WellTyped, SavedTyped, Orderly, Ordered
  <1>2. /\ Paired(Append(msgs, m)) /\ OpenLast(Append(msgs, m))
        /\ Asked(Append(msgs, m)) = Asked(msgs) /\ Open(Append(msgs, m)) = Open(msgs)
    BY <1>1, TalkOn DEF Plain
  <1> QED BY <1>2 DEF Save, Quiet, Ordered

LEMMA MessagePairs ==
  ASSUME WellTyped, WellTyped', Pairs, NEW m \in Messages, PushSteer(m) \/ Inject(m),
         ~reloaded', ~overlapped'
  PROVE  Orderly'
  <1>t. /\ msgs \in Histories /\ PcTyped /\ m \in Actors /\ m \notin Turns
        /\ Said(m) \in Fine /\ Plain(Said(m))
    BY SessionAssumption, MessageFacts DEF WellTyped, SavedTyped, Actors, Said, Plain
  <1>1. PICK state : Goto(m, state)
    BY DEF PushSteer, Inject
  <1>2. \A b \in Actors \ {m} : pc'[b] = pc[b]
    BY <1>t, <1>1 DEF PcTyped, IsPc, Goto
  <1>3. UNCHANGED <<loaded, iter, todo, reloaded, overlapped>>
    BY DEF PushSteer, Inject, history
  <1>4. Orderly
    BY <1>3 DEF Pairs
  <1>5. Quiet
    <2>1. CASE PushSteer(m)
      BY <1>4, <2>1 DEF PushSteer, Quiet, Orderly
    <2>2. CASE Inject(m)
      BY <1>t, <1>4, <2>2, SaidQuietly DEF Inject
    <2> QED BY <2>1, <2>2
  <1> QED BY <1>t, <1>2, <1>3, <1>4, <1>5, BesideStep

LEMMA CrashPairs ==
  ASSUME WellTyped, Pairs, Crash, ~reloaded', ~overlapped'
  PROVE  Orderly'
  <1>1. /\ ~loaded' /\ msgs' = <<>> /\ UNCHANGED <<row, reloaded, overlapped>>
        /\ \A a \in Actors : pc'[a] \in {"new", "skipped", "done", "accepted", "refused", "noted", "dead"}
        /\ \A a \in Actors : pc'[a] = "new" => pc[a] = "new"
    BY DEF Crash
  <1>2. Orderly
    BY <1>1 DEF Pairs
  <1>3. Flying' = {}
    BY <1>1 DEF Flying, Actors, InFlight
  <1>4. Ordered(row) /\ Past(Asked(row), pc, iter, todo) /\ row \in Histories
    BY <1>2 DEF Orderly, WellTyped, SavedTyped
  <1>5. Past(Asked(row), pc', iter', todo')
    <2> SUFFICES ASSUME NEW c \in Asked(row)
                 PROVE  pc'[c.turn] \notin Early /\ pc'[c.turn] \notin Looping
                        /\ pc'[c.turn] # "hook"
      BY DEF Past
    <2>1. Asked(row) \in SUBSET Call
      BY <1>4, AskedCalls
    <2>2. c.turn \in Actors /\ pc[c.turn] \notin Early
      BY <1>4, <2>1 DEF Past, Call, Actors
    <2> QED BY <1>1, <2>2 DEF Early, Looping
  <1>6. Ordered(<<>>) /\ Past(Asked(<<>>), pc', iter', todo')
    BY NothingPaired DEF Ordered, Past
  <1> QED BY <1>1, <1>3, <1>4, <1>5, <1>6, GroundedStep
----------------------------------------------------------------------------
(* The steps of a turn, with no other one in flight. *)

\* A turn moves, and changes nothing of the others.
LEMMA MovesForward ==
  ASSUME WellTyped, NEW t \in Turns, NEW state, Goto(t, state),
         \A u \in Turns \ {t} : iter'[u] = iter[u] /\ todo'[u] = todo[u],
         \/ pc[t] \in Early
         \/ /\ state \notin Early \union {"hook"}
            /\ state \in Looping => pc[t] \in Looping /\ iter[t] <= iter'[t]
  PROVE  Forward(t) /\ pc'[t] = state
  <1>1. pc'[t] = state /\ \A u \in Actors \ {t} : pc'[u] = pc[u]
    BY TurnGoes DEF WellTyped
  <1> QED BY <1>1 DEF Forward, Actors

\* It says something at most, and needs nothing to be open where it goes.
LEMMA QuietTurn ==
  ASSUME WellTyped, WellTyped', Orderly, NEW t \in Turns, pc[t] \in InFlight, Forward(t), Quiet,
         pc'[t] \notin {"results", "parked", "padding", "hook"},
         \/ Open(msgs) = {}
         \/ pc'[t] = "pad"
         \/ pc'[t] \in {"llm", "fold"} /\ iter'[t] = MaxIterations
  PROVE  Orderly'
  <1>1. Open(msgs') = Open(msgs)
    BY DEF Quiet
  <1>2. pc'[t] \notin InFlight => Open(msgs) = {}
    BY DEF InFlight
  <1>3. Turning(t)'
    BY <1>1 DEF Turning
  <1> QED BY <1>2, <1>3, QuietFlight

\* It asks for calls that it has not asked for.
LEMMA Asks ==
  ASSUME WellTyped, WellTyped', Orderly, NEW t \in Turns, Forward(t), Open(msgs) = {},
         NEW cs \in SUBSET Call, Calls(cs) \in Fine, cs \intersect Asked(msgs) = {},
         Save(Append(msgs, Calls(cs))), pc'[t] \notin Early,
         \A c \in cs : /\ c.turn = t
                       /\ pc'[t] \in Looping => c.iter < iter'[t]
                       /\ pc'[t] = "hook" => Len(todo'[t]) < 3
  PROVE  /\ Ordered(msgs') /\ Past(Asked(msgs'), pc', iter', todo') /\ Open(msgs') = cs
         /\ row' \in {row, msgs'}
  <1>1. Ordered(msgs) /\ Past(Asked(msgs), pc, iter, todo) /\ msgs \in Histories
    BY DEF Orderly, WellTyped, SavedTyped
  <1>2. Past(Asked(msgs), pc', iter', todo')
    BY <1>1, AskedCalls, PastMoves
  <1>3. msgs' = Append(msgs, Calls(cs)) /\ row' \in {row, msgs'}
    BY DEF Save
  <1>4. Ordered(msgs') /\ Asked(msgs') = Asked(msgs) \union cs /\ Open(msgs') = cs
    <2>1. LET long == Append(msgs, Calls(cs))
          IN  Paired(long) /\ OpenLast(long) /\ Asked(long) = Asked(msgs) \union cs /\ Open(long) = cs
      BY <1>1, AskOn DEF Ordered
    <2> QED BY <1>3, <2>1 DEF Ordered
  <1>5. Past(Asked(msgs) \union cs, pc', iter', todo')
    BY <1>2 DEF Past
  <1> QED BY <1>3, <1>4, <1>5

\* The calls of the model's next answer are new.
LEMMA AnswerIsNew ==
  ASSUME WellTyped, Orderly, NEW t \in Turns, MayCall(t), NEW n \in 1..MaxCalls
  PROVE  LET cs == {CallOf(t, p) : p \in 1..n}
         IN  /\ Open(msgs) = {} /\ cs \in SUBSET Call /\ Calls(cs) \in Fine
             /\ cs \intersect Asked(msgs) = {}
             /\ \A c \in cs : c.turn = t /\ c.iter = iter[t]
  <1> DEFINE cs == {CallOf(t, p) : p \in 1..n}
  <1>1. iter[t] \in Nat /\ MaxIterations \in Nat /\ iter[t] < MaxIterations /\ pc[t] = "llm"
    BY SessionAssumption DEF MayCall, WellTyped, TurnsTyped
  <1>2. Open(msgs) = {}
    <2>1. t \in Flying
      BY <1>1 DEF Flying, InFlight
    <2> QED BY <1>1, <2>1 DEF Orderly, Turning
  <1>3. cs \in SUBSET Call /\ Calls(cs) \in Fine
    BY AnswerFacts DEF WellTyped
  <1>4. \A c \in cs : c.turn = t /\ c.iter = iter[t]
    BY DEF CallOf
  <1>5. ASSUME NEW c \in Asked(msgs), c.turn = t PROVE c.iter < iter[t]
    BY <1>1, <1>5 DEF Orderly, Past, Looping
  <1> HIDE DEF cs
  <1>6. cs \intersect Asked(msgs) = {}
    <2> SUFFICES ASSUME NEW c \in cs, c \in Asked(msgs) PROVE FALSE
      OBVIOUS
    <2>1. c.iter = iter[t] /\ c.iter < iter[t]
      BY <1>4, <1>5
    <2> QED BY <1>1, <2>1
  <1> QED BY <1>2, <1>3, <1>4, <1>6 DEF cs

LEMMA CallsPairs ==
  ASSUME WellTyped, WellTyped', Orderly, NEW t \in Turns, CallTools(t) \/ CallInLoop(t)
  PROVE  Orderly'
  <1>t. /\ iter \in [Turns -> 0..MaxIterations] /\ todo \in [Turns -> Histories]
        /\ iter[t] \in Nat /\ MaxIterations \in Nat
    BY SessionAssumption DEF WellTyped, TurnsTyped
  <1>m. MayCall(t) /\ pc[t] = "llm" /\ iter[t] < MaxIterations /\ pc[t] \in InFlight /\ pc[t] \in Looping
    BY DEF CallTools, CallInLoop, MayCall, InFlight, Looping
  <1>1. CASE CallTools(t)
    <2>1. PICK n \in 1..MaxCalls :
            /\ Save(Append(msgs, Calls({CallOf(t, p) : p \in 1..n})))
            /\ \E order \in ResultOrders(n) :
                 todo' = [todo EXCEPT ![t] = [p \in 1..n |-> Tool(CallOf(t, p), CallOf(t, order[p]))]]
      BY <1>1 DEF CallTools
    <2>2. PICK order \in ResultOrders(n) :
            todo' = [todo EXCEPT ![t] = [p \in 1..n |-> Tool(CallOf(t, p), CallOf(t, order[p]))]]
      BY <2>1
    <2>3. PICK state \in {"results", "parked"} : Goto(t, state)
      BY <1>1 DEF CallTools
    <2>4. iter' = [iter EXCEPT ![t] = iter[t] + 1]
      BY <1>1 DEF CallTools
    <2> DEFINE cs == {CallOf(t, p) : p \in 1..n}
               results == [p \in 1..n |-> Tool(CallOf(t, p), CallOf(t, order[p]))]
    <2>5. /\ results \in Histories /\ Len(results) = n /\ n \in Nat
          /\ \A p \in 1..n : results[p].kind = "tool" /\ results[p].call = CallOf(t, p)
      BY AnswerFacts DEF WellTyped, Tool
    <2>6. Results(results) /\ Answered(results) = cs
      <3>1. \A p \in 1..n : CallOf(t, p).pos = p
        BY DEF CallOf
      <3> HIDE DEF results
      <3>2. Results(results)
        BY <2>5, <3>1 DEF Results
      <3>3. Kinds(results, "tool") = 1..n
        BY <2>5, HistoryFacts
      <3>4. Answered(results) = {results[p].call : p \in 1..n}
        BY <3>3 DEF Answered
      <3>5. {results[p].call : p \in 1..n} = {CallOf(t, p) : p \in 1..n}
        BY <2>5
      <3> QED BY <3>2, <3>4, <3>5
    <2>7. todo' = [todo EXCEPT ![t] = results]
      BY <2>2
    <2>8. /\ Open(msgs) = {} /\ cs \in SUBSET Call /\ Calls(cs) \in Fine
          /\ cs \intersect Asked(msgs) = {}
          /\ \A c \in cs : c.turn = t /\ c.iter = iter[t]
      BY <1>m, AnswerIsNew
    <2>9. Save(Append(msgs, Calls(cs)))
      BY <2>1
    <2> HIDE DEF cs, results
    <2>10. /\ iter'[t] = iter[t] + 1 /\ todo'[t] = results
           /\ \A u \in Turns \ {t} : iter'[u] = iter[u] /\ todo'[u] = todo[u]
      BY <1>t, <2>4, <2>7
    <2>11. iter[t] <= iter'[t] /\ \A c \in cs : c.iter < iter'[t]
      BY <1>t, <2>8, <2>10
    <2>12. state \in Looping /\ state \notin Early \union {"hook"} /\ state \in InFlight
      BY <2>3 DEF Looping, Early, InFlight
    <2>13. Forward(t) /\ pc'[t] = state
      BY <1>m, <2>3, <2>10, <2>11, <2>12, MovesForward
    <2>14. /\ Ordered(msgs') /\ Past(Asked(msgs'), pc', iter', todo') /\ Open(msgs') = cs
           /\ row' \in {row, msgs'}
      BY <2>8, <2>9, <2>11, <2>12, <2>13, Asks
    <2>15. Turning(t)'
      BY <2>3, <2>6, <2>10, <2>13, <2>14 DEF Turning
    <2> QED BY <1>m, <2>12, <2>13, <2>14, <2>15, FlightStep
  <1>2. CASE CallInLoop(t)
    <2>1. PICK n \in 1..MaxCalls : Save(Append(msgs, Calls({CallOf(t, p) : p \in 1..n})))
      BY <1>2 DEF CallInLoop
    <2> DEFINE cs == {CallOf(t, p) : p \in 1..n}
    <2>2. /\ Open(msgs) = {} /\ cs \in SUBSET Call /\ Calls(cs) \in Fine
          /\ cs \intersect Asked(msgs) = {}
          /\ \A c \in cs : c.turn = t /\ c.iter = iter[t]
      BY <1>m, AnswerIsNew
    <2>3. Save(Append(msgs, Calls(cs)))
      BY <2>1
    <2> HIDE DEF cs
    <2>4. /\ iter'[t] = MaxIterations /\ Goto(t, "fold")
          /\ \A u \in Turns \ {t} : iter'[u] = iter[u] /\ todo'[u] = todo[u]
      BY <1>2, <1>t DEF CallInLoop
    <2>5. iter[t] <= iter'[t] /\ \A c \in cs : c.iter < iter'[t]
      BY <1>t, <1>m, <2>2, <2>4
    <2>6. Forward(t) /\ pc'[t] = "fold"
      BY <1>m, <2>4, <2>5, MovesForward DEF Early
    <2>7. /\ Ordered(msgs') /\ Past(Asked(msgs'), pc', iter', todo') /\ Open(msgs') = cs
          /\ row' \in {row, msgs'}
      BY <2>2, <2>3, <2>5, <2>6, Asks DEF Early
    <2>8. Turning(t)'
      BY <2>4, <2>6 DEF Turning
    <2>9. pc'[t] \in InFlight
      BY <2>6 DEF InFlight
    <2> QED BY <1>m, <2>6, <2>7, <2>8, <2>9, FlightStep
  <1> QED BY <1>1, <1>2

\* What is left of results to append.
LEMMA ResultsLeft ==
  ASSUME NEW h \in Histories, h # <<>>, Results(h)
  PROVE  /\ Head(h) \in Fine /\ Head(h).kind = "tool" /\ Head(h).call \in Answered(h)
         /\ Tail(h) \in Histories /\ Results(Tail(h))
         /\ Answered(Tail(h)) = Answered(h) \ {Head(h).call}
  <1> DEFINE rest == Tail(h)
             n == Len(h)
  <1>1. /\ Head(h) \in Fine /\ Head(h) = h[1] /\ n \in Nat \ {0} /\ rest \in Histories
        /\ Len(rest) = n - 1 /\ \A i \in 1..Len(rest) : rest[i] = h[i + 1]
    BY HeadTailProperties, EmptySeq DEF Histories
  <1> HIDE DEF rest, n
  <1>2. \A i \in 1..n - 1 : rest[i] = h[i + 1] /\ i + 1 \in 1..n
    BY <1>1
  <1>3. /\ \A i \in 1..n : h[i].kind = "tool"
        /\ \A i, k \in 1..n : h[i].call = h[k].call => i = k
    BY DEF Results, n
  <1>4. Kinds(h, "tool") = 1..n /\ Kinds(rest, "tool") = 1..n - 1
    <2>1. Kinds(h, "tool") = {i \in 1..n : h[i].kind = "tool"}
      BY HistoryFacts DEF n
    <2>2. Kinds(rest, "tool") = {i \in 1..n - 1 : rest[i].kind = "tool"}
      BY <1>1, HistoryFacts
    <2>3. \A i \in 1..n - 1 : rest[i].kind = "tool"
      BY <1>2, <1>3
    <2> QED BY <1>3, <2>1, <2>2, <2>3
  <1>5. 1 \in 1..n /\ Head(h).kind = "tool" /\ Head(h).call \in Answered(h)
    BY <1>1, <1>3, <1>4 DEF Answered
  <1>6. Results(rest)
    <2>1. \A i \in 1..Len(rest) : rest[i].kind = "tool"
      BY <1>1, <1>2, <1>3
    <2>2. ASSUME NEW i \in 1..Len(rest), NEW k \in 1..Len(rest), rest[i].call = rest[k].call
          PROVE  i = k
      <3>1. i + 1 = k + 1
        BY <1>1, <1>2, <1>3, <2>2
      <3> QED BY <3>1
    <2> QED BY <2>1, <2>2 DEF Results
  <1>7. Answered(rest) = Answered(h) \ {Head(h).call}
    <2>1. ASSUME NEW i \in 1..n - 1 PROVE rest[i].call \in Answered(h) /\ rest[i].call # h[1].call
      <3>1. i + 1 \in 1..n /\ i + 1 # 1 /\ rest[i] = h[i + 1]
        BY <1>2
      <3> QED BY <1>3, <1>4, <1>5, <3>1 DEF Answered
    <2>2. ASSUME NEW k \in 1..n, k # 1 PROVE h[k].call \in Answered(rest)
      <3>1. k - 1 \in 1..n - 1 /\ k - 1 + 1 = k
        BY <1>1, <2>2
      <3>2. rest[k - 1] = h[k]
        BY <1>2, <3>1
      <3> QED BY <1>4, <3>1, <3>2 DEF Answered
    <2>3. Answered(rest) \subseteq Answered(h) \ {h[1].call}
      BY <1>4, <2>1 DEF Answered
    <2>4. Answered(h) \ {h[1].call} \subseteq Answered(rest)
      BY <1>4, <2>2 DEF Answered
    <2> QED BY <1>1, <2>3, <2>4
  <1> QED BY <1>1, <1>5, <1>6, <1>7 DEF rest

LEMMA ExchangeFacts ==
  ASSUME NEW c \in Call
  PROVE  LET whole == Exchange(c)
         IN  /\ whole \in Histories /\ Len(whole) = 3 /\ Head(whole) = Calls({c})
             /\ Len(Tail(whole)) = 2 /\ Head(Tail(whole)) = Tool(c, c)
             /\ Len(Tail(Tail(whole))) = 1 /\ Head(Tail(Tail(whole))) = Text
             /\ Calls({c}) \in Fine /\ Tool(c, c) \in Fine /\ Text \in Fine
  <1>1. Calls({c}) \in Fine /\ Tool(c, c) \in Fine /\ Text \in Fine
    BY MessageFacts
  <1> DEFINE x == Calls({c})
             y == Tool(c, c)
             z == Text
  <1> HIDE DEF x, y, z
  <1>2. x \in Fine /\ y \in Fine /\ z \in Fine
    BY <1>1 DEF x, y, z
  <1>3. /\ <<x, y, z>> \in Seq(Fine) /\ Len(<<x, y, z>>) = 3 /\ Head(<<x, y, z>>) = x
        /\ Tail(<<x, y, z>>) = <<y, z>> /\ Tail(<<y, z>>) = <<z>>
        /\ Len(<<y, z>>) = 2 /\ Head(<<y, z>>) = y /\ Len(<<z>>) = 1 /\ Head(<<z>>) = z
    BY <1>2
  <1>4. Exchange(c) = <<x, y, z>>
    BY DEF Exchange, x, y, z
  <1> QED BY <1>1, <1>3, <1>4 DEF Histories, x, y, z

\* The next message of those that a turn is about to append.
LEMMA AppendPairs ==
  ASSUME WellTyped, WellTyped', Pairs, Orderly, NEW t \in Turns, AppendNext(t)
  PROVE  Orderly'
  <1> DEFINE h == todo[t]
             m == Head(h)
             rest == Tail(h)
             state == IF Len(h) = 1 THEN After(pc[t]) ELSE pc[t]
  <1>1. /\ PcTyped /\ IsPc /\ todo \in [Turns -> Histories] /\ iter \in [Turns -> 0..MaxIterations]
        /\ h \in Histories /\ msgs \in Histories /\ h # <<>> /\ pc[t] \in Appending
    BY DEF WellTyped, SavedTyped, TurnsTyped, AppendNext, PcTyped
  <1>2. /\ Save(Append(msgs, m)) /\ UNCHANGED <<iter, loaded>>
        /\ todo' = [todo EXCEPT ![t] = rest]
    BY DEF AppendNext
  <1>3. Goto(t, state)
    <2>1. CASE Len(h) = 1
      BY <2>1 DEF AppendNext
    <2>2. CASE Len(h) # 1
      BY <1>1, <2>2 DEF AppendNext, IsPc, Goto
    <2> QED BY <2>1, <2>2
  <1>4. /\ m \in Fine /\ rest \in Histories /\ Len(rest) = Len(h) - 1
        /\ Len(h) \in Nat \ {0} /\ Len(rest) \in Nat
    <2>1. m \in Fine /\ rest \in Histories /\ Len(rest) = Len(h) - 1
      BY <1>1, HeadTailProperties DEF Histories
    <2>2. Len(h) \in Nat /\ Len(rest) \in Nat /\ Len(h) # 0
      BY <1>1, <2>1, HistoryFacts, EmptySeq DEF Histories
    <2> QED BY <2>1, <2>2
  <1>5. /\ todo'[t] = rest /\ iter'[t] = iter[t]
        /\ \A u \in Turns \ {t} : iter'[u] = iter[u] /\ todo'[u] = todo[u]
    BY <1>1, <1>2
  <1>6. pc'[t] = state /\ \A u \in Actors \ {t} : pc'[u] = pc[u]
    BY <1>1, <1>3, TurnGoes
  <1>7. msgs' = Append(msgs, m) /\ row' \in {row, msgs'}
    BY <1>2 DEF Save
  <1>o. Paired(msgs) /\ OpenLast(msgs) /\ Past(Asked(msgs), pc, iter, todo)
        /\ (pc[t] \in InFlight => Turning(t))
    BY DEF Orderly, Ordered, Flying
  <1> HIDE DEF h, m, rest, state
  <1>e. Len(h) = 1 => rest = <<>>
    <2>1. Len(h) = 1 => Len(rest) = 0
      BY <1>4
    <2> QED BY <1>4, <2>1, EmptySeq DEF Histories
  <1>f. Forward(t)
    <2>1. \A u \in Turns \ {t} : pc'[u] = pc[u] /\ iter'[u] = iter[u] /\ todo'[u] = todo[u]
      BY <1>5, <1>6 DEF Actors
    <2>2. state = pc[t] \/ state = After(pc[t])
      BY DEF state
    <2>3. /\ After(pc[t]) \notin Early \union {"hook"}
          /\ After(pc[t]) \in Looping => pc[t] \in Looping
          /\ pc[t] \notin Early
      BY <1>1 DEF Appending, After, Early, Looping
    <2>4. Len(rest) <= Len(h) /\ iter[t] <= iter[t]
      BY <1>1, <1>4, SessionAssumption
    <2>5. pc'[t] = "hook" => pc[t] = "hook"
      BY <1>6, <2>2, <2>3
    <2>6. todo[t] = h
      BY DEF h
    <2> QED BY <1>5, <1>6, <2>1, <2>2, <2>3, <2>4, <2>5, <2>6 DEF Forward
  <1>8. CASE pc[t] \in {"results", "parked", "padding"}
    <2>1. Results(h) /\ Answered(h) = Open(msgs) /\ pc[t] \in InFlight
      BY <1>8, <1>o DEF Turning, h, InFlight
    <2>2. /\ m.kind = "tool" /\ m.call \in Open(msgs) /\ Results(rest)
          /\ Answered(rest) = Open(msgs) \ {m.call}
      BY <1>1, <2>1, ResultsLeft DEF m, rest
    <2>3. /\ Paired(msgs') /\ OpenLast(msgs') /\ Asked(msgs') = Asked(msgs)
          /\ Open(msgs') = Open(msgs) \ {m.call}
      BY <1>1, <1>4, <1>7, <1>o, <2>2, AnswerOn
    <2>4. Past(Asked(msgs'), pc', iter', todo')
      <3>1. Asked(msgs) \in SUBSET Call
        BY <1>1, <1>o, AnsweredAsked
      <3> QED BY <1>o, <1>f, <2>3, <3>1, PastMoves
    <2>5. CASE Len(h) = 1
      <3>1. Open(msgs') = {}
        BY <1>e, <2>2, <2>3, <2>5 DEF Answered, Kinds
      <3>2. pc'[t] \in {"drain", "pad", "mark"}
        BY <1>6, <1>8, <2>5 DEF state, After
      <3>3. pc'[t] \in InFlight /\ Turning(t)'
        BY <3>1, <3>2 DEF Turning, InFlight
      <3> QED BY <1>7, <1>f, <2>1, <2>3, <2>4, <3>3, FlightStep DEF Ordered
    <2>6. CASE Len(h) # 1
      <3>1. pc'[t] = pc[t]
        BY <1>6, <2>6 DEF state
      <3>2. pc'[t] \in InFlight /\ Turning(t)'
        BY <1>5, <1>8, <2>2, <2>3, <3>1 DEF Turning, InFlight
      <3> QED BY <1>7, <1>f, <2>1, <2>3, <2>4, <3>2, FlightStep DEF Ordered
    <2> QED BY <2>5, <2>6
  <1>9. CASE pc[t] \in {"fold", "flush"}
    <2>1. Plain(m)
      <3>1. Talk(h)
        BY <1>9 DEF Pairs, Talks, h
      <3> QED BY <1>1, <3>1, TalkFacts DEF m
    <2>2. Quiet
      BY <1>2, <1>4, <2>1, SaidQuietly
    <2>3. CASE pc[t] = "fold"
      <3>1. Open(msgs) = {} \/ iter[t] = MaxIterations
        BY <1>o, <2>3 DEF Turning, InFlight
      <3>2. pc'[t] \in {"fold", "llm"} /\ pc[t] \in InFlight
        BY <1>6, <2>3 DEF state, After, InFlight
      <3> QED BY <1>5, <1>f, <2>2, <3>1, <3>2, QuietTurn
    <2>4. CASE pc[t] = "flush"
      <3>1. pc'[t] \in {"flush", "done"}
        BY <1>6, <2>4 DEF state, After
      <3>2. pc[t] \notin InFlight /\ pc'[t] \notin InFlight /\ pc'[t] \notin Early \union Looping
        BY <2>4, <3>1 DEF InFlight, Early, Looping
      <3>3. t \in Actors
        BY DEF Actors
      <3> QED BY <1>2, <1>5, <1>6, <2>2, <3>2, <3>3, BesideStep
    <2> QED BY <1>9, <2>3, <2>4
  <1>10. CASE pc[t] = "hook"
    <2> DEFINE c == CallOf(t, 1)
    <2>1. c \in Call /\ c.turn = t
      BY <1>1, SessionAssumption DEF CallOf, Call
    <2>2. CallOf(t, 1)' = c
      BY <1>5 DEF CallOf
    <2>3. Hooked(c, h) /\ pc[t] \in InFlight
      BY <1>o, <1>10 DEF Turning, InFlight, h
    <2> HIDE DEF c
    <2>4. /\ Len(Exchange(c)) = 3 /\ Head(Exchange(c)) = Calls({c})
          /\ Len(Tail(Exchange(c))) = 2 /\ Head(Tail(Exchange(c))) = Tool(c, c)
          /\ Len(Tail(Tail(Exchange(c)))) = 1 /\ Head(Tail(Tail(Exchange(c)))) = Text
          /\ Calls({c}) \in Fine /\ Tool(c, c) \in Fine /\ Text \in Fine
      BY <2>1, ExchangeFacts
    <2>5. CASE h = Exchange(c) /\ Open(msgs) = {}
      <3>1. m = Calls({c}) /\ rest = Tail(Exchange(c)) /\ Len(rest) = 2 /\ Len(h) = 3
        BY <2>4, <2>5 DEF m, rest
      <3>2. pc'[t] = "hook"
        BY <1>6, <1>10, <3>1 DEF state
      <3>3. c \notin Asked(msgs)
        BY <1>10, <1>o, <2>1, <3>1 DEF Past, h
      <3>4. /\ Ordered(msgs') /\ Past(Asked(msgs'), pc', iter', todo') /\ Open(msgs') = {c}
            /\ row' \in {row, msgs'}
        <4>1. {c} \in SUBSET Call /\ {c} \intersect Asked(msgs) = {}
          BY <2>1, <3>3
        <4>2. pc'[t] \notin Early /\ pc'[t] \notin Looping
          BY <3>2 DEF Early, Looping
        <4>3. Len(todo'[t]) < 3
          <5> DEFINE left == Len(todo'[t])
          <5>1. left = 2
            BY <1>5, <3>1
          <5> HIDE DEF left
          <5>2. left < 3
            BY <5>1
          <5> QED BY <5>2 DEF left
        <4>4. Save(Append(msgs, Calls({c})))
          BY <1>2, <3>1
        <4>5. \A d \in {c} : d = c
          OBVIOUS
        <4> QED BY <1>f, <2>1, <2>4, <2>5, <4>1, <4>2, <4>3, <4>4, <4>5, Asks
      <3>5. Turning(t)' /\ pc'[t] \in InFlight
        <4>1. Hooked(CallOf(t, 1), todo[t])'
          BY <1>5, <2>2, <3>1, <3>4 DEF Hooked
        <4> QED BY <3>2, <4>1 DEF Turning, InFlight
      <3> QED BY <1>f, <2>3, <3>4, <3>5, FlightStep
    <2>6. CASE h = Tail(Exchange(c)) /\ Open(msgs) = {c}
      <3>1. m = Tool(c, c) /\ rest = Tail(Tail(Exchange(c))) /\ Len(h) = 2
        BY <2>4, <2>6 DEF m, rest
      <3>2. pc'[t] = "hook"
        BY <1>6, <1>10, <3>1 DEF state
      <3>3. m.kind = "tool" /\ m.call = c
        BY <3>1 DEF Tool
      <3>4. /\ Paired(msgs') /\ OpenLast(msgs') /\ Asked(msgs') = Asked(msgs)
            /\ Open(msgs') = {c} \ {c}
        BY <1>1, <1>4, <1>7, <1>o, <2>6, <3>3, AnswerOn
      <3>5. Past(Asked(msgs'), pc', iter', todo')
        <4>1. Asked(msgs) \in SUBSET Call
          BY <1>1, <1>o, AnsweredAsked
        <4> QED BY <1>o, <1>f, <3>4, <4>1, PastMoves
      <3>6. Turning(t)' /\ pc'[t] \in InFlight
        <4>1. Hooked(CallOf(t, 1), todo[t])'
          BY <1>5, <2>2, <3>1, <3>4 DEF Hooked
        <4> QED BY <3>2, <4>1 DEF Turning, InFlight
      <3> QED BY <1>7, <1>f, <2>3, <3>4, <3>5, <3>6, FlightStep DEF Ordered
    <2>7. CASE h = Tail(Tail(Exchange(c))) /\ Open(msgs) = {}
      <3>1. m = Text /\ Len(h) = 1 /\ Plain(m)
        <4>1. Plain(Text)
          BY DEF Plain, Text
        <4> QED BY <2>4, <2>7, <4>1 DEF m
      <3>2. pc'[t] = "hookEnd"
        BY <1>6, <1>10, <3>1 DEF state, After
      <3>3. Quiet
        BY <1>2, <1>4, <3>1, SaidQuietly
      <3> QED BY <1>f, <2>3, <2>7, <3>2, <3>3, QuietTurn
    <2> QED BY <2>3, <2>5, <2>6, <2>7 DEF Hooked
  <1> QED BY <1>1, <1>8, <1>9, <1>10 DEF Appending

LEMMA TurnPairs ==
  ASSUME WellTyped, WellTyped', Kept, Counted, Pairs, NEW t \in Turns, TurnStep(t),
         ~reloaded', ~overlapped'
  PROVE  Orderly'
  <1>t. /\ PcTyped /\ msgs \in Histories /\ iter \in [Turns -> 0..MaxIterations]
        /\ iter[t] \in Nat /\ MaxIterations \in Nat /\ todo \in [Turns -> Histories]
    BY SessionAssumption DEF WellTyped, SavedTyped, TurnsTyped
  <1>s. /\ Said(t) \in Fine /\ Text \in Fine /\ Plain(Said(t)) /\ Plain(Text)
    BY MessageFacts DEF Actors, Said, Text, Plain
  <1>r. ~reloaded /\ ~overlapped
    <2>1. reloaded => reloaded'
      BY Zenon DEF TurnStep, Claim, AppendUser, Plan, Reply, CallTools, CallInLoop, FailTurn, Quit,
                   Conclude, AppendNext, Drain, ScanOrphans, MarkAborted, EndTurn, EndHook, history
    <2>2. overlapped => overlapped'
      BY Zenon DEF TurnStep, Claim, Begin, AppendUser, Plan, Reply, CallTools, CallInLoop, FailTurn,
                   Quit, Conclude, AppendNext, Drain, ScanOrphans, MarkAborted, EndTurn, EndHook,
                   history
    <2> QED BY <2>1, <2>2
  <1>o. Orderly /\ (pc[t] \in InFlight => Turning(t))
    BY <1>r DEF Pairs, Orderly, Flying
  <1>q. ASSUME NEW m \in Fine, Plain(m), Save(Append(msgs, m)) PROVE Quiet
    BY <1>o, <1>q, SaidQuietly
  <1>u. ASSUME UNCHANGED <<msgs, row>> PROVE Quiet
    BY <1>o, <1>u DEF Quiet, Orderly
  <1>i. ASSUME UNCHANGED iter PROVE iter[t] <= iter'[t] /\ \A u \in Turns \ {t} : iter'[u] = iter[u]
    BY <1>t, <1>i
  <1>1. CASE Claim(t)
    <2>1. pc[t] = "got" /\ UNCHANGED <<loaded, msgs, row, iter, todo>>
      BY <1>1 DEF Claim
    <2>2. Quiet
      BY <1>u, <2>1
    <2>3. CASE Goto(t, "skipped")
      <3>1. pc'[t] = "skipped" /\ \A u \in Actors \ {t} : pc'[u] = pc[u]
        BY <1>t, <2>3, TurnGoes
      <3> QED BY <1>o, <2>1, <2>2, <3>1, BesideStep DEF Actors, InFlight, Early
    <2>4. CASE Begin(t)
      <3>1. pc'[t] = "user" /\ \A u \in Actors \ {t} : pc'[u] = pc[u]
        BY <1>t, <2>4, TurnGoes DEF Begin
      <3>2. depth = 0
        <4>1. ~(depth > 0)
          BY <2>4 DEF Begin
        <4> QED BY <4>1 DEF WellTyped, FlagsTyped
      <3>3. Flying = {}
        BY <3>2, FlyingFinite, FS_EmptySet DEF Counted
      <3>4. loaded
        BY <2>1 DEF Kept, Idle, Actors
      <3>5. Open(msgs) = {}
        BY <1>o, <3>3, <3>4 DEF Orderly
      <3>6. Flying' = {t}
        BY <3>1, <3>3 DEF Flying, InFlight, Actors
      <3>7. Forward(t)
        BY <2>1, <3>1 DEF Forward, Early, Actors
      <3>8. /\ Ordered(msgs) /\ Past(Asked(msgs), pc, iter, todo) /\ Asked(msgs) \in SUBSET Call
            /\ Ordered(row) /\ Past(Asked(row), pc, iter, todo) /\ Asked(row) \in SUBSET Call
        BY <1>o, AskedCalls DEF Orderly, WellTyped, SavedTyped
      <3>9. Past(Asked(msgs), pc', iter', todo') /\ Past(Asked(row), pc', iter', todo')
        BY <3>7, <3>8, PastMoves
      <3>10. Turning(t)'
        BY <2>1, <3>1, <3>5 DEF Turning
      <3> QED BY <2>1, <3>6, <3>8, <3>9, <3>10 DEF Orderly
    <2> QED BY <1>1, <2>3, <2>4 DEF Claim
  <1>2. CASE AppendUser(t)
    <2>1. pc[t] = "user" /\ UNCHANGED iter /\ \A u \in Turns \ {t} : todo'[u] = todo[u]
      BY <1>2, <1>t DEF AppendUser
    <2>2. Open(msgs) = {} /\ pc[t] \in InFlight /\ pc[t] \in Early
      BY <1>o, <2>1 DEF Turning, InFlight, Early
    <2>3. Quiet
      BY <1>2, <1>s, <1>q DEF AppendUser
    <2>4. PICK state \in {"llm", "plan", "hook"} :
            Goto(t, state) /\ (state = "hook" => todo' = [todo EXCEPT ![t] = Exchange(CallOf(t, 1))])
      BY <1>2 DEF AppendUser, Exchange
    <2>5. Forward(t) /\ pc'[t] = state
      BY <1>i, <2>1, <2>2, <2>4, MovesForward
    <2>6. CASE state # "hook"
      BY <1>o, <2>2, <2>3, <2>4, <2>5, <2>6, QuietTurn
    <2>7. CASE state = "hook"
      <3>1. todo'[t] = Exchange(CallOf(t, 1))
        BY <1>t, <2>4, <2>7
      <3>2. Hooked(CallOf(t, 1), todo[t])'
        BY <2>1, <2>2, <2>3, <3>1 DEF Hooked, CallOf, Quiet
      <3>3. Turning(t)' /\ pc'[t] \in InFlight
        BY <2>5, <2>7, <3>2 DEF Turning, InFlight
      <3> QED BY <1>o, <2>2, <2>3, <2>5, <3>3, QuietFlight
    <2> QED BY <2>6, <2>7
  \* From a state in which nothing is open.
  <1>c. ASSUME pc[t] \in {"plan", "drain", "final", "mark", "end", "hookEnd"}
        PROVE  Open(msgs) = {} /\ pc[t] \in InFlight
    BY <1>o, <1>c DEF Turning, InFlight
  \* To a state outside the loop.
  <1>l. ASSUME NEW state \in {"pad", "end", "done", "flush"}, Goto(t, state),
               pc[t] \in InFlight, Quiet, Open(msgs) = {} \/ state = "pad",
               \A u \in Turns \ {t} : iter'[u] = iter[u] /\ todo'[u] = todo[u]
        PROVE  Orderly'
    <2>1. state \notin Early \union {"hook"} /\ state \notin Looping
      BY DEF Early, Looping
    <2>2. Forward(t) /\ pc'[t] = state
      BY <1>l, <2>1, MovesForward
    <2> QED BY <1>o, <1>l, <2>2, QuietTurn
  <1>3. CASE Plan(t)
    <2>1. pc[t] = "plan" /\ UNCHANGED <<iter, todo>> /\ Goto(t, "pad")
          /\ (Save(Append(msgs, Text)) \/ UNCHANGED <<msgs, row>>)
      BY <1>3 DEF Plan
    <2>2. Quiet
      BY <1>q, <1>s, <1>u, <2>1
    <2> QED BY <1>c, <1>l, <2>1, <2>2
  <1>4. CASE Reply(t)
    <2>1. PICK state \in {"final", "llm"} : Goto(t, state)
      BY <1>4 DEF Reply
    <2>2. /\ pc[t] = "llm" /\ iter[t] < MaxIterations /\ UNCHANGED todo
          /\ iter' = [iter EXCEPT ![t] = iter[t] + 1] /\ Save(Append(msgs, Text))
      BY <1>4 DEF Reply, MayCall
    <2>3. pc[t] \in InFlight /\ pc[t] \in Looping /\ state \notin Early \union {"hook"}
      BY <2>1, <2>2 DEF InFlight, Looping, Early
    <2>4. Open(msgs) = {}
      <3>1. iter[t] # MaxIterations
        BY <1>t, <2>2
      <3> QED BY <1>o, <2>2, <2>3, <3>1 DEF Turning
    <2>5. iter[t] <= iter'[t] /\ \A u \in Turns \ {t} : iter'[u] = iter[u]
      BY <1>t, <2>2
    <2>6. Forward(t) /\ pc'[t] = state
      BY <2>1, <2>2, <2>3, <2>5, MovesForward
    <2>7. Quiet
      BY <1>q, <1>s, <2>2
    <2> QED BY <1>o, <2>1, <2>3, <2>4, <2>6, <2>7, QuietTurn
  <1>5. CASE CallTools(t) \/ CallInLoop(t)
    BY <1>o, <1>5, CallsPairs
  <1>6. CASE FailTurn(t) \/ Quit(t) \/ Conclude(t)
    <2>1. pc[t] = "llm" /\ Goto(t, "pad") /\ UNCHANGED <<iter, todo>>
          /\ (Save(Append(msgs, Text)) \/ UNCHANGED <<msgs, row>>)
      BY <1>6 DEF FailTurn, Quit, Conclude, MayCall, sessionVars
    <2>2. Quiet
      BY <1>q, <1>s, <1>u, <2>1
    <2>3. pc[t] \in InFlight
      BY <2>1 DEF InFlight
    <2> QED BY <1>l, <2>1, <2>2, <2>3
  <1>7. CASE AppendNext(t)
    BY <1>o, <1>7, AppendPairs
  <1>8. CASE Drain(t)
    <2>1. /\ pc[t] \in {"drain", "final"} /\ UNCHANGED <<msgs, row, iter>>
          /\ \A u \in Turns \ {t} : todo'[u] = todo[u]
      BY <1>8, <1>t DEF Drain
    <2>2. PICK state \in {"fold", "llm", "pad"} : Goto(t, state)
      BY <1>8 DEF Drain
    <2>3. pc[t] \in Looping /\ state \notin Early \union {"hook"}
      BY <2>1, <2>2 DEF Looping, Early
    <2>4. Forward(t) /\ pc'[t] = state
      BY <1>i, <2>1, <2>2, <2>3, MovesForward
    <2>5. Quiet
      BY <1>u, <2>1
    <2> QED BY <1>o, <1>c, <2>1, <2>2, <2>4, <2>5, QuietTurn
  <1>9. CASE ScanOrphans(t)
    <2>1. /\ pc[t] = "pad" /\ UNCHANGED <<msgs, row>>
          /\ \A u \in Turns \ {t} : iter'[u] = iter[u] /\ todo'[u] = todo[u]
      BY <1>9, <1>t DEF ScanOrphans, sessionVars
    <2>2. Quiet /\ pc[t] \in InFlight
      BY <1>u, <2>1 DEF InFlight
    <2>3. OrphanCalls(msgs) = Open(msgs)
      BY <1>o, <1>t, OrphansAreOpen DEF Orderly, Ordered
    <2>4. CASE PadsFor(msgs) = <<>> /\ Goto(t, "end")
      <3>1. Open(msgs) = {}
        BY <1>t, <2>3, <2>4, PadsFacts
      <3> QED BY <1>l, <2>1, <2>2, <2>4, <3>1
    <2>5. CASE todo' = [todo EXCEPT ![t] = PadsFor(msgs)] /\ Goto(t, "padding")
      <3>1. Forward(t) /\ pc'[t] = "padding"
        BY <2>1, <2>5, MovesForward DEF Early, Looping
      <3>2. todo'[t] = PadsFor(msgs)
        BY <1>t, <2>5
      <3>3. Results(todo'[t]) /\ Answered(todo'[t]) = Open(msgs)
        BY <1>t, <2>3, <3>2, PadsAnswer
      <3>4. Turning(t)' /\ pc'[t] \in InFlight
        BY <2>2, <3>1, <3>3 DEF Turning, Quiet, InFlight
      <3> QED BY <1>o, <2>2, <3>1, <3>4, QuietFlight
    <2> QED BY <1>9, <2>4, <2>5 DEF ScanOrphans
  <1>10. CASE MarkAborted(t)
    <2>1. /\ pc[t] = "mark" /\ Goto(t, "end") /\ UNCHANGED <<iter, todo>>
          /\ (Save(Marked(msgs)) \/ UNCHANGED <<msgs, row>>)
      BY <1>10 DEF MarkAborted
    <2>2. /\ Paired(Marked(msgs)) /\ OpenLast(Marked(msgs))
          /\ Asked(Marked(msgs)) = Asked(msgs) /\ Open(Marked(msgs)) = Open(msgs)
      BY <1>o, <1>t, MarkedPairs DEF Orderly, Ordered
    <2>3. Quiet
      <3>1. CASE Save(Marked(msgs))
        BY <2>2, <3>1 DEF Save, Quiet, Ordered
      <3> QED BY <1>u, <2>1, <3>1
    <2> QED BY <1>c, <1>l, <2>1, <2>3
  <1>11. CASE EndTurn(t) \/ EndHook(t)
    <2>1. /\ pc[t] \in {"end", "hookEnd"} /\ UNCHANGED <<msgs, row, iter>>
          /\ \A u \in Turns \ {t} : todo'[u] = todo[u]
      BY <1>11, <1>t DEF EndTurn, EndHook
    <2>2. PICK state \in {"flush", "done"} : Goto(t, state)
      BY <1>11 DEF EndTurn, EndHook
    <2>3. Quiet /\ Open(msgs) = {} /\ pc[t] \in InFlight
      BY <1>c, <1>u, <2>1
    <2> QED BY <1>l, <1>i, <2>1, <2>2, <2>3
  <1> QED BY <1>1, <1>2, <1>3, <1>4, <1>5, <1>6, <1>7, <1>8, <1>9, <1>10, <1>11 DEF TurnStep

LEMMA PairsInit == Init => Pairs
  <1> SUFFICES ASSUME Init PROVE Pairs
    OBVIOUS
  <1>1. msgs = <<>> /\ row = <<>> /\ steerBuf = <<>> /\ \A a \in Actors : pc[a] = "new"
    BY DEF Init
  <1>2. Flying = {}
    BY <1>1 DEF Flying, Actors, InFlight
  <1>3. Ordered(<<>>) /\ Past(Asked(<<>>), pc, iter, todo)
    BY NothingPaired DEF Ordered, Past
  <1>4. Orderly
    BY <1>1, <1>2, <1>3, NothingPaired DEF Orderly
  <1>5. Talks
    BY <1>1, NothingPaired DEF Talks, Actors
  <1> QED BY <1>4, <1>5 DEF Pairs

LEMMA PairsNext ==
  ASSUME WellTyped, Steers, Counted, Pairs, [Next]_vars
  PROVE  Pairs'
  <1>w. WellTyped' /\ Kept
    BY WellTypedNext DEF Steers
  <1>t. Talks'
    BY TalksNext DEF Pairs
  <1>1. CASE \E a \in Actors : Get(a)
    BY <1>1, <1>w, <1>t, GetPairs DEF Pairs
  <1>2. CASE \E m \in Messages : PushSteer(m) \/ Inject(m)
    BY <1>2, <1>w, <1>t, MessagePairs DEF Pairs
  <1>3. CASE \E t \in Turns : TurnStep(t)
    BY <1>3, <1>w, <1>t, TurnPairs DEF Pairs
  <1>4. CASE Crash
    BY <1>4, <1>t, CrashPairs DEF Pairs
  <1>5. CASE UNCHANGED vars
    <2>1. UNCHANGED <<loaded, msgs, row, pc, iter, todo, reloaded, overlapped>>
      BY <1>5 DEF vars, sessionVars, turnVars, history
    <2>2. Orderly => Orderly'
      BY <2>1 DEF Orderly, Flying, Turning, Hooked, CallOf
    <2> QED BY <1>t, <2>1, <2>2 DEF Pairs
  <1> QED BY <1>1, <1>2, <1>3, <1>4, <1>5 DEF Next, AtRest

\* Between turns every tool call of the history has one result, be it a pad: for any number
\* of turns, calls and iterations, in whichever order results are appended, however a turn
\* leaves its loop and wherever the process dies, as long as turns do not overlap and no Get
\* puts another history in place.
THEOREM EveryCallIsAnswered == Spec => []CallsAnswered
  <1>1. Init => WellTyped /\ Steers /\ Counted /\ Pairs
    BY WellTypedInit, SteersInit, CountedInit, PairsInit
  <1>2. WellTyped /\ Steers /\ Counted /\ Pairs /\ [Next]_vars
          => (WellTyped /\ Steers /\ Counted /\ Pairs)'
    BY WellTypedNext, SteersNext, CountedNext, PairsNext
  <1>3. WellTyped /\ Counted /\ Pairs => CallsAnswered
    <2> SUFFICES ASSUME WellTyped, Counted, Pairs, loaded, depth = 0, ~overlapped, ~reloaded,
                        NEW i \in Kinds(msgs, "calls"), NEW c \in msgs[i].calls
                 PROVE  Cardinality(AnswersAfter(msgs, i, c)) = 1
      BY DEF CallsAnswered
    <2>1. Flying = {}
      BY FlyingFinite, FS_EmptySet DEF Counted
    <2>2. msgs \in Histories /\ Paired(msgs) /\ Open(msgs) = {}
      BY <2>1 DEF Pairs, Orderly, Ordered, WellTyped, SavedTyped
    <2> QED BY <2>2, PairedAnswers
  <1> QED BY <1>1, <1>2, <1>3, PTL DEF Spec
=============================================================================
