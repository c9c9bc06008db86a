------------------------- MODULE ChannelLeaseProofs -------------------------
(***************************************************************************)
(* Proofs about the channel lease, for any number of replicas, any timings *)
(* and any failures.  That there is one poller needs that each replica     *)
(* runs one gate.  The invariant behind it says how long the row of a      *)
(* running adapter is still good for; the one behind the bound on outages, *)
(* how long a gate that waits may still have to.                           *)
(***************************************************************************)
EXTENDS ChannelLease, TLAPS

\* One gate per replica, as when every channel is registered once.
OneGatePerReplica == \A g, h \in Gates : HostOf[g] = HostOf[h] => g = h

\* What is left of the TTL at the next renewal after e failed ones.
Margin(e) == TTL - RenewEvery * (e + 1)

\* While an adapter runs the row is its replica's, and it stays good until the
\* next renewal with the margin, or until the cancelled adapter is back.
CoveredGate(g) ==
  /\ pc[g] \in Running => holder = HostOf[g]
  /\ pc[g] \in {"launch", "poll"} => left >= due[g] + Margin(errors)
  /\ pc[g] \in {"drain", "drop"} => left >= due[g]

Covered == Punctual => \A g \in Gates : CoveredGate(g)
----------------------------------------------------------------------------
(* Arithmetic of the margin. *)

LEMMA NatProduct == \A a, b \in Nat : a * b \in Nat
  OBVIOUS

LEMMA OutageBoundType == OutageBound \in Nat
  <1>1. TTL + RetryEvery \in Nat /\ 1 + MaxErrors \in Nat
    BY LeaseAssumption
  <1> QED BY <1>1, NatProduct DEF OutageBound

LEMMA MarginFacts ==
  ASSUME NEW e \in 0..MaxErrors
  PROVE  /\ Margin(e) \in Int
         /\ Margin(e + 1) = Margin(e) - RenewEvery
         /\ (e + 1) * RenewEvery + StopTime <= TTL => Margin(e) >= StopTime
         /\ TTL >= RenewEvery + Margin(e)
  <1>1. e \in Nat /\ RenewEvery \in Nat /\ TTL \in Nat /\ StopTime \in Nat
    BY LeaseAssumption
  <1>2. RenewEvery * (e + 1) \in Nat /\ RenewEvery * e \in Nat
    BY <1>1, NatProduct
  <1>3. RenewEvery * (e + 1) = RenewEvery * e + RenewEvery
    BY <1>1
  <1>4. RenewEvery * ((e + 1) + 1) = RenewEvery * (e + 1) + RenewEvery
    BY <1>1
  <1>5. (e + 1) * RenewEvery = RenewEvery * (e + 1)
    BY <1>1
  <1> QED BY <1>1, <1>2, <1>3, <1>4, <1>5 DEF Margin
----------------------------------------------------------------------------
(* Type correctness. *)

LEMMA GotoType ==
  ASSUME TypeOK, NEW g \in Gates, NEW state \in GateState, NEW timer \in Nat,
         Goto(g, state, timer)
  PROVE  pc' \in [Gates -> GateState] /\ due' \in [Gates -> Nat]
  BY DEF TypeOK, Goto

LEMMA GrantType ==
  ASSUME NEW h \in Replicas, Grant(h)
  PROVE  holder' \in Replicas \union {NoHolder} /\ left' \in -1..TTL
  BY LeaseAssumption DEF Grant

LEMMA ReleaseType ==
  ASSUME TypeOK, NEW h \in Replicas, Release(h)
  PROVE  /\ holder' \in Replicas \union {NoHolder}
         /\ left' \in -1..TTL
         /\ errors' \in 0..MaxErrors
  BY LeaseAssumption DEF TypeOK, Release, Delete, Fail, row

LEMMA TypeInit == Init => TypeOK
  BY LeaseAssumption, OutageBoundType DEF Init, TypeOK, GateState

LEMMA TypeStep == TypeOK /\ [Next]_vars => TypeOK'
  <1> SUFFICES ASSUME TypeOK, [Next]_vars PROVE TypeOK'
    OBVIOUS
  <1> USE LeaseAssumption
  <1>1. \A g \in Gates : HostOf[g] \in Replicas
    OBVIOUS
  <1>2. ASSUME NEW g \in Gates, Register(g) PROVE TypeOK'
    <2>1. "acquire" \in GateState /\ 0 \in Nat
      BY DEF GateState
    <2> QED BY <1>2, <2>1, GotoType DEF Register, TypeOK, row
  <1>3. ASSUME NEW g \in Gates, Acquire(g) PROVE TypeOK'
    <2>1. {"launch", "sleep"} \subseteq GateState
      BY DEF GateState
    <2>2. backend' \in Backends /\ down' \in SUBSET Replicas /\ exits' \in 0..MaxExits
      BY <1>3 DEF Acquire, TypeOK
    <2>3. pc' \in [Gates -> GateState] /\ due' \in [Gates -> Nat]
      BY <1>3, <2>1, GotoType DEF Acquire
    <2>4. holder' \in Replicas \union {NoHolder} /\ left' \in -1..TTL
      BY <1>1, <1>3, GrantType DEF Acquire, TypeOK, row
    <2>5. errors' \in 0..MaxErrors /\ silent' \in 0..(OutageBound + 1)
      BY <1>3, OutageBoundType DEF Acquire, TypeOK, row, Fail
    <2> QED BY <2>2, <2>3, <2>4, <2>5 DEF TypeOK
  <1>4. ASSUME NEW g \in Gates, EnterSelect(g) PROVE TypeOK'
    <2>1. {"poll", "drain", "drop"} \subseteq GateState /\ due[g] \in Nat /\ StopTime \in Nat
      BY DEF GateState, TypeOK
    <2>2. pc' \in [Gates -> GateState] /\ due' \in [Gates -> Nat]
      BY <1>4, <2>1, GotoType DEF EnterSelect
    <2> QED BY <1>4, <2>2 DEF EnterSelect, TypeOK, row
  <1>5. ASSUME NEW g \in Gates, Renew(g) PROVE TypeOK'
    <2>1. {"poll", "drop"} \subseteq GateState
      BY DEF GateState
    <2>2. pc' \in [Gates -> GateState] /\ due' \in [Gates -> Nat]
      BY <1>5, <2>1, GotoType DEF Renew
    <2>3. holder' \in Replicas \union {NoHolder} /\ left' \in -1..TTL
      BY <1>1, <1>5, GrantType DEF Renew, TypeOK, row
    <2>4. errors' \in 0..MaxErrors
      BY <1>5 DEF Renew, TypeOK, row, Fail
    <2> QED BY <1>5, <2>2, <2>3, <2>4 DEF Renew, TypeOK
  <1>6. ASSUME NEW g \in Gates, AdapterExit(g) PROVE TypeOK'
    <2>1. "sleep" \in GateState
      BY DEF GateState
    <2>2. pc' \in [Gates -> GateState] /\ due' \in [Gates -> Nat]
      BY <1>6, <2>1, GotoType DEF AdapterExit
    <2>3. exits' \in 0..MaxExits
      BY <1>6 DEF AdapterExit, TypeOK
    <2> QED BY <1>1, <1>6, <2>2, <2>3, ReleaseType DEF AdapterExit, TypeOK
  <1>7. ASSUME NEW g \in Gates, CtxDone(g) PROVE TypeOK'
    <2>1. {"drain", "exited"} \subseteq GateState
      BY DEF GateState
    <2>2. pc' \in [Gates -> GateState] /\ due' \in [Gates -> Nat]
      BY <1>7, <2>1, GotoType DEF CtxDone
    <2> QED BY <1>7, <2>2 DEF CtxDone, TypeOK, row
  <1>8. ASSUME NEW g \in Gates, AdapterStopped(g) PROVE TypeOK'
    <2>1. {"sleep", "exited"} \subseteq GateState
      BY DEF GateState
    <2>2. pc' \in [Gates -> GateState] /\ due' \in [Gates -> Nat]
      BY <1>8, <2>1, GotoType DEF AdapterStopped
    <2>3. /\ holder' \in Replicas \union {NoHolder}
          /\ left' \in -1..TTL
          /\ errors' \in 0..MaxErrors
      BY <1>1, <1>8, ReleaseType DEF AdapterStopped, TypeOK, row
    <2> QED BY <1>8, <2>2, <2>3 DEF AdapterStopped, TypeOK
  <1>9. ASSUME NEW g \in Gates, Wake(g) PROVE TypeOK'
    <2>1. "acquire" \in GateState /\ 0 \in Nat
      BY DEF GateState
    <2> QED BY <1>9, <2>1, GotoType DEF Wake, TypeOK, row
  <1>10. ASSUME NEW r \in Replicas, Shutdown(r) PROVE TypeOK'
    BY <1>10 DEF Shutdown, TypeOK, row
  <1>11. ASSUME NEW r \in Replicas, Crash(r) PROVE TypeOK'
    BY <1>11 DEF Crash, TypeOK, row, GateState
  <1>12. ASSUME Tick PROVE TypeOK'
    <2>1. due' \in [Gates -> Nat]
      BY <1>12 DEF Tick, TypeOK
    <2>2. left' \in -1..TTL
      BY <1>12 DEF Tick, TypeOK
    <2>3. silent' \in 0..(OutageBound + 1)
      BY <1>12, OutageBoundType DEF Tick, TypeOK
    <2> QED BY <1>12, <2>1, <2>2, <2>3 DEF Tick, TypeOK
  <1>13. ASSUME UNCHANGED vars PROVE TypeOK'
    BY <1>13 DEF vars, TypeOK
  <1> QED BY <1>2, <1>3, <1>4, <1>5, <1>6, <1>7, <1>8, <1>9, <1>10, <1>11, <1>12, <1>13
          DEF Next, GateStep

\* Every state of the gates and of the row has the declared types, whatever
\* the number of replicas, the timings and the failures.
THEOREM TypeCorrect == Spec => []TypeOK
  BY TypeInit, TypeStep, PTL DEF Spec
----------------------------------------------------------------------------
(* One poller.  The margin is positive as long as the errors last, so that *)
(* the row of a running adapter is never up for grabs.                     *)

LEMMA CoveredInit == Init => Covered
  BY DEF Init, Covered, CoveredGate, Running

\* The row of a running adapter is its replica's and has not expired.
LEMMA RunningHolds ==
  ASSUME TypeOK, Covered, Punctual, NEW g \in Gates, pc[g] \in Running
  PROVE  holder = HostOf[g] /\ left >= 0 /\ Holds(HostOf[g])
  <1>1. CoveredGate(g) /\ due[g] \in Nat /\ left \in Int /\ errors \in 0..MaxErrors
    BY LeaseAssumption DEF TypeOK, Covered
  <1>2. Margin(errors) \in Int /\ Margin(errors) >= StopTime
    BY <1>1, MarginFacts DEF Punctual
  <1>3. StopTime \in Nat
    BY LeaseAssumption
  <1> QED BY <1>1, <1>2, <1>3 DEF CoveredGate, Running, Holds

\* So two adapters would be on one replica.
LEMMA RunningAlone ==
  ASSUME TypeOK, Covered, Punctual, OneGatePerReplica,
         NEW g \in Gates, NEW h \in Gates, pc[g] \in Running,
         pc[h] \in Running \/ Acquirable(HostOf[h]) \/ Holds(HostOf[h])
  PROVE  g = h
  <1>1. holder = HostOf[g] /\ left >= 0
    BY RunningHolds
  <1>2. left \in Int /\ HostOf[g] # NoHolder
    BY LeaseAssumption DEF TypeOK
  <1>3. CASE pc[h] \in Running
    BY <1>1, <1>3, RunningHolds DEF OneGatePerReplica
  <1>4. CASE Acquirable(HostOf[h]) \/ Holds(HostOf[h])
    BY <1>1, <1>2, <1>4 DEF Acquirable, Holds, OneGatePerReplica
  <1> QED BY <1>3, <1>4

\* A step that leaves a gate and the row alone leaves it covered, also when it
\* uses up an error.
LEMMA CoveredKept ==
  ASSUME TypeOK, TypeOK', NEW g \in Gates, CoveredGate(g),
         pc'[g] = pc[g], due'[g] = due[g], UNCHANGED row,
         errors' = errors \/ errors' = errors + 1
  PROVE  CoveredGate(g)'
  <1>1. /\ errors \in 0..MaxErrors /\ errors' \in 0..MaxErrors
        /\ due[g] \in Nat /\ left \in Int /\ RenewEvery \in Nat
    BY LeaseAssumption DEF TypeOK
  <1>2. /\ Margin(errors) \in Int
        /\ Margin(errors + 1) = Margin(errors) - RenewEvery
        /\ Margin(errors') \in Int
    BY <1>1, MarginFacts
  <1>3. Margin(errors') <= Margin(errors)
    BY <1>1, <1>2
  <1>4. pc[g] \in {"launch", "poll"} => left' >= due'[g] + Margin(errors')
    BY <1>1, <1>2, <1>3 DEF CoveredGate, row
  <1> QED BY <1>4 DEF CoveredGate, row

\* A gate that is not running has nothing to be covered.
LEMMA NotRunning ==
  ASSUME NEW g \in Gates, pc'[g] \notin Running
  PROVE  CoveredGate(g)'
  BY DEF CoveredGate, Running

LEMMA GotoFrame ==
  ASSUME TypeOK, NEW g \in Gates, NEW state, NEW timer, Goto(g, state, timer)
  PROVE  /\ pc'[g] = state /\ due'[g] = timer
         /\ \A h \in Gates \ {g} : pc'[h] = pc[h] /\ due'[h] = due[h]
  BY DEF TypeOK, Goto

LEMMA PunctualBefore ==
  ASSUME TypeOK, [Next]_vars, Punctual'
  PROVE  Punctual
  <1>1. errors' = errors \/ errors' = errors + 1
    <2>1. ASSUME NEW g \in Gates, Register(g) \/ AdapterExit(g) \/ GateStep(g)
          PROVE  errors' = errors \/ errors' = errors + 1
      BY <2>1 DEF GateStep, Register, Acquire, EnterSelect, Renew, AdapterExit, CtxDone,
                  AdapterStopped, Wake, Release, Fail
    <2>2. ASSUME NEW r \in Replicas, Shutdown(r) \/ Crash(r)
          PROVE  errors' = errors
      BY <2>2 DEF Shutdown, Crash
    <2> QED BY <2>1, <2>2 DEF Next, Tick, vars
  <1>2. errors \in Nat /\ RenewEvery \in Nat /\ TTL \in Nat /\ StopTime \in Nat
    BY LeaseAssumption DEF TypeOK
  <1>3. ((errors + 1) + 1) * RenewEvery = (errors + 1) * RenewEvery + RenewEvery
    BY <1>2
  <1>4. (errors + 1) * RenewEvery \in Nat
    BY <1>2, NatProduct
  <1> QED BY <1>1, <1>2, <1>3, <1>4 DEF Punctual

LEMMA CoveredStep ==
  ASSUME OneGatePerReplica, TypeOK, TypeOK', Covered, [Next]_vars
  PROVE  Covered'
  <1> USE LeaseAssumption
  <1>1. SUFFICES ASSUME Punctual', NEW g \in Gates PROVE CoveredGate(g)'
    BY DEF Covered
  <1>2. Punctual
    BY <1>1, PunctualBefore
  <1>3. /\ CoveredGate(g) /\ due[g] \in Nat /\ left \in Int /\ HostOf[g] \in Replicas
        /\ errors \in 0..MaxErrors /\ errors' \in 0..MaxErrors
        /\ RenewEvery \in Nat /\ StopTime \in Nat /\ TTL \in Nat
    BY <1>2 DEF Covered, TypeOK
  <1>4. /\ Margin(errors) \in Int /\ Margin(errors') \in Int
        /\ Margin(errors + 1) = Margin(errors) - RenewEvery
        /\ Margin(errors) >= StopTime
        /\ TTL >= RenewEvery + Margin(errors)
        /\ TTL >= RenewEvery + Margin(errors')
    BY <1>2, <1>3, MarginFacts DEF Punctual
  <1>5. ASSUME NEW h \in Gates, Register(h) PROVE CoveredGate(g)'
    <2>1. CASE g = h
      BY <1>5, <2>1, GotoFrame, NotRunning DEF Register, Running
    <2>2. CASE g # h
      BY <1>3, <1>5, <2>2, GotoFrame, CoveredKept DEF Register, row
    <2> QED BY <2>1, <2>2
  <1>6. ASSUME NEW h \in Gates, Acquire(h) PROVE CoveredGate(g)'
    <2>1. CASE g = h
      <3>1. CASE pc'[g] = "launch"
        <4>1. due'[g] = RenewEvery /\ holder' = HostOf[g] /\ left' = TTL
          BY <1>6, <2>1, <3>1, GotoFrame DEF Acquire, Grant
        <4> QED BY <1>3, <1>4, <3>1, <4>1 DEF CoveredGate
      <3>2. CASE pc'[g] # "launch"
        <4>1. pc'[g] = "sleep"
          BY <1>6, <2>1, <3>2, GotoFrame DEF Acquire
        <4> QED BY <4>1, NotRunning DEF Running
      <3> QED BY <3>1, <3>2
    <2>2. CASE g # h
      <3>1. pc'[g] = pc[g] /\ due'[g] = due[g]
        BY <1>6, <2>2, GotoFrame DEF Acquire
      <3>2. CASE pc[g] \in Running
        <4>1. ~Acquirable(HostOf[h])
          BY <1>2, <2>2, <3>2, RunningAlone
        <4>2. UNCHANGED row /\ (errors' = errors \/ errors' = errors + 1)
          BY <1>6, <4>1 DEF Acquire, Fail, row
        <4> QED BY <1>3, <3>1, <4>2, CoveredKept
      <3>3. CASE pc[g] \notin Running
        BY <3>1, <3>3, NotRunning
      <3> QED BY <3>2, <3>3
    <2> QED BY <2>1, <2>2
  <1>7. ASSUME NEW h \in Gates, EnterSelect(h) PROVE CoveredGate(g)'
    <2>1. CASE g = h
      <3>1. UNCHANGED <<row, errors>> /\ pc[g] = "launch" /\ pc[g] \in Running
        BY <1>7, <2>1 DEF EnterSelect, Running
      <3>2. holder' = HostOf[g] /\ left' = left /\ left >= due[g] + Margin(errors)
        BY <1>3, <3>1 DEF CoveredGate, row
      <3>3. \/ pc'[g] = "poll" /\ due'[g] = due[g]
            \/ pc'[g] \in {"drain", "drop"} /\ due'[g] = StopTime
        BY <1>7, <2>1, GotoFrame DEF EnterSelect
      <3>4. left >= StopTime
        BY <1>3, <1>4, <3>2
      <3> QED BY <3>1, <3>2, <3>3, <3>4 DEF CoveredGate
    <2>2. CASE g # h
      BY <1>3, <1>7, <2>2, GotoFrame, CoveredKept DEF EnterSelect
    <2> QED BY <2>1, <2>2
  <1>8. ASSUME NEW h \in Gates, Renew(h) PROVE CoveredGate(g)'
    <2>1. pc[h] = "poll" /\ pc[h] \in Running /\ due[h] = 0
      BY <1>8 DEF Renew, Running
    <2>2. Holds(HostOf[h])
      BY <1>2, <2>1, RunningHolds
    <2>3. CASE g = h
      <3>1. pc'[g] = "poll" /\ due'[g] = RenewEvery
        BY <1>8, <2>2, <2>3, GotoFrame DEF Renew
      <3>2. \/ holder' = HostOf[g] /\ left' = TTL
            \/ UNCHANGED row /\ errors' = errors + 1
        BY <1>8, <2>2, <2>3 DEF Renew, Grant, Fail
      <3>3. CASE holder' = HostOf[g] /\ left' = TTL
        BY <1>3, <1>4, <3>1, <3>3 DEF CoveredGate
      <3>4. CASE UNCHANGED row /\ errors' = errors + 1
        <4>1. holder' = HostOf[g] /\ left' = left /\ left >= Margin(errors)
          BY <1>3, <1>4, <2>1, <2>3, <3>4 DEF CoveredGate, row, Running
        <4>2. left' >= due'[g] + Margin(errors')
          BY <1>3, <1>4, <3>1, <3>4, <4>1
        <4> QED BY <3>1, <4>1, <4>2 DEF CoveredGate
      <3> QED BY <3>2, <3>3, <3>4
    <2>4. CASE g # h
      <3>1. pc'[g] = pc[g]
        BY <1>8, <2>4, GotoFrame DEF Renew
      <3>2. pc[g] \notin Running
        BY <1>2, <2>1, <2>4, RunningAlone
      <3> QED BY <3>1, <3>2, NotRunning
    <2> QED BY <2>3, <2>4
  <1>9. ASSUME NEW h \in Gates, AdapterExit(h) PROVE CoveredGate(g)'
    <2>1. CASE g = h
      BY <1>9, <2>1, GotoFrame, NotRunning DEF AdapterExit, Running
    <2>2. CASE g # h
      <3>1. pc[h] \in Running /\ pc'[g] = pc[g]
        BY <1>9, <2>2, GotoFrame DEF AdapterExit, Running
      <3>2. pc[g] \notin Running
        BY <1>2, <2>2, <3>1, RunningAlone
      <3> QED BY <3>1, <3>2, NotRunning
    <2> QED BY <2>1, <2>2
  <1>10. ASSUME NEW h \in Gates, CtxDone(h) PROVE CoveredGate(g)'
    <2>1. CASE g = h /\ pc[h] = "poll"
      <3>1. UNCHANGED <<row, errors>> /\ pc'[g] = "drain" /\ due'[g] = StopTime
        BY <1>10, <2>1, GotoFrame DEF CtxDone
      <3>2. holder = HostOf[g] /\ left >= StopTime
        BY <1>3, <1>4, <2>1 DEF CoveredGate, Running
      <3> QED BY <3>1, <3>2 DEF CoveredGate, row
    <2>2. CASE g = h /\ pc[h] # "poll"
      BY <1>10, <2>2, GotoFrame, NotRunning DEF CtxDone, Running
    <2>3. CASE g # h
      BY <1>3, <1>10, <2>3, GotoFrame, CoveredKept DEF CtxDone
    <2> QED BY <2>1, <2>2, <2>3
  <1>11. ASSUME NEW h \in Gates, AdapterStopped(h) PROVE CoveredGate(g)'
    <2>1. CASE g = h
      BY <1>11, <2>1, GotoFrame, NotRunning DEF AdapterStopped, Running
    <2>2. CASE g # h
      <3>1. pc[h] \in Running /\ pc'[g] = pc[g]
        BY <1>11, <2>2, GotoFrame DEF AdapterStopped, Running
      <3>2. pc[g] \notin Running
        BY <1>2, <2>2, <3>1, RunningAlone
      <3> QED BY <3>1, <3>2, NotRunning
    <2> QED BY <2>1, <2>2
  <1>12. ASSUME NEW h \in Gates, Wake(h) PROVE CoveredGate(g)'
    <2>1. CASE g = h
      BY <1>12, <2>1, GotoFrame, NotRunning DEF Wake, Running
    <2>2. CASE g # h
      BY <1>3, <1>12, <2>2, GotoFrame, CoveredKept DEF Wake
    <2> QED BY <2>1, <2>2
  <1>13. ASSUME NEW r \in Replicas, Shutdown(r) PROVE CoveredGate(g)'
    BY <1>3, <1>13, CoveredKept DEF Shutdown
  <1>14. ASSUME NEW r \in Replicas, Crash(r) PROVE CoveredGate(g)'
    <2>1. CASE HostOf[g] = r
      BY <1>14, <2>1, NotRunning DEF Crash, Running
    <2>2. CASE HostOf[g] # r
      <3>1. pc'[g] = pc[g] /\ due'[g] = due[g]
        BY <1>14, <2>2 DEF Crash
      <3> QED BY <1>3, <1>14, <3>1, CoveredKept DEF Crash
    <2> QED BY <2>1, <2>2
  <1>15. ASSUME Tick PROVE CoveredGate(g)'
    <2>1. CASE pc[g] \notin Running
      BY <1>15, <2>1, NotRunning DEF Tick
    <2>2. CASE pc[g] \in Running
      <3>1. pc'[g] = pc[g] /\ holder' = holder /\ errors' = errors
        BY <1>15 DEF Tick
      <3>2. due[g] > 0 /\ due'[g] = due[g] - 1
        BY <1>3, <1>15, <2>2 DEF Tick, Settled
      <3>3. left > -1 /\ left' = left - 1
        BY <1>2, <1>15, <2>2, <1>3, RunningHolds DEF Tick
      <3> QED BY <1>3, <1>4, <3>1, <3>2, <3>3 DEF CoveredGate
    <2> QED BY <2>1, <2>2
  <1>16. ASSUME UNCHANGED vars PROVE CoveredGate(g)'
    BY <1>3, <1>16 DEF vars, CoveredGate
  <1> QED BY <1>5, <1>6, <1>7, <1>8, <1>9, <1>10, <1>11, <1>12, <1>13, <1>14, <1>15, <1>16
          DEF Next, GateStep

\* While an adapter runs, the lease row is its replica's and outlasts the next
\* renewal, however calls fail within the TTL.
THEOREM RunningIsCovered ==
  ASSUME OneGatePerReplica
  PROVE  Spec => []Covered
  <1>1. TypeOK /\ TypeOK' /\ Covered /\ [Next]_vars => Covered'
    BY CoveredStep
  <1> QED BY CoveredInit, TypeCorrect, <1>1, PTL DEF Spec

\* At most one adapter speaks to the upstream, across any number of replicas
\* that crash, stop and lose calls, as long as each runs one gate and failed
\* calls cannot use up the TTL.
THEOREM OnlyOnePoller ==
  ASSUME OneGatePerReplica
  PROVE  Spec => []OnePoller
  <1>1. TypeOK /\ Covered => OnePoller
    BY RunningAlone DEF OnePoller, Adapters
  <1> QED BY <1>1, TypeCorrect, RunningIsCovered, PTL
----------------------------------------------------------------------------
(* The longest outage.  Each failed call buys one TTL and one retry.       *)

\* What an outage may last once e calls have failed.
Budget(e) == (TTL + RetryEvery) * (1 + e)

\* An adapter ends the outage; a gate that waits asks again within the budget.
AwaitedGate(g) ==
  /\ pc[g] \in Running => silent = 0
  /\ pc[g] \in {"acquire", "sleep"} =>
       due[g] <= RetryEvery /\ silent + due[g] <= Budget(errors)

\* The row of a dead holder expires early enough for one more retry.
Awaited ==
  /\ silent <= Budget(errors)
  /\ left >= 0 => silent + left + RetryEvery <= Budget(errors)
  /\ \A g \in Gates : AwaitedGate(g)

LEMMA BudgetFacts ==
  ASSUME NEW e \in 0..MaxErrors
  PROVE  /\ Budget(e) \in Nat
         /\ Budget(e + 1) = Budget(e) + TTL + RetryEvery
         /\ TTL + RetryEvery <= Budget(e)
         /\ Budget(e) <= OutageBound
  <1>1. e \in Nat /\ TTL \in Nat /\ RetryEvery \in Nat /\ MaxErrors - e \in Nat
    BY LeaseAssumption
  <1> DEFINE round == TTL + RetryEvery
  <1>2. round \in Nat /\ round = TTL + RetryEvery
    BY <1>1
  <1> HIDE DEF round
  <1>3. round * e \in Nat /\ round * (MaxErrors - e) \in Nat
    BY <1>1, <1>2, NatProduct
  <1> DEFINE spent == round * e
             rest == round * (MaxErrors - e)
  <1>4. Budget(e) = round + spent
    BY <1>1, <1>2 DEF Budget
  <1>5. Budget(e + 1) = round + round + spent
    BY <1>1, <1>2 DEF Budget
  <1>6. OutageBound = round + spent + rest
    BY <1>1, <1>2, LeaseAssumption DEF OutageBound
  <1>7. spent \in Nat /\ rest \in Nat
    BY <1>3
  <1> HIDE DEF spent, rest
  <1> QED BY <1>1, <1>2, <1>4, <1>5, <1>6, <1>7

LEMMA AwaitedInit == Init => Awaited
  <1>1. 0 \in 0..MaxErrors
    BY LeaseAssumption
  <1>2. Budget(0) \in Nat
    BY <1>1, BudgetFacts
  <1> QED BY <1>2 DEF Init, Awaited, AwaitedGate, Running

\* A step that starts no adapter and puts gates to sleep only with a retry to go.
LEMMA AwaitedMove ==
  ASSUME TypeOK, TypeOK', Awaited, NEW g \in Gates, NEW state, NEW timer \in Nat,
         Goto(g, state, timer), UNCHANGED silent,
         errors' = errors \/ errors' = errors + 1,
         left' <= left \/ silent + left' + RetryEvery <= Budget(errors'),
         state \in Running => pc[g] \in Running,
         state \in {"acquire", "sleep"} =>
           timer <= RetryEvery /\ silent + timer <= Budget(errors')
  PROVE  Awaited'
  <1>1. /\ errors \in 0..MaxErrors /\ errors' \in 0..MaxErrors
        /\ silent \in Nat /\ left \in Int /\ left' \in Int
        /\ TTL \in Nat /\ RetryEvery \in Nat
    BY LeaseAssumption, OutageBoundType DEF TypeOK
  <1>2. Budget(errors) \in Nat /\ Budget(errors') \in Nat /\ Budget(errors) <= Budget(errors')
    BY <1>1, BudgetFacts
  <1>3. silent' <= Budget(errors')
    BY <1>1, <1>2 DEF Awaited
  <1>4. left' >= 0 => silent' + left' + RetryEvery <= Budget(errors')
    BY <1>1, <1>2 DEF Awaited
  <1>5. ASSUME NEW h \in Gates PROVE AwaitedGate(h)'
    <2>1. AwaitedGate(h) /\ AwaitedGate(g) /\ due[h] \in Nat
      BY DEF Awaited, TypeOK
    <2>2. CASE h = g
      BY <2>1, <2>2, GotoFrame DEF AwaitedGate
    <2>3. CASE h # g
      <3>1. pc'[h] = pc[h] /\ due'[h] = due[h]
        BY <2>3, GotoFrame
      <3> QED BY <1>1, <1>2, <2>1, <3>1 DEF AwaitedGate
    <2> QED BY <2>2, <2>3
  <1> QED BY <1>3, <1>4, <1>5 DEF Awaited

\* While an adapter runs, or has just been started, there is no outage.
LEMMA Restful ==
  ASSUME TypeOK, NEW e \in 0..MaxErrors
  PROVE  /\ TTL + RetryEvery <= Budget(e) /\ RetryEvery <= Budget(e)
         /\ RetryEvery \in Nat /\ TTL \in Nat /\ Budget(e) \in Nat
         /\ silent \in Nat /\ left \in Int /\ left <= TTL
  BY BudgetFacts, LeaseAssumption, OutageBoundType DEF TypeOK

LEMMA AwaitedAcquire ==
  ASSUME TypeOK, TypeOK', Awaited, NEW g \in Gates, Acquire(g)
  PROVE  Awaited'
  <1>1. /\ errors \in 0..MaxErrors /\ errors' \in 0..MaxErrors
        /\ silent \in Nat /\ left \in Int /\ due[g] \in Nat
        /\ TTL \in Nat /\ RetryEvery \in Nat
    BY LeaseAssumption, OutageBoundType DEF TypeOK
  <1>2. silent <= Budget(errors)
    BY DEF Awaited
  <1>3. Budget(errors) \in Nat /\ Budget(errors + 1) = Budget(errors) + TTL + RetryEvery
    BY <1>1, BudgetFacts
  <1>4. CASE Grant(HostOf[g]) /\ Goto(g, "launch", RenewEvery) /\ silent' = 0 /\ UNCHANGED errors
    <2>1. TTL + RetryEvery <= Budget(errors')
      BY <1>1, BudgetFacts
    <2>2. silent' = 0 /\ left' = TTL
      BY <1>4 DEF Grant
    <2>3. ASSUME NEW h \in Gates PROVE AwaitedGate(h)'
      <3>1. AwaitedGate(h) /\ due[h] \in Nat
        BY DEF Awaited, TypeOK
      <3>2. CASE h = g
        <4>1. pc'[h] = "launch"
          BY <1>4, <3>2, GotoFrame
        <4> QED BY <2>2, <4>1 DEF AwaitedGate
      <3>3. CASE h # g
        <4>1. pc'[h] = pc[h] /\ due'[h] = due[h] /\ errors' = errors
          BY <1>4, <3>3, GotoFrame
        <4> QED BY <1>1, <1>3, <2>2, <3>1, <4>1 DEF AwaitedGate
      <3> QED BY <3>2, <3>3
    <2> QED BY <1>1, <1>3, <1>4, <2>1, <2>2, <2>3 DEF Awaited
  <1>5. CASE ~Acquirable(HostOf[g]) /\ Goto(g, "sleep", RetryEvery) /\ UNCHANGED <<row, errors, silent>>
    <2>1. left >= 0 /\ left' = left
      BY <1>1, <1>5 DEF Acquirable, row
    <2>2. silent + RetryEvery <= Budget(errors')
      BY <1>1, <1>3, <1>5, <2>1 DEF Awaited
    <2> QED BY <1>1, <1>5, <2>1, <2>2, AwaitedMove DEF Running
  <1>6. CASE /\ Fail
             /\ UNCHANGED row \/ (Acquirable(HostOf[g]) /\ Grant(HostOf[g]))
             /\ Goto(g, "sleep", RetryEvery)
             /\ UNCHANGED silent
    <2>1. errors' = errors + 1
      BY <1>6 DEF Fail
    <2>2. /\ silent + RetryEvery <= Budget(errors')
          /\ silent + TTL + RetryEvery <= Budget(errors')
      BY <1>1, <1>2, <1>3, <2>1
    <2>3. left' = left \/ left' = TTL
      BY <1>6 DEF Grant, row
    <2>4. left' <= left \/ silent + left' + RetryEvery <= Budget(errors')
      BY <1>1, <2>2, <2>3
    <2> QED BY <1>1, <1>6, <2>1, <2>2, <2>4, AwaitedMove DEF Running
  <1> QED BY <1>4, <1>5, <1>6 DEF Acquire

\* The steps of a gate whose adapter runs.
LEMMA AwaitedRunning ==
  ASSUME TypeOK, TypeOK', Awaited, NEW g \in Gates,
         EnterSelect(g) \/ Renew(g) \/ AdapterExit(g) \/ AdapterStopped(g)
  PROVE  Awaited'
  <1>1. pc[g] \in Running
    BY DEF EnterSelect, Renew, AdapterExit, AdapterStopped, Running
  <1>2. silent = 0 /\ UNCHANGED silent
    BY <1>1 DEF Awaited, AwaitedGate, EnterSelect, Renew, AdapterExit, AdapterStopped
  <1>3. errors' = errors \/ errors' = errors + 1
    BY DEF EnterSelect, Renew, AdapterExit, AdapterStopped, Release, Fail
  <1>4. errors' \in 0..MaxErrors /\ left' \in Int /\ left' <= TTL /\ due[g] \in Nat
        /\ TTL \in Nat /\ RetryEvery \in Nat /\ RenewEvery \in Nat /\ StopTime \in Nat
    BY LeaseAssumption DEF TypeOK
  <1>5. Budget(errors') \in Nat /\ TTL + RetryEvery <= Budget(errors')
    BY <1>4, BudgetFacts
  <1>6. silent + left' + RetryEvery <= Budget(errors') /\ silent + RetryEvery <= Budget(errors')
    BY <1>2, <1>4, <1>5
  <1>7. PICK state \in {"poll", "drain", "drop", "sleep", "exited"}, timer \in Nat :
          Goto(g, state, timer) /\ (state = "sleep" => timer = RetryEvery)
    <2>1. CASE EnterSelect(g)
      BY <1>4, <2>1 DEF EnterSelect
    <2>2. CASE Renew(g)
      BY <1>4, <2>2 DEF Renew
    <2>3. CASE AdapterExit(g)
      BY <1>4, <2>3 DEF AdapterExit
    <2>4. CASE AdapterStopped(g)
      BY <1>4, <2>4 DEF AdapterStopped
    <2> QED BY <2>1, <2>2, <2>3, <2>4
  <1>8. state \in {"acquire", "sleep"} =>
          timer <= RetryEvery /\ silent + timer <= Budget(errors')
    BY <1>4, <1>6, <1>7
  <1> QED BY <1>1, <1>2, <1>3, <1>6, <1>7, <1>8, AwaitedMove

\* The steps that leave the row alone and no gate asleep for longer.
LEMMA AwaitedPrompt ==
  ASSUME TypeOK, TypeOK', Awaited, NEW g \in Gates, Register(g) \/ CtxDone(g) \/ Wake(g)
  PROVE  Awaited'
  <1>1. UNCHANGED <<left, errors, silent>>
    BY DEF Register, CtxDone, Wake, row
  <1>2. /\ silent \in Nat /\ errors' \in 0..MaxErrors /\ left \in Int
        /\ RetryEvery \in Nat /\ StopTime \in Nat
    BY LeaseAssumption, OutageBoundType DEF TypeOK
  <1>3. silent + 0 <= Budget(errors') /\ left' <= left
    BY <1>1, <1>2 DEF Awaited
  <1>4. CASE Register(g) \/ Wake(g)
    <2>1. Goto(g, "acquire", 0)
      BY <1>4 DEF Register, Wake
    <2> QED BY <1>1, <1>2, <1>3, <2>1, AwaitedMove DEF Running
  <1>5. CASE CtxDone(g)
    <2>1. CASE pc[g] = "poll" /\ Goto(g, "drain", StopTime)
      <3>1. pc[g] \in Running
        BY <2>1 DEF Running
      <3> QED BY <1>1, <1>2, <1>3, <2>1, <3>1, AwaitedMove
    <2>2. CASE Goto(g, "exited", 0)
      BY <1>1, <1>2, <1>3, <2>2, AwaitedMove DEF Running
    <2> QED BY <1>5, <2>1, <2>2 DEF CtxDone
  <1> QED BY <1>4, <1>5

LEMMA AwaitedCrash ==
  ASSUME TypeOK, Awaited, NEW r \in Replicas, Crash(r)
  PROVE  Awaited'
  <1>1. UNCHANGED <<left, errors, silent>>
    BY DEF Crash, row
  <1>2. ASSUME NEW g \in Gates PROVE AwaitedGate(g)'
    <2>1. pc'[g] = "exited" \/ (pc'[g] = pc[g] /\ due'[g] = due[g])
      BY DEF Crash
    <2>2. AwaitedGate(g)
      BY DEF Awaited
    <2> QED BY <1>1, <2>1, <2>2 DEF AwaitedGate, Running
  <1> QED BY <1>1, <1>2 DEF Awaited

LEMMA AwaitedTick ==
  ASSUME TypeOK, TypeOK', Awaited, Tick
  PROVE  Awaited'
  <1>1. /\ errors' = errors /\ errors \in 0..MaxErrors
        /\ silent \in Nat /\ left \in Int /\ left' \in Int /\ left' <= left /\ left' <= TTL
        /\ left' >= 0 => left' = left - 1
    BY LeaseAssumption, OutageBoundType DEF TypeOK, Tick
  <1>2. /\ Budget(errors) \in Nat /\ TTL + RetryEvery <= Budget(errors)
        /\ TTL \in Nat /\ RetryEvery \in Nat /\ OutageBound \in Nat
        /\ Budget(errors) <= OutageBound
    BY <1>1, BudgetFacts, LeaseAssumption, OutageBoundType
  <1>3. \A g \in Gates : /\ pc'[g] = pc[g] /\ due[g] \in Nat /\ due'[g] \in Nat
                         /\ due'[g] <= due[g]
                         /\ due[g] > 0 => due'[g] = due[g] - 1
    BY DEF Tick, TypeOK
  <1>4. CASE Adapters = {} /\ Waiting # {}
    <2>1. PICK w \in Waiting : TRUE
      BY <1>4
    <2>2. w \in Gates /\ pc[w] \in {"acquire", "sleep"} /\ due[w] > 0 /\ AwaitedGate(w)
      BY <2>1 DEF Waiting, Tick, Settled, Awaited
    <2>3. silent + 1 <= Budget(errors)
      BY <1>1, <1>2, <1>3, <2>2 DEF AwaitedGate
    <2>4. silent' = silent + 1
      BY <1>1, <1>2, <1>4, <2>3 DEF Tick
    <2>5. left' >= 0 => silent' + left' + RetryEvery <= Budget(errors')
      BY <1>1, <1>2, <2>4 DEF Awaited
    <2>6. ASSUME NEW g \in Gates PROVE AwaitedGate(g)'
      <3>1. pc[g] \notin Running
        BY <1>4 DEF Adapters
      <3>2. CASE pc[g] \in {"acquire", "sleep"}
        <4>1. due[g] > 0 /\ AwaitedGate(g)
          BY <3>2 DEF Tick, Settled, Awaited
        <4>2. due'[g] = due[g] - 1 /\ due[g] \in Nat /\ pc'[g] = pc[g]
          BY <1>3, <4>1
        <4> QED BY <1>1, <1>2, <2>4, <3>1, <3>2, <4>1, <4>2 DEF AwaitedGate
      <3>3. CASE pc[g] \notin {"acquire", "sleep"}
        BY <1>3, <3>1, <3>3 DEF AwaitedGate
      <3> QED BY <3>2, <3>3
    <2> QED BY <1>1, <2>3, <2>4, <2>5, <2>6 DEF Awaited
  <1>5. CASE ~(Adapters = {} /\ Waiting # {})
    <2>1. silent' = 0
      BY <1>5 DEF Tick
    <2>2. ASSUME NEW g \in Gates PROVE AwaitedGate(g)'
      <3>1. AwaitedGate(g)
        BY DEF Awaited
      <3>2. /\ pc'[g] = pc[g] /\ due[g] \in Nat /\ due'[g] \in Nat /\ due'[g] <= due[g]
        BY <1>3
      <3> QED BY <1>1, <1>2, <2>1, <3>1, <3>2 DEF AwaitedGate
    <2> QED BY <1>1, <1>2, <2>1, <2>2 DEF Awaited
  <1> QED BY <1>4, <1>5

LEMMA AwaitedStep == TypeOK /\ TypeOK' /\ Awaited /\ [Next]_vars => Awaited'
  <1> SUFFICES ASSUME TypeOK, TypeOK', Awaited, [Next]_vars PROVE Awaited'
    OBVIOUS
  <1>1. ASSUME NEW g \in Gates, Register(g) \/ AdapterExit(g) \/ GateStep(g) PROVE Awaited'
    BY <1>1, AwaitedAcquire, AwaitedRunning, AwaitedPrompt DEF GateStep
  <1>2. ASSUME NEW r \in Replicas, Shutdown(r) PROVE Awaited'
    BY <1>2 DEF Shutdown, row, Awaited, AwaitedGate
  <1>3. ASSUME NEW r \in Replicas, Crash(r) PROVE Awaited'
    BY <1>3, AwaitedCrash
  <1>4. CASE Tick
    BY <1>4, AwaitedTick
  <1>5. CASE UNCHANGED vars
    BY <1>5 DEF vars, row, Awaited, AwaitedGate
  <1> QED BY <1>1, <1>2, <1>3, <1>4, <1>5 DEF Next

\* An account that lost its adapter has a new one within a TTL and a retry, and as much
\* again for each failed call, as long as a gate waits for it: whichever replicas die
\* and whatever the calls that fail wrote.
THEOREM OutagesAreBounded == Spec => []OutageBounded
  <1>1. TypeOK /\ Awaited => OutageBounded
    <2> SUFFICES ASSUME TypeOK, Awaited PROVE OutageBounded
      OBVIOUS
    <2>1. silent \in Nat /\ errors \in 0..MaxErrors /\ OutageBound \in Nat
      BY OutageBoundType DEF TypeOK
    <2>2. Budget(errors) \in Nat /\ Budget(errors) <= OutageBound /\ silent <= Budget(errors)
      BY <2>1, BudgetFacts DEF Awaited
    <2> QED BY <2>1, <2>2 DEF OutageBounded
  <1> QED BY <1>1, AwaitedInit, AwaitedStep, TypeCorrect, PTL DEF Spec
=============================================================================
