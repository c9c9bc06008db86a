------------------------- MODULE WorkflowRunProofs -------------------------
(***************************************************************************)
(* Proofs about a workflow run, for every definition, set of requests and  *)
(* of Services, timeout and number of faults: under a policy other than    *)
(* "allow" one walker lives at a time in each Service, and under "serial", *)
(* while no two Services walk at once, a node that is not idempotent is    *)
(* called once for each outcome on record, a waiting run has asked, and a  *)
(* run that succeeded went all the way.                                    *)
(***************************************************************************)
EXTENDS WorkflowRun, FiniteSetTheorems, TLAPS

WalkState == {"idle", "acquire", "open", "load", "node", "exec", "park", "edge", "end", "done"}

Walker == [pc : WalkState, node : Nodes \cup {NoNode}, canceled : BOOLEAN,
           form : Nodes \cup {NoNode}, prior : [Nodes -> Row], set : BOOLEAN]

RunStatus == {"none", "running", "waiting"} \cup Terminal
RunRow == [status : RunStatus,
           form : Nodes \cup {NoNode}, age : 0..MaxAge]

\* What the rest needs of the types.
Typed ==
  /\ mode \in {"allow", "serial", "cancel_previous"} /\ svc \in [Walkers -> Services]
  /\ lock \in [Services -> Walkers \cup {NoWalker}]
  /\ inflight \in [Services -> Walkers \cup {NoWalker}]
  /\ rows \in [Nodes -> Row]
  /\ run \in RunRow
  /\ walk \in [Walkers -> Walker]
  /\ calls \in [Once -> Int] /\ split \in BOOLEAN

\* A walker that has come to a node, at whatever stage of it.
AtSomeNode(w) == walk[w].pc \in {"node", "exec", "park", "edge", "end"}
NodeNamed == \A w \in Walkers : AtSomeNode(w) => walk[w].node \in Nodes

WellFormed == Typed /\ NodeNamed

LEMMA RowTyped == NoRow \in Row /\ NoRows \in [Nodes -> Row]
  BY DEF NoRow, NoRows, Row

LEMMA WalkerTyped == Stopped \in Walker /\ Idle \in Walker
  BY RowTyped DEF Stopped, Idle, Walker, WalkState

LEMMA ReleaseTyped ==
  ASSUME NEW held, held \in [Services -> Walkers \cup {NoWalker}], NEW w \in Walkers,
         svc \in [Walkers -> Services]
  PROVE  /\ Release(held, w) \in [Services -> Walkers \cup {NoWalker}]
         /\ \A s \in Services : Release(held, w)[s] = IF s = svc[w] /\ held[s] = w
                                                     THEN NoWalker ELSE held[s]
  BY DEF Release

LEMMA ReturnTyped ==
  ASSUME WellFormed, NEW w \in Walkers, Return(w)
  PROVE  /\ walk' \in [Walkers -> Walker] /\ NodeNamed'
         /\ lock' \in [Services -> Walkers \cup {NoWalker}]
         /\ inflight' \in [Services -> Walkers \cup {NoWalker}]
  <1>1. walk' \in [Walkers -> Walker] /\ NodeNamed'
    BY WalkerTyped DEF WellFormed, Typed, Return, NodeNamed, AtSomeNode, Stopped
  <1>2. lock' = Release(lock, w) /\ inflight' = Release(inflight, w)
    BY DEF Return
  <1> QED BY <1>1, <1>2, ReleaseTyped DEF WellFormed, Typed

LEMMA MaxAgeTyped == MaxAge \in Nat \ {0}
  BY PolicyAssumption DEF MaxAge

\* What the steps do to the run's row.
LEMMA RowChanged ==
  ASSUME run \in RunRow, NEW status \in RunStatus, NEW form \in Nodes \cup {NoNode},
         \/ run' = run
         \/ run' = [run EXCEPT !.status = status]
         \/ run' = [run EXCEPT !.status = status, !.form = form]
  PROVE  run' \in RunRow
  <1>1. CASE run' = run
    BY <1>1
  <1>2. CASE run' = [run EXCEPT !.status = status]
    BY <1>2 DEF RunRow
  <1>3. CASE run' = [run EXCEPT !.status = status, !.form = form]
    BY <1>3 DEF RunRow
  <1> QED BY <1>1, <1>2, <1>3

LEMMA RowReplaced ==
  ASSUME NEW status \in RunStatus
  PROVE  [status |-> status, form |-> NoNode, age |-> 0] \in RunRow
  BY MaxAgeTyped DEF RunRow

LEMMA StatusTyped == Terminal \cup {"none", "running", "waiting"} \subseteq RunStatus
  BY DEF RunStatus

LEMMA TypedInit == Init => WellFormed
  <1> SUFFICES ASSUME Init PROVE WellFormed
    OBVIOUS
  <1>1. run \in RunRow
    BY RowReplaced, StatusTyped DEF Init
  <1>s. mode \in {"allow", "serial", "cancel_previous"} /\ svc \in [Walkers -> Services]
    BY PolicyAssumption DEF Init
  <1>2. lock \in [Services -> Walkers \cup {NoWalker}] /\ inflight \in [Services -> Walkers \cup {NoWalker}]
    BY DEF Init
  <1>3. walk \in [Walkers -> Walker] /\ rows \in [Nodes -> Row]
    BY RowTyped, WalkerTyped DEF Init
  <1>4. calls \in [Once -> Int]
    <2>1. calls = [n \in Once |-> 0]
      BY DEF Init
    <2>2. 0 \in Int
      OBVIOUS
    <2> QED BY <2>1, <2>2
  <1>5a. split \in BOOLEAN
    <2>1. split = FALSE
      BY DEF Init
    <2> QED BY <2>1
  <1>5. Typed
    BY <1>1, <1>s, <1>2, <1>3, <1>4, <1>5a DEF Typed
  <1>6. NodeNamed
    <2>1. walk = [w \in Walkers |-> Idle]
      BY DEF Init
    <2> QED BY <2>1 DEF NodeNamed, AtSomeNode, Idle, Stopped
  <1> QED BY <1>5, <1>6 DEF WellFormed

LEMMA FinishTyped ==
  ASSUME WellFormed, NEW w \in Walkers, NEW verdict \in Terminal, Finish(w, verdict)
  PROVE  WellFormed'
  <1>1. run' \in RunRow
    <2>1. run' = run \/ run' = [run EXCEPT !.status = verdict]
      BY DEF Finish
    <2> QED BY <2>1, RowChanged, StatusTyped, MaxAgeTyped DEF WellFormed, Typed
  <1> QED BY <1>1, ReturnTyped DEF Finish, WellFormed, Typed

LEMMA AppendTyped ==
  ASSUME Typed, NEW n \in Nodes, NEW attempt \in Nat,
         NEW status \in {"succeeded", "failed", "waiting"}, Append(n, attempt, status)
  PROVE  rows' \in [Nodes -> Row]
  BY DEF Typed, Append, Row

LEMMA AttemptTyped ==
  ASSUME WellFormed, NEW w \in Walkers, AtSomeNode(w)
  PROVE  Attempt(w) \in Nat /\ walk[w].node \in Nodes
  BY DEF WellFormed, Typed, NodeNamed, Attempt, Walker, Row

LEMMA ForgetTyped ==
  ASSUME Typed, NEW ns \in SUBSET Walkers, Forget(ns)
  PROVE  calls' \in [Once -> Int]
  <1>1. ASSUME NEW n \in Once PROVE Cardinality({w \in ns : walk[w].node = n}) \in Nat
    <2>1. IsFiniteSet({w \in ns : walk[w].node = n})
      BY FS_Subset, WalkersAssumption
    <2> QED BY <2>1, FS_CardinalityType
  <1> QED BY <1>1 DEF Typed, Forget

\* A walker moves on, at the node where it is.
LEMMA GotoTyped ==
  ASSUME WellFormed, NEW w \in Walkers, NEW pc \in WalkState, Goto(w, pc),
         pc \in {"node", "exec", "park", "edge", "end"} => walk[w].node \in Nodes
  PROVE  walk' \in [Walkers -> Walker] /\ NodeNamed'
  <1>1. [walk[w] EXCEPT !.pc = pc] \in Walker
    BY DEF WellFormed, Typed, Walker
  <1>2. walk' = [walk EXCEPT ![w] = [walk[w] EXCEPT !.pc = pc]]
    BY DEF Goto
  <1>3. walk' \in [Walkers -> Walker]
    BY <1>1, <1>2 DEF WellFormed, Typed
  <1>4. \A v \in Walkers : /\ walk'[v].node = walk[v].node
                           /\ walk'[v].pc = IF v = w THEN pc ELSE walk[v].pc
    BY <1>2 DEF WellFormed, Typed, Walker
  <1> QED BY <1>3, <1>4 DEF WellFormed, NodeNamed, AtSomeNode

\* A walker moves to a node.
LEMMA ArriveTyped ==
  ASSUME WellFormed, NEW w \in Walkers, NEW n \in Nodes, NEW prior \in [Nodes -> Row],
         walk' = [walk EXCEPT ![w] = [walk[w] EXCEPT !.pc = "node", !.node = n, !.prior = prior]]
  PROVE  walk' \in [Walkers -> Walker] /\ NodeNamed'
  <1>1. [walk[w] EXCEPT !.pc = "node", !.node = n, !.prior = prior] \in Walker
    BY DEF WellFormed, Typed, Walker, WalkState
  <1>2. walk' \in [Walkers -> Walker]
    BY <1>1 DEF WellFormed, Typed
  <1>3. \A v \in Walkers : /\ walk'[v].node = IF v = w THEN n ELSE walk[v].node
                           /\ walk'[v].pc = IF v = w THEN "node" ELSE walk[v].pc
    BY DEF WellFormed, Typed, Walker
  <1> QED BY <1>2, <1>3 DEF WellFormed, NodeNamed, AtSomeNode

\* The Services that stop, with the walkers they serve.
Hit(gone) == {w \in Walkers : svc[w] \in gone /\ walk[w].pc \notin {"idle", "done"}}
Stops(gone) ==
  /\ Hit(gone) # {} /\ Fault
  /\ walk' = [w \in Walkers |-> IF w \in Hit(gone) THEN Stopped ELSE walk[w]]
  /\ lock' = [s \in Services |-> IF s \in gone THEN NoWalker ELSE lock[s]]
  /\ inflight' = [s \in Services |-> IF s \in gone THEN NoWalker ELSE inflight[s]]
  /\ Forget({w \in Hit(gone) : walk[w].pc = "exec"})
  /\ UNCHANGED <<mode, run, rows, quiet, svc, split>>

LEMMA CrashIs == Crash => \E gone \in SUBSET Services : Stops(gone)
  BY DEF Crash, Stops, Hit

LEMMA TypedNext == WellFormed /\ [Next]_vars => WellFormed'
  <1> SUFFICES ASSUME WellFormed, [Next]_vars PROVE WellFormed'
    OBVIOUS
  <1>1. CASE UNCHANGED vars
    BY <1>1 DEF vars, WellFormed, Typed, NodeNamed, AtSomeNode
  <1>2. CASE Trigger
    <2> DEFINE q == [walk[Starter] EXCEPT !.pc = "acquire"]
    <2>1. walk' = [walk EXCEPT ![Starter] = q] /\ Starter \in Walkers
      BY <1>2, WalkersAssumption DEF Trigger
    <2>2. q \in Walker /\ q.pc = "acquire"
      BY <2>1 DEF WellFormed, Typed, Walker, WalkState
    <2> HIDE DEF q
    <2>3. walk' \in [Walkers -> Walker] /\ NodeNamed'
      BY <2>1, <2>2 DEF WellFormed, Typed, NodeNamed, AtSomeNode
    <2> QED BY <1>2, <2>3 DEF Trigger, WellFormed, Typed
  <1>3. ASSUME NEW w \in Walkers, Resume(w) \/ Walk(w) \/ StatementFails(w) \/ Disconnect(w)
        PROVE  WellFormed'
    <2>1. CASE Resume(w)
      <3> DEFINE form == IF run.status = "waiting" THEN run.form ELSE NoNode
                 q == [walk[w] EXCEPT !.pc = "acquire", !.form = form]
      <3>1. form \in Nodes \cup {NoNode}
        BY DEF WellFormed, Typed, RunRow
      <3>2. walk' = [walk EXCEPT ![w] = q]
        BY <2>1 DEF Resume
      <3> HIDE DEF form
      <3>3. q \in Walker /\ q.pc = "acquire"
        BY <3>1 DEF WellFormed, Typed, Walker, WalkState
      <3> HIDE DEF q
      <3>4. walk' \in [Walkers -> Walker] /\ NodeNamed'
        BY <3>2, <3>3 DEF WellFormed, Typed, NodeNamed, AtSomeNode
      <3> QED BY <2>1, <3>4 DEF Resume, WellFormed, Typed
    <2>2. CASE Acquire(w)
      <3>0. /\ lock' \in [Services -> Walkers \cup {NoWalker}]
            /\ inflight' \in [Services -> Walkers \cup {NoWalker}]
        BY <2>2 DEF Acquire, WellFormed, Typed
      <3>s. split' \in BOOLEAN
        BY <2>2 DEF Acquire, Split
      <3>1. CASE Goto(w, "open")
        BY <2>2, <3>0, <3>s, <3>1, GotoTyped DEF Acquire, WellFormed, Typed, WalkState
      <3>2. CASE walk' = [v \in Walkers |->
                            IF v = w THEN [walk[v] EXCEPT !.pc = "open"]
                            ELSE IF v = inflight[svc[w]] THEN [walk[v] EXCEPT !.canceled = TRUE]
                            ELSE walk[v]]
        <4>1. \A v \in Walkers : /\ walk'[v] \in Walker /\ walk'[v].node = walk[v].node
                                 /\ walk'[v].pc = IF v = w THEN "open" ELSE walk[v].pc
          <5> SUFFICES ASSUME NEW v \in Walkers
                       PROVE  /\ walk'[v] \in Walker /\ walk'[v].node = walk[v].node
                              /\ walk'[v].pc = IF v = w THEN "open" ELSE walk[v].pc
            OBVIOUS
          <5>1. walk[v] \in Walker
            BY DEF WellFormed, Typed
          <5>2. CASE v = w
            BY <3>2, <5>1, <5>2 DEF Walker, WalkState
          <5>3. CASE v # w /\ v = inflight[svc[w]]
            BY <3>2, <5>1, <5>3 DEF Walker
          <5>4. CASE v # w /\ v # inflight[svc[w]]
            BY <3>2, <5>1, <5>4
          <5> QED BY <5>2, <5>3, <5>4
        <4>a. DOMAIN walk' = Walkers /\ walk' = [v \in Walkers |-> walk'[v]]
          BY <3>2
        <4>b. walk' \in [Walkers -> Walker]
          BY <4>a, <4>1
        <4>c. NodeNamed'
          <5> SUFFICES ASSUME NEW v \in Walkers, walk'[v].pc \in {"node", "exec", "park", "edge", "end"}
                       PROVE  walk'[v].node \in Nodes
            BY DEF NodeNamed, AtSomeNode
          <5>1. v # w
            BY <4>1
          <5>2. walk'[v].pc = walk[v].pc /\ walk'[v].node = walk[v].node
            BY <4>1, <5>1
          <5> QED BY <5>2 DEF WellFormed, NodeNamed, AtSomeNode
        <4>2. walk' \in [Walkers -> Walker] /\ NodeNamed'
          BY <4>b, <4>c
        <4>3. UNCHANGED <<mode, svc, rows, run, calls>>
          BY <2>2 DEF Acquire
        <4>4. Typed
          BY DEF WellFormed
        <4>5. /\ mode' = mode /\ svc' = svc /\ rows' = rows /\ run' = run /\ calls' = calls
          BY <4>3
        <4>6. Typed'
          BY <3>0, <3>s, <4>2, <4>4, <4>5 DEF Typed
        <4> QED BY <4>2, <4>6 DEF WellFormed
      <3>3. CASE mode # "cancel_previous"
        <4>1. Goto(w, "open")
          BY <2>2, <3>3 DEF Acquire
        <4> QED BY <3>1, <4>1
      <3>4. CASE mode = "cancel_previous"
        <4>1. walk' = [v \in Walkers |->
                         IF v = w THEN [walk[v] EXCEPT !.pc = "open"]
                         ELSE IF v = inflight[svc[w]] THEN [walk[v] EXCEPT !.canceled = TRUE]
                         ELSE walk[v]]
          BY <2>2, <3>4 DEF Acquire
        <4> QED BY <3>2, <4>1
      <3> QED BY <3>3, <3>4
    <2>3. CASE Open(w)
      <3>1. CASE w = Starter
        <4>1. walk' = [walk EXCEPT ![w] = [walk[w] EXCEPT !.pc = "node", !.node = Entry,
                                                          !.prior = walk[w].prior]]
          <5> DEFINE q == walk[w]
          <5>1. walk' = [walk EXCEPT ![w] = [q EXCEPT !.pc = "node", !.node = Entry]]
            BY <2>3, <3>1 DEF Open
          <5>2. q \in Walker
            BY DEF WellFormed, Typed
          <5> HIDE DEF q
          <5>3. [q EXCEPT !.pc = "node", !.node = Entry]
                  = [q EXCEPT !.pc = "node", !.node = Entry, !.prior = q.prior]
            BY <5>2 DEF Walker
          <5>4. walk' = [walk EXCEPT ![w] = [q EXCEPT !.pc = "node", !.node = Entry,
                                                      !.prior = q.prior]]
            BY <5>1, <5>3
          <5> QED BY <5>4 DEF q
        <4>2. Entry \in Nodes /\ walk[w].prior \in [Nodes -> Row]
          BY GraphAssumption DEF WellFormed, Typed, Walker
        <4>3. walk' \in [Walkers -> Walker] /\ NodeNamed'
          BY <4>1, <4>2, ArriveTyped
        <4>4. run' \in RunRow
          BY <2>3, <3>1, RowReplaced, StatusTyped DEF Open
        <4> QED BY <2>3, <4>3, <4>4 DEF Open, WellFormed, Typed
      <3>2. CASE w # Starter
        <4>1. walk' \in [Walkers -> Walker] /\ NodeNamed'
          BY <2>3, <3>2, GotoTyped DEF Open, WalkState
        <4>2. run' \in RunRow
          <5>1. run' = run \/ run' = [run EXCEPT !.status = "running", !.form = NoNode]
            BY <2>3, <3>2 DEF Open
          <5> QED BY <5>1, RowChanged, StatusTyped, MaxAgeTyped DEF WellFormed, Typed
        <4> QED BY <2>3, <4>1, <4>2 DEF Open, WellFormed, Typed
      <3> QED BY <3>1, <3>2
    <2>4. CASE Load(w)
      BY <2>4, GraphAssumption, ArriveTyped DEF Load, WellFormed, Typed
    <2>5. CASE Cancel(w) \/ Refuse(w) \/ EndFailed(w) \/ NoEdge(w) \/ Complete(w)
      BY <2>5, FinishTyped DEF Cancel, Refuse, EndFailed, NoEdge, Complete, Terminal
    <2>6. CASE Invoke(w)
      <3>1. walk[w].node \in Nodes
        BY <2>6 DEF Invoke, AtNode, WellFormed, NodeNamed, AtSomeNode
      <3>2. calls' \in [Once -> Int]
        BY <2>6 DEF Invoke, WellFormed, Typed
      <3> QED BY <2>6, <3>1, <3>2, GotoTyped DEF Invoke, WellFormed, Typed, WalkState
    <2>7. CASE Record(w)
      <3> DEFINE set == walk[w].set \/ Kind[walk[w].node] = "set"
                 q == [walk[w] EXCEPT !.pc = "edge", !.set = set]
      <3>a. walk[w].node \in Nodes
        BY <2>7 DEF Record, WellFormed, NodeNamed, AtSomeNode
      <3>b. q \in Walker /\ q.pc = "edge" /\ q.node = walk[w].node
        BY DEF WellFormed, Typed, Walker, WalkState
      <3>c. ASSUME walk' = [walk EXCEPT ![w] = q] PROVE walk' \in [Walkers -> Walker] /\ NodeNamed'
        <4> HIDE DEF q
        <4> QED BY <3>a, <3>b, <3>c DEF WellFormed, Typed, NodeNamed, AtSomeNode
      <3>1. walk' \in [Walkers -> Walker] /\ NodeNamed'
        BY <2>7, <3>a, <3>c, GotoTyped DEF Record, WalkState
      <3>2. rows' \in [Nodes -> Row]
        BY <2>7, AttemptTyped, AppendTyped DEF Record, WellFormed, AtSomeNode
      <3> QED BY <2>7, <3>1, <3>2 DEF Record, WellFormed, Typed
    <2>8. CASE Form(w)
      <3>0. walk[w].node \in Nodes
        BY <2>8 DEF Form, AtNode, WellFormed, NodeNamed, AtSomeNode
      <3>1. walk' \in [Walkers -> Walker] /\ NodeNamed'
        BY <2>8, <3>0, GotoTyped DEF Form, WalkState
      <3>2. rows' \in [Nodes -> Row]
        BY <2>8, AttemptTyped, AppendTyped DEF Form, AtNode, WellFormed, AtSomeNode
      <3> QED BY <2>8, <3>1, <3>2 DEF Form, WellFormed, Typed
    <2>9. CASE Park(w)
      <3>1. walk[w].node \in Nodes
        BY <2>9 DEF Park, WellFormed, NodeNamed, AtSomeNode
      <3>2. run' \in RunRow
        <4>1. run' = run \/ run' = [run EXCEPT !.status = "waiting", !.form = walk[w].node]
          BY <2>9 DEF Park
        <4> QED BY <4>1, <3>1, RowChanged, StatusTyped, MaxAgeTyped DEF WellFormed, Typed
      <3> QED BY <2>9, <3>2, ReturnTyped DEF Park, WellFormed, Typed
    <2>10. CASE Follow(w)
      <3>1. walk[w].node \in Nodes
        BY <2>10 DEF Follow, Passed, AtNode, WellFormed, NodeNamed, AtSomeNode
      <3>p. PICK m \in Succ[walk[w].node] :
              walk' = [walk EXCEPT ![w].pc = "node", ![w].node = m]
        BY <2>10 DEF Follow
      <3>2. walk' = [walk EXCEPT ![w] = [walk[w] EXCEPT !.pc = "node", !.node = m,
                                                        !.prior = walk[w].prior]]
        BY <3>p DEF WellFormed, Typed, Walker
      <3>3. m \in Nodes /\ walk[w].prior \in [Nodes -> Row]
        BY <3>1, GraphAssumption DEF WellFormed, Typed, Walker
      <3> QED BY <2>10, <3>2, <3>3, ArriveTyped DEF Follow, WellFormed, Typed
    <2>11. CASE StatementFails(w)
      <3>1. calls' \in [Once -> Int]
        BY <2>11, ForgetTyped DEF StatementFails, WellFormed, Typed
      <3> QED BY <2>11, <3>1, ReturnTyped DEF StatementFails, WellFormed, Typed
    <2>12. CASE Disconnect(w)
      <3> DEFINE q == [walk[w] EXCEPT !.canceled = TRUE]
      <3>1. walk' = [walk EXCEPT ![w] = q]
        BY <2>12 DEF Disconnect
      <3>2. q \in Walker /\ q.pc = walk[w].pc /\ q.node = walk[w].node
        BY DEF WellFormed, Typed, Walker
      <3> HIDE DEF q
      <3>3. walk' \in [Walkers -> Walker] /\ NodeNamed'
        BY <3>1, <3>2 DEF WellFormed, Typed, NodeNamed, AtSomeNode
      <3> QED BY <2>12, <3>3 DEF Disconnect, WellFormed, Typed
    <2> QED BY <1>3, <2>1, <2>2, <2>3, <2>4, <2>5, <2>6, <2>7, <2>8, <2>9, <2>10, <2>11, <2>12
            DEF Walk
  <1>4. CASE Crash
    <2>1. PICK gone \in SUBSET Services : Stops(gone)
      BY <1>4, CrashIs
    <2>2. calls' \in [Once -> Int]
      <3>1. {w \in Hit(gone) : walk[w].pc = "exec"} \in SUBSET Walkers
        BY DEF Hit
      <3> QED BY <2>1, <3>1, ForgetTyped DEF Stops, WellFormed
    <2>3. walk' \in [Walkers -> Walker] /\ NodeNamed'
      BY <2>1, WalkerTyped DEF Stops, WellFormed, Typed, NodeNamed, AtSomeNode, Stopped
    <2>4. /\ lock' \in [Services -> Walkers \cup {NoWalker}]
          /\ inflight' \in [Services -> Walkers \cup {NoWalker}]
      BY <2>1 DEF Stops, WellFormed, Typed
    <2> QED BY <2>1, <2>2, <2>3, <2>4 DEF Stops, WellFormed, Typed
  <1>5. CASE Delete
    <2>1. ASSUME NEW n \in Once
          PROVE  Cardinality({w \in Walkers : walk[w].pc = "exec" /\ walk[w].node = n}) \in Nat
      BY FS_Subset, FS_CardinalityType, WalkersAssumption
    <2>2. run' \in RunRow
      BY <1>5, RowReplaced, StatusTyped DEF Delete
    <2> QED BY <1>5, <2>1, <2>2, RowTyped DEF Delete, WellFormed, Typed, NodeNamed, AtSomeNode
  <1>6. CASE TimeoutWaiting \/ FailStale \/ Tick
    <2>1. run' \in RunRow
      <3>1. CASE TimeoutWaiting \/ FailStale
        <4>1. PICK status \in Terminal : run' = [run EXCEPT !.status = status]
          BY <3>1 DEF TimeoutWaiting, FailStale, Terminal
        <4> QED BY <4>1, RowChanged, StatusTyped, MaxAgeTyped DEF WellFormed, Typed
      <3>2. CASE Tick
        <4> DEFINE age == IF run.age < MaxAge THEN run.age + 1 ELSE run.age
        <4>1. age \in 0..MaxAge
          BY MaxAgeTyped DEF WellFormed, Typed, RunRow
        <4>2. run' = [run EXCEPT !.age = age]
          BY <3>2 DEF Tick
        <4> HIDE DEF age
        <4> QED BY <4>1, <4>2 DEF WellFormed, Typed, RunRow
      <3> QED BY <1>6, <3>1, <3>2
    <2>2. UNCHANGED <<mode, svc, rows, lock, inflight, walk, calls, split>>
      BY <1>6 DEF TimeoutWaiting, FailStale, Tick
    <2> QED BY <2>1, <2>2 DEF WellFormed, Typed, NodeNamed, AtSomeNode
  <1> QED BY <1>1, <1>2, <1>3, <1>4, <1>5, <1>6 DEF Next

----------------------------------------------------------------------------
(* One live walker at a time.                                               *)

\* Under "serial" whoever walks holds the mutex of its Service; under "cancel_previous"
\* whoever walks with a live context is in its slot.  Unless "split" says so, no two
\* Services walk.
Admitted ==
  /\ mode = "serial" => \A w \in Walkers : Walking(w) => lock[svc[w]] = w
  /\ mode = "cancel_previous" =>
       \A w \in Walkers : Walking(w) /\ ~walk[w].canceled => inflight[svc[w]] = w
  /\ ~split => \A v, w \in Walkers : Walking(v) /\ Walking(w) => svc[v] = svc[w]

OneAtATime == WellFormed /\ Admitted

LEMMA OneWalks ==
  ASSUME OneAtATime, Serial, NEW v \in Walkers, NEW w \in Walkers, Walking(v), Walking(w)
  PROVE  v = w
  <1>1. svc[v] = svc[w] /\ lock[svc[v]] = v /\ lock[svc[w]] = w
    BY DEF OneAtATime, Admitted, Serial
  <1> QED BY <1>1

\* No other walker is touched, and this one does not begin to walk or come back to life.
Quiet(w) ==
  /\ \A v \in Walkers \ {w} : walk'[v] = walk[v]
  /\ Walking(w)' => Walking(w)
  /\ walk[w].canceled => walk'[w].canceled

LEMMA QuietAdmitted ==
  ASSUME OneAtATime, NEW w \in Walkers, Quiet(w), UNCHANGED <<mode, svc, lock, inflight, split>>
  PROVE  Admitted'
  <1>1. ASSUME NEW v \in Walkers
        PROVE  /\ Walking(v)' => Walking(v)
               /\ walk[v].canceled => walk'[v].canceled
    <2>1. CASE v = w
      BY <2>1 DEF Quiet
    <2>2. CASE v # w
      <3>1. walk'[v] = walk[v]
        BY <2>2 DEF Quiet
      <3> QED BY <3>1 DEF Walking
    <2> QED BY <2>1, <2>2
  <1>2. mode' = "serial" => \A v \in Walkers : Walking(v)' => lock'[svc'[v]] = v
    BY <1>1 DEF OneAtATime, Admitted
  <1>3. mode' = "cancel_previous" =>
          \A v \in Walkers : Walking(v)' /\ ~walk'[v].canceled => inflight'[svc'[v]] = v
    BY <1>1 DEF OneAtATime, Admitted
  <1>4. ~split' => \A u, v \in Walkers : Walking(u)' /\ Walking(v)' => svc'[u] = svc'[v]
    BY <1>1 DEF OneAtATime, Admitted
  <1> QED BY <1>2, <1>3, <1>4 DEF Admitted

LEMMA GotoQuiet ==
  ASSUME WellFormed, NEW w \in Walkers, NEW pc, Goto(w, pc), Walking(w)
  PROVE  Quiet(w)
  BY DEF WellFormed, Typed, Walker, Goto, Quiet

LEMMA ReturnAdmitted ==
  ASSUME OneAtATime, NEW w \in Walkers, Return(w), UNCHANGED <<mode, svc, split>>
  PROVE  Admitted'
  <1>1. walk'[w].pc = "done" /\ \A v \in Walkers \ {w} : walk'[v] = walk[v]
    BY DEF Return, OneAtATime, WellFormed, Typed, Stopped
  <1>2. \A v \in Walkers : Walking(v)' => v # w /\ Walking(v) /\ walk'[v] = walk[v]
    BY <1>1 DEF Walking
  <1>3. \A s \in Services : /\ lock'[s] # lock[s] => lock[s] = w
                            /\ inflight'[s] # inflight[s] => inflight[s] = w
    BY ReleaseTyped DEF Return, OneAtATime, WellFormed, Typed
  <1>4. \A v \in Walkers : svc[v] \in Services
    BY DEF OneAtATime, WellFormed, Typed
  <1>5. mode' = "serial" => \A v \in Walkers : Walking(v)' => lock'[svc'[v]] = v
    BY <1>2, <1>3, <1>4 DEF OneAtATime, Admitted
  <1>6. mode' = "cancel_previous" =>
          \A v \in Walkers : Walking(v)' /\ ~walk'[v].canceled => inflight'[svc'[v]] = v
    BY <1>2, <1>3, <1>4 DEF OneAtATime, Admitted
  <1>7. ~split' => \A u, v \in Walkers : Walking(u)' /\ Walking(v)' => svc'[u] = svc'[v]
    BY <1>2 DEF OneAtATime, Admitted
  <1> QED BY <1>5, <1>6, <1>7 DEF Admitted

LEMMA AcquireAdmitted ==
  ASSUME OneAtATime, NEW w \in Walkers, Acquire(w)
  PROVE  Admitted'
  <1>t. /\ svc' = svc /\ mode' = mode /\ svc[w] \in Services
        /\ lock \in [Services -> Walkers \cup {NoWalker}]
        /\ inflight \in [Services -> Walkers \cup {NoWalker}]
        /\ walk[w].pc = "acquire" /\ walk \in [Walkers -> Walker]
    BY DEF Acquire, OneAtATime, WellFormed, Typed
  <1>1. \A v \in Walkers \ {w} : /\ walk'[v].pc = walk[v].pc
                                 /\ walk[v].canceled => walk'[v].canceled
                                 /\ mode = "cancel_previous" /\ v = inflight[svc[w]] =>
                                      walk'[v].canceled
    <2>1. CASE mode # "cancel_previous"
      <3>1. \A v \in Walkers \ {w} : walk'[v] = walk[v]
        BY <1>t, <2>1 DEF Acquire, Goto
      <3> QED BY <2>1, <3>1
    <2>2. CASE mode = "cancel_previous"
      <3>1. \A v \in Walkers \ {w} : walk'[v] = IF v = inflight[svc[w]]
                                               THEN [walk[v] EXCEPT !.canceled = TRUE]
                                               ELSE walk[v]
        BY <2>2 DEF Acquire
      <3>2. \A v \in Walkers : walk[v] \in Walker
        BY <1>t
      <3> QED BY <3>1, <3>2 DEF Walker
    <2> QED BY <2>1, <2>2
  <1>2. \A v \in Walkers \ {w} : Walking(v)' => Walking(v)
    BY <1>1 DEF Walking
  <1>3. mode' = "serial" => \A v \in Walkers : Walking(v)' => lock'[svc'[v]] = v
    <2> SUFFICES ASSUME mode = "serial", NEW v \in Walkers, Walking(v)'
                 PROVE  lock'[svc[v]] = v
      BY <1>t
    <2>1. lock[svc[w]] = NoWalker /\ lock' = [lock EXCEPT ![svc[w]] = w]
      BY DEF Acquire
    <2>2. CASE v = w
      BY <1>t, <2>1, <2>2
    <2>3. CASE v # w
      <3>1. lock[svc[v]] = v
        BY <1>2, <2>3 DEF OneAtATime, Admitted
      <3>2. svc[v] # svc[w] /\ svc[v] \in Services
        BY <2>1, <3>1, WalkersAssumption DEF OneAtATime, WellFormed, Typed
      <3> QED BY <1>t, <2>1, <3>1, <3>2
    <2> QED BY <2>2, <2>3
  <1>4. mode' = "cancel_previous" =>
          \A v \in Walkers : Walking(v)' /\ ~walk'[v].canceled => inflight'[svc'[v]] = v
    <2> SUFFICES ASSUME mode = "cancel_previous", NEW v \in Walkers, Walking(v)',
                        ~walk'[v].canceled
                 PROVE  inflight'[svc[v]] = v
      BY <1>t
    <2>1. inflight' = [inflight EXCEPT ![svc[w]] = w]
      BY DEF Acquire
    <2>2. CASE v = w
      BY <1>t, <2>1, <2>2
    <2>3. CASE v # w
      <3>1. inflight[svc[v]] = v /\ v # inflight[svc[w]]
        BY <1>1, <1>2, <2>3 DEF OneAtATime, Admitted
      <3>2. svc[v] # svc[w] /\ svc[v] \in Services
        BY <3>1 DEF OneAtATime, WellFormed, Typed
      <3> QED BY <1>t, <2>1, <3>1, <3>2
    <2> QED BY <2>2, <2>3
  <1>5. ~split' => \A u, v \in Walkers : Walking(u)' /\ Walking(v)' => svc'[u] = svc'[v]
    <2> SUFFICES ASSUME ~split' PROVE \A u, v \in Walkers :
                                        Walking(u)' /\ Walking(v)' => svc[u] = svc[v]
      BY <1>t
    <2>1. ~split /\ \A v \in Walkers : Walking(v) => svc[v] = svc[w]
      BY DEF Acquire, Split
    <2> QED BY <1>2, <2>1
  <1> QED BY <1>3, <1>4, <1>5 DEF Admitted

LEMMA CrashAdmitted ==
  ASSUME OneAtATime, Crash PROVE Admitted'
  <1>1. PICK gone \in SUBSET Services : Stops(gone)
    BY CrashIs
  <1>2. \A v \in Walkers : /\ Walking(v)' => Walking(v) /\ walk'[v] = walk[v]
                                             /\ svc[v] \notin gone
    BY <1>1 DEF Stops, Hit, Walking, Stopped
  <1>3. \A s \in Services \ gone : lock'[s] = lock[s] /\ inflight'[s] = inflight[s]
    BY <1>1 DEF Stops
  <1>4. UNCHANGED <<mode, svc, split>> /\ \A v \in Walkers : svc[v] \in Services
    BY <1>1 DEF Stops, OneAtATime, WellFormed, Typed
  <1>5. mode' = "serial" => \A v \in Walkers : Walking(v)' => lock'[svc'[v]] = v
    BY <1>2, <1>3, <1>4 DEF OneAtATime, Admitted
  <1>6. mode' = "cancel_previous" =>
          \A v \in Walkers : Walking(v)' /\ ~walk'[v].canceled => inflight'[svc'[v]] = v
    BY <1>2, <1>3, <1>4 DEF OneAtATime, Admitted
  <1>7. ~split' => \A u, v \in Walkers : Walking(u)' /\ Walking(v)' => svc'[u] = svc'[v]
    BY <1>2, <1>4 DEF OneAtATime, Admitted
  <1> QED BY <1>5, <1>6, <1>7 DEF Admitted

LEMMA AdmittedNext == OneAtATime /\ [Next]_vars => OneAtATime'
  <1> SUFFICES ASSUME OneAtATime, [Next]_vars PROVE Admitted'
    BY TypedNext DEF OneAtATime
  <1>1. CASE UNCHANGED vars
    BY <1>1 DEF vars, OneAtATime, Admitted, Walking
  <1>2. CASE Trigger
    <2>1. Quiet(Starter)
      BY <1>2, WalkersAssumption DEF Trigger, Quiet, Walking, OneAtATime, WellFormed, Typed, Walker
    <2> QED BY <1>2, <2>1, QuietAdmitted, WalkersAssumption DEF Trigger
  <1>3. ASSUME NEW w \in Walkers, Resume(w) \/ Walk(w) \/ StatementFails(w) \/ Disconnect(w)
        PROVE  Admitted'
    <2>1. CASE Resume(w)
      <3>1. walk'[w].pc = "acquire" /\ walk'[w].canceled = walk[w].canceled
        BY <2>1 DEF Resume, OneAtATime, WellFormed, Typed, Walker
      <3>2. Quiet(w)
        BY <2>1, <3>1 DEF Resume, Quiet, Walking, OneAtATime, WellFormed, Typed
      <3> QED BY <2>1, <3>2, QuietAdmitted DEF Resume
    <2>2. CASE Acquire(w)
      BY <2>2, AcquireAdmitted
    <2>3. CASE Open(w) \/ Load(w) \/ Invoke(w) \/ Record(w) \/ Form(w) \/ Follow(w)
      <3>1. Quiet(w)
        <4>1. Walking(w)
          BY <2>3 DEF Walking, Open, Load, Invoke, Record, Form, Follow, Passed, AtNode
        <4>2. (\A v \in Walkers \ {w} : walk'[v] = walk[v]) /\ walk'[w].canceled = walk[w].canceled
          <5> USE DEF OneAtATime, WellFormed, Typed, Walker
          <5>1. CASE Open(w) \/ Load(w)
            BY <5>1 DEF Open, Load, Goto
          <5>2. CASE Invoke(w) \/ Record(w)
            BY <5>2 DEF Invoke, Record, Goto
          <5>3. CASE Form(w)
            BY <5>3 DEF Form, Goto
          <5>4. CASE Follow(w)
            BY <5>4 DEF Follow
          <5> QED BY <2>3, <5>1, <5>2, <5>3, <5>4
        <4> QED BY <4>1, <4>2 DEF Quiet
      <3>2. UNCHANGED <<mode, svc, lock, inflight, split>>
        BY <2>3 DEF Open, Load, Invoke, Record, Form, Follow
      <3> QED BY <3>1, <3>2, QuietAdmitted
    <2>4. CASE \/ Cancel(w) \/ Refuse(w) \/ EndFailed(w) \/ NoEdge(w) \/ Complete(w)
               \/ Park(w) \/ StatementFails(w)
      <3>1. Return(w) /\ UNCHANGED <<mode, svc, split>>
        BY <2>4 DEF Cancel, Refuse, EndFailed, NoEdge, Complete, Finish, Park, StatementFails
      <3> QED BY <3>1, ReturnAdmitted
    <2>5. CASE Disconnect(w)
      <3>1. Quiet(w)
        BY <2>5 DEF Disconnect, Quiet, Walking, OneAtATime, WellFormed, Typed, Walker
      <3> QED BY <2>5, <3>1, QuietAdmitted DEF Disconnect
    <2> QED BY <1>3, <2>1, <2>2, <2>3, <2>4, <2>5 DEF Walk
  <1>4. CASE Crash
    BY <1>4, CrashAdmitted
  <1>5. CASE Delete \/ TimeoutWaiting \/ FailStale \/ Tick
    BY <1>5 DEF Delete, TimeoutWaiting, FailStale, Tick, OneAtATime, Admitted, Walking
  <1> QED BY <1>1, <1>2, <1>3, <1>4, <1>5 DEF Next

LEMMA AdmittedInit == Init => OneAtATime
  BY TypedInit DEF Init, OneAtATime, Admitted, Walking, Idle, Stopped

LEMMA AdmittedIsOneLive == OneAtATime => OneLive
  <1> SUFFICES ASSUME OneAtATime, mode # "allow", NEW s \in Services
               PROVE  Cardinality({w \in Walkers : svc[w] = s /\ Walking(w) /\ ~walk[w].canceled}) <= 1
    BY DEF OneLive
  <1> DEFINE Alive == {w \in Walkers : svc[w] = s /\ Walking(w) /\ ~walk[w].canceled}
  <1>1. mode \in {"serial", "cancel_previous"}
    BY DEF OneAtATime, WellFormed, Typed
  <1>2. \A v, w \in Alive : v = w
    BY <1>1 DEF OneAtATime, Admitted
  <1>3. CASE Alive = {}
    <2>1. Cardinality(Alive) = 0
      BY <1>3, FS_EmptySet
    <2> QED BY <2>1
  <1>4. CASE Alive # {}
    <2>1. PICK w \in Alive : TRUE
      BY <1>4
    <2>2. Alive = {w}
      BY <1>2, <2>1
    <2>3. Cardinality(Alive) = 1
      BY <2>2, FS_Singleton
    <2> QED BY <2>3
  <1> QED BY <1>3, <1>4

\* However requests, disconnects, crashes and sweeps interleave, and however many
\* replicas and reloads there are, no two requests of one Service walk a workflow of
\* policy "serial" or "cancel_previous" with a live context.
THEOREM OneLiveWalker == Spec => []OneLive
  <1>1. Init => OneAtATime
    BY AdmittedInit
  <1>2. OneAtATime /\ [Next]_vars => OneAtATime'
    BY AdmittedNext
  <1>3. OneAtATime => OneLive
    BY AdmittedIsOneLive
  <1> QED BY <1>1, <1>2, <1>3, PTL DEF Spec

----------------------------------------------------------------------------
(* Under "serial", one call of a node that is not idempotent for each row.  *)

Outcomes == {"succeeded", "failed"}

\* The walk has been at n; it has not appended a row of n.
Past(w, n) == n < walk[w].node \/ (n = walk[w].node /\ walk[w].pc # "node")
Unwritten(w, n) == n > walk[w].node \/ (n = walk[w].node /\ walk[w].pc \in {"node", "exec"})
Executed(n) == \E w \in Walkers : walk[w].pc = "exec" /\ walk[w].node = n

\* Nobody resumes a run that has not been created.
Fresh ==
  walk[Starter].pc \in {"idle", "acquire", "open"} =>
    /\ run.status = "none" /\ rows = NoRows /\ \A n \in Once : calls[n] = 0
    /\ walk[Starter].prior = NoRows
    /\ \A w \in Walkers \ {Starter} : walk[w].pc = "idle"

\* What a walker knows of n: a call it has not come to itself left an outcome in its
\* snapshot, and its own row will be the newest.
Knows(w, n) ==
  /\ calls[n] >= 1 => Past(w, n) \/ walk[w].prior[n].status \in Outcomes
  /\ Unwritten(w, n) => rows[n].attempt <= walk[w].prior[n].attempt

\* A call is on record, or its node is being executed.
OnRecord(n) ==
  /\ calls[n] <= 1
  /\ calls[n] >= 1 => rows[n].status \in Outcomes \/ Executed(n)

Remembered ==
  Serial =>
    \A n \in Once : OnRecord(n) /\ \A w \in Walkers : AtSomeNode(w) => Knows(w, n)

OnceInv == OneAtATime /\ Fresh /\ Remembered

\* The walkers at work, and what they know, are as before.
Same(w) ==
  /\ walk'[w].pc = walk[w].pc \/ (walk[w].pc # "exec" /\ ~AtSomeNode(w)')
  /\ (walk'[w].node = walk[w].node /\ walk'[w].prior = walk[w].prior) \/ ~AtSomeNode(w)'

LEMMA SameRemembered ==
  ASSUME OnceInv, \A w \in Walkers : Same(w), UNCHANGED <<mode, rows, calls>>,
         split => split'
  PROVE  Remembered'
  <1> SUFFICES ASSUME Serial, NEW n \in Once
               PROVE  OnRecord(n)' /\ \A w \in Walkers : AtSomeNode(w)' => Knows(w, n)'
    BY DEF Remembered, Serial
  <1>1. OnRecord(n) /\ \A w \in Walkers : AtSomeNode(w) => Knows(w, n)
    BY DEF OnceInv, Remembered
  <1>2. Executed(n) => Executed(n)'
    BY DEF Executed, Same, AtSomeNode
  <1>3. OnRecord(n)'
    BY <1>1, <1>2 DEF OnRecord
  <1>4. ASSUME NEW w \in Walkers, AtSomeNode(w)'
        PROVE  AtSomeNode(w) /\ UNCHANGED <<walk[w].pc, walk[w].node, walk[w].prior>>
    BY <1>4 DEF Same, AtSomeNode
  <1>5. ASSUME NEW w \in Walkers, AtSomeNode(w)' PROVE Knows(w, n)'
    BY <1>1, <1>4, <1>5 DEF Knows, Past, Unwritten
  <1> QED BY <1>3, <1>5

\* Under "serial" a walker at work is alone, so what it does is all there is to check.
LEMMA AloneRemembered ==
  ASSUME OnceInv, NEW w \in Walkers, Walking(w), UNCHANGED <<mode, split>>,
         \A v \in Walkers \ {w} : walk'[v] = walk[v],
         Serial =>
           \A n \in Once : OnRecord(n)' /\ (AtSomeNode(w)' => Knows(w, n)')
  PROVE  Remembered'
  <1> SUFFICES ASSUME Serial PROVE Remembered'
    BY DEF Remembered, Serial
  <1>1. \A v \in Walkers \ {w} : ~AtSomeNode(v)'
    BY OneWalks DEF OnceInv, Walking, AtSomeNode
  <1> QED BY <1>1 DEF Remembered

LEMMA Alone ==
  ASSUME OnceInv, Serial, NEW w \in Walkers, Walking(w), NEW n, Executed(n)
  PROVE  walk[w].pc = "exec" /\ walk[w].node = n
  <1>1. PICK v \in Walkers : walk[v].pc = "exec" /\ walk[v].node = n
    BY DEF Executed
  <1>2. v = w
    BY <1>1, OneWalks DEF OnceInv, Walking
  <1> QED BY <1>1, <1>2

LEMMA ReturnSame ==
  ASSUME WellFormed, NEW w \in Walkers, walk[w].pc # "exec", Return(w)
  PROVE  \A v \in Walkers : Same(v)
  BY DEF Return, WellFormed, Typed, Same, AtSomeNode, Stopped

LEMMA OthersKept ==
  ASSUME WellFormed, NEW w \in Walkers, Resume(w) \/ Walk(w) \/ StatementFails(w) \/ Disconnect(w),
         NEW v \in Walkers \ {w}
  PROVE  UNCHANGED <<walk[v].pc, walk[v].node, walk[v].prior>>
  <1> USE DEF WellFormed, Typed, Walker
  <1>1. CASE Acquire(w)
    BY <1>1 DEF Acquire, Goto
  <1>2. CASE Resume(w) \/ Open(w) \/ Load(w) \/ Disconnect(w)
    BY <1>2 DEF Resume, Open, Load, Disconnect, Goto
  <1>3. CASE Invoke(w) \/ Record(w) \/ Form(w) \/ Follow(w)
    BY <1>3 DEF Invoke, Record, Form, Follow, Goto
  <1>4. CASE \/ Cancel(w) \/ Refuse(w) \/ EndFailed(w) \/ NoEdge(w) \/ Complete(w)
             \/ Park(w) \/ StatementFails(w)
    <2>1. Return(w)
      BY <1>4 DEF Cancel, Refuse, EndFailed, NoEdge, Complete, Finish, Park, StatementFails
    <2> QED BY <2>1 DEF Return
  <1> QED BY <1>1, <1>2, <1>3, <1>4 DEF Walk

LEMMA FreshNext ==
  ASSUME OnceInv, [Next]_vars
  PROVE  Fresh'
  <1> SUFFICES ASSUME walk'[Starter].pc \in {"idle", "acquire", "open"} PROVE Fresh'
    BY DEF Fresh
  <1>t. Starter \in Walkers /\ \A w \in Walkers : walk[w] \in Walker
    BY WalkersAssumption DEF OnceInv, OneAtATime, WellFormed, Typed
  <1>1. CASE UNCHANGED vars
    BY <1>1 DEF vars, OnceInv, Fresh
  <1>2. CASE Trigger
    <2>1. \A w \in Walkers : /\ walk'[w].prior = walk[w].prior
                             /\ w # Starter => walk'[w].pc = walk[w].pc
      BY <1>2, <1>t DEF Trigger, OnceInv, OneAtATime, WellFormed, Typed, Walker
    <2> QED BY <1>2, <1>t, <2>1 DEF Trigger, OnceInv, Fresh
  <1>3. ASSUME NEW w \in Walkers, Resume(w) \/ Walk(w) \/ StatementFails(w) \/ Disconnect(w)
        PROVE  Fresh'
    <2>1. CASE Acquire(Starter)
      <3>1. walk[Starter].pc = "acquire" /\ UNCHANGED <<run, rows, calls>>
        BY <2>1 DEF Acquire
      <3>2. \A v \in Walkers \ {Starter} : walk'[v].pc = walk[v].pc
        BY <2>1, <1>t DEF Acquire, Goto, Walker, OnceInv, OneAtATime, WellFormed, Typed
      <3>3. walk'[Starter].prior = walk[Starter].prior
        BY <2>1, <1>t DEF Acquire, Goto, Walker, OnceInv, OneAtATime, WellFormed, Typed
      <3> QED BY <3>1, <3>2, <3>3 DEF OnceInv, Fresh
    <2>2. CASE w = Starter /\ Disconnect(w)
      <3>1. \A v \in Walkers : walk'[v].pc = walk[v].pc /\ walk'[v].prior = walk[v].prior
        BY <2>2, <1>t DEF Disconnect, Walker, OnceInv, OneAtATime, WellFormed, Typed
      <3> QED BY <2>2, <1>t, <3>1 DEF Disconnect, OnceInv, Fresh
    <2>3. CASE w = Starter /\ ~Acquire(w) /\ ~Disconnect(w)
      <3>1. walk'[w].pc \notin {"idle", "acquire", "open"}
        <4>1. CASE Resume(w)
          BY <2>3, <4>1 DEF Resume
        <4>2. CASE Open(w) \/ Load(w) \/ Invoke(w) \/ Follow(w)
          BY <2>3, <4>2, <1>t
          DEF Open, Load, Invoke, Follow, Goto, Walker, OnceInv, OneAtATime, WellFormed, Typed
        <4>3. CASE Record(w) \/ Form(w)
          BY <2>3, <4>3, <1>t DEF Record, Form, Goto, Walker, OnceInv, OneAtATime, WellFormed, Typed
        <4>4. CASE \/ Cancel(w) \/ Refuse(w) \/ EndFailed(w) \/ NoEdge(w) \/ Complete(w)
                   \/ Park(w) \/ StatementFails(w)
          <5>1. Return(w)
            BY <4>4 DEF Cancel, Refuse, EndFailed, NoEdge, Complete, Finish, Park,
                        StatementFails
          <5> QED BY <5>1 DEF Return, Stopped, OnceInv, OneAtATime, WellFormed, Typed
        <4> QED BY <1>3, <2>3, <4>1, <4>2, <4>3, <4>4 DEF Walk
      <3> QED BY <2>3, <3>1
    <2>4. CASE w # Starter
      <3>1. walk[w].pc # "idle" \/ run.status # "none"
        BY <1>3 DEF Resume, Resumable, Walk, Acquire, Open, Load, Cancel, Refuse, Invoke, Record,
                    Form, Park, EndFailed, Follow, NoEdge, Complete, Passed, AtNode,
                    StatementFails, Disconnect
      <3>2. walk'[Starter].pc = walk[Starter].pc
        BY <1>3, <1>t, <2>4, OthersKept DEF OnceInv, OneAtATime
      <3> QED BY <2>4, <3>1, <3>2 DEF OnceInv, Fresh
    <2> QED BY <2>1, <2>2, <2>3, <2>4, <1>3
  <1>4. CASE Crash
    <2>1. PICK gone \in SUBSET Services : Stops(gone)
      BY <1>4, CrashIs
    <2>2. PICK w \in Hit(gone) : walk[w].pc # "idle"
      BY <2>1 DEF Stops, Hit
    <2>3. CASE Starter \in Hit(gone)
      BY <2>1, <2>3, <1>t DEF Stops, Stopped
    <2>4. CASE Starter \notin Hit(gone)
      <3>1. walk'[Starter] = walk[Starter] /\ w \in Walkers \ {Starter}
        BY <2>1, <2>2, <2>4, <1>t DEF Stops, Hit
      <3> QED BY <2>2, <3>1 DEF OnceInv, Fresh
    <2> QED BY <2>3, <2>4
  <1>5. CASE Delete \/ TimeoutWaiting \/ FailStale \/ Tick
    BY <1>5 DEF Delete, TimeoutWaiting, FailStale, Tick, OnceInv, Fresh
  <1> QED BY <1>1, <1>2, <1>3, <1>4, <1>5 DEF Next

\* Each step of the walker at work.
LEMMA OpenRemembered ==
  ASSUME OnceInv, NEW w \in Walkers, Open(w) PROVE Remembered'
  <1>t. walk \in [Walkers -> Walker] /\ Fresh
    BY DEF OnceInv, OneAtATime, WellFormed, Typed
  <1> USE <1>t DEF Walker
  <1>1. CASE w # Starter
    <2>1. \A v \in Walkers : Same(v)
      BY <1>1 DEF Open, Goto, Same, AtSomeNode
    <2>2. UNCHANGED <<mode, split, rows, calls>>
      BY DEF Open
    <2> QED BY <2>1, <2>2, SameRemembered
  <1>2. CASE w = Starter
    <2>1. /\ rows' = NoRows /\ \A n \in Once : calls'[n] = 0
          /\ walk'[w].node = Entry /\ walk'[w].pc = "node"
          /\ walk'[w].prior = NoRows
      BY <1>2 DEF Open, Fresh
    <2>2. \A v \in Walkers \ {w} : ~AtSomeNode(v)'
      BY <1>2 DEF Open, Fresh, AtSomeNode
    <2>3. ASSUME NEW n \in Once PROVE OnRecord(n)' /\ Knows(w, n)'
      BY <2>1 DEF Once, OnRecord, Knows, NoRows, NoRow
    <2> QED BY <2>2, <2>3 DEF Remembered
  <1> QED BY <1>1, <1>2

LEMMA LoadRemembered ==
  ASSUME OnceInv, NEW w \in Walkers, Load(w) PROVE Remembered'
  <1>1. /\ walk[w].pc = "load" /\ UNCHANGED <<mode, split, rows, calls>>
        /\ \A v \in Walkers \ {w} : walk'[v] = walk[v]
        /\ walk'[w].pc = "node" /\ walk'[w].prior = rows
    BY DEF Load, OnceInv, OneAtATime, WellFormed, Typed, Walker
  <1>2. ASSUME Serial, NEW n \in Once PROVE OnRecord(n)' /\ Knows(w, n)'
    <2>1. ~Executed(n)
      BY <1>1, <1>2, Alone DEF Walking
    <2>2. OnRecord(n)
      BY <1>2 DEF OnceInv, Remembered
    <2>3. rows[n].attempt \in Nat
      BY DEF Once, OnceInv, OneAtATime, WellFormed, Typed, Row
    <2> QED BY <1>1, <2>1, <2>2, <2>3 DEF OnRecord, Knows
  <1> QED BY <1>1, <1>2, AloneRemembered DEF Walking

LEMMA InvokeRemembered ==
  ASSUME OnceInv, NEW w \in Walkers, Invoke(w) PROVE Remembered'
  <1>1. /\ walk[w].pc = "node" /\ UNCHANGED <<mode, split, rows>>
        /\ \A v \in Walkers \ {w} : walk'[v] = walk[v]
        /\ walk'[w].pc = "exec" /\ walk'[w].prior = walk[w].prior /\ walk'[w].node = walk[w].node
    BY DEF Invoke, AtNode, Goto, OnceInv, OneAtATime, WellFormed, Typed, Walker
  <1>2. walk[w].node \in Nodes /\ \A n \in Once : calls[n] \in Int
    BY <1>1 DEF OnceInv, OneAtATime, WellFormed, Typed, NodeNamed, AtSomeNode
  <1>3. \A n \in Once : calls'[n] = IF n = walk[w].node THEN calls[n] + 1 ELSE calls[n]
    BY <1>2 DEF Invoke, OnceInv, OneAtATime, WellFormed, Typed
  <1>4. ASSUME Serial, NEW n \in Once PROVE OnRecord(n)' /\ Knows(w, n)'
    <2>1. OnRecord(n) /\ Knows(w, n) /\ ~Executed(n) /\ n \in Nodes
      BY <1>1, <1>4, Alone DEF OnceInv, Remembered, AtSomeNode, Walking, Once
    <2>2. CASE n = walk[w].node
      <3>1. walk[w].prior[n].status \notin Outcomes
        BY <2>2 DEF Invoke, Done, Refused, Prior, Outcomes, Once
      <3>2. ~(calls[n] >= 1)
        BY <1>1, <1>2, <2>1, <2>2, <3>1, GraphAssumption DEF Knows, Past
      <3>3. Executed(n)' /\ calls'[n] <= 1 /\ Past(w, n)'
        BY <1>1, <1>2, <1>3, <2>2, <3>2 DEF Executed, Past, Once
      <3> QED BY <1>1, <2>1, <2>2, <3>3 DEF OnRecord, Knows, Unwritten
    <2>3. CASE n # walk[w].node
      BY <1>1, <1>3, <2>1, <2>3 DEF OnRecord, Knows, Past, Unwritten
    <2> QED BY <2>2, <2>3
  <1> QED BY <1>1, <1>4, AloneRemembered DEF Walking

LEMMA RecordRemembered ==
  ASSUME OnceInv, NEW w \in Walkers, Record(w) PROVE Remembered'
  <1>1. /\ walk[w].pc = "exec" /\ UNCHANGED <<mode, split, calls>>
        /\ \A v \in Walkers \ {w} : walk'[v] = walk[v]
        /\ walk'[w].pc \in {"edge", "end"}
        /\ walk'[w].prior = walk[w].prior /\ walk'[w].node = walk[w].node
    BY DEF Record, Goto, OnceInv, OneAtATime, WellFormed, Typed, Walker
  <1>2. PICK status \in Outcomes : Append(walk[w].node, Attempt(w), status)
    BY DEF Record, Outcomes
  <1>3. walk[w].node \in Nodes /\ rows \in [Nodes -> Row]
    BY <1>1 DEF OnceInv, OneAtATime, WellFormed, Typed, NodeNamed, AtSomeNode
  <1>4. ASSUME Serial, NEW n \in Once PROVE OnRecord(n)' /\ Knows(w, n)'
    <2>1. OnRecord(n) /\ Knows(w, n) /\ n \in Nodes
      BY <1>1, <1>4 DEF OnceInv, Remembered, AtSomeNode, Once
    <2>2. CASE n = walk[w].node
      <3>1. rows[n].attempt <= walk[w].prior[n].attempt
        BY <1>1, <2>1, <2>2 DEF Knows, Unwritten
      <3>2. rows[n].attempt \in Nat /\ walk[w].prior[n].attempt \in Nat
        BY <2>1 DEF OnceInv, OneAtATime, WellFormed, Typed, Walker, Row
      <3>3. Attempt(w) >= rows[n].attempt
        BY <2>2, <3>1, <3>2 DEF Attempt
      <3>4. rows'[n].status \in Outcomes
        <4>1. rows' = [rows EXCEPT ![n] = [attempt |-> Attempt(w), status |-> status]]
          BY <1>2, <2>2, <3>3 DEF Append
        <4> QED BY <1>3, <2>1, <4>1
      <3>5. Past(w, n)' /\ ~Unwritten(w, n)'
        <4>1. n \in Nat
          BY <2>1, GraphAssumption
        <4> QED BY <1>1, <2>2, <4>1 DEF Past, Unwritten
      <3> QED BY <1>1, <2>1, <3>4, <3>5 DEF OnRecord, Knows
    <2>3. CASE n # walk[w].node
      <3>1. rows'[n] = rows[n]
        BY <1>2, <1>3, <2>1, <2>3 DEF Append
      <3>2. ~Executed(n)
        BY <1>1, <1>4, <2>3, Alone DEF Walking
      <3> QED BY <1>1, <2>1, <2>3, <3>1, <3>2 DEF OnRecord, Knows, Past, Unwritten
    <2> QED BY <2>2, <2>3
  <1> QED BY <1>1, <1>4, AloneRemembered DEF Walking

LEMMA FormRemembered ==
  ASSUME OnceInv, NEW w \in Walkers, Form(w) PROVE Remembered'
  <1>1. /\ walk[w].pc = "node" /\ UNCHANGED <<mode, split, calls>>
        /\ \A v \in Walkers \ {w} : walk'[v] = walk[v]
        /\ walk'[w].pc \in {"park", "edge", "end"}
        /\ walk'[w].prior = walk[w].prior /\ walk'[w].node = walk[w].node
    BY DEF Form, AtNode, Goto, OnceInv, OneAtATime, WellFormed, Typed, Walker
  <1>2. PICK status : Append(walk[w].node, Attempt(w), status)
    BY DEF Form
  <1>3. walk[w].node \in Nodes \ Once /\ rows \in [Nodes -> Row]
    BY <1>1 DEF Form, Once, OnceInv, OneAtATime, WellFormed, Typed, NodeNamed, AtSomeNode
  <1>4. ASSUME Serial, NEW n \in Once PROVE OnRecord(n)' /\ Knows(w, n)'
    <2>1. OnRecord(n) /\ Knows(w, n) /\ ~Executed(n) /\ n \in Nodes
      BY <1>1, <1>4, Alone DEF OnceInv, Remembered, AtSomeNode, Walking, Once
    <2>2. n # walk[w].node /\ rows'[n] = rows[n]
      BY <1>2, <1>3, <2>1 DEF Append
    <2> QED BY <1>1, <2>1, <2>2 DEF OnRecord, Knows, Past, Unwritten
  <1> QED BY <1>1, <1>4, AloneRemembered DEF Walking

LEMMA FollowRemembered ==
  ASSUME OnceInv, NEW w \in Walkers, Follow(w) PROVE Remembered'
  <1>1. /\ walk[w].pc = "edge" \/ (walk[w].pc = "node" /\ Done(w))
        /\ UNCHANGED <<mode, split, rows, calls>>
        /\ \A v \in Walkers \ {w} : walk'[v] = walk[v]
        /\ walk'[w].pc = "node" /\ walk'[w].prior = walk[w].prior
    BY DEF Follow, Passed, AtNode, OnceInv, OneAtATime, WellFormed, Typed, Walker
  <1>2. walk[w].node \in Nodes
    BY <1>1 DEF OnceInv, OneAtATime, WellFormed, NodeNamed, AtSomeNode
  <1>3. walk'[w].node \in Succ[walk[w].node]
    BY DEF Follow, OnceInv, OneAtATime, WellFormed, Typed, Walker
  <1>4. /\ walk[w].node < walk'[w].node
        /\ walk[w].node \in Nat /\ walk'[w].node \in Nat /\ Nodes \subseteq Nat
    BY <1>2, <1>3, GraphAssumption
  <1>5. ASSUME Serial, NEW n \in Once PROVE OnRecord(n)' /\ Knows(w, n)'
    <2>1. OnRecord(n) /\ Knows(w, n) /\ ~Executed(n) /\ n \in Nodes
      BY <1>1, <1>5, Alone DEF OnceInv, Remembered, AtSomeNode, Walking, Once
    <2>2. Unwritten(w, n)' => Unwritten(w, n)
      BY <1>1, <1>4, <2>1 DEF Unwritten
    <2>3. calls[n] >= 1 => Past(w, n)' \/ walk[w].prior[n].status \in Outcomes
      BY <1>1, <1>4, <2>1 DEF Knows, Past, Done, Prior, Outcomes
    <2> QED BY <1>1, <2>1, <2>2, <2>3 DEF OnRecord, Knows
  <1> QED BY <1>1, <1>5, AloneRemembered DEF Walking

\* The call whose row is lost is not counted any more.
LEMMA StatementFailsRemembered ==
  ASSUME OnceInv, NEW w \in Walkers, StatementFails(w) PROVE Remembered'
  <1>1. Return(w) /\ UNCHANGED <<mode, split, rows>>
    BY DEF StatementFails
  <1>2. CASE walk[w].pc # "exec"
    <2>1. \A v \in Walkers : Same(v)
      BY <1>1, <1>2, ReturnSame DEF OnceInv, OneAtATime
    <2> QED BY <1>1, <1>2, <2>1, SameRemembered DEF StatementFails
  <1>3. CASE walk[w].pc = "exec"
    <2>1. walk'[w].pc = "done" /\ \A v \in Walkers \ {w} : walk'[v] = walk[v]
      BY <1>1 DEF Return, Stopped, OnceInv, OneAtATime, WellFormed, Typed
    <2>2. ASSUME Serial, NEW n \in Once PROVE OnRecord(n)'
      <3>1. OnRecord(n) /\ n \in Nodes /\ calls[n] \in Int
        BY <2>2 DEF OnceInv, Remembered, Once, OneAtATime, WellFormed, Typed
      <3> DEFINE At == {v \in {w} : walk[v].node = n}
      <3>2. calls'[n] = calls[n] - Cardinality(At)
        BY <1>3, <3>1 DEF StatementFails, Forget
      <3>3. CASE walk[w].node = n
        <4>1. At = {w}
          BY <3>3
        <4>2. calls'[n] = calls[n] - 1
          <5>1. Cardinality(At) = 1
            BY <4>1, FS_Singleton
          <5> QED BY <3>2, <5>1
        <4> QED BY <3>1, <4>2 DEF OnRecord
      <3>4. CASE walk[w].node # n
        <4>1. At = {}
          BY <3>4
        <4>2. calls'[n] = calls[n]
          <5>1. Cardinality(At) = 0
            BY <4>1, FS_EmptySet
          <5> QED BY <3>1, <3>2, <5>1
        <4>3. ~Executed(n)
          BY <1>3, <2>2, <3>4, Alone DEF Walking
        <4> QED BY <1>1, <3>1, <4>2, <4>3 DEF OnRecord
      <3> QED BY <3>3, <3>4
    <2> QED BY <1>1, <1>3, <2>1, <2>2, AloneRemembered DEF Walking, AtSomeNode
  <1> QED BY <1>2, <1>3

LEMMA CrashRemembered ==
  ASSUME OnceInv, Crash PROVE Remembered'
  <1>1. PICK gone \in SUBSET Services : Stops(gone)
    BY CrashIs
  <1>2. UNCHANGED <<mode, split, rows>>
    BY <1>1 DEF Stops
  <1>w. \A w \in Walkers : /\ w \in Hit(gone) => walk'[w].pc = "done"
                           /\ w \notin Hit(gone) => walk'[w] = walk[w]
    BY <1>1 DEF Stops, Stopped
  <1>3. ASSUME Serial, NEW n \in Once
        PROVE  OnRecord(n)' /\ \A w \in Walkers : AtSomeNode(w)' => Knows(w, n)'
    <2> DEFINE At == {w \in {v \in Hit(gone) : walk[v].pc = "exec"} : walk[w].node = n}
    <2>1. OnRecord(n) /\ calls[n] \in Int
      BY <1>3 DEF OnceInv, Remembered, OneAtATime, WellFormed, Typed
    <2>2. calls'[n] = calls[n] - Cardinality(At)
      BY <1>1 DEF Stops, Forget
    <2>3. CASE \E w \in Hit(gone) : walk[w].pc = "exec" /\ walk[w].node = n
      <3>1. PICK w \in Hit(gone) : walk[w].pc = "exec" /\ walk[w].node = n
        BY <2>3
      <3>2. \A v \in Walkers : Walking(v) => v = w
        BY <1>3, <3>1, OneWalks DEF OnceInv, Walking, Hit
      <3>3. At = {w}
        BY <3>1, <3>2 DEF Walking, Hit
      <3>4. Cardinality(At) = 1
        BY <3>3, FS_Singleton
      <3>5. OnRecord(n)'
        BY <2>1, <2>2, <3>4 DEF OnRecord
      <3>6. \A v \in Walkers : ~AtSomeNode(v)'
        BY <1>w, <3>2, <3>1 DEF AtSomeNode, Walking
      <3> QED BY <3>5, <3>6
    <2>4. CASE ~\E w \in Hit(gone) : walk[w].pc = "exec" /\ walk[w].node = n
      <3>1. At = {}
        BY <2>4
      <3>2. Cardinality(At) = 0
        BY <3>1, FS_EmptySet
      <3>3. calls'[n] = calls[n]
        BY <2>1, <2>2, <3>2
      <3>4. Executed(n) => Executed(n)'
        BY <1>w, <2>4 DEF Executed
      <3>5. OnRecord(n)'
        BY <1>2, <2>1, <3>3, <3>4 DEF OnRecord
      <3>6. ASSUME NEW w \in Walkers, AtSomeNode(w)' PROVE Knows(w, n)'
        <4>1. walk'[w] = walk[w]
          BY <1>w, <3>6 DEF AtSomeNode
        <4>2. Knows(w, n)
          BY <1>3, <3>6, <4>1 DEF OnceInv, Remembered, AtSomeNode
        <4> QED BY <1>2, <3>3, <4>1, <4>2 DEF Knows, Past, Unwritten
      <3> QED BY <3>5, <3>6
    <2> QED BY <2>3, <2>4
  <1> QED BY <1>2, <1>3 DEF Remembered, Serial

LEMMA DeleteRemembered ==
  ASSUME OnceInv, Delete PROVE Remembered'
  <1>1. UNCHANGED <<mode, split, walk>> /\ rows' = NoRows
    BY DEF Delete
  <1>2. ASSUME Serial, NEW n \in Once
        PROVE  OnRecord(n)' /\ \A w \in Walkers : AtSomeNode(w)' => Knows(w, n)'
    <2> DEFINE At == {w \in Walkers : walk[w].pc = "exec" /\ walk[w].node = n}
    <2>1. n \in Nodes /\ calls'[n] = Cardinality(At)
      BY DEF Once, Delete
    <2>2. ASSUME NEW w \in Walkers, AtSomeNode(w)'
          PROVE  /\ Unwritten(w, n)' => rows'[n].attempt <= walk'[w].prior[n].attempt
                 /\ Executed(n) => Past(w, n)'
      <3>1. AtSomeNode(w)
        BY <1>1, <2>2 DEF AtSomeNode
      <3>2. walk[w].prior[n].attempt \in Nat /\ rows'[n].attempt = 0
        BY <1>1, <2>1 DEF NoRows, NoRow, OnceInv, OneAtATime, WellFormed, Typed, Walker, Row
      <3>3. Executed(n) => walk[w].pc = "exec" /\ walk[w].node = n
        BY <1>2, <3>1, Alone DEF Walking, AtSomeNode
      <3>4. Executed(n) => Past(w, n)'
        BY <1>1, <3>3 DEF Past
      <3> QED BY <1>1, <3>2, <3>4
    <2>3. CASE Executed(n)
      <3>1. PICK w \in Walkers : walk[w].pc = "exec" /\ walk[w].node = n
        BY <2>3 DEF Executed
      <3>2. \A v \in Walkers : Walking(v) => v = w
        BY <1>2, <3>1, OneWalks DEF OnceInv, Walking
      <3>3. At = {w}
        BY <3>1, <3>2 DEF Walking
      <3>4. Cardinality(At) = 1
        BY <3>3, FS_Singleton
      <3>5. Executed(n)'
        BY <1>1, <3>1 DEF Executed
      <3> QED BY <2>1, <2>2, <2>3, <3>4, <3>5 DEF OnRecord, Knows
    <2>4. CASE ~Executed(n)
      <3>1. At = {}
        BY <2>4 DEF Executed
      <3>2. Cardinality(At) = 0
        BY <3>1, FS_EmptySet
      <3>3. calls'[n] = 0
        BY <2>1, <3>2
      <3>4. OnRecord(n)'
        BY <3>3 DEF OnRecord
      <3> QED BY <2>2, <3>3, <3>4 DEF Knows
    <2> QED BY <2>3, <2>4
  <1> QED BY <1>1, <1>2 DEF Remembered, Serial

LEMMA RememberedNext == OnceInv /\ [Next]_vars => OnceInv'
  <1> SUFFICES ASSUME OnceInv, [Next]_vars PROVE Remembered'
    BY AdmittedNext, FreshNext DEF OnceInv
  <1> USE DEF OnceInv, OneAtATime, WellFormed, Typed
  <1>1. CASE UNCHANGED vars
    BY <1>1, SameRemembered DEF vars, Same
  <1>2. CASE Trigger
    <2>1. \A v \in Walkers : Same(v)
      BY <1>2 DEF Trigger, Same, AtSomeNode, Walker
    <2> QED BY <1>2, <2>1, SameRemembered DEF Trigger
  <1>3. ASSUME NEW w \in Walkers, Resume(w) \/ Walk(w) \/ StatementFails(w) \/ Disconnect(w)
        PROVE  Remembered'
    <2>1. CASE Resume(w)
      <3>1. \A v \in Walkers : Same(v)
        BY <2>1 DEF Resume, Same, AtSomeNode, Walker
      <3> QED BY <2>1, <3>1, SameRemembered DEF Resume
    <2>2. CASE Acquire(w)
      <3>1. Same(w)
        BY <2>2 DEF Acquire, Goto, Same, AtSomeNode, Walker
      <3>2. \A v \in Walkers \ {w} : Same(v)
        BY <2>2, OthersKept DEF Walk, Same
      <3> QED BY <2>2, <3>1, <3>2, SameRemembered DEF Acquire, Split
    <2>3. CASE Disconnect(w)
      <3>1. \A v \in Walkers : Same(v)
        BY <2>3 DEF Disconnect, Same, Walker
      <3> QED BY <2>3, <3>1, SameRemembered DEF Disconnect
    <2>4. CASE \/ Cancel(w) \/ Refuse(w) \/ EndFailed(w) \/ NoEdge(w) \/ Complete(w) \/ Park(w)
      <3>1. Return(w) /\ walk[w].pc # "exec" /\ UNCHANGED <<mode, split, rows, calls>>
        BY <2>4 DEF Cancel, Refuse, EndFailed, NoEdge, Complete, Finish, Park, Passed, AtNode
      <3> QED BY <3>1, ReturnSame, SameRemembered
    <2>5. CASE Open(w) \/ Load(w) \/ Invoke(w) \/ Record(w) \/ Form(w) \/ Follow(w)
               \/ StatementFails(w)
      BY <2>5, OpenRemembered, LoadRemembered, InvokeRemembered, RecordRemembered,
         FormRemembered, FollowRemembered, StatementFailsRemembered
    <2> QED BY <1>3, <2>1, <2>2, <2>3, <2>4, <2>5 DEF Walk
  <1>4. CASE Crash \/ Delete
    BY <1>4, CrashRemembered, DeleteRemembered
  <1>5. CASE TimeoutWaiting \/ FailStale \/ Tick
    <2>1. UNCHANGED <<mode, split, rows, calls, walk>>
      BY <1>5 DEF TimeoutWaiting, FailStale, Tick
    <2> QED BY <2>1, SameRemembered DEF Same
  <1> QED BY <1>1, <1>2, <1>3, <1>4, <1>5 DEF Next

LEMMA RememberedInit == Init => OnceInv
  <1> SUFFICES ASSUME Init PROVE Fresh /\ Remembered
    BY AdmittedInit DEF OnceInv
  <1>0. walk = [w \in Walkers |-> Idle] /\ rows = NoRows /\ run.status = "none"
        /\ calls = [n \in Once |-> 0]
    BY DEF Init
  <1>1. \A w \in Walkers : walk[w].pc = "idle" /\ walk[w].prior = NoRows
    BY <1>0 DEF Idle, Stopped
  <1>2. Fresh
    BY <1>0, <1>1, WalkersAssumption DEF Fresh
  <1>3. Remembered
    BY <1>0, <1>1 DEF Remembered, OnRecord, AtSomeNode, Once
  <1> QED BY <1>2, <1>3

\* Under "serial", while no two Services walk at once, a node that is not idempotent is
\* called once for each outcome on record: whatever crashes, sweeps, deletions and
\* overlapping resumes do, it is called again only after the row of its call was lost.
THEOREM CalledOnce == Spec => []OnceOnly
  <1>1. OnceInv => OnceOnly
    BY DEF OnceInv, Remembered, OnRecord, Once, OnceOnly
  <1>2. Init => OnceInv
    BY RememberedInit
  <1>3. OnceInv /\ [Next]_vars => OnceInv'
    BY RememberedNext
  <1> QED BY <1>1, <1>2, <1>3, PTL DEF Spec

----------------------------------------------------------------------------
(* Types.  That calls never fall below zero takes more than types: a call    *)
(* that is forgotten is one that was counted.                                *)

ExecutedBy(n) == {w \in Walkers : walk[w].pc = "exec" /\ walk[w].node = n}
Counted == \A n \in Once : Cardinality(ExecutedBy(n)) <= calls[n]

TypeInv == TypeOK /\ WellFormed /\ Counted

LEMMA ExecutedByFinite ==
  ASSUME NEW n
  PROVE  /\ IsFiniteSet(ExecutedBy(n)) /\ Cardinality(ExecutedBy(n)) \in Nat
         /\ IsFiniteSet(ExecutedBy(n)') /\ Cardinality(ExecutedBy(n)') \in Nat
  BY FS_Subset, FS_CardinalityType, WalkersAssumption DEF ExecutedBy

\* Nobody begins to execute a node.
LEMMA CountedUnchanged ==
  ASSUME TypeInv, UNCHANGED calls,
         \A w \in Walkers : walk'[w].pc = "exec" =>
           walk[w].pc = "exec" /\ walk'[w].node = walk[w].node
  PROVE  Counted'
  <1> SUFFICES ASSUME NEW n \in Once PROVE Cardinality(ExecutedBy(n)') <= calls[n]
    BY DEF Counted
  <1>1. ExecutedBy(n)' \subseteq ExecutedBy(n)
    BY DEF ExecutedBy
  <1>2. Cardinality(ExecutedBy(n)') <= Cardinality(ExecutedBy(n))
    BY <1>1, ExecutedByFinite, FS_Subset
  <1>3. Cardinality(ExecutedBy(n)) <= calls[n] /\ calls[n] \in Int
    BY DEF TypeInv, Counted, WellFormed, Typed
  <1> QED BY <1>2, <1>3, ExecutedByFinite

LEMMA InvokeCounted ==
  ASSUME TypeInv, NEW w \in Walkers, Invoke(w) PROVE Counted'
  <1> SUFFICES ASSUME NEW n \in Once PROVE Cardinality(ExecutedBy(n)') <= calls'[n]
    BY DEF Counted
  <1>1. /\ Cardinality(ExecutedBy(n)) <= calls[n] /\ calls[n] \in Int
        /\ calls'[n] = IF n = walk[w].node THEN calls[n] + 1 ELSE calls[n]
    BY DEF TypeInv, Counted, WellFormed, Typed, Invoke
  <1>2. /\ walk[w].pc = "node" /\ walk'[w].pc = "exec" /\ walk'[w].node = walk[w].node
        /\ \A v \in Walkers \ {w} : walk'[v] = walk[v]
    BY DEF Invoke, AtNode, Goto, TypeInv, WellFormed, Typed, Walker
  <1>3. CASE n = walk[w].node
    <2>1. ExecutedBy(n)' = ExecutedBy(n) \union {w} /\ w \notin ExecutedBy(n)
      BY <1>2, <1>3 DEF ExecutedBy
    <2>2. Cardinality(ExecutedBy(n)') = Cardinality(ExecutedBy(n)) + 1
      BY <2>1, ExecutedByFinite, FS_AddElement
    <2> QED BY <1>1, <1>3, <2>2, ExecutedByFinite
  <1>4. CASE n # walk[w].node
    <2>1. ExecutedBy(n)' = ExecutedBy(n)
      BY <1>2, <1>4 DEF ExecutedBy
    <2> QED BY <1>1, <1>4, <2>1
  <1> QED BY <1>3, <1>4

LEMMA StatementFailsCounted ==
  ASSUME TypeInv, NEW w \in Walkers, StatementFails(w) PROVE Counted'
  <1>1. walk'[w].pc = "done" /\ \A v \in Walkers \ {w} : walk'[v] = walk[v]
    BY DEF StatementFails, Return, Stopped, TypeInv, WellFormed, Typed
  <1>2. CASE walk[w].pc # "exec"
    BY <1>1, <1>2, CountedUnchanged DEF StatementFails
  <1>3. CASE walk[w].pc = "exec"
    <2> SUFFICES ASSUME NEW n \in Once PROVE Cardinality(ExecutedBy(n)') <= calls'[n]
      BY DEF Counted
    <2> DEFINE At == {v \in {w} : walk[v].node = n}
    <2>1. /\ Cardinality(ExecutedBy(n)) <= calls[n] /\ calls[n] \in Int
          /\ calls'[n] = calls[n] - Cardinality(At)
      BY <1>3 DEF TypeInv, Counted, WellFormed, Typed, StatementFails, Forget
    <2>2. CASE n = walk[w].node
      <3>1. At = {w}
        BY <2>2
      <3>2. Cardinality(At) = 1
        BY <3>1, FS_Singleton
      <3>3. ExecutedBy(n)' = ExecutedBy(n) \ {w} /\ w \in ExecutedBy(n)
        BY <1>1, <1>3, <2>2 DEF ExecutedBy
      <3>4. Cardinality(ExecutedBy(n)') = Cardinality(ExecutedBy(n)) - 1
        BY <3>3, ExecutedByFinite, FS_RemoveElement
      <3> QED BY <2>1, <3>2, <3>4, ExecutedByFinite
    <2>3. CASE n # walk[w].node
      <3>1. At = {}
        BY <2>3
      <3>2. Cardinality(At) = 0
        BY <3>1, FS_EmptySet
      <3>3. ExecutedBy(n)' = ExecutedBy(n)
        BY <1>1, <1>3, <2>3 DEF ExecutedBy
      <3> QED BY <2>1, <3>2, <3>3
    <2> QED BY <2>2, <2>3
  <1> QED BY <1>2, <1>3

LEMMA CrashCounted ==
  ASSUME TypeInv, Crash PROVE Counted'
  <1>1. PICK gone \in SUBSET Services : Stops(gone)
    BY CrashIs
  <1> SUFFICES ASSUME NEW n \in Once PROVE Cardinality(ExecutedBy(n)') <= calls'[n]
    BY DEF Counted
  <1> DEFINE At == {w \in {v \in Hit(gone) : walk[v].pc = "exec"} : walk[w].node = n}
  <1>2. ExecutedBy(n)' = ExecutedBy(n) \ At
    <2>1. \A w \in Walkers : /\ w \in Hit(gone) => walk'[w].pc = "done"
                             /\ w \notin Hit(gone) => walk'[w] = walk[w]
      BY <1>1 DEF Stops, Stopped
    <2> QED BY <2>1 DEF ExecutedBy, Hit
  <1>3. /\ Cardinality(ExecutedBy(n)) <= calls[n] /\ calls[n] \in Int
        /\ calls'[n] = calls[n] - Cardinality(At)
    BY <1>1 DEF TypeInv, Counted, WellFormed, Typed, Stops, Forget
  <1>4. At \subseteq ExecutedBy(n)
    BY DEF ExecutedBy, Hit
  <1>5. IsFiniteSet(At) /\ Cardinality(At) \in Nat
    BY <1>4, ExecutedByFinite, FS_Subset, FS_CardinalityType
  <1>6. ExecutedBy(n) \cap At = At
    BY <1>4
  <1> HIDE DEF At
  <1>7. Cardinality(ExecutedBy(n) \ At) = Cardinality(ExecutedBy(n)) - Cardinality(At)
    <2>1. Cardinality(ExecutedBy(n) \ At)
            = Cardinality(ExecutedBy(n)) - Cardinality(ExecutedBy(n) \cap At)
      BY <1>5, ExecutedByFinite, FS_Difference
    <2> QED BY <1>6, <2>1
  <1>8. Cardinality(ExecutedBy(n)') = Cardinality(ExecutedBy(n)) - Cardinality(At)
    BY <1>2, <1>7
  <1> QED BY <1>3, <1>5, <1>8, ExecutedByFinite

LEMMA CountedNext == TypeInv /\ [Next]_vars => Counted'
  <1> SUFFICES ASSUME TypeInv, [Next]_vars PROVE Counted'
    OBVIOUS
  <1> USE DEF TypeInv, WellFormed, Typed
  <1>1. CASE UNCHANGED vars
    BY <1>1, CountedUnchanged DEF vars
  <1>2. CASE Trigger
    <2>1. \A w \in Walkers : walk'[w].pc = "exec" => walk'[w] = walk[w]
      BY <1>2 DEF Trigger, Walker
    <2> QED BY <1>2, <2>1, CountedUnchanged DEF Trigger
  <1>3. ASSUME NEW w \in Walkers, Resume(w) \/ Walk(w) \/ StatementFails(w) \/ Disconnect(w)
        PROVE  Counted'
    <2>1. \A v \in Walkers \ {w} : UNCHANGED <<walk[v].pc, walk[v].node>>
      BY <1>3, OthersKept
    <2>2. CASE Invoke(w) \/ StatementFails(w)
      BY <2>2, InvokeCounted, StatementFailsCounted
    <2>3. CASE ~Invoke(w) /\ ~StatementFails(w)
      <3>1. UNCHANGED calls
        BY <1>3, <2>3 DEF Resume, Walk, Acquire, Open, Load, Cancel, Refuse, Record, Form, Park,
                          EndFailed, Follow, NoEdge, Complete, Finish, Disconnect
      <3>2. walk'[w].pc = "exec" => walk[w].pc = "exec" /\ walk'[w].node = walk[w].node
        <4> USE DEF Walker
        <4>1. CASE Resume(w) \/ Open(w) \/ Load(w) \/ Follow(w)
          BY <4>1 DEF Resume, Open, Load, Follow, Goto
        <4>2. CASE Acquire(w) \/ Disconnect(w)
          BY <4>2 DEF Acquire, Disconnect, Goto
        <4>3. CASE Record(w) \/ Form(w)
          BY <4>3 DEF Record, Form, Goto
        <4>4. CASE Cancel(w) \/ Refuse(w) \/ EndFailed(w) \/ NoEdge(w) \/ Complete(w) \/ Park(w)
          <5>1. Return(w)
            BY <4>4 DEF Cancel, Refuse, EndFailed, NoEdge, Complete, Finish, Park
          <5> QED BY <5>1 DEF Return, Stopped
        <4> QED BY <1>3, <2>3, <4>1, <4>2, <4>3, <4>4 DEF Walk
      <3> QED BY <2>1, <3>1, <3>2, CountedUnchanged
    <2> QED BY <2>2, <2>3
  <1>4. CASE Crash
    BY <1>4, CrashCounted
  <1>5. CASE Delete
    <2>1. \A n \in Once : ExecutedBy(n)' = ExecutedBy(n) /\ calls'[n] = Cardinality(ExecutedBy(n))
      BY <1>5 DEF Delete, ExecutedBy
    <2> QED BY <2>1, ExecutedByFinite DEF Counted
  <1>6. CASE TimeoutWaiting \/ FailStale \/ Tick
    <2>1. UNCHANGED <<calls, walk>>
      BY <1>6 DEF TimeoutWaiting, FailStale, Tick
    <2> QED BY <2>1, CountedUnchanged
  <1> QED BY <1>1, <1>2, <1>3, <1>4, <1>5, <1>6 DEF Next

\* The other variables.
Others ==
  /\ quiet \in 0..MaxAge /\ faults \in 0..MaxFaults
  /\ [mode |-> mode, svc |-> svc] \in Settings

LEMMA TypesTogether == WellFormed /\ Counted /\ Others <=> TypeInv
  <1>1. ASSUME WellFormed, Counted PROVE calls \in [Once -> Nat]
    <2>1. ASSUME NEW n \in Once PROVE calls[n] \in Nat
      BY <1>1, ExecutedByFinite DEF Counted, WellFormed, Typed
    <2> QED BY <1>1, <2>1 DEF WellFormed, Typed
  <1>2. ASSUME WellFormed, Counted, Others PROVE TypeOK
    BY <1>1, <1>2 DEF WellFormed, Typed, Others, TypeOK, RunRow, RunStatus, Walker, WalkState
  <1>3. TypeOK => Others
    BY DEF TypeOK, Others
  <1>4. WellFormed /\ Counted /\ Others => TypeInv
    BY <1>2 DEF TypeInv
  <1>5. TypeInv => WellFormed /\ Counted /\ Others
    BY <1>3 DEF TypeInv
  <1> QED BY <1>4, <1>5

LEMMA OthersNext == TypeInv /\ [Next]_vars => Others'
  <1> SUFFICES ASSUME TypeInv, [Next]_vars PROVE Others'
    OBVIOUS
  <1>0. Others /\ MaxAge \in Nat /\ MaxFaults \in Nat
    BY TypesTogether, MaxAgeTyped, PolicyAssumption
  <1> USE <1>0 DEF Others
  <1>1. CASE UNCHANGED vars
    BY <1>1 DEF vars
  <1>2. CASE Trigger
    BY <1>2 DEF Trigger
  <1>3. ASSUME NEW w \in Walkers, Resume(w) \/ Walk(w) \/ StatementFails(w) \/ Disconnect(w)
        PROVE  Others'
    <2>1. faults' \in 0..MaxFaults
      <3>1. Fault \/ UNCHANGED faults
        BY <1>3 DEF Resume, Walk, Acquire, Open, Load, Cancel, Refuse, Invoke, Record, Form, Park,
                    EndFailed, Follow, NoEdge, Complete, Finish, StatementFails, Disconnect
      <3> QED BY <3>1 DEF Fault
    <2>2. quiet' \in 0..MaxAge
      <3>1. quiet' \in {0, quiet}
        BY <1>3 DEF Resume, Walk, Acquire, Open, Load, Cancel, Refuse, Invoke, Record, Form, Park,
                    EndFailed, Follow, NoEdge, Complete, Finish, StatementFails, Disconnect, Append
      <3> QED BY <3>1
    <2>3. UNCHANGED <<mode, svc>>
      BY <1>3 DEF Resume, Walk, Acquire, Open, Load, Cancel, Refuse, Invoke, Record, Form, Park,
                  EndFailed, Follow, NoEdge, Complete, Finish, StatementFails, Disconnect
    <2> QED BY <2>1, <2>2, <2>3
  <1>4. CASE Crash \/ Delete
    <2>1. CASE Crash
      <3>1. PICK gone \in SUBSET Services : Stops(gone)
        BY <2>1, CrashIs
      <3> QED BY <3>1 DEF Stops, Fault
    <2>2. CASE Delete
      BY <2>2 DEF Delete
    <2> QED BY <1>4, <2>1, <2>2
  <1>5. CASE TimeoutWaiting \/ FailStale \/ Tick
    BY <1>5 DEF TimeoutWaiting, FailStale, Tick
  <1> QED BY <1>1, <1>2, <1>3, <1>4, <1>5 DEF Next

LEMMA TypeInit == Init => TypeInv
  <1> SUFFICES ASSUME Init PROVE WellFormed /\ Counted /\ Others
    BY TypesTogether
  <1>1. WellFormed
    BY TypedInit
  <1>2. Others
    BY MaxAgeTyped, PolicyAssumption DEF Init, Others
  <1>3. ASSUME NEW n \in Once PROVE Cardinality(ExecutedBy(n)) <= calls[n]
    <2>1. ExecutedBy(n) = {}
      BY DEF Init, ExecutedBy, Idle, Stopped
    <2>2. Cardinality(ExecutedBy(n)) = 0
      BY <2>1, FS_EmptySet
    <2> QED BY <2>2 DEF Init
  <1> QED BY <1>1, <1>2, <1>3 DEF Counted

\* Every variable of a run keeps its type; in particular no lost call is forgotten
\* that was not counted.
THEOREM TypeCorrect == Spec => []TypeOK
  <1>1. TypeInv /\ [Next]_vars => TypeInv'
    <2>1. TypeInv /\ [Next]_vars => WellFormed' /\ Counted' /\ Others'
      BY TypedNext, CountedNext, OthersNext DEF TypeInv
    <2> QED BY <2>1, TypesTogether, PTL
  <1>2. TypeInv => TypeOK
    BY DEF TypeInv
  <1> QED BY <1>1, <1>2, TypeInit, PTL DEF Spec

----------------------------------------------------------------------------
(* Under "serial", what the rows of a run say fits together.                *)

Succeeded == {n \in Nodes : rows[n].status = "succeeded"}
Reachable(n) == n = Entry \/ \E m \in Succeeded : n \in Succ[m]

\* Where a walker stands its walk has led, and of the nodes it has not come to, its
\* snapshot is what the store still says.
Traced(w) ==
  /\ Reachable(walk[w].node)
  /\ walk[w].pc = "edge" => walk[w].node \in Succeeded
  /\ walk[w].pc = "park" => rows[walk[w].node].status = "waiting"
  /\ walk[w].pc = "exec" => walk[w].prior[walk[w].node].status # "succeeded"
  /\ \A n \in Nodes : /\ Unwritten(w, n) => rows[n] = walk[w].prior[n]
                      /\ walk[w].prior[n].status = "succeeded" => n \in Succeeded

Ended == \E n \in Succeeded : Succ[n] = {}
Asked == run.form # NoNode /\ rows[run.form].status = "waiting"

Whole ==
  Serial /\ run.status # "none" =>
    /\ \A n \in Succeeded : Reachable(n)
    /\ run.status = "succeeded" => Ended
    /\ run.status = "waiting" =>
         Asked /\ \A w \in Walkers : walk[w].pc # "load" /\ ~AtSomeNode(w)
    /\ \A w \in Walkers : AtSomeNode(w) => Traced(w)

WholeInv == OnceInv /\ Whole

\* Nobody gets anywhere, and the run does not begin to wait or to have succeeded.
LEMMA SameWhole ==
  ASSUME WholeInv, UNCHANGED <<mode, rows>>, split => split',
         run'.status # "none" => run.status # "none",
         run'.status = "succeeded" => run.status = "succeeded",
         run'.status = "waiting" =>
           /\ run.status = "waiting" /\ run'.form = run.form
           /\ \A w \in Walkers : walk'[w].pc = "load" => walk[w].pc = "load",
         \A w \in Walkers : AtSomeNode(w)' =>
           AtSomeNode(w) /\ UNCHANGED <<walk[w].pc, walk[w].node, walk[w].prior>>
  PROVE  Whole'
  <1> SUFFICES ASSUME Serial, run'.status # "none"
               PROVE  Whole'
    BY DEF Whole, Serial
  <1>1. /\ \A n \in Succeeded : Reachable(n)
        /\ run.status = "succeeded" => Ended
        /\ run.status = "waiting" => Asked /\ \A w \in Walkers : walk[w].pc # "load" /\ ~AtSomeNode(w)
        /\ \A w \in Walkers : AtSomeNode(w) => Traced(w)
    BY DEF WholeInv, Whole
  <1>2. Succeeded' = Succeeded /\ \A n \in Nodes \cup {Entry} : Reachable(n)' <=> Reachable(n)
    BY DEF Succeeded, Reachable
  <1>3. ASSUME NEW w \in Walkers, AtSomeNode(w)' PROVE Traced(w)'
    BY <1>1, <1>3 DEF Traced, Unwritten, Succeeded, Reachable
  <1>4. \A n \in Succeeded' : Reachable(n)'
    BY <1>1, <1>2 DEF Succeeded
  <1>5. run'.status = "succeeded" => Ended'
    BY <1>1, <1>2 DEF Ended
  <1>6. run'.status = "waiting" =>
          Asked' /\ \A w \in Walkers : walk'[w].pc # "load" /\ ~AtSomeNode(w)'
    BY <1>1 DEF Asked
  <1> QED BY <1>3, <1>4, <1>5, <1>6 DEF Whole

\* Under "serial" only the walker at work has anything to keep.
LEMMA AloneWhole ==
  ASSUME WholeInv, NEW w \in Walkers, Walking(w), UNCHANGED <<mode, split>>,
         \A v \in Walkers \ {w} : walk'[v] = walk[v],
         Serial /\ run'.status # "none" =>
           /\ \A n \in Succeeded' : Reachable(n)'
           /\ run'.status = "succeeded" => Ended'
           /\ run'.status = "waiting" => Asked' /\ walk'[w].pc # "load" /\ ~AtSomeNode(w)'
           /\ AtSomeNode(w)' => Traced(w)'
  PROVE  Whole'
  <1> SUFFICES ASSUME Serial, run'.status # "none" PROVE Whole'
    BY DEF Whole, Serial
  <1>1. \A v \in Walkers \ {w} : walk'[v].pc # "load" /\ ~AtSomeNode(v)'
    BY OneWalks DEF WholeInv, OnceInv, Walking, AtSomeNode
  <1> QED BY <1>1 DEF Whole

LEMMA OpenWhole ==
  ASSUME WholeInv, NEW w \in Walkers, Open(w) PROVE Whole'
  <1>t. walk \in [Walkers -> Walker] /\ run \in RunRow /\ Fresh
    BY DEF WholeInv, OnceInv, OneAtATime, WellFormed, Typed
  <1> USE <1>t DEF Walker
  <1>1. CASE w # Starter
    <2>1. \A v \in Walkers : AtSomeNode(v)' =>
            AtSomeNode(v) /\ UNCHANGED <<walk[v].pc, walk[v].node, walk[v].prior>>
      BY <1>1 DEF Open, Goto, AtSomeNode
    <2>2. UNCHANGED <<mode, split, rows>>
      BY DEF Open
    <2>3. run' = IF run.status = "none" THEN run
                 ELSE [run EXCEPT !.status = "running", !.form = NoNode]
      BY <1>1 DEF Open
    <2>4. run'.status = IF run.status = "none" THEN "none" ELSE "running"
      BY <2>3 DEF RunRow
    <2> QED BY <2>1, <2>2, <2>4, SameWhole
  <1>2. CASE w = Starter
    <2>1. /\ rows' = NoRows /\ run'.status = "running"
          /\ walk'[w].node = Entry /\ walk'[w].pc = "node" /\ walk'[w].prior = NoRows
      BY <1>2 DEF Open, Fresh
    <2>2. \A v \in Walkers \ {w} : ~AtSomeNode(v)'
      BY <1>2 DEF Open, Fresh, AtSomeNode
    <2>3. \A n \in Nodes : rows'[n].status = "none" /\ walk'[w].prior[n] = rows'[n]
      BY <2>1 DEF NoRows, NoRow
    <2>4. Succeeded' = {}
      BY <2>3 DEF Succeeded
    <2>5. Traced(w)'
      BY <2>1, <2>3 DEF Traced, Reachable
    <2> QED BY <2>1, <2>2, <2>4, <2>5 DEF Whole
  <1> QED BY <1>1, <1>2

LEMMA LoadWhole ==
  ASSUME WholeInv, NEW w \in Walkers, Load(w) PROVE Whole'
  <1>1. /\ walk[w].pc = "load" /\ UNCHANGED <<mode, split, rows, run>>
        /\ \A v \in Walkers \ {w} : walk'[v] = walk[v]
        /\ walk'[w].pc = "node" /\ walk'[w].prior = rows /\ walk'[w].node = Entry
    BY DEF Load, WholeInv, OnceInv, OneAtATime, WellFormed, Typed, Walker
  <1>2. Traced(w)'
    BY <1>1 DEF Traced, Reachable, Succeeded
  <1>3. Succeeded' = Succeeded /\ \A n \in Nodes : Reachable(n)' <=> Reachable(n)
    BY <1>1 DEF Succeeded, Reachable
  <1>4. Serial /\ run'.status # "none" =>
          /\ \A n \in Succeeded' : Reachable(n)'
          /\ run'.status = "succeeded" => Ended'
          /\ run'.status # "waiting"
    BY <1>1, <1>3 DEF WholeInv, Whole, Succeeded, Ended
  <1> QED BY <1>1, <1>2, <1>4, AloneWhole DEF Walking

\* A walker that moves on without writing anything.
LEMMA MovedWhole ==
  ASSUME WholeInv, NEW w \in Walkers, AtSomeNode(w), UNCHANGED <<mode, split, rows, run>>,
         \A v \in Walkers \ {w} : walk'[v] = walk[v],
         Serial /\ run.status # "none" => Traced(w)'
  PROVE  Whole'
  <1>1. Succeeded' = Succeeded /\ \A n \in Nodes : Reachable(n)' <=> Reachable(n)
    BY DEF Succeeded, Reachable
  <1>2. Serial /\ run'.status # "none" =>
          /\ \A n \in Succeeded' : Reachable(n)'
          /\ run'.status = "succeeded" => Ended'
          /\ run'.status # "waiting"
    BY <1>1 DEF WholeInv, Whole, Succeeded, Ended
  <1> QED BY <1>2, AloneWhole DEF Walking, AtSomeNode

LEMMA InvokeWhole ==
  ASSUME WholeInv, NEW w \in Walkers, Invoke(w) PROVE Whole'
  <1>1. /\ walk[w].pc = "node" /\ UNCHANGED <<mode, split, rows, run>>
        /\ \A v \in Walkers \ {w} : walk'[v] = walk[v]
        /\ walk'[w].pc = "exec" /\ walk'[w].prior = walk[w].prior /\ walk'[w].node = walk[w].node
    BY DEF Invoke, AtNode, Goto, WholeInv, OnceInv, OneAtATime, WellFormed, Typed, Walker
  <1>2. walk[w].prior[walk[w].node].status # "succeeded"
    BY DEF Invoke, Done, Prior
  <1>3. ASSUME Serial, run.status # "none" PROVE Traced(w)'
    <2>1. Traced(w)
      BY <1>1, <1>3 DEF WholeInv, Whole, AtSomeNode
    <2> QED BY <1>1, <1>2, <2>1 DEF Traced, Unwritten, Reachable, Succeeded
  <1> QED BY <1>1, <1>3, MovedWhole DEF AtSomeNode

LEMMA FollowWhole ==
  ASSUME WholeInv, NEW w \in Walkers, Follow(w) PROVE Whole'
  <1>1. /\ walk[w].pc = "edge" \/ (walk[w].pc = "node" /\ Done(w))
        /\ UNCHANGED <<mode, split, rows, run>>
        /\ \A v \in Walkers \ {w} : walk'[v] = walk[v]
        /\ walk'[w].pc = "node" /\ walk'[w].prior = walk[w].prior
    BY DEF Follow, Passed, AtNode, WholeInv, OnceInv, OneAtATime, WellFormed, Typed, Walker
  <1>2. walk[w].node \in Nodes
    BY <1>1 DEF WholeInv, OnceInv, OneAtATime, WellFormed, NodeNamed, AtSomeNode
  <1>3. walk'[w].node \in Succ[walk[w].node]
    BY DEF Follow, WholeInv, OnceInv, OneAtATime, WellFormed, Typed, Walker
  <1>4. /\ walk[w].node < walk'[w].node
        /\ walk[w].node \in Nat /\ walk'[w].node \in Nat /\ Nodes \subseteq Nat
    BY <1>2, <1>3, GraphAssumption
  <1>5. ASSUME Serial, run.status # "none" PROVE Traced(w)'
    <2>1. Traced(w)
      BY <1>1, <1>5 DEF WholeInv, Whole, AtSomeNode
    <2>2. walk[w].node \in Succeeded
      BY <1>1, <1>2, <2>1 DEF Traced, Done, Prior
    <2>3. Reachable(walk[w].node)'
      BY <1>1, <1>3, <2>2 DEF Reachable, Succeeded
    <2>4. \A n \in Nodes : Unwritten(w, n)' => Unwritten(w, n)
      BY <1>1, <1>4 DEF Unwritten
    <2> QED BY <1>1, <2>1, <2>3, <2>4 DEF Traced, Succeeded
  <1> QED BY <1>1, <1>5, MovedWhole DEF AtSomeNode

\* A row is the newest of its node, and takes the place of no success.
LEMMA AppendWhole ==
  ASSUME WholeInv, NEW w \in Walkers, NEW status \in {"succeeded", "failed", "waiting"},
         walk[w].pc \in {"node", "exec"}, walk[w].prior[walk[w].node].status # "succeeded",
         Append(walk[w].node, Attempt(w), status), UNCHANGED <<mode, split, run>>,
         \A v \in Walkers \ {w} : walk'[v] = walk[v],
         walk'[w].node = walk[w].node, walk'[w].prior = walk[w].prior,
         \/ walk'[w].pc = "edge" /\ status = "succeeded"
         \/ walk'[w].pc = "park" /\ status = "waiting"
         \/ walk'[w].pc = "end"
  PROVE  Whole'
  <1> DEFINE n0 == walk[w].node
  <1>1. n0 \in Nodes /\ n0 \in Nat /\ AtSomeNode(w)
    BY GraphAssumption DEF WholeInv, OnceInv, OneAtATime, WellFormed, NodeNamed, AtSomeNode
  <1>2. ASSUME Serial, run.status # "none"
        PROVE  /\ \A n \in Succeeded' : Reachable(n)'
               /\ run.status = "succeeded" => Ended'
               /\ run.status # "waiting"
               /\ Traced(w)'
    <2>1. /\ \A n \in Succeeded : Reachable(n)
          /\ run.status = "succeeded" => Ended
          /\ run.status # "waiting"
          /\ Traced(w)
      BY <1>1, <1>2 DEF WholeInv, Whole
    <2>2. rows[n0] = walk[w].prior[n0] /\ rows[n0].status # "succeeded"
      BY <1>1, <2>1 DEF Traced, Unwritten
    <2>3. rows \in [Nodes -> Row] /\ rows[n0].attempt \in Nat
      BY <1>1 DEF WholeInv, OnceInv, OneAtATime, WellFormed, Typed, Row
    <2>4. rows' = [rows EXCEPT ![n0] = [attempt |-> Attempt(w), status |-> status]]
      BY <2>2, <2>3 DEF Append, Attempt
    <2>5. \A n \in Nodes : n # n0 => rows'[n] = rows[n]
      BY <2>3, <2>4
    <2>6. rows'[n0].status = status
      BY <1>1, <2>3, <2>4
    <2>7. Succeeded' = IF status = "succeeded" THEN Succeeded \cup {n0} ELSE Succeeded
      BY <1>1, <2>2, <2>5, <2>6 DEF Succeeded
    <2>8. \A n : Reachable(n) => Reachable(n)'
      BY <2>7 DEF Reachable
    <2>9. \A n \in Succeeded' : Reachable(n)'
      BY <2>1, <2>7, <2>8 DEF Traced
    <2>10. Ended => Ended'
      BY <2>7 DEF Ended
    <2>11. Traced(w)'
      <3>1. Reachable(walk[w].node)'
        BY <2>1, <2>8 DEF Traced
      <3>2. walk'[w].pc = "edge" => walk'[w].node \in Succeeded'
        BY <2>7
      <3>3. walk'[w].pc = "park" => rows'[walk'[w].node].status = "waiting"
        BY <2>6
      <3>4. ASSUME NEW n \in Nodes
            PROVE  /\ Unwritten(w, n)' => rows'[n] = walk'[w].prior[n]
                   /\ walk'[w].prior[n].status = "succeeded" => n \in Succeeded'
        <4>1. Unwritten(w, n)' => n # n0 /\ Unwritten(w, n)
          BY <1>1 DEF Unwritten
        <4> QED BY <2>1, <2>5, <2>7, <4>1 DEF Traced
      <3> QED BY <3>1, <3>2, <3>3, <3>4 DEF Traced
    <2> QED BY <2>1, <2>9, <2>10, <2>11
  <1> QED BY <1>1, <1>2, AloneWhole DEF Walking, AtSomeNode

LEMMA RecordWhole ==
  ASSUME WholeInv, NEW w \in Walkers, Record(w) PROVE Whole'
  <1>1. /\ walk[w].pc = "exec" /\ UNCHANGED <<mode, split, run>>
        /\ \A v \in Walkers \ {w} : walk'[v] = walk[v]
        /\ walk'[w].prior = walk[w].prior /\ walk'[w].node = walk[w].node
    BY DEF Record, Goto, WholeInv, OnceInv, OneAtATime, WellFormed, Typed, Walker
  <1>2. PICK status \in {"succeeded", "failed"} :
          /\ Append(walk[w].node, Attempt(w), status)
          /\ walk'[w].pc = IF status = "succeeded" THEN "edge" ELSE "end"
    <2>1. CASE /\ Append(walk[w].node, Attempt(w), "succeeded")
               /\ walk' = [walk EXCEPT ![w].pc = "edge",
                                       ![w].set = @ \/ Kind[walk[w].node] = "set"]
      BY <2>1 DEF WholeInv, OnceInv, OneAtATime, WellFormed, Typed, Walker
    <2>2. CASE Append(walk[w].node, Attempt(w), "failed") /\ Goto(w, "end")
      BY <2>2 DEF Goto, WholeInv, OnceInv, OneAtATime, WellFormed, Typed, Walker
    <2> QED BY <2>1, <2>2 DEF Record
  <1>3. CASE Serial /\ run.status # "none"
    <2>1. Traced(w)
      BY <1>1, <1>3 DEF WholeInv, Whole, AtSomeNode
    <2> QED BY <1>1, <1>2, <2>1, AppendWhole DEF Traced
  <1>4. CASE ~(Serial /\ run.status # "none")
    <2>1. ~(Serial' /\ run'.status # "none")
      BY <1>1, <1>4 DEF Serial
    <2> QED BY <2>1 DEF Whole
  <1> QED BY <1>3, <1>4

LEMMA FormWhole ==
  ASSUME WholeInv, NEW w \in Walkers, Form(w) PROVE Whole'
  <1>1. /\ walk[w].pc = "node" /\ UNCHANGED <<mode, split, run>>
        /\ \A v \in Walkers \ {w} : walk'[v] = walk[v]
        /\ walk'[w].prior = walk[w].prior /\ walk'[w].node = walk[w].node
    BY DEF Form, AtNode, Goto, WholeInv, OnceInv, OneAtATime, WellFormed, Typed, Walker
  <1>2. PICK status \in {"succeeded", "failed", "waiting"} :
          /\ Append(walk[w].node, Attempt(w), status)
          /\ \/ Goto(w, "edge") /\ status = "succeeded"
             \/ Goto(w, "park") /\ status = "waiting"
             \/ Goto(w, "end")
    BY DEF Form
  <1>3. \A pc : Goto(w, pc) => walk'[w].pc = pc
    BY DEF Goto, WholeInv, OnceInv, OneAtATime, WellFormed, Typed, Walker
  <1>4. walk[w].prior[walk[w].node].status # "succeeded"
    BY DEF Form, Done, Prior
  <1> QED BY <1>1, <1>2, <1>3, <1>4, AppendWhole

LEMMA ParkWhole ==
  ASSUME WholeInv, NEW w \in Walkers, Park(w) PROVE Whole'
  <1>1. /\ walk[w].pc = "park" /\ UNCHANGED <<mode, split, rows>>
        /\ walk'[w].pc = "done" /\ \A v \in Walkers \ {w} : walk'[v] = walk[v]
    BY DEF Park, Return, Stopped, WholeInv, OnceInv, OneAtATime, WellFormed, Typed
  <1>2. walk[w].node \in Nodes /\ NoNode \notin Nodes
    BY <1>1, GraphAssumption DEF WholeInv, OnceInv, OneAtATime, WellFormed, NodeNamed, AtSomeNode
  <1>3. /\ run.status = "none" => run' = run
        /\ run.status # "none" => run'.status = "waiting" /\ run'.form = walk[w].node
    BY DEF Park, WholeInv, OnceInv, OneAtATime, WellFormed, Typed, RunRow
  <1>4. ASSUME Serial, run'.status # "none"
        PROVE  /\ \A n \in Succeeded' : Reachable(n)'
               /\ Asked' /\ run'.status = "waiting"
    <2>1. Traced(w) /\ \A n \in Succeeded : Reachable(n)
      BY <1>1, <1>3, <1>4 DEF WholeInv, Whole, AtSomeNode
    <2>2. Succeeded' = Succeeded /\ \A n \in Nodes : Reachable(n)' <=> Reachable(n)
      BY <1>1 DEF Succeeded, Reachable
    <2>3. \A n \in Succeeded' : Reachable(n)'
      BY <2>1, <2>2 DEF Succeeded
    <2> QED BY <1>1, <1>2, <1>3, <1>4, <2>1, <2>3 DEF Traced, Asked
  <1> QED BY <1>1, <1>4, AloneWhole DEF Walking, AtSomeNode

\* The run succeeds where the graph ends.
LEMMA CompleteWhole ==
  ASSUME WholeInv, NEW w \in Walkers, Complete(w) PROVE Whole'
  <1>1. /\ walk[w].pc = "edge" \/ (walk[w].pc = "node" /\ Done(w))
        /\ UNCHANGED <<mode, split, rows>> /\ Succ[walk[w].node] = {}
        /\ walk'[w].pc = "done" /\ \A v \in Walkers \ {w} : walk'[v] = walk[v]
    BY DEF Complete, Finish, Passed, AtNode, Return, Stopped, WholeInv, OnceInv, OneAtATime, WellFormed, Typed
  <1>2. walk[w].node \in Nodes
    BY <1>1 DEF WholeInv, OnceInv, OneAtATime, WellFormed, NodeNamed, AtSomeNode
  <1>3. run' = run \/ (run.status # "none" /\ run'.status = "succeeded")
    BY DEF Complete, Finish, WholeInv, OnceInv, OneAtATime, WellFormed, Typed, RunRow
  <1>4. ASSUME Serial, run'.status # "none"
        PROVE  (\A n \in Succeeded' : Reachable(n)') /\ Ended' /\ run'.status # "waiting"
    <2>1. Traced(w) /\ (\A n \in Succeeded : Reachable(n)) /\ run.status # "waiting"
      BY <1>1, <1>3, <1>4 DEF WholeInv, Whole, AtSomeNode
    <2>2. Succeeded' = Succeeded /\ \A n \in Nodes : Reachable(n)' <=> Reachable(n)
      BY <1>1 DEF Succeeded, Reachable
    <2>3. walk[w].node \in Succeeded
      BY <1>1, <1>2, <2>1 DEF Traced, Done, Prior
    <2>4. Ended'
      BY <1>1, <2>2, <2>3 DEF Ended
    <2>5. \A n \in Succeeded' : Reachable(n)'
      BY <2>1, <2>2 DEF Succeeded
    <2> QED BY <1>3, <2>1, <2>4, <2>5
  <1> QED BY <1>1, <1>4, AloneWhole DEF Walking, AtSomeNode

\* Whatever ends a walk without a success keeps what the rows say.
LEMMA ReturnWhole ==
  ASSUME WholeInv, NEW w \in Walkers, Return(w), UNCHANGED <<mode, split, rows>>,
         run' = run \/ (run.status # "none" /\ run'.status \in {"failed", "needs_intervention"})
  PROVE  Whole'
  <1>1. walk'[w].pc = "done" /\ \A v \in Walkers \ {w} : walk'[v] = walk[v]
    BY DEF Return, Stopped, WholeInv, OnceInv, OneAtATime, WellFormed, Typed
  <1> QED BY <1>1, SameWhole DEF AtSomeNode

LEMMA WholeNext == WholeInv /\ [Next]_vars => WholeInv'
  <1> SUFFICES ASSUME WholeInv, [Next]_vars PROVE Whole'
    BY RememberedNext DEF WholeInv
  <1> USE DEF WholeInv, OnceInv, OneAtATime, WellFormed, Typed
  <1>1. CASE UNCHANGED vars
    BY <1>1, SameWhole DEF vars, AtSomeNode
  <1>2. CASE Trigger
    <2>1. \A v \in Walkers : /\ AtSomeNode(v)' => walk'[v] = walk[v]
                             /\ walk'[v].pc = "load" => walk[v].pc = "load"
      BY <1>2 DEF Trigger, AtSomeNode, Walker
    <2> QED BY <1>2, <2>1, SameWhole DEF Trigger, AtSomeNode
  <1>3. ASSUME NEW w \in Walkers, Resume(w) \/ Walk(w) \/ StatementFails(w) \/ Disconnect(w)
        PROVE  Whole'
    <2>1. CASE Resume(w) \/ Acquire(w) \/ Disconnect(w)
      <3>1. \A v \in Walkers :
              /\ AtSomeNode(v)' =>
                   AtSomeNode(v) /\ UNCHANGED <<walk[v].pc, walk[v].node, walk[v].prior>>
              /\ walk'[v].pc = "load" => walk[v].pc = "load"
        <4>1. CASE Resume(w)
          BY <4>1 DEF Resume, AtSomeNode, Walker
        <4>2. CASE Acquire(w)
          <5>1. walk'[w].pc = "open"
            BY <4>2 DEF Acquire, Goto, Walker
          <5>2. \A v \in Walkers \ {w} : UNCHANGED <<walk[v].pc, walk[v].node, walk[v].prior>>
            BY <4>2, OthersKept DEF Walk
          <5> QED BY <5>1, <5>2 DEF AtSomeNode
        <4>3. CASE Disconnect(w)
          BY <4>3 DEF Disconnect, AtSomeNode, Walker
        <4> QED BY <2>1, <4>1, <4>2, <4>3
      <3>2. UNCHANGED <<mode, rows, run>> /\ (split => split')
        BY <2>1 DEF Resume, Acquire, Split, Disconnect
      <3> QED BY <3>1, <3>2, SameWhole
    <2>2. CASE Cancel(w) \/ Refuse(w) \/ EndFailed(w) \/ NoEdge(w) \/ StatementFails(w)
      <3>1. Return(w) /\ UNCHANGED <<mode, split, rows>>
        BY <2>2 DEF Cancel, Refuse, EndFailed, NoEdge, Finish, StatementFails
      <3>2. run' = run \/ (run.status # "none" /\ run'.status \in {"failed", "needs_intervention"})
        BY <2>2 DEF Cancel, Refuse, EndFailed, NoEdge, Finish, StatementFails, RunRow
      <3> QED BY <3>1, <3>2, ReturnWhole
    <2>3. CASE \/ Open(w) \/ Load(w) \/ Invoke(w) \/ Record(w) \/ Form(w) \/ Park(w)
               \/ Follow(w) \/ Complete(w)
      BY <2>3, OpenWhole, LoadWhole, InvokeWhole, RecordWhole, FormWhole, ParkWhole,
         FollowWhole, CompleteWhole
    <2> QED BY <1>3, <2>1, <2>2, <2>3 DEF Walk
  <1>4. CASE Crash
    <2>1. PICK gone \in SUBSET Services : Stops(gone)
      BY <1>4, CrashIs
    <2>2. \A v \in Walkers : walk'[v].pc = "done" \/ walk'[v] = walk[v]
      BY <2>1 DEF Stops, Stopped
    <2> QED BY <2>1, <2>2, SameWhole DEF Stops, AtSomeNode
  <1>5. CASE Delete
    BY <1>5 DEF Delete, Whole
  <1>6. CASE TimeoutWaiting \/ FailStale
    <2>1. /\ UNCHANGED <<mode, split, rows, walk>> /\ run.status # "none"
          /\ run'.status \in {"failed", "needs_intervention"}
      BY <1>6 DEF TimeoutWaiting, FailStale, RunRow
    <2> QED BY <2>1, SameWhole DEF AtSomeNode
  <1>7. CASE Tick
    <2>1. /\ UNCHANGED <<mode, split, rows, walk>> /\ run'.status = run.status /\ run'.form = run.form
      BY <1>7 DEF Tick, RunRow
    <2> QED BY <2>1, SameWhole DEF AtSomeNode
  <1> QED BY <1>1, <1>2, <1>3, <1>4, <1>5, <1>6, <1>7 DEF Next

LEMMA WholeInit == Init => WholeInv
  BY RememberedInit DEF Init, WholeInv, Whole

\* Under "serial", while no two Services walk at once, a run waits only for a form whose
\* newest attempt is the one that asked.
THEOREM WaitingRunAsks == Spec => []WaitingAsks
  <1>1. WholeInv => WaitingAsks
    BY DEF WholeInv, Whole, Asked, WaitingAsks
  <1> QED BY <1>1, WholeInit, WholeNext, PTL DEF Spec

\* Under "serial", while no two Services walk at once, a run that succeeded reached an
\* end of the graph, along nodes whose newest attempts all succeeded.
THEOREM SuccessfulRunIsWhole == Spec => []SuccessIsWhole
  <1>1. WholeInv => SuccessIsWhole
    BY DEF WholeInv, Whole, Ended, Succeeded, Reachable, SuccessIsWhole
  <1> QED BY <1>1, WholeInit, WholeNext, PTL DEF Spec
=============================================================================
