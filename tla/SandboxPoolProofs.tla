-------------------------- MODULE SandboxPoolProofs --------------------------
(***************************************************************************)
(* Proofs about the sandbox of a chat, for any calls, boxes, versions and   *)
(* faults: the types, that the pool never holds an executor whose sandbox   *)
(* it has closed, and that what a call has written and acknowledged is lost *)
(* in none but the known ways.                                              *)
(***************************************************************************)
EXTENDS SandboxPool, TLAPS

Box == [state : {"none", "live", "closed", "expired"}, file : 0..MaxVersion]
Call == [pc : {"none", "get", "running", "recreate", "hydrate", "snap", "put", "mirror"},
         ex : Boxes \cup {NoBox}, snap : 0..MaxVersion, ver : 0..MaxVersion, again : BOOLEAN]
Ender == [pc : {"rest", "flush", "snap", "put", "remove", "close", "over"},
          ex : Boxes \cup {NoBox}, snap : 0..MaxVersion]

\* A call works in the sandbox of its executor.
Working == {"running", "recreate", "hydrate", "snap"}

\* The types, and that whoever works in a sandbox has an executor.
WellFormed ==
  /\ TypeOK
  /\ \A c \in Calls : call[c].pc \in Working => call[c].ex # NoBox
  /\ ender["sweeper"].pc = "snap" => ender["sweeper"].ex # NoBox
  /\ \A p \in Enders : ender[p].pc = "close" => ender[p].ex # NoBox

LEMMA ConstantsTyped ==
  /\ MaxBoxes \in Nat /\ MaxVersion \in Nat /\ IdleTTL \in Nat \ {0} /\ MaxFaults \in Nat
  /\ Boxes \subseteq Nat /\ NoBox \notin Boxes
  /\ NoCall \in Call /\ AtRest \in Ender
  BY SandboxAssumption DEF Boxes, NoBox, NoCall, AtRest, Call, Ender

\* The rest of the types.
Typed ==
  /\ box \in [Boxes -> Box] /\ at \in [Boxes -> Boxes] /\ pool \in Boxes \cup {NoBox}
  /\ tracked \in BOOLEAN /\ idle \in 0..IdleTTL /\ stopped \in BOOLEAN
  /\ ender \in [Enders -> Ender]
  /\ store \in 0..MaxVersion /\ written \in 0..MaxVersion /\ acked \in 0..MaxVersion
  /\ excused \in 0..MaxVersion /\ faults \in 0..MaxFaults

LEMMA TypeSplit == TypeOK <=> Typed /\ call \in [Calls -> Call]
  BY DEF TypeOK, Typed, Box, Call, Ender

LEMMA TypedInit == Init => WellFormed
  <1> SUFFICES ASSUME Init PROVE WellFormed
    OBVIOUS
  <1>1. TypeOK
    <2>1. call \in [Calls -> Call] /\ ender \in [Enders -> Ender]
      BY ConstantsTyped DEF Init
    <2>2. box \in [Boxes -> Box] /\ at \in [Boxes -> Boxes]
      BY ConstantsTyped DEF Init, Box
    <2>3. /\ pool \in Boxes \cup {NoBox} /\ tracked \in BOOLEAN /\ stopped \in BOOLEAN
      BY DEF Init
    <2>4. /\ excused \in 0..MaxVersion /\ idle \in 0..IdleTTL /\ faults \in 0..MaxFaults
          /\ store \in 0..MaxVersion /\ written \in 0..MaxVersion /\ acked \in 0..MaxVersion
      BY ConstantsTyped DEF Init
    <2> QED BY <2>1, <2>2, <2>3, <2>4, TypeSplit DEF Typed
  <1> QED BY <1>1 DEF Init, WellFormed, NoCall, AtRest, Enders, Working

\* A step of a call touches its own record, and that of nobody else.
LEMMA CallTyped ==
  ASSUME WellFormed, NEW c \in Calls, NEW q \in Call, call' = [call EXCEPT ![c] = q],
         q.pc \in Working => q.ex # NoBox
  PROVE  call' \in [Calls -> Call]
         /\ \A d \in Calls : call'[d].pc \in Working => call'[d].ex # NoBox
  BY DEF WellFormed, TypeOK, Call

\* A call on its way to a snapshot.
SnapCall(e, ver) == [NoCall EXCEPT !.pc = "snap", !.ex = e, !.ver = ver]

LEMMA SnapCallIs ==
  ASSUME NEW e \in Boxes, NEW ver \in 0..MaxVersion
  PROVE  /\ SnapCall(e, ver) \in Call /\ SnapCall(e, ver).pc = "snap" /\ SnapCall(e, ver).ex = e
         /\ SnapCall(e, ver).ver = ver
  BY ConstantsTyped DEF SnapCall, NoCall, Call

\* What ends a call, or sends it on to its last snapshot.
LEMMA EndIs ==
  ASSUME NEW c, Return(c) \/ Fail(c) \/ Break(c)
  PROVE  \/ call' = [call EXCEPT ![c] = NoCall]
         \/ call' = [call EXCEPT ![c] = SnapCall(call[c].ex, 0)] /\ acked' = acked
  BY DEF Return, Fail, Break, ToSnapshot, SnapCall

LEMMA EndTyped ==
  ASSUME WellFormed, NEW c \in Calls, Return(c) \/ Fail(c) \/ (Break(c) /\ call[c].pc \in Working)
  PROVE  /\ call' \in [Calls -> Call] /\ acked' \in 0..MaxVersion
         /\ \A d \in Calls : call'[d].pc \in Working => call'[d].ex # NoBox
  <1>t. /\ call \in [Calls -> Call] /\ acked \in 0..MaxVersion
        /\ call[c].pc \in Working => call[c].ex \in Boxes
    BY TypeSplit DEF WellFormed, Typed, Call
  <1>1. acked' \in 0..MaxVersion
    BY <1>t DEF Return, Fail, Break, Later, Call
  <1>2. CASE call' = [call EXCEPT ![c] = NoCall]
    <2>1. NoCall \in Call /\ NoCall.pc \notin Working
      BY ConstantsTyped DEF NoCall, Working
    <2> QED BY <1>1, <1>2, <2>1, CallTyped
  <1>3. CASE call' = [call EXCEPT ![c] = SnapCall(call[c].ex, 0)] /\ call[c].pc \in Working
    <2>1. SnapCall(call[c].ex, 0) \in Call /\ SnapCall(call[c].ex, 0).ex # NoBox
      <3>1. call[c].ex \in Boxes /\ 0 \in 0..MaxVersion /\ call[c].ex # NoBox
        BY <1>t, <1>3, ConstantsTyped
      <3> QED BY <3>1, SnapCallIs
    <2> QED BY <1>1, <1>3, <2>1, CallTyped
  <1>4. CASE Return(c) \/ Fail(c)
    BY <1>2, <1>4 DEF Return, Fail
  <1>5. CASE Break(c) /\ call[c].pc \in Working
    BY <1>2, <1>3, <1>5, EndIs
  <1> QED BY <1>4, <1>5

LEMMA GotoTyped ==
  ASSUME WellFormed, NEW c \in Calls, NEW pc, Goto(c, pc),
         pc = "get" \/ (call[c].pc \in Working /\ pc \in Working)
  PROVE  call' \in [Calls -> Call]
         /\ \A d \in Calls : call'[d].pc \in Working => call'[d].ex # NoBox
  <1> DEFINE q == [call[c] EXCEPT !.pc = pc]
  <1>1. q \in Call /\ (q.pc \in Working => q.ex # NoBox)
    BY TypeSplit DEF WellFormed, Call, Working
  <1>2. call' = [call EXCEPT ![c] = q]
    BY DEF Goto
  <1> HIDE DEF q
  <1> QED BY <1>1, <1>2, CallTyped

LEMMA FaultTyped ==
  ASSUME WellFormed, Fault \/ UNCHANGED faults
  PROVE  faults' \in 0..MaxFaults
  BY TypeSplit, ConstantsTyped DEF WellFormed, Typed, Fault

LEMMA CreateTyped ==
  ASSUME WellFormed, NEW b \in Boxes, NEW file \in 0..MaxVersion, Create(b, file)
  PROVE  box' \in [Boxes -> Box]
  BY TypeSplit DEF WellFormed, Typed, Create, Box

LEMMA CreateHydratedTyped ==
  ASSUME WellFormed, NEW b \in Boxes, CreateHydrated(b)
  PROVE  box' \in [Boxes -> Box] /\ faults' \in 0..MaxFaults
  <1>1. store \in 0..MaxVersion /\ 0 \in 0..MaxVersion
    BY TypeSplit, ConstantsTyped DEF WellFormed, Typed
  <1> QED BY <1>1, CreateTyped, FaultTyped DEF CreateHydrated

LEMMA FileTyped ==
  ASSUME WellFormed, NEW b \in Boxes, NEW file \in 0..MaxVersion, box' = [box EXCEPT ![b].file = file]
  PROVE  box' \in [Boxes -> Box]
  BY TypeSplit DEF WellFormed, Typed, Box

LEMMA StrandedTyped ==
  ASSUME WellFormed, NEW b \in Boxes
  PROVE  Stranded(b) \in 0..MaxVersion
  BY TypeSplit DEF WellFormed, Typed, Box, Stranded, Later

LEMMA DestroyTyped ==
  ASSUME WellFormed, NEW b \in Boxes, NEW how \in {"closed", "expired"}, Destroy(b, how)
  PROVE  box' \in [Boxes -> Box] /\ excused' \in 0..MaxVersion
  <1>1. excused' \in 0..MaxVersion
    BY StrandedTyped DEF Destroy
  <1>2. [state |-> how, file |-> 0] \in Box
    BY ConstantsTyped DEF Box
  <1> QED BY <1>1, <1>2, TypeSplit DEF Destroy, WellFormed, Typed

\* What a put leaves in the store.
LEMMA PutTyped ==
  ASSUME WellFormed, NEW ver \in 0..MaxVersion, PutFile(ver) \/ Overwrite(ver)
  PROVE  store' \in 0..MaxVersion /\ excused' \in 0..MaxVersion
  BY TypeSplit DEF WellFormed, Typed, PutFile, Overwrite, Later

LEMMA FinishTyped ==
  ASSUME WellFormed, NEW c \in Calls, Finish(c)
  PROVE  /\ Typed' /\ call' \in [Calls -> Call]
         /\ \A d \in Calls : call'[d].pc \in Working => call'[d].ex # NoBox
  <1> DEFINE b == at[call[c].ex]
             Calls2 == /\ call' \in [Calls -> Call]
                       /\ \A d \in Calls : call'[d].pc \in Working => call'[d].ex # NoBox
  <1>t. Typed /\ call \in [Calls -> Call] /\ call[c] \in Call
    BY TypeSplit DEF WellFormed
  <1>1. /\ call[c].pc = "running" /\ call[c].pc \in Working
        /\ UNCHANGED <<at, pool, tracked, idle, stopped, ender, store, excused>>
    BY DEF Finish, Working
  <1>x. call[c].ex \in Boxes /\ b \in Boxes
    BY <1>1, <1>t DEF WellFormed, Call, Typed
  <1>r. ASSUME Goto(c, "recreate") PROVE Calls2
    BY <1>1, <1>r, GotoTyped DEF Working
  <1>e. ASSUME Return(c) \/ Fail(c) \/ Break(c) PROVE Calls2 /\ acked' \in 0..MaxVersion
    BY <1>1, <1>e, EndTyped
  <1>q. ASSUME Calls2, written' \in 0..MaxVersion, box' \in [Boxes -> Box], acked' \in 0..MaxVersion,
               Fault \/ UNCHANGED faults
        PROVE  Typed' /\ Calls2
    BY <1>1, <1>q, <1>t, FaultTyped DEF Typed
  <1>2. CASE /\ (Goto(c, "recreate") /\ UNCHANGED acked) \/ Break(c)
             /\ UNCHANGED <<box, written, faults>>
    <2>1. Calls2 /\ acked' \in 0..MaxVersion
      BY <1>2, <1>e, <1>r, <1>t DEF Typed
    <2> QED BY <1>2, <1>q, <1>t, <2>1 DEF Typed
  <1>3. ASSUME NEW v \in {0, written + 1} \cap 0..MaxVersion, written' = Later(written, v),
               box' = [box EXCEPT ![b].file = IF v = 0 THEN @ ELSE v],
               Fault \/ UNCHANGED faults,
               \/ \E ver \in {0, v} : ToSnapshot(c, ver) /\ UNCHANGED acked
               \/ /\ call' = [call EXCEPT ![c] = [NoCall EXCEPT !.pc = "mirror", !.ver = v]]
                  /\ UNCHANGED acked
               \/ Return(c) \/ Fail(c)
               \/ Goto(c, "recreate") /\ UNCHANGED acked
        PROVE  Typed' /\ Calls2
    <2>1. v \in 0..MaxVersion /\ written' \in 0..MaxVersion
      BY <1>3, <1>t DEF Typed, Later
    <2> DEFINE file == IF v = 0 THEN box[b].file ELSE v
    <2>2. file \in 0..MaxVersion
      BY <1>t, <1>x, <2>1 DEF Typed, Box
    <2>3. box' = [box EXCEPT ![b].file = file]
      BY <1>3, <1>t, <1>x DEF Typed
    <2> HIDE DEF file
    <2>4. box' \in [Boxes -> Box]
      BY <1>x, <2>2, <2>3, FileTyped
    <2>5. Calls2 /\ acked' \in 0..MaxVersion
      <3>1. ASSUME NEW ver \in {0, v}, ToSnapshot(c, ver) PROVE Calls2
        <4>1. ver \in 0..MaxVersion
          BY <2>1, <3>1, ConstantsTyped
        <4>2. SnapCall(call[c].ex, ver) \in Call /\ SnapCall(call[c].ex, ver).ex # NoBox
          BY <1>x, <4>1, SnapCallIs, ConstantsTyped
        <4>3. call' = [call EXCEPT ![c] = SnapCall(call[c].ex, ver)]
          BY <3>1 DEF ToSnapshot, SnapCall
        <4> QED BY <4>2, <4>3, CallTyped
      <3>2. ASSUME call' = [call EXCEPT ![c] = [NoCall EXCEPT !.pc = "mirror", !.ver = v]] PROVE Calls2
        <4>1. /\ [NoCall EXCEPT !.pc = "mirror", !.ver = v] \in Call
              /\ [NoCall EXCEPT !.pc = "mirror", !.ver = v].pc \notin Working
          BY <2>1, ConstantsTyped DEF NoCall, Call, Working
        <4> QED BY <3>2, <4>1, CallTyped
      <3> QED BY <1>3, <1>e, <1>r, <1>t, <3>1, <3>2 DEF Typed
    <2> QED BY <1>3, <1>q, <2>1, <2>4, <2>5
  <1>4. CASE /\ \E v \in {0, written + 1} \cap 0..MaxVersion :
                  /\ written' = Later(written, v)
                  /\ box' = [box EXCEPT ![b].file = IF v = 0 THEN @ ELSE v]
                  /\ Fault \/ UNCHANGED faults
                  /\ \/ \E ver \in {0, v} : ToSnapshot(c, ver) /\ UNCHANGED acked
                     \/ /\ call' = [call EXCEPT ![c] = [NoCall EXCEPT !.pc = "mirror", !.ver = v]]
                        /\ UNCHANGED acked
                     \/ Return(c) \/ Fail(c)
                     \/ Goto(c, "recreate") /\ UNCHANGED acked
    BY <1>3, <1>4
  <1> QED BY <1>2, <1>4 DEF Finish

LEMMA TypedCalls ==
  ASSUME WellFormed, NEW c \in Calls, Begin(c) \/ CallStep(c)
  PROVE  WellFormed'
  <1>t. /\ Typed /\ call \in [Calls -> Call] /\ call[c] \in Call
    BY TypeSplit DEF WellFormed
  <1>x. call[c].pc \in Working => call[c].ex \in Boxes /\ at[call[c].ex] \in Boxes
    BY <1>t DEF WellFormed, Call, Typed
  <1> DEFINE Calls2 == /\ call' \in [Calls -> Call]
                       /\ \A d \in Calls : call'[d].pc \in Working => call'[d].ex # NoBox
  <1>q. ASSUME Calls2, Typed', UNCHANGED ender PROVE WellFormed'
    <2>1. TypeOK'
      BY <1>q DEF TypeOK, Typed, Box, Call, Ender
    <2> QED BY <1>q, <2>1 DEF WellFormed
  <1>1. CASE Begin(c)
    <2>1. Calls2
      BY <1>1, GotoTyped DEF Begin
    <2>2. Typed'
      BY <1>1, <1>t, ConstantsTyped DEF Begin, Typed
    <2> QED BY <1>1, <1>q, <2>1, <2>2 DEF Begin
  <1>2. CASE Get(c)
    <2> DEFINE q(ex) == [call[c] EXCEPT !.pc = "running", !.ex = ex]
    <2>0. UNCHANGED <<at, tracked, idle, stopped, ender, store, written, excused>>
      BY <1>2 DEF Get
    <2>1. ASSUME NEW ex \in Boxes, call' = [call EXCEPT ![c] = q(ex)] PROVE Calls2
      <3>1. q(ex) \in Call /\ q(ex).ex # NoBox
        BY <1>t, ConstantsTyped DEF Call
      <3> HIDE DEF q
      <3> QED BY <2>1, <3>1, CallTyped
    <2>2. CASE pool # NoBox /\ call' = [call EXCEPT ![c] = q(pool)] /\ UNCHANGED <<box, pool, acked, faults>>
      <3>1. Calls2
        BY <1>t, <2>1, <2>2 DEF Typed
      <3>2. Typed'
        BY <2>0, <1>t, <2>2 DEF Typed
      <3> QED BY <2>0, <1>q, <3>1, <3>2
    <2>3. ASSUME NEW b \in Boxes, CreateHydrated(b), pool' = b, call' = [call EXCEPT ![c] = q(b)],
                 UNCHANGED acked
          PROVE  WellFormed'
      <3>1. box' \in [Boxes -> Box] /\ faults' \in 0..MaxFaults
        BY <2>3, CreateHydratedTyped
      <3>2. Calls2
        BY <2>1, <2>3
      <3>3. Typed'
        BY <2>0, <1>t, <2>3, <3>1 DEF Typed
      <3> QED BY <2>0, <1>q, <3>2, <3>3
    <2>4. CASE Fault /\ Fail(c) /\ UNCHANGED <<box, pool>>
      <3>1. Calls2 /\ acked' \in 0..MaxVersion
        BY <2>4, EndTyped
      <3>2. Typed'
        BY <2>0, <1>t, <2>4, <3>1, FaultTyped DEF Typed
      <3> QED BY <2>0, <1>q, <3>1, <3>2
    <2> QED BY <1>2, <2>2, <2>3, <2>4 DEF Get
  <1>4. CASE Finish(c)
    <2>1. UNCHANGED ender
      BY <1>4 DEF Finish
    <2> QED BY <1>4, <1>q, <2>1, FinishTyped
  <1>5. CASE Recreate(c)
    <2>1. call[c].pc = "recreate" /\ UNCHANGED <<pool, tracked, idle, stopped, ender, store, written>>
      BY <1>5 DEF Recreate
    <2>2. CASE /\ \E b \in Boxes : Create(b, 0) /\ at' = [at EXCEPT ![call[c].ex] = b]
               /\ excused' = Stranded(at[call[c].ex])
               /\ Goto(c, "hydrate") /\ UNCHANGED <<acked, faults>>
      <3>1. Calls2
        BY <2>1, <2>2, GotoTyped DEF Working
      <3>2. box' \in [Boxes -> Box] /\ at' \in [Boxes -> Boxes]
        <4>1. PICK b \in Boxes : Create(b, 0) /\ at' = [at EXCEPT ![call[c].ex] = b]
          BY <2>2
        <4>2. 0 \in 0..MaxVersion
          BY ConstantsTyped
        <4> QED BY <1>t, <4>1, <4>2, CreateTyped DEF Typed
      <3>3. excused' \in 0..MaxVersion
        BY <1>x, <2>1, <2>2, StrandedTyped DEF Working
      <3> QED BY <1>t, <1>q, <2>1, <2>2, <3>1, <3>2, <3>3 DEF Typed
    <2>3. CASE Fault /\ Break(c) /\ UNCHANGED <<box, at, excused>>
      <3>1. Calls2 /\ acked' \in 0..MaxVersion
        BY <2>1, <2>3, EndTyped DEF Working
      <3>2. faults' \in 0..MaxFaults
        BY <2>3, FaultTyped
      <3> QED BY <1>t, <1>q, <2>1, <2>3, <3>1, <3>2 DEF Typed
    <2> QED BY <1>5, <2>2, <2>3 DEF Recreate
  <1>6. CASE Hydrate(c)
    <2> DEFINE b == at[call[c].ex]
    <2>1. /\ call[c].pc = "hydrate" /\ call[c].pc \in Working /\ b \in Boxes
          /\ UNCHANGED <<at, pool, tracked, idle, stopped, ender, store, written>>
      BY <1>6, <1>x DEF Hydrate, Working
    <2>2. box' \in [Boxes -> Box] /\ excused' \in 0..MaxVersion
      <3>1. CASE UNCHANGED <<box, excused>>
        BY <1>t, <3>1 DEF Typed
      <3>2. CASE /\ box' = [box EXCEPT ![b].file = store]
                 /\ excused' = IF store < box[b].file THEN Stranded(b) ELSE excused
        <4>1. box' \in [Boxes -> Box]
          BY <1>t, <2>1, <3>2, FileTyped DEF Typed
        <4>2. Stranded(b) \in 0..MaxVersion /\ excused \in 0..MaxVersion
          BY <1>t, <2>1, StrandedTyped DEF Typed
        <4> HIDE DEF b
        <4> QED BY <3>2, <4>1, <4>2
      <3> QED BY <1>6, <3>1, <3>2 DEF Hydrate
    <2>3. faults' \in 0..MaxFaults
      BY <1>6, FaultTyped DEF Hydrate
    <2>4. Calls2 /\ acked' \in 0..MaxVersion
      <3>1. CASE Break(c)
        BY <2>1, <3>1, EndTyped
      <3>2. CASE call' = [call EXCEPT ![c].pc = "running", ![c].again = TRUE] /\ UNCHANGED acked
        <4> DEFINE q == [call[c] EXCEPT !.pc = "running", !.again = TRUE]
        <4>1. q \in Call /\ q.ex # NoBox /\ call' = [call EXCEPT ![c] = q]
          BY <1>t, <1>x, <2>1, <3>2, ConstantsTyped DEF Call
        <4> HIDE DEF q
        <4>2. Calls2
          BY <4>1, CallTyped
        <4> QED BY <1>t, <3>2, <4>2 DEF Typed
      <3> QED BY <1>6, <3>1, <3>2 DEF Hydrate
    <2> HIDE DEF b
    <2> QED BY <1>t, <1>q, <2>1, <2>2, <2>3, <2>4 DEF Typed
  <1>7. CASE Snapshot(c)
    <2>1. /\ call[c].pc = "snap" /\ call[c].pc \in Working
          /\ UNCHANGED <<box, at, pool, tracked, idle, stopped, ender, store, written>>
      BY <1>7 DEF Snapshot, Working
    <2>2. faults' \in 0..MaxFaults
      BY <1>7, FaultTyped DEF Snapshot
    <2>3. excused' \in 0..MaxVersion
      BY <1>7, <1>t DEF Snapshot, Typed, Later, Call
    <2>4. Calls2 /\ acked' \in 0..MaxVersion
      <3>1. CASE Return(c)
        BY <3>1, EndTyped
      <3>2. CASE /\ UNCHANGED acked
                 /\ call' = [call EXCEPT ![c].pc = "put", ![c].ex = NoBox,
                                        ![c].snap = box[at[call[c].ex]].file]
        <4> DEFINE q == [call[c] EXCEPT !.pc = "put", !.ex = NoBox, !.snap = box[at[call[c].ex]].file]
        <4>1. box[at[call[c].ex]].file \in 0..MaxVersion
          BY <1>t, <1>x, <2>1 DEF Typed, Box
        <4>2. q \in Call /\ q.pc \notin Working
          BY <1>t, <4>1 DEF Call, Working
        <4>3. call' = [call EXCEPT ![c] = q]
          BY <1>t, <3>2
        <4> HIDE DEF q
        <4>4. Calls2
          BY <4>2, <4>3, CallTyped
        <4> QED BY <1>t, <3>2, <4>4 DEF Typed
      <3> QED BY <1>7, <3>1, <3>2 DEF Snapshot
    <2> QED BY <1>t, <1>q, <2>1, <2>2, <2>3, <2>4 DEF Typed
  <1>8. CASE Put(c) \/ Mirror(c)
    <2>1. /\ Return(c)
          /\ UNCHANGED <<box, at, pool, tracked, idle, stopped, ender, written>>
      BY <1>8 DEF Put, Mirror
    <2>2. Calls2 /\ acked' \in 0..MaxVersion
      BY <2>1, EndTyped
    <2>3. call[c].snap \in 0..MaxVersion /\ call[c].ver \in 0..MaxVersion
      BY <1>t DEF Call
    <2>4. store' \in 0..MaxVersion /\ excused' \in 0..MaxVersion
      <3>1. CASE PutFile(call[c].snap) \/ Overwrite(call[c].ver)
        BY <2>3, <3>1, PutTyped
      <3>2. CASE excused' = Later(excused, call[c].ver) /\ UNCHANGED store
        BY <1>t, <2>3, <3>2 DEF Typed, Later
      <3> QED BY <1>8, <3>1, <3>2 DEF Put, Mirror
    <2>5. faults' \in 0..MaxFaults
      BY <1>8, FaultTyped DEF Put, Mirror
    <2> QED BY <1>t, <1>q, <2>1, <2>2, <2>4, <2>5 DEF Typed
  <1> QED BY <1>1, <1>2, <1>4, <1>5, <1>6, <1>7, <1>8 DEF CallStep

\* A step of the sweeper or of a move: the calls are left alone.
LEMMA EnderTyped ==
  ASSUME WellFormed, NEW p \in Enders, NEW q \in Ender, ender' = [ender EXCEPT ![p] = q],
         q.pc = "close" \/ (p = "sweeper" /\ q.pc = "snap") => q.ex # NoBox
  PROVE  /\ ender' \in [Enders -> Ender]
         /\ ender'["sweeper"].pc = "snap" => ender'["sweeper"].ex # NoBox
         /\ \A r \in Enders : ender'[r].pc = "close" => ender'[r].ex # NoBox
  <1>1. ender \in [Enders -> Ender] /\ "sweeper" \in Enders
    BY TypeSplit DEF WellFormed, Typed, Enders
  <1>2. \A r \in Enders : ender'[r] = IF r = p THEN q ELSE ender[r]
    BY <1>1
  <1> QED BY <1>1, <1>2 DEF WellFormed

LEMMA UntrackTyped ==
  ASSUME Untrack
  PROVE  idle' \in 0..IdleTTL /\ tracked' \in BOOLEAN
  <1>1. idle' \in 0..IdleTTL
    BY ConstantsTyped DEF Untrack
  <1>2. tracked' \in BOOLEAN
    BY Zenon DEF Untrack
  <1> QED BY <1>1, <1>2

LEMMA TypedEnders ==
  ASSUME WellFormed, Sweep \/ MoveChat \/ Remove("move") \/ Close("move")
  PROVE  WellFormed'
  <1>t. Typed /\ ender \in [Enders -> Ender] /\ "sweeper" \in Enders /\ "move" \in Enders
    BY TypeSplit DEF WellFormed, Typed, Enders
  <1> DEFINE Enders2 == /\ ender' \in [Enders -> Ender]
                        /\ ender'["sweeper"].pc = "snap" => ender'["sweeper"].ex # NoBox
                        /\ \A r \in Enders : ender'[r].pc = "close" => ender'[r].ex # NoBox
  <1>q. ASSUME Enders2, Typed', UNCHANGED call PROVE WellFormed'
    <2>1. TypeOK'
      BY <1>q, TypeSplit DEF TypeOK, Typed, Box, Call, Ender, WellFormed
    <2> QED BY <1>q, <2>1 DEF WellFormed
  <1>s. ASSUME NEW p \in Enders, NEW pc \in {"flush", "remove", "rest", "over"}, Step(p, pc)
        PROVE  Enders2
    <2> DEFINE q == [AtRest EXCEPT !.pc = pc]
    <2>1. q \in Ender /\ q.pc = pc /\ ender' = [ender EXCEPT ![p] = q]
      BY <1>s, ConstantsTyped DEF Step, Ender, AtRest
    <2> HIDE DEF q
    <2> QED BY <2>1, EnderTyped
  <1>1. CASE PickIdle
    <2>1. /\ Untrack /\ Step("sweeper", "flush")
          /\ UNCHANGED <<box, at, pool, stopped, call, store, written, acked, excused, faults>>
      BY <1>1 DEF PickIdle
    <2>2. Enders2
      BY <1>s, <1>t, <2>1
    <2>3. idle' \in 0..IdleTTL /\ tracked' \in BOOLEAN
      BY <2>1, UntrackTyped
    <2>4. Typed'
      BY <1>t, <2>1, <2>2, <2>3 DEF Typed
    <2> QED BY <1>q, <2>1, <2>2, <2>4
  <1>2. CASE MoveChat
    <2>1. /\ Untrack /\ Step("move", "remove")
          /\ UNCHANGED <<box, at, pool, stopped, call, store, written, acked, excused>>
      BY <1>2 DEF MoveChat
    <2>2. Enders2
      BY <1>s, <1>t, <2>1
    <2>3. faults' \in 0..MaxFaults
      BY <1>2, FaultTyped DEF MoveChat
    <2>4. idle' \in 0..IdleTTL /\ tracked' \in BOOLEAN
      BY <2>1, UntrackTyped
    <2>5. Typed'
      BY <1>t, <2>1, <2>2, <2>3, <2>4 DEF Typed
    <2> QED BY <1>q, <2>1, <2>2, <2>5
  <1>3. CASE FlushGet
    <2> DEFINE q(ex) == [ender["sweeper"] EXCEPT !.pc = "snap", !.ex = ex]
    <2>0. UNCHANGED <<at, tracked, idle, stopped, call, store, written, acked, excused>>
      BY <1>3 DEF FlushGet
    <2>1. ASSUME NEW ex \in Boxes, ender' = [ender EXCEPT !["sweeper"] = q(ex)] PROVE Enders2
      <3>1. q(ex) \in Ender /\ q(ex).ex # NoBox
        BY <1>t, ConstantsTyped DEF Ender
      <3> HIDE DEF q
      <3> QED BY <1>t, <2>1, <3>1, EnderTyped
    <2>2. CASE pool # NoBox /\ ender' = [ender EXCEPT !["sweeper"] = q(pool)] /\ UNCHANGED <<box, pool, faults>>
      <3>1. Enders2
        BY <1>t, <2>1, <2>2 DEF Typed
      <3> QED BY <1>q, <1>t, <2>0, <2>2, <3>1 DEF Typed
    <2>3. ASSUME NEW b \in Boxes, CreateHydrated(b), pool' = b,
                 ender' = [ender EXCEPT !["sweeper"] = q(b)]
          PROVE  WellFormed'
      <3>1. box' \in [Boxes -> Box] /\ faults' \in 0..MaxFaults
        BY <2>3, CreateHydratedTyped
      <3>2. Enders2
        BY <2>1, <2>3
      <3> QED BY <1>q, <1>t, <2>0, <2>3, <3>1, <3>2 DEF Typed
    <2>4. CASE Fault /\ Step("sweeper", "remove") /\ UNCHANGED <<box, pool>>
      <3>1. faults' \in 0..MaxFaults
        BY <2>4, FaultTyped
      <3> QED BY <1>q, <1>s, <1>t, <2>0, <2>4, <3>1 DEF Typed
    <2> QED BY <1>3, <2>2, <2>3, <2>4 DEF FlushGet
  <1>4. CASE FlushSnapshot
    <2> DEFINE b == at[ender["sweeper"].ex]
               q == [AtRest EXCEPT !.pc = "put", !.snap = box[b].file]
    <2>0. UNCHANGED <<box, at, pool, tracked, idle, stopped, call, store, written, acked, excused>>
      BY <1>4 DEF FlushSnapshot
    <2>1. b \in Boxes /\ box[b].file \in 0..MaxVersion
      BY <1>4, <1>t DEF FlushSnapshot, WellFormed, Typed, Ender, Box
    <2>2. q \in Ender /\ q.pc = "put"
      BY <2>1, ConstantsTyped DEF Ender, AtRest
    <2>3. ender' = [ender EXCEPT !["sweeper"] = q] \/ Step("sweeper", "remove")
      BY <1>4 DEF FlushSnapshot
    <2>4. faults' \in 0..MaxFaults
      BY <1>4, FaultTyped DEF FlushSnapshot
    <2> HIDE DEF q, b
    <2>5. Enders2
      BY <1>s, <1>t, <2>2, <2>3, EnderTyped
    <2> QED BY <1>q, <1>t, <2>0, <2>4, <2>5 DEF Typed
  <1>5. CASE FlushPut
    <2>1. store' \in 0..MaxVersion /\ excused' \in 0..MaxVersion
      <3>1. ender["sweeper"].snap \in 0..MaxVersion
        BY <1>t DEF Ender
      <3>2. CASE PutFile(ender["sweeper"].snap)
        BY <3>1, <3>2, PutTyped
      <3>3. CASE UNCHANGED <<store, excused>>
        BY <1>t, <3>3 DEF Typed
      <3> QED BY <1>5, <3>2, <3>3 DEF FlushPut
    <2>2. faults' \in 0..MaxFaults
      BY <1>5, FaultTyped DEF FlushPut
    <2>3. Enders2
      BY <1>5, <1>s, <1>t DEF FlushPut
    <2> QED BY <1>5, <1>q, <1>t, <2>1, <2>2, <2>3 DEF FlushPut, Typed
  <1>6. ASSUME NEW p \in Enders, Remove(p) PROVE WellFormed'
    <2> DEFINE q == [AtRest EXCEPT !.pc = "close", !.ex = pool]
    <2>0. Done(p) \in {"flush", "remove", "rest", "over"}
      BY DEF Done
    <2>1. ASSUME Step(p, Done(p)) PROVE Enders2
      BY <1>s, <2>0, <2>1
    <2>2. ASSUME pool # NoBox, ender' = [ender EXCEPT ![p] = q] PROVE Enders2
      <3>1. q \in Ender /\ q.ex # NoBox
        BY <1>t, <2>2, ConstantsTyped DEF Ender, Typed, AtRest
      <3> HIDE DEF q
      <3> QED BY <2>2, <3>1, EnderTyped
    <2>3. Enders2
      BY <1>6, <2>1, <2>2 DEF Remove
    <2> QED BY <1>6, <1>q, <1>t, <2>3 DEF Remove, Typed
  <1>7. ASSUME NEW p \in Enders, Close(p) PROVE WellFormed'
    <2>1. Step(p, Done(p)) /\ UNCHANGED <<at, pool, tracked, idle, stopped, call, store, written, acked>>
      BY <1>7 DEF Close
    <2>2. Enders2
      BY <1>s, <2>1 DEF Done
    <2>3. at[ender[p].ex] \in Boxes
      BY <1>7, <1>t DEF Close, WellFormed, Ender, Typed
    <2>4. box' \in [Boxes -> Box] /\ excused' \in 0..MaxVersion
      <3>1. CASE Destroy(at[ender[p].ex], "closed")
        BY <2>3, <3>1, DestroyTyped
      <3>2. CASE UNCHANGED <<box, excused>>
        BY <1>t, <3>2 DEF Typed
      <3> QED BY <1>7, <3>1, <3>2 DEF Close
    <2>5. faults' \in 0..MaxFaults
      BY <1>7, FaultTyped DEF Close
    <2> QED BY <1>q, <1>t, <2>1, <2>2, <2>4, <2>5 DEF Typed
  <1> QED BY <1>t, <1>1, <1>2, <1>3, <1>4, <1>5, <1>6, <1>7 DEF Sweep

LEMMA TypedNext == WellFormed /\ [Next]_vars => WellFormed'
  <1> SUFFICES ASSUME WellFormed, [Next]_vars PROVE WellFormed'
    OBVIOUS
  <1>t. Typed /\ call \in [Calls -> Call]
    BY TypeSplit DEF WellFormed
  <1>q. ASSUME Typed', UNCHANGED <<call, ender>> PROVE WellFormed'
    <2>1. TypeOK'
      BY <1>q, <1>t DEF TypeOK, Typed, Box, Call, Ender
    <2> QED BY <1>q, <2>1 DEF WellFormed
  <1>1. CASE UNCHANGED vars
    BY <1>1, <1>q, <1>t DEF vars, Typed
  <1>2. CASE \E c \in Calls : Begin(c) \/ CallStep(c)
    BY <1>2, TypedCalls
  <1>3. CASE Sweep \/ MoveChat \/ Remove("move") \/ Close("move")
    BY <1>3, TypedEnders
  <1>4. CASE CloseAll
    <2>1. box' \in [Boxes -> Box] /\ excused' \in 0..MaxVersion
      <3>1. CASE pool # NoBox /\ Destroy(at[pool], "closed")
        <4>1. at[pool] \in Boxes
          BY <1>t, <3>1 DEF Typed
        <4> QED BY <3>1, <4>1, DestroyTyped
      <3>2. CASE UNCHANGED <<box, excused>>
        BY <1>t, <3>2 DEF Typed
      <3> QED BY <1>4, <3>1, <3>2 DEF CloseAll
    <2>2. /\ Untrack /\ pool' = NoBox
          /\ UNCHANGED <<at, call, ender, store, written, acked>>
      BY <1>4 DEF CloseAll
    <2>3. faults' \in 0..MaxFaults
      BY <1>4, FaultTyped DEF CloseAll
    <2>4. idle' \in 0..IdleTTL /\ tracked' \in BOOLEAN
      BY <2>2, UntrackTyped
    <2>5. stopped' \in BOOLEAN
      BY <1>4, Zenon DEF CloseAll
    <2>6. Typed'
      BY <1>t, <2>1, <2>2, <2>3, <2>4, <2>5 DEF Typed
    <2> QED BY <1>q, <2>2, <2>6
  <1>5. CASE \E b \in Boxes : Expire(b)
    <2>1. PICK b \in Boxes : Expire(b)
      BY <1>5
    <2>2. box' \in [Boxes -> Box] /\ excused' \in 0..MaxVersion
      BY <2>1, DestroyTyped DEF Expire
    <2>3. faults' \in 0..MaxFaults
      BY <2>1, FaultTyped DEF Expire
    <2> QED BY <1>q, <1>t, <2>1, <2>2, <2>3 DEF Expire, Typed
  <1>6. CASE Tick
    <2>1. idle' \in 0..IdleTTL
      BY <1>6, <1>t, ConstantsTyped DEF Tick, Typed
    <2> QED BY <1>6, <1>q, <1>t, <2>1 DEF Tick, Typed
  <1> QED BY <1>1, <1>2, <1>3, <1>4, <1>5, <1>6 DEF Next

\* Every variable of the pool keeps its type: among others, nothing works in a sandbox
\* that was never created, and no content beyond those written comes to be stored.
THEOREM TypeCorrect == Spec => []TypeOK
  <1>1. WellFormed => TypeOK
    BY DEF WellFormed
  <1> QED BY <1>1, TypedInit, TypedNext, PTL DEF Spec

-----------------------------------------------------------------------------
(* Who owns a sandbox.                                                      *)

\* Somebody has executor e: the pool, a call, or who releases it.
Used(e) == \/ e = pool
           \/ \E c \in Calls : call[c].ex = e
           \/ \E p \in Enders : ender[p].ex = e

\* An executor in use was created, as was the sandbox it has now, ...
Born == \A e \in Boxes : Used(e) => box[e].state # "none" /\ box[at[e]].state # "none"

\* ... that no other one has: an executor is given a sandbox nobody ever had.
Apart == \A e, f \in Boxes : Used(e) /\ Used(f) /\ at[e] = at[f] => e = f

\* What is being closed is out of the pool.
Out == \A p \in Enders : ender[p].pc = "close" => ender[p].ex # pool

\* An executor that is yet to be created will have the sandbox it is created with.
Unborn == \A b \in Boxes : box[b].state = "none" => at[b] = b

Owned == Born /\ Apart /\ Out /\ Unborn /\ OpenWhenHeld

LEMMA OwnedInit == Init => Owned
  BY ConstantsTyped DEF Init, Owned, Born, Apart, Out, Unborn, OpenWhenHeld, NoBox, AtRest,
                         Used, NoCall, Enders

\* No executor comes into use, and no sandbox becomes one that was never created.
LEMMA OwnedKept ==
  ASSUME Owned, WellFormed, WellFormed', at' = at, pool' \in {pool, NoBox}, Out', OpenWhenHeld',
         \A b \in Boxes : box[b].state # "none" => box'[b].state # "none",
         \A c \in Calls : call'[c].ex \in {call[c].ex, pool, NoBox},
         \A p \in Enders : ender'[p].ex \in {ender[p].ex, pool, NoBox}
  PROVE  Owned'
  <1>1. ASSUME NEW e \in Boxes, Used(e)' PROVE Used(e)
    BY <1>1, ConstantsTyped DEF Used
  <1>2. \A e \in Boxes : at[e] \in Boxes
    BY TypeSplit DEF WellFormed, Typed
  <1>3. Born'
    BY <1>1, <1>2 DEF Owned, Born
  <1>4. Apart'
    BY <1>1 DEF Owned, Apart
  <1>5. Unborn'
    BY DEF Owned, Unborn
  <1> QED BY <1>3, <1>4, <1>5 DEF Owned

\* The pool creates a sandbox: its executor is one nobody ever had.
LEMMA OwnedFresh ==
  ASSUME Owned, WellFormed, WellFormed', at' = at, pool = NoBox,
         NEW b \in Boxes, NEW file, Create(b, file), pool' = b,
         \A c \in Calls : call'[c].ex \in {call[c].ex, b},
         \A p \in Enders : ender'[p].ex \in {ender[p].ex, b},
         \A p \in Enders : ender'[p].pc = "close" => ender'[p] = ender[p]
  PROVE  Owned'
  <1>t. box \in [Boxes -> Box] /\ at \in [Boxes -> Boxes]
    BY TypeSplit DEF WellFormed, Typed
  <1>1. box[b].state = "none" /\ box' = [box EXCEPT ![b] = [state |-> "live", file |-> file]]
    BY ConstantsTyped DEF Create
  <1>2. ASSUME NEW e \in Boxes, Used(e)' PROVE Used(e) \/ e = b
    BY <1>2 DEF Used
  <1>3. \A e \in Boxes : Used(e) => e # b /\ at[e] # b
    BY <1>1 DEF Owned, Born
  <1>4. \A a \in Boxes : box[a].state # "none" => box'[a].state # "none"
    BY <1>t, <1>1
  <1>f. at[b] = b
    BY <1>1 DEF Owned, Unborn
  <1>5. Born'
    BY <1>t, <1>f, <1>1, <1>2, <1>4 DEF Owned, Born
  <1>6. Apart'
    BY <1>2, <1>3, <1>f DEF Owned, Apart
  <1>7. Out'
    <2> SUFFICES ASSUME NEW p \in Enders, ender'[p].pc = "close" PROVE ender'[p].ex # b
      BY DEF Out
    <2>1. Used(ender[p].ex) /\ ender'[p] = ender[p] /\ ender[p].ex # NoBox
      BY DEF Used, WellFormed
    <2>2. ender[p].ex \in Boxes
      BY <2>1, TypeSplit DEF WellFormed, Typed, Ender
    <2> QED BY <1>3, <2>1, <2>2
  <1>8. OpenWhenHeld'
    BY <1>t, <1>f, <1>1 DEF OpenWhenHeld
  <1>9. Unborn'
    BY <1>t, <1>4 DEF Owned, Unborn
  <1> QED BY <1>5, <1>6, <1>7, <1>8, <1>9 DEF Owned

\* A call that ends, or breaks off, leaves its executor or keeps it.
LEMMA EndKeeps ==
  ASSUME call \in [Calls -> Call], NEW c \in Calls, Return(c) \/ Fail(c) \/ Break(c)
  PROVE  \A d \in Calls : call'[d].ex \in {call[d].ex, NoBox}
  <1>1. NoCall.ex = NoBox /\ SnapCall(call[c].ex, 0).ex = call[c].ex
    BY DEF NoCall, SnapCall
  <1>2. PICK q : q.ex \in {call[c].ex, NoBox} /\ call' = [call EXCEPT ![c] = q]
    BY <1>1, EndIs
  <1>3. \A d \in Calls : call'[d] = IF d = c THEN q ELSE call[d]
    BY <1>2
  <1> QED BY <1>2, <1>3

\* A call replaces the sandbox of its executor.
LEMMA OwnedRecreated ==
  ASSUME Owned, WellFormed, NEW c \in Calls, Recreate(c)
  PROVE  Owned'
  <1>t. /\ box \in [Boxes -> Box] /\ at \in [Boxes -> Boxes] /\ call \in [Calls -> Call]
        /\ call[c].ex \in Boxes /\ pool \in Boxes \cup {NoBox} /\ WellFormed'
    <2>1. WellFormed'
      BY TypedCalls DEF CallStep
    <2>2. call[c].pc \in Working
      BY DEF Recreate, Working
    <2> QED BY <2>1, <2>2, TypeSplit DEF WellFormed, Typed, Call
  <1>1. UNCHANGED <<pool, ender>>
    BY DEF Recreate
  <1>2. ASSUME NEW b \in Boxes, Create(b, 0), at' = [at EXCEPT ![call[c].ex] = b], Goto(c, "hydrate")
        PROVE  Owned'
    <2> DEFINE e0 == call[c].ex
    <2>1. box[b].state = "none" /\ box' = [box EXCEPT ![b] = [state |-> "live", file |-> 0]]
      BY <1>2, ConstantsTyped DEF Create
    <2>2. \A d \in Calls : call'[d].ex = call[d].ex
      BY <1>2, <1>t DEF Goto, Call
    <2>3. \A e \in Boxes : Used(e)' <=> Used(e)
      BY <1>1, <2>2 DEF Used
    <2>4. Used(e0)
      BY DEF Used
    <2>5. \A e \in Boxes : Used(e) => e # b /\ at[e] # b /\ box[e].state # "none"
      BY <2>1 DEF Owned, Born
    <2>6. \A a \in Boxes : box[a].state # "none" => box'[a].state # "none"
      BY <1>t, <2>1
    <2>7. \A e \in Boxes : at'[e] = IF e = e0 THEN b ELSE at[e]
      BY <1>t, <1>2
    <2>8. box'[b].state = "live"
      BY <1>t, <2>1
    <2> HIDE DEF e0
    <2>9. Born'
      BY <2>3, <2>5, <2>6, <2>7, <2>8, <1>t DEF Owned, Born
    <2>10. Apart'
      BY <2>3, <2>5, <2>7 DEF Owned, Apart
    <2>11. Out'
      BY <1>1 DEF Owned, Out
    <2>12. Unborn'
      <3> SUFFICES ASSUME NEW a \in Boxes, box'[a].state = "none" PROVE at'[a] = a
        BY DEF Unborn
      <3>1. box[a].state = "none"
        BY <2>6
      <3>2. a # e0
        BY <2>4, <2>5, <3>1, <1>t DEF e0
      <3> QED BY <2>7, <3>1, <3>2 DEF Owned, Unborn
    <2>13. OpenWhenHeld'
      <3> SUFFICES ASSUME pool # NoBox PROVE box'[at'[pool]].state # "closed"
        BY <1>1 DEF OpenWhenHeld
      <3>1. Used(pool) /\ pool \in Boxes
        BY <1>t DEF Used
      <3>2. box[at[pool]].state # "closed" /\ at[pool] # b
        BY <2>5, <3>1 DEF Owned, OpenWhenHeld
      <3> QED BY <1>t, <2>1, <2>7, <2>8, <3>1, <3>2
    <2> QED BY <2>9, <2>10, <2>11, <2>12, <2>13 DEF Owned
  <1>3. CASE Break(c) /\ UNCHANGED <<box, at>>
    <2>1. \A d \in Calls : call'[d].ex \in {call[d].ex, pool, NoBox}
      BY <1>3, <1>t, EndKeeps
    <2>2. Out' /\ OpenWhenHeld'
      BY <1>1, <1>3 DEF Owned, Out, OpenWhenHeld
    <2> QED BY <1>1, <1>3, <1>t, <2>1, <2>2, OwnedKept
  <1> QED BY <1>2, <1>3 DEF Recreate

LEMMA OwnedCalls ==
  ASSUME Owned, WellFormed, NEW c \in Calls, Begin(c) \/ CallStep(c)
  PROVE  Owned'
  <1>t. /\ box \in [Boxes -> Box] /\ at \in [Boxes -> Boxes] /\ call \in [Calls -> Call]
        /\ pool \in Boxes \cup {NoBox} /\ WellFormed' /\ call[c] \in Call
    BY TypeSplit, TypedCalls DEF WellFormed, Typed
  <1>x. call[c].pc \in Working => at[call[c].ex] \in Boxes
    BY <1>t DEF WellFormed, Call
  <1> DEFINE Ex == \A d \in Calls : call'[d].ex \in {call[d].ex, pool, NoBox}
             SameStates == \A b \in Boxes : box'[b].state = box[b].state
  <1>k. ASSUME Ex, SameStates, UNCHANGED <<at, pool, ender>> PROVE Owned'
    <2>1. Out' /\ OpenWhenHeld'
      BY <1>k, <1>t DEF Owned, Out, OpenWhenHeld
    <2> QED BY <1>k, <1>t, <2>1, OwnedKept
  <1>e. ASSUME Return(c) \/ Fail(c) \/ Break(c) PROVE Ex
    BY <1>e, <1>t, EndKeeps
  <1>g. ASSUME NEW pc, Goto(c, pc) PROVE Ex
    BY <1>g, <1>t DEF Goto, Call
  <1>1. CASE Begin(c)
    BY <1>1, <1>g, <1>k DEF Begin
  <1>2. CASE Get(c)
    <2>1. UNCHANGED <<at, ender>>
      BY <1>2 DEF Get
    <2>2. CASE pool # NoBox /\ call' = [call EXCEPT ![c].pc = "running", ![c].ex = pool]
               /\ UNCHANGED <<box, pool>>
      <3>1. Ex
        BY <1>t, <2>2 DEF Call
      <3> QED BY <1>k, <2>1, <2>2, <3>1
    <2>3. ASSUME pool = NoBox, NEW b \in Boxes, CreateHydrated(b), pool' = b,
                 call' = [call EXCEPT ![c].pc = "running", ![c].ex = b]
          PROVE  Owned'
      <3>1. \A d \in Calls : call'[d].ex \in {call[d].ex, b}
        BY <1>t, <2>3 DEF Call
      <3>2. PICK file : Create(b, file)
        BY <2>3 DEF CreateHydrated
      <3> QED BY <1>t, <2>1, <2>3, <3>1, <3>2, OwnedFresh
    <2>4. CASE Fail(c) /\ UNCHANGED <<box, pool>>
      BY <1>e, <1>k, <2>1, <2>4
    <2> QED BY <1>2, <2>2, <2>3, <2>4 DEF Get
  <1>4. CASE Finish(c)
    <2>1. UNCHANGED <<at, pool, ender>> /\ call[c].pc \in Working
      BY <1>4 DEF Finish, Working
    <2>2. SameStates
      <3> DEFINE b == at[call[c].ex]
      <3>1. b \in Boxes
        BY <1>x, <2>1
      <3>2. PICK file : box' = box \/ box' = [box EXCEPT ![b] = [box[b] EXCEPT !.file = file]]
        BY <1>4, <1>t, <3>1 DEF Finish
      <3> HIDE DEF b
      <3> QED BY <1>t, <3>1, <3>2 DEF Box
    <2>3. Ex
      <3>1. CASE Return(c) \/ Fail(c) \/ Break(c) \/ Goto(c, "recreate")
        BY <1>e, <1>g, <3>1
      <3>2. ASSUME NEW ver, ToSnapshot(c, ver) PROVE Ex
        <4>1. call' = [call EXCEPT ![c] = SnapCall(call[c].ex, ver)]
          BY <3>2 DEF ToSnapshot, SnapCall
        <4>2. SnapCall(call[c].ex, ver).ex = call[c].ex
          BY DEF SnapCall, NoCall
        <4>3. \A d \in Calls : call'[d] = IF d = c THEN SnapCall(call[c].ex, ver) ELSE call[d]
          BY <1>t, <4>1
        <4> QED BY <4>2, <4>3
      <3>3. ASSUME NEW v, call' = [call EXCEPT ![c] = [NoCall EXCEPT !.pc = "mirror", !.ver = v]]
            PROVE  Ex
        <4>1. [NoCall EXCEPT !.pc = "mirror", !.ver = v].ex = NoBox
          BY DEF NoCall
        <4>2. \A d \in Calls : call'[d] = IF d = c THEN [NoCall EXCEPT !.pc = "mirror", !.ver = v]
                                                 ELSE call[d]
          BY <1>t, <3>3
        <4> QED BY <4>1, <4>2
      <3>4. \/ Return(c) \/ Fail(c) \/ Break(c) \/ Goto(c, "recreate")
            \/ \E ver : ToSnapshot(c, ver)
            \/ \E v : call' = [call EXCEPT ![c] = [NoCall EXCEPT !.pc = "mirror", !.ver = v]]
        BY <1>4 DEF Finish
      <3> QED BY <3>1, <3>2, <3>3, <3>4
    <2> QED BY <1>k, <2>1, <2>2, <2>3
  <1>5. CASE Recreate(c)
    BY <1>5, OwnedRecreated
  <1>6. CASE Hydrate(c)
    <2>1. UNCHANGED <<at, pool, ender>> /\ call[c].pc \in Working
      BY <1>6 DEF Hydrate, Working
    <2>2. SameStates
      <3> DEFINE b == at[call[c].ex]
      <3>1. b \in Boxes
        BY <1>x, <2>1
      <3>2. box' = box \/ box' = [box EXCEPT ![b] = [box[b] EXCEPT !.file = store]]
        BY <1>6, <1>t, <3>1 DEF Hydrate
      <3> HIDE DEF b
      <3> QED BY <1>t, <3>1, <3>2 DEF Box
    <2>3. Ex
      <3>1. Break(c) \/ call' = [call EXCEPT ![c].pc = "running", ![c].again = TRUE]
        BY <1>6 DEF Hydrate
      <3> QED BY <1>e, <1>t, <3>1 DEF Call
    <2> QED BY <1>k, <2>1, <2>2, <2>3
  <1>7. CASE Snapshot(c)
    <2>1. UNCHANGED <<box, at, pool, ender>>
      BY <1>7 DEF Snapshot
    <2>2. PICK file : \/ Return(c)
                      \/ call' = [call EXCEPT ![c].pc = "put", ![c].ex = NoBox, ![c].snap = file]
      BY <1>7 DEF Snapshot
    <2>3. Ex
      BY <1>e, <1>t, <2>2 DEF Call
    <2> QED BY <1>k, <2>1, <2>3
  <1>8. CASE Put(c) \/ Mirror(c)
    <2>1. UNCHANGED <<box, at, pool, ender>> /\ Return(c)
      BY <1>8 DEF Put, Mirror
    <2> QED BY <1>e, <1>k, <2>1
  <1> QED BY <1>1, <1>2, <1>4, <1>5, <1>6, <1>7, <1>8 DEF CallStep

\* A sandbox is destroyed.
LEMMA DestroyIs ==
  ASSUME box \in [Boxes -> Box], NEW b \in Boxes, NEW how \in {"closed", "expired"}, Destroy(b, how)
  PROVE  \A a \in Boxes : /\ a # b => box'[a] = box[a]
                          /\ box'[b].state = how
                          /\ box[a].state # "none" => box'[a].state # "none"
  BY DEF Destroy, Box

LEMMA OwnedEnders ==
  ASSUME Owned, WellFormed, Sweep \/ MoveChat \/ Remove("move") \/ Close("move")
  PROVE  Owned'
  <1>t. /\ box \in [Boxes -> Box] /\ at \in [Boxes -> Boxes] /\ ender \in [Enders -> Ender]
        /\ pool \in Boxes \cup {NoBox} /\ "sweeper" \in Enders /\ "move" \in Enders /\ WellFormed'
    BY TypeSplit, TypedEnders DEF WellFormed, Typed, Enders
  <1> DEFINE Ex == /\ \A p \in Enders : ender'[p].ex \in {ender[p].ex, pool, NoBox}
                   /\ \A p \in Enders : ender'[p].pc = "close" => ender'[p].ex # pool'
  <1>k. ASSUME Ex, UNCHANGED <<box, at, pool, call>> PROVE Owned'
    <2>1. Out' /\ OpenWhenHeld'
      BY <1>k DEF Owned, Out, OpenWhenHeld
    <2> QED BY <1>k, <1>t, <2>1, OwnedKept
  <1>s. ASSUME NEW p \in Enders, NEW pc \in {"flush", "remove", "rest", "over"}, Step(p, pc)
        PROVE  /\ \A r \in Enders : ender'[r].ex \in {ender[r].ex, NoBox}
               /\ \A r \in Enders : ender'[r].pc = "close" => ender'[r] = ender[r]
    <2>1. [AtRest EXCEPT !.pc = pc].ex = NoBox /\ [AtRest EXCEPT !.pc = pc].pc = pc
      BY DEF AtRest
    <2>2. \A r \in Enders : ender'[r] = IF r = p THEN [AtRest EXCEPT !.pc = pc] ELSE ender[r]
      BY <1>s, <1>t DEF Step
    <2> QED BY <1>s, <2>1, <2>2
  <1>r. ASSUME NEW p \in Enders, NEW pc \in {"flush", "remove", "rest", "over"}, Step(p, pc),
               pool' = pool
        PROVE  Ex
    BY <1>r, <1>s DEF Owned, Out
  <1>1. CASE PickIdle \/ MoveChat
    BY <1>1, <1>k, <1>r, <1>t DEF PickIdle, MoveChat
  <1>2. CASE FlushGet
    <2>1. UNCHANGED <<at, call>>
      BY <1>2 DEF FlushGet
    <2>2. CASE pool # NoBox /\ UNCHANGED <<box, pool>>
               /\ ender' = [ender EXCEPT !["sweeper"].pc = "snap", !["sweeper"].ex = pool]
      <3>1. Ex
        BY <1>t, <2>2 DEF Ender, Owned, Out
      <3> QED BY <1>k, <2>1, <2>2, <3>1
    <2>3. ASSUME pool = NoBox, NEW b \in Boxes, CreateHydrated(b), pool' = b,
                 ender' = [ender EXCEPT !["sweeper"].pc = "snap", !["sweeper"].ex = b]
          PROVE  Owned'
      <3>1. /\ \A p \in Enders : ender'[p].ex \in {ender[p].ex, b}
            /\ \A p \in Enders : ender'[p].pc = "close" => ender'[p] = ender[p]
        BY <1>t, <2>3 DEF Ender
      <3>2. PICK file : Create(b, file)
        BY <2>3 DEF CreateHydrated
      <3> QED BY <1>t, <2>1, <2>3, <3>1, <3>2, OwnedFresh
    <2>4. CASE Step("sweeper", "remove") /\ UNCHANGED <<box, pool>>
      BY <1>k, <1>r, <1>t, <2>1, <2>4
    <2> QED BY <1>2, <2>2, <2>3, <2>4 DEF FlushGet
  <1>3. CASE FlushSnapshot
    <2>1. UNCHANGED <<box, at, pool, call>>
      BY <1>3 DEF FlushSnapshot
    <2>2. CASE Step("sweeper", "remove")
      BY <1>k, <1>r, <1>t, <2>1, <2>2
    <2>3. ASSUME NEW file, ender' = [ender EXCEPT !["sweeper"] = [AtRest EXCEPT !.pc = "put", !.snap = file]]
          PROVE  Owned'
      <3> DEFINE q == [AtRest EXCEPT !.pc = "put", !.snap = file]
      <3>1. q.ex = NoBox /\ q.pc = "put"
        BY DEF AtRest
      <3>2. \A r \in Enders : ender'[r] = IF r = "sweeper" THEN q ELSE ender[r]
        BY <1>t, <2>3
      <3> HIDE DEF q
      <3>3. Ex
        BY <2>1, <3>1, <3>2 DEF Owned, Out
      <3> QED BY <1>k, <2>1, <3>3
    <2> QED BY <1>3, <2>2, <2>3 DEF FlushSnapshot
  <1>4. CASE FlushPut
    BY <1>4, <1>k, <1>r, <1>t DEF FlushPut
  <1>5. ASSUME NEW p \in Enders, Remove(p) PROVE Owned'
    <2>1. pool' = NoBox /\ UNCHANGED <<box, at, call>>
      BY <1>5 DEF Remove
    <2>2. \A r \in Enders : ender'[r].ex \in {ender[r].ex, pool, NoBox}
      <3>1. CASE Step(p, Done(p))
        <4>1. Done(p) \in {"flush", "remove", "rest", "over"}
          BY DEF Done
        <4> QED BY <1>s, <3>1, <4>1
      <3>2. CASE ender' = [ender EXCEPT ![p] = [AtRest EXCEPT !.pc = "close", !.ex = pool]]
        <4>1. [AtRest EXCEPT !.pc = "close", !.ex = pool].ex = pool
          BY DEF AtRest
        <4>2. \A r \in Enders : r # p => ender'[r] = ender[r]
          BY <1>t, <3>2
        <4>3. ender'[p] = [AtRest EXCEPT !.pc = "close", !.ex = pool]
          BY <1>t, <3>2
        <4> QED BY <4>1, <4>2, <4>3
      <3> QED BY <1>5, <3>1, <3>2 DEF Remove
    <2>3. Out' /\ OpenWhenHeld'
      BY <1>t, <2>1 DEF WellFormed, Out, OpenWhenHeld
    <2> QED BY <1>t, <2>1, <2>2, <2>3, OwnedKept
  <1>6. ASSUME NEW p \in Enders, Close(p) PROVE Owned'
    <2> DEFINE gone == at[ender[p].ex]
    <2>1. UNCHANGED <<at, pool, call>> /\ ender[p].pc = "close" /\ Step(p, Done(p))
      BY <1>6 DEF Close
    <2>2. Done(p) \in {"flush", "remove", "rest", "over"}
      BY DEF Done
    <2>4. \A r \in Enders : /\ ender'[r].ex \in {ender[r].ex, NoBox}
                            /\ ender'[r].pc = "close" => ender'[r] = ender[r]
      BY <1>s, <2>1, <2>2
    <2>5. Out'
      BY <2>1, <2>4 DEF Owned, Out
    <2>6. ender[p].ex \in Boxes /\ Used(ender[p].ex) /\ ender[p].ex # pool /\ gone \in Boxes
      BY <1>t, <2>1 DEF WellFormed, Ender, Used, Owned, Out
    <2>7. pool # NoBox => at[pool] # gone
      BY <1>t, <2>6 DEF Owned, Apart, Used
    <2>8. \A b \in Boxes : /\ box[b].state # "none" => box'[b].state # "none"
                           /\ b # gone => box'[b] = box[b]
      <3>1. CASE Destroy(gone, "closed")
        BY <1>t, <2>6, <3>1, DestroyIs
      <3>2. CASE UNCHANGED box
        BY <3>2
      <3> QED BY <1>6, <3>1, <3>2 DEF Close
    <2> HIDE DEF gone
    <2>9. OpenWhenHeld'
      BY <1>t, <2>1, <2>7, <2>8 DEF Owned, OpenWhenHeld
    <2> QED BY <1>t, <2>1, <2>4, <2>5, <2>8, <2>9, OwnedKept
  <1> QED BY <1>t, <1>1, <1>2, <1>3, <1>4, <1>5, <1>6 DEF Sweep

LEMMA OwnedNext == WellFormed /\ Owned /\ [Next]_vars => Owned'
  <1> SUFFICES ASSUME WellFormed, Owned, [Next]_vars PROVE Owned'
    OBVIOUS
  <1>t. box \in [Boxes -> Box] /\ at \in [Boxes -> Boxes] /\ pool \in Boxes \cup {NoBox} /\ WellFormed'
    BY TypeSplit, TypedNext DEF WellFormed, Typed
  <1>1. ASSUME UNCHANGED <<box, at, pool, call, ender>> PROVE Owned'
    <2>1. Out' /\ OpenWhenHeld'
      BY <1>1 DEF Owned, Out, OpenWhenHeld
    <2> QED BY <1>1, <1>t, <2>1, OwnedKept
  <1>2. CASE UNCHANGED vars \/ Tick
    BY <1>1, <1>2 DEF vars, Tick
  <1>3. CASE \E c \in Calls : Begin(c) \/ CallStep(c)
    BY <1>3, OwnedCalls
  <1>4. CASE Sweep \/ MoveChat \/ Remove("move") \/ Close("move")
    BY <1>4, OwnedEnders
  <1>5. CASE CloseAll
    <2>1. pool' = NoBox /\ UNCHANGED <<at, call, ender>>
      BY <1>5 DEF CloseAll
    <2>2. Out' /\ OpenWhenHeld'
      BY <1>t, <2>1 DEF WellFormed, Out, OpenWhenHeld
    <2>3. \A b \in Boxes : box[b].state # "none" => box'[b].state # "none"
      <3>1. CASE pool # NoBox /\ Destroy(at[pool], "closed")
        <4>1. at[pool] \in Boxes
          BY <1>t, <3>1
        <4> QED BY <1>t, <3>1, <4>1, DestroyIs
      <3>2. CASE UNCHANGED box
        BY <3>2
      <3> QED BY <1>5, <3>1, <3>2 DEF CloseAll
    <2> QED BY <1>t, <2>1, <2>2, <2>3, OwnedKept
  <1>6. ASSUME NEW b \in Boxes, Expire(b) PROVE Owned'
    <2>1. UNCHANGED <<at, pool, call, ender>>
      BY <1>6 DEF Expire
    <2>2. \A a \in Boxes : /\ a # b => box'[a] = box[a]
                           /\ box'[b].state = "expired"
                           /\ box[a].state # "none" => box'[a].state # "none"
      BY <1>6, <1>t, DestroyIs DEF Expire
    <2>3. \A a \in Boxes : /\ box[a].state # "none" => box'[a].state # "none"
                           /\ box[a].state # "closed" => box'[a].state # "closed"
      BY <2>2
    <2>4. Out' /\ OpenWhenHeld'
      BY <1>t, <2>1, <2>3 DEF Owned, Out, OpenWhenHeld
    <2> QED BY <1>t, <2>1, <2>3, <2>4, OwnedKept
  <1> QED BY <1>2, <1>3, <1>4, <1>5, <1>6 DEF Next

\* However evictions, moves, reloads and replacements meet, the pool holds no executor
\* whose sandbox it has closed: a call that gets one from the pool finds it open, or
\* expired at the provider, which it sees and repairs.
THEOREM HeldIsOpen == Spec => []OpenWhenHeld
  <1>1. Owned => OpenWhenHeld
    BY DEF Owned
  <1> QED BY <1>1, TypedInit, TypedNext, OwnedInit, OwnedNext, PTL DEF Spec
-----------------------------------------------------------------------------
(* What an acknowledged call has written is in the store, unless excused.   *)

\* A version is the call's own until it returns, and no newer than the newest.
Versioned(c) ==
  /\ call[c].ver <= written
  /\ call[c].ver # 0 => call[c].pc \in {"snap", "put", "mirror"}

\* What a call has written is in its sandbox when it comes to take the snapshot, and
\* in the snapshot when it puts it, unless it is excused.
Carried(c) ==
  /\ call[c].pc = "snap" /\ call[c].ver # 0 =>
       \/ call[c].ver <= excused
       \/ Live(at[call[c].ex]) /\ call[c].ver <= box[at[call[c].ex]].file
  /\ call[c].pc = "put" => call[c].ver <= excused \/ call[c].ver <= call[c].snap

Safe ==
  /\ \A c \in Calls : Versioned(c)
  /\ \A c \in Calls : Carried(c)
  /\ AckedIsStored

LEMMA VersionTypes ==
  ASSUME WellFormed
  PROVE  /\ written \in Nat /\ store \in Nat /\ acked \in Nat /\ excused \in Nat
         /\ box \in [Boxes -> Box] /\ at \in [Boxes -> Boxes]
         /\ \A b \in Boxes : box[b].file \in Nat
         /\ call \in [Calls -> Call]
         /\ \A c \in Calls : /\ call[c] \in Call /\ call[c].ver \in Nat /\ call[c].snap \in Nat
                             /\ call[c].pc \in Working =>
                                  call[c].ex \in Boxes /\ at[call[c].ex] \in Boxes
  <1>t. Typed /\ call \in [Calls -> Call]
    BY TypeSplit DEF WellFormed
  <1>1. written \in Nat /\ store \in Nat /\ acked \in Nat /\ excused \in Nat
        /\ box \in [Boxes -> Box] /\ at \in [Boxes -> Boxes]
    BY <1>t, ConstantsTyped DEF Typed
  <1>2. \A b \in Boxes : box[b].file \in Nat
    BY <1>t, ConstantsTyped DEF Typed, Box
  <1>3. ASSUME NEW c \in Calls
        PROVE  /\ call[c] \in Call /\ call[c].ver \in Nat /\ call[c].snap \in Nat
               /\ call[c].pc \in Working =>
                    call[c].ex \in Boxes /\ at[call[c].ex] \in Boxes
    <2>1. call[c] \in Call
      BY <1>t
    <2>2. call[c].ver \in 0..MaxVersion /\ call[c].snap \in 0..MaxVersion
          /\ call[c].ex \in Boxes \cup {NoBox}
      BY <2>1 DEF Call
    <2>3. call[c].pc \in Working => call[c].ex \in Boxes
      BY <2>2 DEF WellFormed
    <2>4. call[c].pc \in Working => at[call[c].ex] \in Boxes
      BY <1>1, <2>3
    <2>5. \A v \in 0..MaxVersion : v \in Nat
      BY ConstantsTyped
    <2> QED BY <2>1, <2>2, <2>3, <2>4, <2>5
  <1> QED BY <1>t, <1>1, <1>2, <1>3

\* The types after a step.
LEMMA VersionTypesNext ==
  ASSUME WellFormed'
  PROVE  /\ written' \in Nat /\ store' \in Nat /\ acked' \in Nat /\ excused' \in Nat
         /\ \A b \in Boxes : box'[b].file \in Nat
  <1>1. /\ written' \in 0..MaxVersion /\ store' \in 0..MaxVersion /\ acked' \in 0..MaxVersion
        /\ excused' \in 0..MaxVersion /\ box' \in [Boxes -> Box]
    BY DEF WellFormed, TypeOK, Box
  <1> QED BY <1>1, ConstantsTyped DEF Box

LEMMA SafeInit == Init => Safe
  BY DEF Init, Safe, Versioned, Carried, NoCall, AckedIsStored, Later

-----------------------------------------------------------------------------
(* What a step leaves to the calls that wait for their snapshot.            *)

\* What a call that waits has written stays in its sandbox, or is excused.
Kept(d) ==
  LET b == at[call[d].ex]
  IN  call[d].pc = "snap" /\ call[d].ver # 0 /\ Live(b) /\ call[d].ver <= box[b].file
        => \/ call[d].ver <= excused'
           \/ at'[call[d].ex] = b /\ box'[b].state = "live" /\ call[d].ver <= box'[b].file

\* A call that a step leaves alone.
LEMMA CarriedOn ==
  ASSUME WellFormed, WellFormed', NEW d \in Calls, Carried(d), call'[d] = call[d], Kept(d),
         excused <= excused'
  PROVE  Carried(d)'
  <1>1. excused \in Nat /\ excused' \in Nat /\ call[d].ver \in Nat
    BY VersionTypes, VersionTypesNext
  <1>2. CASE call[d].pc = "snap" /\ call[d].ver # 0
    <2>1. CASE call[d].ver <= excused
      BY <1>1, <1>2, <2>1 DEF Carried
    <2>2. CASE Live(at[call[d].ex]) /\ call[d].ver <= box[at[call[d].ex]].file
      BY <1>2, <2>2 DEF Carried, Kept, Live
    <2> QED BY <1>2, <2>1, <2>2 DEF Carried
  <1>3. CASE ~(call[d].pc = "snap" /\ call[d].ver # 0)
    BY <1>1, <1>3 DEF Carried
  <1> QED BY <1>2, <1>3

LEMMA KeptInPlace ==
  ASSUME UNCHANGED <<at, box>>
  PROVE  \A d \in Calls : Kept(d)
  BY DEF Kept, Live

\* A sandbox nobody has is created.
LEMMA KeptCreate ==
  ASSUME WellFormed, NEW b \in Boxes, NEW file, Create(b, file)
  PROVE  /\ \A a \in Boxes : Live(a) => a # b /\ box'[a] = box[a]
         /\ UNCHANGED at => \A d \in Calls : Kept(d)
  <1>1. box[b].state = "none" /\ box \in [Boxes -> Box]
    <2>1. b \in Nat
      BY ConstantsTyped
    <2> QED BY <2>1, VersionTypes DEF Create
  <1>2. \A a \in Boxes : Live(a) => a # b /\ box'[a] = box[a]
    BY <1>1 DEF Live, Create
  <1>3. ASSUME UNCHANGED at, NEW d \in Calls, call[d].pc = "snap", Live(at[call[d].ex])
        PROVE  box'[at[call[d].ex]] = box[at[call[d].ex]]
    <2>1. at[call[d].ex] \in Boxes
      BY <1>3, VersionTypes DEF Working
    <2> QED BY <1>2, <1>3, <2>1
  <1> QED BY <1>2, <1>3 DEF Kept, Live

LEMMA StrandedGrows ==
  ASSUME WellFormed, NEW b \in Boxes
  PROVE  Stranded(b) \in Nat /\ excused <= Stranded(b)
         /\ (Unsynced(b) => box[b].file <= Stranded(b))
  <1>1. excused \in Nat /\ box[b].file \in Nat
    BY VersionTypes
  <1> QED BY <1>1 DEF Stranded, Later

\* A sandbox goes, is replaced or is hydrated over, with its excuse.
LEMMA KeptStranded ==
  ASSUME WellFormed, NEW b \in Boxes, excused' = Stranded(b),
         \A a \in Boxes : Live(a) /\ a # b => box'[a] = box[a],
         \A e \in Boxes : at[e] # b => at'[e] = at[e]
  PROVE  \A d \in Calls : Kept(d)
  <1> SUFFICES ASSUME NEW d \in Calls, call[d].pc = "snap", call[d].ver # 0, Live(at[call[d].ex]),
                      call[d].ver <= box[at[call[d].ex]].file
               PROVE  \/ call[d].ver <= excused'
                      \/ /\ at'[call[d].ex] = at[call[d].ex]
                         /\ box'[at[call[d].ex]].state = "live"
                         /\ call[d].ver <= box'[at[call[d].ex]].file
    BY DEF Kept
  <1> DEFINE a == at[call[d].ex]
  <1>1. a \in Boxes /\ call[d].ex \in Boxes /\ call[d].ver \in Nat /\ box[a].file \in Nat
    BY VersionTypes DEF Working
  <1>2. CASE a = b
    <2>1. Unsynced(b)
      BY <1>2 DEF Unsynced
    <2>2. box[b].file <= excused' /\ excused' \in Nat
      BY <2>1, StrandedGrows
    <2> HIDE DEF a
    <2> QED BY <1>1, <1>2, <2>2 DEF a
  <1>3. CASE a # b
    <2>1. box'[a] = box[a] /\ at'[call[d].ex] = a
      BY <1>1, <1>3
    <2> QED BY <2>1 DEF Live
  <1> QED BY <1>2, <1>3

-----------------------------------------------------------------------------
(* What a step leaves in the store.                                         *)

LEMMA PutKeeps ==
  ASSUME WellFormed, NEW ver \in Nat, PutFile(ver) \/ Overwrite(ver)
  PROVE  /\ excused <= excused' /\ store <= Later(store', excused')
         /\ ver <= Later(store', excused')
  <1>1. store \in Nat /\ excused \in Nat
    BY VersionTypes
  <1>2. CASE Overwrite(ver)
    BY <1>1, <1>2 DEF Overwrite, Later
  <1>3. CASE PutFile(ver)
    BY <1>1, <1>2, <1>3 DEF PutFile, Later
  <1> QED BY <1>2, <1>3

\* What was in the store, or excused, still is.
LEMMA StoredOn ==
  ASSUME WellFormed, WellFormed', NEW v \in Nat, v <= Later(store, excused),
         excused <= excused', store <= Later(store', excused')
  PROVE  v <= Later(store', excused')
  <1>1. store \in Nat /\ excused \in Nat /\ store' \in Nat /\ excused' \in Nat
    BY VersionTypes, VersionTypesNext
  <1> QED BY <1>1 DEF Later

LEMMA StoreStays ==
  ASSUME WellFormed, WellFormed', UNCHANGED store
  PROVE  store <= Later(store', excused')
  <1>1. store \in Nat /\ excused' \in Nat
    BY VersionTypes, VersionTypesNext
  <1> QED BY <1>1 DEF Later

-----------------------------------------------------------------------------
(* The steps.                                                               *)

\* A step of one call.
LEMMA SafeMove ==
  ASSUME WellFormed, WellFormed', Safe, NEW c \in Calls, NEW q, call' = [call EXCEPT ![c] = q],
         excused <= excused', written <= written',
         q.ver <= written', q.ver # 0 => q.pc \in {"snap", "put", "mirror"},
         AckedIsStored', Carried(c)',
         \A d \in Calls \ {c} : Kept(d)
  PROVE  Safe'
  <1>1. /\ \A d \in Calls : call'[d] = IF d = c THEN q ELSE call[d]
        /\ written \in Nat /\ written' \in Nat
    BY VersionTypes, VersionTypesNext
  <1>2. ASSUME NEW d \in Calls PROVE Versioned(d)'
    <2>1. CASE d = c
      BY <1>1, <2>1 DEF Versioned
    <2>2. CASE d # c
      <3>1. call[d].ver \in Nat /\ Versioned(d)
        BY VersionTypes DEF Safe
      <3> QED BY <1>1, <2>2, <3>1 DEF Versioned
    <2> QED BY <2>1, <2>2
  <1>3. ASSUME NEW d \in Calls \ {c} PROVE Carried(d)'
    <2>1. Carried(d) /\ Kept(d) /\ call'[d] = call[d]
      BY <1>1 DEF Safe
    <2> QED BY <2>1, CarriedOn
  <1> QED BY <1>2, <1>3 DEF Safe

\* A step of nobody's call.
LEMMA SafeAside ==
  ASSUME WellFormed, WellFormed', Safe, UNCHANGED <<call, written, acked>>,
         excused <= excused', store <= Later(store', excused'),
         \A d \in Calls : Kept(d)
  PROVE  Safe'
  <1>1. \A d \in Calls : Versioned(d)'
    BY DEF Safe, Versioned
  <1>2. AckedIsStored'
    BY VersionTypes, StoredOn DEF Safe, AckedIsStored
  <1>3. ASSUME NEW d \in Calls PROVE Carried(d)'
    <2>1. Carried(d) /\ Kept(d)
      BY DEF Safe
    <2> QED BY <2>1, CarriedOn
  <1> QED BY <1>1, <1>2, <1>3 DEF Safe

\* A call that returns, fails or breaks off, with what it leaves in the store.
LEMMA SafeEnd ==
  ASSUME WellFormed, WellFormed', Safe, NEW c \in Calls,
         \/ Return(c) /\ call[c].ver <= Later(store', excused')
         \/ Fail(c) \/ Break(c),
         written <= written', excused <= excused', store <= Later(store', excused'),
         \A d \in Calls \ {c} : Kept(d)
  PROVE  Safe'
  <1>t. /\ written \in Nat /\ written' \in Nat /\ store \in Nat /\ acked \in Nat
        /\ call[c].ver \in Nat /\ call \in [Calls -> Call]
    BY VersionTypes, VersionTypesNext
  <1>1. PICK q : q \in {NoCall, SnapCall(call[c].ex, 0)} /\ call' = [call EXCEPT ![c] = q]
    BY EndIs
  <1>2. q.ver = 0 /\ q.pc # "put"
    <2>1. CASE q = NoCall
      BY <2>1 DEF NoCall
    <2>2. CASE q = SnapCall(call[c].ex, 0)
      BY <2>2 DEF SnapCall
    <2> QED BY <1>1, <2>1, <2>2
  <1>3. call'[c] = q
    BY <1>1, <1>t
  <1>4. Carried(c)'
    BY <1>2, <1>3 DEF Carried
  <1>5. acked <= Later(store', excused')
    BY <1>t, StoredOn DEF Safe, AckedIsStored
  <1>6. AckedIsStored'
    <2>1. CASE Return(c) /\ call[c].ver <= Later(store', excused')
      <3>1. acked' = Later(acked, call[c].ver)
        BY <2>1 DEF Return
      <3>2. acked' \in {acked, call[c].ver}
        BY <3>1 DEF Later
      <3> QED BY <1>5, <2>1, <3>2 DEF AckedIsStored
    <2>2. CASE Fail(c) \/ Break(c)
      BY <1>5, <2>2 DEF Fail, Break, AckedIsStored
    <2> QED BY <2>1, <2>2
  <1>7. q.ver <= written'
    BY <1>t, <1>2
  <1> QED BY <1>1, <1>2, <1>4, <1>6, <1>7, SafeMove

\* A call that goes on, with nothing written.
LEMMA SafeOn ==
  ASSUME WellFormed, WellFormed', Safe, NEW c \in Calls, NEW q, call' = [call EXCEPT ![c] = q],
         q.ver = 0, q.pc # "put", written <= written', UNCHANGED <<acked, store>>,
         excused <= excused', \A d \in Calls \ {c} : Kept(d)
  PROVE  Safe'
  <1>1. call \in [Calls -> Call] /\ written' \in Nat /\ acked \in Nat
    BY VersionTypes, VersionTypesNext
  <1>2. call'[c] = q
    BY <1>1
  <1>3. Carried(c)'
    BY <1>2 DEF Carried
  <1>4. AckedIsStored'
    BY <1>1, StoreStays, StoredOn DEF Safe, AckedIsStored
  <1>5. q.ver <= written'
    BY <1>1
  <1> QED BY <1>3, <1>4, <1>5, SafeMove

LEMMA SafeGoto ==
  ASSUME WellFormed, WellFormed', Safe, NEW c \in Calls, NEW pc, Goto(c, pc),
         pc # "put", call[c].pc \notin {"snap", "put", "mirror"},
         written <= written', UNCHANGED <<acked, store>>,
         excused <= excused', \A d \in Calls \ {c} : Kept(d)
  PROVE  Safe'
  <1> DEFINE q == [call[c] EXCEPT !.pc = pc]
  <1>1. call[c] \in Call /\ call \in [Calls -> Call]
    BY VersionTypes
  <1>2. call' = [call EXCEPT ![c] = q]
    BY <1>1 DEF Goto
  <1>3. q.ver = 0 /\ q.pc = pc
    BY <1>1 DEF Safe, Versioned, Call
  <1> HIDE DEF q
  <1> QED BY <1>2, <1>3, SafeOn

LEMMA SafeFinish ==
  ASSUME WellFormed, WellFormed', Safe, NEW c \in Calls, Finish(c)
  PROVE  Safe'
  <1> DEFINE e == call[c].ex
             b == at[e]
  <1>t. /\ written \in Nat /\ store \in Nat /\ acked \in Nat /\ store' \in Nat /\ written' \in Nat
        /\ call \in [Calls -> Call] /\ excused \in Nat /\ call[c].ver \in Nat
        /\ box \in [Boxes -> Box]
    BY VersionTypes, VersionTypesNext
  <1>1. /\ call[c].pc = "running" /\ UNCHANGED <<at, store, excused>> /\ call[c].ver = 0
        /\ call[c].pc \in Working
    BY DEF Finish, Safe, Versioned, Working
  <1>x. e \in Boxes /\ b \in Boxes
    BY <1>1, VersionTypes
  <1>2. excused <= excused' /\ store <= Later(store', excused') /\ call[c].ver <= Later(store', excused')
    BY <1>t, <1>1 DEF Later
  <1>3. CASE /\ (Goto(c, "recreate") /\ UNCHANGED acked) \/ Break(c)
             /\ UNCHANGED <<box, written>>
    <2>1. (\A d \in Calls : Kept(d)) /\ written <= written'
      BY <1>1, <1>3, <1>t, KeptInPlace
    <2>2. CASE Goto(c, "recreate") /\ UNCHANGED acked
      BY <1>1, <1>2, <2>1, <2>2, SafeGoto
    <2>3. CASE Break(c)
      BY <1>1, <1>2, <2>1, <2>3, SafeEnd
    <2> QED BY <1>3, <2>2, <2>3
  <1>4. ASSUME Live(b), NEW v \in {0, written + 1}, written' = Later(written, v),
               box' = [box EXCEPT ![b].file = IF v = 0 THEN @ ELSE v],
               \/ \E ver \in {0, v} : ToSnapshot(c, ver) /\ UNCHANGED acked
               \/ /\ call' = [call EXCEPT ![c] = [NoCall EXCEPT !.pc = "mirror", !.ver = v]]
                  /\ UNCHANGED acked
               \/ Return(c) \/ Fail(c)
               \/ Goto(c, "recreate") /\ UNCHANGED acked
        PROVE  Safe'
    <2>1. written <= written' /\ v <= written' /\ v \in Nat
      BY <1>t, <1>4 DEF Later
    <2>2. \A a \in Boxes : /\ box'[a].state = box[a].state
                           /\ box'[a].file = IF a = b /\ v # 0 THEN v ELSE box[a].file
      BY <1>t, <1>4 DEF Box
    <2>3. ASSUME NEW d \in Calls PROVE Kept(d)
      <3> SUFFICES ASSUME call[d].pc = "snap", call[d].ver # 0, Live(at[call[d].ex]),
                          call[d].ver <= box[at[call[d].ex]].file
                   PROVE  /\ box'[at[call[d].ex]].state = "live"
                          /\ call[d].ver <= box'[at[call[d].ex]].file
        BY <1>1 DEF Kept
      <3> DEFINE a == at[call[d].ex]
      <3>1. a \in Boxes /\ call[d].ver \in Nat /\ call[d].ver <= written
        BY VersionTypes DEF Working, Safe, Versioned
      <3>2. box'[a].state = "live"
        BY <1>1, <2>2, <3>1 DEF Live
      <3>3. call[d].ver <= box'[a].file
        <4>1. CASE a = b /\ v # 0
          BY <1>t, <1>4, <2>2, <3>1, <4>1
        <4>2. CASE ~(a = b /\ v # 0)
          BY <2>2, <3>1, <4>2
        <4> QED BY <4>1, <4>2
      <3> QED BY <3>2, <3>3
    <2>4. ASSUME NEW ver \in {0, v}, ToSnapshot(c, ver), UNCHANGED acked PROVE Safe'
      <3> DEFINE q == SnapCall(e, ver)
      <3>1. q.pc = "snap" /\ q.ver = ver /\ q.ex = e /\ call' = [call EXCEPT ![c] = q]
        BY <2>4 DEF SnapCall, ToSnapshot, NoCall
      <3> HIDE DEF q
      <3>2. call'[c] = q
        BY <1>t, <3>1
      <3>3. ver # 0 => box'[b].state = "live" /\ box'[b].file = ver
        <4>1. CASE ver = v
          BY <1>4, <1>x, <2>2, <4>1 DEF Live
        <4>2. CASE ver = 0
          BY <4>2
        <4> QED BY <2>4, <4>1, <4>2
      <3>4. Carried(c)'
        <4>1. at'[q.ex] = b /\ q.pc # "put"
          BY <1>1, <3>1
        <4>2. q.ver # 0 => box'[b].state = "live" /\ q.ver <= box'[b].file
          BY <2>1, <2>4, <3>1, <3>3
        <4> QED BY <1>1, <3>1, <3>2, <4>1, <4>2 DEF Carried, Live
      <3>5. AckedIsStored'
        BY <1>1, <2>4 DEF Safe, AckedIsStored
      <3>6. q.ver <= written' /\ (q.ver # 0 => q.pc \in {"snap", "put", "mirror"})
        BY <1>t, <2>1, <2>4, <3>1
      <3> QED BY <1>2, <2>1, <2>3, <3>1, <3>4, <3>5, <3>6, SafeMove
    <2>5. CASE /\ call' = [call EXCEPT ![c] = [NoCall EXCEPT !.pc = "mirror", !.ver = v]]
               /\ UNCHANGED acked
      <3> DEFINE q == [NoCall EXCEPT !.pc = "mirror", !.ver = v]
      <3>1. q.pc = "mirror" /\ q.ver = v /\ call' = [call EXCEPT ![c] = q]
        BY <2>5 DEF NoCall
      <3> HIDE DEF q
      <3>2. call'[c] = q
        BY <1>t, <3>1
      <3>3. Carried(c)'
        BY <3>1, <3>2 DEF Carried
      <3>4. AckedIsStored'
        BY <1>1, <2>5 DEF Safe, AckedIsStored
      <3> QED BY <1>2, <2>1, <2>3, <3>1, <3>3, <3>4, SafeMove
    <2>6. CASE Return(c) \/ Fail(c)
      BY <1>2, <2>1, <2>3, <2>6, SafeEnd
    <2>7. CASE Goto(c, "recreate") /\ UNCHANGED acked
      BY <1>1, <1>2, <2>1, <2>3, <2>7, SafeGoto
    <2> QED BY <1>4, <2>4, <2>5, <2>6, <2>7
  <1>5. CASE /\ Live(b)
             /\ \E v \in {0, written + 1} :
                  /\ written' = Later(written, v)
                  /\ box' = [box EXCEPT ![b].file = IF v = 0 THEN @ ELSE v]
                  /\ \/ \E ver \in {0, v} : ToSnapshot(c, ver) /\ UNCHANGED acked
                     \/ /\ call' = [call EXCEPT ![c] = [NoCall EXCEPT !.pc = "mirror", !.ver = v]]
                        /\ UNCHANGED acked
                     \/ Return(c) \/ Fail(c)
                     \/ Goto(c, "recreate") /\ UNCHANGED acked
    BY <1>4, <1>5
  <1> QED BY <1>3, <1>5 DEF Finish

LEMMA SafeHydrate ==
  ASSUME WellFormed, WellFormed', Safe, NEW c \in Calls, Hydrate(c)
  PROVE  Safe'
  <1> DEFINE b == at[call[c].ex]
  <1>t. /\ store \in Nat /\ excused \in Nat /\ written \in Nat /\ excused' \in Nat
        /\ call \in [Calls -> Call] /\ call[c] \in Call /\ box \in [Boxes -> Box]
    BY VersionTypes, VersionTypesNext
  <1>1. /\ call[c].pc = "hydrate" /\ UNCHANGED <<at, store, written>> /\ call[c].ver = 0
        /\ call[c].pc \in Working /\ b \in Boxes
    BY VersionTypes DEF Hydrate, Safe, Versioned, Working
  <1>2. excused <= excused' /\ \A d \in Calls : Kept(d)
    <2>1. CASE UNCHANGED <<box, excused>>
      BY <1>t, <1>1, <2>1, KeptInPlace
    <2>2. CASE /\ box' = [box EXCEPT ![b].file = store]
               /\ excused' = IF store < box[b].file THEN Stranded(b) ELSE excused
      <3>1. \A a \in Boxes : a # b => box'[a] = box[a]
        BY <1>t, <2>2
      <3>2. CASE store < box[b].file
        <4>1. excused' = Stranded(b)
          BY <2>2, <3>2
        <4> QED BY <1>1, <3>1, <4>1, KeptStranded, StrandedGrows
      <3>3. CASE ~(store < box[b].file)
        <4>1. excused' = excused /\ box[b].file <= store /\ box[b].file \in Nat
          BY <1>t, <1>1, <2>2, <3>3, VersionTypes
        <4>2. box'[b].state = box[b].state /\ box'[b].file = store
          BY <1>t, <1>1, <2>2 DEF Box
        <4>3. ASSUME NEW d \in Calls PROVE Kept(d)
          <5> DEFINE a == at[call[d].ex]
          <5>1. CASE a = b
            <6>1. call[d].ver \in Nat
              BY VersionTypes
            <6>2. call[d].ver <= box[b].file => call[d].ver <= box'[b].file
              BY <1>t, <4>1, <4>2, <6>1
            <6> QED BY <1>1, <4>2, <5>1, <6>2 DEF Kept, Live
          <5>2. CASE a # b /\ call[d].pc = "snap"
            <6>1. a \in Boxes
              BY <5>2, VersionTypes DEF Working
            <6>2. box'[a] = box[a]
              BY <3>1, <5>2, <6>1
            <6> QED BY <1>1, <6>2 DEF Kept, Live
          <5> QED BY <5>1, <5>2 DEF Kept
        <4> QED BY <1>t, <4>1, <4>3
      <3> QED BY <3>2, <3>3
    <2> QED BY <2>1, <2>2 DEF Hydrate
  <1>3. CASE Break(c)
    BY <1>t, <1>1, <1>2, <1>3, StoreStays, SafeEnd
  <1>4. CASE call' = [call EXCEPT ![c].pc = "running", ![c].again = TRUE] /\ UNCHANGED acked
    <2> DEFINE q == [call[c] EXCEPT !.pc = "running", !.again = TRUE]
    <2>1. q.ver = 0 /\ q.pc = "running" /\ call' = [call EXCEPT ![c] = q]
      BY <1>t, <1>1, <1>4 DEF Call
    <2> HIDE DEF q
    <2>2. written <= written' /\ q.pc # "put"
      BY <1>t, <1>1, <2>1
    <2> QED BY <1>1, <1>2, <1>4, <2>1, <2>2, SafeOn
  <1> QED BY <1>3, <1>4 DEF Hydrate

LEMMA SafeCalls ==
  ASSUME WellFormed, Safe, NEW c \in Calls, Begin(c) \/ CallStep(c)
  PROVE  Safe'
  <1> DEFINE e == call[c].ex
             b == at[e]
             K == \A d \in Calls \ {c} : Kept(d)
  <1>w. WellFormed'
    BY TypedCalls
  <1>t. /\ written \in Nat /\ store \in Nat /\ acked \in Nat /\ excused \in Nat
        /\ call \in [Calls -> Call] /\ call[c] \in Call /\ call[c].ver \in Nat /\ call[c].snap \in Nat
        /\ at \in [Boxes -> Boxes] /\ store' \in Nat /\ excused' \in Nat /\ Versioned(c) /\ Carried(c)
    BY <1>w, VersionTypes, VersionTypesNext DEF Safe
  <1>x. call[c].pc \in Working => e \in Boxes /\ b \in Boxes
    BY VersionTypes
  <1>s. ASSUME UNCHANGED <<at, box>> PROVE K
    BY <1>s, KeptInPlace
  <1>u. ASSUME UNCHANGED excused PROVE excused <= excused'
    BY <1>t, <1>u
  <1>v. ASSUME UNCHANGED written PROVE written <= written'
    BY <1>t, <1>v
  <1>1. CASE Begin(c)
    <2>1. K /\ excused <= excused' /\ written <= written'
      BY <1>1, <1>s, <1>u, <1>v DEF Begin
    <2> QED BY <1>1, <1>w, <2>1, SafeGoto DEF Begin
  <1>2. CASE Get(c)
    <2>1. UNCHANGED <<store, written, excused, at>> /\ excused <= excused' /\ written <= written'
          /\ call[c].ver = 0
      BY <1>2, <1>t, <1>u, <1>v DEF Get, Versioned
    <2>2. ASSUME NEW ex, call' = [call EXCEPT ![c].pc = "running", ![c].ex = ex], K, UNCHANGED acked
          PROVE  Safe'
      <3> DEFINE q == [call[c] EXCEPT !.pc = "running", !.ex = ex]
      <3>1. q.ver = 0 /\ q.pc = "running" /\ call' = [call EXCEPT ![c] = q]
        BY <1>t, <2>1, <2>2 DEF Call
      <3> HIDE DEF q
      <3> QED BY <1>w, <2>1, <2>2, <3>1, SafeOn
    <2>3. CASE call' = [call EXCEPT ![c].pc = "running", ![c].ex = pool] /\ UNCHANGED <<box, acked>>
      BY <1>s, <2>1, <2>2, <2>3
    <2>4. ASSUME NEW n \in Boxes, CreateHydrated(n),
                 call' = [call EXCEPT ![c].pc = "running", ![c].ex = n], UNCHANGED acked
          PROVE  Safe'
      <3>1. PICK file : Create(n, file)
        BY <2>4 DEF CreateHydrated
      <3>2. K
        BY <2>1, <3>1, KeptCreate
      <3> QED BY <2>2, <2>4, <3>2
    <2>5. CASE Fail(c) /\ UNCHANGED box
      <3>1. K
        BY <1>s, <2>1, <2>5
      <3> QED BY <1>w, <2>1, <2>5, <3>1, StoreStays, SafeEnd
    <2> QED BY <1>2, <2>3, <2>4, <2>5 DEF Get
  <1>4. CASE Finish(c)
    BY <1>4, <1>w, SafeFinish
  <1>5. CASE Recreate(c)
    <2>1. call[c].pc = "recreate" /\ UNCHANGED <<store, written>> /\ e \in Boxes /\ b \in Boxes
          /\ written <= written'
      BY <1>5, <1>v, <1>x DEF Recreate, Working
    <2>2. ASSUME NEW n \in Boxes, Create(n, 0), at' = [at EXCEPT ![e] = n],
                 excused' = Stranded(b), Goto(c, "hydrate"), UNCHANGED acked
          PROVE  Safe'
      <3>1. \A a \in Boxes : Live(a) => box'[a] = box[a]
        BY <2>2, KeptCreate
      <3>2. \A f \in Boxes : at[f] # b => at'[f] = at[f]
        BY <1>t, <2>1, <2>2
      <3>3. K
        BY <2>1, <2>2, <3>1, <3>2, KeptStranded
      <3>4. excused <= excused'
        BY <2>1, <2>2, StrandedGrows
      <3> HIDE DEF K, e, b
      <3> QED BY <1>w, <2>1, <2>2, <3>3, <3>4, SafeGoto DEF K
    <2>3. CASE Break(c) /\ UNCHANGED <<box, at, excused>>
      <3>1. K /\ excused <= excused'
        BY <1>s, <1>u, <2>3
      <3> QED BY <1>w, <2>1, <2>3, <3>1, StoreStays, SafeEnd
    <2> QED BY <1>5, <2>2, <2>3 DEF Recreate
  <1>6. CASE Hydrate(c)
    BY <1>6, <1>w, SafeHydrate
  <1>7. CASE Snapshot(c)
    <2>1. call[c].pc = "snap" /\ UNCHANGED <<box, at, store, written>> /\ written <= written'
          /\ call[c].pc \in Working
      BY <1>7, <1>v DEF Snapshot, Working
    <2>2. K
      BY <1>s, <2>1
    <2>3. CASE ~Live(b) /\ Return(c) /\ UNCHANGED excused
      <3>1. call[c].ver <= Later(store', excused')
        <4>1. call[c].ver <= excused
          BY <1>t, <2>1, <2>3 DEF Carried
        <4> QED BY <1>t, <2>3, <4>1 DEF Later
      <3> QED BY <1>w, <1>u, <2>1, <2>2, <2>3, <3>1, StoreStays, SafeEnd
    <2>4. CASE excused' = Later(excused, call[c].ver) /\ Return(c)
      <3>1. call[c].ver <= Later(store', excused') /\ excused <= excused'
        BY <1>t, <2>4 DEF Later
      <3> QED BY <1>w, <2>1, <2>2, <2>4, <3>1, StoreStays, SafeEnd
    <2>5. CASE /\ call' = [call EXCEPT ![c].pc = "put", ![c].ex = NoBox, ![c].snap = box[b].file]
               /\ UNCHANGED <<acked, excused>>
      <3> DEFINE q == [call[c] EXCEPT !.pc = "put", !.ex = NoBox, !.snap = box[b].file]
      <3>1. q.ver = call[c].ver /\ q.pc = "put" /\ q.snap = box[b].file
            /\ call' = [call EXCEPT ![c] = q]
        BY <1>t, <2>5 DEF Call
      <3> HIDE DEF q
      <3>2. call'[c] = q
        BY <1>t, <3>1
      <3>3. q.ver <= excused \/ q.ver <= q.snap
        <4>1. box[b].file \in Nat
          BY <1>x, <2>1, VersionTypes
        <4>2. CASE call[c].ver = 0
          BY <3>1, <4>1, <4>2
        <4>3. CASE call[c].ver # 0
          BY <1>t, <2>1, <3>1, <4>3 DEF Carried
        <4> QED BY <4>2, <4>3
      <3>4. Carried(c)'
        BY <2>5, <3>1, <3>2, <3>3 DEF Carried
      <3>5. AckedIsStored'
        BY <2>1, <2>5 DEF Safe, AckedIsStored
      <3>6. q.ver <= written' /\ excused <= excused'
        BY <1>t, <1>u, <2>1, <2>5, <3>1 DEF Versioned
      <3> QED BY <1>w, <2>1, <2>2, <3>1, <3>4, <3>5, <3>6, SafeMove
    <2> QED BY <1>7, <2>3, <2>4, <2>5 DEF Snapshot
  <1>8. CASE Put(c) \/ Mirror(c)
    <2>1. UNCHANGED <<box, at, written>> /\ Return(c) /\ written <= written'
      BY <1>8, <1>v DEF Put, Mirror
    <2>2. K
      BY <1>s, <2>1
    <2>3. /\ excused <= excused' /\ store <= Later(store', excused')
          /\ call[c].ver <= Later(store', excused')
      <3>1. CASE call[c].pc = "put" /\ PutFile(call[c].snap)
        <4>1. /\ excused <= excused' /\ store <= Later(store', excused')
              /\ call[c].snap <= Later(store', excused')
          BY <1>t, <3>1, PutKeeps
        <4>2. call[c].ver <= excused \/ call[c].ver <= call[c].snap
          BY <1>t, <3>1 DEF Carried
        <4> QED BY <1>t, <4>1, <4>2 DEF Later
      <3>2. CASE Overwrite(call[c].ver)
        BY <1>t, <3>2, PutKeeps
      <3>3. CASE excused' = Later(excused, call[c].ver) /\ UNCHANGED store
        BY <1>t, <3>3 DEF Later
      <3> QED BY <1>8, <3>1, <3>2, <3>3 DEF Put, Mirror
    <2> QED BY <1>w, <2>1, <2>2, <2>3, SafeEnd
  <1> QED BY <1>1, <1>2, <1>4, <1>5, <1>6, <1>7, <1>8 DEF CallStep

\* A sandbox goes: no call waits for its snapshot there, or the loss is excused.
LEMMA SafeDestroy ==
  ASSUME WellFormed, WellFormed', Safe, NEW b \in Boxes, NEW how, Destroy(b, how),
         UNCHANGED <<at, call, store, written, acked>>
  PROVE  Safe'
  <1>1. excused' = Stranded(b) /\ excused <= excused'
    BY StrandedGrows DEF Destroy
  <1>2. \A a \in Boxes : a # b => box'[a] = box[a]
    BY VersionTypes DEF Destroy
  <1>3. \A d \in Calls : Kept(d)
    BY <1>1, <1>2, KeptStranded
  <1> QED BY <1>1, <1>3, StoreStays, SafeAside

\* A step that leaves the calls, their boxes and the store alone.
LEMMA SafeStill ==
  ASSUME WellFormed, WellFormed', Safe, UNCHANGED <<box, at, call, store, written, acked, excused>>
  PROVE  Safe'
  <1>1. excused <= excused'
    BY VersionTypes
  <1> QED BY <1>1, KeptInPlace, StoreStays, SafeAside

LEMMA SafeNext == WellFormed /\ Safe /\ [Next]_vars => Safe'
  <1> SUFFICES ASSUME WellFormed, Safe, [Next]_vars PROVE Safe'
    OBVIOUS
  <1>w. WellFormed'
    BY TypedNext
  <1>1. CASE \E c \in Calls : Begin(c) \/ CallStep(c)
    BY <1>1, SafeCalls
  <1>2. CASE PickIdle \/ MoveChat \/ FlushSnapshot \/ Tick \/ UNCHANGED vars
             \/ \E p \in Enders : Remove(p)
    <2>1. UNCHANGED <<box, at, call, store, written, acked, excused>>
      BY <1>2 DEF PickIdle, MoveChat, FlushSnapshot, Tick, Remove, vars
    <2> QED BY <1>w, <2>1, SafeStill
  <1>3. CASE FlushGet
    <2>1. UNCHANGED <<at, call, store, written, acked, excused>>
      BY <1>3 DEF FlushGet
    <2>2. CASE UNCHANGED box
      BY <1>w, <2>1, <2>2, SafeStill
    <2>3. ASSUME NEW b \in Boxes, NEW file, Create(b, file) PROVE Safe'
      <3>1. \A d \in Calls : Kept(d)
        BY <2>1, <2>3, KeptCreate
      <3>2. excused <= excused'
        BY <2>1, VersionTypes
      <3> QED BY <1>w, <2>1, <3>1, <3>2, StoreStays, SafeAside
    <2> QED BY <1>3, <2>2, <2>3 DEF FlushGet, CreateHydrated
  <1>4. CASE FlushPut
    <2>1. UNCHANGED <<box, at, call, written, acked>>
      BY <1>4 DEF FlushPut
    <2>2. CASE PutFile(ender["sweeper"].snap)
      <3>1. ender["sweeper"].snap \in Nat
        <4>1. ender["sweeper"] \in Ender
          BY TypeSplit DEF WellFormed, Typed, Enders
        <4> QED BY <4>1, ConstantsTyped DEF Ender
      <3>2. excused <= excused' /\ store <= Later(store', excused')
        BY <2>2, <3>1, PutKeeps
      <3> QED BY <1>w, <2>1, <3>2, KeptInPlace, SafeAside
    <2>3. CASE UNCHANGED <<store, excused>>
      BY <1>w, <2>1, <2>3, SafeStill
    <2> QED BY <1>4, <2>2, <2>3 DEF FlushPut
  <1>5. ASSUME NEW p \in Enders, Close(p) PROVE Safe'
    <2>1. UNCHANGED <<at, call, store, written, acked>>
      BY <1>5 DEF Close
    <2>2. CASE UNCHANGED <<box, excused>>
      BY <1>w, <2>1, <2>2, SafeStill
    <2>3. CASE Destroy(at[ender[p].ex], "closed")
      <3>1. at[ender[p].ex] \in Boxes
        <4>1. ender[p] \in Ender /\ at \in [Boxes -> Boxes]
          BY TypeSplit DEF WellFormed, Typed
        <4>2. ender[p].ex \in Boxes
          BY <1>5, <4>1 DEF Close, WellFormed, Ender
        <4> QED BY <4>1, <4>2
      <3> QED BY <1>w, <2>1, <2>3, <3>1, SafeDestroy
    <2> QED BY <1>5, <2>2, <2>3 DEF Close
  <1>6. CASE CloseAll
    <2>1. UNCHANGED <<at, call, store, written, acked>>
      BY <1>6 DEF CloseAll
    <2>2. CASE UNCHANGED <<box, excused>>
      BY <1>w, <2>1, <2>2, SafeStill
    <2>3. CASE pool # NoBox /\ Destroy(at[pool], "closed")
      <3>1. at[pool] \in Boxes
        BY <2>3, VersionTypes DEF WellFormed, TypeOK
      <3> QED BY <1>w, <2>1, <2>3, <3>1, SafeDestroy
    <2> QED BY <1>6, <2>2, <2>3 DEF CloseAll
  <1>7. ASSUME NEW b \in Boxes, Expire(b) PROVE Safe'
    BY <1>7, <1>w, SafeDestroy DEF Expire
  <1> QED BY <1>1, <1>2, <1>3, <1>4, <1>5, <1>6, <1>7 DEF Next, Sweep, Enders

\* The newest content an acknowledged call has written is in the store, or a newer one,
\* unless one of the mishaps listed at AckedIsStored came after it was written: a sandbox
\* gone, replaced or hydrated over before a command's snapshot, a failed snapshot, put or
\* mirror, an older content put over a newer, or a content of the same size.
THEOREM LostOnlyWhenExcused == Spec => []AckedIsStored
  <1>1. Init => WellFormed /\ Safe
    BY TypedInit, SafeInit
  <1>2. WellFormed /\ Safe /\ [Next]_vars => (WellFormed /\ Safe)'
    BY TypedNext, SafeNext
  <1>3. Safe => AckedIsStored
    BY DEF Safe
  <1> QED BY <1>1, <1>2, <1>3, PTL DEF Spec
=============================================================================
