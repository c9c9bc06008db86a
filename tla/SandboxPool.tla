----------------------------- MODULE SandboxPool -----------------------------
(***************************************************************************)
(* The cloud sandbox of one chat: the lifecycle pool that creates it on the  *)
(* first tool call and evicts it when idle (internal/sandbox/lifecycle.go),  *)
(* over the E2B pool that owns it (internal/sandbox/e2b_executor.go), and    *)
(* the workspace store its files are hydrated from and synced to.            *)
(*                                                                          *)
(* The workspace is one file, whose successive contents are the versions     *)
(* 1, 2, ...: a snapshot, a put or a hydration carries one.  An executor is  *)
(* named by the sandbox it was created with; recreate gives it another.      *)
(***************************************************************************)
EXTENDS Integers, FiniteSets

CONSTANTS
    Calls,       \* tool calls that may be in progress at once
    MaxBoxes,    \* sandboxes the provider creates
    MaxVersion,  \* contents written
    IdleTTL,     \* ticks without a call after which a sandbox is evicted
    MaxFaults    \* failed requests, 404s of live sandboxes, expired sandboxes, moves and
                 \* reloads, together

ASSUME SandboxAssumption ==
    /\ MaxBoxes \in Nat /\ MaxVersion \in Nat
    /\ IdleTTL \in Nat \ {0} /\ MaxFaults \in Nat

VARIABLES
    box,      \* box[b]: the sandbox at the provider, and the file in it
    at,       \* at[e]: the sandbox of executor e (sandboxID)
    pool,     \* the executor the E2B pool holds for the chat
    tracked,  \* the chat has an entry in lastUsed, ...
    idle,     \* ... that is so old
    stopped,  \* the sweeper has been stopped (CloseAll)
    call,     \* call[c]: where a tool call is
    ender,    \* ender[p]: who releases the sandbox: the sweeper, or a chat's move
    store,    \* the version in the workspace store
    written,  \* the newest version written
    acked,    \* the newest version written by a call that has returned (history)
    excused,  \* the newest version a mishap may have lost (history, see AckedIsStored)
    faults    \* faults so far

vars == <<box, at, pool, tracked, idle, stopped, call, ender, store, written, acked,
          excused, faults>>

-----------------------------------------------------------------------------
Boxes == 1..MaxBoxes     \* in the order they are created
NoBox == 0

NoCall == [pc |-> "none", ex |-> NoBox, snap |-> 0, ver |-> 0, again |-> FALSE]
Enders == {"sweeper", "move"}
AtRest == [pc |-> "rest", ex |-> NoBox, snap |-> 0]

TypeOK ==
    /\ box \in [Boxes -> [state : {"none", "live", "closed", "expired"}, file : 0..MaxVersion]]
    /\ at \in [Boxes -> Boxes]
    /\ pool \in Boxes \cup {NoBox}
    /\ tracked \in BOOLEAN /\ idle \in 0..IdleTTL /\ stopped \in BOOLEAN
    /\ call \in [Calls -> [pc : {"none", "get", "running", "recreate", "hydrate", "snap",
                                 "put", "mirror"},
                           ex : Boxes \cup {NoBox}, snap : 0..MaxVersion,
                           ver : 0..MaxVersion, again : BOOLEAN]]
    /\ ender \in [Enders -> [pc : {"rest", "flush", "snap", "put", "remove", "close", "over"},
                             ex : Boxes \cup {NoBox}, snap : 0..MaxVersion]]
    /\ store \in 0..MaxVersion /\ written \in 0..MaxVersion /\ acked \in 0..MaxVersion
    /\ excused \in 0..MaxVersion
    /\ faults \in 0..MaxFaults

Init ==
    /\ box = [b \in Boxes |-> [state |-> "none", file |-> 0]]
    /\ at = [b \in Boxes |-> b]
    /\ pool = NoBox
    /\ tracked = FALSE /\ idle = 0 /\ stopped = FALSE
    /\ call = [c \in Calls |-> NoCall]
    /\ ender = [p \in Enders |-> AtRest]
    /\ store = 0 /\ written = 0 /\ acked = 0
    /\ excused = 0
    /\ faults = 0

Fault == faults < MaxFaults /\ faults' = faults + 1
Later(v, w) == IF v < w THEN w ELSE v

Live(b) == box[b].state = "live"

\* A command has ended in this sandbox, and the snapshot after it has yet to be taken.
Unsynced(b) ==
    Live(b) /\ \E c \in Calls : call[c].pc = "snap" /\ call[c].ver # 0 /\ at[call[c].ex] = b

\* The excuse when the file of a sandbox is no longer there for the snapshots to come.
Stranded(b) == IF Unsynced(b) THEN Later(excused, box[b].file) ELSE excused

\* A sandbox is destroyed with its file: closed by us, or expired at the provider.
Destroy(b, how) ==
    /\ box' = [box EXCEPT ![b] = [state |-> how, file |-> 0]]
    /\ excused' = Stranded(b)

\* The next sandbox is created with the given file in it.
Create(b, file) ==
    /\ \A a \in Boxes : box[a].state = "none" <=> a >= b
    /\ box' = [box EXCEPT ![b] = [state |-> "live", file |-> file]]

\* The E2B pool hydrates a sandbox before anyone has it.  A file of the store that
\* cannot be read is left out.
CreateHydrated(b) ==
    \/ Create(b, store) /\ UNCHANGED faults
    \/ Fault /\ Create(b, 0)

\* A content is put, older or newer than the one in the store.
Overwrite(ver) == store' = ver /\ excused' = IF ver < store THEN Later(excused, store) ELSE excused

\* syncSnapshot's Put: there may be no file to put, or the store may have one of the same
\* size, which is taken to be the same file.
PutFile(snap) ==
    \/ snap = 0 /\ UNCHANGED <<store, excused>>
    \/ snap # 0 /\ Overwrite(snap)
    \/ /\ store # 0 /\ snap \notin {0, store}
       /\ excused' = IF store < snap THEN Later(excused, snap) ELSE excused
       /\ UNCHANGED store

-----------------------------------------------------------------------------
(* A tool call on the lazy executor.                                        *)

Goto(c, pc) == call' = [call EXCEPT ![c].pc = pc]

\* The call returns.  That its files could not be synced is logged, not reported.
Return(c) == /\ call' = [call EXCEPT ![c] = NoCall]
             /\ acked' = Later(acked, call[c].ver)

\* The call fails: nothing is acknowledged.
Fail(c) == call' = [call EXCEPT ![c] = NoCall] /\ UNCHANGED acked

\* A command is followed by a snapshot of the sandbox its executor now has.
ToSnapshot(c, ver) ==
    call' = [call EXCEPT ![c] = [NoCall EXCEPT !.pc = "snap", !.ex = call[c].ex, !.ver = ver]]

\* It fails in the sandbox: a snapshot is taken all the same if it was a command.
Break(c) ==
    \/ Fail(c)
    \/ ToSnapshot(c, 0) /\ UNCHANGED acked

\* Mutant: only the idle time is set, as if the chat always had its entry.
Begin_Untracked(c) ==
    /\ call[c].pc = "none"
    /\ idle' = 0
    /\ Goto(c, "get")
    /\ UNCHANGED <<box, at, pool, tracked, stopped, ender, store, written, acked, excused, faults>>

\* getInner under the lock: the idle timer starts over.
Begin(c) ==
    /\ call[c].pc = "none"
    /\ tracked' = TRUE /\ idle' = 0
    /\ Goto(c, "get")
    /\ UNCHANGED <<box, at, pool, stopped, ender, store, written, acked, excused, faults>>

\* The E2B pool's Get: the executor it holds, or a new one.
Get(c) ==
    /\ call[c].pc = "get"
    /\ \/ /\ pool # NoBox
          /\ call' = [call EXCEPT ![c].pc = "running", ![c].ex = pool]
          /\ UNCHANGED <<box, pool, acked, faults>>
       \/ /\ pool = NoBox
          /\ \E b \in Boxes :
                /\ CreateHydrated(b)
                /\ pool' = b
                /\ call' = [call EXCEPT ![c].pc = "running", ![c].ex = b]
          /\ UNCHANGED acked
       \/ /\ pool = NoBox /\ Fault
          /\ Fail(c)
          /\ UNCHANGED <<box, pool>>
    /\ UNCHANGED <<at, tracked, idle, stopped, ender, store, written, excused>>

\* The sandbox of the executor answers.  The call has written a new version or none (a read,
\* a command without output); a command, ended well or badly, goes to its snapshot, a write to its
\* mirror, and an answer may be lost.  A 404 or a 502 has the sandbox replaced, once, even
\* from a live one, which answers 404 for a missing file.  A sandbox that is gone, before
\* the call reached it or meanwhile, answers 404, or not at all.
Finish(c) ==
    LET b == at[call[c].ex]
    IN  /\ call[c].pc = "running"
        /\ \/ /\ Live(b)
              /\ \E v \in {0, written + 1} \cap 0..MaxVersion :
                    /\ written' = Later(written, v)
                    /\ box' = [box EXCEPT ![b].file = IF v = 0 THEN @ ELSE v]
                    /\ \/ /\ \E ver \in {0, v} : ToSnapshot(c, ver)
                          /\ UNCHANGED <<acked, faults>>
                       \/ /\ v # 0
                          /\ call' = [call EXCEPT ![c] = [NoCall EXCEPT !.pc = "mirror", !.ver = v]]
                          /\ UNCHANGED <<acked, faults>>
                       \/ v = 0 /\ Return(c) /\ UNCHANGED faults
                       \/ v # 0 /\ Fault /\ Fail(c)
                       \/ ~call[c].again /\ Fault /\ Goto(c, "recreate") /\ UNCHANGED acked
           \/ /\ ~Live(b)
              /\ \/ ~call[c].again /\ Goto(c, "recreate") /\ UNCHANGED acked
                 \/ Break(c)
              /\ UNCHANGED <<box, written, faults>>
        /\ UNCHANGED <<at, pool, tracked, idle, stopped, ender, store, excused>>

\* Mutant: the name of the sandbox is cleared before there is a new one.
Recreate_Cleared(c) ==
    /\ call[c].pc = "recreate"
    /\ \/ /\ \E b \in Boxes : Create(b, 0) /\ at' = [at EXCEPT ![call[c].ex] = b]
          /\ excused' = Stranded(at[call[c].ex])
          /\ Goto(c, "hydrate")
          /\ UNCHANGED <<acked, faults>>
       \/ /\ Fault /\ Break(c)
          /\ at' = [at EXCEPT ![call[c].ex] = NoBox]
          /\ UNCHANGED <<box, excused>>
    /\ UNCHANGED <<pool, tracked, idle, stopped, ender, store, written>>

\* recreate: a new sandbox takes the place of the old, which may be live and is left at
\* the provider, and is hydrated after.
Recreate(c) ==
    /\ call[c].pc = "recreate"
    /\ \/ /\ \E b \in Boxes : Create(b, 0) /\ at' = [at EXCEPT ![call[c].ex] = b]
          /\ excused' = Stranded(at[call[c].ex])
          /\ Goto(c, "hydrate")
          /\ UNCHANGED <<acked, faults>>
       \/ Fault /\ Break(c) /\ UNCHANGED <<box, at, excused>>
    /\ UNCHANGED <<pool, tracked, idle, stopped, ender, store, written>>

\* The store's file is put into the sandbox, or left out: there is none, or it cannot be
\* read.  A hydration that fails, for a sandbox that is gone or in a live one, fails the
\* call and leaves the executor with the new sandbox, hydrated or not.
Hydrate(c) ==
    LET b == at[call[c].ex]
    IN  /\ call[c].pc = "hydrate"
        /\ \/ /\ Live(b)
              /\ \/ /\ store # 0
                    /\ box' = [box EXCEPT ![b].file = store]
                    /\ excused' = IF store < box[b].file THEN Stranded(b) ELSE excused
                 \/ UNCHANGED <<box, excused>>
              /\ \/ /\ \/ store \in {0, box'[b].file} /\ UNCHANGED faults
                       \/ Fault
                    /\ call' = [call EXCEPT ![c].pc = "running", ![c].again = TRUE]
                    /\ UNCHANGED acked
                 \/ Fault /\ Break(c)
           \/ /\ ~Live(b)
              /\ Break(c)
              /\ UNCHANGED <<box, excused, faults>>
        /\ UNCHANGED <<at, pool, tracked, idle, stopped, ender, store, written>>

\* Mutant: no snapshot is taken after a command, as in a local sandbox.
Snapshot_Local(c) ==
    /\ call[c].pc = "snap"
    /\ Return(c)
    /\ UNCHANGED <<box, at, pool, tracked, idle, stopped, ender, store, written, excused, faults>>

\* The snapshot after a command, within 60 seconds; it is not retried, here or on another
\* sandbox.
Snapshot(c) ==
    LET b == at[call[c].ex]
    IN  /\ call[c].pc = "snap"
        /\ \/ /\ Live(b)
              /\ call' = [call EXCEPT ![c].pc = "put", ![c].ex = NoBox, ![c].snap = box[b].file]
              /\ UNCHANGED <<acked, excused, faults>>
           \/ /\ Live(b) /\ Fault
              /\ excused' = Later(excused, call[c].ver)
              /\ Return(c)
           \/ ~Live(b) /\ Return(c) /\ UNCHANGED <<excused, faults>>
        /\ UNCHANGED <<box, at, pool, tracked, idle, stopped, ender, store, written>>

Put(c) ==
    /\ call[c].pc = "put"
    /\ \/ PutFile(call[c].snap) /\ UNCHANGED faults
       \/ Fault /\ excused' = Later(excused, call[c].ver) /\ UNCHANGED store
    /\ Return(c)
    /\ UNCHANGED <<box, at, pool, tracked, idle, stopped, ender, written>>

\* The bytes written are put, whatever the store has.
Mirror(c) ==
    /\ call[c].pc = "mirror"
    /\ \/ Overwrite(call[c].ver) /\ UNCHANGED faults
       \/ Fault /\ excused' = Later(excused, call[c].ver) /\ UNCHANGED store
    /\ Return(c)
    /\ UNCHANGED <<box, at, pool, tracked, idle, stopped, ender, written>>

-----------------------------------------------------------------------------
(* The end of a sandbox.                                                    *)

Untrack == tracked' = FALSE /\ idle' = 0
Step(p, pc) == ender' = [ender EXCEPT ![p] = [AtRest EXCEPT !.pc = pc]]
Done(p) == IF p = "move" THEN "over" ELSE "rest"

\* evictIdle under the lock: the entries of an idle chat are dropped.
PickIdle ==
    /\ ender["sweeper"].pc = "rest" /\ ~stopped
    /\ tracked /\ idle = IdleTTL
    /\ Untrack
    /\ Step("sweeper", "flush")
    /\ UNCHANGED <<box, at, pool, stopped, call, store, written, acked, excused, faults>>

\* MoveWebChatSession releases the sandbox of the chat it moves, unflushed.
MoveChat ==
    /\ ender["move"].pc = "rest"
    /\ Fault
    /\ Untrack
    /\ Step("move", "remove")
    /\ UNCHANGED <<box, at, pool, stopped, call, store, written, acked, excused>>

\* flushIfSupported gets the executor as a call would, creating one if there is none.
FlushGet ==
    /\ ender["sweeper"].pc = "flush"
    /\ \/ /\ pool # NoBox
          /\ ender' = [ender EXCEPT !["sweeper"].pc = "snap", !["sweeper"].ex = pool]
          /\ UNCHANGED <<box, pool, faults>>
       \/ /\ pool = NoBox
          /\ \E b \in Boxes :
                /\ CreateHydrated(b)
                /\ pool' = b
                /\ ender' = [ender EXCEPT !["sweeper"].pc = "snap", !["sweeper"].ex = b]
       \/ pool = NoBox /\ Fault /\ Step("sweeper", "remove") /\ UNCHANGED <<box, pool>>
    /\ UNCHANGED <<at, tracked, idle, stopped, call, store, written, acked, excused>>

\* A sandbox whose snapshot fails is released all the same.
FlushSnapshot ==
    LET b == at[ender["sweeper"].ex]
    IN  /\ ender["sweeper"].pc = "snap"
        /\ \/ /\ Live(b)
              /\ ender' = [ender EXCEPT !["sweeper"] =
                               [AtRest EXCEPT !.pc = "put", !.snap = box[b].file]]
              /\ UNCHANGED faults
           \/ Live(b) /\ Fault /\ Step("sweeper", "remove")
           \/ ~Live(b) /\ Step("sweeper", "remove") /\ UNCHANGED faults
        /\ UNCHANGED <<box, at, pool, tracked, idle, stopped, call, store, written, acked,
                       excused>>

FlushPut ==
    /\ ender["sweeper"].pc = "put"
    /\ \/ PutFile(ender["sweeper"].snap) /\ UNCHANGED faults
       \/ Fault /\ UNCHANGED <<store, excused>>
    /\ Step("sweeper", "remove")
    /\ UNCHANGED <<box, at, pool, tracked, idle, stopped, call, written, acked>>

\* Mutant: the executor stays in the map.
Remove_Late(p) ==
    /\ ender[p].pc = "remove"
    /\ IF pool = NoBox THEN Step(p, Done(p))
       ELSE ender' = [ender EXCEPT ![p] = [AtRest EXCEPT !.pc = "close", !.ex = pool]]
    /\ UNCHANGED <<box, at, pool, tracked, idle, stopped, call, store, written, acked, excused,
                   faults>>

\* The E2B pool's Release: out of the map under its lock ...
Remove(p) ==
    /\ ender[p].pc = "remove"
    /\ IF pool = NoBox THEN Step(p, Done(p))
       ELSE ender' = [ender EXCEPT ![p] = [AtRest EXCEPT !.pc = "close", !.ex = pool]]
    /\ pool' = NoBox
    /\ UNCHANGED <<box, at, tracked, idle, stopped, call, store, written, acked, excused,
                   faults>>

\* ... and closed after, at best effort.
Close(p) ==
    /\ ender[p].pc = "close"
    /\ \/ Destroy(at[ender[p].ex], "closed") /\ UNCHANGED faults
       \/ Fault /\ UNCHANGED <<box, excused>>
    /\ Step(p, Done(p))
    /\ UNCHANGED <<at, pool, tracked, idle, stopped, call, store, written, acked>>

\* A reload of the sandbox settings closes the pool; turns that run keep using it.  It
\* waits for the sweeper's pass.
CloseAll ==
    /\ ~stopped /\ ender["sweeper"].pc = "rest"
    /\ stopped' = TRUE
    /\ pool' = NoBox
    /\ \/ pool = NoBox /\ UNCHANGED <<box, excused>>
       \/ pool # NoBox /\ Destroy(at[pool], "closed")
    /\ Untrack
    /\ Fault
    /\ UNCHANGED <<at, call, ender, store, written, acked>>

\* The provider ends a sandbox at the end of its lifetime, used or not.
Expire(b) ==
    /\ Live(b)
    /\ Fault
    /\ Destroy(b, "expired")
    /\ UNCHANGED <<at, pool, tracked, idle, stopped, call, ender, store, written, acked>>

\* Commands may run for longer than the idle time; creation, hydration and
\* synchronisation do not.
Tick ==
    /\ tracked /\ idle < IdleTTL
    /\ \A c \in Calls : call[c].pc \in {"none", "running"}
    /\ idle' = idle + 1
    /\ UNCHANGED <<box, at, pool, tracked, stopped, call, ender, store, written, acked, excused,
                   faults>>

CallStep(c) ==
    \/ Get(c) \/ Finish(c) \/ Recreate(c) \/ Hydrate(c)
    \/ Snapshot(c) \/ Put(c) \/ Mirror(c)
Sweep == PickIdle \/ FlushGet \/ FlushSnapshot \/ FlushPut \/ Remove("sweeper") \/ Close("sweeper")

Next ==
    \/ \E c \in Calls : Begin(c) \/ CallStep(c)
    \/ Sweep
    \/ MoveChat \/ Remove("move") \/ Close("move")
    \/ CloseAll
    \/ \E b \in Boxes : Expire(b)
    \/ Tick

Spec == Init /\ [][Next]_vars

\* The sweeper is a loop on a ticker, and time passes.
Fairness == WF_vars(Sweep) /\ WF_vars(Tick)
FairSpec == Spec /\ Fairness

-----------------------------------------------------------------------------
(* What must hold.                                                          *)

\* The pool never holds an executor whose sandbox it has closed, however evictions, a
\* move, a reload and the calls that replace an executor's sandbox meet.
OpenWhenHeld == pool # NoBox => box[at[pool]].state # "closed"

\* What a call that returned has written is in the store, or a newer content is: evictions,
\* a move, a reload, replaced sandboxes and failed calls lose none of it, with these
\* exceptions, each of which excuses no more than what had been written by then:
\*   - a sandbox went, or was replaced while live, or was hydrated over, after a command
\*     had ended in it and before its snapshot was taken (Stranded);
\*   - the snapshot after a command, its put, or the mirror of a write failed;
\*   - a snapshot, of a command or of an eviction, or a mirror was put over a newer content
\*     (Overwrite);
\*   - a snapshot had the size of the older content in the store (PutFile).
AckedIsStored == acked <= Later(store, excused)

\* A sandbox that is not used is not kept: it is evicted unless a call comes, the chat
\* is moved or the pool is closed.
Evicted ==
    pool # NoBox ~> \/ pool = NoBox
                    \/ \E c \in Calls : call[c].pc # "none"
                    \/ ender["move"].pc # "rest" \/ stopped
=============================================================================
