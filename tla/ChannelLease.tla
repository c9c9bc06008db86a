---------------------------- MODULE ChannelLease ----------------------------
(***************************************************************************)
(* The cross-replica singleton gate of internal/channels/lease.go, for one *)
(* (channel, account) pair and the lease row the replicas share, kept in   *)
(* the SQL store (internal/store) or in Redis (internal/rediscoord).       *)
(*                                                                         *)
(* A gate is one runWithLease goroutine: it acquires the lease, runs the   *)
(* adapter while it renews the lease, and releases the lease when the      *)
(* adapter ends.  Gates of one replica present the same holder.            *)
(*                                                                         *)
(* Time is counted in ticks and kept as time left, so that no clock grows: *)
(* the validity left to the row, and to each gate the time left until its  *)
(* timer fires or its adapter must have stopped.  Replicas read one clock. *)
(* A step that is due is prompt: no tick passes before it is taken.  What  *)
(* can go wrong is that a replica dies and that a call to the database     *)
(* fails, with or without having taken effect.                             *)
(***************************************************************************)
EXTENDS Integers, FiniteSets

CONSTANTS
  Gates,       \* runWithLease goroutines
  Replicas,    \* holder IDs
  HostOf,      \* the replica that runs each gate
  NoHolder,    \* the holder of an absent row
  Backends,    \* the lease stores a deployment may be configured with
  TTL,         \* leaseTTL (30 s)
  RenewEvery,  \* leaseRenewInterval (10 s)
  RetryEvery,  \* leaseRetryInterval (10 s)
  StopTime,    \* how long an adapter may take to return once cancelled
  MaxErrors,   \* bound: database calls that fail
  MaxExits     \* bound: adapters that return on their own

ASSUME LeaseAssumption ==
  /\ HostOf \in [Gates -> Replicas]
  /\ NoHolder \notin Replicas
  /\ Backends \subseteq {"sql", "redis"}
  /\ TTL \in Nat \ {0}
  /\ RenewEvery \in Nat \ {0}
  /\ RetryEvery \in Nat \ {0}
  /\ StopTime \in Nat
  /\ MaxErrors \in Nat
  /\ MaxExits \in Nat

VARIABLES
  backend, \* the lease store in use
  holder,  \* holder_id of the row, NoHolder when there is no row
  left,    \* expires_at - now, and -1 once it has passed
  pc,      \* where each gate is
  due,     \* time left to each gate's timer
  down,    \* replicas that died or whose root context is cancelled
  errors,  \* database calls that failed so far
  exits,   \* adapters that returned on their own so far
  silent   \* ticks since an adapter ran while a gate wanted to run one

vars == <<backend, holder, left, pc, due, down, errors, exits, silent>>
row == <<holder, left>>

\* "off": not registered.  "acquire": about to ask for the lease.  "launch":
\* adapter and renewal are started, the select is not reached.  "poll": in the
\* select.  "drain", "drop": the adapter is cancelled and not back yet, after
\* a shutdown or a lost lease.  "sleep": in sleepOrDone.  "exited": returned.
GateState == {"off", "acquire", "launch", "poll", "drain", "drop", "sleep", "exited"}

\* The adapter of the gate speaks to the upstream.
Running == {"launch", "poll", "drain", "drop"}

Adapters == {g \in Gates : pc[g] \in Running}
Waiting == {g \in Gates : pc[g] \in {"acquire", "sleep"}}

Init ==
  /\ backend \in Backends
  /\ holder = NoHolder
  /\ left = -1
  /\ pc = [g \in Gates |-> "off"]
  /\ due = [g \in Gates |-> 0]
  /\ down = {}
  /\ errors = 0
  /\ exits = 0
  /\ silent = 0
----------------------------------------------------------------------------
(* The lease row: Acquire, Renew and Release of the SQL store are one      *)
(* statement each, Renew and Release of Redis one script each; Acquire of  *)
(* Redis takes effect at its SETNX, or at its renewal of an own key.       *)

\* Mutant: an expired row of another holder is never taken over.
AbsentOrOwn(h) == holder \in {NoHolder, h}

\* Whose row it is: SQL keeps an expired row, Redis forgets the key.
Holds(h) == holder = h /\ (backend = "redis" => left >= 0)

\* Who is let in: no row, an own row, or one that has expired.
Acquirable(h) == holder \in {NoHolder, h} \/ left < 0

\* Mutant: the TTL is added to the expiry of the row.
GrantExtends(h) == holder' = h /\ left' = left + TTL

\* Write the row for h, with a full TTL.
Grant(h) == holder' = h /\ left' = TTL

\* Delete the row if it is h's.
Delete(h) ==
  \/ Holds(h) /\ holder' = NoHolder /\ left' = -1
  \/ ~Holds(h) /\ UNCHANGED row

\* A call that fails: the error budget is the only bound on how many do.
Fail == errors < MaxErrors /\ errors' = errors + 1

\* Best-effort release: the error is logged and dropped.
Release(h) ==
  \/ Delete(h) /\ UNCHANGED errors
  \/ Fail /\ UNCHANGED row

Goto(g, state, timer) ==
  /\ pc' = [pc EXCEPT ![g] = state]
  /\ due' = [due EXCEPT ![g] = timer]
----------------------------------------------------------------------------
(* runWithLease and renewUntilLost. *)

\* Manager.Start or a hot registration calls runWithLease.
Register(g) ==
  /\ pc[g] = "off"
  /\ HostOf[g] \notin down
  /\ Goto(g, "acquire", 0)
  /\ UNCHANGED <<backend, row, down, errors, exits, silent>>

Acquire(g) ==
  LET h == HostOf[g]
  IN /\ pc[g] = "acquire"
     /\ h \notin down
     /\ \/ /\ Acquirable(h)
           /\ Grant(h)
           /\ Goto(g, "launch", RenewEvery)
           /\ silent' = 0
           /\ UNCHANGED errors
        \/ /\ ~Acquirable(h)
           /\ Goto(g, "sleep", RetryEvery)
           /\ UNCHANGED <<row, errors, silent>>
        \/ \* an error, and the row may have been written all the same
           /\ Fail
           /\ UNCHANGED row \/ (Acquirable(h) /\ Grant(h))
           /\ Goto(g, "sleep", RetryEvery)
           /\ UNCHANGED silent
     /\ UNCHANGED <<backend, down, exits>>

\* Reach the select.  If the context is cancelled by then the renewal loop may
\* have returned too, and select takes either case.
EnterSelect(g) ==
  /\ pc[g] = "launch"
  /\ \/ HostOf[g] \notin down /\ Goto(g, "poll", due[g])
     \/ HostOf[g] \in down /\ Goto(g, "drain", StopTime)
     \/ HostOf[g] \in down /\ Goto(g, "drop", StopTime)
  /\ UNCHANGED <<backend, row, down, errors, exits, silent>>

\* Mutant: a lost lease is logged and the loop goes on, like an error.
RenewIgnoresLoss(g) ==
  LET h == HostOf[g]
  IN /\ pc[g] = "poll"
     /\ due[g] = 0
     /\ h \notin down
     /\ \/ Holds(h) /\ Grant(h) /\ UNCHANGED errors
        \/ ~Holds(h) /\ UNCHANGED <<row, errors>>
        \/ Fail /\ (UNCHANGED row \/ (Holds(h) /\ Grant(h)))
     /\ Goto(g, "poll", RenewEvery)
     /\ UNCHANGED <<backend, down, exits, silent>>

\* The renewal ticker fires.  An error is logged and the loop goes on; a row
\* that is not the holder's ends the loop, which cancels the adapter.
Renew(g) ==
  LET h == HostOf[g]
  IN /\ pc[g] = "poll"
     /\ due[g] = 0
     /\ h \notin down
     /\ \/ /\ Holds(h)
           /\ Grant(h)
           /\ Goto(g, "poll", RenewEvery)
           /\ UNCHANGED errors
        \/ /\ ~Holds(h)
           /\ Goto(g, "drop", StopTime)
           /\ UNCHANGED <<row, errors>>
        \/ /\ Fail
           /\ UNCHANGED row \/ (Holds(h) /\ Grant(h))
           /\ Goto(g, "poll", RenewEvery)
     /\ UNCHANGED <<backend, down, exits, silent>>

\* The adapter returns on its own: release, and try again after a while.
AdapterExit(g) ==
  /\ pc[g] = "poll"
  /\ exits < MaxExits
  /\ exits' = exits + 1
  /\ Release(HostOf[g])
  /\ Goto(g, "sleep", RetryEvery)
  /\ UNCHANGED <<backend, down, silent>>

\* Mutant: the lease is released before the adapter has returned.
CtxDoneReleasesFirst(g) ==
  /\ HostOf[g] \in down
  /\ \/ /\ pc[g] = "poll"
        /\ Release(HostOf[g])
        /\ Goto(g, "drain", StopTime)
     \/ /\ pc[g] \in {"acquire", "sleep"}
        /\ Goto(g, "exited", 0)
        /\ UNCHANGED <<row, errors>>
  /\ UNCHANGED <<backend, down, exits, silent>>

\* The root context is cancelled: stop the adapter, or leave the retry loop.
CtxDone(g) ==
  /\ HostOf[g] \in down
  /\ \/ pc[g] = "poll" /\ Goto(g, "drain", StopTime)
     \/ pc[g] \in {"acquire", "sleep"} /\ Goto(g, "exited", 0)
  /\ UNCHANGED <<backend, row, down, errors, exits, silent>>

\* The cancelled adapter returns.  After a shutdown the lease is released; a
\* gate that lost its lease releases nothing and retries.
AdapterStopped(g) ==
  /\ \/ pc[g] = "drain" /\ Release(HostOf[g]) /\ Goto(g, "exited", 0)
     \/ pc[g] = "drop" /\ UNCHANGED <<row, errors>> /\ Goto(g, "sleep", RetryEvery)
  /\ UNCHANGED <<backend, down, exits, silent>>

Wake(g) ==
  /\ pc[g] = "sleep"
  /\ due[g] = 0
  /\ HostOf[g] \notin down
  /\ Goto(g, "acquire", 0)
  /\ UNCHANGED <<backend, row, down, errors, exits, silent>>
----------------------------------------------------------------------------
(* Replicas and time. *)

\* Graceful shutdown: the root context of the replica is cancelled.
Shutdown(r) ==
  /\ r \notin down
  /\ down' = down \union {r}
  /\ UNCHANGED <<backend, row, pc, due, errors, exits, silent>>

\* The process dies, also in the middle of a shutdown: nobody releases anything.
Crash(r) ==
  /\ \E g \in Gates : HostOf[g] = r /\ pc[g] \notin {"off", "exited"}
  /\ down' = down \union {r}
  /\ pc' = [g \in Gates |-> IF HostOf[g] = r THEN "exited" ELSE pc[g]]
  /\ due' = [g \in Gates |-> IF HostOf[g] = r THEN 0 ELSE due[g]]
  /\ UNCHANGED <<backend, row, errors, exits, silent>>

\* Nothing prompt is left to do.
Settled ==
  \A g \in Gates :
    /\ pc[g] \notin {"acquire", "launch"}
    /\ pc[g] \in {"poll", "sleep"} => HostOf[g] \notin down
    /\ pc[g] \in Running \union {"sleep"} => due[g] > 0

\* The longest the account may go without an adapter while a gate waits: a
\* dead holder's TTL and one retry, and as much again for each failed call,
\* which may have given the lease to a replica that then died.
OutageBound == (TTL + RetryEvery) * (1 + MaxErrors)

Tick ==
  /\ Settled
  /\ left' = IF left > -1 THEN left - 1 ELSE left
  /\ due' = [g \in Gates |-> IF due[g] > 0 THEN due[g] - 1 ELSE 0]
  /\ silent' = IF Adapters = {} /\ Waiting # {}
               THEN IF silent > OutageBound THEN silent ELSE silent + 1
               ELSE 0
  /\ UNCHANGED <<backend, holder, pc, down, errors, exits>>

GateStep(g) ==
  Acquire(g) \/ EnterSelect(g) \/ Renew(g) \/ CtxDone(g) \/ AdapterStopped(g) \/ Wake(g)

Next ==
  \/ \E g \in Gates : Register(g) \/ AdapterExit(g) \/ GateStep(g)
  \/ \E r \in Replicas : Shutdown(r) \/ Crash(r)
  \/ Tick

\* Timers fire, goroutines that can run do run, cancelled adapters return.
Fairness == WF_vars(Tick) /\ \A g \in Gates : WF_vars(GateStep(g))

Spec == Init /\ [][Next]_vars
FairSpec == Spec /\ Fairness
----------------------------------------------------------------------------
TypeOK ==
  /\ backend \in Backends
  /\ holder \in Replicas \union {NoHolder}
  /\ left \in -1..TTL
  /\ pc \in [Gates -> GateState]
  /\ due \in [Gates -> Nat]
  /\ down \in SUBSET Replicas
  /\ errors \in 0..MaxErrors
  /\ exits \in 0..MaxExits
  /\ silent \in 0..(OutageBound + 1)

\* Were the calls that failed so far all renewals of one lease, there would
\* still be time within its TTL for a renewal and for the adapter to stop.
Punctual == (errors + 1) * RenewEvery + StopTime <= TTL

\* At most one adapter speaks to the upstream for the account, so that no
\* message is received twice, as long as failed calls cannot use up the TTL.
OnePoller == Punctual => \A g, h \in Adapters : g = h

\* An account whose adapter is gone has a new one after a bounded time, if a
\* gate waits for it.
OutageBounded == silent <= OutageBound

\* A gate that waits for the lease of an account nobody serves gets it, or
\* another one does, or its replica goes down.
SomeonePolls ==
  \A g \in Gates : g \in Waiting ~> (Adapters # {} \/ HostOf[g] \in down)

\* An adapter whose lease was taken over stops.
EvictedStops ==
  \A g \in Gates :
    (pc[g] = "poll" /\ ~Holds(HostOf[g])) ~> (pc[g] # "poll" \/ Holds(HostOf[g]))
=============================================================================
