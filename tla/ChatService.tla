---------------------------- MODULE ChatService ----------------------------
(***************************************************************************)
(* What the per-chat task queue promises its callers, with no channels,    *)
(* goroutines or clock: tasks are numbered as they arrive, wait in their   *)
(* chat's line, and are served from the head of the line, one at a time    *)
(* per chat and at most MaxServing at a time over all chats.  Closing the  *)
(* service may abandon the tasks that still wait.                          *)
(***************************************************************************)
EXTENDS Integers, Sequences, FiniteSets

CONSTANTS Chats, MaxServing

VARIABLES
  arrived,  \* number of tasks that arrived
  waiting,  \* the line of each chat
  serving,  \* the tasks being served for each chat
  served,   \* tasks that were served
  open      \* the service has not been closed

vars == <<arrived, waiting, serving, served, open>>

Init ==
  /\ arrived = 0
  /\ waiting = [c \in Chats |-> <<>>]
  /\ serving = [c \in Chats |-> {}]
  /\ served = {}
  /\ open = TRUE

Arrive(c) ==
  /\ open
  /\ arrived' = arrived + 1
  /\ waiting' = [waiting EXCEPT ![c] = Append(@, arrived + 1)]
  /\ UNCHANGED <<serving, served, open>>

Busy == {c \in Chats : serving[c] # {}}

Begin(c) ==
  /\ waiting[c] # <<>>
  /\ serving[c] = {}
  /\ Cardinality(Busy) < MaxServing
  /\ serving' = [serving EXCEPT ![c] = {Head(waiting[c])}]
  /\ waiting' = [waiting EXCEPT ![c] = Tail(@)]
  /\ UNCHANGED <<arrived, served, open>>

End(c) ==
  /\ serving[c] # {}
  /\ served' = served \union serving[c]
  /\ serving' = [serving EXCEPT ![c] = {}]
  /\ UNCHANGED <<arrived, waiting, open>>

Close ==
  /\ open
  /\ open' = FALSE
  /\ UNCHANGED <<arrived, waiting, serving, served>>

Abandon(c) ==
  /\ ~open
  /\ waiting[c] # <<>>
  /\ waiting' = [waiting EXCEPT ![c] = Tail(@)]
  /\ UNCHANGED <<arrived, serving, served, open>>

Next ==
  \/ \E c \in Chats : Arrive(c) \/ Begin(c) \/ End(c) \/ Abandon(c)
  \/ Close

Spec == Init /\ [][Next]_vars
=============================================================================
