---------------------------- MODULE MCTaskQueue ----------------------------
(* TLC instances of the task queue: see the cfg files. *)
EXTENDS TaskQueueProofs, TLC

CONSTANTS c1, c2, c3

MCTwoChats == {c1, c2}
MCThreeChats == {c1, c2, c3}

ChatSymmetry == Permutations(MCThreeChats)
=============================================================================
