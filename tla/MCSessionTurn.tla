--------------------------- MODULE MCSessionTurn ---------------------------
(* TLC instances of the conversation: see the cfg files. *)
EXTENDS SessionTurn, TLC

CONSTANTS t1, t2, m1, m2

MCTurns == {t1, t2}
MCOneTurn == {t1}
MCOneMessage == {m1}
MCMessages == {m1, m2}

Symmetry == Permutations(MCTurns)
=============================================================================
