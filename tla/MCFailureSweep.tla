--------------------------- MODULE MCFailureSweep ---------------------------
(***************************************************************************)
(* FailureSweep for TLC: one session, whose agent's other calls share the   *)
(* breaker; one turn of its user at a time, which may overlap the sweep's   *)
(* replay.  Two replays, waited for one tick and two, fit the window.       *)
(***************************************************************************)
EXTENDS FailureSweep

CONSTANT s1, t1

MCSessions == {s1}
MCUserTurns == {t1}
=============================================================================
