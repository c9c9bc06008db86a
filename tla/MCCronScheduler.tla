-------------------------- MODULE MCCronScheduler --------------------------
(* TLC instances of the cron scheduler: see the cfg files. *)
EXTENDS CronScheduler, TLC

CONSTANTS j1, j2, s1, s2

MCOneJob == {j1}
MCTwoJobs == {j1, j2}
MCOneScheduler == {s1}
MCTwoSchedulers == {s1, s2}

MCOneCron == [j \in Jobs |-> "cron"]
MCOnceAndInterval == (j1 :> "once") @@ (j2 :> "interval")

Symmetry == Permutations(MCTwoSchedulers)
=============================================================================
