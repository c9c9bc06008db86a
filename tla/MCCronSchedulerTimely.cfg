\* One process, a `once` job that needs its channel and an interval job that does
\* not; one crash and one failed call, no edits, and a horizon of two lock TTLs and
\* more.
SPECIFICATION Spec
CONSTANTS
  j1 = j1
  j2 = j2
  s1 = s1
  s2 = s2
  NoJob = NoJob
  Jobs <- MCTwoJobs
  Kind <- MCOnceAndInterval
  Period = 2
  Routed <- MCOneJob
  Schedulers <- MCOneScheduler
  MaxClock = 6
  LockTTL = 1
  IdleSleep = 2
  MaxMisses = 2
  BusCap = 1
  MaxCrashes = 1
  MaxErrors = 1
  MaxEdits = 0
  MaxFaults = 2
INVARIANTS
  OnTime
