\* Two replicas share one cron job routed through a channel.  A message waits in a
\* full bus past the lock TTL, so that a peer can take the row over; one crash, one
\* failed call or one edit happens on the way, and the job is due at every tick.
SPECIFICATION Spec
CONSTANTS
  j1 = j1
  j2 = j2
  s1 = s1
  s2 = s2
  NoJob = NoJob
  Jobs <- MCOneJob
  Kind <- MCOneCron
  Period = 1
  Routed <- MCOneJob
  Schedulers <- MCTwoSchedulers
  MaxClock = 3
  LockTTL = 1
  IdleSleep = 2
  MaxMisses = 2
  BusCap = 1
  MaxCrashes = 1
  MaxErrors = 1
  MaxEdits = 1
  MaxFaults = 1
SYMMETRY Symmetry
INVARIANTS
  TypeOK
  FiredOnce
PROPERTY
  GivenUpWhenMissed
