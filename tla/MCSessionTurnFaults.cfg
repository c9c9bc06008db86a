\* One turn whose answers have up to two tool calls, two messages beside it, and two
\* faults: process deaths, also while a session is being healed, failed reads and
\* failed saves.
SPECIFICATION FairSpec
CONSTANTS
  t1 = t1
  t2 = t2
  m1 = m1
  m2 = m2
  Turns <- MCOneTurn
  Messages <- MCMessages
  NoActor = NoActor
  MaxIterations = 1
  MaxCalls = 2
  MaxFaults = 2
INVARIANTS
  CallsAnswered
  OneMarker
PROPERTY
  SteersFolded
