\* Two turns that may overlap, and a message that may arrive at any moment; the
\* process does not fail.
SPECIFICATION Spec
CONSTANTS
  t1 = t1
  t2 = t2
  m1 = m1
  m2 = m2
  Turns <- MCTurns
  Messages <- MCOneMessage
  NoActor = NoActor
  MaxIterations = 1
  MaxCalls = 1
  MaxFaults = 0
SYMMETRY Symmetry
INVARIANTS
  TypeOK
  SteersHaveATaker
  SteersKept
  CallsAnswered
  OneMarker
