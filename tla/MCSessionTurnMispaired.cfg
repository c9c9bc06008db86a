\* One turn, no message beside it and no fault: an answer with two tool calls of which
\* the authorization gate refuses the first is enough.
SPECIFICATION Spec
CONSTANTS
  t1 = t1
  t2 = t2
  m1 = m1
  m2 = m2
  Turns <- MCOneTurn
  Messages = {}
  NoActor = NoActor
  MaxIterations = 1
  MaxCalls = 2
  MaxFaults = 0
INVARIANT ResultsMatchCalls
