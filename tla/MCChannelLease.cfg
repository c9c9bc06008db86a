\* Three replicas, in proportion to the code's 30 s, 10 s and 10 s, on either
\* store.  One failed call and a stop of one tick fit in the TTL, 2 * 1 + 1 <= 3;
\* with three, a lease can be lost to a peer.
SPECIFICATION FairSpec
CONSTANTS
  r1 = r1
  r2 = r2
  r3 = r3
  Gates <- MCReplicas
  Replicas <- MCReplicas
  HostOf <- MCOwnHost
  NoHolder = NoHolder
  Backends = {"sql", "redis"}
  TTL = 3
  RenewEvery = 1
  RetryEvery = 1
  StopTime = 1
  MaxErrors = 3
  MaxExits = 1
INVARIANTS
  TypeOK
  OnePoller
  OutageBounded
PROPERTIES
  SomeonePolls
  EvictedStops
