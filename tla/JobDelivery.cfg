CONSTANTS
  j1 = j1
  j2 = j2
  Jobs = {j1, j2}
  Rejected = {j2}
  MaxFaults = 1
SPECIFICATION FairSpec
INVARIANT TypeOK
INVARIANT NoJobLost
PROPERTY ImplementsLifecycle
PROPERTY EveryJobEnds
