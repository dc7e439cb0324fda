CONSTANTS
  MaxFiles = 2
  MaxLines = 2
  Malformed <- MCMalformed
  MaxFaults = 2
SPECIFICATION FairSpec
INVARIANT TypeOK
INVARIANT NothingPassedOver
INVARIANT RepeatsAreFaults
INVARIANT InOrder
PROPERTY EveryLineSettled
