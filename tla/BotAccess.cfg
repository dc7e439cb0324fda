CONSTANTS
  u1 = u1
  u2 = u2
  n1 = n1
  n2 = n2
  Nobody = Nobody
  Users = {u1, u2}
  Ids = {s1, s2}
  Names = {n1, n2}
  Candidates <- MCCandidates
  BootstrapIds <- MCBootstrapIds
  Requests = {r1, r2}
  MaxFaults = 1
  MaxOutside = 1
SPECIFICATION Spec
INVARIANT TypeOK
INVARIANT IdentityIsLink
INVARIANT LinkedByName
INVARIANT DemotedStays
CHECK_DEADLOCK FALSE
