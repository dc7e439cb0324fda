CONSTANTS
  perk = perk
  lua = lua
  Workers = {perk, lua}
  MaxTime = 2
  MaxEvents = 3
  MaxFaults = 2
SPECIFICATION FairSpec
INVARIANT TypeOK
INVARIANT ColumnAccounted
INVARIANT BreakdownAccounted
PROPERTY RowConverges
