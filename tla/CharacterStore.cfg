CONSTANTS
  perk = perk
  lua = lua
  Workers = {perk, lua}
  Perk = perk
  MaxLines = 4
  MaxFaults = 2
SPECIFICATION Spec
INVARIANT TypeOK
INVARIANT AliveAsLogged
INVARIANT CacheIsCurrent
