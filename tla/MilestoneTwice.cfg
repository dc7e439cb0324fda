CONSTANTS
  ann = ann
  s1 = s1
  ten = ten
  big = big
  perk = perk
  Nobody = Nobody
  Names = {ann}
  Ids = {s1}
  Accounts <- MCAccounts
  Log <- MCLog
  Native = {perk}
  PerUserMax = 2
  GlobalMax = 2
  MaxFaults = 1
  CountMilestones = {ten}
  FieldMilestones = {big}
  Threshold <- MCThreshold
  Large = {1, 3}
SPECIFICATION BotSpec
INVARIANT OncePerPlayer
CHECK_DEADLOCK FALSE
