CONSTANTS
  p1 = p1
  q1 = q1
  q2 = q2
  ann = ann
  bob = bob
  free = free
  billed = billed
  Off = Off
  Providers <- MCProviders
  Slots = {free, billed}
  FreeSlots = {free}
  AllowPaid = TRUE
  Tables <- MCTables
  Rows <- MCRows
  Calls = {q1, q2}
  Cooldown <- MCCooldown
  MaxTime = 2
  MaxEdits = 1
  Users = {ann, bob}
  Asker <- MCAsker
  Surface <- MCSurface
  ReplyPace <- MCReplyPace
  Budget <- MCBudget
SPECIFICATION FairSpec
INVARIANT CuratorTypeOK
INVARIANT SuppressedForCause
INVARIANT BudgetKept
PROPERTY EveryQuestionEnds
CHECK_DEADLOCK FALSE
