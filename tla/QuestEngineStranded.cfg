CONSTANTS
  q1 = q1
  q2 = q2
  a = a
  b = b
  c = c
  d = d
  e = e
  ja = ja
  jc1 = jc1
  jc2 = jc2
  p = p
  here = here
  away = away
  World = World
  Steps = {a, b, c}
  Quests = {q1}
  Jobs = {ja, jc1, jc2}
  Players = {p}
  SignalTypes = {"sleep"}
  Payloads = {here, away}
  QuestOf <- MCQuestOf
  TriggerType <- MCTriggerType
  Edges <- MCEdges
  StepOf <- MCStepOf
  ScopeRef <- MCScopeRef
  Conditions <- MCConditions
  MaxSignals = 2
  MaxFaults = 1
SPECIFICATION FairSpec
PROPERTY ProvenStepCompletes
