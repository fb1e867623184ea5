SPECIFICATION FairSpec
CONSTANTS
  Pids = {1, 2, 3}
  MaxStages = 2
INVARIANTS
  ChildrenReaped
  AlarmIsForTheForeground
  HandlersKnowTheChild
PROPERTIES
  PromptComesBack
