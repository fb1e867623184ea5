SPECIFICATION FairSpec
CONSTANTS
  NumParents = 2
  NumStudents = 1
  DadAmounts = {50}
  MomAmounts = {124}
  Needs = {40}
  SigintTo = {"master", "group"}
  SetupMayFail = TRUE
INVARIANTS
  NoLostUpdate
  BalanceInRange
  NoStoredChildSurvives
PROPERTIES
  EverybodyBanks
  CtrlCEndsAll
