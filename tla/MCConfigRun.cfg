SPECIFICATION Spec
CONSTANTS
  None = None
  NotATable = NotATable
  NoData = NoData
  Unparsable = Unparsable
  Lasting = Lasting
  Registered <- MCRegistered
  Inputs <- MCInputs
  Revisions <- MCRevisions
  Histories <- MCHistories
  RandomSeeds <- MCRandomSeeds
INVARIANTS
  DefaultsReachTheirModes
  LoadedConfigsResolve
  TargetsFollowThePrecedence
  ArtifactsLoad
  ReplayMeetsTheSameChains
  ValidateForetellsRun
  TestsRunCasesOfTheRun
