SPECIFICATION Spec
CONSTANTS
  None = None
  NotATable = NotATable
  NoData = NoData
  Unparsable = Unparsable
  Lasting = Lasting
  Registered <- MCRegistered
  Inputs <- MCInputs
  Revisions <- MCRevisions
  Histories <- MCHistories
  RandomSeeds <- MCRandomSeeds
INVARIANT ReplayMeetsTheSameEnvironment
