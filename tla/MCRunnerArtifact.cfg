SPECIFICATION Spec
CONSTANTS
  NoOp = NoOp
  NoData = NoData
  NoFailure = NoFailure
  Operation <- MCOperation
  OpKind <- MCOpKind
  InvName <- MCInvName
  BugDetail <- MCBugDetail
  World <- MCWorld
  Kinds <- MCKinds
  Invariants <- MCInvariants
  Weight <- MCWeight
  Generate <- MCGenerate
  Apply <- MCApply
  Check <- MCCheck
  MaxU32 <- MCMaxU32
  Starts <- MCStarts
  Plans <- MCPlans
  Scripts <- MCScripts
  Configs <- MCConfigs
  Limits <- MCLimits
  Unbounded <- MCUnbounded
  StepBound = 3
  Advance <- MCAdvance
INVARIANT ArtifactReplaysTheFailure
