SPECIFICATION Spec
CONSTANTS
  cosmos = cosmos
  revm = revm
  solana = solana
  node = node
  l1 = l1
  l2 = l2
  alice = alice
  bob = bob
  osmo = osmo
  wei = wei
  NoChain = NoChain
  Chain <- MCChain
  Kind <- MCKind
  Native <- MCNative
  Live <- MCLive
  Label <- MCLabel
  Who <- MCWho
  Denom <- MCDenom
  Amount <- MCAmount
  Given = 1
  Fee = 1
  MaxPending = 2
  MaxMoves = 1
  MaxHeld = 3
SYMMETRY MCSymmetry
CHECK_DEADLOCK FALSE
PROPERTIES
  PlanIsApplied
  FundingNeverTakes
  SupplyIsKept
