SPECIFICATION Spec
CONSTANTS
  Profile <- MCProfile
  Config <- MCConfig
  Invocations <- Interleaved
  NoWorld = NoWorld
  Unset = Unset
INVARIANT
  HeirStartsWhereItsDonorEnded
