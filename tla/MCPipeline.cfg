SPECIFICATION Spec
CONSTANTS
  Profile <- MCProfile
  Config <- MCConfig
  Invocations <- MCInvocations
  NoWorld = NoWorld
  Unset = Unset
INVARIANTS
  ExitIsTheWorst
  SlotHandsOn
PROPERTIES
  Implements
  Terminates
