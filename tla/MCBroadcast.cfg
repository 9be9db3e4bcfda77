SPECIFICATION Spec
CONSTANTS
  t1 = t1
  t2 = t2
  t3 = t3
  cosmos = cosmos
  evm = evm
  NoMutex = NoMutex
  Task <- MCTask
  Account <- MCAccount
  Evm <- MCEvm
  Calls <- MCCalls
INVARIANTS
  SameAccountSerializes
  NoNonceCollision
  OnlySharersWait
PROPERTIES
  EveryCallReturns
  Implements
