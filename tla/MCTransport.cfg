SPECIFICATION Spec
CONSTANTS
  c1 = c1
  c2 = c2
  c3 = c3
  c4 = c4
  c5 = c5
  NoAnswer = NoAnswer
  Error = Error
  Closed = Closed
  Call <- MCCall
  NoId <- MCNoId
  Hasty <- MCHasty
  MaxSize = 2
INVARIANTS
  OneDriver
PROPERTIES
  Served
  Implements
