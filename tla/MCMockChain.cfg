SPECIFICATION Spec
CONSTANTS
  Wallet = {alice, bob}
  Value = {0, 1}
  Given = 1
  GasLimit <- GasLimits
  UnitLimit <- UnitLimits
  GasPercent <- GasPercents
  Label = {"first", "second", "third"}
  Allowance = 3
  Fee = 1
  MaxCodes = 2
  MaxContracts = 1
  MaxTxs = 4
  MaxRecorded = 2
  MaxMembers = 2
  MaxHeld = 2
  MaxTime = 2
SYMMETRY Symmetry
CONSTRAINT Apart
INVARIANTS
  RepeatsAreNew
PROPERTIES
  ForecastsForetell
  ForecastsLeaveNoTrace
  BatchesAreWhole
