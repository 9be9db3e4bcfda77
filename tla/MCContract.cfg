SPECIFICATION Spec
CONSTANTS
  Polls = 1
  MaxCalls = 2
  Roster <- MCRoster
  Wallet = {"any", "auto"}
  Var = {"A", "B"}
  Secret = {"phrase", "key", "junk"}
  Phrases = {"phrase"}
  Keys = {"key"}
  Blank = Blank
  Inherit = Inherit
  NoSigner = NoSigner
CONSTRAINT Apart
INVARIANTS
  AcceptedIsExecuted
  ModelFollowsTheChain
  OneAccountPerLabel
PROPERTIES
  Returns
