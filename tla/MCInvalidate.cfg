SPECIFICATION LiveSpec
CONSTANTS
  Blk = {"g", "a1", "a2", "b1", "b2", "b3"}
  Genesis = "g"
  Parent <- MCParent
  Work <- MCWork
  Rejected = {"b2"}
  Malformed = {"a2"}
  Invalidable = {"b1"}
  Reconsidered = {}
  Precious = {}
  Snatchable = {}
  MaxPrecious = 2
  Addresses <- MCAddresses
  None = "none"
PROPERTY ActivationEnds
INVARIANTS LinkedOrWaiting FailureHasCause TipIsBest
