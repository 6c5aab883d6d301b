SPECIFICATION Spec
CONSTANTS
  Blk = {"g", "a1", "b1", "a2", "b2", "a3"}
  Genesis = "g"
  Parent <- MCParent
  Work <- MCWork
  Rejected = {"b2"}
  Malformed = {}
  Invalidable = {}
  Reconsidered = {"b1"}
  Precious = {"b1"}
  Snatchable = {"a1"}
  MaxPrecious = 2
  Addresses <- MCAddresses
  None = "none"
INVARIANTS FailureHasCause CandidatesComplete NeverOutOfCandidates TipIsBest
