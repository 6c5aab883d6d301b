SPECIFICATION LiveSpec
CONSTANTS
  Blk = {"g", "a1", "b1", "b2"}
  Genesis = "g"
  Parent <- MCParent
  Txs <- MCTxs
  Tx = {"t", "u"}
  None = "none"
  MaxQueue = 2
  MaxRestarts = 1
INVARIANTS AnswersAreCurrent LocatorIsIndexed FollowsChain
PROPERTY CatchesUp
