SPECIFICATION Spec
CONSTANTS
  g = g
  a1 = a1
  a2 = a2
  a3 = a3
  b2 = b2
  b3 = b3
  None = None
  Genesis = g
  Blk <- MCBlk
  Parent <- MCParent
  Txs <- MCTxs
  MaxId = 2
  MaxTxs = 2
  GENESIS_BLOCK = 1
  MAX_STATE_HISTORY = 1
  STORE_EVERY_N_BLOCK = 4
  MaxDisconnects = 3
  MaxRestarts = 1
INVARIANTS
  StateIsOfChain
  FilesAreOfBlock
  PropertiesAreOfChain
  IssuedExist
  ListIsOfChain
PROPERTY Settles
CHECK_DEADLOCK FALSE
