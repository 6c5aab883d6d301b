CONSTANTS
  Outpoints = {"plain", "bind"}
  BindOutpoints = {"bind"}
  Coinbase = {"plain"}
  Retarget = {}
  Point = {0}
  RealPoint = 0
  MaxHeight = 3
  BindStart = 2
  BHDIP007Height = 2
  Coin <- MCCoin
  BindCoin <- MCBindCoin
SPECIFICATION FairSpec
INVARIANTS DiskConsistent CoinsMatchChain DisconnectIsClean BatchWriteNeverFails
PROPERTIES ImplementsDurableChain ReplayEnds
