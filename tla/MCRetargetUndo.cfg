CONSTANTS
  Outpoints = {"retarget"}
  BindOutpoints = {}
  Coinbase = {}
  Retarget = {"retarget"}
  Point = {0, 1}
  RealPoint = 0
  MaxHeight = 3
  BindStart = 2
  BHDIP007Height = 2
  Coin <- MCCoin
  BindCoin <- MCBindCoin
SPECIFICATION Spec
PROPERTY UndoRestoresInputs
