CONSTANTS
  BHDIP008Height = 1
  BHDIP009Height = 2
  BHDIP011Height = 3
  NumHeightsToCalc = 4
  MinBlocks = 2
  MaxHeight = 9
  TakeOff <- MCTakeOff
SPECIFICATION MSpec
INVARIANTS NeverOverpaid RewardUntilReorg
