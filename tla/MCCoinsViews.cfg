SPECIFICATION Spec
CONSTANTS
  Outpoints = {plain, bind}
  BindOutpoints = {bind}
  Burn = {plain}
  BindEnd = 3
  MaxHeight = 3
  BHDIP007Height = 2
  Coin <- MCCoin
  BindCoin <- MCBindCoin
INVARIANTS TypeOK FlagsFit BindIndexAgrees FlushNeverThrows
PROPERTY ImplementsUtxoSet
