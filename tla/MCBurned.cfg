SPECIFICATION BSpec
CONSTANTS
  alice = alice
  bob = bob
  burned = burned
  Outpoints = {burn, coin}
  Burn = {burn}
  MaxHeight = 2
  BHDIP007Height = 1
  LockAmount = 3
  BurnAccount = burned
  Accounts <- MCAccounts
  Outputs <- MCOutputs
  Weight <- MCWeight
  Coin <- MCCoin
  BindCoin <- MCBindCoin
INVARIANT BurnedIsSum
