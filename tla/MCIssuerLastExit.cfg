\* The ledger after every issuer has left.
SPECIFICATION Spec
CONSTANTS
  a1 = a1
  a2 = a2
  Accounts = {a1, a2}
  UNIT = 10
  CONVERSION = 100
  IssuanceRatio = 2
  LiquidationRatio = 4
  LiquidationPenalty = 1
  LiquidationDelay = 1
  Amounts = {10}
  Transfers = {}
  Collateral <- MCCollateral
  Escrowed <- MCNoEscrow
  Rates = {10, 5}
  OtherValues = {20}
  InvalidRates = {{}}
  Adjustments <- MCNoAdjustments
  WaitingPeriod = 1
  MinimumStakeTime = 0
  Sections = {}
  RoundingSlack = 1
  MaxTime = 1
  MaxLedger = 4
PROPERTY FirstIssuerPushesOne
