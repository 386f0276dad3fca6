\* Two stakers sharing the pool, flagged, repaired and liquidated while the price
\* of the collateral and the value of the other synths move.
SPECIFICATION Spec
CONSTANTS
  a1 = a1
  a2 = a2
  Accounts = {a1, a2}
  UNIT = 10
  CONVERSION = 100
  IssuanceRatio = 2
  LiquidationRatio = 4
  LiquidationPenalty = 1
  LiquidationDelay = 1
  Amounts = {9}
  Transfers = {}
  Collateral <- MCLittleCollateral
  Escrowed <- MCNoEscrow
  Rates = {10, 50}
  OtherValues = {20}
  InvalidRates = {{}}
  Adjustments <- MCNoAdjustments
  WaitingPeriod = 1
  MinimumStakeTime = 0
  Sections = {}
  RoundingSlack = 1
  MaxTime = 3
  MaxLedger = 4
INVARIANTS TypeOK DebtPoolShared IssuerCountCoversIssuers
PROPERTIES OthersDebtUnaffected DebtMovesWithSupply FlagsGoWithDebt LiquidationStopsAtTarget
