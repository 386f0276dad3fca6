\* Transfers, exchanges into sUSD and their settlement, stale rates and suspensions.
SPECIFICATION Spec
CONSTANTS
  a1 = a1
  a2 = a2
  Accounts = {a1, a2}
  UNIT = 10
  CONVERSION = 100
  IssuanceRatio = 2
  LiquidationRatio = 4
  LiquidationPenalty = 1
  LiquidationDelay = 1
  Amounts = {20}
  Transfers = {20}
  Collateral <- MCOneStaker
  Escrowed <- MCEscrowed
  Rates = {10}
  OtherValues = {}
  InvalidRates <- MCStaleSynths
  Adjustments <- MCAdjustments
  WaitingPeriod = 1
  MinimumStakeTime = 1
  Sections = {"System"}
  RoundingSlack = 1
  MaxTime = 3
  MaxLedger = 3
INVARIANTS SupplyIsBacked
PROPERTIES DebtMovesWithSupply ReclaimsStayCovered SuspensionFreezesTheSystem
