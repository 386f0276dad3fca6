\* Two stakers earn, claim and roll over fees and rewards across fee periods.
SPECIFICATION StakingSpec
CONSTANTS
  a1 = a1
  a2 = a2
  Accounts = {a1, a2}
  UNIT = 10
  CONVERSION = 100
  IssuanceRatio = 2
  LiquidationRatio = 4
  LiquidationPenalty = 1
  LiquidationDelay = 1
  Amounts = {10}
  Transfers = {}
  Collateral <- MCCollateral
  Escrowed <- MCNoEscrow
  Rates = {10}
  OtherValues = {}
  InvalidRates = {{}}
  Adjustments <- MCNoAdjustments
  WaitingPeriod = 1
  MinimumStakeTime = 0
  Sections = {}
  RoundingSlack = 1
  MaxTime = 3
  MaxLedger = 3
  FeePeriodDuration = 1
  HISTORY_LENGTH = 2
  TargetThreshold = 1
  Fees = {10}
  Rewards = {10}
  MaxFees = 10
  MaxPeriod = 3
\* The bounds on time, periods and the ledger stop the model.
CHECK_DEADLOCK FALSE
SYMMETRY MCSymmetry
INVARIANTS FeeTypeOK FeesAreBacked SharesFitPeriod
PROPERTIES EarnedSharesAreKept Distribution ClaimsArePaidInFull
