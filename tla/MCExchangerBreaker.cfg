\* The circuit breaker, deleted rates and suspensions.
\* The system stops where its bounds on time and on rounds are reached.
SPECIFICATION ExchangerSpec
CONSTANTS
  a1 = a1
  fees = fees
  Accounts = {a1}
  FEE_ADDRESS = fees
  UNIT = 10
  CONVERSION = 10
  Currencies = {"sUSD", "sETH"}
  OracleRates = {5, 10, 20}
  ORACLE_FUTURE_LIMIT = 1
  RateStalePeriod = 2
  MaxDelay = 0
  Deletable = {"sETH"}
  MaxRounds = 4
  MaxTime = 4
  InitialSUSD = 40
  ExchangeAmounts = {40}
  ExchangeFeeRate <- MCFeeRate
  WaitingPeriodSecs = 1
  PriceDeviationThresholdFactor = 30
  MaxEntriesInQueue = 2
  Suspensions = {"System"}
PROPERTIES BreakerBoundsPriceSteps
CHECK_DEADLOCK FALSE
