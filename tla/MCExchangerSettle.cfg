\* Exchanges and their settlement while rates arrive late, early or in time.
\* The system stops where its bounds on time and on rounds are reached.
SPECIFICATION ExchangerSpec
CONSTANTS
  a1 = a1
  fees = fees
  Accounts = {a1}
  FEE_ADDRESS = fees
  UNIT = 10
  CONVERSION = 10
  Currencies = {"sUSD", "sETH"}
  OracleRates = {5, 10}
  ORACLE_FUTURE_LIMIT = 2
  RateStalePeriod = 2
  MaxDelay = 1
  Deletable = {}
  MaxRounds = 3
  MaxTime = 5
  InitialSUSD = 80
  ExchangeAmounts = {40}
  ExchangeFeeRate <- MCFeeRate
  WaitingPeriodSecs = 1
  PriceDeviationThresholdFactor = 30
  MaxEntriesInQueue = 2
  Suspensions = {}
INVARIANT ExchangerTypeOK
PROPERTIES FundsStayWhileWaiting SettledAtPeriodEnd OwingIsFinal OwedStaysCovered
  ExchangesAddNoValue FeesRecordedAreHeld
CHECK_DEADLOCK FALSE
