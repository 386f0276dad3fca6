\* A fresh network and a running one, a release of each, one interrupted run.
SPECIFICATION DeploySpec
CONSTANTS
  Synths <- MCSynths
  Inverted = "iBTC"
  Unlisted = {"SynthsETH", "ProxysETH", "TokenStatesETH"}
  Releases = {{"FeePool", "ExchangeRates"}, {"SynthsUSD"}}
  AddNewSynths = TRUE
  ForceInverse = FALSE
  ParamsChanged = FALSE
  NoSupply = FALSE
  MaxStops = 1
  MaxEvents = 2
INVARIANTS DeployTypeOK FilesAllowRestart OneTimeStepsAreDone
PROPERTIES LinksDoNotRegress EventuallyWired
