\* Replacing a synth by runs that may stop, while users issue and burn it.
SPECIFICATION SynthSpec
CONSTANTS
  Keys = {k1}
  Users = {u1}
  HolderLimit = 1
  BatchSize = 1
  Interruptible = {"replace"}
  TradedDuring = {"replace"}
  MaxCommands = 2
CHECK_DEADLOCK FALSE
PROPERTIES NewSynthHasOldSupply
