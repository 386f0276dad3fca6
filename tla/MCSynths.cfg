\* Two synths and two holders; all commands may stop, users trade all the time.
SPECIFICATION SynthSpec
CONSTANTS
  Keys = {k1, k2}
  Users = {u1, u2}
  HolderLimit = 1
  BatchSize = 1
  Interruptible = {"replace", "purge", "remove"}
  TradedDuring = {"replace", "purge", "remove"}
  MaxCommands = 2
SYMMETRY Alike
CHECK_DEADLOCK FALSE
INVARIANTS SynthsAreWhole ForgottenSynthsAreRemoved
