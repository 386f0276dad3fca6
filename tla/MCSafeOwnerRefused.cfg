\* One refused post in a run that is not interrupted.
SPECIFICATION OwnerSpec
CONSTANTS
  Actions = {a1, a2}
  Contracts = {c1}
  Other = other
  NoNonce = NoNonce
  MaxOthers = 0
  MaxStops = 0
  MaxFaults = 1
INVARIANTS FailedPostIsNotComplete
