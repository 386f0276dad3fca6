\* Two deferred actions and one contract; one interrupted run, two failures of
\* the service, one foreign transaction.
SPECIFICATION OwnerSpec
CONSTANTS
  Actions = {a1, a2}
  Contracts = {c1}
  Other = other
  NoNonce = NoNonce
  MaxOthers = 1
  MaxStops = 1
  MaxFaults = 2
INVARIANTS OwnerTypeOK NoncesAreDistinct NothingIsPendingTwice CompletedIsNotLost
PROPERTIES DeferredActionsArePerformed
