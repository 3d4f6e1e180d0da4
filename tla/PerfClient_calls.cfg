SPECIFICATION FairSpec
CONSTANTS
  MaxDue = 2
  MaxNet = 1
  MaxFaults = 1
  MsgCap = 1
  MayMisuse = TRUE
INVARIANTS TypeOK ServerTakesEveryRequest RepliesMatchTheCall ResultsConserved
PROPERTIES CallReturns LossIsNoticed DestroyReturns
CHECK_DEADLOCK FALSE
