SPECIFICATION ServedSpec
CONSTANTS
  MaxDue = 0
  MaxNet = 2
  MaxFaults = 1
  MsgCap = 1
  MayMisuse = FALSE
PROPERTIES ForgottenClientReconnects
CHECK_DEADLOCK FALSE
