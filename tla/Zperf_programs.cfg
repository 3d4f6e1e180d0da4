SPECIFICATION CliSpec
CONSTANTS
  Actors = {"p", "c"}
  SockPairs <- AllSocks
  Offers <- NoOffers
  Programs <- AllPrograms
  Lanes = {l1, l2}
  Hwm = 1
  MaxCmds = 0
  None = none
INVARIANTS PairedMeasuresAnswered WireDrained LastIsOfOneMeasurement SenderOutlivesItsData
PROPERTIES ProgramsEnd
CHECK_DEADLOCK FALSE
