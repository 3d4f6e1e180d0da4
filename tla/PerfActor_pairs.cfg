SPECIFICATION FairSpec
CONSTANTS
  Actors = {"p", "c"}
  SockPairs <- AllPairs
  Offers <- AllOffers
  Lanes = {l1}
  Hwm = 1
  MaxCmds = 3
  None = none
INVARIANTS TypeOK PairedMeasuresAnswered PairedMeasuresInOrder WireDrained NoosDetectsMixing
PROPERTIES PerfIsPipe PairedMeasuresEnd
CHECK_DEADLOCK FALSE
