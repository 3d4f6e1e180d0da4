CONSTANTS
  PlainKeys = {k}
  PathKeys = {a1, a2}
  LongKeys = {w}
  Scheme = tcp
  None = None
  Sender = sender
  MaxSent = 2
  MaxEntries = 2
SPECIFICATION Spec
INVARIANTS TypeOK FrameHoldsItsFields CopiesSendTheSame
PROPERTIES WholeFrameIsTheMessage CutFrameIsAPrefix
