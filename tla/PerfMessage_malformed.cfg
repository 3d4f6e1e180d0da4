CONSTANTS
  PlainKeys = {k}
  PathKeys = {a1, a2}
  LongKeys = {w}
  Scheme = tcp
  None = None
  Sender = sender
  MaxSent = 1
  MaxEntries = 0
SPECIFICATION Spec
PROPERTIES CutFrameIsMalformed
