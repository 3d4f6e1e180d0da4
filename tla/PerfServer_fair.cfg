SPECIFICATION FairSpec
CONSTANTS
  Clients = {c1}
  Addrs = {a1}
  Perfs = {p1, p2}
  Sizes = {s1}
  NoIdent = noident
  NoSize = nosize
  NoAddr = noaddr
  Nobody = nobody
  PipeCap = 1
  MaxWaiting = 2
  MaxSkew = 1
  MayCreateBad = TRUE
INVARIANTS SendCanReturn
PROPERTIES BlockedSendReturns StopCompletes ServesPipes
CHECK_DEADLOCK FALSE
