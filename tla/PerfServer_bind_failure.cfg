SPECIFICATION Spec
CONSTANTS
  Clients = {c1}
  Addrs = {a1}
  Perfs = {p1}
  Sizes = {s1}
  NoIdent = noident
  NoSize = nosize
  NoAddr = noaddr
  Nobody = nobody
  PipeCap = 1
  MaxWaiting = 1
  MaxSkew = 0
  MayCreateBad = FALSE
PROPERTIES RunsUntilTerm
