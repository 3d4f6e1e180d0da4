SPECIFICATION Spec
CONSTANTS
  Clients = {c1, c2}
  Addrs = {a1, a2}
  Perfs = {p1}
  Sizes = {s1}
  NoIdent = noident
  NoSize = nosize
  NoAddr = noaddr
  Nobody = nobody
  PipeCap = 1
  MaxWaiting = 2
  MaxSkew = 1
  MayCreateBad = FALSE
SYMMETRY Symmetry
INVARIANTS TypeOK WaitersKeepTheirPerf WaiterForEveryAnswer WaitersInOrder
PROPERTIES AnswerGoesToAsker ServesPeers
