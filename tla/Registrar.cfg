SPECIFICATION LiveSpec
CONSTANTS
  Conns = {c1, c2}
  Names = {n1}
  Addrs = {a1}
  Rests = {r1, r2}
  NoSIG = NoSIG
  NoConn = NoConn
  BadBody = BadBody
  NoSet = NoSet
  NoTopo = NoTopo
INVARIANTS TypeOK MutexHeldByHandler PutWinsWholesale LoadedAfter204
PROPERTIES ImplementsRegistry RequestsAnswered
