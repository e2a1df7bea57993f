SPECIFICATION ServerSpec
CONSTANTS
  c1 = c1
  c2 = c2
  a1 = a1
  Conns <- MCConns
  Addrs = {a1}
  AddrOf <- SameAddress
  NoConn = NoConn
  MsgCapacity = 1
INVARIANTS
  MapperTypeOK GuardKeepsRegistration NoLeakedRegistration NoStaleRemoval
  ServerTypeOK VideoWhileLeased CleanExit
PROPERTIES
  UsesMapper ImplementsLease RequestsAnswered RegistrationEnds
  ClosedIsCleanedUp ShutdownCompletes
CHECK_DEADLOCK FALSE
