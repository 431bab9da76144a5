SPECIFICATION FairSpec
CONSTANTS
  Conns = {c1, c2}
  NoConn = NoConn
  N = 1
  QueueCapacity = 1
  MaxConnections = 2
  MaxRequests = 3
CHECK_DEADLOCK FALSE
PROPERTIES ShutdownCompletes DispatchReturns ImplementsDispatch
