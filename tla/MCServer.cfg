SPECIFICATION Spec
CONSTANTS
  Conns = {c1, c2, c3}
  NoConn = NoConn
  N = 2
  QueueCapacity = 1
  MaxConnections = 2
  MaxRequests = 3
SYMMETRY Symmetry
CHECK_DEADLOCK FALSE
INVARIANTS TypeOK InFlightExact TaskInOnePlace GracefulRefusesNothing
PROPERTY TakeoverSignal
