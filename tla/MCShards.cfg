SPECIFICATION FairSpec
CONSTANTS
  Threads = {s1, s2}
  MaxProcs = 4
  NTests = 4
  Window = 2
  MaxBad = 1
  MaxFaults = 1
  Modes = {"local", "safe"}
INVARIANTS NoTestMissed CountedAtMostTwice
CHECK_DEADLOCK FALSE
PROPERTY RunEnds
