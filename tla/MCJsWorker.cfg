SPECIFICATION Spec
CONSTANTS
    MaxWorkers = 2
    MaxPost = 2
    MaxSend = 2
CHECK_DEADLOCK FALSE
INVARIANTS InOrder ExactlyOnce NoOrphanThread RootsMatch JoinIsAnswered
PROPERTY SilentAfterTerminate
