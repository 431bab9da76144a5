CONSTANTS
    Programs <- CaughtPrograms
    RegisterFiles = {12}
    Arguments = {0}
    Results = {2}
    Thrown = {5}
    MaxPool = 5
    MaxCalls = 3
SPECIFICATION Spec
INVARIANT SameBehaviourCaught
CHECK_DEADLOCK FALSE
