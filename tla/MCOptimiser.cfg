CONSTANTS
    Programs <- MCPrograms
    RegisterFiles = {7, 12}
    Arguments = {0, 3}
    Results = {0, 2}
    Thrown = {5}
    MaxPool = 5
    MaxCalls = 3
SPECIFICATION Spec
INVARIANTS SameBehaviour AnalysesExact
CHECK_DEADLOCK FALSE
