CONSTANTS
    MaxRequests = 4
    MaxAwaits = 3
    MaxRemaining = 2
SPECIFICATION FairSpec
INVARIANTS OneWakeUp NoRequestForgotten
PROPERTIES ImplementsRequestQueue EveryRequestAnswered
CHECK_DEADLOCK FALSE
