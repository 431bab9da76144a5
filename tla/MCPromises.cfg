SPECIFICATION FairSpec
CONSTANTS
    MaxPromises = 3
    MaxOps = 5
    MaxDrain = 3
CHECK_DEADLOCK FALSE
INVARIANTS ReactionsInOrder NoReactionForgotten AdoptsOutcome
PROPERTIES SettledOnce AdoptionCompletes
