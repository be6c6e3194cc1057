SPECIFICATION FairSpec
CONSTANTS
    Clients <- ActorAndEvaluation
    Policies = {0, 1}
    Current = 0
    Wants <- OwnWants
    Rows <- TwoOfOne
    MaxBatch = 2
    MaxVersion = 1
    MaxAsked = 1

PROPERTIES EveryRequestAnswered
