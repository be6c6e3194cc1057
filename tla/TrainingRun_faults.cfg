SPECIFICATION FairSpec
CONSTANTS
    B1Steps = 1
    Rounds = 1
    RoundSteps = 1
    B4Iterations = 1
    B5Iterations = 1
    FatalLimit = 2
    MaxAhead = 0
    MaxFaults = 2
    MaxCommands = 0
INVARIANTS EvaluationsQueuedOnce GivesUp
PROPERTY RunEnds
