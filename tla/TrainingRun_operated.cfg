SPECIFICATION Spec
CONSTANTS
    B1Steps = 1
    Rounds = 2
    RoundSteps = 1
    B4Iterations = 1
    B5Iterations = 1
    FatalLimit = 2
    MaxAhead = 0
    MaxFaults = 1
    MaxCommands = 2
INVARIANTS RungsAreThisLearners ActorsPlayThisLearner EveryRungEvaluated
