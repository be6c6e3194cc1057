SPECIFICATION Spec
CONSTANTS
    Happenings <- CheckScenario
    FirstSeats <- OneSeat
    ActingSteps <- CheckSteps
    MaxStack = 2
    MaxOwed = 1
    MaxTurn = 1
    MaxExcess = 1
    MaxDue = 1
INVARIANTS
    NoFatalError
    ChecksOnlyBetweenFlows
    ResolutionHoldsPasses
