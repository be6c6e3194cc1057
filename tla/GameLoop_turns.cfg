SPECIFICATION Spec
CONSTANTS
    Happenings <- TurnScenario
    FirstSeats <- OneSeat
    ActingSteps <- Steps
    MaxStack = 2
    MaxOwed = 2
    MaxTurn = 2
    MaxExcess = 1
    MaxDue = 1
INVARIANTS
    NoObjectResolvesUnseen
    AskedPlayerHasNotPassed
PROPERTIES
    StepEndsClean
    FollowsTurnStructure
