SPECIFICATION FairSpec
CONSTANTS
    Happenings <- AnswerScenario
    FirstSeats <- OneSeat
    ActingSteps <- AnswerSteps
    MaxStack = 2
    MaxOwed = 1
    MaxTurn = 1
    MaxExcess = 1
    MaxDue = 2
PROPERTIES
    TurnEndsClean
    LoopAdvances
    EveryAnswerIsUsed
    PassingEndsGame
