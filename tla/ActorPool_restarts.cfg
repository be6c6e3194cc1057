SPECIFICATION FairSpec
CONSTANTS
    NActors = 2
    Games = 1
    MaxMatch = 2
    MaxCrashes = 1
INVARIANTS
    NoOrphan
    NoResultTwice
    NoMatchSkipped
PROPERTIES
    WrittenOffForGood
    CrashedActorReturns
    StopEnds
