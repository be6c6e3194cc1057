SPECIFICATION FairSpec
CONSTANTS
    Objects <- MCObjects
    ManaAbilities <- MCManaAbilities
    Artifacts <- MCArtifacts
    Casts <- MCCasts
    Abilities <- MCAbilities
    TypesOf <- MCTypes
    Deals <- MCDeals
    Modes <- Every
    MaxProposals = 3
INVARIANTS PaidInFull
PROPERTIES MachinePaymentsSucceed ReversedLeavesNoTrace EveryProposalEnds
CHECK_DEADLOCK FALSE
