SPECIFICATION FairSpec
CONSTANTS
    Objects <- MCObjects
    ManaAbilities <- MCManaAbilities
    Artifacts <- MCArtifacts
    Casts <- MCCasts
    Abilities <- MCAbilities
    TypesOf <- MCTypes
    Deals <- Tombs
    Modes <- Machine
    MaxProposals = 1
INVARIANT OfferedSpellsArePaid
CHECK_DEADLOCK FALSE
