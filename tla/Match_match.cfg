SPECIFICATION FairSpec
CONSTANTS
    Cards <- MCCards
    Deals <- MCDeals
    Formats <- BothFormats
    SwapCap = 15
    MaxGames = 3
    MaxIgnored = 1
INVARIANTS
    PlayedDecksAreLegal
    NoSwapIsUndone
    RowsTellTheMatch
    RowsRebuildTheDecks
PROPERTIES
    EveryMatchEnds
CHECK_DEADLOCK FALSE
