SPECIFICATION Spec
CONSTANTS
    LastId = 3
    Types = {"CardData", "Zone"}
    CardData = "CardData"
    Zone = "Zone"
    Data = {"p", "q", "X", "Y"}
    NoData = NoData
    Cards = {"X", "Y"}
    Slots = {1, 2}
    Callers <- MCCallers
INVARIANTS
    NamesResolve
    RefsNameTheirObject
PROPERTIES
    ImplementsWorld
