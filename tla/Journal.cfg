CONSTANTS
    Keys = {k1, k2}
    Fields = {relay}
    Values = {v1, v2}
    Null = Null
    Amounts = {1, 2}
    MaxPerJob = 2
    MaxPerWindow = 2
    Window = 2
    Margin = 1
    MaxTtl = 1
    MaxRows = 3
    MaxTime = 4
SPECIFICATION Spec
SYMMETRY Symmetry
INVARIANTS
    TypeOK
    DustBudget
PROPERTIES
    ReservationKept
    TerminalIsFinal
    EvidenceKept
