SPECIFICATION Safety
CONSTANTS
    Keys = {d1, d2}
    Devices = {d1, d2}
    Items = {i1, i2}
    Totals = {2}
    CreateCap = 1
    MsgCap = 1
    MaxRuns = 2
    MaxWrites = 3
    NoContent = NoContent
    Millis = {m1, m2}
    Waiters = {w1, w2}
    Nobody = Nobody
SYMMETRY Symmetry
INVARIANTS
    TypeOK
    NotifyReachesAll
    NotifyNeverBlocks
    WaiterIsRegistered
    NoDuplicateSaved
    WokenAfterSave
PROPERTIES
    LeavesWhenSaved
