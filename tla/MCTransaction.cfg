SPECIFICATION Safety
CONSTANTS
    Keys = {k1, k2}
    Txs = {t1, t2, t3}
    Callers = {c1, c2}
    Listeners = {l1, l2}
    RespCap = 1
    MaxArrivals = 2
    None = None
SYMMETRY Symmetry
INVARIANTS
    TypeOK
    TableOpen
    SoleTxFindable
    OwnResponse
    DeliveredOnce
    NilOnlyWhenDrained
PROPERTY
    ImplementsMailbox
