SPECIFICATION MCSpec
CONSTANTS
    Keys = {k1}
    Txs = {t1, t2}
    Callers = {c1}
    Listeners = {l1, l2}
    RespCap = 1
    MaxArrivals = 3
    None = None
    Devices = {d1}
    Items = {i1, i2}
    Totals = {0, 2}
    CreateCap = 1
    MsgCap = 1
    MaxRuns = 1
    MaxWrites = 2
    NoContent = NoContent
    Millis = {m1}
    Waiters = {w1, w2}
    Nobody = Nobody
PROPERTIES
    CallerReturns
    ListenerFreed
    TxReclaimed
    EveryKeySaved
    WaitReturns
    WriterGetsRoom
