SPECIFICATION Spec
CONSTANTS
    Conns = {x1, x2}
    MaxPackets = 3
    NoPacket = NoPacket
INVARIANT
    TypeOK
PROPERTIES
    CloseEndsListeners
    ClosedTakesNothing
