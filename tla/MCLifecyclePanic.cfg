SPECIFICATION Spec
CONSTANTS
    Conns = {x1}
    MaxPackets = 3
    NoPacket = NoPacket
INVARIANT
    ClosesNormally
