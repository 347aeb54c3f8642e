SPECIFICATION Spec
CONSTANTS
    Devices = {d1, d2}
    Endpoints = {e1, e2, e3, e4}
    Sessions = {st1, st2}
    Handlers = {h1, h2}
    Rebinders = {r1}
    Senders = {s1}
    MaxBinds = 4
    None = None
SYMMETRY Symmetry
INVARIANTS
    TypeOK
    EnsuredIsRegistered
    PTZIsSendable
    SourceIsNewest
PROPERTY
    BoundStays
