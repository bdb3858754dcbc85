SPECIFICATION Spec
CONSTANTS
    Slots = {s1, s2}
    MaxUid = 3
    Msg = {m1, m2}
    NoMsg = NoMsg
    NoClient = NoClient
    NoPeer = NoPeer
    MaxEvents = 3
    MaxPackets = 1
INVARIANTS
    TypeOK
    NoDanglingClient
    DispatchFindsClient
    PeerMapAgrees
    WithinCapacity
    EachObjectFreedOnce
PROPERTY
    ImplementsTransport
CHECK_DEADLOCK FALSE
