SPECIFICATION Spec
INVARIANT ConnectionLimits
INVARIANT SpawnedHasOwner
INVARIANT RegisteredIsOpen
INVARIANT OpenIsRegistered
CONSTANTS
    h1 = h1
    h2 = h2
    o1 = o1
    o2 = o2
    o3 = o3
    i1 = i1
    Hosts = {h1, h2}
    Declares = {h2}
    Outgoing = {o1, o2, o3}
    Incoming = {i1}
    HostOf <- MCHostOf
    LimitConnections = 1
    InfoCap = 2
    Nothing = Nothing
SYMMETRY MCSymmetry
