CONSTANTS
    k1 = k1  k2 = k2
    Connections = {k1, k2}
    Limits = {2, 3}
    MaxPieces = 2
    BuffSize = 2
    SendStep = 6
    Requests <- TwoClients
    NULL = NULL
SPECIFICATION Spec
INVARIANTS TypeOK DescriptorsOwned NothingLeaked RelayFaithful RequestAsMeant
PROPERTIES ConnectionsEnd
