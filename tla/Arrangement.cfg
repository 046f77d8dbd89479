SPECIFICATION FairSpec
CONSTANTS
    a = a
    b = b
    c = c
    NoDevice = NoDevice
    Device = {a, b, c}
    Users = {a}
    ScreenEdge = {"Left", "Right"}
    Grid = 1
    MaxPairings = 2
    MaxCrashes = 1
INVARIANT TypeOK
INVARIANT LayoutsAreSound
INVARIANT NodesAreTrusted
PROPERTY TrustOutlivesTornReads
PROPERTY TrustReachesDaemon
