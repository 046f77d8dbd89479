SPECIFICATION FairSpec
CONSTANTS
    a = a
    b = b
    c1 = c1
    c2 = c2
    c3 = c3
    NoDevice = NoDevice
    NoConn = NoConn
    Device = {a, b}
    ScreenEdge = {"Left", "Right"}
    LogicalKey = {}
    Resolve <- PairLayout
    EmergencyHotkey <- NoChord
    Conn = {c1, c2}
    MaxHandoffs = 1
    MaxFaults = 1
INVARIANT TypeOK
INVARIANT RegistryIsLive
INVARIANT ControlledIsServed
PROPERTY BreakReleases
