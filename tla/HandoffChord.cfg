SPECIFICATION Spec
CONSTANTS
    a = a
    b = b
    c = c
    esc = esc
    NoDevice = NoDevice
    Device = {a, b}
    ScreenEdge = {"Left", "Right"}
    LogicalKey = {esc}
    Resolve <- PairLayout
    EmergencyHotkey <- PairChord
    ChordUsers = {a, b}
    MaxHandoffs = 2
    MaxWaiting = 1
    MaxFaults = 1
INVARIANT PassThroughMatchesRole
PROPERTY RolesChangeThroughIdle
