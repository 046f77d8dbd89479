SPECIFICATION FairSpec
CONSTANTS
    a = a
    b = b
    c = c
    esc = esc
    NoDevice = NoDevice
    Device = {a, b}
    ScreenEdge = {"Left", "Right"}
    LogicalKey = {esc}
    Resolve <- PairLayout
    EmergencyHotkey <- PairChord
    ChordUsers = {}
    MaxHandoffs = 2
    MaxWaiting = 2
    MaxFaults = 1
INVARIANT TypeOK
 
 
 
 
 
PROPERTY LossReleases
 
