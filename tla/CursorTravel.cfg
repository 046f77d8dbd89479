SPECIFICATION FairSpec
CONSTANTS
    a = a
    b = b
    NoDevice = NoDevice
    Device = {a, b}
    ScreenEdge = {"Left", "Right", "Top", "Bottom"}
    LogicalKey = {}
    Resolve <- SideBySide
    EmergencyHotkey <- NoChord
    Width <- Widths
    Height <- Heights
    Mac = {b}
    User = {a, b}
    Movement <- Movements
    Homeward <- Homewards
    Start <- Middle
    MaxMoves = 3
    MaxFlight = 3
INVARIANT TypeOK
PROPERTY EntersInLine
 
PROPERTY GoesHome
