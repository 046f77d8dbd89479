SPECIFICATION FairSpec
CONSTANTS
    a = a
    b = b
    NoDevice = NoDevice
    Device = {a, b}
    ScreenEdge = {"Left", "Right", "Top", "Bottom"}
    LogicalKey = {}
    Resolve <- SideBySide
    EmergencyHotkey <- NoChord
    Width <- Widths
    Height <- Heights
    Mac = {b}
    User = {a}
    Movement <- Movements
    Homeward <- Homewards
    Start <- Middle
    MaxMoves = 2
    MaxFlight = 3
PROPERTY OnlyItsUserTakesControl
