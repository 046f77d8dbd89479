SPECIFICATION FairSpec
CONSTANTS
    a = a
    b = b
    ctrl = ctrl
    esc = esc
    x = x
    NoDevice = NoDevice
    Device = {a, b}
    Here = a
    ScreenEdge = {"Right"}
    LogicalKey = {ctrl, esc, x}
    Resolve <- RightToPeer
    EmergencyHotkey <- Chord
    Twin <- TwoControls
    PeerKeys = {x}
    MaxQueue = 2
    MaxTyped = 1
INVARIANT TypeOK
INVARIANT OneDestination
INVARIANT ForwardedKeysAreHeld
PROPERTY ChordFreesInput
