SPECIFICATION FairSpec
CONSTANTS
    Interval = 2
    MaxDelay = 2
    MaxFaults = 2
INVARIANT TypeOK
INVARIANT HandshakeAgrees
INVARIANT NoFalseAlarm
INVARIANT SilenceIsNoticed
PROPERTY EndReachesOther
