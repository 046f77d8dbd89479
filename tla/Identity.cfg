SPECIFICATION Spec
CONSTANTS
    UI = {u1, u2}
    Daemon = {d1, d2}
    Patient = TRUE
    MaxDraws = 5
INVARIANT TypeOK
INVARIANT IdentityIsStable
INVARIANT CertificateFitsKey
INVARIANT IdentityIsStored
