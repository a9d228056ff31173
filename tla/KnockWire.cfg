SPECIFICATION Spec
CONSTANTS
    Base = 4
    Version = 1
    NonceLen = 1
    TimeLen = 1
    GateIdLen = 1
    ThumbprintLen = 1
    PortLen = 2
    SigLen = 1
    MaxPorts = 2
    EphLen <- MCEphLen
    TagLen = 1
    MinKnock = 13
    MaxKnock = 16
    Gate <- MCGate
    ClientKey <- MCClientKey
    Token <- MCToken
    Request <- MCRequest
    ForeignPlain <- MCForeignPlain
    MaxKnocks = 2
    None = None
CHECK_DEADLOCK FALSE
INVARIANT TypeOK
INVARIANT VerifiedAsSigned
INVARIANT DecodesCanonically
INVARIANT HonestKnockOpens
