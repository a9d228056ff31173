SPECIFICATION FairSpec
CONSTANTS
    Addr = {1, 2}
    Self = 1
    Port = {22, 80}
    AllowCap = 1
    MaxPorts = 2
    MaxGrantPorts = 2
    Pinhole = 3
    PortList <- MCPortList
    Attempts = {0, 2}
    Grace = 1
    ConnectMax = 2
    MaxLate = 1
    ConfirmWindow = 1
    Skew = 2
    Drift <- MCDrift
    MaxStall = 1
    MaxCalls = 2
    MaxTime = 9
CHECK_DEADLOCK FALSE
INVARIANT TypeOK
INVARIANT ExposureBounded
INVARIANT KnockedThenOpen
PROPERTY Returns
