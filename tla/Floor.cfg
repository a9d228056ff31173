SPECIFICATION Spec
CONSTANTS
    Addr = {1, 2}
    Port = {22, 80, 443}
    AllowCap = 1
    MaxPorts = 2
    MaxGrantPorts = 2
    Pinhole = 1
    PortList <- MCPortList
    Policy <- MCPolicy
    ProtectedCap = 2
    NftMayFail = TRUE
    MaxNft = 1
    MaxTime = 2
    MaxReloads = 1
    MaxBoots = 2
CHECK_DEADLOCK FALSE
INVARIANT TypeOK
INVARIANT ClosedToStrangers
INVARIANT OpenOnlyAsGranted
