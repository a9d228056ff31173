SPECIFICATION Spec
CONSTANTS
    LastGen = 1
    LastKey = 0
    Port = {22, 80, 443}
    PortsIn <- MCPortsIn
    ProtectedCap = 2
    Configs <- NamedOnly
    LastPrivate = 0
    MaxWrites = 1
    MaxBoots = 1
CHECK_DEADLOCK FALSE
INVARIANT NeverWithoutPolicy
