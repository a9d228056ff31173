SPECIFICATION Spec
CONSTANTS
    a1 = a1
    Addr = {a1}
    Port = {22, 80}
    AllowCap = 1
    MaxPorts = 2
    MaxGrantPorts = 2
    Pinhole = 2
    Cpu = {1, 2}
    Flow <- OneFlow
    Flags <- MCFlags
    PortList <- OnePortList
    ProtectedSet <- OneProtectedSet
    ProtectedCap = 1
    FlowIdle = 3
    FlowCap = 1
    Word = 64
    MaxLag = 1
    MaxTime = 5
    MaxBoots = 1
INVARIANT ExpireOnlyIdle
