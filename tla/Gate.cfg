SPECIFICATION GateSpec
CONSTANTS
    a1 = a1
    Addr = {a1}
    Port = {22, 80, 443, 8080}
    AllowCap = 1
    MaxPorts = 2
    MaxGrantPorts = 2
    Pinhole = 1
    cpu1 = cpu1
    cpu2 = cpu2
    Cpu = {cpu1, cpu2}
    Flow <- MCFlow
    Flags <- MCFlags
    PortList <- MCPortList
    ProtectedSet <- MCProtectedSet
    ProtectedCap = 3
    FlowIdle = 2
    FlowCap = 1
    Word = 64
    MaxLag = 1
    MaxTime = 2
    MaxBoots = 2
    Packet <- MCPacket
    Gen = {0, 1}
    Authorizes <- MCAuthorizes
    Ahead = 1
    Behind = 2
    MaxStall = 1
    PortsIn <- MCPortsIn
SYMMETRY CpuSymmetry
INVARIANT GateTypeOK
INVARIANT RevokedOpensNoFlow
INVARIANT CloakHolds
INVARIANT PassNeedsRecentPass
