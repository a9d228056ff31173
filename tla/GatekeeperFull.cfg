SPECIFICATION Spec
CONSTANTS
    a1 = a1
    a2 = a2
    n1 = n1
    n2 = n2
    n3 = n3
    c1 = c1
    t1 = t1
    k1 = k1
    k2 = k2
    gate = gate
    other = other
    None = None
    Addr = {a1, a2}
    Port = {22, 80}
    AllowCap = 1
    MaxPorts = 2
    MaxGrantPorts = 2
    Nonce = {n1, n2}
    Id = {c1, t1}
    Key = {k1, k2}
    GateId = {gate, other}
    ThisGate = gate
    Packet <- FullPacket
    Bundle <- FullBundle
    LastGen = 0
    SkewSeconds = 1
    Second = 3
    MaxDrift = 0
    MaxStall = 1
    Pinhole = 2
    MaxTime = 4
    MaxBoots = 1
INVARIANT OpenedMeansReachable
