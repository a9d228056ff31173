SPECIFICATION FairSpec
CONSTANTS
    LastGen = 2
    LastKey = 1
    Port = {22, 80, 443}
    PortsIn <- MCPortsIn
    ProtectedCap = 2
    Configs <- AllConfigs
    LastPrivate = 1
    MaxWrites = 2
    MaxBoots = 2
CHECK_DEADLOCK FALSE
INVARIANT TypeOK
INVARIANT KeptPortsStayCloaked
INVARIANT AppliedInForce
INVARIANT DescriptorNamesGate
PROPERTY ImplementsPolicyStore
PROPERTY WatchedBundleApplied
PROPERTY PublishedReachesGate
