SPECIFICATION Spec
CONSTANTS
    Addr = {1}
    Cpu = {1, 2}
    Queue <- Unsteered
    Size <- MCSize
    KnockMin = 180
    KnockMax = 260
    RateLimit = 2
    RateWindow = 3
    RateCap = 1
    Word = 64
    MaxLag = 1
    MaxTime = 3
    MaxPass = 2
INVARIANT AtMostLimitPerWindow
