SPECIFICATION Spec
CONSTANTS
    Addr = {1, 2}
    Cpu = {1, 2}
    Queue <- Steered
    Size <- MCSize
    KnockMin = 180
    KnockMax = 260
    RateLimit = 2
    RateWindow = 2
    RateCap = 1
    Word = 64
    MaxLag = 1
    MaxTime = 2
    MaxPass = 4
INVARIANT TypeOK
INVARIANT AtMostTwoBudgets
