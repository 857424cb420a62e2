SPECIFICATION QSpec
CONSTANTS
    w1 = w1  w2 = w2  w3 = w3
    Worker = {w1, w2}
    Commands <- PollerAndOperator
    Poller = {w2}
    MaxId = 2  MaxTime = 0  Expiry = 1  RejectGuard = 1  RegenLimit = 3
    MaxClick = 1  MaxLate = 0
    Site = {catch}
    NoSite = NoSite
    CrashAt <- Nowhere
    MaxCrash = 0
INVARIANT AckedIsSettled
