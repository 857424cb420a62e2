SPECIFICATION FairSpec
CONSTANTS
    w1 = w1  w2 = w2
    Worker = {w1, w2}
    Commands <- Timers
    MaxId = 2  MaxTime = 1  Expiry = 1  RejectGuard = 1  RegenLimit = 3
    Site = {catch, jumpit}
    NoSite = NoSite
    CrashAt <- Anywhere
    MaxCrash = 1
PROPERTIES HealingAsksOnce DueIsClosed
