SPECIFICATION Spec
CONSTANTS
    w1 = w1  w2 = w2
    Worker = {w1, w2}
    Commands <- Deciders
    MaxId = 1  MaxTime = 1  Expiry = 1  RejectGuard = 1  RegenLimit = 3
    Site = {catch}
    NoSite = NoSite
    CrashAt <- Nowhere
    MaxCrash = 0
PROPERTY DecidedOnce
