SPECIFICATION FairQSpec
CONSTANTS
    w1 = w1  w2 = w2  w3 = w3
    Worker = {w1, w2}
    Commands <- TimerAndPoller
    Poller = {w2}
    MaxId = 1  MaxTime = 0  Expiry = 0  RejectGuard = 1  RegenLimit = 3
    MaxClick = 2  MaxLate = 0
    Site = {catch}
    NoSite = NoSite
    CrashAt <- Nowhere
    MaxCrash = 0
PROPERTIES ClicksLeave RunnerSpec
