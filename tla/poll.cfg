SPECIFICATION QSpec
CONSTANTS
    w1 = w1  w2 = w2  w3 = w3
    Worker = {w1, w2, w3}
    Commands <- TimerAndPollers
    Poller = {w2, w3}
    MaxId = 1  MaxTime = 0  Expiry = 1  RejectGuard = 1  RegenLimit = 3
    MaxClick = 2  MaxLate = 1
    Site = {catch}
    NoSite = NoSite
    CrashAt <- UpToDecision
    MaxCrash = 1
INVARIANTS QTypeOK AckedIsDecided TriedInOrder
SYMMETRY Interchangeable
