SPECIFICATION ESpec
CONSTANTS
    w1 = w1  w2 = w2
    Worker = {w1, w2}
    Commands <- Regenerating
    MaxId = 3  MaxTime = 2  Expiry = 1  RejectGuard = 1  RegenLimit = 2
    Site = {catch}
    NoSite = NoSite
    CrashAt = {"insert"}
    MaxCrash = 1
    SnapshotDays = 1  SuccessDays = 0
INVARIANTS ETypeOK RegenerationBounded SampleOutlives
