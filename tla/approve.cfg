SPECIFICATION FairSpec
CONSTANTS
    w1 = w1  w2 = w2
    Worker = {w1, w2}
    Commands <- OneOperator
    MaxId = 2  MaxTime = 1  Expiry = 1  RejectGuard = 1  RegenLimit = 2
    Site = {catch}
    NoSite = NoSite
    CrashAt <- Nowhere
    MaxCrash = 0
INVARIANTS ConfigsVerified QuietlyAudited
PROPERTY ApprovalSettles
