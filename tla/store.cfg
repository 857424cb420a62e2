SPECIFICATION FairSpec
CONSTANTS
    Run = {r1, r2}
    NoRun = NoRun
    Posting = {p1, p2}
    Hash = {h1, h2}
    NoHash = NoHash
    Collectors = 2
    MaxRecords = 2
    MaxFault = 1
INVARIANTS TypeOK SummaryAddsUp InsertedIsFirstSeen KnownSite SeenByLastRun
PROPERTIES HistoryKept RunsClose HistorySpec
