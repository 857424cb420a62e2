SPECIFICATION Spec
CONSTANTS
    BadPath = {"[", "{"}
    Nothing = Nothing
    DefaultPages = 3
    DropNum = 1  DropDen = 2
    Key <- MCKey
    ExtraKey = {"typo"}
    Items <- MCItems
    Sites <- MCSites
    FirstConfigs <- MCFirstConfigs
    Candidates <- MCCandidates
    OtherResults <- MCOtherResults
    Retries = 1
    RegenLimit = 2
    MaxRequest = 2
    MaxRedesign = 2
INVARIANTS
    TypeOK
    DryRunForetells
    CompleteListing
    
    RequestsVetted
    ConfigUsable
PROPERTY
    ProcessesEnd
