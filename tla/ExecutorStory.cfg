SPECIFICATION FairSpec
CONSTANTS
    Run = {r1, r2}
    Tool = {"orders", "spare", "missing"}
    Version = {"1.0.0"}
    Request = {"list", "export", "delete", "noMeaning"}
    Param = {"page", "status"}
    ArgSet <- OneKey
    Principal = {alice}
    Contract <- StoryContracts
    Catalog <- StoryCatalogs
    NoContract = NoContract
    NoToken = NoToken
    ClientToken = {NoToken}
    Nothing = Nothing
    Forever = Forever
    MaxTime = 0
    MaxVersion = 1
    MaxProcess = 1
INVARIANTS
    AppliedUnderAShownKey
    ApprovedInThisProcess
    OutcomeIsHonest
PROPERTIES
    TellsOneStory
    EveryRunEnds
