SPECIFICATION Spec
CONSTANTS
    Run = {r1, r2}
    Tool = {"orders"}
    Version = {"1.0.0"}
    Request = {"list", "listCorrected", "create"}
    Param = {"page", "status"}
    ArgSet <- TwoPages
    Principal = {alice, bob}
    Contract <- CachedContracts
    Catalog <- CachedCatalogs
    NoContract = NoContract
    NoToken = NoToken
    ClientToken = {NoToken}
    Nothing = Nothing
    Forever = Forever
    MaxTime = 1
    MaxVersion = 0
    MaxProcess = 0
SYMMETRY CacheSymmetry
INVARIANTS
    TypeOK
    AnswersItsOwnQuestion
    WritesAreNeverReplayed
    OutcomeIsHonest
PROPERTIES
    HitsAreFresh
