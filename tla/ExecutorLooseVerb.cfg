SPECIFICATION Spec
CONSTANTS
    Run = {r1, r2}
    Tool = {"orders"}
    Version = {"1.0.0"}
    Request = {"create"}
    Param = {"page", "status"}
    ArgSet <- OnePage
    Principal = {alice}
    Contract <- LooseContracts
    Catalog <- LooseCatalogs
    NoContract = NoContract
    NoToken = NoToken
    ClientToken = {NoToken}
    Nothing = Nothing
    Forever = Forever
    MaxTime = 0
    MaxVersion = 0
    MaxProcess = 0
INVARIANTS
    WritesAreNeverReplayed
