SPECIFICATION Spec
CONSTANTS
    Run = {r1, r2}
    Tool = {"orders"}
    Version = {"1.0.0"}
    Request = {"list"}
    Param = {"page", "status"}
    ArgSet <- BarePages
    Principal = {alice}
    Contract <- RekeyedContracts
    Catalog <- RekeyedCatalogs
    NoContract = NoContract
    NoToken = NoToken
    ClientToken = {NoToken}
    Nothing = Nothing
    Forever = Forever
    MaxTime = 0
    MaxVersion = 0
    MaxProcess = 0
INVARIANTS
    AnswersItsOwnQuestion
