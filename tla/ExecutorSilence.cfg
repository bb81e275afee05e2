SPECIFICATION Spec
CONSTANTS
    Run = {r1, r2}
    Tool = {"orders"}
    Version = {"1.0.0"}
    Request = {"list", "noMeaning"}
    Param = {"page", "status"}
    ArgSet <- OnePage
    Principal = {alice, bob}
    Contract <- MalformedContracts
    Catalog <- MalformedCatalogs
    NoContract = NoContract
    NoToken = NoToken
    ClientToken = {NoToken}
    Nothing = Nothing
    Forever = Forever
    MaxTime = 0
    MaxVersion = 0
    MaxProcess = 0
INVARIANTS
    NeverSilent
