SPECIFICATION DeploymentSpec
CONSTANTS
    Path = {"a", "b", "c"}
    Outside = {"../a"}
    Document <- DeployedDocuments
    Registries <- DeployedRegistries
    Releases <- SomeReleases
    Tested <- TestedRegistries
    Job = {j1, j2}
    NoCandidate = NoCandidate
    NoFile = NoFile
    NoPath = NoPath
    NoSha = NoSha
    NoSchema = NoSchema
    SupportedSchema = {"v1", "v2", "v3"}
    Upstream = {"salla"}
    Builtin = {"builtin://window"}
    MaxEdits = 1
INVARIANTS
    TypeOK
    ServesOnlyWhatWasPublished
    ServesTheFirstOfEachName
    NothingIsSkippedSilently
    OutagesHaveTwoCauses
    DeploymentTypeOK
    OnlyMergedIsCallable
PROPERTIES
    PinsWholesale
    ToolsLeaveOnlyWhenUnpublished
    NewestIsOffered
    
