SPECIFICATION Spec
CONSTANTS
    Path = {"a", "b", "c"}
    Outside = {"../a"}
    Document <- SomeDocuments
    Registries <- OutageRegistries
    NoFile = NoFile
    NoPath = NoPath
    NoSha = NoSha
    NoSchema = NoSchema
    SupportedSchema = {"v1", "v2", "v3"}
    Upstream = {"salla"}
    Builtin = {"builtin://window"}
    MaxEdits = 1
INVARIANTS
    OneBadEntryIsNotAnOutage
