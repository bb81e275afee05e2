SPECIFICATION Spec
CONSTANTS
    Call <- SomeCalls
    Folded <- FoldedTexts
    Store <- SomeStores
    Status = {200, 404, 409, 429, 503}
    Page <- SomePage
    MaxChanges = 1
    NoValue = NoValue
    NoBody = NoBody
    Nothing = Nothing
INVARIANTS
    TypeOK
    RefusalsCostNothing
    QueryCarriesWhatWasAsked
    BodyTakesTheRest
    FilteredAsAsked
    TellsWhatTheUpstreamSaid
    OnlyPromisedFields
PROPERTIES
    IsASandboxChild
