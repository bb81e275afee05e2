SPECIFICATION Spec
CONSTANTS
    Call <- EmptyCalls
    Folded <- FoldedTexts
    Store <- SomeStores
    Status = {200}
    Page <- SomePage
    MaxChanges = 1
    NoValue = NoValue
    NoBody = NoBody
    Nothing = Nothing
INVARIANTS
    NeverUnfiltered
