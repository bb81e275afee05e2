SPECIFICATION Spec
CONSTANTS
    Job = {j1, j2}
    Context = {original}
    Host = {store}
    Template = {old, new}
    Nobody = Nobody
    Nothing = Nothing
    Torn = Torn
    MaxProcess = 1
INVARIANTS
    HandsOutGeneratedCode
