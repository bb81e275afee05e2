SPECIFICATION Spec
CONSTANTS
    Job = {j1, j2}
    Context = {original, corrected}
    Host = {store, mock}
    Template = {old, new}
    Nobody = Nobody
    Nothing = Nothing
    Torn = Torn
    MaxProcess = 2
SYMMETRY JobSymmetry
INVARIANTS
    TypeOK
    RunsItsOwnContract
    TornFilesAreHealed
    WholeFileIsWhatMemoryHolds
PROPERTIES
    IsOneStore
