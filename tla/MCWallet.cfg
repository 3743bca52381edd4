SPECIFICATION Spec
CONSTANTS
    Labels = {l1, l2}
    Calls = {c1, c2, c3}
    None = None
SYMMETRY CallSymmetry
INVARIANTS
    TypeOK
    SavedIsLoadable
    ViewsAgree
PROPERTIES
    AnswersForItsLabel
    LoadableUntilDeleted
    ImplementsStore
