\* A page of a revision with a manifest and entries, while others change it.
CONSTANTS
    Nil = Nil
    Parts = {p1}
    Values = {v1, v2}
    Lists = {x1, x2}
    MaxVersion = 4
    MaxLoads = 1
    MaxDialogs = 1
SPECIFICATION Spec
SYMMETRY Interchangeable
INVARIANTS
    FreshPageIsExact
    FreshTableIsExact
PROPERTIES
    DecidedAsShown
    OwnFormLosesNothing
    PublishedStays
