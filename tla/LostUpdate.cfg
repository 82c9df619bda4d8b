\* A form kept open across a conflict and a reload.
CONSTANTS
    Nil = Nil
    Parts = {p1}
    Values = {v1, v2}
    Lists = {x1}
    MaxVersion = 3
    MaxLoads = 1
    MaxDialogs = 1
SPECIFICATION Spec
PROPERTIES
    NoLostUpdate
