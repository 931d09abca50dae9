SPECIFICATION Spec
CONSTANTS
    a = a
    b = b
    c = c
    d = d
    e = e
    none = none
    Procs = {a, b, c, d}
    Patient = {}
    Removers = {}
    NoFile = none
SYMMETRY Symmetry
PROPERTIES
    ReplacementSurvives
