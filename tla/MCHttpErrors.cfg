SPECIFICATION Spec
CONSTANTS
    Ids = {i1, i2}
    None = None
SYMMETRY Symmetry
INVARIANT
    ErrorsAnswered
