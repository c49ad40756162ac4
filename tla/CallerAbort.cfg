\* One query whose promise may be rejected at its timeout.
CONSTANTS
    Queries = {q1}
    None = None
CHECK_DEADLOCK FALSE
SYMMETRY QuerySymmetry
SPECIFICATION Spec
INVARIANT EveryCodeIsFound
