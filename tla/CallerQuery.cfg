\* Two queries that share the JS thread; no symmetry, because of the temporal property.
CONSTANTS
    Queries = {q1, q2}
    None = None
CHECK_DEADLOCK FALSE
SPECIFICATION FairSpec
INVARIANTS
    TypeOK
    SuccessIsWhole
    InTimeIsReported
PROPERTY EveryQueryReturns
