\* Two handlers, and a scheduler whose calls may fail.
CONSTANTS
    Handlers = {h1, h2}
    Faults = TRUE
SYMMETRY HandlerSymmetry
SPECIFICATION Spec
INVARIANTS
    TypeOK
    ArmedUnlessClosed
    ClosedMeansDisarmed
    LossIsVisible
