\* One thread, which makes a request when the task of the one before has delivered.
CONSTANTS
    Threads = {t1}
    Slots = {s1, s2}
    Stragglers = FALSE
    Chunk = {"a", "b", "c"}
    Bodies <- MCBodies
SPECIFICATION FairSpec
INVARIANTS
    TypeOK
    OkMeansWholeAnswer
PROPERTIES
    SuccessIsReported
