\* One thread, which makes a request when the task of the one before has delivered.
CONSTANTS
    Threads = {t1}
    Slots = {s1}
    RETRY_NUM = 1
    MaxVersion = 2
    MaxPublished = 3
    Stragglers = FALSE
    DbFaults = TRUE
SPECIFICATION Spec
INVARIANTS
    TypeOK
    TornIsRetried
    SuccessMeansCurrent
    YellowPagesImported
PROPERTIES
    VerifiedUpdate
