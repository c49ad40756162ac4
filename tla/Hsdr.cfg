\* Two threads, two requests, one disconnect, a service that answers up to twice or crashes.
CONSTANTS
    Threads = {t1, t2}
    Requests = {r1, r2}
    None = None
    MaxReplies = 2
    MaxDisconnects = 1
    Faults = TRUE
CHECK_DEADLOCK FALSE
SPECIFICATION FairSpec
INVARIANTS
    TypeOK
    OneOutcome
    SubscriptionHasOwner
    NoDeadlock
PROPERTIES
    EveryCallReturns
    EveryRequestSettles
