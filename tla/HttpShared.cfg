\* Two threads share the condition variable; tasks run into later requests.
CONSTANTS
    Threads = {t1, t2}
    Slots = {s1, s2}
    Stragglers = TRUE
    Chunk = {"a", "b", "c"}
    Bodies <- MCBodies
SPECIFICATION TimedSpec
PROPERTIES
    EveryRequestReturns
