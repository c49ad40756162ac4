\* One thread deletes the mark of a number, and the database fails once.
CONSTANTS
    Threads = {t1}
    Spellings <- MCSpellings
    Numbers <- MCNumbers
    Standard <- MCStandard
    Types = {"crank", "fraud"}
    Faults = TRUE
SPECIFICATION Spec
INVARIANTS
    NoneMeansDelete
