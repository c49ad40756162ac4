\* Two threads mark a number that has two spellings.
CONSTANTS
    Threads = {t1, t2}
    Spellings <- MCSpellings
    Numbers <- MCNumbers
    Standard <- MCStandard
    Types = {"crank", "fraud"}
    Faults = TRUE
SYMMETRY ThreadSymmetry
SPECIFICATION Spec
INVARIANTS
    TypeOK
    OneUserMark
    CallLogFollowsMark
