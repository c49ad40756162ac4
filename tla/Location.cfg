SPECIFICATION Spec
CONSTANTS
    t1 = t1
    t2 = t2
    Threads = {t1, t2}
    Asks <- MCAsks
    Places <- MCPlaces
    TextFiles <- MCTextFiles
    Published <- MCPublished
    MaxUpdates = 1
INVARIANTS
    TypeOK
    LoadedIsWhole
    NamesArePublished
    AnswersArePublished
