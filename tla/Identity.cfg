SPECIFICATION Spec
CONSTANTS
    t1 = t1
    t2 = t2
    Threads = {t1, t2}
    Asks <- MCAsks
    Files <- Files1
    Bundled <- Preset
    Updates <- Downloads
    KnownAreas <- MCAreas
    Countries = {"", "US"}
    MaxRows = 2
    MaxCrashes = 1
    Faults = TRUE
INVARIANTS
    TypeOK
    PagesMatchVersion
    OpenMeansComplete
    AnswerIsAtomic
    BothRoadsAgree
    MobileHasOneForm
PROPERTIES
    DowngradeOnlyBlind
