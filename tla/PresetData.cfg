SPECIFICATION Spec
CONSTANTS
    t1 = t1
    t2 = t2
    Threads = {t1, t2}
    Asks <- PresetAsks
    Places <- AtHome
    TextFiles <- ShippedText
    Published <- MCPublished
    MaxUpdates = 0
INVARIANT
    PresetIsFound
