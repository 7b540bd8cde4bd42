SPECIFICATION Spec
CONSTANTS
    n1 = n1
    n2 = n2
    Night = {n1, n2}
    Single = {}
    MaxSlots = 1
    Limit = 1
INVARIANTS
    StatsOneSided
    OverIsFinal
PROPERTIES
    CountersGrow
