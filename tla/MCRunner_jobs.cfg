SPECIFICATION FairSpec
CONSTANTS
    a = a
    h = h
    q = q
    AutoNights = {}
    HttpNights = {h}
    HttpRuns = {q}
    MaxSlots = 2
    PRLimit = 2
    GitMode = "pr"
    MaxFaults = 1
    MaxCrashes = 1
INVARIANTS
    TypeOK
    LossBounded
    FinishedNightSettled
    PRsTraceable
    DigestComplete
PROPERTIES
    LedgerImplemented
    JobsRunOut
    HttpJobReturns
