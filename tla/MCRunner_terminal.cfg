SPECIFICATION FairSpec
CONSTANTS
    h = h
    a = a
    q = q
    AutoNights = {}
    HttpNights = {}
    HttpRuns = {q}
    MaxSlots = 1
    PRLimit = 2
    GitMode = "off"
    MaxFaults = 0
    MaxCrashes = 0
PROPERTIES
    TerminalStateRecorded
