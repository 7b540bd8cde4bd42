SPECIFICATION FairSpec
CONSTANTS
    NightLimit = 3
    RunLimit = 1
    NfLimit = 2
    Grace = 1
    MaxRequests = 1
PROPERTIES
    StopsWhenTold
