SPECIFICATION FairSpec
CONSTANTS
    Names = {1, 2}
    MaxFiles = 2
    Caps = {0, 3, 51}
    Defaults <- MCDefaults
    MaxEdits = 1
    Absent = Absent
INVARIANTS
    MembersAreCapped
    OverlayApplied
PROPERTY HupsAreServed
