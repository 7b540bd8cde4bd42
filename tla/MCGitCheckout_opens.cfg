SPECIFICATION Spec
CONSTANTS
    r1 = r1
    r2 = r2
    r3 = r3
    r4 = r4
    main = main
    work = work
    draft = draft
    Loop = {r1, r2}
    Direct = {r3, r4}
    Kept = {main, work}
    Base = main
    Drafts = {draft}
    Editors = {r1, r3}
    GitMode = "pr"
INVARIANTS
    PRHoldsItsNote
    StraysComeFromFailures
    KeptBranchesUntouched
    NotesLandOnce
PROPERTIES
    LandingImplemented
