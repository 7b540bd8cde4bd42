SPECIFICATION Spec
CONSTANTS
    r1 = r1
    r2 = r2
    r3 = r3
    r4 = r4
    main = main
    work = work
    draft = draft
    Loop = {r1}
    Direct = {}
    Kept = {main, work}
    Base = main
    Drafts = {draft}
    Editors = {r1}
    GitMode = "pr"
INVARIANTS
    EditsLand
