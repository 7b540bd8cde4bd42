SPECIFICATION Spec
CONSTANTS
    Caller = {night, dashboard}
    Row = {run}
INVARIANTS
    ListsWhatWasStored
CHECK_DEADLOCK FALSE
