SPECIFICATION Spec
CONSTANTS
    Members = {1, 2}
    MaxDuties = 3
    DutyName <- MCDutyName
    Caps = {1, 2}
    Tiers = {"low", "high"}
    Ranks = {0, 2}
    Budgets = {0, 20, 36}
INVARIANTS
    NothingLost
    BudgetUsedUp
    PriorityYieldsToCost
    CountsAreThePlans
