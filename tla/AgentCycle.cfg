SPECIFICATION Spec
CONSTANTS
    a1 = a1
    a2 = a2
    Agents = {a1, a2}
    DailyCallBudget = 2
    MaxPrice = 2
    Scenes <- MCScenes
INVARIANTS
    CycleTypeOK
    BudgetBound
PROPERTIES
    AsksForAReason
    EscalationIsHeard
    TripsForCause
    BreakerComesBack
