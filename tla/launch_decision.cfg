SPECIFICATION Spec
CONSTANTS
    PlanIDs = {1, 2, 3}
    Costs = {0, 1, 2}
    NoPlan = NoPlan
INVARIANTS
    LaunchesBestOffer
