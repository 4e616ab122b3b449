SPECIFICATION MCSpec
CONSTANTS
    Claims = {c1}
    None = None
    plan = plan
    region = region
    Plans = {plan}
    Regions = {region}
    Specs <- MCSpecs
    Markets <- MCMarkets
    MaxEdits = 1
INVARIANTS
    TypeOK
    NodeClassOutlivesInstances
    ReadyIsEarned
PROPERTIES
    StatusConverges
    StatusStays
    DeletionCompletes
CHECK_DEADLOCK FALSE
