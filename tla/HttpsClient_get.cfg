SPECIFICATION Spec
CONSTANT MaxSites = 3
INVARIANTS
    OneOperation
    CompletedOnce
    Supervised
    DeliveredHonestly
PROPERTY ImplementsGet
CHECK_DEADLOCK FALSE
