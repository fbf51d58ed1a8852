SPECIFICATION Spec
CONSTANT MaxSites = 1
PROPERTY DeadlineStops
CHECK_DEADLOCK FALSE
