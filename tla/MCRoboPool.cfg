SPECIFICATION FairSpec
CONSTANTS
    Events = 3
    Issue <- MCIssue
    Slot = {s1, s2}
    NoSlot = NoSlot
    MaxIncidents = 2
INVARIANTS OneRunPerKey SlotIsolation RowOwned
PROPERTIES MarkedByItsRun EventsServed
CHECK_DEADLOCK FALSE
