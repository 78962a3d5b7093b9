SPECIFICATION TransmitSpec
CONSTANTS
    MaxCounter = 4
    MaxPending = 3
INVARIANTS TransmitTypeOK CountersFresh
PROPERTIES WokenUnlessOverlapped 
CHECK_DEADLOCK FALSE
