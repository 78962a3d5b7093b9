SPECIFICATION FairSpec
CONSTANTS
    e1 = e1
    e2 = e2
    Endpoints = {e1, e2}
    First = e1
    Commands <- MCCommands
    Forever = 3
    MaxCommands = 2
    MaxToggles = 1
    MaxInterruptions = 1
    MaxLosses = 1
INVARIANTS TypeOK LitIsOn ConfigSaved
PROPERTIES AllOrNothing TimedGoesOff PeerIsTold
