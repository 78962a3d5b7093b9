SPECIFICATION LiveSpec
CONSTANTS
    MaxNets = 2
    MaxRetries = 3
    MaxAir = 2
    MaxKey = 6
    Topologies = {"Centralized", "Distributed"}
INVARIANTS TypeOK VerifiedIsAgreed
PROPERTIES ImplementsMembership EventuallyJoined
