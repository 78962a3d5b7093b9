SPECIFICATION FairSpec
CONSTANTS
    d1 = d1
    d2 = d2
    g = g
    self = self
    s1 = s1
    s2 = s2
    Devices = {d1, d2}
    Groups = {g}
    Self = self
    Sources = {s1, s2}
    Bindings <- MCBindings
    MaxRequests = 3
    MaxCopies = 2
    MaxLosses = 1
    MaxInterruptions = 1
INVARIANTS TypeOK AgreedIsBound SentWasBound FreshStart ServedUnlessFailed
PROPERTIES Concluded
