SPECIFICATION FairSpec
CONSTANTS
    c1 = c1
    c2 = c2
    a1 = a1
    a2 = a2
    a3 = a3
    self = self
    a0 = a0
    e1 = e1
    e2 = e2
    None = None
    Everyone = Everyone
    AnyProfile = AnyProfile
    Device = {c1, c2}
    Address = {a1, a2, a3}
    Home <- MCHome
    Self = self
    SelfAddress = a0
    Initiators = {c2}
    Endpoint = {e1, e2}
    Description <- MCDescription
    Oversized = {e2}
    Questions <- MCQuestions
    Announcements <- MCAnnouncements
    Histories <- MCHistories
    MapCapacity = 2
    MaxQuestions = 1
    MaxMoves = 1
    MaxJoins = 1
    MaxLosses = 1
    MaxAnswers = 1
INVARIANTS TypeOK AnsweredWhereAsked
 
CHECK_DEADLOCK FALSE
