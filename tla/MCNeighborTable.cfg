SPECIFICATION Spec
CONSTANTS
    Device = {d1, d2}
    NoDevice = NoDevice
    Address = {a0, a1, a2}
    NoAddress = NoAddress
    SelfAddress = a0
    MapCapacity = 1
    DefaultTimeout = 2
    Timeouts = {1}
    RouterAge = 1
INVARIANTS TypeOK OneEntryPerDevice  ReplyBacked
PROPERTIES NoEviction 
