SPECIFICATION LinkSpec
CONSTANTS
    ShortAddress = {1, 2, 3}
    Receiver = 2
    Cost = {1, 2, 8}
    Unknown = 8
    DefaultCost = 1
    NoEntry = NoEntry
    FrameEntries = 3
    MaxLinks = 5
    Tables <- MCTables
    MaxExpired = 2
INVARIANTS LinkTypeOK ListedCostKept
