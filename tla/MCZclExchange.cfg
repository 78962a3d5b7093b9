SPECIFICATION Spec
CONSTANTS
    None = None
    MaxDepth = 2
    Capacity = 40
    Utf8 <- MCUtf8
    Cluster <- MCCluster
    Requests <- MCRequests
INVARIANTS TypeOK ReadBack 
