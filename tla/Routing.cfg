SPECIFICATION FairSpec
CONSTANTS
    Node <- FourNodes
    Links <- Mesh
    MaxEntries = 2
    Timeout = 1
    MaxOutages = 1
INVARIANTS TypeOK RouteThroughNeighbour
PROPERTIES DeadAreForgotten
