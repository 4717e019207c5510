\* Clusters of two bytes; up to three files, empty, within a cluster, a cluster
\* long and longer.
CONSTANTS
    ClusterSize = 2
    FatEntries = 7
    MaxFiles = 3
    RootEntries = 2
    Sizes = {0, 1, 2, 3}
SPECIFICATION Spec
INVARIANTS
    TypeOK
    FatChains
    BytesStored
    HostInPlace
