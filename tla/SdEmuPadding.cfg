\* The instance of SdEmu.cfg, for the bytes of every cluster.
CONSTANTS
    ClusterSize = 2
    FatEntries = 7
    MaxFiles = 3
    RootEntries = 2
    Sizes = {0, 1, 2, 3}
SPECIFICATION Spec
INVARIANT EveryByteStored
