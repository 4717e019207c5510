\* The instance of SpiSd.cfg, for what the code says of SPIF.
CONSTANTS
    BlockSize = 2
    CardSize = 6
    BlockDelay = 1
    Waits = {2}
    MaxCycles = 1
    Issued = {"CMD12", "CMD17", "CMD18", "CMD24", "unknown"}
SPECIFICATION Spec
INVARIANT TransferClearsSPIF
