\* Blocks of two bytes on a card of three blocks, the first of them the MBR; reads may
\* begin at any byte.  CMD12 stands for the commands that are only replied to.
CONSTANTS
    BlockSize = 2
    CardSize = 6
    BlockDelay = 1
    Waits = {2}
    MaxCycles = 1
    Issued = {"CMD12", "CMD17", "CMD18", "CMD24", "unknown"}
SPECIFICATION FairSpec
INVARIANTS
    TypeOK
    CommandStatesClean
    ReplyNeverOverruns
    CardInStep
    PartOfCard
PROPERTIES
    StartToken
    ImplementsStream
    SingleReadEnds
