SPECIFICATION Spec
CONSTANTS
    Radix = 4
    Half = 2
    Nibble = 1
    Small = {0, 1}
    MaxBytes = 2
INVARIANTS TypeOK CarryChain ZeroOfChain SignIsExact ProductIsExact
