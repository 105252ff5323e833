SPECIFICATION ProfileSpec
CONSTANTS
    k1 = k1
    k2 = k2
    c1 = c1
    c2 = c2
    None = None
    Key <- MCKey
    Slot <- MCSlot
    MaxDone = 2
INVARIANT OldIsRedundant
CHECK_DEADLOCK FALSE
SYMMETRY ProfileSymmetry
