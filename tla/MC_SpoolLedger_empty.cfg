CONSTANTS
    s1 = s1
    s2 = s2
    g = g
    d1 = d1
    d2 = d2
    h1 = h1
    Spools <- MCSpools
    Genesis = g
    Data <- MCData
    Headers = {h1}
    Amounts = {2}
    MAX_SEGMENTS_PER_SPOOL = 2
    SEGMENT_TREE_HEIGHT = 1
    MAX_WRITE_SEGMENTS = 2
    RENT_PER_SEGMENT = 1
    MIN_RENT_BLOCKS = 1
    GENESIS_BALANCE = 1
    MAX_SLOT = 3
    MAX_BALANCE = 2

SPECIFICATION Spec
SYMMETRY MCSymmetry
INVARIANT FinalizedSpoolsNonEmpty
