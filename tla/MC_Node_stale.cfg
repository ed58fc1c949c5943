CONSTANTS
    s1 = s1
    g = g
    d1 = d1
    d2 = d2
    h1 = h1
    Spools <- MCSpools
    Genesis = g
    Data <- MCData
    Headers = {}
    Amounts = {}
    MAX_SEGMENTS_PER_SPOOL = 2
    SEGMENT_TREE_HEIGHT = 1
    MAX_WRITE_SEGMENTS = 1
    RENT_PER_SEGMENT = 0
    MIN_RENT_BLOCKS = 1
    GENESIS_BALANCE = 0
    MAX_SLOT = 3
    MAX_BALANCE = 1
    SECTOR_LEAVES = 1
    SECTOR_TREE_HEIGHT = 0
    CHANNEL_CAPACITY = 1
    MAX_STOPS = 0
    CRASHES = FALSE
    PACK_FAILURES = FALSE
    MAX_BLOCK_TXS = 2

SPECIFICATION Spec
INVARIANT SpoolRootAtRest
