CONSTANTS
    m1 = m1
    m2 = m2
    s1 = s1
    g = g
    d1 = d1
    h1 = h1
    Miners <- MCMiners
    Spools = {s1}
    Genesis = g
    Data = {d1}
    Headers = {}
    Amounts = {1}
    MAX_SEGMENTS_PER_SPOOL = 1
    SEGMENT_TREE_HEIGHT = 1
    MAX_WRITE_SEGMENTS = 1
    RENT_PER_SEGMENT = 1
    MIN_RENT_BLOCKS = 1
    GENESIS_BALANCE = 1
    MAX_SLOT = 1
    MAX_BALANCE = 1
    HASH_SPACE = 2
    EPOCH_BLOCKS = 2
    BLOCK_DURATION_SECONDS = 1
    ADJUSTMENT_INTERVAL = 1
    MIN_PARTICIPATION_TARGET = 1
    MAX_PARTICIPATION_TARGET = 2
    MIN_MINING_DIFFICULTY = 1
    MIN_CONSISTENCY_MULTIPLIER = 1
    MAX_CONSISTENCY_MULTIPLIER = 2
    EPOCHS_PER_YEAR = 2
    BASE_RATES <- MCBaseRates
    STORAGE_RATE = 1
    MAX_BLOCK = 4
    MAX_TIME = 2
SPECIFICATION Spec
SYMMETRY MCSymmetry
INVARIANT TypeOK
INVARIANT RecallSpoolExists
INVARIANT ProofsCounted
