CONSTANTS
    m1 = m1
    m2 = m2
    m3 = m3
    a1 = a1
    a2 = a2
    r1 = r1
    r2 = r2
    v1 = v1
    v2 = v2
    c1 = c1
    c2 = c2
    Miners <- MCMiners
    Authority <- MCAuthority
    Reels <- MCReels
    ReelMiner <- MCReelMiner
    SpoolNumbers = {1, 2}
    Values <- MCValues
    PackedLeaves <- MCPackedLeaves
    MAX_SPOOLS_PER_REEL = 2
    SPOOL_TREE_HEIGHT = 1
SPECIFICATION ReelSpec
INVARIANT ReelTypeOK
INVARIANT CommitmentPacked
