SPECIFICATION Spec
CONSTANTS
    a1 = a1
    a2 = a2
    a3 = a3
    b1 = b1
    h1 = h1
    z = z
    Authorities = {a1, a2, a3, b1}
    Byzantine = {b1}
    AuthSet <- MCAuthSet
    MaxBlock = 4
    ScheduledAt = {1, 2, 3}
    ForcedAt = {}
    MaxWarpSyncProofSize = 7
    FragmentSize <- MCFragmentSize
    HardForks <- MCHardForks
    NoJustification = {0}
    Peers = {h1, z}
    Honest = {h1}
    BadBlocks <- MCBadBlocks
    NodeFinalized = 0
    NodeSetId = 0
    Announces <- MCAnnounces
    ByzantineProofs <- MCByzantineProofs
    ByzantineBlocks <- MCByzantineBlocks
    MaxResults = 2
    InitialTip = 0
INVARIANT ResultIsTarget
