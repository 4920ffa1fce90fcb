SPECIFICATION FairSpec
CONSTANTS
    a1 = a1
    a2 = a2
    a3 = a3
    b1 = b1
    h1 = h1
    z = z
    Authorities = {a1, a2, a3, b1}
    Byzantine = {b1}
    AuthSet <- MCAuthSet
    MaxBlock = 3
    ScheduledAt = {1, 2}
    ForcedAt = {}
    MaxWarpSyncProofSize = 4
    FragmentSize <- MCFragmentSize
    HardForks <- MCHardForks
    NoJustification = {0}
    Peers = {h1, z}
    Honest = {h1}
    BadBlocks <- MCBadBlocks
    NodeFinalized = 0
    NodeSetId = 0
    Announces <- MCAnnounces
    ByzantineProofs <- MCByzantineProofs
    ByzantineBlocks <- MCByzantineBlocks
    MaxResults = 1
    InitialTip = 3
    Configs <- MCConfigs
    MaxClosed = 1
PROPERTY WarpSyncCompletes
PROPERTY StopTerminates
