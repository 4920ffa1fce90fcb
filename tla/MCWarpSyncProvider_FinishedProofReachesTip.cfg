SPECIFICATION Spec
CONSTANTS
    a1 = a1
    a2 = a2
    a3 = a3
    b1 = b1
    Authorities = {a1, a2, a3, b1}
    Byzantine = {b1}
    AuthSet <- MCAuthSet
    MaxBlock = 6
    ScheduledAt = {1, 2, 4}
    ForcedAt = {5}
    MaxWarpSyncProofSize = 7
    FragmentSize <- MCFragmentSize
    HardForks <- MCHardForks
    NoJustification = {}
    StartBlocks <- MCStartBlocks
INVARIANT FinishedProofReachesTip
