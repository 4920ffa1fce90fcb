SPECIFICATION Spec
CONSTANTS
    Keys <- MCKeys
    MainKeys <- MCMainKeys
    CodeKey = 1
    Values = {v1, v2}
    ChildKeys <- MCChildKeys
    KeyPrefixes <- MCKeyPrefixes
    Limits = {1, 2}
    MaxDepth = 2
INVARIANT TypeOK
INVARIANT ReadsSeeTransaction
INVARIANT NextKeyLosesNoKey
PROPERTY ImplementsOverlay
INVARIANT CallsAsOnTrie
SYMMETRY ValueSymmetry
