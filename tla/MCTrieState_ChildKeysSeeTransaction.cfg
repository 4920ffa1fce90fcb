SPECIFICATION Spec
CONSTANTS
    Keys <- MCKeys
    MainKeys <- MCMainKeys
    CodeKey = 1
    Values = {v1, v2}
    ChildKeys <- MCChildKeys
    KeyPrefixes <- MCKeyPrefixes
    Limits = {1}
    MaxDepth = 2
INVARIANT ChildKeysSeeTransaction
SYMMETRY ValueSymmetry
