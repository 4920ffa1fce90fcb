SPECIFICATION Spec
CONSTANTS
    Keys <- MCKeys
    MainKeys <- MCMainKeys
    CodeKey = 1
    Values = {v1, v2}
    ChildKeys <- MCChildKeys
    KeyPrefixes <- MCKeyPrefixes
    Limits = {0}
    MaxDepth = 2
PROPERTY LimitRespected
SYMMETRY ValueSymmetry
