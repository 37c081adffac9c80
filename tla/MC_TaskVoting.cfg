CONSTANTS
    v1 = v1
    v2 = v2
    v3 = v3
    i1 = i1
    i2 = i2
    Who = {v1, v2, v3}
    ItemIds = {i1, i2}
    MaxSize = 2
SPECIFICATION Spec
SYMMETRY MC_Symmetry
INVARIANTS VotesAccounted
