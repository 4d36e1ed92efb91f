SPECIFICATION MCSpec
CONSTANTS
    Procs = {pa, pb, pc1}
    Mortal = {}
    Inodes = {1, 2, 3, 4, 5, 6, 7}
SYMMETRY Symmetric
INVARIANTS MutualExclusion
