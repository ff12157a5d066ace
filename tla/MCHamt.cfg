CONSTANTS
    a = a
    b = b
    c = c
    d = d
    Keys = {a, b, c, d}
    Vals = {v1}
    SnapIds = {1}
    Absent = Absent
    NoMap = NoMap
    NoHamt = NoHamt
    Hash <- MCHash
    HashBits = 2
    BitsPerNode = 1
    GenBits = 2
    MaxGen = 3
    MaxNodes = 13

SPECIFICATION Spec
INVARIANT TypeOK
INVARIANT WellFormed
INVARIANT GetAgrees
INVARIANT OwnedNodesPrivate
PROPERTY AbsSpec
