CONSTANTS
    Keys = {k1, k2}
    MaxVer = 3
    MaxChunks = 4
    Absent = Absent
    Nil = Nil
    IdxCounts = {1, 255}
    PersistWhenClean = FALSE

SPECIFICATION Spec
INVARIANT TypeOK
INVARIANT ChainRecovers
