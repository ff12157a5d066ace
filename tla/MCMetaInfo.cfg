CONSTANTS
    Tables = {t1, t2}
    NIdx = 2
    MaxCommits = 3
    MaxSlices = 14
    NoTable = NoTable
    NoResult = NoResult
    DropWhilePending = FALSE

SPECIFICATION Spec
INVARIANT LayersAccounted
INVARIANT ReaderStable
