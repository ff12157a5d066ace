CONSTANTS
    y = y
    w = w
    x = x
    z = z
    r1 = r1
    r2 = r2
    Plain = {y, w}
    RuleDeps <- MCRuleDeps
    DepsCols = {x, z}
    Columns <- MCColumns
    Vals = {0, 1}
    Recs = {r1, r2}
    CopySlots = {r2}
    ReadOnlySlots = {r1}
    Checked = {r1}
    MaxOps = 5
    Nil = Nil
    DefVal = DefVal
    NoMap = NoMap
    NoRow = NoRow
    NoRule = NoRule
SPECIFICATION Spec
INVARIANT GetRepeatable
