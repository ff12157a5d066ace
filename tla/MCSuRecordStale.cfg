CONSTANTS
    t1 = t1
    t2 = t2
    y = y
    w = w
    x = x
    z = z
    o1 = o1
    o2 = o2
    Threads = {t1, t2}
    Plain = {y, w}
    RuleDeps <- MCRuleDeps
    Vals = {0, 1}
    ObsFns = {o1, o2}
    ObsBody <- MCObsBody
    Calls <- MCCalls
    MaxCalls = 2
    MaxDepth = 8
    Nil = Nil
    DefVal = DefVal
    NoRule = NoRule

SPECIFICATION Spec
INVARIANT NoStaleValue
