SPECIFICATION Spec
CONSTANTS
    top = top  box = box  la = la  lb = lb  lc = lc
    Leaves = {la, lb, lc}
    Vals = {"u", "v"}
    Absent = Absent
    Nodes = {top, box, la, lb, lc}
    Root = top
    Cover <- MCCover
    Requests <- Both
    Options <- Setups
    Faults = TRUE
    MaxSets = 2
INVARIANTS TypeOK UntangledReverted AppUntangledReverted AppFollows
PROPERTIES AtomicSpec
CHECK_DEADLOCK FALSE
