SPECIFICATION Spec
CONSTANTS
    top = top  box = box  la = la  lb = lb  lc = lc
    Leaves = {la, lb, lc}
    Vals = {"u", "v"}
    Absent = Absent
    Nodes = {top, box, la, lb, lc}
    Root = top
    Cover <- MCCover
    Requests <- Tangled
    Options <- Indirect
    Faults = FALSE
    MaxSets = 2
INVARIANT Reverted
CHECK_DEADLOCK FALSE
