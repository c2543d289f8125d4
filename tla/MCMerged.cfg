SPECIFICATION Spec
CONSTANTS
    a = a  b = b  i = i  x1 = x1  x2 = x2  w1 = w1
    Nobody = Nobody
    Sess = {x1}
    Writers = {w1}
    Paths = {a, b, i}
    InfoPath = i
    Requests <- Merging
    MinimumInterval = 2
    DefaultInterval = 60
    OnchangeCap = 1
    InfoChanges <- RootReplaced
    MaxRequests <- Once
    MaxSubs = 2
    MaxWrites = 1
INVARIANT EventPathComplete
CHECK_DEADLOCK FALSE
