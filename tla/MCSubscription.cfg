SPECIFICATION Spec
CONSTANTS
    a = a  b = b  i = i  x1 = x1  x2 = x2  w1 = w1
    Nobody = Nobody
    Sess = {x1, x2}
    Writers = {w1}
    Paths = {b, i}
    InfoPath = i
    Requests <- StreamAndPoll
    MinimumInterval = 2
    DefaultInterval = 60
    OnchangeCap = 1
    InfoChanges <- RootReplaced
    MaxRequests <- TwoAndOne
    MaxSubs = 2
    MaxWrites = 1
INVARIANTS IInv ServedAsAsked RequestComplete EntryUnlessShared IdsUniqueUnlessRaced StandstillOnlyJammed
PROPERTY JamsForGood
CHECK_DEADLOCK FALSE
