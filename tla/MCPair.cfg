SPECIFICATION Spec
CONSTANTS
    a = a  b = b  c = c  i1 = i1  i2 = i2  i3 = i3
    s1 = s1  s2 = s2  s3 = s3  x1 = x1  x2 = x2  x3 = x3  w1 = w1  w2 = w2
    Absent = Absent  Same = Same  Nobody = Nobody
    Paths = {a, i1, i2}
    Vals = {"u"}
    InfoVal = "u"
    Subs = {s1, s2}
    Sess = {x1, x2}
    Writers = {w1}
    Procs = {w1, x1, x2}
    SessOf <- PairSess
    InfoPath <- TwoInfo
    Watch <- PairWatch
    Batches <- Singles
    UpdatesOnly = {s2}
    OnchangeCap = 1
    RespCap = 1
    MaxSubSession = 0
    SetChanges <- RootReplaced
    Faults = FALSE
    MaxWrites = 2
INVARIANTS TypeOK NothingLost LiveReceivers ReceiversServed SessionsCounted
PROPERTY FeedSpec
CHECK_DEADLOCK FALSE
