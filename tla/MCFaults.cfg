SPECIFICATION Spec
CONSTANTS
    a = a  b = b  c = c  i1 = i1  i2 = i2  i3 = i3
    s1 = s1  s2 = s2  s3 = s3  x1 = x1  x2 = x2  x3 = x3  w1 = w1  w2 = w2
    Absent = Absent  Same = Same  Nobody = Nobody
    Paths = {a, i1, i2}
    Vals = {"u"}
    InfoVal = "u"
    Subs = {s1, s2}
    Sess = {x1, x2}
    Writers = {}
    Procs = {x1, x2}
    SessOf <- TwoSess
    InfoPath <- TwoInfo
    Watch <- TwoLook
    Batches <- NoBatches
    UpdatesOnly = {s2}
    OnchangeCap = 1
    RespCap = 1
    MaxSubSession = 1
    SetChanges <- RootReplaced
    Faults = TRUE
    MaxWrites = 1
INVARIANTS IInv NothingLost TornDown OnlyHangs
PROPERTY FeedSpec
CHECK_DEADLOCK FALSE
