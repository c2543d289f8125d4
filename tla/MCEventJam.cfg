SPECIFICATION FairSpec
CONSTANTS
    a = a  b = b  c = c  i1 = i1  i2 = i2  i3 = i3
    s1 = s1  s2 = s2  s3 = s3  x1 = x1  x2 = x2  x3 = x3  w1 = w1  w2 = w2
    Absent = Absent  Same = Same  Nobody = Nobody
    Paths = {a, b, c, i1}
    Vals = {"u"}
    InfoVal = "u"
    Subs = {s1}
    Sess = {x1}
    Writers = {w1}
    Procs = {w1, x1}
    SessOf <- OneSess
    InfoPath <- OneInfo
    Watch <- OneWatchABC
    Batches <- WholeABC
    UpdatesOnly = {}
    OnchangeCap = 1
    RespCap = 8
    MaxSubSession = 1
    SetChanges <- NoChanges
    Faults = FALSE
    MaxWrites = 2

PROPERTIES EventsConsumed
CHECK_DEADLOCK FALSE
