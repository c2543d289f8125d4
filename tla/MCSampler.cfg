SPECIFICATION FairSpec
CONSTANTS
    a = a  b = b
    Paths = {a, b}
    Vals = {"u", "v"}
    Absent = Absent
    Subscriptions <- All
    Startups <- OneTree
    ExpiredCap = 2
    OnchangeCap = 2
    MaxWrites = 2
    MaxLoads = 1
INVARIANTS TypeOK OnlyRacesLose
PROPERTIES SamplesArrive RunEndsUnlessStuck
CHECK_DEADLOCK FALSE
