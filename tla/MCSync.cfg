SPECIFICATION Spec
CONSTANTS
    list = list  qa = qa  ga = ga  gb = gb
    p1 = p1  p2 = p2
    Requesters = {p1, p2}
    Paths = {qa}
    RegPaths = {ga, gb}
    SchemaOf <- MCSchemaOf
    Nodes <- MCNodes
    MinInterval = 1
    MaxTime = 2
    MaxEvents = 2
    MaxEntries = 2
    MaxLoads = 1
INVARIANTS TypeOK RegistryTracksTree SynchronizedOrUnderWay
PROPERTIES IntervalUnlessRace
SYMMETRY MCSymmetry
CHECK_DEADLOCK FALSE
