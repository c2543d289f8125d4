SPECIFICATION Spec
CONSTANTS
    n1 = n1  n2 = n2  n3 = n3  qa = qa  qb = qb  qc = qc
    None = None  r1 = r1
    Names = {n1, n2, n3}
    Paths = {qa, qb, qc}
    Server <- MCServer
    ClientPaths = {qa, qb}
    Runs = {r1}
    QueueCap = 2
    MaxUpdates = 3
INVARIANTS TypeOK AliasLeadsBack NamesLeadBack ClientKnows PrefixesKnown
CHECK_DEADLOCK FALSE
