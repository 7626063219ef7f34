CONSTANTS
    t1 = t1
    t2 = t2
    t3 = t3
    c1 = c1
    c2 = c2
    c3 = c3
    None = None
    Tasks = {t1, t2, t3}
    Clients = {c1, c2, c3}
SPECIFICATION FairSpec
INVARIANTS
    TypeOK
    OneLiveClient
PROPERTIES
    ReturnsLiveClient
    ImplementsSharedClient
    EveryCallReturns
