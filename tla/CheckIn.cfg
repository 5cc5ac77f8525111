\* Three scans of two tickets on a pool of two connections.
SPECIFICATION FairSpec
CONSTANTS
    Tickets = {t1, t2}
    Users = {u1, u2}
    Members = {u1}
    Scans = {s1, s2, s3}
    PoolSize = 2
    None = None
INVARIANTS
    TypeOK
    TicketAdmitsOnce
    StalemateNeedsAllConnections
PROPERTY
    ScansAreAnswered
