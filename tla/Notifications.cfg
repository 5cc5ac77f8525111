\* A confirmation and a resend, two workers, two attempts and two faults.
SPECIFICATION FairSpec
CONSTANTS
    Orders = {o1}
    Workers = {w1, w2}
    Attempts = 2
    MaxStalls = 1
    MaxResends = 1
    MaxFaults = 2
    None = None
INVARIANTS
    TypeOK
    CompletedMeansSent
    MarkedMeansMailed
    OneMailPerJob
PROPERTY
    ConfirmationsGoOut
