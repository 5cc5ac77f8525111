CONSTANTS
    Orders = {o1, o2}
    Refs = {r1}
    Keys = {k1}
    Providers = {mock}
    Mock = mock
    EventIds = {e1}
    EventTypes <- PaidOnly
    Confirmers = {c1, c2}
    Webhooks = {h1}
    Jobs = {j1, j2}
    None = None
    MaxCrashes = 1
SPECIFICATION Spec
SYMMETRY Permuted
INVARIANTS IInv NoPoisonedRun ReservationMatchesStatus
PROPERTIES StatusMovesForward KeepsContract
