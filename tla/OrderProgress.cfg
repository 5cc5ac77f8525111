CONSTANTS
    Orders = {o1, o2}
    Refs = {r1}
    Keys = {k1}
    Providers = {mock}
    Mock = mock
    EventIds = {e1}
    EventTypes <- PaidOnly
    Confirmers = {c1}
    Webhooks = {h1}
    Jobs = {j1}
    None = None
    MaxCrashes = 1
SPECIFICATION FairSpec
PROPERTIES ReservationsAreReleased RequestsAreAnswered
