CONSTANTS
    Orders = {o1}
    Refs = {r1, r2}
    Keys = {k1}
    Providers = {mock}
    Mock = mock
    EventIds = {e1, e2}
    EventTypes <- AllTypes
    Confirmers = {c1}
    Webhooks = {h1, h2}
    Jobs = {j1}
    None = None
    MaxCrashes = 1
SPECIFICATION Spec
SYMMETRY Permuted
INVARIANTS TypeOK TicketsMatchStatus EventsMatchStatus OnePaymentPerOrder ProcessedEventsTookEffect KeysNamePaidOrders
