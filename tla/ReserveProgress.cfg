CONSTANTS
    a = a
    b = b
    c = c
    f = f
    Types <- MCTypes
    Foreign = {f}
    Quota <- MCQuota
    MaxPerOrder <- MCMaxPerOrder
    Rank <- MCRank
    Carts <- MCCarts
    Keys = {k1}
    Orders = {o1}
    Requests = {r1, r2}
    None = None
    MaxFailures = 1
SPECIFICATION FairSpec
PROPERTY ReservesAreAnswered
