CONSTANTS
    a = a
    b = b
    c = c
    f = f
    Types <- MCTypes
    Foreign = {f}
    Quota <- MCQuota
    MaxPerOrder <- MCMaxPerOrder
    Rank <- MCRank
    Carts <- MCCarts
    Keys = {k1, k2}
    Orders = {o1, o2}
    Requests = {r1, r2, r3}
    None = None
    MaxFailures = 1
SPECIFICATION Spec
SYMMETRY Permuted
INVARIANT StockIsRestored
