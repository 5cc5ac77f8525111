\* Four events in three instants, pages of one and two; two orders of two types.
SPECIFICATION Spec
CONSTANTS
    a = a
    b = b
    Ids = {1, 2, 3, 4}
    Listed = {1, 2, 3}
    Limits = {1, 2}
    MaxTime = 2
    Types = {a, b}
    Quota <- MCQuota
    Carts <- MCCarts
    Keys = {k1, k2}
    Orders = {o1, o2}
    None = None
    NoCursor = NoCursor
SYMMETRY Permuted
INVARIANTS
    TypeOK
    PagesAreExact
    NumbersAreOfTheTime
    QuietBoardsAddUp
