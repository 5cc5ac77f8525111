\* Two requests at a time on three users, three membership ids and a case.
SPECIFICATION Spec
CONSTANTS
    u1 = u1
    u2 = u2
    u3 = u3
    m1 = m1
    m2 = m2
    m3 = m3
    o1 = o1
    Users = {u1, u2, u3}
    MemberIds = {m1, m2, m3}
    Cases = {c1}
    Orders = {o1}
    OrderOf <- MCOrderOf
    Founders <- MCFounders
    AskedRoles = {"admin", "scanner"}
    AskedActions = {"ACCEPTED", "REFUND_REQUESTED", "REFUNDED"}
    Sessions = {s1, s2}
    None = None
SYMMETRY Permuted
INVARIANTS
    TypeOK
    OwnersAreLostOnlyToOverlap
    AuditTellsTheMembers
    ListTellsTheTruth
    EventsTellOneStory
