\* Three consumers race for an event whose lease can run out twice.
SPECIFICATION Spec
CONSTANTS
    Events = {e1}
    Workers = {w1, w2, w3}
    Lease = 2
    MaxTime = 5
    None = None
SYMMETRY Permuted
INVARIANTS
    TypeOK
    ExclusiveUntilLateMark
PROPERTY
    KeepsLease
