CONSTANTS
    Urls = {u1, u2, u3}
    NoUrl = NoUrl
    Requests = {r1, r2}
    Capacity = 2
    Usize = 4
    MaxWorkers = 4
SPECIFICATION Spec
SYMMETRY Symmetry
INVARIANT TypeOK
INVARIANT PoolIsASet
INVARIANT CountersExact
PROPERTY ChargedWhereListed
PROPERTY LifecycleKept
