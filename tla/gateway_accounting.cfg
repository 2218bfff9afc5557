CONSTANTS
    N = 3
    Requests = {r1, r2, r3}
    Usize = 4
    Policy = "prefix_affinity"
    Threshold = 1
    Sessions = {0}
    Prefixes = {0}
    Flaky = {0}
SPECIFICATION Spec
SYMMETRY Symmetry
INVARIANT TypeOK
INVARIANT CountersExact
PROPERTY LifecycleKept
