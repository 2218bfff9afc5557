CONSTANTS
    N = 2
    Requests = {r1, r2}
    Usize = 4
    Policy = "load_cache_aware"
    Threshold = 1
    Sessions = {0}
    Prefixes = {0, 1}
    Flaky = {0, 1}
SPECIFICATION Spec
SYMMETRY Symmetry
INVARIANT NoPanic
PROPERTY AffinityWins
