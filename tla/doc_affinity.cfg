CONSTANTS
    N = 3
    Requests = {r1, r2}
    Usize = 4
    Policy = "load_cache_aware"
    Threshold = 1
    Sessions = {0}
    Prefixes = {0}
    Flaky = {0, 1, 2}
SPECIFICATION Spec
SYMMETRY Symmetry
PROPERTY AffinitySurvivesFiltering
