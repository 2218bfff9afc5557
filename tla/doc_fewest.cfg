CONSTANTS
    N = 2
    Requests = {r1, r2, r3}
    Usize = 4
    Policy = "least_loaded"
    Threshold = 1
    Sessions = {0}
    Prefixes = {0}
    Flaky = {0, 1}
SPECIFICATION Spec
SYMMETRY Symmetry
PROPERTY PicksFewest
