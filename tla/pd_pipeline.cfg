CONSTANTS
    Modes = {"vllm", "sglang"}
    Size <- TwoPrefill
    Requests = {r1, r2}
    Usize = 3
    Faults = {"build", "send", "body", "client", "panic"}
SPECIFICATION FairSpec
INVARIANT TypeOK
INVARIANT ReleasedBeforeResponding
PROPERTY RequestsAnswered
PROPERTY DriftsOnlyInWindow
