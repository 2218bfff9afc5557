CONSTANTS
    Size = 3
    Threshold = 1
    MaxActive = 3
    Usize = 16
SPECIFICATION Spec
INVARIANT TypeOK
INVARIANT LoopsMatchPicks
INVARIANT JsqPanicExplained
INVARIANT CacheWinsMidScan
INVARIANT RoundRobinFair
