CONSTANTS
    MaxSize = 3
    Lengths = {1, 3, 4}
    Seconds = {1, 2}
    MaxRecords = 5
SPECIFICATION Spec
INVARIANT TypeOK
INVARIANT NothingLost
INVARIANT FileBounded
INVARIANT CounterExact
INVARIANT InOrderOnce
