SPECIFICATION Spec
CONSTANTS
    Readers = {"r1", "r2"}
    Value = 1
    Unit = "T"
    Hour = 1
    Day = 2
    Limits = {1, 2}
    UpbitLimit = 1
    Histories <- MCHistories
    Start = 7
    Horizon = 8
    MaxCached = 1
PROPERTY ScrollsBack
INVARIANTS
    TypeOK
    ScrollIsContiguous
    NullIsTheEnd
    ChangeIsAgainstPrevious
