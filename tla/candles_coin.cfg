SPECIFICATION Spec
CONSTANTS
    Readers = {"r1"}
    Value = 1
    Unit = "H"
    Hour = 1
    Day = 24
    Limits = {2}
    UpbitLimit = 1
    Histories <- MCWithoutPause
    Start = 4
    Horizon = 5
    MaxCached = 1
INVARIANT CoinScrollIsContiguous
