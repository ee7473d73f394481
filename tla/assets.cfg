SPECIFICATION Spec
CONSTANTS
    s1 = s1
    Symbols <- MCSymbols
    FileOf <- MCFileOf
    WonMarkets <- MCSymbols
    Files <- MCFiles
    CountryOf <- MCCountryOf
    DataTypes <- MCDataTypes
    CacheOrder <- MCCacheOrder
    Warmup <- MCDataTypes
    RefreshInterval <- MCRefreshInterval
    WithLogo = {"gainers"}
    MaxLogoFetch = 1
    Ticks = {"t1", "t2"}
    Requests = {"r1"}
    Countries = {"", "KR"}
    MaxActive = 2
    NoJob = NoJob
    Missing = Missing
    MaxRestarts = 1
INVARIANTS
    TypeOK
    InFlightIsExact
    LogosAreExplained
PROPERTIES
    OnlyHangingCallsHoldUp
    RefreshesNeverGoBack
    RefreshesAreShared
