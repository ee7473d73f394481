SPECIFICATION Spec
CONSTANTS
    c1 = c1
    c2 = c2
    btc = btc
    eth = eth
    Clients = {c1, c2}
    AssetTypes = {"crypto"}
    Symbols = {btc, eth}
    Rankings = {"mostActive"}
    DataTypes = {"ticker", "candle"}
    Timeframes = {"candle.1m"}
    NoTimeframe = "none"
    MaxCloses = 2
INVARIANTS RoutedSymbolsAreSubscribed
CHECK_DEADLOCK FALSE
