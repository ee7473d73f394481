SPECIFICATION Spec
CONSTANTS
    Clients = {"c1"}
    AssetTypes = {"stocks"}
    Symbols = {"NAS:AAPL", "NASAAPL", "NASMSFT"}
    Listed = {"NASAAPL", "NASMSFT"}
    Rankings = {"mostActive"}
    DataTypes = {"ticker"}
    Tickers = {"NASAAPL", "NASMSFT"}
    Ticker <- WithoutColon
    Instants <- MCInstants
    NewYork <- Summer
    SpliceSize = 1
    LoopIds = {1, 2}
    MaxLosses = 1
PROPERTIES SubscribedSymbolsAreRegistered
CHECK_DEADLOCK FALSE
