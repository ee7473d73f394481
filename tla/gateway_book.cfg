SPECIFICATION Spec
CONSTANTS
    c1 = c1
    c2 = c2
    btc = btc
    aapl = aapl
    h1 = h1
    h2 = h2
    Clients = {c1, c2}
    AssetTypes = {"crypto"}
    Symbols = {btc, aapl}
    Rankings = {"mostActive"}
    DataTypes = {"ticker"}
    Handlers = {h1}
    AsyncProviders = {}
    SymbolsOf <- Shared
    Allowed <- EveryLiberty
SYMMETRY SymbolSymmetry
INVARIANTS TypeOK RoutesAreLive SymbolChannelsAreRouted
PROPERTIES KeptChannelsKeepTheirData
CHECK_DEADLOCK FALSE
