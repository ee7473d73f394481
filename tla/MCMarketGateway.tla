-------------------------- MODULE MCMarketGateway --------------------------
(* Constants for model-checking MarketGateway. *)
EXTENDS MarketGateway, TLC

CONSTANTS c1, c2, btc, aapl, h1, h2

\* Every symbol exists for every asset type.
Shared == [a \in AssetTypes |-> Symbols]

EveryLiberty == Liberties

ClientSymmetry == Permutations({c1, c2})
HandlerSymmetry == ClientSymmetry \cup Permutations({h1, h2})
SymbolSymmetry == ClientSymmetry \cup Permutations({btc, aapl})
HandlerSymbolSymmetry == HandlerSymmetry \cup Permutations({btc, aapl})

=============================================================================
