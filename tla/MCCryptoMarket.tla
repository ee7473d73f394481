--------------------------- MODULE MCCryptoMarket ---------------------------
(* Constants for model-checking CryptoMarket. *)
EXTENDS CryptoMarket, TLC

CONSTANTS c1, c2, btc, eth

ClientSymmetry == Permutations({c1, c2}) \cup Permutations({btc, eth})

=============================================================================
