--------------------------- MODULE MCStockMarket ---------------------------
(***************************************************************************)
(* Constants for model-checking StockMarket: two symbols as a ranking      *)
(* lists them and the composite form of one; the first minute of a session *)
(* on a Tuesday in summer, and the first minute after its end.             *)
(***************************************************************************)
EXTENDS StockMarket, Integers, TLC

WithoutColon == [s \in Symbols |-> IF s = "NAS:AAPL" THEN "NASAAPL" ELSE s]

Summer == -240
MCInstants == {2 * 1440 + 13 * 60 + 30, 2 * 1440 + 20 * 60}

=============================================================================
