----------------------------- MODULE MCCandles -----------------------------
(* Constants for model-checking Candles. *)
EXTENDS Candles

\* Trade without pauses, with one that the window has room for, and with one
\* that it has no room for.
MCHistories == {{1, 3, 4, 6}, {1, 4, 7}, {1, 2}}

\* One candle after the other, as coins have them.
MCWithoutPause == {{1, 2, 3, 4}}

=============================================================================
