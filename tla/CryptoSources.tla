--------------------------- MODULE CryptoSources ---------------------------
(***************************************************************************)
(* What UpbitCryptoProvider makes of the answers of Upbit                  *)
(* (src/financial/providers/upbit/upbit.crypto.provider.ts).  Unlike the   *)
(* providers of stocks it catches no errors, those of candles excepted: an *)
(* outage rejects.                                                         *)
(*                                                                         *)
(* A market goes by the symbol the code makes of its name: BTC for KRW-BTC *)
(* and BTC-ETH for BTC-ETH, which is not traded against the won.           *)
(***************************************************************************)
EXTENDS Naturals

CONSTANT WonMarkets  \* the symbols of the markets whose name begins with KRW-

GetAssets(markets) == markets \cap WonMarkets

\* One request for the names of all markets, whatever they are traded against,
\* and one for their tickers.
GetTickersData(markets, tickers) == tickers \cap markets

\* getTopTraded, getMostActive, getTopGainers, getTopLosers: the tickers that
\* come first in some order.
GetRanking(markets, tickers, first) == GetTickersData(markets, tickers) \cap first

\* KRW- is put before what the request names.
GetSnapshots(symbols, tickers) == tickers \cap symbols \cap WonMarkets

GetTrades(symbols, trades) == trades \cap symbols \cap WonMarkets

=============================================================================
