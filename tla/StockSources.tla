---------------------------- MODULE StockSources ----------------------------
(***************************************************************************)
(* What the providers of stock data answer, given what the services behind *)
(* them did: KisStockProvider.getAssets                                    *)
(* (src/financial/providers/koreaInvestment/kis.stock.provider.ts), which  *)
(* reads five archives of listed stocks, and the rankings and snapshots of *)
(* AlpacaStockProvider (src/financial/providers/alpaca).                   *)
(*                                                                         *)
(* All of them catch their errors: an outage is an answer like any other.  *)
(***************************************************************************)
EXTENDS Naturals

CONSTANTS
    Files,      \* the archives: KOSPI, KOSDAQ, and one for each US exchange
    CountryOf   \* CountryOf[f]: "KR" or "US"

\* An HTTP request that failed, and one that was answered.
Down == [ok |-> FALSE]
Up(content) == [ok |-> TRUE, content |-> content]

-----------------------------------------------------------------------------
(* KisStockProvider *)

\* A row of a listing.  It is cut into columns, at tabs or at fixed positions; a
\* row that is too short has no symbol, and is left out.
NoSymbol == "no symbol"
Malformed == [symbol |-> NoSymbol]
Row(s) == [symbol |-> s]

FileSymbols(archive) == {row.symbol : row \in archive.content.rows} \ {NoSymbol}

\* The archive is read when it holds the file with rows in it.  Otherwise the
\* reading throws, as it does when the archive cannot be had or unpacked.
Readable(archive) == archive.ok /\ archive.content.named /\ archive.content.rows # {}

DownloadAndParseCodFile(archive) ==
    IF Readable(archive) THEN Up(FileSymbols(archive)) ELSE Down

\* The files of Korea come from other places and are cut at fixed positions, to
\* the same effect.
GetKospiMasterData(archive) == DownloadAndParseCodFile(archive)
GetKosdaqMasterData(archive) == DownloadAndParseCodFile(archive)

Load(f, archive) ==
    CASE f = "kospi" -> GetKospiMasterData(archive)
      [] f = "kosdaq" -> GetKosdaqMasterData(archive)
      [] OTHER -> DownloadAndParseCodFile(archive)

\* Without a country, or with another one than these two, all files are read.
FilesOf(country) ==
    IF country \in {"KR", "US"} THEN {f \in Files : CountryOf[f] = country} ELSE Files

\* Each file has its own try: the answer is what could be loaded.
GetAssets(country, archives) ==
    UNION {Load(f, archives[f]).content : f \in {g \in FilesOf(country) : Load(g, archives[g]).ok}}

-----------------------------------------------------------------------------
(* AlpacaStockProvider *)

GetSnapshots(symbols, response) ==
    IF symbols # {} /\ response.ok THEN response.content \cap symbols ELSE {}

\* The most active stocks joined with their snapshots.  One symbol without a
\* snapshot is a read of undefined, which throws, is caught, and empties the
\* answer.  getTopTraded gives the same stocks in another order.
GetMostActive(screener, snapshots) ==
    IF screener.ok /\ screener.content \subseteq GetSnapshots(screener.content, snapshots)
      THEN screener.content ELSE {}

\* getTopGainers and getTopLosers.
GetMovers(response) == IF response.ok THEN response.content ELSE {}

=============================================================================
