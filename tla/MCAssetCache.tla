---------------------------- MODULE MCAssetCache ----------------------------
(***************************************************************************)
(* A small instance of AssetCache: the list of assets, whose twelve hours  *)
(* do not come, and a ranking that a cron job refreshes every minute.      *)
(***************************************************************************)
EXTENDS AssetCache

CONSTANT s1

MCSymbols == {s1}
MCFileOf == [s \in MCSymbols |-> "nasmst"]
MCFiles == {"kospi", "nasmst"}
MCCountryOf == [f \in MCFiles |-> IF f = "kospi" THEN "KR" ELSE "US"]
MCDataTypes == {"assets", "gainers"}
MCCacheOrder == <<"assets", "gainers">>
MCRefreshInterval == [d \in MCDataTypes |-> IF d = "assets" THEN "none" ELSE "1m"]

=============================================================================
