----------------------------- MODULE AssetCache -----------------------------
(***************************************************************************)
(* An asset service and the cache it fills (src/cache,                     *)
(* src/financial/assets, src/financial/services/logo.service.ts).          *)
(*                                                                         *)
(* AssetCacheOrchestrator refreshes the cached types of data one after the *)
(* other before the server listens, and from then on by cron jobs, whose   *)
(* ticks overlap.  Refreshes of a key share one call of the provider.      *)
(* Requests go through Cacheable: they read the cache, call the provider   *)
(* on a miss, and write the cache, without sharing anything.               *)
(*                                                                         *)
(* Both are jobs that wait, in this order, for the cache ("lookup",        *)
(* requests only), the provider, the list of assets that completes the     *)
(* answer ("names"), the map of logos, the map again ("merge"), its update *)
(* ("save"), and the write of the answer ("store").  The refresh that a    *)
(* caller started goes by the caller's name: it awaits it to its end.      *)
(*                                                                         *)
(* There are two services, of stocks and of coins, which share nothing but *)
(* Redis, where they use different keys.  The specification is of either.  *)
(***************************************************************************)
EXTENDS Sequences, FiniteSets, StockSources

CONSTANTS
    Symbols,
    FileOf,           \* FileOf[s]: the archive that lists s, if it is a stock
    WonMarkets,       \* the symbols that are coins traded against the won
    DataTypes,        \* MarketDataType: those a run has
    CacheOrder,       \* cacheableDataTypeMap: its keys in order
    Warmup,           \* the types whose config does not say warmup: false
    RefreshInterval,  \* RefreshInterval[d]: its cron expression, or "none"
    WithLogo,         \* the types whose config says withLogo
    MaxLogoFetch,     \* MAX_LOGO_FETCH: no logos for longer lists
    Ticks,            \* bound: the ticks of cron jobs that can be under way
    Requests,         \* bound: the requests that can be under way
    Countries,        \* bound: what requests give as country; "" is none
    MaxActive,        \* bound: ticks and requests under way at a time
    NoJob,
    Missing,          \* what Redis answers for a key it does not have
    MaxRestarts       \* bound: how often the process is started again

VARIABLES
    assetType,  \* AssetService.assetType: whose service it is
    listed,     \* the symbols that exist; it grows
    cache,      \* cache[d]: the list Redis has for type d, or Missing
    logoMap,    \* logoMap[s]: what the cached map of logos says of s
    inFlight,   \* inFlight[d]: whose refresh of d is under way, or NoJob
    job,        \* job[j]: where a refresh or a request waits
    caller,     \* caller[c]: what the warm-up, or a tick, has still to refresh
    apiKey,     \* LOGODEV_PUBLIC_KEY is configured
    restarts,
    refreshed,  \* refreshed[d]: listed at the last answer a refresh of d stored
    keyless     \* some process ran without LOGODEV_PUBLIC_KEY

worldVars == <<assetType, listed, apiKey, restarts, keyless>>
vars == <<worldVars, cache, logoMap, inFlight, job, caller, refreshed>>

AssetTypes == {"stocks", "crypto"}

Callers == {"warmup"} \cup Ticks
Jobs == Callers \cup Requests

\* The cron expressions in use.
Intervals == {RefreshInterval[d] : d \in DataTypes} \ {"none"}

\* The order of warmup(), and of the tick of one expression.
WarmupOrder == SelectSeq(CacheOrder, LAMBDA d : d \in Warmup)
Bucket(interval) == SelectSeq(CacheOrder, LAMBDA d : RefreshInterval[d] = interval)

\* A list of assets: the logo of each symbol, "unset" when it has no such field.
Lists == UNION {[symbols -> {"unset", "null", "url"}] : symbols \in SUBSET Symbols}

LogoMaps == [Symbols -> {"none", "url", "NOT_FOUND"}]
NoLogos == [s \in Symbols |-> "none"]

ASSUME CacheAssumption ==
    /\ "assets" \in DataTypes
    /\ "" \in Countries
    /\ MaxRestarts \in Nat
    /\ Callers \cap Requests = {}
    /\ NoJob \notin Jobs
    /\ Missing \notin Lists
    /\ WarmupOrder \in Seq(DataTypes)
    /\ \A interval \in Intervals : Bucket(interval) \in Seq(DataTypes)

Steps == {"lookup", "provider", "names", "logos", "merge", "save", "store"}
Free == [step |-> "free"]
BusyJobs ==
    [type : DataTypes, step : Steps, country : Countries,
     asOf : SUBSET Symbols, list : Lists, logos : LogoMaps]

NewJob(d, step, country) ==
    [type |-> d, step |-> step, country |-> country,
 asOf |-> {}, list |-> <<>>, logos |-> NoLogos]

Busy(j) == job[j] # Free
At(j, step) == job[j].step = step
TypeOf(j) == job[j].type

\* What a caller has to do, with nothing awaited yet.
Calls(types) == [todo |-> types, awaits |-> NoJob]

TypeOK ==
    /\ assetType \in AssetTypes
    /\ listed \subseteq Symbols
    /\ cache \in [DataTypes -> Lists \cup {Missing}]
    /\ logoMap \in LogoMaps
    /\ inFlight \in [DataTypes -> Callers \cup {NoJob}]
    /\ job \in [Jobs -> BusyJobs \cup {Free}]
    /\ caller \in [Callers -> [todo : Seq(DataTypes), awaits : Callers \cup {NoJob}]]
    /\ {apiKey, keyless} \subseteq BOOLEAN
    /\ restarts \in 0 .. MaxRestarts
    /\ refreshed \in [DataTypes -> SUBSET Symbols]

\* A process that has just started: its warm-up is ahead.
Started == [c \in Callers |-> Calls(IF c = "warmup" THEN WarmupOrder ELSE <<>>)]
NothingInFlight == [d \in DataTypes |-> NoJob]
NoJobs == [j \in Jobs |-> Free]

Init ==
    /\ assetType \in AssetTypes
    /\ listed \in SUBSET Symbols
    /\ cache = [d \in DataTypes |-> Missing]
    /\ logoMap = NoLogos
    /\ inFlight = NothingInFlight
    /\ job = NoJobs
    /\ caller = Started
    /\ apiKey \in BOOLEAN
    /\ restarts = 0
    /\ refreshed = [d \in DataTypes |-> {}]
    /\ keyless = ~apiKey

-----------------------------------------------------------------------------
(* AssetCacheOrchestrator and refreshCache *)

\* The providers are built, and the server listens, after the warm-up.
Serving == caller["warmup"].todo = <<>>

Admitted ==
    Cardinality({t \in Ticks : caller[t].todo # <<>>} \cup {r \in Requests : Busy(r)})
      < MaxActive

Tick(t, interval) ==
    /\ Serving
    /\ Admitted
    /\ caller[t] = Calls(<<>>)
    /\ caller' = [caller EXCEPT ![t] = Calls(Bucket(interval))]
    /\ UNCHANGED <<worldVars, cache, logoMap, inFlight, job, refreshed>>

\* Mutant: refreshes are not shared.
UnderWayNever(d) == NoJob

UnderWay(d) == inFlight[d]

\* Callers whose next refreshCache is due.
Calling(c) == caller[c].todo # <<>> /\ caller[c].awaits = NoJob

\* Awaits the task of the entry.  One that is over lets the caller go on at once.
JoinRefresh(c) ==
    LET d == Head(caller[c].todo)
        task == UnderWay(d) IN
    /\ Calling(c)
    /\ task # NoJob
    /\ caller' = [caller EXCEPT ![c] =
         IF Busy(task) /\ TypeOf(task) = d THEN [@ EXCEPT !.awaits = task]
         ELSE Calls(Tail(@.todo))]
    /\ UNCHANGED <<worldVars, cache, logoMap, inFlight, job, refreshed>>

StartRefresh(c) ==
    LET d == Head(caller[c].todo) IN
    /\ Calling(c)
    /\ UnderWay(d) = NoJob
    /\ inFlight' = [inFlight EXCEPT ![d] = c]
    /\ job' = [job EXCEPT ![c] = NewJob(d, "provider", "")]
    /\ caller' = [caller EXCEPT ![c].awaits = c]
    /\ UNCHANGED <<worldVars, cache, logoMap, refreshed>>

\* A refresh is over: whoever awaited it goes on with the next type.
EndRefresh(c) ==
    /\ inFlight' = [inFlight EXCEPT ![TypeOf(c)] = NoJob]
    /\ caller' = [k \in Callers |->
         IF caller[k].awaits = c THEN Calls(Tail(caller[k].todo)) ELSE caller[k]]

End(j) ==
    /\ job' = [job EXCEPT ![j] = Free]
    /\ IF j \in Callers THEN EndRefresh(j) ELSE UNCHANGED <<inFlight, caller>>

\* Mutant: the entry of inFlight stays when the task fails.
FailLeaking(j) ==
    /\ job' = [job EXCEPT ![j] = Free]
    /\ caller' = [k \in Callers |->
         IF caller[k].awaits = j THEN Calls(Tail(caller[k].todo)) ELSE caller[k]]
    /\ UNCHANGED inFlight

\* Mutant: those who joined a refresh do not hear of its failure.
FailUnheard(j) ==
    /\ job' = [job EXCEPT ![j] = Free]
    /\ IF j \in Callers
         THEN /\ inFlight' = [inFlight EXCEPT ![TypeOf(j)] = NoJob]
              /\ caller' = [caller EXCEPT ![j] = Calls(Tail(@.todo))]
         ELSE UNCHANGED <<inFlight, caller>>

\* The error of a refresh is logged and nothing else; that of a request goes to
\* the client.
Fail(j) == End(j)

-----------------------------------------------------------------------------
(* Cacheable, and the part that refreshes and requests have in common *)

\* A request without symbols.
Request(r, d, country) ==
    /\ Serving
    /\ Admitted
    /\ ~Busy(r)
    /\ job' = [job EXCEPT ![r] = NewJob(d, "lookup", country)]
    /\ UNCHANGED <<worldVars, cache, logoMap, inFlight, caller, refreshed>>

ReadCache(r) ==
    /\ At(r, "lookup")
    /\ job' = [job EXCEPT ![r] =
         IF cache[TypeOf(r)] = Missing THEN [@ EXCEPT !.step = "provider"] ELSE Free]
    /\ UNCHANGED <<worldVars, cache, logoMap, inFlight, caller, refreshed>>

\* The archives as their server may have them: it may be down, or send an
\* archive without the file, or with a row that is cut off.
FileRows(f) == {Row(s) : s \in {t \in listed : FileOf[t] = f}}
Archives ==
    [Files -> {"down", "empty", "whole"}]
ArchiveOf(f, state) ==
    CASE state = "down" -> Down
      [] state = "empty" -> Up([named |-> FALSE, rows |-> {}])
      [] OTHER -> Up([named |-> TRUE, rows |-> FileRows(f) \cup {Malformed}])

\* What another server may answer: nothing, or some of the symbols that exist.
Responses == {Down} \cup {Up(symbols) : symbols \in SUBSET listed}

\* The types "symbols" and "trades" stand for the snapshots and the trades of
\* one list of symbols.
StockAnswers(d, country) ==
    CASE d = "assets" ->
           {GetAssets(country, [f \in Files |-> ArchiveOf(f, states[f])]) : states \in Archives}
      [] d \in {"mostActive", "topTraded"} ->
           {GetMostActive(screener, snapshots) : screener, snapshots \in Responses}
      [] d \in {"gainers", "losers"} -> {GetMovers(response) : response \in Responses}
      [] d = "symbols" -> {GetSnapshots(Symbols, response) : response \in Responses}
      [] OTHER -> {}

Upbit == INSTANCE CryptoSources

CryptoAnswers(d) ==
    CASE d = "assets" -> {Upbit!GetAssets(markets) : markets \in SUBSET listed}
      [] d \in {"mostActive", "topTraded", "gainers", "losers"} ->
           {Upbit!GetRanking(markets, tickers, first) : markets, tickers, first \in SUBSET listed}
      [] d = "symbols" -> {Upbit!GetSnapshots(Symbols, tickers) : tickers \in SUBSET listed}
      [] d = "trades" -> {Upbit!GetTrades(Symbols, trades) : trades \in SUBSET listed}
      [] OTHER -> {}

\* registry.call: the method of the service's provider for the type, and what it
\* may answer.
Answers(d, country) ==
    IF assetType = "stocks" THEN StockAnswers(d, country) ELSE CryptoAnswers(d)

\* The calls that can throw: those of Upbit, and of the stocks' getTrades, which
\* is not implemented, and rankings of movers, for a response without the field.
Rejecting ==
    IF assetType = "stocks" THEN {"gainers", "losers", "trades"} ELSE DataTypes

\* Trades are not completed as assets are.
ProviderAnswers(j) ==
    /\ At(j, "provider")
    /\ \E symbols \in Answers(TypeOf(j), job[j].country) :
         job' = [job EXCEPT
           ![j].step = IF TypeOf(j) = "trades" THEN "store" ELSE "names",
           ![j].country = "",
           ![j].asOf = IF j \in Callers THEN listed ELSE {},
           ![j].list = [s \in symbols |-> "unset"]]
    /\ UNCHANGED <<worldVars, cache, logoMap, inFlight, caller, refreshed>>

ProviderRejects(j) ==
    /\ At(j, "provider")
    /\ TypeOf(j) \in Rejecting
    /\ Fail(j)
    /\ UNCHANGED <<worldVars, cache, logoMap, refreshed>>

\* afterCallProviderMethod of the StockService; that of the CryptoService has the
\* names only.
NeedsLogos(d, assets) ==
    /\ assetType = "stocks"
    /\ d \in WithLogo
    /\ Cardinality(DOMAIN assets) <= MaxLogoFetch

\* enrichName reads the cached list of all assets.  The names and exchanges it
\* takes from it are not modelled.
ReadNames(j) ==
    /\ At(j, "names")
    /\ job' = [job EXCEPT
         ![j].step = IF NeedsLogos(TypeOf(j), job[j].list) THEN "logos" ELSE "store"]
    /\ UNCHANGED <<worldVars, cache, logoMap, inFlight, caller, refreshed>>

-----------------------------------------------------------------------------
(* afterCallProviderMethod: the logos, and LogoService *)

LogoOf(entry) == CASE entry = "none" -> "unset" [] entry = "url" -> "url" [] OTHER -> "null"

Unset(assets) == {s \in DOMAIN assets : assets[s] = "unset"}
WithLogos(assets, logo) ==
    [s \in DOMAIN assets |-> IF assets[s] = "unset" THEN logo[s] ELSE assets[s]]

\* getLogoMap: what it has is settled, the rest ("unset") goes to getStockLogos.
ReadLogos(j) ==
    LET assets == WithLogos(job[j].list, [s \in Symbols |-> LogoOf(logoMap[s])]) IN
    /\ At(j, "logos")
    /\ job' = [job EXCEPT
         ![j].list = assets,
         ![j].step = IF Unset(assets) = {} THEN "store" ELSE "merge"]
    /\ UNCHANGED <<worldVars, cache, logoMap, inFlight, caller, refreshed>>

\* Mutant: a symbol without a URL is entered as it is.
GeneratedRaw == IF apiKey THEN "url" ELSE "null"

\* generateLogoUrl, as it is entered into the map.
Generated == IF apiKey THEN "url" ELSE "NOT_FOUND"

\* getStockLogos: the map as it is now, completed for the symbols asked for.
Completed(map, symbols) ==
    [s \in Symbols |-> IF s \in symbols /\ map[s] = "none" THEN Generated ELSE map[s]]

\* Mutant: only the logos made by this call are returned.
StockLogosNew(symbols) ==
    [s \in Symbols |-> IF logoMap[s] = "none" THEN LogoOf(Generated) ELSE "null"]

StockLogos(symbols) == [s \in Symbols |-> LogoOf(Completed(logoMap, symbols)[s])]

MergeLogos(j) ==
    LET targets == Unset(job[j].list) IN
    /\ At(j, "merge")
    /\ job' = [job EXCEPT
         ![j].list = WithLogos(@, StockLogos(targets)),
         ![j].logos = Completed(logoMap, targets),
         ![j].step = IF Completed(logoMap, targets) # logoMap THEN "save" ELSE "store"]
    /\ UNCHANGED <<worldVars, cache, logoMap, inFlight, caller, refreshed>>

\* setLogoMap writes the whole map: what others entered meanwhile is lost.
SaveLogos(j) ==
    /\ At(j, "save")
    /\ logoMap' = job[j].logos
    /\ job' = [job EXCEPT ![j].step = "store", ![j].logos = NoLogos]
    /\ UNCHANGED <<worldVars, cache, inFlight, caller, refreshed>>

-----------------------------------------------------------------------------
(* The end of a job, and a cache that fails *)

Store(j) ==
    /\ At(j, "store")
    /\ cache' = [cache EXCEPT ![TypeOf(j)] = job[j].list]
    /\ refreshed' =
         IF j \in Callers THEN [refreshed EXCEPT ![TypeOf(j)] = job[j].asOf] ELSE refreshed
    /\ End(j)
    /\ UNCHANGED <<worldVars, logoMap>>

\* A failing read or write ends the job, a write of the answer that the job has
\* already included.
CacheFails(j) ==
    /\ job[j].step \in {"lookup", "names", "store"}
    /\ Fail(j)
    /\ UNCHANGED <<worldVars, cache, logoMap, refreshed>>

\* While the logos are looked up it is caught: the answer goes without logos.
LogosFail(j) ==
    /\ job[j].step \in {"logos", "merge", "save"}
    /\ job' = [job EXCEPT
         ![j].list = [s \in DOMAIN @ |-> "unset"],
         ![j].step = "store", ![j].logos = NoLogos]
    /\ UNCHANGED <<worldVars, cache, logoMap, inFlight, caller, refreshed>>

-----------------------------------------------------------------------------
(* Redis and the world *)

Expire(d) ==
    /\ cache[d] # Missing
    /\ cache' = [cache EXCEPT ![d] = Missing]
    /\ UNCHANGED <<worldVars, logoMap, inFlight, job, caller, refreshed>>

ExpireLogos ==
    /\ logoMap # NoLogos
    /\ logoMap' = NoLogos
    /\ UNCHANGED <<worldVars, cache, inFlight, job, caller, refreshed>>

ListSymbol(s) ==
    /\ s \notin listed
    /\ listed' = listed \cup {s}
    /\ UNCHANGED <<assetType, apiKey, restarts, keyless,
                   cache, logoMap, inFlight, job, caller, refreshed>>

\* The process ends and is started again, perhaps with another configuration.
\* Redis keeps what it has.
Restart ==
    /\ restarts < MaxRestarts
    /\ restarts' = restarts + 1
    /\ inFlight' = NothingInFlight
    /\ job' = NoJobs
    /\ caller' = Started
    /\ apiKey' \in BOOLEAN
    /\ keyless' = (keyless \/ ~apiKey')
    /\ UNCHANGED <<assetType, listed, cache, logoMap, refreshed>>

-----------------------------------------------------------------------------
JobStep(j) ==
    /\ Busy(j)
    /\ \/ ReadCache(j) \/ CacheFails(j)
       \/ ProviderAnswers(j) \/ ProviderRejects(j)
       \/ ReadNames(j)
       \/ ReadLogos(j) \/ MergeLogos(j) \/ SaveLogos(j) \/ LogosFail(j)
       \/ Store(j)

Next ==
    \/ \E t \in Ticks, interval \in Intervals : Tick(t, interval)
    \/ \E c \in Callers : JoinRefresh(c) \/ StartRefresh(c)
    \/ \E r \in Requests, d \in DataTypes, country \in Countries : Request(r, d, country)
    \/ \E j \in Jobs : JobStep(j)
    \/ \E d \in DataTypes : Expire(d)
    \/ ExpireLogos
    \/ \E s \in Symbols : ListSymbol(s)
    \/ Restart

\* The loops of the warm-up and of ticks go on when what they await has settled.
\* That it settles is not assumed: requests of providers have no timeout
\* (http.module.ts:7).
Fairness == \A c \in Callers : WF_vars(JoinRefresh(c) \/ StartRefresh(c))

Spec == Init /\ [][Next]_vars /\ Fairness

-----------------------------------------------------------------------------
(* Properties *)

\* inFlight (asset.service.ts:13) names a refresh exactly while it runs, so that
\* a key has one at most, and whoever awaits a refresh awaits one that runs, of
\* the type that is next in its list.
InFlightIsExact ==
    /\ \A d \in DataTypes, c \in Callers :
         inFlight[d] = c <=> Busy(c) /\ TypeOf(c) = d
    /\ \A c \in Callers :
         caller[c].awaits # NoJob =>
           /\ caller[c].todo # <<>>
           /\ inFlight[Head(caller[c].todo)] = caller[c].awaits

\* The service implements SharedRefreshes: a refresh of a type lets everyone go
\* on who wanted that type, those who joined it late included, and nobody else;
\* while the next one cannot begin before (asset.service.ts:31-53,
\* asset.cache.orchestrator.ts:24-54).  Who awaits the refresh of d:
Waiting(d) == {c \in Callers : caller[c].awaits # NoJob /\ Head(caller[c].todo) = d}

Refreshes == INSTANCE SharedRefreshes WITH
    Types <- DataTypes,
    Work <- {Bucket(interval) : interval \in Intervals},
    Started <- [c \in Callers |-> Started[c].todo],
    todo <- [c \in Callers |-> caller[c].todo],
    waiting <- [d \in DataTypes |-> Waiting(d)],
    seen <- refreshed

RefreshesAreShared == Refreshes!Spec

\* A refresh never overwrites the answer of a later one (asset.service.ts:38),
\* however slow the provider is, whichever ticks overlap, across restarts.
RefreshesNeverGoBack ==
    [][\A d \in DataTypes : refreshed[d] \subseteq refreshed'[d]]_refreshed

\* Although the map of logos is read, completed and written back with others
\* doing the same (logo.service.ts:64-93), an answer says that a stock has no
\* logo only if some process had no key to make one with.
LogosAreExplained ==
    \A d \in DataTypes : cache[d] # Missing =>
      \A s \in DOMAIN cache[d] : cache[d][s] = "null" => keyless

\* The warm-up, without which the server does not listen, and every tick come to
\* their end whatever fails, unless a call of a provider or of the cache never
\* settles: then whoever is held up is so by a refresh that hangs in this call
\* (asset.cache.orchestrator.ts:24-31, 48-54, asset.service.ts:26-42).
OnlyHangingCallsHoldUp ==
    \A c \in Callers :
      \/ []<>(caller[c].todo = <<>>)
      \/ \E k \in Callers, step \in Steps : <>[](caller[c].awaits = k /\ At(k, step))

=============================================================================
