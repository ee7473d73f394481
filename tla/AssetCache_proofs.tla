------------------------- MODULE AssetCache_proofs -------------------------
(***************************************************************************)
(* Refreshes that share a call, for any number of types, cron jobs,        *)
(* requests and symbols.                                                   *)
(***************************************************************************)
EXTENDS AssetCache, TLAPS

-----------------------------------------------------------------------------
(* What the providers answer *)

LEMMA AssetsAreListed ==
    ASSUME NEW country, NEW states \in Archives
    PROVE  GetAssets(country, [f \in Files |-> ArchiveOf(f, states[f])]) \subseteq listed
<1> DEFINE archives == [f \in Files |-> ArchiveOf(f, states[f])]
<1>1. ASSUME NEW f \in Files, Load(f, archives[f]).ok
      PROVE  Load(f, archives[f]).content \subseteq listed
  <2>1. Load(f, archives[f]) = DownloadAndParseCodFile(archives[f])
    BY DEF Load, GetKospiMasterData, GetKosdaqMasterData
  <2> HIDE DEF archives
  <2>2. Readable(archives[f]) /\ Load(f, archives[f]).content = FileSymbols(archives[f])
    BY <1>1, <2>1 DEF DownloadAndParseCodFile, Up, Down
  <2>3. archives[f] = Up([named |-> TRUE, rows |-> FileRows(f) \cup {Malformed}])
    BY <2>2 DEF archives, ArchiveOf, Readable, Up, Down
  <2> QED BY <2>2, <2>3 DEF FileSymbols, FileRows, Row, Malformed, Up
<1>2. FilesOf(country) \subseteq Files
  BY DEF FilesOf
<1> HIDE DEF archives
<1>3. GetAssets(country, archives) \subseteq listed
  BY <1>1, <1>2 DEF GetAssets
<1> QED BY <1>3 DEF archives

LEMMA ResponsesAreListed ==
    ASSUME NEW response \in Responses, response.ok
    PROVE  response.content \subseteq listed
BY DEF Responses, Up, Down

LEMMA StockAnswersAreListed ==
    ASSUME NEW d, NEW country, NEW symbols \in StockAnswers(d, country)
    PROVE  symbols \subseteq listed
<1>1. CASE d = "assets"
  <2>1. PICK states \in Archives :
          symbols = GetAssets(country, [f \in Files |-> ArchiveOf(f, states[f])])
    BY <1>1 DEF StockAnswers
  <2> QED BY <2>1, AssetsAreListed
<1>2. CASE d \in {"mostActive", "topTraded"}
  <2>1. PICK screener \in Responses, snapshots \in Responses :
          symbols = GetMostActive(screener, snapshots)
    BY <1>2 DEF StockAnswers
  <2> QED BY <2>1, ResponsesAreListed DEF GetMostActive
<1>3. CASE d \in {"gainers", "losers"}
  <2>1. PICK response \in Responses : symbols = GetMovers(response)
    BY <1>3 DEF StockAnswers
  <2> QED BY <2>1, ResponsesAreListed DEF GetMovers
<1>4. CASE d = "symbols"
  <2>1. PICK response \in Responses : symbols = GetSnapshots(Symbols, response)
    BY <1>4 DEF StockAnswers
  <2> QED BY <2>1, ResponsesAreListed DEF GetSnapshots
<1>5. CASE d \notin {"assets", "mostActive", "topTraded", "gainers", "losers", "symbols"}
  BY <1>5 DEF StockAnswers
<1> QED BY <1>1, <1>2, <1>3, <1>4, <1>5

LEMMA CryptoAnswersAreListed ==
    ASSUME NEW d, NEW symbols \in CryptoAnswers(d)
    PROVE  symbols \subseteq listed
<1>1. CASE d = "assets"
  BY <1>1 DEF CryptoAnswers, Upbit!GetAssets
<1>2. CASE d \in {"mostActive", "topTraded", "gainers", "losers"}
  <2>1. PICK markets \in SUBSET listed, tickers \in SUBSET listed, first \in SUBSET listed :
          symbols = Upbit!GetRanking(markets, tickers, first)
    BY <1>2 DEF CryptoAnswers
  <2> QED BY <2>1 DEF Upbit!GetRanking, Upbit!GetTickersData
<1>3. CASE d = "symbols"
  BY <1>3 DEF CryptoAnswers, Upbit!GetSnapshots
<1>4. CASE d = "trades"
  BY <1>4 DEF CryptoAnswers, Upbit!GetTrades
<1>5. CASE d \notin {"assets", "mostActive", "topTraded", "gainers", "losers", "symbols", "trades"}
  BY <1>5 DEF CryptoAnswers
<1> QED BY <1>1, <1>2, <1>3, <1>4, <1>5

\* A provider names symbols that exist.
LEMMA AnswersAreListed ==
    ASSUME listed \subseteq Symbols, NEW d, NEW country, NEW symbols \in Answers(d, country)
    PROVE  symbols \subseteq listed
BY StockAnswersAreListed, CryptoAnswersAreListed DEF Answers

-----------------------------------------------------------------------------
(* The types of jobs and of lists *)

LEMMA ListsType ==
    ASSUME NEW assets \in Lists
    PROVE  DOMAIN assets \subseteq Symbols /\ \A s \in DOMAIN assets : assets[s] \in {"unset", "null", "url"}
BY DEF Lists

LEMMA MakesList ==
    ASSUME NEW symbols \in SUBSET Symbols,
           NEW assets \in [symbols -> {"unset", "null", "url"}]
    PROVE  assets \in Lists
BY DEF Lists

LEMMA BusyType ==
    ASSUME TypeOK, NEW j \in Jobs, Busy(j)
    PROVE  job[j] \in BusyJobs
BY DEF TypeOK, Busy

\* A job at a step is busy.
LEMMA AtIsBusy ==
    ASSUME NEW j \in Jobs, NEW step \in Steps, At(j, step)
    PROVE  Busy(j)
BY DEF At, Busy, Free, Steps

LEMMA NewJobType ==
    ASSUME NEW d \in DataTypes, NEW step \in Steps, NEW country \in Countries
    PROVE  NewJob(d, step, country) \in BusyJobs
<1>1. <<>> \in [{} -> {"unset", "null", "url"}]
  OBVIOUS
<1>2. <<>> \in Lists
  BY <1>1, MakesList
<1>3. NoLogos \in LogoMaps
  BY DEF NoLogos, LogoMaps
<1> QED BY <1>2, <1>3 DEF NewJob, BusyJobs

LEMMA LogosType ==
    ASSUME NEW map \in LogoMaps, NEW s \in Symbols
    PROVE  LogoOf(map[s]) \in {"unset", "null", "url"}
BY DEF LogoMaps, LogoOf

LEMMA CompletedType ==
    ASSUME NEW map \in LogoMaps, NEW symbols
    PROVE  Completed(map, symbols) \in LogoMaps
BY DEF Completed, LogoMaps, Generated

LEMMA WithLogosType ==
    ASSUME NEW assets \in Lists,
           NEW logo, \A s \in Symbols : logo[s] \in {"unset", "null", "url"}
    PROVE  WithLogos(assets, logo) \in Lists
<1>1. WithLogos(assets, logo) \in [DOMAIN assets -> {"unset", "null", "url"}]
  BY ListsType DEF WithLogos
<1> QED BY <1>1, MakesList, ListsType

-----------------------------------------------------------------------------
(* The inductive invariant *)

\* Whoever started a refresh awaits it, and refreshes do not read the cache first.
StartersWait == \A c \in Callers : Busy(c) => caller[c].awaits = c /\ ~At(c, "lookup")

\* The refresh of d that is under way, of which there is one at most, has seen
\* everything that the last one to be stored had.
RefreshOrder ==
    /\ \A d \in DataTypes : refreshed[d] \subseteq listed
    /\ \A c \in Callers : Busy(c) /\ ~At(c, "provider") =>
         refreshed[TypeOf(c)] \subseteq job[c].asOf /\ job[c].asOf \subseteq listed

\* A list or map under way denies a logo only if some process could not make one.
Honest(n) ==
    /\ \A s \in DOMAIN n.list : n.list[s] = "null" => keyless
    /\ \A s \in Symbols : n.logos[s] = "NOT_FOUND" => keyless

LogosHonest ==
    /\ ~apiKey => keyless
    /\ \A s \in Symbols : logoMap[s] = "NOT_FOUND" => keyless
    /\ \A j \in Jobs : Busy(j) => Honest(job[j])
    /\ LogosAreExplained

IInv == TypeOK /\ InFlightIsExact /\ StartersWait /\ RefreshOrder /\ LogosHonest

-----------------------------------------------------------------------------
(* A job either goes on as n or ends *)

GoesOn(j, n) ==
    /\ n \in BusyJobs
    /\ n.type = TypeOf(j) /\ n.step # "lookup"
    /\ Honest(n)
    /\ j \in Callers => /\ n.step # "provider"
                        /\ n.asOf = IF At(j, "provider") THEN listed ELSE job[j].asOf
    /\ job' = [job EXCEPT ![j] = n]
    /\ UNCHANGED <<worldVars, cache, inFlight, caller, refreshed>>

LEMMA ReadCacheGoesOn ==
    ASSUME IInv, NEW j \in Jobs, ReadCache(j)
    PROVE  /\ j \notin Callers
           /\ \/ \E n : GoesOn(j, n)
              \/ job' = [job EXCEPT ![j] = Free] /\ UNCHANGED <<inFlight, caller, cache, refreshed>>
           /\ UNCHANGED logoMap
<1>0. Busy(j) /\ At(j, "lookup")
  BY AtIsBusy DEF ReadCache, Steps
<1>1. j \notin Callers
  BY <1>0 DEF IInv, StartersWait
<1>2. CASE cache[TypeOf(j)] = Missing
  <2> DEFINE n == [job[j] EXCEPT !.step = "provider"]
  <2>1. job[j] \in BusyJobs /\ Honest(job[j])
    BY <1>0, BusyType DEF IInv, LogosHonest
  <2>2. n \in BusyJobs /\ n.type = TypeOf(j) /\ n.step = "provider" /\ Honest(n)
    BY <2>1 DEF BusyJobs, Steps, TypeOf, Honest
  <2>3. job' = [job EXCEPT ![j] = n]
    BY <1>2 DEF ReadCache
  <2> QED BY <1>1, <2>2, <2>3 DEF GoesOn, ReadCache
<1>3. CASE cache[TypeOf(j)] # Missing
  BY <1>1, <1>3 DEF ReadCache
<1> QED BY <1>1, <1>2, <1>3 DEF ReadCache

LEMMA ProviderAnswersGoesOn ==
    ASSUME IInv, NEW j \in Jobs, ProviderAnswers(j)
    PROVE  (\E n : GoesOn(j, n)) /\ UNCHANGED logoMap
<1>0. Busy(j) /\ At(j, "provider")
  BY AtIsBusy DEF ProviderAnswers, Steps
<1> DEFINE step == IF TypeOf(j) = "trades" THEN "store" ELSE "names"
<1>1. PICK symbols \in Answers(TypeOf(j), job[j].country) :
        job' = [job EXCEPT
           ![j].step = step,
           ![j].country = "",
           ![j].asOf = IF j \in Callers THEN listed ELSE {},
           ![j].list = [s \in symbols |-> "unset"]]
  BY DEF ProviderAnswers
<1>2. listed \subseteq Symbols /\ symbols \subseteq Symbols
  BY AnswersAreListed DEF IInv, TypeOK
<1>3. [s \in symbols |-> "unset"] \in Lists
  BY <1>2, MakesList
<1>4. job[j] \in BusyJobs /\ Honest(job[j])
  BY <1>0, BusyType DEF IInv, LogosHonest
<1> DEFINE n == [job[j] EXCEPT !.step = step, !.country = "",
                   !.asOf = IF j \in Callers THEN listed ELSE {},
                   !.list = [s \in symbols |-> "unset"]]
<1>5. n \in BusyJobs
  BY <1>2, <1>3, <1>4, CacheAssumption DEF BusyJobs, Steps, CacheAssumption
<1>6. Honest(n)
  BY <1>4 DEF Honest, BusyJobs
<1>7. n.type = TypeOf(j) /\ n.step \in {"names", "store"} /\ (j \in Callers => n.asOf = listed)
  BY <1>4 DEF TypeOf, BusyJobs
<1>8. job' = [job EXCEPT ![j] = n]
  BY <1>1, <1>4 DEF IInv, TypeOK, BusyJobs
<1> HIDE DEF n
<1> QED BY <1>0, <1>5, <1>6, <1>7, <1>8 DEF GoesOn, ProviderAnswers

\* After the provider a job only changes its step, its list and its logos.
LEMMA Proceeds ==
    ASSUME IInv, NEW j \in Jobs, Busy(j), ~At(j, "provider"),
           NEW step \in Steps \ {"lookup", "provider"},
           NEW list \in Lists, NEW logos \in LogoMaps,
           \A s \in DOMAIN list : list[s] = "null" => keyless,
           \A s \in Symbols : logos[s] = "NOT_FOUND" => keyless,
           job' = [job EXCEPT ![j] =
                     [@ EXCEPT !.step = step, !.list = list, !.logos = logos]],
           UNCHANGED <<worldVars, cache, inFlight, caller, refreshed>>
    PROVE  \E n : GoesOn(j, n)
<1> DEFINE n == [job[j] EXCEPT !.step = step, !.list = list, !.logos = logos]
<1>1. job[j] \in BusyJobs
  BY BusyType DEF IInv
<1>2. /\ n \in BusyJobs /\ n.type = TypeOf(j) /\ n.step = step /\ n.asOf = job[j].asOf
      /\ n.list = list /\ n.logos = logos
  BY <1>1 DEF BusyJobs, TypeOf
<1>3. job' = [job EXCEPT ![j] = n]
  BY DEF IInv, TypeOK
<1> HIDE DEF n
<1>4. Honest(n)
  BY <1>2 DEF Honest
<1> QED BY <1>2, <1>3, <1>4 DEF GoesOn

\* What a busy job has.
LEMMA JobParts ==
    ASSUME IInv, NEW j \in Jobs, Busy(j)
    PROVE  /\ job[j].list \in Lists /\ job[j].logos \in LogoMaps
           /\ logoMap \in LogoMaps
           /\ Honest(job[j])
           /\ job[j] = [job[j] EXCEPT !.list = job[j].list]
           /\ job[j] = [job[j] EXCEPT !.logos = job[j].logos]
           /\ \A step, list : [job[j] EXCEPT !.step = step, !.list = list]
                = [job[j] EXCEPT !.step = step, !.list = list, !.logos = job[j].logos]
           /\ \A step : [job[j] EXCEPT !.step = step]
                = [job[j] EXCEPT !.step = step, !.list = job[j].list, !.logos = job[j].logos]
<1>1. job[j] \in BusyJobs
  BY BusyType DEF IInv
<1> QED BY <1>1 DEF BusyJobs, IInv, TypeOK, LogosHonest

LEMMA ReadNamesGoesOn ==
    ASSUME IInv, NEW j \in Jobs, ReadNames(j)
    PROVE  (\E n : GoesOn(j, n)) /\ UNCHANGED logoMap
<1>1. Busy(j) /\ ~At(j, "provider")
  BY AtIsBusy DEF ReadNames, Steps, At
<1> DEFINE step == IF NeedsLogos(TypeOf(j), job[j].list) THEN "logos" ELSE "store"
<1>2. step \in Steps \ {"lookup", "provider"}
  BY DEF Steps
<1>3. job' = [job EXCEPT ![j] = [@ EXCEPT !.step = step]]
  BY DEF ReadNames, TypeOf, IInv, TypeOK
<1> HIDE DEF step
<1>4. job' = [job EXCEPT ![j] =
        [@ EXCEPT !.step = step, !.list = job[j].list, !.logos = job[j].logos]]
  BY <1>1, <1>3, JobParts DEF IInv, TypeOK
<1>5. /\ job[j].list \in Lists /\ \A s \in DOMAIN job[j].list : job[j].list[s] = "null" => keyless
      /\ job[j].logos \in LogoMaps
      /\ \A s \in Symbols : job[j].logos[s] = "NOT_FOUND" => keyless
  BY <1>1, JobParts DEF Honest
<1>6. UNCHANGED <<worldVars, cache, logoMap, inFlight, caller, refreshed>>
  BY DEF ReadNames
<1> QED BY <1>1, <1>2, <1>4, <1>5, <1>6, Proceeds

LEMMA LogoOfHonest ==
    ASSUME NEW map \in LogoMaps, \A s \in Symbols : map[s] = "NOT_FOUND" => keyless,
           NEW s \in Symbols, LogoOf(map[s]) = "null"
    PROVE  keyless
BY DEF LogoOf, LogoMaps

LEMMA CompletedHonest ==
    ASSUME IInv, NEW symbols, NEW s \in Symbols, Completed(logoMap, symbols)[s] = "NOT_FOUND"
    PROVE  keyless
BY DEF Completed, Generated, IInv, LogosHonest

LEMMA ReadLogosGoesOn ==
    ASSUME IInv, NEW j \in Jobs, ReadLogos(j)
    PROVE  (\E n : GoesOn(j, n)) /\ UNCHANGED logoMap
<1>1. Busy(j) /\ ~At(j, "provider")
  BY AtIsBusy DEF ReadLogos, Steps, At
<1> DEFINE logo == [s \in Symbols |-> LogoOf(logoMap[s])]
           list == WithLogos(job[j].list, logo)
           step == IF Unset(list) = {} THEN "store" ELSE "merge"
<1>2. step \in Steps \ {"lookup", "provider"}
  BY DEF Steps
<1>3. list \in Lists
  BY <1>1, JobParts, LogosType, WithLogosType
<1>4. \A s \in DOMAIN list : list[s] = "null" => keyless
  <2>1. \A s \in Symbols : logo[s] = "null" => keyless
    BY <1>1, JobParts, LogoOfHonest DEF IInv, LogosHonest
  <2> HIDE DEF logo
  <2> QED BY <1>1, <2>1, JobParts, ListsType DEF WithLogos, Honest
<1>5. job' = [job EXCEPT ![j] = [@ EXCEPT !.step = step, !.list = list]]
  BY <1>1, BusyType DEF ReadLogos, IInv, TypeOK, BusyJobs
<1> HIDE DEF step, list
<1>6. job' = [job EXCEPT ![j] =
        [@ EXCEPT !.step = step, !.list = list, !.logos = job[j].logos]]
  <2>1. [job[j] EXCEPT !.step = step, !.list = list]
          = [job[j] EXCEPT !.step = step, !.list = list, !.logos = job[j].logos]
    BY <1>1, JobParts
  <2> QED BY <1>5, <2>1
<1>7. job[j].logos \in LogoMaps /\ \A s \in Symbols : job[j].logos[s] = "NOT_FOUND" => keyless
  BY <1>1, JobParts DEF Honest
<1>8. UNCHANGED <<worldVars, cache, logoMap, inFlight, caller, refreshed>>
  BY DEF ReadLogos
<1> QED BY <1>1, <1>2, <1>3, <1>4, <1>6, <1>7, <1>8, Proceeds

LEMMA MergeLogosGoesOn ==
    ASSUME IInv, NEW j \in Jobs, MergeLogos(j)
    PROVE  (\E n : GoesOn(j, n)) /\ UNCHANGED logoMap
<1>1. Busy(j) /\ ~At(j, "provider")
  BY AtIsBusy DEF MergeLogos, Steps, At
<1> DEFINE targets == Unset(job[j].list)
           logos == Completed(logoMap, targets)
           list == WithLogos(job[j].list, StockLogos(targets))
           step == IF logos # logoMap THEN "save" ELSE "store"
<1>2. step \in Steps \ {"lookup", "provider"}
  BY DEF Steps
<1>3. logos \in LogoMaps /\ \A s \in Symbols : logos[s] = "NOT_FOUND" => keyless
  BY <1>1, JobParts, CompletedType, CompletedHonest
<1>4. \A s \in Symbols : /\ StockLogos(targets)[s] \in {"unset", "null", "url"}
                         /\ StockLogos(targets)[s] = "null" => keyless
  BY <1>3, LogosType, LogoOfHonest DEF StockLogos
<1>5. list \in Lists
  BY <1>1, <1>4, JobParts, WithLogosType
<1>6. \A s \in DOMAIN list : list[s] = "null" => keyless
  BY <1>1, <1>4, JobParts, ListsType DEF WithLogos, Honest
<1>7. job' = [job EXCEPT ![j] = [@ EXCEPT !.step = step, !.list = list, !.logos = logos]]
  BY <1>1, BusyType DEF MergeLogos, IInv, TypeOK, BusyJobs
<1> HIDE DEF step, list, logos
<1>8. UNCHANGED <<worldVars, cache, logoMap, inFlight, caller, refreshed>>
  BY DEF MergeLogos
<1> QED BY <1>1, <1>2, <1>3, <1>5, <1>6, <1>7, <1>8, Proceeds

LEMMA NoLogosHonest ==
    NoLogos \in LogoMaps /\ \A s \in Symbols : NoLogos[s] # "NOT_FOUND"
BY DEF NoLogos, LogoMaps

LEMMA SaveLogosGoesOn ==
    ASSUME IInv, NEW j \in Jobs, SaveLogos(j)
    PROVE  (\E n : GoesOn(j, n)) /\ logoMap' = job[j].logos /\ Busy(j)
<1>1. Busy(j) /\ ~At(j, "provider")
  BY AtIsBusy DEF SaveLogos, Steps, At
<1>2. "store" \in Steps \ {"lookup", "provider"}
  BY DEF Steps
<1>3. job' = [job EXCEPT ![j] = [@ EXCEPT !.step = "store", !.list = job[j].list, !.logos = NoLogos]]
  BY <1>1, BusyType DEF SaveLogos, IInv, TypeOK, BusyJobs
<1>4. job[j].list \in Lists /\ \A s \in DOMAIN job[j].list : job[j].list[s] = "null" => keyless
  BY <1>1, JobParts DEF Honest
<1>5. UNCHANGED <<worldVars, cache, inFlight, caller, refreshed>> /\ logoMap' = job[j].logos
  BY DEF SaveLogos
<1> QED BY <1>1, <1>2, <1>3, <1>4, <1>5, NoLogosHonest, Proceeds

LEMMA LogosFailGoesOn ==
    ASSUME IInv, NEW j \in Jobs, LogosFail(j)
    PROVE  (\E n : GoesOn(j, n)) /\ UNCHANGED logoMap
<1>1. Busy(j) /\ ~At(j, "provider")
  BY AtIsBusy DEF LogosFail, Steps, At
<1> DEFINE list == [s \in DOMAIN job[j].list |-> "unset"]
<1>2. "store" \in Steps \ {"lookup", "provider"}
  BY DEF Steps
<1>3. list \in Lists
  BY <1>1, JobParts, ListsType, MakesList
<1>4. job' = [job EXCEPT ![j] = [@ EXCEPT !.step = "store", !.list = list, !.logos = NoLogos]]
  BY <1>1, BusyType DEF LogosFail, IInv, TypeOK, BusyJobs
<1>5. \A s \in DOMAIN list : list[s] # "null"
  OBVIOUS
<1> HIDE DEF list
<1>6. UNCHANGED <<worldVars, cache, logoMap, inFlight, caller, refreshed>>
  BY DEF LogosFail
<1> QED BY <1>1, <1>2, <1>3, <1>4, <1>5, <1>6, NoLogosHonest, Proceeds

-----------------------------------------------------------------------------
(* What each kind of step preserves *)

\* A job that goes on, with whatever it does to the map of logos.
LEMMA GoesOnKeepsIInv ==
    ASSUME IInv, NEW j \in Jobs, Busy(j), NEW n, GoesOn(j, n),
           \/ UNCHANGED logoMap
           \/ logoMap' = job[j].logos
    PROVE  IInv'
<1> USE DEF IInv
<1>0. /\ job' \in [Jobs -> BusyJobs \cup {Free}] /\ job'[j] = n
      /\ \A k \in Jobs \ {j} : job'[k] = job[k]
      /\ n # Free /\ n.step # "lookup" /\ n.type = TypeOf(j) /\ n \in BusyJobs
      /\ UNCHANGED <<assetType, listed, apiKey, restarts, keyless, cache, inFlight, caller, refreshed>>
      /\ Honest(n)
      /\ j \in Callers => /\ n.step # "provider"
                          /\ n.asOf = IF At(j, "provider") THEN listed ELSE job[j].asOf
  BY DEF GoesOn, TypeOK, BusyJobs, Free, Steps, worldVars
<1>1. logoMap' \in LogoMaps /\ \A s \in Symbols : logoMap'[s] = "NOT_FOUND" => keyless
  BY JobParts DEF Honest, TypeOK, LogosHonest
<1>2. TypeOK'
  BY <1>0, <1>1 DEF TypeOK
<1>3. \A k \in Jobs : Busy(k)' = Busy(k) /\ TypeOf(k)' = TypeOf(k)
  BY <1>0 DEF Busy, TypeOf
<1>4. InFlightIsExact'
  BY <1>0, <1>3 DEF InFlightIsExact, Jobs
<1>5. StartersWait'
  BY <1>0, <1>3 DEF StartersWait, Jobs, At
<1>6. RefreshOrder'
  <2>1. \A d \in DataTypes : refreshed'[d] \subseteq listed'
    BY <1>0 DEF RefreshOrder
  <2>2. ASSUME NEW c \in Callers, Busy(c)', ~At(c, "provider")'
        PROVE  refreshed'[TypeOf(c)'] \subseteq job'[c].asOf /\ job'[c].asOf \subseteq listed'
    <3>1. CASE c # j
      BY <1>0, <1>3, <2>2, <3>1 DEF RefreshOrder, Jobs, At
    <3>2. CASE c = j /\ At(j, "provider")
      <4>1. TypeOf(j) \in DataTypes
        BY BusyType DEF BusyJobs, TypeOf
      <4> QED BY <1>0, <1>3, <2>2, <3>2, <4>1 DEF RefreshOrder
    <3>3. CASE c = j /\ ~At(j, "provider")
      BY <1>0, <1>3, <2>2, <3>3 DEF RefreshOrder
    <3> QED BY <3>1, <3>2, <3>3
  <2> QED BY <2>1, <2>2 DEF RefreshOrder
<1>7. LogosHonest'
  <2>1. ASSUME NEW k \in Jobs, Busy(k)' PROVE Honest(job[k])'
    <3>1. CASE k = j
      BY <1>0, <3>1 DEF Honest
    <3>2. CASE k # j
      BY <1>0, <1>3, <2>1, <3>2 DEF Honest, LogosHonest
    <3> QED BY <3>1, <3>2
  <2> QED BY <1>0, <1>1, <2>1 DEF LogosHonest, LogosAreExplained
<1> QED BY <1>2, <1>4, <1>5, <1>6, <1>7

\* A job that is over, also as somebody's refresh.
LEMMA FreedKeepsJobs ==
    ASSUME IInv, NEW j \in Jobs, Busy(j), job' = [job EXCEPT ![j] = Free],
           IF j \in Callers THEN EndRefresh(j) ELSE UNCHANGED <<inFlight, caller>>
    PROVE  /\ job' \in [Jobs -> BusyJobs \cup {Free}]
           /\ inFlight' \in [DataTypes -> Callers \cup {NoJob}]
           /\ caller' \in [Callers -> [todo : Seq(DataTypes), awaits : Callers \cup {NoJob}]]
           /\ \A k \in Jobs : Busy(k)' <=> Busy(k) /\ k # j
           /\ \A k \in Jobs \ {j} : job'[k] = job[k]
           /\ InFlightIsExact'
           /\ StartersWait'
<1> USE DEF IInv
<1>1. /\ job' \in [Jobs -> BusyJobs \cup {Free}]
      /\ \A k \in Jobs : Busy(k)' <=> Busy(k) /\ k # j
      /\ \A k \in Jobs \ {j} : job'[k] = job[k]
  BY DEF TypeOK, Busy
<1>2. CASE j \notin Callers
  <2>1. UNCHANGED <<inFlight, caller>> /\ \A c \in Callers : job'[c] = job[c]
    BY <1>1, <1>2 DEF Jobs
  <2>2. InFlightIsExact'
    BY <1>1, <1>2, <2>1 DEF InFlightIsExact, Jobs, TypeOf
  <2>3. StartersWait'
    BY <1>1, <1>2, <2>1 DEF StartersWait, Jobs, At
  <2> QED BY <1>1, <2>1, <2>2, <2>3 DEF TypeOK
<1>3. CASE j \in Callers
  <2> DEFINE d == TypeOf(j)
  <2>1. d \in DataTypes /\ inFlight[d] = j /\ j # NoJob
    BY <1>3, BusyType, CacheAssumption DEF BusyJobs, TypeOf, InFlightIsExact, CacheAssumption
  <2>2. inFlight' = [inFlight EXCEPT ![d] = NoJob]
    BY <1>3 DEF EndRefresh
  <2>3. /\ caller' \in [Callers -> [todo : Seq(DataTypes), awaits : Callers \cup {NoJob}]]
        /\ \A k \in Callers :
             IF caller[k].awaits = j THEN caller'[k].awaits = NoJob ELSE caller'[k] = caller[k]
    <3>1. caller' = [k \in Callers |->
            IF caller[k].awaits = j THEN Calls(Tail(caller[k].todo)) ELSE caller[k]]
      BY <1>3 DEF EndRefresh
    <3>2. \A k \in Callers : caller[k].awaits = j => Tail(caller[k].todo) \in Seq(DataTypes)
      <4> TAKE k \in Callers
      <4> HAVE caller[k].awaits = j
      <4>1. caller[k].todo # <<>> /\ caller[k].todo \in Seq(DataTypes)
        BY <2>1 DEF InFlightIsExact, TypeOK
      <4> QED BY <4>1
    <3> QED BY <3>1, <3>2 DEF Calls, TypeOK
  <2>4. InFlightIsExact'
    <3>1. ASSUME NEW e \in DataTypes, NEW c \in Callers
          PROVE  inFlight'[e] = c <=> Busy(c)' /\ TypeOf(c)' = e
      <4>1. CASE c = j
        BY <1>1, <2>1, <2>2, <4>1, CacheAssumption
          DEF InFlightIsExact, Jobs, TypeOK, TypeOf, CacheAssumption
      <4>2. CASE c # j
        <5>1. job'[c] = job[c] /\ c # NoJob /\ (Busy(c)' <=> Busy(c))
          BY <1>1, <4>2, CacheAssumption DEF Jobs, CacheAssumption
        <5>2. CASE e = d
          BY <2>1, <2>2, <4>2, <5>1, <5>2 DEF InFlightIsExact, TypeOf, TypeOK
        <5>3. CASE e # d
          BY <2>1, <2>2, <4>2, <5>1, <5>3 DEF InFlightIsExact, TypeOf, TypeOK
        <5> QED BY <5>2, <5>3
      <4> QED BY <4>1, <4>2
    <3>2. ASSUME NEW c \in Callers, caller'[c].awaits # NoJob
          PROVE  caller'[c].todo # <<>> /\ inFlight'[Head(caller'[c].todo)] = caller'[c].awaits
      <4>1. caller'[c] = caller[c] /\ caller[c].awaits # j
        BY <2>3, <3>2
      <4>2. caller[c].todo # <<>> /\ inFlight[Head(caller[c].todo)] = caller[c].awaits
        BY <3>2, <4>1 DEF InFlightIsExact
      <4>3. caller[c].todo \in Seq(DataTypes)
        BY DEF TypeOK
      <4>4. Head(caller[c].todo) \in DataTypes
        BY <4>2, <4>3
      <4> QED BY <2>1, <2>2, <4>1, <4>2, <4>4 DEF TypeOK
    <3> QED BY <3>1, <3>2 DEF InFlightIsExact
  <2>5. StartersWait'
    BY <1>1, <2>3 DEF StartersWait, Jobs, At
  <2>6. inFlight' \in [DataTypes -> Callers \cup {NoJob}]
    BY <2>2 DEF TypeOK
  <2> QED BY <1>1, <2>3, <2>4, <2>5, <2>6
<1> QED BY <1>2, <1>3

\* The end of a job that stores nothing.
LEMMA FreedKeepsIInv ==
    ASSUME IInv, NEW j \in Jobs, Busy(j), job' = [job EXCEPT ![j] = Free],
           IF j \in Callers THEN EndRefresh(j) ELSE UNCHANGED <<inFlight, caller>>,
           UNCHANGED <<worldVars, cache, logoMap, refreshed>>
    PROVE  IInv'
<1> USE DEF IInv
<1>1. UNCHANGED <<assetType, listed, apiKey, restarts, keyless, cache, logoMap, refreshed>>
  BY DEF worldVars
<1>2. TypeOK'
  BY <1>1, FreedKeepsJobs DEF TypeOK
<1>3. RefreshOrder'
  BY <1>1, FreedKeepsJobs DEF RefreshOrder, Jobs, At, TypeOf
<1>4. LogosHonest'
  BY <1>1, FreedKeepsJobs DEF LogosHonest, Honest, LogosAreExplained
<1> QED BY <1>2, <1>3, <1>4, FreedKeepsJobs

LEMMA StoreKeepsIInv ==
    ASSUME IInv, NEW j \in Jobs, Store(j)
    PROVE  IInv'
<1> USE DEF IInv
<1> DEFINE d == TypeOf(j)
<1>0. Busy(j) /\ At(j, "store") /\ job[j] \in BusyJobs
  BY AtIsBusy, BusyType DEF Store, Steps
<1>1. /\ job' = [job EXCEPT ![j] = Free]
      /\ IF j \in Callers THEN EndRefresh(j) ELSE UNCHANGED <<inFlight, caller>>
      /\ UNCHANGED <<assetType, listed, apiKey, restarts, keyless, logoMap>>
      /\ cache' = [cache EXCEPT ![d] = job[j].list]
      /\ refreshed' = IF j \in Callers THEN [refreshed EXCEPT ![d] = job[j].asOf] ELSE refreshed
  BY DEF Store, End, worldVars
<1>2. d \in DataTypes /\ job[j].list \in Lists /\ job[j].asOf \in SUBSET Symbols
  BY <1>0 DEF BusyJobs, TypeOf
<1>3. TypeOK'
  BY <1>0, <1>1, <1>2, FreedKeepsJobs DEF TypeOK
<1>4. RefreshOrder'
  <2>1. j \in Callers => refreshed[d] \subseteq job[j].asOf /\ job[j].asOf \subseteq listed
    BY <1>0 DEF RefreshOrder, At
  <2>2. \A e \in DataTypes : refreshed'[e] \subseteq listed
    BY <1>1, <1>2, <2>1 DEF RefreshOrder, TypeOK
  <2>3. ASSUME NEW c \in Callers, Busy(c)', ~At(c, "provider")'
        PROVE  refreshed'[TypeOf(c)'] \subseteq job'[c].asOf /\ job'[c].asOf \subseteq listed'
    <3>1. Busy(c) /\ c # j /\ job'[c] = job[c] /\ ~At(c, "provider") /\ TypeOf(c)' = TypeOf(c)
      BY <1>0, <1>1, <2>3, FreedKeepsJobs DEF Jobs, At, TypeOf
    <3>2. j \in Callers => TypeOf(c) # d
      BY <1>0, <1>2, <3>1 DEF InFlightIsExact
    <3> QED BY <1>1, <3>1, <3>2 DEF RefreshOrder, TypeOK
  <2> QED BY <1>1, <2>2, <2>3 DEF RefreshOrder
<1>5. LogosHonest'
  <2>1. \A k \in Jobs : Busy(k)' => Honest(job[k])'
    BY <1>0, <1>1, FreedKeepsJobs DEF LogosHonest, Honest
  <2>2. LogosAreExplained'
    BY <1>0, <1>1, <1>2 DEF LogosHonest, Honest, LogosAreExplained, TypeOK
  <2> QED BY <1>1, <2>1, <2>2 DEF LogosHonest
<1> QED BY <1>0, <1>1, <1>3, <1>4, <1>5, FreedKeepsJobs

LEMMA JobStepKeepsIInv ==
    ASSUME IInv, NEW j \in Jobs, JobStep(j)
    PROVE  IInv'
<1>0. Busy(j)
  BY DEF JobStep
<1>1. CASE ReadCache(j)
  BY <1>0, <1>1, ReadCacheGoesOn, GoesOnKeepsIInv, FreedKeepsIInv DEF ReadCache
<1>2. CASE CacheFails(j)
  BY <1>0, <1>2, FreedKeepsIInv DEF CacheFails, Fail, End
<1>3. CASE ProviderAnswers(j)
  BY <1>0, <1>3, ProviderAnswersGoesOn, GoesOnKeepsIInv
<1>4. CASE ProviderRejects(j)
  BY <1>0, <1>4, FreedKeepsIInv DEF ProviderRejects, Fail, End
<1>5. CASE ReadNames(j)
  BY <1>0, <1>5, ReadNamesGoesOn, GoesOnKeepsIInv
<1>6. CASE ReadLogos(j)
  BY <1>0, <1>6, ReadLogosGoesOn, GoesOnKeepsIInv
<1>7. CASE MergeLogos(j)
  BY <1>0, <1>7, MergeLogosGoesOn, GoesOnKeepsIInv
<1>8. CASE SaveLogos(j)
  BY <1>0, <1>8, SaveLogosGoesOn, GoesOnKeepsIInv
<1>9. CASE LogosFail(j)
  BY <1>0, <1>9, LogosFailGoesOn, GoesOnKeepsIInv
<1>10. CASE Store(j)
  BY <1>10, StoreKeepsIInv
<1> QED BY <1>1, <1>2, <1>3, <1>4, <1>5, <1>6, <1>7, <1>8, <1>9, <1>10 DEF JobStep

-----------------------------------------------------------------------------
(* Callers, requests, and the world *)

\* What a step that changes callers only keeps.
LEMMA SameJobs ==
    ASSUME IInv, UNCHANGED <<worldVars, cache, logoMap, inFlight, job, refreshed>>
    PROVE  RefreshOrder' /\ LogosHonest'
           /\ \A c \in Callers : Busy(c)' = Busy(c) /\ TypeOf(c)' = TypeOf(c)
                                 /\ At(c, "lookup")' = At(c, "lookup")
BY DEF worldVars, IInv, RefreshOrder, LogosHonest, Honest, LogosAreExplained, At, TypeOf, Busy

LEMMA TickKeepsIInv ==
    ASSUME IInv, NEW t \in Ticks, NEW interval \in Intervals, Tick(t, interval)
    PROVE  IInv'
<1> USE DEF IInv
<1>1. t \in Callers /\ t # NoJob
  BY CacheAssumption DEF Callers, Jobs, CacheAssumption
<1>2. Bucket(interval) \in Seq(DataTypes)
  BY CacheAssumption DEF CacheAssumption
<1>3. /\ caller' = [caller EXCEPT ![t] = Calls(Bucket(interval))]
      /\ UNCHANGED <<worldVars, cache, logoMap, inFlight, job, refreshed>>
      /\ caller[t].awaits = NoJob
  BY DEF Tick, Calls
<1>4. TypeOK'
  BY <1>1, <1>2, <1>3 DEF TypeOK, Calls, worldVars
<1>5. InFlightIsExact'
  BY <1>1, <1>3, SameJobs DEF InFlightIsExact, TypeOK, Calls
<1>6. StartersWait'
  BY <1>1, <1>3, SameJobs DEF StartersWait, TypeOK, Calls
<1> QED BY <1>3, <1>4, <1>5, <1>6, SameJobs

LEMMA HeadType ==
    ASSUME TypeOK, NEW c \in Callers, caller[c].todo # <<>>
    PROVE  Head(caller[c].todo) \in DataTypes
<1>1. caller[c].todo \in Seq(DataTypes)
  BY DEF TypeOK
<1> QED BY <1>1

\* An entry of inFlight is a refresh that runs, so that whoever joins it awaits it.
LEMMA JoinAwaits ==
    ASSUME IInv, NEW c \in Callers, JoinRefresh(c)
    PROVE  /\ UnderWay(Head(caller[c].todo)) \in Callers
           /\ caller' = [caller EXCEPT ![c].awaits = UnderWay(Head(caller[c].todo))]
<1> DEFINE d == Head(caller[c].todo)
           r == UnderWay(d)
<1>1. d \in DataTypes
  BY HeadType DEF IInv, JoinRefresh, Calling
<1>2. r \in Callers /\ r = inFlight[d]
  BY <1>1 DEF JoinRefresh, UnderWay, IInv, TypeOK
<1>3. Busy(r) /\ TypeOf(r) = d
  BY <1>1, <1>2 DEF IInv, InFlightIsExact
<1>4. caller' = [caller EXCEPT ![c] = IF Busy(r) /\ TypeOf(r) = d THEN [@ EXCEPT !.awaits = r]
                                     ELSE Calls(Tail(@.todo))]
  BY DEF JoinRefresh
<1> HIDE DEF d, r
<1>5. caller' = [caller EXCEPT ![c] = [caller[c] EXCEPT !.awaits = r]]
  BY <1>3, <1>4
<1>6. caller' = [caller EXCEPT ![c].awaits = r]
  BY <1>5 DEF IInv, TypeOK
<1> QED BY <1>2, <1>6 DEF d, r

LEMMA JoinKeepsIInv ==
    ASSUME IInv, NEW c \in Callers, JoinRefresh(c)
    PROVE  IInv'
<1> USE DEF IInv
<1> DEFINE r == UnderWay(Head(caller[c].todo))
<1>1. r \in Callers \cup {NoJob} /\ r # NoJob
  BY JoinAwaits DEF JoinRefresh
<1>2. /\ caller' = [caller EXCEPT ![c].awaits = r]
      /\ UNCHANGED <<worldVars, cache, logoMap, inFlight, job, refreshed>>
      /\ caller[c].awaits = NoJob /\ caller[c].todo # <<>>
  BY JoinAwaits DEF JoinRefresh, Calling
<1>3. r = inFlight[Head(caller[c].todo)]
  BY DEF UnderWay
<1> HIDE DEF r
<1>4. TypeOK'
  BY <1>1, <1>2 DEF TypeOK, worldVars
<1>5. /\ \A k \in Callers \ {c} : caller'[k] = caller[k]
      /\ caller'[c].todo = caller[c].todo /\ caller'[c].awaits = r
  BY <1>2 DEF TypeOK
<1>6. InFlightIsExact'
  BY <1>1, <1>2, <1>3, <1>5, SameJobs DEF InFlightIsExact
<1>7. StartersWait'
  <2>1. c # NoJob
    BY CacheAssumption DEF CacheAssumption, Jobs
  <2> QED BY <1>2, <1>5, <2>1, SameJobs DEF StartersWait
<1> QED BY <1>2, <1>4, <1>6, <1>7, SameJobs

\* A new job, of a caller or of a client.
LEMMA StartedJob ==
    ASSUME IInv, NEW j \in Jobs, ~Busy(j), NEW d \in DataTypes, NEW country \in Countries,
           NEW step \in {"lookup", "provider"},
           job' = [job EXCEPT ![j] = NewJob(d, step, country)],
           UNCHANGED <<worldVars, cache, logoMap, refreshed>>
    PROVE  /\ job' \in [Jobs -> BusyJobs \cup {Free}]
           /\ \A k \in Jobs : Busy(k)' <=> Busy(k) \/ k = j
           /\ \A k \in Jobs \ {j} : job'[k] = job[k]
           /\ TypeOf(j)' = d /\ job'[j].step = step
           /\ j \notin Callers \/ step = "provider" => RefreshOrder'
           /\ LogosHonest'
<1> USE DEF IInv
<1>1. /\ NewJob(d, step, country) \in BusyJobs
      /\ NewJob(d, step, country) # Free
      /\ NewJob(d, step, country).type = d
      /\ NewJob(d, step, country).step = step
      /\ Honest(NewJob(d, step, country))
  <2>1. step \in Steps
    BY DEF Steps
  <2> QED BY <2>1, NewJobType, NoLogosHonest DEF NewJob, Free, Honest
<1>2. /\ job' \in [Jobs -> BusyJobs \cup {Free}]
      /\ \A k \in Jobs : Busy(k)' <=> Busy(k) \/ k = j
      /\ \A k \in Jobs \ {j} : job'[k] = job[k]
      /\ job'[j] = NewJob(d, step, country)
  BY <1>1 DEF TypeOK, Busy
<1>3. j \notin Callers \/ step = "provider" => RefreshOrder'
  BY <1>1, <1>2 DEF RefreshOrder, Jobs, At, TypeOf, worldVars
<1>4. LogosHonest'
  BY <1>1, <1>2 DEF LogosHonest, Honest, LogosAreExplained, worldVars
<1> QED BY <1>1, <1>2, <1>3, <1>4 DEF TypeOf

LEMMA StartKeepsIInv ==
    ASSUME IInv, NEW c \in Callers, StartRefresh(c)
    PROVE  IInv'
<1> USE DEF IInv
<1> DEFINE d == Head(caller[c].todo)
<1>1. /\ inFlight' = [inFlight EXCEPT ![d] = c]
      /\ job' = [job EXCEPT ![c] = NewJob(d, "provider", "")]
      /\ caller' = [caller EXCEPT ![c].awaits = c]
      /\ UNCHANGED <<worldVars, cache, logoMap, refreshed>>
      /\ caller[c].awaits = NoJob /\ caller[c].todo # <<>> /\ inFlight[d] = NoJob
  BY DEF StartRefresh, Calling, UnderWay
<1>2. d \in DataTypes /\ c # NoJob /\ c \in Jobs /\ "" \in Countries
  BY <1>1, HeadType, CacheAssumption DEF CacheAssumption, Jobs
<1>3. ~Busy(c)
  BY <1>1, <1>2 DEF StartersWait
<1>4. /\ job' \in [Jobs -> BusyJobs \cup {Free}]
      /\ \A k \in Jobs : Busy(k)' <=> Busy(k) \/ k = c
      /\ \A k \in Jobs \ {c} : job'[k] = job[k]
      /\ TypeOf(c)' = d /\ job'[c].step = "provider"
      /\ RefreshOrder' /\ LogosHonest'
  BY <1>1, <1>2, <1>3, StartedJob
<1>5. /\ \A k \in Callers \ {c} : caller'[k] = caller[k]
      /\ caller'[c].todo = caller[c].todo /\ caller'[c].awaits = c
      /\ caller' \in [Callers -> [todo : Seq(DataTypes), awaits : Callers \cup {NoJob}]]
      /\ inFlight' \in [DataTypes -> Callers \cup {NoJob}]
      /\ inFlight'[d] = c /\ \A e \in DataTypes \ {d} : inFlight'[e] = inFlight[e]
  BY <1>1, <1>2 DEF TypeOK
<1>6. TypeOK'
  BY <1>1, <1>4, <1>5 DEF TypeOK, worldVars
<1> HIDE DEF d
<1>7. InFlightIsExact'
  <2>1. ASSUME NEW e \in DataTypes, NEW k \in Callers
        PROVE  inFlight'[e] = k <=> Busy(k)' /\ TypeOf(k)' = e
    <3>1. CASE k = c
      BY <1>2, <1>3, <1>4, <1>5, <3>1 DEF InFlightIsExact, Jobs
    <3>2. CASE k # c
      <4>1. k # NoJob /\ TypeOf(k)' = TypeOf(k) /\ (Busy(k)' <=> Busy(k))
        BY <1>4, <3>2, CacheAssumption DEF CacheAssumption, Jobs, TypeOf
      <4>2. inFlight[e] = k <=> Busy(k) /\ TypeOf(k) = e
        BY DEF InFlightIsExact
      <4>3. inFlight'[e] = k <=> inFlight[e] = k
        BY <1>1, <1>5, <3>2, <4>1
      <4> QED BY <4>1, <4>2, <4>3
    <3> QED BY <3>1, <3>2
  <2>2. ASSUME NEW k \in Callers, caller'[k].awaits # NoJob
        PROVE  caller'[k].todo # <<>> /\ inFlight'[Head(caller'[k].todo)] = caller'[k].awaits
    <3>1. CASE k = c
      BY <1>1, <1>5, <3>1 DEF d
    <3>2. CASE k # c
      <4>1. caller[k].todo # <<>> /\ inFlight[Head(caller[k].todo)] = caller[k].awaits
        BY <1>5, <2>2, <3>2 DEF InFlightIsExact
      <4>2. Head(caller[k].todo) \in DataTypes
        BY <4>1, HeadType
      <4> QED BY <1>1, <1>5, <2>2, <3>2, <4>1, <4>2
    <3> QED BY <3>1, <3>2
  <2> QED BY <2>1, <2>2 DEF InFlightIsExact
<1>8. StartersWait'
  BY <1>4, <1>5 DEF StartersWait, Jobs, At
<1> QED BY <1>4, <1>6, <1>7, <1>8

LEMMA RequestKeepsIInv ==
    ASSUME IInv, NEW r \in Requests, NEW d \in DataTypes, NEW country \in Countries,
           Request(r, d, country)
    PROVE  IInv'
<1> USE DEF IInv
<1>1. /\ job' = [job EXCEPT ![r] = NewJob(d, "lookup", country)]
      /\ UNCHANGED <<worldVars, cache, logoMap, inFlight, caller, refreshed>>
      /\ ~Busy(r) /\ r \in Jobs /\ r \notin Callers
  BY CacheAssumption DEF Request, CacheAssumption, Jobs
<1>2. /\ job' \in [Jobs -> BusyJobs \cup {Free}]
      /\ \A k \in Jobs : Busy(k)' <=> Busy(k) \/ k = r
      /\ \A k \in Jobs \ {r} : job'[k] = job[k]
      /\ RefreshOrder' /\ LogosHonest'
  BY <1>1, StartedJob
<1>3. TypeOK'
  BY <1>1, <1>2 DEF TypeOK, worldVars
<1>4. \A c \in Callers : job'[c] = job[c] /\ (Busy(c)' <=> Busy(c))
  BY <1>1, <1>2 DEF Jobs
<1>5. InFlightIsExact'
  BY <1>1, <1>4 DEF InFlightIsExact, TypeOf
<1>6. StartersWait'
  BY <1>1, <1>4 DEF StartersWait, At
<1> QED BY <1>2, <1>3, <1>5, <1>6

LEMMA WorldKeepsIInv ==
    ASSUME IInv,
           \/ \E d \in DataTypes : Expire(d)
           \/ ExpireLogos
           \/ \E s \in Symbols : ListSymbol(s)
    PROVE  IInv'
<1> USE DEF IInv
<1>1. ASSUME NEW d \in DataTypes, Expire(d) PROVE IInv'
  <2> USE <1>1 DEF Expire, worldVars
  <2>1. TypeOK' BY DEF TypeOK
  <2>2. InFlightIsExact' /\ StartersWait' /\ RefreshOrder'
    BY DEF InFlightIsExact, StartersWait, RefreshOrder, Busy, TypeOf, At
  <2>3. LogosHonest' BY DEF LogosHonest, Honest, LogosAreExplained, Busy, TypeOK
  <2> QED BY <2>1, <2>2, <2>3
<1>2. CASE ExpireLogos
  <2> USE <1>2 DEF ExpireLogos, worldVars
  <2>1. TypeOK' BY NoLogosHonest DEF TypeOK
  <2>2. InFlightIsExact' /\ StartersWait' /\ RefreshOrder'
    BY DEF InFlightIsExact, StartersWait, RefreshOrder, Busy, TypeOf, At
  <2>3. LogosHonest' BY NoLogosHonest DEF LogosHonest, Honest, LogosAreExplained, Busy
  <2> QED BY <2>1, <2>2, <2>3
<1>3. ASSUME NEW s \in Symbols, ListSymbol(s) PROVE IInv'
  <2> USE <1>3 DEF ListSymbol
  <2>1. TypeOK' BY DEF TypeOK
  <2>2. InFlightIsExact' /\ StartersWait'
    BY DEF InFlightIsExact, StartersWait, Busy, TypeOf, At
  <2>3. RefreshOrder'
    BY DEF RefreshOrder, Busy, TypeOf, At
  <2>4. LogosHonest' BY DEF LogosHonest, Honest, LogosAreExplained, Busy
  <2> QED BY <2>1, <2>2, <2>3, <2>4
<1> QED BY <1>1, <1>2, <1>3

\* A process that has just started, the first one or a later one.
LEMMA StartedKeeps ==
    /\ NothingInFlight \in [DataTypes -> Callers \cup {NoJob}]
    /\ NoJobs \in [Jobs -> BusyJobs \cup {Free}] /\ \A j \in Jobs : NoJobs[j] = Free
    /\ Started \in [Callers -> [todo : Seq(DataTypes), awaits : Callers \cup {NoJob}]]
    /\ \A c \in Callers : Started[c].awaits = NoJob /\ c # NoJob
    /\ \A d \in DataTypes : NothingInFlight[d] = NoJob
<1>1. NoJob \notin Callers /\ WarmupOrder \in Seq(DataTypes) /\ <<>> \in Seq(DataTypes)
  <2>1. NoJob \notin Callers
    BY CacheAssumption DEF CacheAssumption, Jobs
  <2>2. WarmupOrder \in Seq(DataTypes)
    BY CacheAssumption DEF CacheAssumption
  <2>3. <<>> \in Seq(DataTypes)
    OBVIOUS
  <2> QED BY <2>1, <2>2, <2>3
<1>2. \A c \in Callers : Started[c] \in [todo : Seq(DataTypes), awaits : {NoJob}]
  BY <1>1 DEF Started, Calls
<1>3. Started \in [Callers -> [todo : Seq(DataTypes), awaits : {NoJob}]]
  BY <1>2 DEF Started
<1>4. /\ Started \in [Callers -> [todo : Seq(DataTypes), awaits : Callers \cup {NoJob}]]
      /\ \A c \in Callers : Started[c].awaits = NoJob /\ c # NoJob
  BY <1>1, <1>2, <1>3
<1> QED BY <1>4 DEF NothingInFlight, NoJobs

LEMMA RestartKeepsIInv ==
    ASSUME IInv, Restart
    PROVE  IInv'
<1> USE DEF IInv, Restart
<1>1. TypeOK'
  <2>1. restarts' \in 0 .. MaxRestarts
    <3>1. restarts < MaxRestarts /\ restarts' = restarts + 1
      OBVIOUS
    <3> HIDE DEF Restart
    <3>2. MaxRestarts \in Nat
      BY CacheAssumption, Zenon DEF CacheAssumption
    <3> QED BY <3>1, <3>2 DEF TypeOK
  <2>2. apiKey' \in BOOLEAN
    OBVIOUS
  <2>3. keyless' \in BOOLEAN
    <3>1. keyless' = (keyless \/ ~apiKey')
      OBVIOUS
    <3> HIDE DEF IInv, Restart
    <3> QED BY <3>1, Zenon
  <2> QED BY <2>1, <2>2, <2>3, StartedKeeps DEF TypeOK
<1>2. \A j \in Jobs : ~Busy(j)'
  BY StartedKeeps DEF Busy
<1>3. InFlightIsExact' /\ StartersWait' /\ RefreshOrder'
  BY <1>2, StartedKeeps DEF InFlightIsExact, StartersWait, RefreshOrder, Jobs
<1>4. LogosHonest'
  BY <1>2 DEF LogosHonest, LogosAreExplained, TypeOK
<1> QED BY <1>1, <1>3, <1>4

LEMMA InitIInv == Init => IInv
<1> SUFFICES ASSUME Init PROVE IInv
  OBVIOUS
<1> USE DEF Init
<1>1. TypeOK
  <2>1. restarts \in 0 .. MaxRestarts
    <3>1. restarts = 0
      OBVIOUS
    <3> HIDE DEF Init
    <3>2. MaxRestarts \in Nat
      BY CacheAssumption, Zenon DEF CacheAssumption
    <3> QED BY <3>1, <3>2
  <2>2. apiKey \in BOOLEAN
    OBVIOUS
  <2>3. keyless \in BOOLEAN
    <3>1. keyless = ~apiKey
      OBVIOUS
    <3> HIDE DEF Init
    <3> QED BY <3>1, Zenon
  <2> QED BY <2>1, <2>2, <2>3, StartedKeeps, NoLogosHonest DEF TypeOK
<1>2. \A j \in Jobs : ~Busy(j)
  BY StartedKeeps DEF Busy
<1>3. InFlightIsExact /\ StartersWait /\ RefreshOrder
  BY <1>2, StartedKeeps DEF InFlightIsExact, StartersWait, RefreshOrder, Jobs
<1>4. LogosHonest
  BY <1>2, NoLogosHonest DEF LogosHonest, LogosAreExplained
<1> QED BY <1>1, <1>3, <1>4 DEF IInv

LEMMA Invariant == Spec => []IInv
<1>1. IInv /\ [Next]_vars => IInv'
  <2> SUFFICES ASSUME IInv, [Next]_vars PROVE IInv'
    OBVIOUS
  <2>1. CASE Next
    BY <2>1, TickKeepsIInv, JoinKeepsIInv, StartKeepsIInv, RequestKeepsIInv, JobStepKeepsIInv,
       WorldKeepsIInv, RestartKeepsIInv DEF Next
  <2>2. CASE UNCHANGED vars
    <3> USE <2>2 DEF vars, worldVars, IInv
    <3>1. TypeOK' BY DEF TypeOK
    <3>2. InFlightIsExact' /\ StartersWait'
      BY DEF InFlightIsExact, StartersWait, Busy, TypeOf, At
    <3>3. RefreshOrder' /\ LogosHonest'
      BY DEF RefreshOrder, LogosHonest, Honest, LogosAreExplained, Busy, TypeOf, At
    <3> QED BY <3>1, <3>2, <3>3
  <2> QED BY <2>1, <2>2
<1> QED BY <1>1, InitIInv, PTL DEF Spec

-----------------------------------------------------------------------------
(* The theorems *)

\* The variables keep their types; in particular what is cached and what is
\* under way are lists of symbols.
THEOREM TypeCorrect == Spec => []TypeOK
<1>1. IInv => TypeOK BY DEF IInv
<1> QED BY <1>1, Invariant, PTL

\* refreshCache has one refresh under way per type at most, inFlight forgets it
\* when it ends in whichever way, and nobody awaits one that is not under way.
THEOREM InFlightStaysExact == Spec => []InFlightIsExact
<1>1. IInv => InFlightIsExact BY DEF IInv
<1> QED BY <1>1, Invariant, PTL

\* Lost updates of the shared map of logos never make it deny a logo.
THEOREM LogosStayExplained == Spec => []LogosAreExplained
<1>1. IInv => LogosAreExplained BY DEF IInv, LogosHonest
<1> QED BY <1>1, Invariant, PTL

\* What a refresh writes is never older than what the one before it wrote.
THEOREM RefreshesGoForward == Spec => RefreshesNeverGoBack
<1>1. IInv /\ [Next]_vars => [\A d \in DataTypes : refreshed[d] \subseteq refreshed'[d]]_refreshed
  <2> SUFFICES ASSUME IInv, [Next]_vars, refreshed' # refreshed
               PROVE  \A d \in DataTypes : refreshed[d] \subseteq refreshed'[d]
    OBVIOUS
  <2>1. PICK j \in Jobs : Store(j)
    BY DEF Next, vars, Tick, JoinRefresh, StartRefresh, Request, JobStep, ReadCache, CacheFails,
       ProviderAnswers, ProviderRejects, ReadNames, ReadLogos, MergeLogos, SaveLogos, LogosFail,
       Expire, ExpireLogos, ListSymbol, Restart
  <2>2. Busy(j) /\ ~At(j, "provider")
    BY <2>1, AtIsBusy DEF Store, Steps, At
  <2>3. j \in Callers => refreshed[TypeOf(j)] \subseteq job[j].asOf
    BY <2>2 DEF IInv, RefreshOrder
  <2> QED BY <2>1, <2>3 DEF Store, IInv, TypeOK
<1> QED BY <1>1, Invariant, PTL DEF Spec, RefreshesNeverGoBack

-----------------------------------------------------------------------------
(* AssetCache implements SharedRefreshes *)

\* What SharedRefreshes sees is in caller, listed and refreshed.
LEMMA UnseenStep ==
    ASSUME UNCHANGED <<caller, listed, refreshed>>
    PROVE  UNCHANGED Refreshes!vars
BY DEF Refreshes!vars, Waiting

LEMMA InitRefreshes == Init => Refreshes!Init
<1> SUFFICES ASSUME Init PROVE Refreshes!Init
  OBVIOUS
<1>1. caller = Started /\ listed \in SUBSET Symbols /\ refreshed = [d \in DataTypes |-> {}]
  BY DEF Init
<1>2. \A d \in DataTypes : Waiting(d) = {}
  BY <1>1, StartedKeeps DEF Waiting
<1> QED BY <1>1, <1>2 DEF Refreshes!Init, Refreshes!NobodyWaits

LEMMA TickAssigns ==
    ASSUME IInv, NEW t \in Ticks, NEW interval \in Intervals, Tick(t, interval)
    PROVE  Refreshes!Assign(t, Bucket(interval))
<1>1. t \in Callers /\ caller \in [Callers -> [todo : Seq(DataTypes), awaits : Callers \cup {NoJob}]]
  BY DEF Callers, IInv, TypeOK
<1>2. /\ caller[t].todo = <<>> /\ caller[t].awaits = NoJob
      /\ \A k \in Callers \ {t} : caller'[k] = caller[k]
      /\ caller'[t].todo = Bucket(interval) /\ caller'[t].awaits = NoJob
      /\ DOMAIN caller' = Callers
      /\ UNCHANGED <<listed, refreshed>>
  BY <1>1 DEF Tick, Calls, worldVars
<1>3. [c \in Callers |-> caller'[c].todo]
        = [[c \in Callers |-> caller[c].todo] EXCEPT ![t] = Bucket(interval)]
  BY <1>1, <1>2
<1>4. \A d \in DataTypes : Waiting(d)' = Waiting(d)
  BY <1>1, <1>2 DEF Waiting
<1> QED BY <1>1, <1>2, <1>3, <1>4 DEF Refreshes!Assign

\* Whoever begins a refresh awaits it like those who join it.
LEMMA CallAwaits ==
    ASSUME IInv, NEW c \in Callers, JoinRefresh(c) \/ StartRefresh(c)
    PROVE  Refreshes!Await(c)
<1>1. /\ caller[c].todo # <<>> /\ caller[c].awaits = NoJob
      /\ UNCHANGED <<listed, refreshed>>
  BY DEF JoinRefresh, StartRefresh, Calling, worldVars
<1>0. PICK d \in DataTypes : d = Head(caller[c].todo)
  BY <1>1, HeadType DEF IInv
<1>2. PICK a \in Callers : caller' = [caller EXCEPT ![c].awaits = a]
  <2>1. CASE JoinRefresh(c)
    BY <2>1, JoinAwaits
  <2>2. CASE StartRefresh(c)
    BY <2>2 DEF StartRefresh
  <2> QED BY <2>1, <2>2
<1>3. a # NoJob
  BY CacheAssumption DEF CacheAssumption, Jobs
<1>4. /\ \A k \in Callers \ {c} : caller'[k] = caller[k]
      /\ caller'[c].todo = caller[c].todo /\ caller'[c].awaits = a
  BY <1>2 DEF IInv, TypeOK
<1>5. Waiting(d)' = Waiting(d) \cup {c}
  BY <1>0, <1>1, <1>3, <1>4 DEF Waiting
<1>6. \A e \in DataTypes \ {d} : Waiting(e)' = Waiting(e)
  BY <1>0, <1>1, <1>3, <1>4 DEF Waiting
<1>7. \A e \in DataTypes : c \notin Waiting(e)
  BY <1>1 DEF Waiting
<1>8. [k \in Callers |-> caller'[k].todo] = [k \in Callers |-> caller[k].todo]
  BY <1>4
<1>9. [e \in DataTypes |-> Waiting(e)'] = [[e \in DataTypes |-> Waiting(e)] EXCEPT ![d] = @ \cup {c}]
  BY <1>3, <1>5, <1>6
<1> QED BY <1>0, <1>1, <1>7, <1>8, <1>9 DEF Refreshes!Await

\* Those who await a refresh are those who want its type.
LEMMA WaitersOf ==
    ASSUME IInv, NEW j \in Callers, Busy(j)
    PROVE  /\ TypeOf(j) \in DataTypes
           /\ j \in Waiting(TypeOf(j))
           /\ \A c \in Callers : c \in Waiting(TypeOf(j)) <=> caller[c].awaits = j
<1>1. /\ inFlight[TypeOf(j)] = j /\ caller[j].awaits = j
      /\ TypeOf(j) \in DataTypes /\ j # NoJob
  BY BusyType, CacheAssumption
     DEF IInv, InFlightIsExact, StartersWait, Jobs, BusyJobs, TypeOf, CacheAssumption
<1>2. ASSUME NEW c \in Callers PROVE c \in Waiting(TypeOf(j)) <=> caller[c].awaits = j
  <2>1. caller[c].awaits # NoJob =>
          /\ inFlight[Head(caller[c].todo)] = caller[c].awaits
          /\ Head(caller[c].todo) \in DataTypes
    BY HeadType DEF IInv, InFlightIsExact
  <2>2. \A d \in DataTypes : inFlight[d] = j => d = TypeOf(j)
    BY DEF IInv, InFlightIsExact
  <2> QED BY <1>1, <2>1, <2>2 DEF Waiting
<1> QED BY <1>1, <1>2

\* The end of a refresh, whatever it has stored.
LEMMA EndFinishes ==
    ASSUME IInv, NEW j \in Callers, Busy(j), EndRefresh(j), UNCHANGED listed,
           NEW symbols \in SUBSET listed, refreshed[TypeOf(j)] \subseteq symbols,
           refreshed' \in {refreshed, [refreshed EXCEPT ![TypeOf(j)] = symbols]}
    PROVE  Refreshes!Next
<1>0. PICK d \in DataTypes : d = TypeOf(j)
  BY WaitersOf
<1>1. /\ j \in Waiting(d) /\ j # NoJob
      /\ \A c \in Callers : c \in Waiting(d) <=> caller[c].awaits = j
  BY <1>0, WaitersOf, CacheAssumption DEF CacheAssumption, Jobs
<1>2. caller' = [k \in Callers |->
        IF caller[k].awaits = j THEN Calls(Tail(caller[k].todo)) ELSE caller[k]]
  BY DEF EndRefresh
<1>3. [k \in Callers |-> caller'[k].todo]
        = [k \in Callers |-> IF k \in Waiting(d) THEN Tail(caller[k].todo) ELSE caller[k].todo]
  BY <1>1, <1>2 DEF Calls
<1>4. ASSUME NEW e \in DataTypes
      PROVE  Waiting(e)' = IF e = d THEN {} ELSE Waiting(e)
  <2>1. \A c \in Callers : IF c \in Waiting(d) THEN caller'[c].awaits = NoJob
                           ELSE caller'[c] = caller[c]
    BY <1>1, <1>2 DEF Calls
  <2>2. e # d => Waiting(e) \cap Waiting(d) = {}
    BY DEF Waiting
  <2> QED BY <2>1, <2>2 DEF Waiting
<1>5. [e \in DataTypes |-> Waiting(e)'] = [[e \in DataTypes |-> Waiting(e)] EXCEPT ![d] = {}]
  BY <1>1, <1>4
<1>6. [e \in DataTypes |-> Waiting(e)][d] = Waiting(d)
  BY <1>1
<1>7. Refreshes!Finish(d)
  BY <1>0, <1>1, <1>3, <1>5, <1>6 DEF Refreshes!Finish
<1> QED BY <1>7 DEF Refreshes!Next

\* The end of a job that stores nothing: nobody notices that of a request.
LEMMA FailFinishes ==
    ASSUME IInv, NEW j \in Jobs, Busy(j), End(j), UNCHANGED <<listed, refreshed>>
    PROVE  Refreshes!Next \/ UNCHANGED Refreshes!vars
<1>1. CASE j \in Callers
  <2>1. TypeOf(j) \in DataTypes /\ refreshed[TypeOf(j)] \subseteq listed
    BY <1>1, WaitersOf DEF IInv, RefreshOrder
  <2> QED BY <1>1, <2>1, EndFinishes DEF End
<1>2. CASE j \notin Callers
  BY <1>2, UnseenStep DEF End
<1> QED BY <1>1, <1>2

LEMMA StoreFinishes ==
    ASSUME IInv, NEW j \in Jobs, Store(j)
    PROVE  Refreshes!Next \/ UNCHANGED Refreshes!vars
<1>1. Busy(j) /\ ~At(j, "provider") /\ End(j) /\ UNCHANGED listed
  BY AtIsBusy DEF Store, Steps, At, worldVars
<1>2. CASE j \in Callers
  <2>1. /\ refreshed[TypeOf(j)] \subseteq job[j].asOf /\ job[j].asOf \subseteq listed
        /\ refreshed' = [refreshed EXCEPT ![TypeOf(j)] = job[j].asOf]
    BY <1>1, <1>2 DEF Store, IInv, RefreshOrder
  <2> QED BY <1>1, <1>2, <2>1, EndFinishes DEF End
<1>3. CASE j \notin Callers
  BY <1>1, <1>3, UnseenStep DEF Store, End
<1> QED BY <1>2, <1>3

LEMMA JobStepRefreshes ==
    ASSUME IInv, NEW j \in Jobs, JobStep(j)
    PROVE  [Refreshes!Next]_(Refreshes!vars)
<1>0. Busy(j)
  BY DEF JobStep
<1>1. CASE ReadCache(j) \/ ProviderAnswers(j) \/ ReadNames(j) \/ ReadLogos(j) \/ MergeLogos(j)
             \/ SaveLogos(j) \/ LogosFail(j)
  <2>1. UNCHANGED <<caller, listed, refreshed>>
    BY <1>1 DEF ReadCache, ProviderAnswers, ReadNames, ReadLogos, MergeLogos, SaveLogos,
                LogosFail, worldVars
  <2> QED BY <2>1, UnseenStep
<1>2. CASE CacheFails(j) \/ ProviderRejects(j)
  <2>1. End(j) /\ UNCHANGED <<listed, refreshed>>
    BY <1>2 DEF CacheFails, ProviderRejects, Fail, worldVars
  <2> QED BY <1>0, <2>1, FailFinishes
<1>3. CASE Store(j)
  BY <1>0, <1>3, StoreFinishes
<1> QED BY <1>1, <1>2, <1>3 DEF JobStep

LEMMA RestartRefreshes ==
    ASSUME Restart
    PROVE  Refreshes!Restart
<1>1. caller' = Started /\ UNCHANGED <<listed, refreshed>>
  BY DEF Restart
<1>2. \A d \in DataTypes : Waiting(d)' = {}
  BY <1>1, StartedKeeps DEF Waiting
<1> QED BY <1>1, <1>2 DEF Refreshes!Restart, Refreshes!NobodyWaits

LEMMA StepRefreshes == IInv /\ [Next]_vars => [Refreshes!Next]_(Refreshes!vars)
<1> SUFFICES ASSUME IInv, [Next]_vars PROVE [Refreshes!Next]_(Refreshes!vars)
  OBVIOUS
<1>1. ASSUME NEW t \in Ticks, NEW interval \in Intervals, Tick(t, interval)
      PROVE  Refreshes!Next
  <2>1. t \in Callers /\ Bucket(interval) \in {Bucket(i) : i \in Intervals}
    BY DEF Callers
  <2> QED BY <1>1, <2>1, TickAssigns DEF Refreshes!Next
<1>2. ASSUME NEW c \in Callers, JoinRefresh(c) \/ StartRefresh(c)
      PROVE  Refreshes!Next
  BY <1>2, CallAwaits DEF Refreshes!Next
<1>3. ASSUME \/ \E r \in Requests, d \in DataTypes, country \in Countries : Request(r, d, country)
             \/ \E d \in DataTypes : Expire(d)
             \/ ExpireLogos
      PROVE  UNCHANGED Refreshes!vars
  <2>1. UNCHANGED <<caller, listed, refreshed>>
    BY <1>3 DEF Request, Expire, ExpireLogos, worldVars
  <2> QED BY <2>1, UnseenStep
<1>4. ASSUME NEW s \in Symbols, ListSymbol(s)
      PROVE  Refreshes!Next
  <2>1. listed' = listed \cup {s} /\ UNCHANGED <<caller, refreshed>>
    BY <1>4 DEF ListSymbol
  <2>2. Refreshes!List(s)
    BY <2>1 DEF Refreshes!List, Waiting
  <2> QED BY <2>2 DEF Refreshes!Next
<1>5. CASE Restart
  BY <1>5, RestartRefreshes DEF Refreshes!Next
<1>6. CASE UNCHANGED vars
  BY <1>6, UnseenStep DEF vars, worldVars
<1> QED BY <1>1, <1>2, <1>3, <1>4, <1>5, <1>6, JobStepRefreshes DEF Next

\* A refresh of a type is one task that everyone who wants the type awaits, and
\* that lets all of them go on when it ends in whichever way; what it stores was
\* there when it ran and is not older than what the one before it stored.
THEOREM RefreshesStayShared == Spec => RefreshesAreShared
BY InitRefreshes, StepRefreshes, Invariant, PTL DEF Spec, RefreshesAreShared, Refreshes!Spec

=============================================================================
