------------------------------ MODULE Candles ------------------------------
(***************************************************************************)
(* Scrolling back through candles: clients ask for a page, and ask again   *)
(* with the nextDateTime of the answer as start, until it is null.         *)
(* AssetService.getCandles (src/financial/assets/asset.service.ts) answers *)
(* through Cacheable, from the cache when it can: the key has the symbol   *)
(* and the start, but not the limit, so that readers share pages.          *)
(* AlpacaStockProvider.getCandles looks into a window of time before the   *)
(* start, UpbitCryptoProvider.getCandles counts back from it.              *)
(*                                                                         *)
(* One stock and one coin, in one timeframe; both trade at the same times. *)
(* Times are numbers.  Nothing is assumed of how far candles are apart:    *)
(* markets close at night and at weekends.                                 *)
(***************************************************************************)
EXTENDS Integers, SequencesExt

CONSTANTS
    Readers,
    Value, Unit, \* the timeframe: 1H is 1 and "H"
    Hour, Day,   \* how many times there are in an hour and in a day
    Limits,      \* what stock readers give as limit
    UpbitLimit,  \* limit: 199 in the code
    Start,       \* bound: the time when readers start
    Histories,   \* bound: the times that may have a candle then
    Horizon,     \* bound: the last time
    MaxCached    \* bound: pages in the cache at a time

ASSUME CandlesAssumption ==
    /\ {Value, Hour, Day} \subseteq Nat \ {0}
    /\ Unit \in {"T", "H", "D", "W", "M"}
    /\ Limits \subseteq Nat \ {0}
    /\ UpbitLimit \in Nat \ {0}
    /\ Horizon \in Nat
    /\ Start \in 1 .. Horizon
    /\ \A history \in Histories : history # {} /\ history \subseteq 1 .. Start

VARIABLES
    now,     \* the last time that has passed
    bars,    \* the times with a candle
    pages,   \* pages[<<a, k>>]: the page in the cache for start k
    reader   \* reader[r]: a client, and the request of it that is under way

vars == <<now, bars, pages, reader>>

Assets == {"stocks", "crypto"}

\* A request without start, and a nextDateTime that is null.
First == Horizon + 1
Null == -1

\* A change that is taken against the candle's own open, and one that comes with
\* the candle.
Own == -1
Sent == -2

Times == 1 .. Horizon
Candle == [time : Times, against : Times \cup {Own, Sent}]

\* An answer.  Two facts about how it was made are kept for the properties:
\* whether Alpaca sent it in one piece, and whether it hides a failure.
Page == [candles : Seq(Candle), next : {Null} \cup 0 .. Horizon,
         whole : BOOLEAN, failed : BOOLEAN]

NoPage == [candles |-> <<>>, next |-> Null, whole |-> TRUE, failed |-> FALSE]
Keys == Assets \X (0 .. First)
Steps == {"idle", "lookup", "fetch", "store"}

Reader == [asset : Assets, limit : Limits \cup {UpbitLimit}, step : Steps,
           key : {Null} \cup 0 .. First, page : Page, failed : BOOLEAN,
           seen : SUBSET Times, seams : SUBSET (0 .. Horizon)]

\* A reader of a finished or failed scroll has nothing under way.  "key" is the
\* start of its request or of its next one; "seams" remembers, for the properties,
\* the starts of a scroll through coins.
NewScroll(a, limit) ==
    [asset |-> a, limit |-> limit, step |-> "idle", key |-> First, page |-> NoPage,
     failed |-> FALSE, seen |-> {}, seams |-> {}]
Scrolls == {NewScroll("stocks", limit) : limit \in Limits} \cup {NewScroll("crypto", UpbitLimit)}

TypeOK ==
    /\ now \in 0 .. Horizon
    /\ bars \subseteq 1 .. now
    /\ DOMAIN pages \subseteq Keys
    /\ pages \in [DOMAIN pages -> Page]
    /\ reader \in [Readers -> Reader]

Init ==
    /\ bars \in Histories
    /\ now = Start
    /\ pages = <<>>
    /\ reader \in [Readers -> Scrolls]

-----------------------------------------------------------------------------
(* AlpacaStockProvider *)

\* One more than asked for: it tells whether there is more, and it is what the
\* change of the last candle is taken against.
ItemsToFetch(limit) == limit + 1

\* getPeriodMs: it takes minutes, T, for days.
PeriodMs ==
    CASE Unit = "H" -> Value * Hour
      [] Unit = "D" -> Value * Day
      [] Unit = "W" -> Value * 7 * Day
      [] Unit = "M" -> Value * 30 * Day
      [] OTHER -> Day

\* Mutant: the window has room for the candles and for no pause.
DurationTight(limit) == ItemsToFetch(limit) * PeriodMs

\* The window is half again as long as the candles would be without pauses.
Duration(limit) == (ItemsToFetch(limit) * PeriodMs * 3) \div 2

\* Without start the window ends now.
EffectiveEnd(key) == IF key = First THEN now ELSE key

\* Candles come with the latest first: i - 1 of them are later than the i-th.
Latest(times) ==
    [i \in 1 .. Cardinality(times) |->
       CHOOSE t \in times : Cardinality({u \in times : u > t}) = i - 1]
Window(limit, key) ==
    Latest({t \in bars : EffectiveEnd(key) - Duration(limit) <= t /\ t <= EffectiveEnd(key)})

\* Alpaca sends k of the candles, with a token when that is not all it was asked
\* for.  The loop follows the token but never takes the next one: it fetches the
\* second page, m candles, until there are enough, and then sorts them, so that
\* each of the m is there as often as the page was fetched.
Repeated(limit, window, k, m) ==
    LET times == ((ItemsToFetch(limit) - k) + m - 1) \div m IN
    [i \in 1 .. (k + m * times) |->
       window[IF i <= k THEN i ELSE k + 1 + (i - k - 1) \div times]]

\* addChangePercentage: against the next candle of the list.
AddChangePercentage(times) ==
    [i \in 1 .. Len(times) |->
       [time |-> times[i], against |-> IF i < Len(times) THEN times[i + 1] ELSE Own]]

\* Mutant: nextDateTime is the last candle of the page itself.
StockPageInclusive(limit, times, whole) ==
    LET data == SubSeq(times, 1, IF Len(times) < limit THEN Len(times) ELSE limit) IN
    [candles |-> SubSeq(AddChangePercentage(times), 1, Len(data)),
     next |-> IF Len(times) > limit THEN Last(data) ELSE Null,
     whole |-> whole, failed |-> FALSE]

\* Mutant: the changes are taken on the page itself.
StockPageCut(limit, times, whole) ==
    LET data == SubSeq(times, 1, IF Len(times) < limit THEN Len(times) ELSE limit) IN
    [candles |-> AddChangePercentage(data),
     next |-> IF Len(times) > limit THEN Last(data) - 1 ELSE Null,
     whole |-> whole, failed |-> FALSE]

\* getCandles: the page is cut off after the changes were taken.
StockPage(limit, times, whole) ==
    LET data == SubSeq(times, 1, IF Len(times) < limit THEN Len(times) ELSE limit) IN
    [candles |-> SubSeq(AddChangePercentage(times), 1, Len(data)),
     next |-> IF Len(times) > limit THEN Last(data) - 1 ELSE Null,
     whole |-> whole, failed |-> FALSE]

\* The answers of getCandles; no page of Alpaca has more candles than were asked
\* for.  A first page without any candle makes the merge throw: that is one of
\* the ways to reject.
StockPages(limit, key) ==
    LET window == Window(limit, key)
        AtMostAsked(n) == IF n < ItemsToFetch(limit) THEN n ELSE ItemsToFetch(limit)
    IN  {StockPage(limit, SubSeq(window, 1, AtMostAsked(Len(window))), TRUE)}
          \cup UNION {{StockPage(limit, Repeated(limit, window, k, m), FALSE)
                         : m \in 1 .. AtMostAsked(Len(window) - k)}
                         : k \in 1 .. (AtMostAsked(Len(window)) - 1)}

-----------------------------------------------------------------------------
(* UpbitCryptoProvider *)

\* Upbit sends the candles before the time "to", that one excluded.  Without
\* start that is the present, which is after the last time that has passed.
To(key) == IF key = First THEN now + 1 ELSE key

\* The candle that is one too many starts the next page: the page does not have
\* it, and as a start it is excluded from the next one too.
UpbitNext(times) == times[UpbitLimit + 1]

\* The changes of coins are those Upbit sends, whatever the page has.
CryptoPage(key) ==
    LET times == Latest({t \in bars : t < To(key)})
        count == IF Len(times) > UpbitLimit THEN UpbitLimit ELSE Len(times)
    IN  [candles |-> [i \in 1 .. count |-> [time |-> times[i], against |-> Sent]],
         next |-> IF Len(times) > UpbitLimit THEN UpbitNext(times) ELSE Null,
         whole |-> TRUE, failed |-> FALSE]

\* Mutant: an answer without nextDateTime, so that the client starts over.
NoCandlesNoNext == [NoPage EXCEPT !.failed = TRUE, !.next = First]

\* An error is answered with a page that looks like the end.
NoCandles == [NoPage EXCEPT !.failed = TRUE]

-----------------------------------------------------------------------------
(* getCandles, through Cacheable *)

\* Mutant: the start is not part of the key.
CacheKeyOfSymbol(r) == <<reader[r].asset, First>>

CacheKey(r) == <<reader[r].asset, reader[r].key>>

\* The client has its answer, and takes nextDateTime for its next request.
Answered(rd, page) ==
    [rd EXCEPT !.step = "idle",
               !.key = page.next,
               !.page = NoPage,
               !.seen = @ \cup {page.candles[i].time : i \in DOMAIN page.candles},
               !.failed = @ \/ page.failed]

\* The client has an error, and may ask again.
Rejected(rd) == [rd EXCEPT !.step = "idle", !.page = NoPage]

Seams(rd) == IF rd.asset = "crypto" /\ rd.key # First THEN rd.seams \cup {rd.key} ELSE rd.seams

Ask(r) ==
    /\ reader[r].step = "idle"
    /\ reader[r].key # Null
    /\ reader' = [reader EXCEPT ![r].step = "lookup",
                                ![r].seams = Seams(reader[r])]
    /\ UNCHANGED <<now, bars, pages>>

\* A reader starts over, with the same symbol or the other one.
Reopen(r) ==
    /\ reader[r].step = "idle"
    /\ \E scroll \in Scrolls : reader' = [reader EXCEPT ![r] = scroll]
    /\ UNCHANGED <<now, bars, pages>>

ReadCache(r) ==
    /\ reader[r].step = "lookup"
    /\ reader' = [reader EXCEPT ![r] =
         IF CacheKey(r) \in DOMAIN pages THEN Answered(@, pages[CacheKey(r)])
         ELSE [@ EXCEPT !.step = "fetch"]]
    /\ UNCHANGED <<now, bars, pages>>

FetchStock(r) ==
    /\ reader[r].step = "fetch"
    /\ reader[r].asset = "stocks"
    /\ \E page \in StockPages(reader[r].limit, reader[r].key) :
         reader' = [reader EXCEPT ![r].step = "store", ![r].page = page]
    /\ UNCHANGED <<now, bars, pages>>

\* The limit of the request is ignored: it is UpbitLimit.
FetchCrypto(r) ==
    /\ reader[r].step = "fetch"
    /\ reader[r].asset = "crypto"
    /\ \E page \in {CryptoPage(reader[r].key), NoCandles} :
         reader' = [reader EXCEPT ![r].step = "store", ![r].page = page]
    /\ UNCHANGED <<now, bars, pages>>

\* The cache fails, or Alpaca does: BadRequestException.
Fails(r) ==
    /\ \/ reader[r].step \in {"lookup", "store"}
       \/ reader[r].step = "fetch" /\ reader[r].asset = "stocks"
    /\ reader' = [reader EXCEPT ![r] = Rejected(@)]
    /\ UNCHANGED <<now, bars, pages>>

Without(kept, k) == [l \in kept \ {k} |-> pages[l]]

\* The page is written over what others may have written meanwhile.  All TTLs
\* are positive.  When the bound is reached, other pages have just expired.
Store(r) ==
    /\ reader[r].step = "store"
    /\ \E kept \in SUBSET (DOMAIN pages \ {CacheKey(r)}) :
         /\ Cardinality(kept) < MaxCached
         /\ pages' = [k \in kept \cup {CacheKey(r)} |->
                        IF k = CacheKey(r) THEN reader[r].page ELSE pages[k]]
    /\ reader' = [reader EXCEPT ![r] = Answered(@, reader[r].page)]
    /\ UNCHANGED <<now, bars>>

-----------------------------------------------------------------------------

Expire(k) ==
    /\ k \in DOMAIN pages
    /\ pages' = Without(DOMAIN pages, k)
    /\ UNCHANGED <<now, bars, reader>>

\* Time passes, with or without trade.
Pass ==
    /\ now < Horizon
    /\ now' = now + 1
    /\ bars' \in {bars, bars \cup {now + 1}}
    /\ UNCHANGED <<pages, reader>>

Next ==
    \/ \E r \in Readers :
         \/ Ask(r) \/ Reopen(r)
         \/ ReadCache(r) \/ FetchStock(r) \/ FetchCrypto(r) \/ Fails(r) \/ Store(r)
    \/ \E k \in Keys : Expire(k)
    \/ Pass

Spec == Init /\ [][Next]_vars

-----------------------------------------------------------------------------
(* Properties *)

\* The candles a scroll may be without: for coins those that were a start.
Lost(rd) == IF rd.asset = "crypto" THEN rd.seams ELSE {}

\* A reader that follows nextDateTime has every candle between the newest and
\* the oldest it has, whatever limits other readers gave, whichever pages came
\* from the cache, and while new candles appear; and it asks for older ones
\* only, so that none comes twice (alpaca.stock.provider.ts:146-151).  A reader
\* of a coin is without the candles between two pages, and without no other
\* (upbit.crypto.provider.ts:126-133).
ScrollIsContiguous ==
    \A r \in Readers : LET rd == reader[r] IN
        rd.seen # {} =>
          /\ rd.key < Min(rd.seen)
          /\ rd.seen \subseteq bars
          /\ \A b \in bars \ Lost(rd) :
               b <= Max(rd.seen) /\ b > (IF rd.key = Null THEN Min(rd.seen) - 1 ELSE rd.key)
                 => b \in rd.seen

\* Candles implements ScrollBack: a reader is only ever given the next stretch of
\* the history, from where the answer before ended, without a candle given twice,
\* and without one left out but for the seam after a page of coins, in whatever
\* order the readers' requests, the pages of others and new candles come
\* (asset.service.ts:62-85, cache.decorator.ts:38-47).
Place(rd) ==
    IF rd.key \in {First, Null} \/ rd.asset = "crypto" THEN rd.key ELSE rd.key + 1

History == INSTANCE ScrollBack WITH
    End <- Null,
    place <- [r \in Readers |-> Place(reader[r])],
    lossy <- [r \in Readers |-> reader[r].asset = "crypto"],
    seen <- [r \in Readers |-> reader[r].seen]

ScrollsBack == History!Spec

\* Whenever one looks back, over half again as many periods as a reader may ask
\* for candles, there are that many and one, or there are no older ones.
Roomy(times, end) ==
    \A limit \in Limits, last \in 0 .. end :
      LET past == {t \in times : t <= last}
          near == {t \in past : 2 * (last - t) <= 3 * (limit + 1) * PeriodMs}
      IN  near = past \/ Cardinality(near) > limit

\* A nextDateTime that is null means that there is nothing older, as the comment
\* at alpaca.stock.provider.ts:148 says, for a stock whose pauses fit into the
\* half that the window is longer: which they must for the limits of all
\* readers, as pages are shared, and at all times.  A coin has nothing older but
\* candles lost between pages.  After an outage of Upbit, which looks the same
\* to the client, nothing is said.
NullIsTheEnd ==
    \A r \in Readers : LET rd == reader[r] IN
        rd.key = Null /\ ~rd.failed /\ (rd.asset = "stocks" => Roomy(bars, now)) =>
          /\ rd.seen # {}
          /\ \A b \in bars \ Lost(rd) : Min(rd.seen) <= b

\* The candle before t, among those at times.
Before(times, t) ==
    LET older == {b \in times : b < t} IN IF older = {} THEN Own ELSE Max(older)

\* The change of a stock is taken against the candle before, also at the end of a
\* page, unless no older candle was found, or Alpaca sent the page in pieces: then
\* candles are repeated (alpaca.stock.provider.ts:226-229, 286-292).
ChangeIsAgainstPrevious ==
    \A k \in DOMAIN pages : LET page == pages[k] IN
        k[1] = "stocks" /\ page.whole =>
          \A i \in DOMAIN page.candles :
            \/ page.candles[i].against = Before(bars, page.candles[i].time)
            \/ page.next = Null /\ i = Len(page.candles) /\ page.candles[i].against = Own

-----------------------------------------------------------------------------
(* What a comment of the code says of every coin *)

\* One candle more than a page has is asked for so that a chart can be scrolled
\* without end (upbit.crypto.provider.ts:122): whoever scrolls a coin has every
\* candle between the newest and the oldest it has.
CoinScrollIsContiguous ==
    \A r \in Readers : LET rd == reader[r] IN
        rd.asset = "crypto" =>
          \A b \in bars : (\E t, u \in rd.seen : t < b /\ b < u) => b \in rd.seen

=============================================================================
