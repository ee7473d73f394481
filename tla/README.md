# A verification of mtr-server

mtr-server is the API server of MonkeyTraders: clients connect by socket.io and
subscribe to live market data, which the server takes from web sockets of
Upbit (crypto) and Korea Investment, KIS (stocks); an HTTP API serves rankings,
candles and trades from external services through a cache. This directory holds
TLA+ models of the program, the TLC runs that check them, and TLAPS proofs.
`PROJECT.json` lists the runs, the code each definition stands for, the hazards
and the theorems. Paths below are relative to `src/src/` of the repository.

## 1. The system

| Component | State it keeps | Operations | Interacts with |
|---|---|---|---|
| Market gateway, `gateway/market/market.gateway.ts` | socket.io connections and rooms | connect, disconnect, `subscribe-market`, `unsubscribe-market`, emit | calls the subscription service, is called back with broadcasts |
| Subscription service, `gateway/market/market.subsciption.service.ts` | `subscriptions`, `symbolChannels`, `channelDataTypes` | subscribe, unsubscribe, broadcasting | reads rankings from the cache, calls the stream providers without awaiting them |
| Upbit stream provider, `gateway/market/providers/upbit` | `subscribedSymbols`, `activeDataTypes`, a web socket | subscribe, unsubscribe, connect, resubscribe | Upbit: each message replaces all earlier ones |
| KIS stream provider and client, `gateway/market/providers/koreaInvestment` | `APPROVAL_KEY`, a web socket, `isReconnecting`, a timer, send loops | subscribe, unsubscribe, connect, reconnect | KIS: one message registers or releases one tr_key |
| Cache and asset services, `cache`, `financial/assets` | cached answers with a TTL, refreshes in flight, cron jobs | read-through get, refresh, warm-up | financial providers, logo service; the subscription service reads its rankings |
| Logo service, `financial/services/logo.service.ts` | one cached map | get and extend | cache |
| Financial providers, registry, market hours, `financial` | none | requests, conversion, pagination | external HTTP services |
| Authentication and users, `auth`, `user`, `database` | users in PostgreSQL | Google login, tokens | external |

What is hard in it:

* Handlers of different clients interleave at every `await`: the read of the
  cache, and the step from the service's answer to `client.join`. A client can
  disconnect in between.
* One subscription is spread over four places that change at different times:
  the book of the service, the rooms, the provider's sets, and what the far side
  was asked for. Calls that throw half-way leave them apart.
* Providers are called without `await`. Upbit's code throws to its caller while
  its socket is connecting; KIS's runs on as a loop with sleeps while other
  calls, market hours and the connection change.
* Connections are lost, may not open again, and need a key that may be refused.
* Refreshes by cron jobs, the warm-up and requests work on the same cache at the
  same time, across restarts of the process; only refreshes know of each other.
  The map of logos is one cached value that all of them read, change and write.
* Providers of stocks catch their errors: an outage is an answer, and is cached.
* Candles come in pages that different clients share although they asked for
  different numbers, cut out of a window of time by code full of plus ones.
* No HTTP request has a timeout: a server that never answers holds a refresh, and
  all who joined it, for good.

What makes each component correct: the book routes a symbol exactly to channels
with subscribers; a provider is asked for exactly the routed symbols; a client
is in exactly the rooms of its subscriptions; an open provider socket streams
what the provider was asked for; a lost connection returns; refreshes of a key
are shared, never go back, and are held up only by calls that never settle; an
answer denies a logo only when there was no way to make one; a reader of candles
gets all of them, once, with the right change, up to the last. (The code does not
reach the last of these for every chart: sections 3 and 4.)

## 2. The modules

| Module | Models |
|---|---|
| `MarketSubscription` | the three maps of the service, what `updateSubscriptions` and `processUnsubscription` do to them, who gets a message |
| `MarketGateway` (extends it) | the gateway and the control flow of `subscribe` and `unsubscribe`: clients, rooms, suspended handlers, failures |
| `ChannelMembership` | the abstract promise: ask, be admitted, drop, depart |
| `UpbitStream` | the Upbit provider and its socket |
| `CryptoMarket` (extends `MarketSubscription`, instantiates `UpbitStream`) | the service with that provider |
| `KisStream` | the KIS provider, its client and its send loops |
| `StockMarket` (extends `MarketSubscription`, instantiates `KisStream`) | the service with that provider |
| `Reconnection` | the abstract promise of a client that needs a key: the phases of one attempt after the other |
| `MarketHours` | `checkMarketStatus`: the status of a market at a minute of the week; `KisStream` makes its keys by it |
| `StockSources` | which symbols the KIS and Alpaca providers of `financial` answer, given what their servers did |
| `CryptoSources` | the same for Upbit's |
| `AssetCache` (extends `StockSources`, instantiates `CryptoSources`) | an asset service: warm-up, cron jobs, `refreshCache`, `Cacheable`, the logos, Redis, restarts |
| `SharedRefreshes` | what `AssetCache` promises of refreshes: one per type, awaited by all who want it, never older than the last |
| `Candles` | readers that scroll through candles, the pages of both providers, the cache they share |
| `ScrollBack` | what `Candles` promises of a scroll: the next older stretch of the history, nothing repeated, and nothing left out but one candle of a coin between two stretches |
| `MC...` | values for TLC |
| `..._proofs` | the proofs about the module of that name |

How they correspond to the code:

* A map that has no entry is a function that gives `{}`; the code reads every
  map with `get(key) || []`. Lists without duplicates are sets. A channel id is
  a pair of an asset type and a symbol or ranking.
* A handler runs up to its next `await` in one action; node runs nothing else
  meanwhile. So `SubscribeSymbols` is the whole of `handleSubscription` and
  `subscribe` up to `join`, `SubscribeRanking` stops at the cache, `ResumeRanking`
  goes on from there, `Join` ends the handler. The `for` loop over symbols is one
  step because its iterations touch different channels; a throw inside it is an
  action of its own (`...Throws`) that keeps the iterations that were done.
* Requests the validation lets through are inputs, among them a request without
  `dataTypes` (the field is optional): spreading `undefined` then throws after
  the provider was called.
* `feed` in `MarketGateway` is only what a provider was asked to do. What a
  provider does with it is in `UpbitStream` and `KisStream`, each composed with
  the same book.
* `MarketGateway` has the constant `Allowed`: the liberties clients and outages
  have. All of them are possible in the code; a run or a theorem that needs fewer
  says which it leaves out (section 4).
* In `CryptoMarket` and `StockMarket` a request names one channel; requests with
  several symbols, those without data types, and the awaits are in
  `MarketGateway`.
* A stock has two names: clients send `NAS:AAPL`, rankings list `NASAAPL`, and
  `createTickerKey` makes one key of both. `Ticker` maps a name to its ticker.

* Time in `KisStream` is the minute of the week in UTC, which jumps among
  `Instants`; `CheckMarketStatus` turns it into New York's time and that into the
  prefix of a key.
* A refresh or a request of `AssetCache` is a job that goes from one `await` to
  the next: the lookup, the provider, the list with the names, the map of logos,
  the map again, its write, the write of the answer. Each of them can fail.
  `caller` has what the warm-up and each tick have still to refresh, and whose
  refresh they await. The two services have separate keys and share no state but
  the map of logos, which only stocks use; so the module is about one service,
  and a behaviour chooses which. A list of assets is a function from symbols to
  their logos; names, prices and exchanges are left out, and so is the length of
  a TTL: an entry may expire at any time.
* `refreshed` and `keyless` in `AssetCache` are history: what was listed when the
  stored answer of the last refresh was given, and whether a process ran without
  the key of the logo service.
* A candle in `Candles` is its time and the time of the candle its change is
  taken against. `window` and `Repeated` follow `_getCandles`, also in that it
  fetches the second page again and again. `PeriodMs` is `getPeriodMs`, which takes
  minutes (`T`) for days. Upbit's `to` excludes the candle at that time; the code
  treats it as if it were included (section 3).
* `seams` in `Candles` and `presented` in `KisStream` are history too: the starts
  of the pages of a coin a reader asked for, and the approval keys in the messages
  that the present connection received.

The operators named "Mutant" are deliberate mistakes. No specification uses
them: each one stands in for the definition after it to show that a property can
fail.

## 3. What the code gets wrong

Five runs check a statement of the README or of a comment and find it violated.
Each counterexample is a few calls long.

* `gateway_many_symbols`: the loop that joins rooms returns in its first
  iteration (`market.gateway.ts:50-54`; lines 62-66 do the same with `leave`). A
  client that asks for two symbols gets the data of one.
* `gateway_disconnect`: `handleDisconnect` only logs (`market.gateway.ts:41`). The
  client stays a subscriber, and its symbols stay requested, for good.
* `crypto_unsubscribe`: `unsubscribe` of the Upbit provider drops its symbols
  before it sends, and the send throws while the socket connects
  (`upbit.crypto.provider.ts:58-68`). The book keeps the symbol, the provider
  never asks for it again.
* `stock_registered`: `requestSymbols.splice(0, 80)` (`kis.stock.provider.ts:56`)
  throws the first 80 symbols away instead of keeping them. No single stock is
  ever registered.
* `candles_coin`: the candle that is one too many is dropped from the page and its
  time becomes `nextDateTime` (`upbit.crypto.provider.ts:126-133`), which goes
  back to Upbit as `to`. Upbit answers with the candles before `to`, so that this
  candle is on no page. (Alpaca's `end` is inclusive, and the code takes the last
  candle of the page less a moment.)

## 4. The runs that pass

| Run | Instance | Shows |
|---|---|---|
| `gateway_book` | 2 clients, 1 ranking, 2 symbols, 1 suspended handler, every liberty | the three maps stay consistent |
| `gateway_members` | 2 clients, 2 symbols, 1 ranking, 2 suspended handlers; one request at a time with one symbol, outages, untyped requests | rooms match the book; the gateway implements `ChannelMembership`, with liveness |
| `gateway_feed` | 2 clients, 2 symbols, 1 ranking, 2 suspended handlers; requests for several symbols, pipelined requests, no failing call | the provider was asked for exactly the routed symbols |
| `crypto` | 2 clients, 2 symbols, 1 ranking, types ticker and candle, 1 timeframe, 2 lost connections | streams are current; routed symbols are streamed in the end; calls that do not throw keep book and provider together |
| `stock` | 1 client, 3 names of 2 tickers, 1 ranking, splice size 1, 2 loops, 2 lost connections, 2 instants | one connection attempt at a time, no message with another connection's key, lost connections return; the client implements `Reconnection` |
| `assets` | either service, 1 symbol in 1 of 2 archives, the list of assets and a ranking, 2 overlapping ticks and 1 request with or without a country, 1 restart | refreshes never go back and implement `SharedRefreshes`; logos are denied only for want of a key; only a call that never settles holds up the warm-up or a tick |
| `candles` | 2 readers with limits 1 and 2, a stock and a coin with pages of 1, a cache of 1 page, 8 instants, 3 histories | a scroll is contiguous but for the seams of coins, ends at the end where pauses fit, with the right changes; readers and pages implement `ScrollBack` |

Why these bounds. In the book a channel matters as having no, one, or more
subscribers, and a symbol as having no, one, or more channels: two clients, and a
symbol that is in its own channel and in a ranking, reach all of it, and every
property is about one symbol and the channels it is in. Two suspended handlers
let one overtake another; one handler is enough where each resumed handler reads
the book afresh. Two lost connections reach a loss after a reconnection, so that
every flag of the reconnection has been through a full turn. `SpliceSize` is 80
in the code and 1 here: a ranking that is longer and one that is not both occur.
`LoopIds` bounds the send loops asleep at a time: two overlap. `MaxCloses` and
`MaxLosses` bound how often a connection is lost. The two instants of `stock` are
the first minute of a session and the first after it. The theorems of section 5
hold for every size.

In `assets` two ticks of the same minute, or one and the warm-up, are what a
shared refresh needs; two of the three jobs run at a time (`MaxActive`), so that
a request and a refresh overlap on the answer and on the map of logos. One symbol
is enough as every property is about one symbol; it may be listed late, which
tells a newer answer from an older one. The twelve hours of the list of assets do
not come: its refresh is the warm-up's, and requests write it. Trades are left
to the theorems. In `candles` the timeframe is in minutes, so that a period is a
day of two instants, and the window of a limit of 1 is 6 instants, that of a limit
of 2 is 9; the three histories have no pause, one that fits the window, and one
of five instants that does not fit the smaller. Two readers with
different limits and one cached page are what it takes to read a page made for
another limit, and a horizon of eight has room for three pages with a candle that
appears meanwhile. Readers may start
over, give up, and get errors at every step.

Why runs leave liberties out. `gateway_feed` has one asset type, as a second one
with overlapping requests for several symbols is too many states; `FeedStaysExact`
is about any number of types. `RoomsMatchBook` is false when one request names
several symbols (finding `gateway_many_symbols`) or when a client sends an
unsubscribe before its subscribe was answered: the join then follows the leave.
`FeedIsExact` is false when a call fails between provider and book (finding
`crypto_unsubscribe`) or when a request has no data types. They hold, and are
proved, for clients and calls that do not do that, with everything else
interleaving.

Deadlock is checked in `assets` and `candles`. It is not in the others: when all
clients are gone, or the process is down, or a bound is reached, nothing has to
happen.

What some properties leave out, because the code does not give it.
`NullIsTheEnd` is about stocks whose pauses leave more candles in the window than
were asked for, or nothing before it (`Roomy`), and about readers that met no
outage of Upbit. It is the whole window that has to have room: weekends of two
days are `Roomy` for daily candles, a holiday next to one is not for small limits,
and a night is not for a few hourly candles. There the comment at
`alpaca.stock.provider.ts:148`, that fewer than limit + 1 candles mean that there
are no older ones, is not true: the scroll ends before the pause.
`ScrollIsContiguous` and `ScrollsBack` allow for the candles of a coin that
`candles_coin` shows to be lost, and for no others. `ChangeIsAgainstPrevious` is
about pages Alpaca sends in one piece, as a second piece is repeated. `LogosAreExplained`
admits denials of logos once some process had no key: `NOT_FOUND` stays for seven
days, also when the key is there again.

The abstract specifications. Four modules say what a component promises without
saying how, and a run checks each of them as a property, under a mapping that the
detailed module states. `ChannelMembership`, with its liveness: whoever asks is
admitted, once, and whoever drops is out. `Reconnection`: the process, the
socket, the awaited key, the timer and the flag of the KIS client are together
the phase of one attempt; as a loss leads from "open" to "waiting" only, none may
meet a flag that is still up. `SharedRefreshes`: the map `inFlight` and the jobs that
run it are a set of callers that wait for each type; all of them go on when the
refresh ends, failed or not, and it stores nothing older than what is there.
`ScrollBack`: windows, limits, pieces and the cache disappear; what is left is a
reader whose place moves down the history, to a last place when it was told that
there is nothing older; a reader of coins may lose one candle at each place it
stops. The last three are safety: what has to happen in the end is in
`ConnectionReturns` and `OnlyHangingCallsHoldUp`, and readers may give up.

`DriftOnlyHeals` is about pairs of states because no state property holds: the
finding `crypto_unsubscribe` leaves a symbol routed that the provider has
dropped, and a `subscribe` that throws leaves one asked for that nobody routes.
The symbols they disagree on are the drift; as long as the socket is not
connecting, no step adds to it.

Fairness. A promise that was awaited settles and node resumes the handler
(`CacheAnswers`, `Join` in `MarketGateway`); a handshake ends and a timer fires
(`Opened`, `ConnectWebSocket` in `UpbitStream`; `Opened` or `Failed`,
`TimerFires` in `KisStream`); the key request is answered one way or the other.
That Redis answers, that a handshake ends and that a key request does is assumed of
the environment: the code sets no timeout for any of them, and one that never
settles would be waited for. In `AssetCache`, where such a call holds up others than
its caller, nothing is assumed of calls: only the loops go on (`JoinRefresh`,
`StartRefresh`), which node runs as soon as what they awaited has settled, and
`OnlyHangingCallsHoldUp` is that a caller whose work never ends is held up, from
some time on, by one refresh at one `await` that never settles. A failure that
some caller does not hear of, or an entry it would wait for in vain, would break it.
Weak fairness is enough for all of them as each stays enabled until it happens.
Nothing is assumed of clients, of the market, or of lost connections.
`RoutedSymbolsAreStreamed` holds because connections are lost finitely often,
which is the bound; `ConnectionReturns` admits the two ends the code has, a
refused key and a crash.

A proof or a check of `MarketGateway` sees `Connect` before any request, and a
request handled while its socket is open. The validation pipe is awaited, so a
handler may start after the disconnect; as a disconnect changes nothing a handler
reads, the state is that of a disconnect right after the handler.

## 5. What is proved

For any values of the constants. Of the gateway: any sets of clients, asset
types, symbols, rankings, data types and handlers. The assumptions on constants are `NamesAreDistinct` (a ranking is no
symbol) and `GatewayAssumption` (types of the parameters).

* `TypeCorrect`, `RoutesStayLive`, `SymbolChannelsStayRouted`, `KeptChannels`:
  with every liberty. The invariant is the type invariant with the two properties
  of the book: a route needs a subscriber *and* a data type, and that unlinking a
  channel of one symbol removes all of its routes follows only from
  `SymbolChannelsAreRouted`. `MarketSubscription_proofs` shows once that
  `UpdateSubscriptions` and `ProcessUnsubscription` preserve them, for the calls
  the handlers make (`ValidLinks`); the gateway's proof cites that for each
  action.
* `FeedStaysExact`: assumes that symbols belong to one asset type
  (`SeparateSymbols`) and that calls succeed (`CallsSucceed`). `FeedIsExact` is
  inductive only together with `RoutesStayInAsset`: a symbol is routed to channels
  of its own asset type.
* `RoomsStayWithBook`: assumes `OneChannelAtATime` (no pipelined requests, one
  symbol per request). The invariant adds that a pending join is in the book
  (`JoinsAreBooked`) and that a client that has not connected is nowhere
  (`IdleClientsAreNew`).
* `GatewayImplementsMembership`: under the same assumption, each action of the
  gateway is an action of `ChannelMembership` or a stutter; needs the invariant
  above, as a join must find its channel in the book.

* `OneConnectionAtATime`, `KeyStaysCurrent`, `StockTypeCorrect`
  (`StockMarket_proofs`): from an invariant that the flags are Boolean, that at
  most one of timer, key request and live socket is there, and that from the
  first socket on the key in use is that of the last socket, also while it is
  closed. What a connection received (`KeyIsCurrent`) follows with one more fact
  (`MessagesInv`): nothing is received before a socket is open and nothing of an
  earlier connection is left when the next key comes, for which there must be no
  key request next to a live socket. The types of the book come from `MarketSubscription_proofs`.
* `ConnectionGoesThroughPhases` (`StockMarket_proofs`): each event of the client
  is the step of `Reconnection` of that name, and calls, loops and the clock are
  stutters. The invariant above grows by two facts: `isReconnecting` is down
  while the socket is open (`FlagIsDown`), without which a loss would start no
  timer, and before the first key there is nothing but the request for it.
* `CryptoTypeCorrect`, `StreamStaysCurrent` (`CryptoMarket_proofs`):
  `StreamIsCurrent` is inductive with the types. Calls while the socket connects
  change the sets without a message, and `Opened` repairs it; the assumption that
  names of streams differ (`CryptoAssumption`) is needed to find a ticker stream
  in a message.
* `DriftIsHealed` (`CryptoMarket_proofs`): from two lemmas about the lookups of
  the service, that a subscription gives a first route to the symbols it calls
  the provider for, and that an unsubscribe takes the last route from exactly
  those it releases. No invariant is needed.
* `TypeCorrect`, `InFlightStaysExact`, `LogosStayExplained`, `RefreshesGoForward`
  (`AssetCache_proofs`), for both services, any types, cron jobs, requests and
  answers. The invariant adds to the two state properties that whoever started a
  refresh awaits it (`StartersWait`); that what a refresh has seen includes what
  the last one stored had seen (`RefreshOrder`), which holds as only one is under
  way per type; and that maps and lists under way are as honest about logos as
  those in the cache (`LogosHonest`). Each step of a job either goes on (`GoesOn`)
  or ends, and the invariant is shown once for each.
* `RefreshesStayShared` (`AssetCache_proofs`): `AssetCache` implements
  `SharedRefreshes`. A tick assigns, `JoinRefresh` and `StartRefresh` await, the
  end of a refresh releases everyone, a restart forgets; all other steps of jobs
  are stutters. It needs `InFlightIsExact` and `StartersWait`, so that whoever
  joins awaits a refresh that runs (`JoinAwaits`) and nobody is left waiting for a
  job that ended, and `RefreshOrder`, so that what is stored
  has grown.
* `TypeCorrect`, `ScrollStaysContiguous`, `NullStaysTheEnd`, `ChangesStayRight`
  (`Candles_proofs`): for any readers, limits, page sizes, timeframes and histories.
  The invariant has the same three facts about every page, cached or under way
  (`PageFits`): it is contiguous down from its start to its `nextDateTime`, it has no
  `nextDateTime` only at the end, its changes are right; and two about what a reader
  has put together from them (`ScrollFits`, `ScrollEnds`), which for coins leave out
  the starts it asked for. Pages outlive the moment they were made in, so each
  fact is shown to survive a new candle (`PageStaysFit`). The heart is
  `StockPagesFit` with `WindowReachesBack`: a window with no more candles than were
  asked for, in a history that is `Roomy`, has all there are. `RepeatedDescends`
  bounds what the page loop that fetches the same page can produce. For coins
  `CryptoPageFits` shows that a page has everything before its start, which is
  excluded, down to its `nextDateTime`, and so that the start of the next page is
  all that a reader loses there. Latest candles are a sort of a finite set, whose
  maximum comes from the library's well-founded order of the naturals and not from
  induction. `CandlesAssumption` asks for positive limits and periods, and for
  histories that have a candle and none in the future.
* `CandlesScrollBack` (`Candles_proofs`): `Candles` implements `ScrollBack`. An
  answer, from the cache or a provider, is a stretch that begins at the place of
  its reader (`PageIsStretch`), and between it and the next place there is nothing,
  or of a coin the one candle that becomes the next start (`AnswerGives`); asking,
  fetching, failing and expiring are stutters.
* `SessionsDoNotOverlap` (`MarketHours_proofs`): the Korean and the US market are
  never both open, at any minute, with or without daylight saving. It follows
  from the hours of each in UTC (`KoreanHours`, `USHours`).

Only model-checked: liveness (`ImplementsMembership` beyond its safety part,
`RoutedSymbolsAreStreamed`, `ConnectionReturns`, `OnlyHangingCallsHoldUp`), which
needs fairness and ENABLED and is out of the prover's reach. Every other property
of a passing run is a theorem. The properties of section 3 are false and have none.

## 6. What is not modelled, and the plan

Not modelled: prices and the other numbers of messages and answers, names and
exchanges, the order of rankings, HTTP wrapping, the exchange rate, JWTs and
users, and the Alpaca stream provider and the FMP provider, which no module
provides. A closing socket is a closed one: both drop messages. An error event
of the KIS socket stops the process at once; the code does it a timer tick later.
The gateway takes any list for what a ranking has in the cache; that is more than
`AssetCache` can put there.

Met while reading, and outside of the properties: the API documents a parameter
`nextDateTime` (`financial/financial.controller.ts:76`) and the code reads `start`;
the country is not part of a cache key, so that a list of Korean stocks is served
to whoever asks next; a write of the cache that fails fails the request that has
its data; the stock data of KIS arrives as `NASAAPL` and a client's channel is
`NAS:AAPL`; rankings of coins list markets that are not traded against the won; a
provider is called for symbols that are new to a channel only
(`market.subsciption.service.ts:55`), so that a second request for it with another
data type opens the channel for that type and asks nobody for it.

Order of work, most important behaviour first; what is not marked is open:

1. (done) the book, the gateway, `ChannelMembership`, their proofs; Upbit and KIS
   under the book, their proofs.
2. (done) `AssetCache` with the logos, the registry and the providers' answers,
   and its proofs; market hours; candle pages.
3. (done) proofs about `Candles`; `SharedRefreshes`, `ScrollBack` and
   `Reconnection` with the proofs that they are implemented; `DriftOnlyHeals` and
   its proof.
4. What the providers of `StockSources` and `CryptoSources` answer when their
   servers fail, as lemmas and a theorem about the answers that `AssetCache`
   caches.
5. The same separation of calls and phases for the send loops of `KisStream`: what
   an open connection can have registered.
6. Concurrent first logins, with the database as an external module.
