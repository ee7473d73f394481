---------------------------- MODULE CryptoMarket ----------------------------
(***************************************************************************)
(* The subscription service together with the crypto stream provider: the  *)
(* book of MarketSubscription, the sets and the socket of UpbitStream, and *)
(* calls that change both.  The service calls the provider first and the   *)
(* book second, so that a call that throws leaves the two apart.           *)
(*                                                                         *)
(* A request names one channel and has data types; MarketGateway has the   *)
(* requests with several symbols, those without data types, and the steps  *)
(* around the call.                                                        *)
(***************************************************************************)
EXTENDS Naturals, MarketSubscription

CONSTANTS Timeframes, NoTimeframe, MaxCloses

VARIABLES upbitSocket, subscribedSymbols, activeDataTypes, sent, closes

Upbit == INSTANCE UpbitStream

ASSUME CryptoAssumption ==
    /\ DataTypes \subseteq Upbit!ChannelDataTypes
    /\ Upbit!StreamNamesDiffer
    /\ MaxCloses \in Nat

upbitVars == <<upbitSocket, subscribedSymbols, activeDataTypes, sent, closes>>
vars == <<bookVars, upbitVars>>

TypeOK == BookTypeOK /\ Upbit!UpbitTypeOK

Init == BookInit /\ Upbit!UpbitInit

Requested == (SUBSET DataTypes) \ {{}}

\* The symbols a subscription to ch links: its own, or those the cache lists for
\* the ranking at the time.
Listings(ch) == IF IsRanking(ch) THEN SUBSET Symbols ELSE {{ch[2]}}

-----------------------------------------------------------------------------
(* subscribe *)

Subscribe(c, ch, listed, types, timeframe) ==
    /\ NewSymbols(ch, listed) # {}
    /\ Upbit!Subscribe(NewSymbols(ch, listed), types, timeframe)
    /\ UpdateSubscriptions(c, [k \in {ch} |-> listed], types)

\* The channel routes all of the symbols: the provider is not called, whatever
\* data types and timeframe the request has.
SubscribeRouted(c, ch, listed, types) ==
    /\ NewSymbols(ch, listed) = {}
    /\ UpdateSubscriptions(c, [k \in {ch} |-> listed], types)
    /\ UNCHANGED upbitVars

SubscribeThrows(ch, listed, types, timeframe) ==
    /\ NewSymbols(ch, listed) # {}
    /\ Upbit!SubscribeThrows(NewSymbols(ch, listed), types, timeframe)
    /\ UNCHANGED bookVars

-----------------------------------------------------------------------------
(* unsubscribe: the provider gets no timeframe *)

Unsubscribe(c, ch) ==
    /\ Released(c, {ch}) # {}
    /\ Upbit!Unsubscribe(Released(c, {ch}), NoTimeframe)
    /\ ProcessUnsubscription(c, {ch})

UnsubscribeKept(c, ch) ==
    /\ Released(c, {ch}) = {}
    /\ ProcessUnsubscription(c, {ch})
    /\ UNCHANGED upbitVars

UnsubscribeThrows(c, ch) ==
    /\ Released(c, {ch}) # {}
    /\ Upbit!UnsubscribeThrows(Released(c, {ch}), NoTimeframe)
    /\ UNCHANGED bookVars

-----------------------------------------------------------------------------

SocketEvent == Upbit!SocketEvent /\ UNCHANGED bookVars

Next ==
    \/ \E ch \in Channels, types \in Requested, timeframe \in Timeframes \cup {NoTimeframe} :
         \E listed \in Listings(ch) :
            \/ SubscribeThrows(ch, listed, types, timeframe)
            \/ \E c \in Clients : Subscribe(c, ch, listed, types, timeframe)
    \/ \E ch \in Channels, types \in Requested, c \in Clients :
         \E listed \in Listings(ch) : SubscribeRouted(c, ch, listed, types)
    \/ \E ch \in Channels, c \in Clients :
         Unsubscribe(c, ch) \/ UnsubscribeKept(c, ch) \/ UnsubscribeThrows(c, ch)
    \/ SocketEvent

\* Timers fire and a handshake ends; that it ends well after MaxCloses failures
\* is the bound.
Fairness ==
    /\ WF_vars(Upbit!Opened /\ UNCHANGED bookVars)
    /\ WF_vars(Upbit!ConnectWebSocket /\ UNCHANGED bookVars)

Spec == Init /\ [][Next]_vars /\ Fairness

-----------------------------------------------------------------------------

Routed(s) == symbolChannels[s] # {}

\* The streams that last: a candle stream lives from one message to the next and
\* has no promise to keep.
Lasting == {"ticker", "trade"}

\* The provider's sets, the messages and the connection change in different
\* places: while the socket is open and there are symbols, each of its ticker
\* and trade streams is exactly the set of subscribed symbols, also after calls
\* made while it was closed or connecting.
StreamIsCurrent ==
    upbitSocket = "open" /\ subscribedSymbols # {} =>
        \A k \in Lasting \cap activeDataTypes : sent[k] = subscribedSymbols

\* A symbol that is routed for a type of data the provider was asked for is
\* streamed in the end, whatever happens to the connection, unless it is dropped.
RoutedSymbolsAreStreamed ==
    \A s \in Symbols, k \in Lasting :
        Routed(s) /\ s \in subscribedSymbols /\ k \in activeDataTypes
            ~> s \in sent[k] \/ s \notin subscribedSymbols

\* The symbols on which the book and the provider disagree: routed and not asked
\* for, or asked for and not routed.
Drift == {s \in Symbols : Routed(s) # (s \in subscribedSymbols)}

\* The service calls the provider for the symbols that get their first route and
\* those that lose their last one, found by lookups in three maps.  While no call
\* can throw, that is enough: whatever channels share a symbol and whoever leaves
\* in whatever order, no call sets book and provider apart on a symbol they agreed
\* on, also after earlier calls that threw.
DriftOnlyHeals == [][upbitSocket # "connecting" => Drift' \subseteq Drift]_vars

\* market.subsciption.service.ts:159 says the provider is asked to drop a symbol
\* when no channel has it: a symbol some channel routes is not dropped.
RoutedSymbolsAreSubscribed ==
    \A s \in Symbols : Routed(s) => s \in subscribedSymbols

=============================================================================
