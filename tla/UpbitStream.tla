---------------------------- MODULE UpbitStream ----------------------------
(***************************************************************************)
(* The crypto stream provider, UpbitCryptoStreamProvider                   *)
(* (src/gateway/market/providers/upbit/upbit.crypto.provider.ts): a set of *)
(* symbols and a set of data types kept across connections, and one web    *)
(* socket over which each message replaces all that was asked before.      *)
(*                                                                         *)
(* A caller's step is Subscribe or Unsubscribe when the message can be     *)
(* sent or is dropped, SubscribeThrows or UnsubscribeThrows when the       *)
(* socket is still connecting: ws then throws, after the provider changed  *)
(* its sets.                                                               *)
(***************************************************************************)
EXTENDS Naturals

CONSTANTS
    Symbols,
    Timeframes,   \* chart timeframes that timeFrameMap has a stream for
    NoTimeframe,  \* no timeframe given, or one timeFrameMap does not have
    MaxCloses     \* bound: how often a connection is lost or fails to open

\* ChannelDataType
ChannelDataTypes == {"ticker", "quote", "trade", "candle"}

\* What a module that instantiates this one assumes of its constants.
StreamNamesDiffer ==
    /\ NoTimeframe \notin Timeframes
    /\ Timeframes \cap ChannelDataTypes = {}

VARIABLES
    upbitSocket,        \* "connecting", "open", or "closed" awaiting the timer
    subscribedSymbols,
    activeDataTypes,
    sent,    \* sent[k]: the codes of stream k in the last message Upbit was sent
    closes   \* how often the socket was closed

\* The types of stream a message can ask for; a candle stream has a timeframe.
Streams == {"ticker", "trade"} \cup Timeframes

NothingSent == [k \in Streams |-> {}]

UpbitTypeOK ==
    /\ upbitSocket \in {"connecting", "open", "closed"}
    /\ subscribedSymbols \subseteq Symbols
    /\ activeDataTypes \subseteq ChannelDataTypes
    /\ sent \in [Streams -> SUBSET Symbols]
    /\ closes \in 0 .. MaxCloses

\* onModuleInit connects at once.
UpbitInit ==
    /\ upbitSocket = "connecting"
    /\ subscribedSymbols = {}
    /\ activeDataTypes = {}
    /\ sent = NothingSent
    /\ closes = 0

-----------------------------------------------------------------------------
(* sendSubscriptionMessage *)

\* The entries of the message.  Quotes have no stream, candles need a timeframe.
Entries(types, timeframe) == {k \in Streams :
    IF k \in Timeframes THEN "candle" \in types /\ k = timeframe ELSE k \in types}

Message(symbols, types, timeframe) ==
    [k \in Streams |-> IF k \in Entries(types, timeframe) THEN symbols ELSE {}]

\* A message without entries is not sent; one that is sent to a socket that is
\* closing or closed is lost.
SendSubscriptionMessage(symbols, types, timeframe) ==
    sent' = IF upbitSocket = "open" /\ Entries(types, timeframe) # {}
              THEN Message(symbols, types, timeframe) ELSE sent

\* ws throws on a socket that is still connecting.
SendThrows(types, timeframe) ==
    upbitSocket = "connecting" /\ Entries(types, timeframe) # {}

-----------------------------------------------------------------------------
(* Calls of the subscription service *)

\* Mutant: the symbols are added to the other set.
AddSubscriptionCrossed(symbols, types) ==
    /\ subscribedSymbols' = subscribedSymbols
    /\ activeDataTypes' = activeDataTypes \cup symbols

AddSubscription(symbols, types) ==
    /\ subscribedSymbols' = subscribedSymbols \cup symbols
    /\ activeDataTypes' = activeDataTypes \cup types

Subscribe(symbols, types, timeframe) ==
    /\ ~SendThrows(activeDataTypes \cup types, timeframe)
    /\ AddSubscription(symbols, types)
    /\ SendSubscriptionMessage(subscribedSymbols', activeDataTypes', timeframe)
    /\ UNCHANGED <<upbitSocket, closes>>

SubscribeThrows(symbols, types, timeframe) ==
    /\ SendThrows(activeDataTypes \cup types, timeframe)
    /\ AddSubscription(symbols, types)
    /\ UNCHANGED <<upbitSocket, sent, closes>>

\* The last symbol goes without a message: the data types are forgotten and
\* Upbit is not told.
UnsubscribeLast(symbols) ==
    /\ subscribedSymbols \subseteq symbols
    /\ subscribedSymbols' = {}
    /\ activeDataTypes' = {}
    /\ UNCHANGED <<upbitSocket, sent, closes>>

UnsubscribeSome(symbols, timeframe) ==
    /\ ~(subscribedSymbols \subseteq symbols)
    /\ ~SendThrows(activeDataTypes, timeframe)
    /\ subscribedSymbols' = subscribedSymbols \ symbols
    /\ SendSubscriptionMessage(subscribedSymbols', activeDataTypes, timeframe)
    /\ UNCHANGED <<upbitSocket, activeDataTypes, closes>>

Unsubscribe(symbols, timeframe) ==
    UnsubscribeLast(symbols) \/ UnsubscribeSome(symbols, timeframe)

UnsubscribeThrows(symbols, timeframe) ==
    /\ ~(subscribedSymbols \subseteq symbols)
    /\ SendThrows(activeDataTypes, timeframe)
    /\ subscribedSymbols' = subscribedSymbols \ symbols
    /\ UNCHANGED <<upbitSocket, activeDataTypes, sent, closes>>

-----------------------------------------------------------------------------
(* Events of the socket *)

\* Mutant: the open event does not resubscribe.
OpenedSilently ==
    /\ upbitSocket = "connecting"
    /\ upbitSocket' = "open"
    /\ UNCHANGED <<subscribedSymbols, activeDataTypes, sent, closes>>

\* The open event resubscribes, without a timeframe.
Opened ==
    /\ upbitSocket = "connecting"
    /\ upbitSocket' = "open"
    /\ sent' = IF subscribedSymbols # {} /\ Entries(activeDataTypes, NoTimeframe) # {}
                 THEN Message(subscribedSymbols, activeDataTypes, NoTimeframe) ELSE sent
    /\ UNCHANGED <<subscribedSymbols, activeDataTypes, closes>>

\* The connection is lost, or could not be opened: the close event starts the
\* timer either way.
Closed ==
    /\ upbitSocket # "closed"
    /\ closes < MaxCloses
    /\ upbitSocket' = "closed"
    /\ sent' = NothingSent
    /\ closes' = closes + 1
    /\ UNCHANGED <<subscribedSymbols, activeDataTypes>>

\* Mutant: only the first loss is followed by a new connection.
ConnectWebSocketOnce ==
    /\ upbitSocket = "closed" /\ closes = 1
    /\ upbitSocket' = "connecting"
    /\ UNCHANGED <<subscribedSymbols, activeDataTypes, sent, closes>>

\* Five seconds later.
ConnectWebSocket ==
    /\ upbitSocket = "closed"
    /\ upbitSocket' = "connecting"
    /\ UNCHANGED <<subscribedSymbols, activeDataTypes, sent, closes>>

SocketEvent == Opened \/ Closed \/ ConnectWebSocket

=============================================================================
