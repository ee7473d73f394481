------------------------ MODULE CryptoMarket_proofs ------------------------
(***************************************************************************)
(* The crypto provider under the subscription service, for any symbols,    *)
(* timeframes, clients and number of lost connections.                     *)
(***************************************************************************)
EXTENDS CryptoMarket, MarketSubscription_proofs

StreamInv == Upbit!UpbitTypeOK /\ StreamIsCurrent
IInv == BookTypeOK /\ StreamInv

LEMMA InitIInv == Init => IInv
<1> SUFFICES ASSUME Init PROVE IInv
  OBVIOUS
<1>1. BookTypeOK
  BY DEF Init, BookInit, BookTypeOK
<1>2. StreamInv
  BY CryptoAssumption DEF Init, Upbit!UpbitInit, StreamInv, Upbit!UpbitTypeOK, StreamIsCurrent,
     Upbit!NothingSent, CryptoAssumption
<1> QED BY <1>1, <1>2 DEF IInv

\* A ticker or trade stream is an entry of every message for its type of data.
LEMMA LastingEntries ==
    ASSUME NEW types, NEW timeframe, NEW k \in Lasting \cap types
    PROVE  k \in Upbit!Entries(types, timeframe) /\ k \in Upbit!Streams
BY CryptoAssumption
  DEF Lasting, Upbit!Entries, Upbit!Streams, CryptoAssumption, Upbit!StreamNamesDiffer,
      Upbit!ChannelDataTypes

LEMMA MessageType ==
    ASSUME NEW symbols \in SUBSET Symbols, NEW types, NEW timeframe
    PROVE  /\ Upbit!Message(symbols, types, timeframe) \in [Upbit!Streams -> SUBSET Symbols]
           /\ \A k \in Lasting \cap types : Upbit!Message(symbols, types, timeframe)[k] = symbols
BY LastingEntries DEF Upbit!Message

LEMMA SubscribeKeepsStream ==
    ASSUME StreamInv, NEW symbols \in SUBSET Symbols, NEW types \in SUBSET DataTypes,
           NEW timeframe,
           \/ Upbit!Subscribe(symbols, types, timeframe)
           \/ Upbit!SubscribeThrows(symbols, types, timeframe)
    PROVE  StreamInv'
<1>1. /\ subscribedSymbols' \in SUBSET Symbols
      /\ activeDataTypes' \in SUBSET Upbit!ChannelDataTypes
      /\ UNCHANGED <<upbitSocket, closes>>
  BY CryptoAssumption DEF Upbit!Subscribe, Upbit!SubscribeThrows, Upbit!AddSubscription,
     StreamInv, Upbit!UpbitTypeOK, CryptoAssumption
<1>2. CASE Upbit!Subscribe(symbols, types, timeframe)
  <2>1. CASE upbitSocket = "open" /\ Upbit!Entries(activeDataTypes', timeframe) # {}
    <3>1. sent' = Upbit!Message(subscribedSymbols', activeDataTypes', timeframe)
      BY <1>2, <2>1 DEF Upbit!Subscribe, Upbit!SendSubscriptionMessage
    <3> QED BY <1>1, <3>1, MessageType DEF StreamInv, Upbit!UpbitTypeOK, StreamIsCurrent
  <2>2. CASE ~(upbitSocket = "open" /\ Upbit!Entries(activeDataTypes', timeframe) # {})
    <3>1. UNCHANGED sent
      BY <1>2, <2>2 DEF Upbit!Subscribe, Upbit!SendSubscriptionMessage
    <3>2. upbitSocket = "open" => Lasting \cap activeDataTypes' = {}
      BY <2>2, LastingEntries
    <3> QED BY <1>1, <3>1, <3>2 DEF StreamInv, Upbit!UpbitTypeOK, StreamIsCurrent
  <2> QED BY <2>1, <2>2
<1>3. CASE Upbit!SubscribeThrows(symbols, types, timeframe)
  BY <1>1, <1>3 DEF Upbit!SubscribeThrows, Upbit!SendThrows, StreamInv, Upbit!UpbitTypeOK,
     StreamIsCurrent
<1> QED BY <1>2, <1>3

LEMMA UnsubscribeKeepsStream ==
    ASSUME StreamInv, NEW symbols,  NEW timeframe,
           \/ Upbit!Unsubscribe(symbols, timeframe)
           \/ Upbit!UnsubscribeThrows(symbols, timeframe)
    PROVE  StreamInv'
<1>1. CASE Upbit!UnsubscribeLast(symbols)
  BY <1>1 DEF Upbit!UnsubscribeLast, StreamInv, Upbit!UpbitTypeOK, StreamIsCurrent
<1>2. CASE Upbit!UnsubscribeSome(symbols, timeframe)
  <2>1. /\ subscribedSymbols' \in SUBSET Symbols
        /\ UNCHANGED <<upbitSocket, activeDataTypes, closes>>
    BY <1>2 DEF Upbit!UnsubscribeSome, StreamInv, Upbit!UpbitTypeOK
  <2>2. CASE upbitSocket = "open" /\ Upbit!Entries(activeDataTypes, timeframe) # {}
    <3>1. sent' = Upbit!Message(subscribedSymbols', activeDataTypes, timeframe)
      BY <1>2, <2>2 DEF Upbit!UnsubscribeSome, Upbit!SendSubscriptionMessage
    <3> QED BY <2>1, <3>1, MessageType DEF StreamInv, Upbit!UpbitTypeOK, StreamIsCurrent
  <2>3. CASE ~(upbitSocket = "open" /\ Upbit!Entries(activeDataTypes, timeframe) # {})
    <3>1. UNCHANGED sent
      BY <1>2, <2>3 DEF Upbit!UnsubscribeSome, Upbit!SendSubscriptionMessage
    <3>2. upbitSocket = "open" => Lasting \cap activeDataTypes = {}
      BY <2>3, LastingEntries
    <3> QED BY <2>1, <3>1, <3>2 DEF StreamInv, Upbit!UpbitTypeOK, StreamIsCurrent
  <2> QED BY <2>2, <2>3
<1>3. CASE Upbit!UnsubscribeThrows(symbols, timeframe)
  BY <1>3 DEF Upbit!UnsubscribeThrows, Upbit!SendThrows, StreamInv, Upbit!UpbitTypeOK,
     StreamIsCurrent
<1> QED BY <1>1, <1>2, <1>3 DEF Upbit!Unsubscribe

LEMMA SocketKeepsStream ==
    ASSUME StreamInv, Upbit!SocketEvent
    PROVE  StreamInv'
<1>1. CASE Upbit!Opened
  <2>1. CASE subscribedSymbols # {} /\ Upbit!Entries(activeDataTypes, NoTimeframe) # {}
    <3>1. sent' = Upbit!Message(subscribedSymbols, activeDataTypes, NoTimeframe)
      BY <1>1, <2>1 DEF Upbit!Opened
    <3> QED BY <1>1, <3>1, MessageType
          DEF Upbit!Opened, StreamInv, Upbit!UpbitTypeOK, StreamIsCurrent
  <2>2. CASE ~(subscribedSymbols # {} /\ Upbit!Entries(activeDataTypes, NoTimeframe) # {})
    <3>1. subscribedSymbols # {} => Lasting \cap activeDataTypes = {}
      BY <2>2, LastingEntries
    <3> QED BY <1>1, <2>2, <3>1 DEF Upbit!Opened, StreamInv, Upbit!UpbitTypeOK, StreamIsCurrent
  <2> QED BY <2>1, <2>2
<1>2. CASE Upbit!Closed
  <2>1. closes' \in 0 .. MaxCloses
    BY <1>2, CryptoAssumption DEF Upbit!Closed, StreamInv, Upbit!UpbitTypeOK, CryptoAssumption
  <2> QED BY <1>2, <2>1
        DEF Upbit!Closed, StreamInv, Upbit!UpbitTypeOK, StreamIsCurrent, Upbit!NothingSent
<1>3. CASE Upbit!ConnectWebSocket
  BY <1>3 DEF Upbit!ConnectWebSocket, StreamInv, Upbit!UpbitTypeOK, StreamIsCurrent
<1> QED BY <1>1, <1>2, <1>3 DEF Upbit!SocketEvent

-----------------------------------------------------------------------------
(* The calls of the service *)

LEMMA ListingsType ==
    ASSUME NEW ch \in Channels, NEW listed \in Listings(ch)
    PROVE  listed \in SUBSET Symbols /\ NewSymbols(ch, listed) \in SUBSET Symbols
BY SymbolChannelName DEF Listings, NewSymbols

LEMMA CallKeepsBook ==
    ASSUME BookTypeOK, NEW c \in Clients, NEW ch \in Channels,
           NEW listed \in Listings(ch), NEW types \in Requested,
           UpdateSubscriptions(c, [k \in {ch} |-> listed], types)
    PROVE  BookTypeOK'
<1>1. ValidLinks([k \in {ch} |-> listed], types)
  <2>1. ~IsRanking(ch) => listed = {ch[2]}
    BY DEF Listings
  <2>2. types \subseteq DataTypes /\ types # {}
    BY DEF Requested
  <2> QED BY <2>1, <2>2, ListingsType DEF ValidLinks
<1> QED BY <1>1, SubscribeTypeOK

LEMMA StepKeepsIInv ==
    ASSUME IInv, [Next]_vars
    PROVE  IInv'
<1> USE DEF IInv
<1>1. ASSUME NEW ch \in Channels, NEW types \in Requested,
             NEW timeframe \in Timeframes \cup {NoTimeframe}, NEW listed \in Listings(ch),
             SubscribeThrows(ch, listed, types, timeframe)
      PROVE  IInv'
  <2>1. StreamInv'
    BY <1>1, ListingsType, SubscribeKeepsStream DEF SubscribeThrows, Requested
  <2> QED BY <1>1, <2>1 DEF SubscribeThrows, bookVars, BookTypeOK
<1>2. ASSUME NEW ch \in Channels, NEW types \in Requested, NEW c \in Clients,
             NEW timeframe \in Timeframes \cup {NoTimeframe}, NEW listed \in Listings(ch),
             Subscribe(c, ch, listed, types, timeframe)
      PROVE  IInv'
  BY <1>2, ListingsType, SubscribeKeepsStream, CallKeepsBook DEF Subscribe, Requested
<1>3. ASSUME NEW ch \in Channels, NEW types \in Requested, NEW c \in Clients,
             NEW listed \in Listings(ch), SubscribeRouted(c, ch, listed, types)
      PROVE  IInv'
  BY <1>3, CallKeepsBook DEF SubscribeRouted, upbitVars, StreamInv, Upbit!UpbitTypeOK,
     StreamIsCurrent
<1>4. ASSUME NEW ch \in Channels, NEW c \in Clients, Unsubscribe(c, ch)
      PROVE  IInv'
  BY <1>4, UnsubscribeKeepsStream, UnsubscribeTypeOK DEF Unsubscribe
<1>5. ASSUME NEW ch \in Channels, NEW c \in Clients, UnsubscribeKept(c, ch)
      PROVE  IInv'
  BY <1>5, UnsubscribeTypeOK DEF UnsubscribeKept, upbitVars, StreamInv, Upbit!UpbitTypeOK,
     StreamIsCurrent
<1>6. ASSUME NEW ch \in Channels, NEW c \in Clients, UnsubscribeThrows(c, ch)
      PROVE  IInv'
  BY <1>6, UnsubscribeKeepsStream DEF UnsubscribeThrows, bookVars, BookTypeOK
<1>7. CASE SocketEvent
  BY <1>7, SocketKeepsStream DEF SocketEvent, bookVars, BookTypeOK
<1>8. CASE UNCHANGED vars
  BY <1>8 DEF vars, bookVars, upbitVars, BookTypeOK, StreamInv, Upbit!UpbitTypeOK,
     StreamIsCurrent
<1> QED BY <1>1, <1>2, <1>3, <1>4, <1>5, <1>6, <1>7, <1>8 DEF Next

LEMMA Invariant == Spec => []IInv
BY InitIInv, StepKeepsIInv, PTL DEF Spec

\* The book, the provider's sets and its messages keep their types.
THEOREM CryptoTypeCorrect == Spec => []TypeOK
<1>1. IInv => TypeOK
  BY DEF IInv, TypeOK, StreamInv
<1> QED BY <1>1, Invariant, PTL

\* sendSubscriptionMessage and resubscribeAll: an open socket streams what the
\* sets say, through calls that throw and any number of lost connections.
THEOREM StreamStaysCurrent == Spec => []StreamIsCurrent
<1>1. IInv => StreamIsCurrent
  BY DEF IInv, StreamInv
<1> QED BY <1>1, Invariant, PTL

-----------------------------------------------------------------------------
(* Book and provider *)

\* What the book routes after a call: a subscription routes what it links, and an
\* unsubscribe takes their last route from exactly the symbols it releases.
LEMMA RoutedAfterSubscribe ==
    ASSUME NEW c, NEW ch, NEW listed, NEW types, NEW s \in Symbols,
           UpdateSubscriptions(c, [k \in {ch} |-> listed], types)
    PROVE  Routed(s)' <=> Routed(s) \/ s \in NewSymbols(ch, listed)
<1>1. symbolChannels'[s] = symbolChannels[s] \cup {k \in {ch} : s \in listed}
  BY DEF UpdateSubscriptions
<1> QED BY <1>1 DEF Routed, NewSymbols

LEMMA RoutedAfterUnsubscribe ==
    ASSUME NEW c, NEW chs, NEW s \in Symbols, ProcessUnsubscription(c, chs)
    PROVE  /\ s \in Released(c, chs) => ~Routed(s)'
           /\ s \notin Released(c, chs) => (Routed(s)' <=> Routed(s))
<1>1. symbolChannels'[s] = symbolChannels[s] \ Unlinked(c, chs, s)
  BY DEF ProcessUnsubscription
<1> QED BY <1>1 DEF Routed, Released

LEMMA DriftStep ==
    ASSUME [Next]_vars, upbitSocket # "connecting"
    PROVE  Drift' \subseteq Drift
<1> SUFFICES ASSUME NEW s \in Symbols, Routed(s) <=> s \in subscribedSymbols
             PROVE  Routed(s)' <=> s \in subscribedSymbols'
  BY DEF Drift, Routed
<1>1. ASSUME NEW ch \in Channels, NEW types \in Requested,
             NEW timeframe \in Timeframes \cup {NoTimeframe}, NEW listed \in Listings(ch),
             SubscribeThrows(ch, listed, types, timeframe)
      PROVE  FALSE
  BY <1>1 DEF SubscribeThrows, Upbit!SubscribeThrows, Upbit!SendThrows
<1>2. ASSUME NEW ch \in Channels, NEW types \in Requested, NEW c \in Clients,
             NEW timeframe \in Timeframes \cup {NoTimeframe}, NEW listed \in Listings(ch),
             Subscribe(c, ch, listed, types, timeframe)
      PROVE  Routed(s)' <=> s \in subscribedSymbols'
  <2>1. subscribedSymbols' = subscribedSymbols \cup NewSymbols(ch, listed)
    BY <1>2 DEF Subscribe, Upbit!Subscribe, Upbit!AddSubscription
  <2> QED BY <1>2, <2>1, RoutedAfterSubscribe DEF Subscribe
<1>3. ASSUME NEW ch \in Channels, NEW types \in Requested, NEW c \in Clients,
             NEW listed \in Listings(ch), SubscribeRouted(c, ch, listed, types)
      PROVE  Routed(s)' <=> s \in subscribedSymbols'
  BY <1>3, RoutedAfterSubscribe DEF SubscribeRouted, upbitVars
<1>4. ASSUME NEW ch \in Channels, NEW c \in Clients, Unsubscribe(c, ch)
      PROVE  Routed(s)' <=> s \in subscribedSymbols'
  <2>1. subscribedSymbols' = subscribedSymbols \ Released(c, {ch})
    BY <1>4 DEF Unsubscribe, Upbit!Unsubscribe, Upbit!UnsubscribeLast, Upbit!UnsubscribeSome
  <2> QED BY <1>4, <2>1, RoutedAfterUnsubscribe DEF Unsubscribe
<1>5. ASSUME NEW ch \in Channels, NEW c \in Clients, UnsubscribeKept(c, ch)
      PROVE  Routed(s)' <=> s \in subscribedSymbols'
  BY <1>5, RoutedAfterUnsubscribe DEF UnsubscribeKept, upbitVars
<1>6. ASSUME NEW ch \in Channels, NEW c \in Clients, UnsubscribeThrows(c, ch)
      PROVE  FALSE
  BY <1>6 DEF UnsubscribeThrows, Upbit!UnsubscribeThrows, Upbit!SendThrows
<1>7. CASE SocketEvent
  BY <1>7 DEF SocketEvent, Upbit!SocketEvent, Upbit!Opened, Upbit!Closed,
     Upbit!ConnectWebSocket, bookVars, Routed
<1>8. CASE UNCHANGED vars
  BY <1>8 DEF vars, bookVars, upbitVars, Routed
<1> QED BY <1>1, <1>2, <1>3, <1>4, <1>5, <1>6, <1>7, <1>8 DEF Next

\* subscribe and unsubscribe of the service: they tell the provider of exactly the
\* symbols whose first route comes or whose last route goes.
THEOREM DriftIsHealed == Spec => DriftOnlyHeals
<1>1. [Next]_vars => [upbitSocket # "connecting" => Drift' \subseteq Drift]_vars
  BY DriftStep
<1> QED BY <1>1, PTL DEF Spec, DriftOnlyHeals

=============================================================================
