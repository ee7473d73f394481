------------------------ MODULE MarketGateway_proofs ------------------------
(***************************************************************************)
(* Proofs about the gateway, for every set of clients, channels, handlers  *)
(* and every choice of what clients and outages may do.                    *)
(***************************************************************************)
EXTENDS MarketGateway, MarketSubscription_proofs

-----------------------------------------------------------------------------
(* How requests touch the book *)

LEMMA SymbolRequestChannels ==
    ASSUME NEW a \in AssetTypes, NEW chs \in SymbolRequests(a)
    PROVE  /\ chs \in SUBSET Channels
           /\ \A ch \in chs : ch[1] = a /\ ch[2] \in SymbolsOf[a] /\ ch[2] \in Symbols
                              /\ ch = <<a, ch[2]>>
BY GatewayAssumption DEF SymbolRequests, Channels

LEMMA RankingChannelsType ==
    ASSUME NEW a \in AssetTypes, NEW ch \in RankingChannels(a)
    PROVE  ch \in Channels /\ IsRanking(ch) /\ ch[1] = a /\ ch \in AssetTypes \X Rankings
BY DEF RankingChannels, Channels, IsRanking

LEMMA UnsubscribeRequestChannels ==
    ASSUME NEW a \in AssetTypes, NEW chs \in UnsubscribeRequests(a)
    PROVE  chs \in SUBSET Channels /\ \A ch \in chs : ch[1] = a
BY SymbolRequestChannels, RankingChannelsType DEF UnsubscribeRequests

LEMMA OwnSymbolLinks ==
    ASSUME NEW a \in AssetTypes, NEW chs \in SymbolRequests(a), NEW done \in SUBSET chs,
           NEW types \in SUBSET DataTypes, types = {} => done = {}
    PROVE  ValidLinks(OwnSymbol(done), types)
BY SymbolRequestChannels DEF ValidLinks, OwnSymbol

LEMMA WaitingForCache ==
    ASSUME TypeOK, NEW h \in Handlers, handler[h].step = "cache"
    PROVE  /\ handler[h].client \in Clients
           /\ handler[h].channel \in AssetTypes \X Rankings
           /\ handler[h].channel \in Channels
           /\ handler[h].channel[1] \in AssetTypes
           /\ IsRanking(handler[h].channel)
           /\ handler[h].types \in TypeRequests
           /\ handler[h].types \in SUBSET DataTypes
<1>1. handler[h] \in HandlerStates
  BY DEF TypeOK
<1>2. handler[h] \in [step : {"cache"}, client : Clients,
                      channel : AssetTypes \X Rankings, types : TypeRequests]
  BY <1>1 DEF HandlerStates, Free
<1> QED
  BY <1>2 DEF Channels, IsRanking, TypeRequests

LEMMA WaitingForJoin ==
    ASSUME TypeOK, NEW h \in Handlers, handler[h].step = "join"
    PROVE  /\ handler[h].client \in Clients
           /\ handler[h].channel \in Channels
           /\ handler[h] = WaitForJoin(handler[h].client, handler[h].channel)
<1>1. handler[h] \in HandlerStates
  BY DEF TypeOK
<1>2. handler[h] \in [step : {"join"}, client : Clients, channel : Channels]
  BY <1>1 DEF HandlerStates, Free
<1> QED
  BY <1>2 DEF WaitForJoin

LEMMA RankingLinks ==
    ASSUME NEW ch \in Channels, IsRanking(ch), NEW listed \in SUBSET Symbols,
           NEW types \in SUBSET DataTypes, types # {}
    PROVE  ValidLinks([k \in {ch} |-> listed], types)
BY DEF ValidLinks

-----------------------------------------------------------------------------
(* Every step leaves the book alone or makes one of its two calls *)

BookSubscribe == \E c \in Clients : \E types \in SUBSET DataTypes :
    \E links \in UNION {[chs -> SUBSET Symbols] : chs \in SUBSET Channels} :
        ValidLinks(links, types) /\ UpdateSubscriptions(c, links, types)

BookUnsubscribe == \E c \in Clients, chs \in SUBSET Channels : ProcessUnsubscription(c, chs)

LEMMA BookStep ==
    ASSUME TypeOK, [Next]_vars
    PROVE  UNCHANGED bookVars \/ BookSubscribe \/ BookUnsubscribe
<1>0. ASSUME NEW c \in Clients, NEW links, NEW types \in SUBSET DataTypes,
             links \in [DOMAIN links -> SUBSET Symbols],
             ValidLinks(links, types), UpdateSubscriptions(c, links, types)
      PROVE  BookSubscribe
  BY <1>0 DEF BookSubscribe, ValidLinks
<1>1. ASSUME NEW c \in Clients, NEW a \in AssetTypes, NEW types \in TypeRequests,
             NEW h \in Handlers, NEW chs \in SymbolRequests(a),
             SubscribeSymbols(h, c, a, chs, types)
      PROVE  BookSubscribe
  <2>1. ValidLinks(OwnSymbol(chs), types)
    BY <1>1, OwnSymbolLinks DEF SubscribeSymbols, TypeRequests
  <2>2. OwnSymbol(chs) \in [DOMAIN OwnSymbol(chs) -> SUBSET Symbols]
    BY SymbolRequestChannels DEF OwnSymbol
  <2> QED
    BY <1>0, <1>1, <2>1, <2>2 DEF SubscribeSymbols, TypeRequests
<1>2. ASSUME NEW c \in Clients, NEW a \in AssetTypes, NEW types \in TypeRequests,
             NEW chs \in SymbolRequests(a), NEW failed \in chs,
             NEW done \in SUBSET (chs \ {failed}),
             SubscribeSymbolsThrows(c, a, done, failed, types)
      PROVE  BookSubscribe
  <2>1. ValidLinks(OwnSymbol(done), types)
    BY <1>2, OwnSymbolLinks DEF SubscribeSymbolsThrows, TypeRequests
  <2>2. OwnSymbol(done) \in [DOMAIN OwnSymbol(done) -> SUBSET Symbols]
    BY SymbolRequestChannels DEF OwnSymbol
  <2> QED
    BY <1>0, <1>2, <2>1, <2>2 DEF SubscribeSymbolsThrows, TypeRequests
<1>3. ASSUME NEW c \in Clients, NEW a \in AssetTypes, NEW types \in TypeRequests,
             NEW h \in Handlers, NEW ch \in RankingChannels(a),
             SubscribeRanking(h, c, ch, types)
      PROVE  UNCHANGED bookVars
  BY <1>3 DEF SubscribeRanking
<1>4. ASSUME NEW h \in Handlers, NEW listed \in SUBSET Symbols,
             ResumeRanking(h, listed)
      PROVE  BookSubscribe
  <2> DEFINE w == handler[h]
  <2>1. /\ w.client \in Clients /\ w.channel \in Channels /\ IsRanking(w.channel)
        /\ w.types \in SUBSET DataTypes
    BY <1>4, WaitingForCache DEF ResumeRanking
  <2>2. /\ w.types # {}
        /\ UpdateSubscriptions(w.client, [ch \in {w.channel} |-> listed], w.types)
    BY <1>4 DEF ResumeRanking
  <2>3. ValidLinks([ch \in {w.channel} |-> listed], w.types)
    BY <2>1, <2>2, RankingLinks
  <2>4. [ch \in {w.channel} |-> listed] \in
          [DOMAIN [ch \in {w.channel} |-> listed] -> SUBSET Symbols]
    OBVIOUS
  <2> HIDE DEF w
  <2> QED
    BY <1>0, <2>1, <2>2, <2>3, <2>4
<1>5. ASSUME NEW h \in Handlers, CacheAnswers(h)
      PROVE  UNCHANGED bookVars \/ BookSubscribe
  BY <1>4, <1>5, GatewayAssumption DEF CacheAnswers, CacheFails, ResumeRankingThrows
<1>6. ASSUME NEW c \in Clients, Subscribe(c)
      PROVE  UNCHANGED bookVars \/ BookSubscribe
  BY <1>1, <1>2, <1>3, <1>6 DEF Subscribe
<1>7. ASSUME NEW c \in Clients, Unsubscribes(c)
      PROVE  BookUnsubscribe
  <2>0. PICK a \in AssetTypes, types \in TypeRequests : \E chs \in UnsubscribeRequests(a) :
          \/ Unsubscribe(c, a, chs, types)
          \/ \E failed \in chs : \E done \in SUBSET (chs \ {failed}) :
               UnsubscribeThrows(c, a, done, failed, types)
    BY <1>7 DEF Unsubscribes
  <2>1. PICK chs \in UnsubscribeRequests(a) :
          \/ Unsubscribe(c, a, chs, types)
          \/ \E failed \in chs : \E done \in SUBSET (chs \ {failed}) :
               UnsubscribeThrows(c, a, done, failed, types)
    BY <2>0
  <2>2. chs \in SUBSET Channels
    BY UnsubscribeRequestChannels
  <2> QED
    BY <2>1, <2>2 DEF Unsubscribe, UnsubscribeThrows, BookUnsubscribe
<1>8. CASE UNCHANGED vars
  BY <1>8 DEF vars, bookVars
<1> QED
  BY <1>5, <1>6, <1>7, <1>8 DEF Next, Connect, Disconnect, Join

-----------------------------------------------------------------------------
(* Type correctness and the book *)

LEMMA InitTypeOK == Init => TypeOK
BY DEF Init, TypeOK, BookInit, BookTypeOK, HandlerStates

LEMMA HandlerStateTypes ==
    ASSUME NEW c \in Clients
    PROVE  /\ Free \in HandlerStates
           /\ \A ch \in Channels : WaitForJoin(c, ch) \in HandlerStates
           /\ \A ch \in AssetTypes \X Rankings, types \in TypeRequests :
                WaitForCache(c, ch, types) \in HandlerStates
BY DEF HandlerStates, WaitForJoin, WaitForCache

LEMMA ReleasedType == ASSUME NEW c, NEW chs PROVE Released(c, chs) \subseteq Symbols
BY DEF Released

LEMMA NewSymbolsType == ASSUME NEW ch, NEW syms PROVE NewSymbols(ch, syms) \subseteq syms
BY DEF NewSymbols

LEMMA BookStepTypeOK ==
    ASSUME BookTypeOK, UNCHANGED bookVars \/ BookSubscribe \/ BookUnsubscribe
    PROVE  BookTypeOK'
<1>1. CASE UNCHANGED bookVars
  BY <1>1 DEF bookVars, BookTypeOK
<1>2. CASE BookSubscribe
  BY <1>2, SubscribeTypeOK DEF BookSubscribe
<1>3. CASE BookUnsubscribe
  BY <1>3, UnsubscribeTypeOK DEF BookUnsubscribe
<1> QED
  BY <1>1, <1>2, <1>3

LEMMA StepTypeOK == ASSUME TypeOK, [Next]_vars PROVE TypeOK'
<1>0. BookTypeOK'
  BY BookStep, BookStepTypeOK DEF TypeOK
<1> SUFFICES /\ socket' \in [Clients -> {"idle", "open", "closed"}]
             /\ rooms' \in [Clients -> SUBSET Channels]
             /\ handler' \in [Handlers -> HandlerStates]
             /\ feed' \in [AssetTypes -> SUBSET Symbols]
  BY <1>0 DEF TypeOK
<1> USE DEF TypeOK
<1>1. ASSUME NEW c \in Clients, Connect(c) \/ Disconnect(c)
      PROVE  TypeOK'
  BY <1>0, <1>1 DEF Connect, Disconnect
<1>2. ASSUME NEW c \in Clients, NEW a \in AssetTypes, NEW types \in TypeRequests,
             NEW h \in Handlers, NEW chs \in SymbolRequests(a),
             SubscribeSymbols(h, c, a, chs, types)
      PROVE  TypeOK'
  <2>1. chs \in SUBSET Channels
    BY SymbolRequestChannels
  <2> QED
    BY <1>0, <1>2, <2>1, HandlerStateTypes DEF SubscribeSymbols
<1>3. ASSUME NEW c \in Clients, NEW a \in AssetTypes, NEW types \in TypeRequests,
             NEW chs \in SymbolRequests(a), NEW failed \in chs,
             NEW done \in SUBSET (chs \ {failed}),
             SubscribeSymbolsThrows(c, a, done, failed, types)
      PROVE  TypeOK'
  <2>1. NewSymbols(failed, {failed[2]}) \subseteq Symbols
    BY SymbolRequestChannels, NewSymbolsType
  <2> QED
    BY <1>0, <1>3, <2>1 DEF SubscribeSymbolsThrows
<1>4. ASSUME NEW c \in Clients, NEW a \in AssetTypes, NEW types \in TypeRequests,
             NEW h \in Handlers, NEW ch \in RankingChannels(a),
             SubscribeRanking(h, c, ch, types)
      PROVE  TypeOK'
  BY <1>0, <1>4, RankingChannelsType, HandlerStateTypes DEF SubscribeRanking
<1>5. ASSUME NEW h \in Handlers, NEW listed \in SUBSET Symbols,
             handler[h].step = "cache",
             ResumeRanking(h, listed) \/ ResumeRankingThrows(h, listed)
      PROVE  TypeOK'
  <2>1. /\ handler[h].client \in Clients /\ handler[h].channel \in Channels
        /\ handler[h].channel[1] \in AssetTypes
    BY <1>5, WaitingForCache
  <2>2. NewSymbols(handler[h].channel, listed) \subseteq Symbols
    BY NewSymbolsType
  <2>3. Free \in HandlerStates /\ WaitForJoin(handler[h].client, handler[h].channel) \in HandlerStates
    BY <2>1, HandlerStateTypes
  <2> QED
    BY <1>0, <1>5, <2>1, <2>2, <2>3 DEF ResumeRanking, ResumeRankingThrows
<1>6. ASSUME NEW h \in Handlers, Join(h)
      PROVE  TypeOK'
  <2>1. handler[h].client \in Clients /\ handler[h].channel \in Channels
    BY <1>6, WaitingForJoin DEF Join
  <2> QED
    BY <1>0, <1>6, <2>1 DEF Join, HandlerStates
<1>7. ASSUME NEW h \in Handlers, CacheAnswers(h)
      PROVE  TypeOK'
  <2>1. CASE CacheFails(h)
    BY <1>0, <2>1 DEF CacheFails, HandlerStates
  <2>2. CASE ~CacheFails(h)
    BY <1>5, <1>7, <2>2, GatewayAssumption DEF CacheAnswers
  <2> QED
    BY <2>1, <2>2
<1>8. ASSUME NEW c \in Clients, NEW a \in AssetTypes, NEW types \in TypeRequests,
             NEW chs \in UnsubscribeRequests(a), Unsubscribe(c, a, chs, types)
      PROVE  TypeOK'
  BY <1>0, <1>8 DEF Unsubscribe
<1>9. ASSUME NEW c \in Clients, NEW a \in AssetTypes, NEW types \in TypeRequests,
             NEW failed, NEW done, UnsubscribeThrows(c, a, done, failed, types)
      PROVE  TypeOK'
  BY <1>0, <1>9 DEF UnsubscribeThrows
<1>10. ASSUME NEW c \in Clients, Subscribe(c)
       PROVE  TypeOK'
  BY <1>2, <1>3, <1>4, <1>10 DEF Subscribe
<1>11. ASSUME NEW c \in Clients, Unsubscribes(c)
       PROVE  TypeOK'
  BY <1>8, <1>9, <1>11 DEF Unsubscribes
<1>12. CASE UNCHANGED vars
  BY <1>12 DEF vars
<1> QED
  BY <1>1, <1>6, <1>7, <1>10, <1>11, <1>12 DEF Next

\* Every variable keeps its type.
THEOREM TypeCorrect == Spec => []TypeOK
<1>1. Init => TypeOK
  BY InitTypeOK
<1>2. TypeOK /\ [Next]_vars => TypeOK'
  BY StepTypeOK
<1> QED
  BY <1>1, <1>2, PTL DEF Spec

LEMMA StepBookInv == ASSUME TypeOK, BookInv, [Next]_vars PROVE BookInv'
<1>1. CASE UNCHANGED bookVars
  <2> USE <1>1 DEF bookVars
  <2>1. BookTypeOK' /\ RoutesAreLive'
    BY DEF BookInv, BookTypeOK, RoutesAreLive
  <2>2. SymbolChannelsAreRouted'
    BY DEF BookInv, SymbolChannelsAreRouted, SymbolsForChannel, IsRanking
  <2> QED
    BY <2>1, <2>2 DEF BookInv
<1>2. CASE BookSubscribe
  BY <1>2, SubscribeKeepsBook DEF BookSubscribe
<1>3. CASE BookUnsubscribe
  BY <1>3, UnsubscribeKeepsBook DEF BookUnsubscribe
<1> QED
  BY <1>1, <1>2, <1>3, BookStep

\* Whatever clients send and whatever fails: data is never routed to a channel
\* without subscribers or without data types.
THEOREM RoutesStayLive == Spec => []RoutesAreLive
<1>1. Init => TypeOK /\ BookInv
  BY InitTypeOK, BookInitInv DEF Init
<1>2. TypeOK /\ BookInv /\ [Next]_vars => (TypeOK /\ BookInv)'
  BY StepTypeOK, StepBookInv
<1>3. BookInv => RoutesAreLive
  BY DEF BookInv
<1> QED
  BY <1>1, <1>2, <1>3, PTL DEF Spec

\* The two maps agree on every channel of one symbol.
THEOREM SymbolChannelsStayRouted == Spec => []SymbolChannelsAreRouted
<1>1. Init => TypeOK /\ BookInv
  BY InitTypeOK, BookInitInv DEF Init
<1>2. TypeOK /\ BookInv /\ [Next]_vars => (TypeOK /\ BookInv)'
  BY StepTypeOK, StepBookInv
<1>3. BookInv => SymbolChannelsAreRouted
  BY DEF BookInv
<1> QED
  BY <1>1, <1>2, <1>3, PTL DEF Spec

\* No step takes a symbol or a data type from a channel that keeps a subscriber.
THEOREM KeptChannels == Spec => KeptChannelsKeepTheirData
<1>1. ASSUME TypeOK, [Next]_vars
      PROVE  [KeptChannelsStep]_bookVars
  <2>1. CASE BookSubscribe
    BY <1>1, <2>1, SubscribeKeepsChannels DEF BookSubscribe, TypeOK
  <2>2. CASE BookUnsubscribe
    BY <1>1, <2>2, UnsubscribeKeepsChannels DEF BookUnsubscribe, TypeOK
  <2> QED
    BY <1>1, <2>1, <2>2, BookStep
<1>2. TypeOK /\ [Next]_vars => [KeptChannelsStep]_bookVars
  BY <1>1
<1>3. Spec => [][KeptChannelsStep]_bookVars
  BY TypeCorrect, <1>2, PTL DEF Spec
<1> QED
  BY <1>3 DEF KeptChannelsKeepTheirData, KeptChannelsStep

-----------------------------------------------------------------------------
(* The feed.  A symbol is routed only by channels of an asset type it exists *)
(* for; when no symbol exists for two asset types, the last route of a       *)
(* symbol is also the last route of its asset type.                          *)

RoutesStayInAsset ==
    \A s \in Symbols : \A ch \in symbolChannels[s] : s \in SymbolsOf[ch[1]]

SeparateSymbols == \A a, b \in AssetTypes : a # b => SymbolsOf[a] \cap SymbolsOf[b] = {}

CallsSucceed == Allowed \cap {"untyped", "outages"} = {}

FeedInv == TypeOK /\ RoutesStayInAsset /\ FeedIsExact

LEMMA UnsubscribeStepFeed ==
    ASSUME SeparateSymbols, FeedInv, NEW c \in Clients, NEW a \in AssetTypes,
           NEW chs \in SUBSET Channels, \A ch \in chs : ch[1] = a,
           ProcessUnsubscription(c, chs),
           feed' = [feed EXCEPT ![a] = @ \ Released(c, chs)]
    PROVE  RoutesStayInAsset' /\ FeedIsExact'
<1>1. \A s \in Symbols : symbolChannels'[s] = symbolChannels[s] \ Unlinked(c, chs, s)
  BY DEF ProcessUnsubscription
<1>2. \A s \in Symbols : Unlinked(c, chs, s) \subseteq chs
  BY DEF Unlinked
<1>3. RoutesStayInAsset'
  BY <1>1 DEF FeedInv, RoutesStayInAsset
<1>4. ASSUME NEW s \in Symbols
      PROVE  s \in feed'[a] <=> \E ch \in symbolChannels'[s] : ch[1] = a
  <2>0. feed'[a] = feed[a] \ Released(c, chs)
    BY DEF FeedInv, TypeOK
  <2>1. s \in feed[a] <=> \E ch \in symbolChannels[s] : ch[1] = a
    BY DEF FeedInv, FeedIsExact
  <2>2. CASE s \in feed[a]
    <3>1. PICK ch0 \in symbolChannels[s] : ch0[1] = a
      BY <2>1, <2>2
    <3>2. \A ch \in symbolChannels[s] : ch[1] = a
      <4> SUFFICES ASSUME NEW ch \in symbolChannels[s] PROVE ch[1] = a
        OBVIOUS
      <4>1. ch[1] \in AssetTypes
        BY DEF FeedInv, TypeOK, BookTypeOK, Channels
      <4>2. s \in SymbolsOf[ch[1]] /\ s \in SymbolsOf[a]
        BY <3>1 DEF FeedInv, RoutesStayInAsset
      <4> QED
        BY <4>1, <4>2 DEF SeparateSymbols
    <3>3. s \in Released(c, chs) <=> symbolChannels[s] \subseteq Unlinked(c, chs, s)
      BY <3>1 DEF Released
    <3> QED
      BY <1>1, <2>0, <2>2, <3>2, <3>3
  <2>3. CASE s \notin feed[a]
    BY <1>1, <2>0, <2>1, <2>3
  <2> QED
    BY <2>2, <2>3
<1>5. ASSUME NEW b \in AssetTypes, b # a, NEW s \in Symbols
      PROVE  s \in feed'[b] <=> \E ch \in symbolChannels'[s] : ch[1] = b
  <2>1. feed'[b] = feed[b]
    BY <1>5 DEF FeedInv, TypeOK
  <2>2. \A ch \in symbolChannels[s] : ch[1] = b => ch \in symbolChannels'[s]
    BY <1>1, <1>2, <1>5
  <2>3. symbolChannels'[s] \subseteq symbolChannels[s]
    BY <1>1
  <2> QED
    BY <2>1, <2>2, <2>3 DEF FeedInv, FeedIsExact
<1> QED
  BY <1>3, <1>4, <1>5 DEF FeedIsExact

\* Asking the provider for the symbols a channel does not route yet, and linking
\* all of them, keeps the feed exact.
LEMMA SubscribeStepFeed ==
    ASSUME FeedInv, NEW c \in Clients, NEW a \in AssetTypes, NEW types, NEW links,
           UpdateSubscriptions(c, links, types),
           \A ch \in DOMAIN links : ch[1] = a /\ links[ch] \subseteq SymbolsOf[a],
           NEW new \in SUBSET Symbols,
           \A s \in Symbols : s \in new <=>
               \E ch \in DOMAIN links : s \in links[ch] /\ ch \notin symbolChannels[s],
           feed' = [feed EXCEPT ![a] = @ \cup new]
    PROVE  RoutesStayInAsset' /\ FeedIsExact'
<1>1. \A s \in Symbols : symbolChannels'[s] =
        symbolChannels[s] \cup {ch \in DOMAIN links : s \in links[ch]}
  BY DEF UpdateSubscriptions
<1>2. RoutesStayInAsset'
  BY <1>1 DEF FeedInv, RoutesStayInAsset
<1>3. ASSUME NEW b \in AssetTypes, NEW s \in Symbols
      PROVE  s \in feed'[b] <=> \E ch \in symbolChannels'[s] : ch[1] = b
  <2>1. s \in feed[b] <=> \E ch \in symbolChannels[s] : ch[1] = b
    BY DEF FeedInv, FeedIsExact
  <2>2. feed'[b] = IF b = a THEN feed[b] \cup new ELSE feed[b]
    BY DEF FeedInv, TypeOK
  <2>3. CASE b = a
    BY <1>1, <2>1, <2>2, <2>3
  <2>4. CASE b # a
    BY <1>1, <2>1, <2>2, <2>4
  <2> QED
    BY <2>3, <2>4
<1> QED
  BY <1>2, <1>3 DEF FeedIsExact

LEMMA StepFeedInv ==
    ASSUME SeparateSymbols, CallsSucceed, FeedInv, [Next]_vars
    PROVE  FeedInv'
<1>0. TypeOK'
  BY StepTypeOK DEF FeedInv
<1> SUFFICES RoutesStayInAsset' /\ FeedIsExact'
  BY <1>0 DEF FeedInv
<1>1. ASSUME UNCHANGED <<symbolChannels, feed>>
      PROVE  RoutesStayInAsset' /\ FeedIsExact'
  BY <1>1 DEF FeedInv, RoutesStayInAsset, FeedIsExact
<1>2. ASSUME NEW c \in Clients, NEW a \in AssetTypes, NEW types \in TypeRequests,
             NEW h \in Handlers, NEW chs \in SymbolRequests(a),
             SubscribeSymbols(h, c, a, chs, types)
      PROVE  RoutesStayInAsset' /\ FeedIsExact'
  <2> DEFINE links == OwnSymbol(chs)
             new == {s \in Symbols : <<a, s>> \in chs \ symbolChannels[s]}
  <2>1. /\ UpdateSubscriptions(c, links, types)
        /\ feed' = [feed EXCEPT ![a] = @ \cup new]
    BY <1>2 DEF SubscribeSymbols
  <2>2. \A ch \in DOMAIN links : ch[1] = a /\ links[ch] \subseteq SymbolsOf[a]
    BY SymbolRequestChannels DEF OwnSymbol
  <2>3. \A s \in Symbols : s \in new <=>
          \E ch \in DOMAIN links : s \in links[ch] /\ ch \notin symbolChannels[s]
    BY SymbolRequestChannels DEF OwnSymbol
  <2>4. FeedInv
    OBVIOUS
  <2> HIDE DEF links, new
  <2>5. new \in SUBSET Symbols
    BY DEF new
  <2> QED
    BY <2>1, <2>2, <2>3, <2>4, <2>5, SubscribeStepFeed
<1>3. ASSUME NEW h \in Handlers, NEW a \in AssetTypes, NEW listed \in SUBSET SymbolsOf[a],
             handler[h].step = "cache", handler[h].channel[1] = a,
             ResumeRanking(h, listed)
      PROVE  RoutesStayInAsset' /\ FeedIsExact'
  <2> DEFINE w == handler[h]
             links == [ch \in {w.channel} |-> listed]
             new == NewSymbols(w.channel, listed)
  <2>1. /\ UpdateSubscriptions(w.client, links, w.types)
        /\ feed' = [feed EXCEPT ![a] = @ \cup new]
    BY <1>3 DEF ResumeRanking
  <2>2. \A ch \in DOMAIN links : ch[1] = a /\ links[ch] \subseteq SymbolsOf[a]
    BY <1>3
  <2>3. \A s \in Symbols : s \in new <=>
          \E ch \in DOMAIN links : s \in links[ch] /\ ch \notin symbolChannels[s]
    BY DEF NewSymbols
  <2>4. w.client \in Clients
    BY <1>3, WaitingForCache DEF FeedInv
  <2>5. new \in SUBSET Symbols
    BY NewSymbolsType, GatewayAssumption
  <2> HIDE DEF links, new
  <2> QED
    BY <2>1, <2>2, <2>3, <2>4, <2>5, SubscribeStepFeed
<1>4. ASSUME NEW h \in Handlers, CacheAnswers(h)
      PROVE  RoutesStayInAsset' /\ FeedIsExact'
  <2>1. ~CacheFails(h)
    BY DEF CacheFails, CallsSucceed
  <2>2. PICK a \in AssetTypes : \E listed \in SUBSET SymbolsOf[a] :
          /\ handler[h].step = "cache" /\ handler[h].channel[1] = a
          /\ ResumeRanking(h, listed) \/ ResumeRankingThrows(h, listed)
    BY <1>4, <2>1 DEF CacheAnswers
  <2>3. PICK listed \in SUBSET SymbolsOf[a] :
          /\ handler[h].step = "cache" /\ handler[h].channel[1] = a
          /\ ResumeRanking(h, listed) \/ ResumeRankingThrows(h, listed)
    BY <2>2
  <2>4. handler[h].types # {}
    BY <2>3, WaitingForCache DEF FeedInv, TypeRequests, CallsSucceed
  <2>5. ~ResumeRankingThrows(h, listed)
    BY <2>4 DEF ResumeRankingThrows, MayThrow, CallsSucceed
  <2> QED
    BY <1>3, <2>3, <2>5
<1>5. ASSUME NEW c \in Clients, Subscribe(c)
      PROVE  RoutesStayInAsset' /\ FeedIsExact'
  <2>1. ASSUME NEW a \in AssetTypes, NEW types \in TypeRequests, NEW failed, NEW done
        PROVE  ~SubscribeSymbolsThrows(c, a, done, failed, types)
    BY DEF SubscribeSymbolsThrows, MayThrow, TypeRequests, CallsSucceed
  <2> QED
    BY <1>1, <1>2, <1>5, <2>1 DEF Subscribe, SubscribeRanking, bookVars
<1>6. ASSUME NEW c \in Clients, Unsubscribes(c)
      PROVE  RoutesStayInAsset' /\ FeedIsExact'
  <2>1. ASSUME NEW a \in AssetTypes, NEW types \in TypeRequests, NEW failed, NEW done
        PROVE  ~UnsubscribeThrows(c, a, done, failed, types)
    BY DEF UnsubscribeThrows, MayThrow, TypeRequests, CallsSucceed
  <2>2. PICK a \in AssetTypes, types \in TypeRequests :
          \E chs \in UnsubscribeRequests(a) : Unsubscribe(c, a, chs, types)
    BY <1>6, <2>1 DEF Unsubscribes
  <2>3. PICK chs \in UnsubscribeRequests(a) : Unsubscribe(c, a, chs, types)
    BY <2>2
  <2> QED
    BY <2>3, UnsubscribeRequestChannels, UnsubscribeStepFeed DEF Unsubscribe
<1>7. CASE UNCHANGED vars
  BY <1>1, <1>7 DEF vars
<1> QED
  BY <1>1, <1>4, <1>5, <1>6, <1>7 DEF Next, Connect, Disconnect, Join, bookVars

\* As long as requests have data types and no call fails, the providers are asked
\* for exactly the symbols that are routed, however requests overlap.
THEOREM FeedStaysExact ==
    ASSUME SeparateSymbols, CallsSucceed
    PROVE  Spec => []FeedIsExact
<1>1. Init => FeedInv
  <2> SUFFICES ASSUME Init PROVE RoutesStayInAsset /\ FeedIsExact
    BY InitTypeOK DEF FeedInv
  <2> QED
    BY DEF Init, BookInit, RoutesStayInAsset, FeedIsExact
<1>2. FeedInv /\ [Next]_vars => FeedInv'
  BY StepFeedInv
<1>3. FeedInv => FeedIsExact
  BY DEF FeedInv
<1> QED
  BY <1>1, <1>2, <1>3, PTL DEF Spec

-----------------------------------------------------------------------------
(* Rooms and the book, for clients that ask for one channel at a time and    *)
(* await the answer.  A suspended join is of a client that is in the book,   *)
(* and a client that has not connected left no trace.                        *)

OneChannelAtATime == Allowed \cap {"manySymbols", "pipelined"} = {}

JoinsAreBooked ==
    \A h \in Handlers : handler[h].step = "join" =>
        handler[h].client \in subscriptions[handler[h].channel]

IdleClientsAreNew ==
    \A c \in Clients : socket[c] = "idle" =>
        /\ rooms[c] = {}
        /\ \A ch \in Channels : c \notin subscriptions[ch]
        /\ ~Busy(c)

RoomsInv == TypeOK /\ JoinsAreBooked /\ IdleClientsAreNew /\ RoomsMatchBook

LEMMA OneChannelRequests ==
    ASSUME OneChannelAtATime, NEW a \in AssetTypes, NEW chs \in UnsubscribeRequests(a)
    PROVE  \E ch \in Channels : chs = {ch}
BY UnsubscribeRequestChannels DEF UnsubscribeRequests, SymbolRequests, OneChannelAtATime

LEMMA SendersAreFree ==
    ASSUME OneChannelAtATime, NEW c \in Clients, MaySend(c)
    PROVE  socket[c] = "open" /\ \A h \in Handlers : handler[h].step # "free" => handler[h].client # c
BY DEF MaySend, Busy, OneChannelAtATime

(***************************************************************************)
(* What a step does to the part of the state RoomsMatchBook is about:      *)
(* nothing, or one of the following.                                       *)
(***************************************************************************)
Nothing == UNCHANGED <<subscriptions, socket, rooms, handler>>

Books(h, c, ch) ==
    /\ h \in Handlers /\ c \in Clients /\ ch \in Channels
    /\ socket[c] # "idle"
    /\ handler[h].step # "join"
    /\ subscriptions' = [subscriptions EXCEPT ![ch] = @ \cup {c}]
    /\ handler' = [handler EXCEPT ![h] = WaitForJoin(c, ch)]
    /\ UNCHANGED <<socket, rooms>>

Unbooks(c, ch) ==
    /\ c \in Clients /\ ch \in Channels
    /\ socket[c] = "open"
    /\ \A h \in Handlers : handler[h].step # "free" => handler[h].client # c
    /\ subscriptions' = [subscriptions EXCEPT ![ch] = @ \ {c}]
    /\ rooms' = [rooms EXCEPT ![c] = @ \ {ch}]
    /\ UNCHANGED <<socket, handler>>

Waits(h) ==
    /\ h \in Handlers
    /\ handler[h].step # "join" /\ handler'[h].step # "join"
    /\ \/ handler'[h].step = "free"
       \/ /\ handler'[h].client \in Clients
          /\ socket[handler'[h].client] = "open"
    /\ handler' = [handler EXCEPT ![h] = handler'[h]]
    /\ UNCHANGED <<subscriptions, socket, rooms>>

LEMMA SubscribeOneChannel ==
    ASSUME TypeOK, NEW c \in Clients, NEW ch \in Channels, NEW links, NEW types,
           DOMAIN links = {ch}, UpdateSubscriptions(c, links, types)
    PROVE  subscriptions' = [subscriptions EXCEPT ![ch] = @ \cup {c}]
BY DEF UpdateSubscriptions, TypeOK, BookTypeOK

LEMMA SubscribeNoChannel ==
    ASSUME TypeOK, NEW c \in Clients, NEW links, NEW types,
           DOMAIN links = {}, UpdateSubscriptions(c, links, types)
    PROVE  subscriptions' = subscriptions
BY DEF UpdateSubscriptions, TypeOK, BookTypeOK

LEMMA UnsubscribeOneChannel ==
    ASSUME TypeOK, NEW c \in Clients, NEW ch \in Channels, ProcessUnsubscription(c, {ch})
    PROVE  subscriptions' = [subscriptions EXCEPT ![ch] = @ \ {c}]
BY DEF ProcessUnsubscription, TypeOK, BookTypeOK

LEMMA UnsubscribeNoChannel ==
    ASSUME TypeOK, NEW c \in Clients, ProcessUnsubscription(c, {})
    PROVE  subscriptions' = subscriptions
BY DEF ProcessUnsubscription, TypeOK, BookTypeOK

LEMMA RoomsStep ==
    ASSUME OneChannelAtATime, TypeOK, IdleClientsAreNew, [Next]_vars
    PROVE  \/ Nothing
           \/ \E c \in Clients : Connect(c) \/ Disconnect(c)
           \/ \E h \in Handlers, c \in Clients, ch \in Channels : Books(h, c, ch)
           \/ \E c \in Clients, ch \in Channels : Unbooks(c, ch)
           \/ \E h \in Handlers : Waits(h)
           \/ \E h \in Handlers : Join(h)
<1> DEFINE Goal == \/ Nothing
                   \/ \E h \in Handlers, c \in Clients, ch \in Channels : Books(h, c, ch)
                   \/ \E c \in Clients, ch \in Channels : Unbooks(c, ch)
                   \/ \E h \in Handlers : Waits(h)
<1>1. ASSUME NEW c \in Clients, NEW a \in AssetTypes, NEW types \in TypeRequests,
             NEW h \in Handlers, NEW chs \in SymbolRequests(a),
             SubscribeSymbols(h, c, a, chs, types)
      PROVE  Goal
  <2>1. PICK ch \in Channels : chs = {ch}
    BY OneChannelRequests DEF UnsubscribeRequests
  <2>2. subscriptions' = [subscriptions EXCEPT ![ch] = @ \cup {c}]
    BY <1>1, <2>1, SubscribeOneChannel DEF SubscribeSymbols, OwnSymbol
  <2>3. Books(h, c, ch)
    BY <1>1, <2>1, <2>2, SendersAreFree DEF SubscribeSymbols, Books, Free
  <2> QED
    BY <2>3
<1>2. ASSUME NEW c \in Clients, NEW a \in AssetTypes, NEW types \in TypeRequests,
             NEW chs \in SymbolRequests(a), NEW failed \in chs,
             NEW done \in SUBSET (chs \ {failed}),
             SubscribeSymbolsThrows(c, a, done, failed, types)
      PROVE  Goal
  <2>1. done = {}
    BY OneChannelRequests DEF UnsubscribeRequests
  <2>2. subscriptions' = subscriptions
    BY <1>2, <2>1, SubscribeNoChannel DEF SubscribeSymbolsThrows, OwnSymbol
  <2> QED
    BY <1>2, <2>2 DEF SubscribeSymbolsThrows, Nothing
<1>3. ASSUME NEW c \in Clients, NEW a \in AssetTypes, NEW types \in TypeRequests,
             NEW h \in Handlers, NEW ch \in RankingChannels(a),
             SubscribeRanking(h, c, ch, types)
      PROVE  Goal
  <2>1. handler'[h] = WaitForCache(c, ch, types)
    BY <1>3 DEF SubscribeRanking, TypeOK
  <2>2. handler'[h].step = "cache" /\ handler'[h].client = c
    BY <2>1 DEF WaitForCache
  <2>3. handler' = [handler EXCEPT ![h] = handler'[h]] /\ handler[h] = Free
    BY <1>3, <2>1 DEF SubscribeRanking
  <2>4. UNCHANGED <<subscriptions, socket, rooms>> /\ socket[c] = "open"
    BY <1>3 DEF SubscribeRanking, bookVars, MaySend
  <2>5. Waits(h)
    BY <2>2, <2>3, <2>4 DEF Waits, Free
  <2> QED
    BY <2>5
<1>4. ASSUME NEW h \in Handlers, NEW listed, ResumeRanking(h, listed)
      PROVE  Goal
  <2> DEFINE w == handler[h]
  <2>1. /\ w.client \in Clients /\ w.channel \in Channels /\ w.step = "cache"
    BY <1>4, WaitingForCache DEF ResumeRanking
  <2>2. socket[w.client] # "idle"
    BY <2>1 DEF IdleClientsAreNew, Busy
  <2>3. subscriptions' = [subscriptions EXCEPT ![w.channel] = @ \cup {w.client}]
    BY <1>4, <2>1, SubscribeOneChannel DEF ResumeRanking
  <2>4. Books(h, w.client, w.channel)
    BY <1>4, <2>1, <2>2, <2>3 DEF ResumeRanking, Books
  <2> QED
    BY <2>1, <2>4
<1>5. ASSUME NEW h \in Handlers, NEW listed,
             ResumeRankingThrows(h, listed) \/ CacheFails(h)
      PROVE  Goal
  <2>1. /\ handler[h].step = "cache"
        /\ handler' = [handler EXCEPT ![h] = Free]
        /\ UNCHANGED <<subscriptions, socket, rooms>>
    BY <1>5 DEF ResumeRankingThrows, CacheFails, bookVars
  <2>2. handler'[h] = Free
    BY <2>1 DEF TypeOK
  <2>3. handler'[h].step = "free"
    BY <2>2 DEF Free
  <2>4. handler' = [handler EXCEPT ![h] = handler'[h]]
    BY <2>1, <2>2
  <2> QED
    BY <2>1, <2>3, <2>4 DEF Waits
<1>6. ASSUME NEW c \in Clients, NEW a \in AssetTypes, NEW types \in TypeRequests,
             NEW chs \in UnsubscribeRequests(a), Unsubscribe(c, a, chs, types)
      PROVE  Goal
  <2>1. PICK ch \in Channels : chs = {ch}
    BY OneChannelRequests
  <2>2. subscriptions' = [subscriptions EXCEPT ![ch] = @ \ {c}]
    BY <1>6, <2>1, UnsubscribeOneChannel DEF Unsubscribe
  <2>3. Unbooks(c, ch)
    BY <1>6, <2>1, <2>2, SendersAreFree DEF Unsubscribe, Unbooks
  <2> QED
    BY <2>3
<1>7. ASSUME NEW c \in Clients, NEW a \in AssetTypes, NEW types \in TypeRequests,
             NEW chs \in UnsubscribeRequests(a), NEW failed \in chs,
             NEW done \in SUBSET (chs \ {failed}),
             UnsubscribeThrows(c, a, done, failed, types)
      PROVE  Goal
  <2>1. done = {}
    BY OneChannelRequests
  <2>2. subscriptions' = subscriptions
    BY <1>7, <2>1, UnsubscribeNoChannel DEF UnsubscribeThrows
  <2> QED
    BY <1>7, <2>2 DEF UnsubscribeThrows, Nothing
<1>8. CASE UNCHANGED vars
  BY <1>8 DEF vars, Nothing
<1>9. ASSUME NEW c \in Clients, Subscribe(c)
      PROVE  Goal
  <2> HIDE DEF Goal
  <2> QED
    BY <1>1, <1>2, <1>3, <1>9 DEF Subscribe
<1>10. ASSUME NEW c \in Clients, Unsubscribes(c)
       PROVE  Goal
  <2> HIDE DEF Goal
  <2> QED
    BY <1>6, <1>7, <1>10 DEF Unsubscribes
<1>11. ASSUME NEW h \in Handlers, CacheAnswers(h)
       PROVE  Goal
  <2> HIDE DEF Goal
  <2> QED
    BY <1>4, <1>5, <1>11 DEF CacheAnswers
<1> QED
  BY <1>8, <1>9, <1>10, <1>11 DEF Next

(***************************************************************************)
(* The three parts with their definitions expanded, for any two states.    *)
(***************************************************************************)
LEMMA RoomsInvParts ==
    RoomsInv =>
        /\ \A k \in Handlers : handler[k].step = "join" =>
             handler[k].client \in subscriptions[handler[k].channel]
        /\ \A x \in Clients : socket[x] = "idle" =>
             /\ rooms[x] = {}
             /\ \A k \in Channels : x \notin subscriptions[k]
             /\ \A k \in Handlers : handler[k].step # "free" => handler[k].client # x
        /\ \A x \in Clients, k \in Channels :
             /\ k \in rooms[x] => x \in subscriptions[k]
             /\ socket[x] = "open" /\ x \in subscriptions[k] => k \in rooms[x] \/ Joining(x, k)
BY DEF RoomsInv, JoinsAreBooked, IdleClientsAreNew, RoomsMatchBook, Busy

LEMMA RoomsInvNext ==
    ASSUME TypeOK',
           \A k \in Handlers : handler'[k].step = "join" =>
             handler'[k].client \in subscriptions'[handler'[k].channel],
           \A x \in Clients : socket'[x] = "idle" =>
             /\ rooms'[x] = {}
             /\ \A k \in Channels : x \notin subscriptions'[k]
             /\ \A k \in Handlers : handler'[k].step # "free" => handler'[k].client # x,
           \A x \in Clients, k \in Channels :
             /\ k \in rooms'[x] => x \in subscriptions'[k]
             /\ socket'[x] = "open" /\ x \in subscriptions'[k] => k \in rooms'[x] \/ Joining(x, k)'
    PROVE  RoomsInv'
<1>1. JoinsAreBooked'
  BY DEF JoinsAreBooked
<1>2. IdleClientsAreNew'
  BY DEF IdleClientsAreNew, Busy
<1>3. RoomsMatchBook'
  BY DEF RoomsMatchBook
<1> QED
  BY <1>1, <1>2, <1>3 DEF RoomsInv

LEMMA StepRoomsInv ==
    ASSUME OneChannelAtATime, RoomsInv, [Next]_vars
    PROVE  RoomsInv'
<1>0. TypeOK /\ TypeOK' /\ IdleClientsAreNew
  BY StepTypeOK DEF RoomsInv
<1>a. \A k \in Handlers : handler[k].step = "join" =>
        handler[k].client \in subscriptions[handler[k].channel]
  BY RoomsInvParts
<1>b. \A x \in Clients : socket[x] = "idle" =>
        /\ rooms[x] = {}
        /\ \A k \in Channels : x \notin subscriptions[k]
        /\ \A k \in Handlers : handler[k].step # "free" => handler[k].client # x
  BY RoomsInvParts
<1>c. \A x \in Clients, k \in Channels :
        /\ k \in rooms[x] => x \in subscriptions[k]
        /\ socket[x] = "open" /\ x \in subscriptions[k] => k \in rooms[x] \/ Joining(x, k)
  BY RoomsInvParts
<1>1. ASSUME Nothing
      PROVE  RoomsInv'
  <2>1. UNCHANGED <<subscriptions, socket, rooms, handler>>
    BY <1>1 DEF Nothing
  <2>2. \A x, k : Joining(x, k)' <=> Joining(x, k)
    BY <2>1 DEF Joining
  <2> QED
    BY <1>0, <1>a, <1>b, <1>c, <2>1, <2>2, RoomsInvNext
<1>2. ASSUME NEW c \in Clients, Connect(c) \/ Disconnect(c)
      PROVE  RoomsInv'
  <2>1. /\ UNCHANGED <<subscriptions, handler>>
        /\ \A x \in Clients : /\ x # c => socket'[x] = socket[x] /\ rooms'[x] = rooms[x]
                              /\ socket'[c] # "idle"
                              /\ rooms'[c] \subseteq rooms[c]
                              /\ socket'[c] = "open" => socket[c] = "idle"
    BY <1>0, <1>2 DEF Connect, Disconnect, bookVars, TypeOK
  <2>2. \A x, k : Joining(x, k)' <=> Joining(x, k)
    BY <2>1 DEF Joining
  <2> QED
    BY <1>0, <1>a, <1>b, <1>c, <2>1, <2>2, RoomsInvNext
<1>4. ASSUME NEW h \in Handlers, NEW c \in Clients, NEW ch \in Channels, Books(h, c, ch)
      PROVE  RoomsInv'
  <2>0. \A k \in Handlers : handler'[k] = IF k = h THEN WaitForJoin(c, ch) ELSE handler[k]
    BY <1>0, <1>4 DEF Books, TypeOK
  <2>1. \A x \in Clients, k \in Channels : x \in subscriptions'[k] <=>
          x \in subscriptions[k] \/ (x = c /\ k = ch)
    BY <1>0, <1>4 DEF Books, TypeOK, BookTypeOK
  <2>2. rooms' = rooms /\ socket' = socket /\ handler[h].step # "join" /\ socket[c] # "idle"
    BY <1>4 DEF Books
  <2>3. ASSUME NEW k \in Handlers, handler'[k].step = "join"
        PROVE  handler'[k].client \in subscriptions'[handler'[k].channel]
    <3>1. CASE k = h
      <4>1. handler'[k].client = c /\ handler'[k].channel = ch
        BY <2>0, <3>1 DEF WaitForJoin
      <4> QED
        BY <2>1, <4>1
    <3>2. CASE k # h
      <4>1. /\ handler'[k] = handler[k]
            /\ handler[k].channel \in Channels /\ handler[k].client \in Clients
        BY <1>0, <2>0, <2>3, <3>2, WaitingForJoin
      <4> QED
        BY <1>a, <2>1, <2>3, <4>1
    <3> QED
      BY <3>1, <3>2
  <2>4. ASSUME NEW x \in Clients, socket'[x] = "idle"
        PROVE  /\ rooms'[x] = {}
               /\ \A k \in Channels : x \notin subscriptions'[k]
               /\ \A k \in Handlers : handler'[k].step # "free" => handler'[k].client # x
    <3>1. x # c /\ socket[x] = "idle"
      BY <2>2, <2>4
    <3>2. handler'[h].client = c
      BY <2>0 DEF WaitForJoin
    <3> QED
      BY <1>b, <2>0, <2>1, <2>2, <3>1, <3>2
  <2>5. \A x \in Clients, k \in Channels : Joining(x, k) => Joining(x, k)'
    BY <2>0, <2>2 DEF Joining, WaitForJoin
  <2>6. Joining(c, ch)'
    BY <2>0 DEF Joining
  <2>7. \A x \in Clients, k \in Channels :
          /\ k \in rooms'[x] => x \in subscriptions'[k]
          /\ socket'[x] = "open" /\ x \in subscriptions'[k] => k \in rooms'[x] \/ Joining(x, k)'
    BY <1>c, <2>1, <2>2, <2>5, <2>6
  <2> QED
    BY <1>0, <2>3, <2>4, <2>7, RoomsInvNext
<1>5. ASSUME NEW c \in Clients, NEW ch \in Channels, Unbooks(c, ch)
      PROVE  RoomsInv'
  <2>1. \A x \in Clients, k \in Channels : x \in subscriptions'[k] <=>
          x \in subscriptions[k] /\ ~(x = c /\ k = ch)
    BY <1>0, <1>5 DEF Unbooks, TypeOK, BookTypeOK
  <2>2. \A x \in Clients, k \in Channels : k \in rooms'[x] <=>
          k \in rooms[x] /\ ~(x = c /\ k = ch)
    BY <1>0, <1>5 DEF Unbooks, TypeOK
  <2>3. /\ socket' = socket /\ handler' = handler
        /\ \A k \in Handlers : handler[k].step # "free" => handler[k].client # c
    BY <1>5 DEF Unbooks
  <2>4. ASSUME NEW k \in Handlers, handler'[k].step = "join"
        PROVE  handler'[k].client \in subscriptions'[handler'[k].channel]
    <3>1. /\ handler[k].channel \in Channels /\ handler[k].client \in Clients
          /\ handler[k].client # c
      BY <1>0, <2>3, <2>4, WaitingForJoin
    <3> QED
      BY <1>a, <2>1, <2>3, <2>4, <3>1
  <2>5. \A x, k : Joining(x, k)' <=> Joining(x, k)
    BY <2>3 DEF Joining
  <2>6. \A x \in Clients, k \in Channels :
          /\ k \in rooms'[x] => x \in subscriptions'[k]
          /\ socket'[x] = "open" /\ x \in subscriptions'[k] => k \in rooms'[x] \/ Joining(x, k)'
    BY <1>c, <2>1, <2>2, <2>3, <2>5
  <2>7. ASSUME NEW x \in Clients, socket'[x] = "idle"
        PROVE  /\ rooms'[x] = {}
               /\ \A k \in Channels : x \notin subscriptions'[k]
               /\ \A k \in Handlers : handler'[k].step # "free" => handler'[k].client # x
    <3>1. rooms'[x] \subseteq Channels
      BY <1>0 DEF TypeOK
    <3> QED
      BY <1>b, <2>1, <2>2, <2>3, <2>7, <3>1
  <2> QED
    BY <1>0, <2>4, <2>6, <2>7, RoomsInvNext
<1>6. ASSUME NEW h \in Handlers, Waits(h)
      PROVE  RoomsInv'
  <2>1. /\ \A k \in Handlers : k # h => handler'[k] = handler[k]
        /\ handler[h].step # "join" /\ handler'[h].step # "join"
        /\ \/ handler'[h].step = "free"
           \/ handler'[h].client \in Clients /\ socket[handler'[h].client] = "open"
    BY <1>0, <1>6 DEF Waits, TypeOK
  <2>2. UNCHANGED <<subscriptions, socket, rooms>>
    BY <1>6 DEF Waits
  <2>3. \A x \in Clients, k \in Channels : Joining(x, k) => Joining(x, k)'
    BY <2>1 DEF Joining, WaitForJoin
  <2>4. ASSUME NEW x \in Clients, socket'[x] = "idle", NEW k \in Handlers,
               handler'[k].step # "free"
        PROVE  handler'[k].client # x
    BY <1>b, <2>1, <2>2, <2>4
  <2>5. \A k \in Handlers : handler'[k].step = "join" =>
          handler'[k].client \in subscriptions'[handler'[k].channel]
    BY <1>a, <2>1, <2>2
  <2> QED
    BY <1>0, <1>b, <1>c, <2>2, <2>3, <2>4, <2>5, RoomsInvNext
<1>7. ASSUME NEW h \in Handlers, Join(h)
      PROVE  RoomsInv'
  <2>1. PICK c \in Clients, ch \in Channels : handler[h] = WaitForJoin(c, ch)
    BY <1>0, <1>7, WaitingForJoin DEF Join
  <2>2. /\ handler[h].client = c /\ handler[h].channel = ch
        /\ handler[h].step = "join"
    BY <2>1 DEF WaitForJoin
  <2>3. c \in subscriptions[ch] /\ socket[c] # "idle"
    BY <1>a, <1>b, <2>2
  <2>4. \A k \in Handlers : handler'[k] = IF k = h THEN Free ELSE handler[k]
    BY <1>0, <1>7 DEF Join, TypeOK
  <2>5. /\ \A x \in Clients, k \in Channels : k \in rooms'[x] <=>
             k \in rooms[x] \/ (x = c /\ k = ch)
        /\ \A x \in Clients : x # c => rooms'[x] = rooms[x]
    BY <1>0, <1>7, <2>2 DEF Join, TypeOK
  <2>6. UNCHANGED <<subscriptions, socket>>
    BY <1>7 DEF Join, bookVars
  <2>7. Free.step = "free"
    BY DEF Free
  <2>8. \A x \in Clients, k \in Channels :
          Joining(x, k) => Joining(x, k)' \/ (x = c /\ k = ch)
    BY <2>1, <2>4 DEF Joining, WaitForJoin
  <2>9. \A x \in Clients, k \in Channels :
          /\ k \in rooms'[x] => x \in subscriptions'[k]
          /\ socket'[x] = "open" /\ x \in subscriptions'[k] => k \in rooms'[x] \/ Joining(x, k)'
    BY <1>c, <2>3, <2>5, <2>6, <2>8
  <2>10. \A x \in Clients : socket'[x] = "idle" =>
           /\ rooms'[x] = {}
           /\ \A k \in Channels : x \notin subscriptions'[k]
           /\ \A k \in Handlers : handler'[k].step # "free" => handler'[k].client # x
    BY <1>b, <2>3, <2>4, <2>5, <2>6, <2>7
  <2>11. \A k \in Handlers : handler'[k].step = "join" =>
          handler'[k].client \in subscriptions'[handler'[k].channel]
    BY <1>a, <2>4, <2>6, <2>7
  <2> QED
    BY <1>0, <2>9, <2>10, <2>11, RoomsInvNext
<1> QED
  BY <1>0, <1>1, <1>2, <1>4, <1>5, <1>6, <1>7, RoomsStep

LEMMA InitRoomsInv == Init => RoomsInv
<1> SUFFICES ASSUME Init PROVE JoinsAreBooked /\ IdleClientsAreNew /\ RoomsMatchBook
  BY InitTypeOK DEF RoomsInv
<1> QED
  BY DEF Init, BookInit, JoinsAreBooked, IdleClientsAreNew, RoomsMatchBook, Busy, Free

\* For clients that ask for one channel at a time, the rooms follow the book.
THEOREM RoomsStayWithBook ==
    ASSUME OneChannelAtATime
    PROVE  Spec => []RoomsMatchBook
<1>1. Init => RoomsInv
  BY InitRoomsInv
<1>2. RoomsInv /\ [Next]_vars => RoomsInv'
  BY StepRoomsInv
<1>3. RoomsInv => RoomsMatchBook
  BY DEF RoomsInv
<1> QED
  BY <1>1, <1>2, <1>3, PTL DEF Spec

-----------------------------------------------------------------------------
(* The gateway implements ChannelMembership *)

AskedBy(c) == IfOpen(c, {ch \in Channels : c \in subscriptions[ch]})
MemberOf(c) == IfOpen(c, rooms[c])

LEMMA UnchangedMembership ==
    ASSUME \A c \in Clients : AskedBy(c)' = AskedBy(c) /\ MemberOf(c)' = MemberOf(c)
    PROVE  UNCHANGED Membership!vars
BY DEF Membership!vars, AskedBy, MemberOf

\* A step that changes what one client asked for and is a member of.
LEMMA MembershipStep ==
    ASSUME NEW c \in Clients,
           \A x \in Clients : x # c => AskedBy(x)' = AskedBy(x) /\ MemberOf(x)' = MemberOf(x),
           \/ AskedBy(c)' = {} /\ MemberOf(c)' = {}
           \/ \E ch \in Channels :
                \/ AskedBy(c)' = AskedBy(c) \cup {ch} /\ MemberOf(c)' = MemberOf(c)
                \/ AskedBy(c)' = AskedBy(c) \ {ch} /\ MemberOf(c)' = MemberOf(c) \ {ch}
                \/ /\ ch \in AskedBy(c) \ MemberOf(c)
                   /\ AskedBy(c)' = AskedBy(c) /\ MemberOf(c)' = MemberOf(c) \cup {ch}
    PROVE  Membership!Next
<1> DEFINE ask == [x \in Clients |-> AskedBy(x)]
           mem == [x \in Clients |-> MemberOf(x)]
<1>1. CASE AskedBy(c)' = {} /\ MemberOf(c)' = {}
  <2>1. ask' = [ask EXCEPT ![c] = {}] /\ mem' = [mem EXCEPT ![c] = {}]
    BY <1>1
  <2>2. Membership!Depart(c)
    BY <2>1 DEF Membership!Depart, AskedBy, MemberOf
  <2> QED
    BY <2>2 DEF Membership!Next
<1>2. ASSUME NEW ch \in Channels,
             AskedBy(c)' = AskedBy(c) \cup {ch} /\ MemberOf(c)' = MemberOf(c)
      PROVE  Membership!Next
  <2>1. ask' = [ask EXCEPT ![c] = @ \cup {ch}] /\ mem' = mem
    BY <1>2
  <2>2. Membership!Ask(c, ch)
    BY <2>1 DEF Membership!Ask, AskedBy, MemberOf
  <2> QED
    BY <2>2 DEF Membership!Next
<1>3. ASSUME NEW ch \in Channels,
             AskedBy(c)' = AskedBy(c) \ {ch} /\ MemberOf(c)' = MemberOf(c) \ {ch}
      PROVE  Membership!Next
  <2>1. ask' = [ask EXCEPT ![c] = @ \ {ch}] /\ mem' = [mem EXCEPT ![c] = @ \ {ch}]
    BY <1>3
  <2>2. Membership!Drop(c, ch)
    BY <2>1 DEF Membership!Drop, AskedBy, MemberOf
  <2> QED
    BY <2>2 DEF Membership!Next
<1>4. ASSUME NEW ch \in Channels, ch \in AskedBy(c) \ MemberOf(c),
             AskedBy(c)' = AskedBy(c) /\ MemberOf(c)' = MemberOf(c) \cup {ch}
      PROVE  Membership!Next
  <2>1. ask' = ask /\ mem' = [mem EXCEPT ![c] = @ \cup {ch}] /\ ch \in ask[c] \ mem[c]
    BY <1>4
  <2>2. Membership!Admit(c, ch)
    BY <2>1 DEF Membership!Admit, AskedBy, MemberOf
  <2> QED
    BY <2>2 DEF Membership!Next
<1> QED
  BY <1>1, <1>2, <1>3, <1>4

LEMMA StepMembership ==
    ASSUME OneChannelAtATime, RoomsInv, [Next]_vars
    PROVE  [Membership!Next]_(Membership!vars)
<1>0. TypeOK /\ IdleClientsAreNew
  BY DEF RoomsInv
<1>1. ASSUME \/ Nothing
             \/ \E h \in Handlers : Waits(h)
      PROVE  UNCHANGED Membership!vars
  <2>1. UNCHANGED <<subscriptions, socket, rooms>>
    BY <1>1 DEF Nothing, Waits
  <2> QED
    BY <2>1, UnchangedMembership DEF AskedBy, MemberOf, IfOpen
<1>2. ASSUME NEW c \in Clients, Connect(c)
      PROVE  UNCHANGED Membership!vars
  <2>1. /\ UNCHANGED <<subscriptions, rooms>>
        /\ socket[c] = "idle" /\ socket'[c] = "open"
        /\ \A x \in Clients : x # c => socket'[x] = socket[x]
    BY <1>0, <1>2 DEF Connect, bookVars, TypeOK
  <2>2. rooms[c] = {} /\ \A ch \in Channels : c \notin subscriptions[ch]
    BY <2>1, RoomsInvParts
  <2>3. AskedBy(c) = {} /\ AskedBy(c)' = {} /\ MemberOf(c) = {} /\ MemberOf(c)' = {}
    BY <2>1, <2>2 DEF AskedBy, MemberOf, IfOpen
  <2>4. \A x \in Clients : x # c => AskedBy(x)' = AskedBy(x) /\ MemberOf(x)' = MemberOf(x)
    BY <2>1 DEF AskedBy, MemberOf, IfOpen
  <2> QED
    BY <2>3, <2>4, UnchangedMembership
<1>3. ASSUME NEW c \in Clients, Disconnect(c)
      PROVE  Membership!Next
  <2>1. /\ subscriptions' = subscriptions
        /\ socket'[c] = "closed"
        /\ \A x \in Clients : x # c => socket'[x] = socket[x] /\ rooms'[x] = rooms[x]
    BY <1>0, <1>3 DEF Disconnect, bookVars, TypeOK
  <2>2. AskedBy(c)' = {} /\ MemberOf(c)' = {}
    BY <2>1 DEF AskedBy, MemberOf, IfOpen
  <2>3. \A x \in Clients : x # c => AskedBy(x)' = AskedBy(x) /\ MemberOf(x)' = MemberOf(x)
    BY <2>1 DEF AskedBy, MemberOf, IfOpen
  <2> QED
    BY <2>2, <2>3, MembershipStep
<1>4. ASSUME NEW h \in Handlers, NEW c \in Clients, NEW ch \in Channels, Books(h, c, ch)
      PROVE  [Membership!Next]_(Membership!vars)
  <2>1. \A x \in Clients, k \in Channels : x \in subscriptions'[k] <=>
          x \in subscriptions[k] \/ (x = c /\ k = ch)
    BY <1>0, <1>4 DEF Books, TypeOK, BookTypeOK
  <2>2. UNCHANGED <<socket, rooms>>
    BY <1>4 DEF Books
  <2>3. \A x \in Clients : x # c => AskedBy(x)' = AskedBy(x) /\ MemberOf(x)' = MemberOf(x)
    BY <2>1, <2>2 DEF AskedBy, MemberOf, IfOpen
  <2>4. MemberOf(c)' = MemberOf(c)
    BY <2>2 DEF MemberOf, IfOpen
  <2>5. CASE socket[c] = "open"
    <3>1. AskedBy(c)' = AskedBy(c) \cup {ch}
      BY <2>1, <2>2, <2>5 DEF AskedBy, IfOpen
    <3> QED
      BY <2>3, <2>4, <3>1, MembershipStep
  <2>6. CASE socket[c] # "open"
    <3>1. AskedBy(c)' = AskedBy(c)
      BY <2>2, <2>6 DEF AskedBy, IfOpen
    <3> QED
      BY <2>3, <2>4, <3>1, UnchangedMembership
  <2> QED
    BY <2>5, <2>6
<1>5. ASSUME NEW c \in Clients, NEW ch \in Channels, Unbooks(c, ch)
      PROVE  Membership!Next
  <2>1. \A x \in Clients, k \in Channels : x \in subscriptions'[k] <=>
          x \in subscriptions[k] /\ ~(x = c /\ k = ch)
    BY <1>0, <1>5 DEF Unbooks, TypeOK, BookTypeOK
  <2>2. /\ socket' = socket /\ socket[c] = "open"
        /\ rooms'[c] = rooms[c] \ {ch}
        /\ \A x \in Clients : x # c => rooms'[x] = rooms[x]
    BY <1>0, <1>5 DEF Unbooks, TypeOK
  <2>3. \A x \in Clients : x # c => AskedBy(x)' = AskedBy(x) /\ MemberOf(x)' = MemberOf(x)
    BY <2>1, <2>2 DEF AskedBy, MemberOf, IfOpen
  <2>4. AskedBy(c)' = AskedBy(c) \ {ch}
    BY <2>1, <2>2 DEF AskedBy, IfOpen
  <2>5. MemberOf(c)' = MemberOf(c) \ {ch}
    BY <2>2 DEF MemberOf, IfOpen
  <2> QED
    BY <2>3, <2>4, <2>5, MembershipStep
<1>6. ASSUME NEW h \in Handlers, Join(h)
      PROVE  [Membership!Next]_(Membership!vars)
  <2>1. PICK c \in Clients, ch \in Channels : handler[h] = WaitForJoin(c, ch)
    BY <1>0, <1>6, WaitingForJoin DEF Join
  <2>2. handler[h].client = c /\ handler[h].channel = ch /\ handler[h].step = "join"
    BY <2>1 DEF WaitForJoin
  <2>3. c \in subscriptions[ch]
    BY <2>2, RoomsInvParts
  <2>4. /\ UNCHANGED <<subscriptions, socket>>
        /\ rooms'[c] = rooms[c] \cup {ch}
        /\ \A x \in Clients : x # c => rooms'[x] = rooms[x]
    BY <1>0, <1>6, <2>2 DEF Join, bookVars, TypeOK
  <2>5. \A x \in Clients : x # c => AskedBy(x)' = AskedBy(x) /\ MemberOf(x)' = MemberOf(x)
    BY <2>4 DEF AskedBy, MemberOf, IfOpen
  <2>6. AskedBy(c)' = AskedBy(c)
    BY <2>4 DEF AskedBy, IfOpen
  <2>7. CASE socket[c] = "open" /\ ch \notin rooms[c]
    <3>1. ch \in AskedBy(c) \ MemberOf(c) /\ MemberOf(c)' = MemberOf(c) \cup {ch}
      BY <2>3, <2>4, <2>7 DEF AskedBy, MemberOf, IfOpen
    <3> QED
      BY <2>5, <2>6, <3>1, MembershipStep
  <2>8. CASE ~(socket[c] = "open" /\ ch \notin rooms[c])
    <3>1. MemberOf(c)' = MemberOf(c)
      BY <2>4, <2>8 DEF MemberOf, IfOpen
    <3> QED
      BY <2>5, <2>6, <3>1, UnchangedMembership
  <2> QED
    BY <2>7, <2>8
<1> QED
  BY <1>0, <1>1, <1>2, <1>3, <1>4, <1>5, <1>6, RoomsStep

LEMMA InitMembership == Init => Membership!Init
BY DEF Init, Membership!Init, IfOpen

\* For clients that ask for one channel at a time, every step of the gateway is
\* a step of ChannelMembership or changes nothing a client can see.
THEOREM GatewayImplementsMembership ==
    ASSUME OneChannelAtATime
    PROVE  Spec => Membership!Safety
<1>1. Init => RoomsInv /\ Membership!Init
  BY InitRoomsInv, InitMembership
<1>2. RoomsInv /\ [Next]_vars => RoomsInv'
  BY StepRoomsInv
<1>3. RoomsInv /\ [Next]_vars => [Membership!Next]_(Membership!vars)
  BY StepMembership
<1> QED
  BY <1>1, <1>2, <1>3, PTL DEF Spec, Membership!Safety

=============================================================================
