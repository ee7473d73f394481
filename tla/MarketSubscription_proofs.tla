---------------------- MODULE MarketSubscription_proofs ----------------------
(***************************************************************************)
(* What the two calls that change the book preserve, for every book,       *)
(* client and request.  Modules that compose the book with the handlers    *)
(* that call it cite these lemmas.                                         *)
(***************************************************************************)
EXTENDS MarketSubscription, TLAPS

BookInv == BookTypeOK /\ RoutesAreLive /\ SymbolChannelsAreRouted

\* What a subscribe call passes to the book: a channel of one symbol is linked
\* to that symbol only, and a call that reaches any channel has data types.
ValidLinks(links, types) ==
    /\ DOMAIN links \subseteq Channels
    /\ \A ch \in DOMAIN links :
         /\ links[ch] \subseteq Symbols
         /\ ~IsRanking(ch) => links[ch] = {ch[2]}
    /\ types \subseteq DataTypes
    /\ types = {} => DOMAIN links = {}

KeptChannelsStep ==
    \A ch \in Channels :
        subscriptions[ch] \cap subscriptions'[ch] # {} =>
            /\ SymbolsForChannel(ch) \subseteq SymbolsForChannel(ch)'
            /\ channelDataTypes[ch] \subseteq channelDataTypes'[ch]

\* The name of a channel that is not a ranking is a symbol.
LEMMA SymbolChannelName == ASSUME NEW ch \in Channels, ~IsRanking(ch)
                           PROVE  ch[2] \in Symbols
BY DEF Channels, IsRanking

\* The book starts out with every map empty.
LEMMA BookInitInv == BookInit => BookInv
BY DEF BookInit, BookInv, BookTypeOK, RoutesAreLive, SymbolChannelsAreRouted,
       SymbolsForChannel

LEMMA SubscribeTypeOK ==
    ASSUME BookTypeOK, NEW c \in Clients, NEW links, NEW types,
           ValidLinks(links, types), UpdateSubscriptions(c, links, types)
    PROVE  BookTypeOK'
<1>1. subscriptions' \in [Channels -> SUBSET Clients]
  BY DEF BookTypeOK, UpdateSubscriptions
<1>2. symbolChannels' \in [Symbols -> SUBSET Channels]
  BY DEF BookTypeOK, UpdateSubscriptions, ValidLinks
<1>3. channelDataTypes' \in [Channels -> SUBSET DataTypes]
  BY DEF BookTypeOK, UpdateSubscriptions, ValidLinks
<1> QED
  BY <1>1, <1>2, <1>3 DEF BookTypeOK

LEMMA UnsubscribeTypeOK ==
    ASSUME BookTypeOK, NEW c \in Clients, NEW chs \in SUBSET Channels,
           ProcessUnsubscription(c, chs)
    PROVE  BookTypeOK'
BY DEF BookTypeOK, ProcessUnsubscription

\* A subscribe call keeps the book consistent.
LEMMA SubscribeKeepsBook ==
    ASSUME BookInv, NEW c \in Clients, NEW links, NEW types,
           ValidLinks(links, types), UpdateSubscriptions(c, links, types)
    PROVE  BookInv'
<1>1. BookTypeOK'
  BY SubscribeTypeOK DEF BookInv
<1>2. \A ch \in Channels :
        /\ subscriptions'[ch] = IF ch \in DOMAIN links THEN subscriptions[ch] \cup {c}
                                                       ELSE subscriptions[ch]
        /\ channelDataTypes'[ch] = IF ch \in DOMAIN links THEN channelDataTypes[ch] \cup types
                                                          ELSE channelDataTypes[ch]
  BY DEF UpdateSubscriptions
<1>3. \A s \in Symbols : symbolChannels'[s] =
        symbolChannels[s] \cup {ch \in DOMAIN links : s \in links[ch]}
  BY DEF UpdateSubscriptions
<1>4. RoutesAreLive'
  <2> SUFFICES ASSUME NEW s \in Symbols, NEW ch \in symbolChannels'[s]
               PROVE  subscriptions'[ch] # {} /\ channelDataTypes'[ch] # {}
    BY DEF RoutesAreLive
  <2>0. ch \in Channels
    BY <1>1 DEF BookTypeOK
  <2>1. CASE ch \in DOMAIN links
    <3>1. types # {}
      BY <2>1 DEF ValidLinks
    <3> QED
      BY <1>2, <2>0, <2>1, <3>1
  <2>2. CASE ch \notin DOMAIN links
    <3>1. ch \in symbolChannels[s]
      BY <1>3, <2>2
    <3> QED
      BY <1>2, <2>0, <2>2, <3>1 DEF BookInv, RoutesAreLive
  <2> QED
    BY <2>1, <2>2
<1>5. SymbolChannelsAreRouted'
  <2> SUFFICES ASSUME NEW ch \in Channels, ~IsRanking(ch)
               PROVE  SymbolsForChannel(ch)' =
                        IF subscriptions'[ch] = {} THEN {} ELSE {ch[2]}
    BY DEF SymbolChannelsAreRouted, IsRanking
  <2>1. SymbolsForChannel(ch) = IF subscriptions[ch] = {} THEN {} ELSE {ch[2]}
    BY DEF BookInv, SymbolChannelsAreRouted
  <2>2. SymbolsForChannel(ch)' =
          SymbolsForChannel(ch) \cup {s \in Symbols : ch \in DOMAIN links /\ s \in links[ch]}
    BY <1>3 DEF SymbolsForChannel
  <2>3. ch[2] \in Symbols
    BY SymbolChannelName
  <2>4. CASE ch \in DOMAIN links
    <3>1. links[ch] = {ch[2]}
      BY <2>4 DEF ValidLinks
    <3>2. subscriptions'[ch] # {}
      BY <1>2, <2>4
    <3>3. SymbolsForChannel(ch)' = {ch[2]}
      BY <2>1, <2>2, <2>3, <2>4, <3>1
    <3> QED
      BY <3>2, <3>3
  <2>5. CASE ch \notin DOMAIN links
    BY <1>2, <2>1, <2>2, <2>5
  <2> QED
    BY <2>4, <2>5
<1> QED
  BY <1>1, <1>4, <1>5 DEF BookInv

\* An unsubscribe call keeps the book consistent.
LEMMA UnsubscribeKeepsBook ==
    ASSUME BookInv, NEW c \in Clients, NEW chs \in SUBSET Channels,
           ProcessUnsubscription(c, chs)
    PROVE  BookInv'
<1>1. /\ subscriptions' \in [Channels -> SUBSET Clients]
      /\ \A ch \in Channels : subscriptions'[ch] =
           IF ch \in chs THEN subscriptions[ch] \ {c} ELSE subscriptions[ch]
  BY DEF BookInv, BookTypeOK, ProcessUnsubscription
<1>2. /\ symbolChannels' \in [Symbols -> SUBSET Channels]
      /\ \A s \in Symbols : symbolChannels'[s] = symbolChannels[s] \ Unlinked(c, chs, s)
  BY DEF BookInv, BookTypeOK, ProcessUnsubscription
<1>3. /\ channelDataTypes' \in [Channels -> SUBSET DataTypes]
      /\ \A ch \in Channels : channelDataTypes'[ch] =
           IF ch \in chs /\ Emptied(c, ch) /\ SymbolsToProcess(ch) # {}
             THEN {} ELSE channelDataTypes[ch]
  BY DEF BookInv, BookTypeOK, ProcessUnsubscription
<1>4. \A s \in Symbols, ch \in Channels :
        ch \in symbolChannels[s] => s \in SymbolsToProcess(ch)
  <2> SUFFICES ASSUME NEW s \in Symbols, NEW ch \in Channels, ch \in symbolChannels[s]
               PROVE  s \in SymbolsToProcess(ch)
    OBVIOUS
  <2>1. s \in SymbolsForChannel(ch)
    BY DEF SymbolsForChannel
  <2> QED
    BY <2>1 DEF SymbolsToProcess, BookInv, SymbolChannelsAreRouted
<1>5. \A s \in Symbols : \A ch \in symbolChannels'[s] :
        ch \in symbolChannels[s] /\ ch \in Channels /\ ~(ch \in chs /\ Emptied(c, ch))
  BY <1>2, <1>4 DEF Unlinked, BookInv, BookTypeOK
<1>6. RoutesAreLive'
  <2> SUFFICES ASSUME NEW s \in Symbols, NEW ch \in symbolChannels'[s]
               PROVE  subscriptions'[ch] # {} /\ channelDataTypes'[ch] # {}
    BY DEF RoutesAreLive
  <2>1. /\ ch \in symbolChannels[s] /\ ch \in Channels
        /\ ~(ch \in chs /\ Emptied(c, ch))
    BY <1>5
  <2>2. subscriptions[ch] # {} /\ channelDataTypes[ch] # {}
    BY <2>1 DEF BookInv, RoutesAreLive
  <2>3. subscriptions'[ch] # {}
    BY <1>1, <2>1, <2>2 DEF Emptied
  <2> QED
    BY <1>3, <2>1, <2>2, <2>3
<1>7. SymbolChannelsAreRouted'
  <2> SUFFICES ASSUME NEW ch \in Channels, ~IsRanking(ch)
               PROVE  SymbolsForChannel(ch)' =
                        IF subscriptions'[ch] = {} THEN {} ELSE {ch[2]}
    BY DEF SymbolChannelsAreRouted, IsRanking
  <2>1. SymbolsForChannel(ch) = IF subscriptions[ch] = {} THEN {} ELSE {ch[2]}
    BY DEF BookInv, SymbolChannelsAreRouted
  <2>2. SymbolsForChannel(ch)' = {s \in SymbolsForChannel(ch) : ch \notin Unlinked(c, chs, s)}
    BY <1>2 DEF SymbolsForChannel
  <2>3. CASE ch \in chs /\ Emptied(c, ch)
    <3>1. SymbolsForChannel(ch)' = {}
      BY <2>1, <2>2, <2>3 DEF Unlinked, SymbolsToProcess
    <3>2. subscriptions'[ch] = {}
      BY <1>1, <2>3 DEF Emptied
    <3> QED
      BY <3>1, <3>2
  <2>4. CASE ~(ch \in chs /\ Emptied(c, ch))
    <3>1. SymbolsForChannel(ch)' = SymbolsForChannel(ch)
      BY <2>2, <2>4 DEF Unlinked
    <3>2. subscriptions'[ch] = {} <=> subscriptions[ch] = {}
      BY <1>1, <2>4 DEF Emptied
    <3> QED
      BY <2>1, <3>1, <3>2
  <2> QED
    BY <2>3, <2>4
<1>8. BookTypeOK'
  BY <1>1, <1>2, <1>3 DEF BookTypeOK
<1> QED
  BY <1>6, <1>7, <1>8 DEF BookInv

\* A subscribe call takes nothing away from any channel.
LEMMA SubscribeKeepsChannels ==
    ASSUME BookTypeOK, NEW c \in Clients, NEW links, NEW types,
           UpdateSubscriptions(c, links, types)
    PROVE  KeptChannelsStep
<1>1. \A ch \in Channels : channelDataTypes[ch] \subseteq channelDataTypes'[ch]
  BY DEF UpdateSubscriptions
<1>2. \A s \in Symbols : symbolChannels[s] \subseteq symbolChannels'[s]
  BY DEF UpdateSubscriptions
<1> QED
  BY <1>1, <1>2 DEF KeptChannelsStep, SymbolsForChannel

\* An unsubscribe call takes something away only from a channel that loses its
\* last subscriber.
LEMMA UnsubscribeKeepsChannels ==
    ASSUME BookTypeOK, NEW c \in Clients, NEW chs \in SUBSET Channels,
           ProcessUnsubscription(c, chs)
    PROVE  KeptChannelsStep
<1> SUFFICES ASSUME NEW ch \in Channels, subscriptions[ch] \cap subscriptions'[ch] # {}
             PROVE  /\ SymbolsForChannel(ch) \subseteq SymbolsForChannel(ch)'
                    /\ channelDataTypes[ch] \subseteq channelDataTypes'[ch]
  BY DEF KeptChannelsStep
<1>1. ~(ch \in chs /\ Emptied(c, ch))
  BY DEF ProcessUnsubscription, Emptied
<1>2. channelDataTypes'[ch] = channelDataTypes[ch]
  BY <1>1 DEF ProcessUnsubscription
<1>3. \A s \in Symbols : symbolChannels'[s] = symbolChannels[s] \ Unlinked(c, chs, s)
  BY DEF ProcessUnsubscription
<1>4. \A s \in Symbols : ch \notin Unlinked(c, chs, s)
  BY <1>1 DEF Unlinked
<1>5. SymbolsForChannel(ch) \subseteq SymbolsForChannel(ch)'
  BY <1>3, <1>4 DEF SymbolsForChannel
<1> QED
  BY <1>2, <1>5

=============================================================================
