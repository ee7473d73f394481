------------------------- MODULE MarketSubscription -------------------------
(***************************************************************************)
(* The book that MarketSubscriptionService keeps about who listens to what *)
(* (src/gateway/market/market.subsciption.service.ts).  It is three maps:  *)
(*                                                                         *)
(*   subscriptions     channel -> the client ids subscribed to it          *)
(*   symbolChannels    symbol  -> the channels its data is sent to         *)
(*   channelDataTypes  channel -> the data types the channel lets through  *)
(*                                                                         *)
(* A map of the code with no entry for a key is here a function that gives *)
(* {} for it: every reader of the code writes "get(key) || []".  A channel *)
(* id "market:<assetType>:symbols:<symbol>" or "market:<assetType>:        *)
(* <ranking>" is the pair <<assetType, symbol or ranking>>.                *)
(*                                                                         *)
(* The module holds the state and what each call does to it.  When a call  *)
(* is made, by whom, and what else the same handler does is in the modules *)
(* that extend this one.                                                   *)
(***************************************************************************)

CONSTANTS
    Clients,     \* socket.io connection ids
    AssetTypes,  \* keys of the provider map: stocks and crypto
    Symbols,     \* symbols a client may ask for or a ranking may list
    Rankings,    \* mostActive, gainers, losers, topTraded
    DataTypes    \* ticker, quote, trade, candle

ASSUME NamesAreDistinct == Symbols \cap Rankings = {}

VARIABLES subscriptions, symbolChannels, channelDataTypes

bookVars == <<subscriptions, symbolChannels, channelDataTypes>>

Channels == AssetTypes \X (Symbols \cup Rankings)

IsRanking(ch) == ch[2] \in Rankings

BookTypeOK ==
    /\ subscriptions \in [Channels -> SUBSET Clients]
    /\ symbolChannels \in [Symbols -> SUBSET Channels]
    /\ channelDataTypes \in [Channels -> SUBSET DataTypes]

BookInit ==
    /\ subscriptions = [ch \in Channels |-> {}]
    /\ symbolChannels = [s \in Symbols |-> {}]
    /\ channelDataTypes = [ch \in Channels |-> {}]

-----------------------------------------------------------------------------
(* Reading the book *)

\* getSymbolsForChannel
SymbolsForChannel(ch) == {s \in Symbols : ch \in symbolChannels[s]}

\* The symbols of a request the provider is asked for: those the channel does
\* not route yet.
NewSymbols(ch, syms) == {s \in syms : ch \notin symbolChannels[s]}

\* The channels one message of type d about symbol s is broadcast to.
Broadcasts(s, d) == {ch \in symbolChannels[s] : d \in channelDataTypes[ch]}

-----------------------------------------------------------------------------
(* subscribe: "links" gives, for each channel the call reaches, the symbols *)
(* it links to it.  The loop over symbols of the code is one step here: its *)
(* iterations touch different channels.                                     *)

\* Mutant: a symbol that some channel routes already is not linked to another.
UpdateSubscriptionsOnce(c, links, types) ==
    /\ subscriptions' = [ch \in Channels |->
         IF ch \in DOMAIN links THEN subscriptions[ch] \cup {c} ELSE subscriptions[ch]]
    /\ symbolChannels' = [s \in Symbols |-> IF symbolChannels[s] # {} THEN symbolChannels[s]
                                            ELSE {ch \in DOMAIN links : s \in links[ch]}]
    /\ channelDataTypes' = [ch \in Channels |->
         IF ch \in DOMAIN links THEN channelDataTypes[ch] \cup types ELSE channelDataTypes[ch]]

UpdateSubscriptions(c, links, types) ==
    /\ subscriptions' = [ch \in Channels |->
         IF ch \in DOMAIN links THEN subscriptions[ch] \cup {c}
                                ELSE subscriptions[ch]]
    /\ symbolChannels' = [s \in Symbols |->
         symbolChannels[s] \cup {ch \in DOMAIN links : s \in links[ch]}]
    /\ channelDataTypes' = [ch \in Channels |->
         IF ch \in DOMAIN links THEN channelDataTypes[ch] \cup types
                                ELSE channelDataTypes[ch]]

-----------------------------------------------------------------------------
(* unsubscribe: processUnsubscription for each of the channels chs. *)

\* Mutant: the channel goes with any of its subscribers.
EmptiedByAny(c, ch) == c \in subscriptions[ch]

\* Nobody but c is subscribed to ch: the channel is deleted.
Emptied(c, ch) == subscriptions[ch] \subseteq {c}

\* Mutant: the symbols of a ranking are not looked up.
SymbolsToProcessOwn(ch) == {ch[2]} \cap Symbols

\* symbolsToProcess: what is unlinked when the channel is deleted.
SymbolsToProcess(ch) == IF IsRanking(ch) THEN SymbolsForChannel(ch) ELSE {ch[2]}

\* The channels of chs whose routes to s the call removes.
Unlinked(c, chs, s) == {ch \in chs : Emptied(c, ch) /\ s \in SymbolsToProcess(ch)}

\* Mutant: the other channels of a symbol are not looked at.
ReleasedAlways(c, chs) == {s \in Symbols : Unlinked(c, chs, s) # {}}

\* symbolsToNotifyProvider: unlinked symbols that no channel routes any more.
Released(c, chs) == {s \in Symbols :
    /\ Unlinked(c, chs, s) # {}
    /\ symbolChannels[s] \subseteq Unlinked(c, chs, s)}

ProcessUnsubscription(c, chs) ==
    /\ subscriptions' = [ch \in Channels |->
         IF ch \in chs THEN subscriptions[ch] \ {c} ELSE subscriptions[ch]]
    /\ symbolChannels' = [s \in Symbols |-> symbolChannels[s] \ Unlinked(c, chs, s)]
    /\ channelDataTypes' = [ch \in Channels |->
         IF ch \in chs /\ Emptied(c, ch) /\ SymbolsToProcess(ch) # {}
           THEN {} ELSE channelDataTypes[ch]]

-----------------------------------------------------------------------------
(* What the book must always satisfy *)

\* A symbol is routed only to channels somebody is subscribed to, and those
\* channels let some data type through: no data is broadcast into a room that
\* was deleted, and no live route is silent.
RoutesAreLive ==
    \A s \in Symbols : \A ch \in symbolChannels[s] :
        /\ subscriptions[ch] # {}
        /\ channelDataTypes[ch] # {}

\* A channel of one symbol routes that symbol, and no other, exactly while it
\* has subscribers, although the code keeps the two maps apart and updates
\* them in different branches.
SymbolChannelsAreRouted ==
    \A ch \in Channels : ~IsRanking(ch) =>
        SymbolsForChannel(ch) = IF subscriptions[ch] = {} THEN {} ELSE {ch[2]}

\* While one subscriber stays, nothing any client does takes a symbol or a
\* data type away from the channel.
KeptChannelsKeepTheirData ==
    [][\A ch \in Channels :
         subscriptions[ch] \cap subscriptions'[ch] # {} =>
             /\ SymbolsForChannel(ch) \subseteq SymbolsForChannel(ch)'
             /\ channelDataTypes[ch] \subseteq channelDataTypes'[ch]]_bookVars

=============================================================================
