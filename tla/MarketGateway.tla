--------------------------- MODULE MarketGateway ---------------------------
(***************************************************************************)
(* The socket.io gateway of the market data server and the subscription    *)
(* service behind it (src/gateway/market/market.gateway.ts and             *)
(* market.subsciption.service.ts): clients connect, send subscribe-market  *)
(* and unsubscribe-market, and disconnect.                                 *)
(*                                                                         *)
(* A handler runs to its next await in one step.  A subscription to a      *)
(* ranking awaits the cache (step "cache"), and every subscription awaits  *)
(* between the service's answer and client.join (step "join"): other       *)
(* handlers, and a disconnect, run in between.                             *)
(*                                                                         *)
(* The stream providers are seen from here only by what they were asked    *)
(* (feed) and by whether a call to them throws.  UpbitStream and KisStream *)
(* model what is behind the call.                                          *)
(***************************************************************************)
EXTENDS MarketSubscription

CONSTANTS
    Handlers,        \* subscribe handlers that can be suspended at a time
    AsyncProviders,  \* asset types whose provider is an async function: it
                     \* never throws to its caller and ignores the data types
    SymbolsOf,       \* asset type -> symbols that exist for it
    Allowed          \* what clients and outages may do, see below

(***************************************************************************)
(* The DTO lets a client do all of these; a run may leave some out.        *)
(***************************************************************************)
Liberties == {
    "manySymbols",  \* several symbols in one request
    "untyped",      \* no dataTypes in a request: the field is optional
    "pipelined",    \* a new request before the last one was answered
    "outages"}      \* the cache or a provider call fails

ASSUME GatewayAssumption ==
    /\ AsyncProviders \subseteq AssetTypes
    /\ SymbolsOf \in [AssetTypes -> SUBSET Symbols]
    /\ Allowed \subseteq Liberties

VARIABLES
    socket,   \* socket[c]: "idle" before the client connects, "open", "closed"
    rooms,    \* rooms[c]: the socket.io rooms of c
    handler,  \* handler[h]: where a suspended subscribe handler waits
    feed      \* feed[a]: the symbols the provider of a was asked for

gatewayVars == <<socket, rooms, handler, feed>>
vars == <<subscriptions, symbolChannels, channelDataTypes, socket, rooms, handler, feed>>

\* The data types of a request, {} standing for a request that has none.
TypeRequests == {types \in SUBSET DataTypes : types = {} => "untyped" \in Allowed}

Free == [step |-> "free"]
WaitForCache(c, ch, types) == [step |-> "cache", client |-> c, channel |-> ch, types |-> types]
\* Mutant: the room is named after the symbol.
WaitForJoinSymbol(c, ch) == [step |-> "join", client |-> c, channel |-> ch[2]]

WaitForJoin(c, ch) == [step |-> "join", client |-> c, channel |-> ch]

HandlerStates ==
    {Free}
    \cup [step : {"cache"}, client : Clients,
          channel : AssetTypes \X Rankings, types : TypeRequests]
    \cup [step : {"join"}, client : Clients, channel : Channels]

TypeOK ==
    /\ BookTypeOK
    /\ socket \in [Clients -> {"idle", "open", "closed"}]
    /\ rooms \in [Clients -> SUBSET Channels]
    /\ handler \in [Handlers -> HandlerStates]
    /\ feed \in [AssetTypes -> SUBSET Symbols]

Init ==
    /\ BookInit
    /\ socket = [c \in Clients |-> "idle"]
    /\ rooms = [c \in Clients |-> {}]
    /\ handler = [h \in Handlers |-> Free]
    /\ feed = [a \in AssetTypes |-> {}]

-----------------------------------------------------------------------------
(* What a client may send *)

Busy(c) == \E h \in Handlers : handler[h].step # "free" /\ handler[h].client = c

\* The pipe that validates a request is awaited too: a handler may start after
\* its client went away.  Disconnect touches nothing a handler reads, so that is
\* the state a disconnect after the handler leads to.
MaySend(c) == socket[c] = "open" /\ ("pipelined" \in Allowed \/ ~Busy(c))

\* The channels a request for symbols names: payloadSymbols is not empty.
SymbolRequests(a) == {chs \in SUBSET ({a} \X SymbolsOf[a]) :
    /\ chs # {}
    /\ "manySymbols" \in Allowed \/ \E ch \in chs : chs = {ch}}

RankingChannels(a) == {a} \X Rankings

\* Only a provider that runs synchronously can throw to the service.
MayThrow(a) == "outages" \in Allowed /\ a \notin AsyncProviders

-----------------------------------------------------------------------------
(* Connections *)

Connect(c) ==
    /\ socket[c] = "idle"
    /\ socket' = [socket EXCEPT ![c] = "open"]
    /\ UNCHANGED <<bookVars, rooms, handler, feed>>

\* socket.io empties the rooms; handleDisconnect only logs, so the book and
\* the providers keep the client.
Disconnect(c) ==
    /\ socket[c] = "open"
    /\ socket' = [socket EXCEPT ![c] = "closed"]
    /\ rooms' = [rooms EXCEPT ![c] = {}]
    /\ UNCHANGED <<bookVars, handler, feed>>

-----------------------------------------------------------------------------
(* subscribe-market *)

OwnSymbol(chs) == [ch \in chs |-> {ch[2]}]

\* The for loop of the gateway returns in its first iteration: of the channels
\* the service subscribed the client to, it goes on to join one.
SubscribeSymbols(h, c, a, chs, types) ==
    /\ MaySend(c)
    /\ handler[h] = Free
    /\ types # {}
    /\ UpdateSubscriptions(c, OwnSymbol(chs), types)
    /\ feed' = [feed EXCEPT ![a] = @ \cup {s \in Symbols : <<a, s>> \in chs \ symbolChannels[s]}]
    /\ \E first \in chs : handler' = [handler EXCEPT ![h] = WaitForJoin(c, first)]
    /\ UNCHANGED <<socket, rooms>>

\* The loop of the service throws at channel "failed", after it was done with
\* some others.  A request without dataTypes throws at its first channel, in
\* the provider or when the types are merged.  A provider that throws does so
\* at the first symbol that is new to its channel.
SubscribeSymbolsThrows(c, a, done, failed, types) ==
    /\ MaySend(c)
    /\ failed \notin done
    /\ \/ types = {} /\ done = {}
       \/ /\ types # {}
          /\ MayThrow(a)
          /\ failed \notin symbolChannels[failed[2]]
          /\ \A ch \in done : ch \in symbolChannels[ch[2]]
    /\ UpdateSubscriptions(c, OwnSymbol(done), types)
    /\ feed' = [feed EXCEPT ![a] = @ \cup NewSymbols(failed, {failed[2]})]
    /\ UNCHANGED <<socket, rooms, handler>>

SubscribeRanking(h, c, ch, types) ==
    /\ MaySend(c)
    /\ handler[h] = Free
    /\ handler' = [handler EXCEPT ![h] = WaitForCache(c, ch, types)]
    /\ UNCHANGED <<bookVars, socket, rooms, feed>>

\* The cache answers with the symbols of the ranking, {} when it has none.
\* The book is read now, not when the request came.
ResumeRanking(h, listed) ==
    /\ handler[h].step = "cache"
    /\ LET w == handler[h] IN
        /\ w.types # {}
        /\ UpdateSubscriptions(w.client, [ch \in {w.channel} |-> listed], w.types)
        /\ feed' = [feed EXCEPT ![w.channel[1]] = @ \cup NewSymbols(w.channel, listed)]
        /\ handler' = [handler EXCEPT ![h] = WaitForJoin(w.client, w.channel)]
    /\ UNCHANGED <<socket, rooms>>

\* The provider or the merge of the data types throws: the book is as it was,
\* but the provider was asked.
ResumeRankingThrows(h, listed) ==
    /\ handler[h].step = "cache"
    /\ LET w == handler[h] IN
        /\ \/ w.types = {}
           \/ MayThrow(w.channel[1]) /\ NewSymbols(w.channel, listed) # {}
        /\ feed' = [feed EXCEPT ![w.channel[1]] = @ \cup NewSymbols(w.channel, listed)]
        /\ handler' = [handler EXCEPT ![h] = Free]
    /\ UNCHANGED <<bookVars, socket, rooms>>

\* Mutant: the error is swallowed and the handler goes on to join.
CacheFailsJoins(h) ==
    /\ handler[h].step = "cache"
    /\ handler' = [handler EXCEPT ![h] = WaitForJoin(@.client, @.channel)]
    /\ UNCHANGED <<bookVars, socket, rooms, feed>>

CacheFails(h) ==
    /\ "outages" \in Allowed
    /\ handler[h].step = "cache"
    /\ handler' = [handler EXCEPT ![h] = Free]
    /\ UNCHANGED <<bookVars, socket, rooms, feed>>

\* Mutant: the client is in one room at a time.
JoinOnly(h) ==
    /\ handler[h].step = "join"
    /\ rooms' = [rooms EXCEPT ![handler[h].client] = {handler[h].channel}]
    /\ handler' = [handler EXCEPT ![h] = Free]
    /\ UNCHANGED <<bookVars, socket, feed>>

\* join adds the room to the adapter whether or not the socket is still open.
Join(h) ==
    /\ handler[h].step = "join"
    /\ LET w == handler[h] IN
        rooms' = [rooms EXCEPT ![w.client] = @ \cup {w.channel}]
    /\ handler' = [handler EXCEPT ![h] = Free]
    /\ UNCHANGED <<bookVars, socket, feed>>

-----------------------------------------------------------------------------
(* unsubscribe-market: the service is synchronous and leave is called in the *)
(* same step, for the first channel only.                                    *)

Unsubscribe(c, a, chs, types) ==
    /\ MaySend(c)
    /\ types = {} => Released(c, chs) = {}
    /\ ProcessUnsubscription(c, chs)
    /\ feed' = [feed EXCEPT ![a] = @ \ Released(c, chs)]
    /\ \E first \in chs : rooms' = [rooms EXCEPT ![c] = @ \ {first}]
    /\ UNCHANGED <<socket, handler>>

\* The call to the provider for channel "failed" throws, or its log line does
\* when there are no dataTypes: the book keeps the channel and its client, but
\* the provider may have dropped the symbols.  Upbit drops them first and
\* throws while sending what is left to a socket that is still connecting;
\* without dataTypes it throws before it drops anything.
UnsubscribeThrows(c, a, done, failed, types) ==
    /\ MaySend(c)
    /\ failed \notin done
    /\ Released(c, {failed}) # {}
    /\ Released(c, done) = {}
    /\ \/ types = {}
       \/ MayThrow(a) /\ ~(feed[a] \subseteq Released(c, {failed}))
    /\ ProcessUnsubscription(c, done)
    /\ feed' = IF types = {} /\ a \notin AsyncProviders THEN feed
               ELSE [feed EXCEPT ![a] = @ \ Released(c, {failed})]
    /\ UNCHANGED <<socket, rooms, handler>>

-----------------------------------------------------------------------------

Subscribe(c) == \E a \in AssetTypes, types \in TypeRequests :
    \/ \E h \in Handlers :
         \/ \E chs \in SymbolRequests(a) : SubscribeSymbols(h, c, a, chs, types)
         \/ \E ch \in RankingChannels(a) : SubscribeRanking(h, c, ch, types)
    \/ \E chs \in SymbolRequests(a) : \E failed \in chs :
         \E done \in SUBSET (chs \ {failed}) :
            SubscribeSymbolsThrows(c, a, done, failed, types)

\* What an unsubscribe request names: some symbols, or one ranking.
UnsubscribeRequests(a) == SymbolRequests(a) \cup {{ch} : ch \in RankingChannels(a)}

Unsubscribes(c) == \E a \in AssetTypes, types \in TypeRequests :
    \E chs \in UnsubscribeRequests(a) :
        \/ Unsubscribe(c, a, chs, types)
        \/ \E failed \in chs : \E done \in SUBSET (chs \ {failed}) :
             UnsubscribeThrows(c, a, done, failed, types)

\* The cache call of handler h settles.
CacheAnswers(h) ==
    \/ CacheFails(h)
    \/ \E a \in AssetTypes : \E listed \in SUBSET SymbolsOf[a] :
         /\ handler[h].step = "cache" /\ handler[h].channel[1] = a
         /\ ResumeRanking(h, listed) \/ ResumeRankingThrows(h, listed)

Next ==
    \/ \E c \in Clients :
         Connect(c) \/ Disconnect(c) \/ Subscribe(c) \/ Unsubscribes(c)
    \/ \E h \in Handlers : CacheAnswers(h) \/ Join(h)

\* A promise that was awaited settles, and node runs what awaited it.  Nothing
\* makes a client send.
Fairness == \A h \in Handlers : WF_vars(CacheAnswers(h)) /\ WF_vars(Join(h))

Spec == Init /\ [][Next]_vars /\ Fairness

-----------------------------------------------------------------------------
(* Delivery *)

\* The clients one message of type d about symbol s is sent to.
Recipients(s, d) == {c \in Clients :
    socket[c] = "open" /\ rooms[c] \cap Broadcasts(s, d) # {}}

Joining(c, ch) == \E h \in Handlers : handler[h] = WaitForJoin(c, ch)

\* The rooms, which decide who is sent data, and the book, which decides what
\* data is asked for, are changed at different times by different handlers.
\* For a client that asks for one channel at a time and awaits the answer,
\* whatever the others do and whatever fails: it is in no room it did not
\* subscribe to, and a subscription without its room is about to join it.
RoomsMatchBook ==
    \A c \in Clients, ch \in Channels :
        /\ ch \in rooms[c] => c \in subscriptions[ch]
        /\ socket[c] = "open" /\ c \in subscriptions[ch] =>
              ch \in rooms[c] \/ Joining(c, ch)

\* While no call to a provider fails, the provider was asked for a symbol and
\* not told to drop it exactly when some channel of its asset type routes the
\* symbol: no subscriber waits for data nobody asked for, and no symbol is
\* streamed that nobody listens to.
FeedIsExact ==
    \A a \in AssetTypes, s \in Symbols :
        s \in feed[a] <=> \E ch \in symbolChannels[s] : ch[1] = a

\* README.md:103 promises that data goes to exactly the subscribers of its
\* channel: a client with no request under way gets what its channels broadcast.
DeliveredToSubscribers ==
    \A s \in Symbols, d \in DataTypes : \A ch \in Broadcasts(s, d) :
        \A c \in subscriptions[ch] :
            socket[c] = "open" /\ ~Busy(c) => c \in Recipients(s, d)

\* README.md:102 says the service manages which clients are subscribed to which
\* channels: those are clients that are there.
SubscribersAreConnected ==
    \A ch \in Channels : \A c \in subscriptions[ch] : socket[c] = "open"

(***************************************************************************)
(* The gateway as an implementation of ChannelMembership.  The book and    *)
(* the rooms of a client that is gone stand for nothing.                   *)
(***************************************************************************)
IfOpen(c, chs) == IF socket[c] = "open" THEN chs ELSE {}

Membership == INSTANCE ChannelMembership WITH
    asked  <- [c \in Clients |-> IfOpen(c, {ch \in Channels : c \in subscriptions[ch]})],
    member <- [c \in Clients |-> IfOpen(c, rooms[c])]

\* Every step of the gateway is one step of ChannelMembership or none, and
\* every client that subscribed is admitted unless it drops the channel.
ImplementsMembership == Membership!Spec

=============================================================================
