---------------------------- MODULE StockMarket ----------------------------
(***************************************************************************)
(* The subscription service together with the stock stream provider: the   *)
(* book of MarketSubscription and the loops and the connection of          *)
(* KisStream.  The service does not await the provider, whose calls never  *)
(* throw: the book changes in the same step as the first message is sent.  *)
(*                                                                         *)
(* A client asks for composite symbols, "NAS:AAPL"; a ranking lists the    *)
(* exchange and the symbol in one word, "NASAAPL".  Both have one ticker.  *)
(***************************************************************************)
EXTENDS Naturals, MarketSubscription

CONSTANTS
    Listed,   \* symbols in the form rankings list them
    Tickers, Ticker, Instants, NewYork, SpliceSize, LoopIds, MaxLosses

VARIABLES process, kisSocket, socketKey, APPROVAL_KEY, keyRequested, timer,
          isReconnecting, losses, clock, loops, registered, presented

Kis == INSTANCE KisStream

kisVars == <<process, kisSocket, socketKey, APPROVAL_KEY, keyRequested, timer,
             isReconnecting, losses, clock, loops, registered, presented>>
vars == <<bookVars, kisVars>>

ASSUME StockAssumption ==
    /\ Listed \subseteq Symbols
    /\ Ticker \in [Symbols -> Tickers]
    /\ MaxLosses \in Nat

TypeOK == BookTypeOK /\ Kis!KisTypeOK

Init == BookInit /\ Kis!KisInit

\* The symbols a subscription to ch links: its own, or those the cache lists for
\* the ranking at the time.
Listings(ch) == IF IsRanking(ch) THEN SUBSET Listed ELSE {{ch[2]}}

Requested == (SUBSET DataTypes) \ {{}}

\* The provider is called for new symbols only.
Subscribe(c, ch, listed, types) ==
    /\ IF NewSymbols(ch, listed) = {} THEN process = "up" /\ UNCHANGED kisVars
       ELSE Kis!Subscribe(NewSymbols(ch, listed))
    /\ UpdateSubscriptions(c, [k \in {ch} |-> listed], types)

Unsubscribe(c, ch) ==
    /\ IF Released(c, {ch}) = {} THEN process = "up" /\ UNCHANGED kisVars
       ELSE Kis!Unsubscribe(Released(c, {ch}))
    /\ ProcessUnsubscription(c, {ch})

KisEvent == Kis!KisEvent /\ UNCHANGED bookVars

Next ==
    \/ \E c \in Clients, ch \in Channels, types \in Requested :
         \E listed \in Listings(ch) : Subscribe(c, ch, listed, types)
    \/ \E c \in Clients, ch \in Channels : Unsubscribe(c, ch)
    \/ KisEvent

\* The key request ends, a handshake ends, and timers fire.
Fairness ==
    /\ WF_vars((Kis!KeyGranted \/ Kis!KeyRefused) /\ UNCHANGED bookVars)
    /\ WF_vars((Kis!Opened \/ Kis!Failed) /\ UNCHANGED bookVars)
    /\ WF_vars(Kis!TimerFires /\ UNCHANGED bookVars)

Spec == Init /\ [][Next]_vars /\ Fairness

-----------------------------------------------------------------------------

\* The properties of KisStream, with the service as its caller: at most one
\* connection attempt or live socket, messages with the key of the connection,
\* and a lost connection that returns.
OneConnection == Kis!OneConnection
KeyIsCurrent == Kis!KeyIsCurrent
ConnectionReturns == Kis!ConnectionReturns

\* The phase the connection is in, read off a process, a socket, an awaited request,
\* a timer and a flag.
Phase ==
    IF process # "up" THEN IF process = "down" THEN "ended" ELSE "starting"
    ELSE IF keyRequested THEN "asking"
    ELSE IF timer THEN "waiting"
    ELSE IF kisSocket \in {"connecting", "open"} THEN kisSocket ELSE "givenUp"

Attempts == INSTANCE Reconnection WITH phase <- Phase

\* The five places where connect, reconnectWebSocket and the events of the socket
\* keep what goes on are those of one attempt at a time that goes from phase to
\* phase: no event skips a phase, none goes unanswered because a flag of an
\* earlier reconnection is still up, and no call or loop disturbs it.
ConnectionHasPhases == Attempts!Spec

\* README.md:15 says the server streams stock quotes to its clients.  A symbol
\* that gets its first route while the connection is open is registered by the
\* call, or is in a loop the call left behind.
SubscribedSymbolsAreRegistered ==
    [][\A s \in Symbols :
         /\ kisSocket = "open" /\ symbolChannels[s] = {}
         /\ symbolChannels'[s] # {}
         => \E key \in registered' \cup UNION {loops'[i].keys : i \in LoopIds} :
              key[2] = Ticker[s]]_vars

=============================================================================
