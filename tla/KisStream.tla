----------------------------- MODULE KisStream -----------------------------
(***************************************************************************)
(* The stock stream provider: KoreaInvestmentStockStreamProvider and its   *)
(* KisStreamClient (src/gateway/market/providers/koreaInvestment).         *)
(*                                                                         *)
(* The client asks for an approval key, connects with it, and after a lost *)
(* connection does so again five seconds later.  The provider registers    *)
(* and releases one tr_key per message and sleeps between two messages; it *)
(* runs unawaited, so that several such loops and a reconnection overlap.  *)
(* "registered" and "presented" are the far side: what the connection      *)
(* receives data for, and the approval keys of the messages it was sent.   *)
(***************************************************************************)
EXTENDS FiniteSets, MarketHours

CONSTANTS
    Symbols,
    Tickers,     \* exchange and symbol in one word
    Ticker,      \* Ticker[s]: s without its colon, "NAS:AAPL" -> "NASAAPL"
    Instants,    \* bound: the minutes of the week, in UTC, when something happens
    NewYork,     \* the distance of New York's time to UTC
    SpliceSize,  \* how many symbols splice takes off: 80
    LoopIds,     \* bound: the loops that can be asleep at the same time
    MaxLosses    \* bound: how often an open connection is lost

VARIABLES
    process,       \* "starting" while onModuleInit waits, "up", or "down"
    kisSocket,     \* "none", "connecting", "open" or "closed"
    socketKey,     \* the approval key in the address kisSocket was opened with
    APPROVAL_KEY,  \* the last key granted; 0 stands for undefined
    keyRequested,  \* connect() awaits a key
    timer,         \* the five seconds of reconnectWebSocket are running
    isReconnecting,
    losses,        \* how often an open connection was lost
    clock,         \* the minute of the week
    loops,         \* loops[i]: what loop i has still to send
    registered,    \* tr_keys
    presented      \* the approval keys in the messages that the connection received

connectionVars == <<process, kisSocket, socketKey, APPROVAL_KEY, keyRequested,
                    timer, isReconnecting, losses>>
kisVars == <<connectionVars, clock, loops, registered, presented>>

TrTypes == {"register", "release"}
TrKeys == {"R", "D"} \X Tickers
Loops == [type : TrTypes, keys : SUBSET TrKeys]

\* A loop that has nothing left to send.
Done == [type |-> "register", keys |-> {}]

KisTypeOK ==
    /\ process \in {"starting", "up", "down"}
    /\ kisSocket \in {"none", "connecting", "open", "closed"}
    /\ {socketKey, APPROVAL_KEY} \subseteq 0 .. MaxLosses + 1
    /\ {keyRequested, timer, isReconnecting} \subseteq BOOLEAN
    /\ clock \in Instants
    /\ losses \in 0 .. MaxLosses
    /\ loops \in [LoopIds -> Loops]
    /\ registered \subseteq TrKeys
    /\ presented \subseteq 0 .. MaxLosses + 1

\* onModuleInit calls connect(), which finds no socket and asks for a key.
KisInit ==
    /\ process = "starting"
    /\ kisSocket = "none"
    /\ socketKey = 0
    /\ APPROVAL_KEY = 0
    /\ keyRequested = TRUE
    /\ timer = FALSE
    /\ isReconnecting = FALSE
    /\ losses = 0
    /\ clock \in Instants
    /\ loops = [i \in LoopIds |-> Done]
    /\ registered = {}
    /\ presented = {}

-----------------------------------------------------------------------------
(* KisStreamClient: connect and the events of the socket *)

\* Mutant: only the first key is remembered.
KeyGrantedOnce ==
    /\ process # "down" /\ keyRequested
    /\ socketKey' = losses + 1
    /\ APPROVAL_KEY' = IF APPROVAL_KEY = 0 THEN losses + 1 ELSE APPROVAL_KEY
    /\ kisSocket' = "connecting"
    /\ keyRequested' = FALSE
    /\ process' = "up"
    /\ UNCHANGED <<timer, isReconnecting, losses, clock, loops, registered, presented>>

\* The key is granted, and the socket is created with it in the same step.  Keys
\* are numbered as they are granted.
KeyGranted ==
    /\ process # "down" /\ keyRequested
    /\ APPROVAL_KEY' = losses + 1
    /\ socketKey' = APPROVAL_KEY'
    /\ kisSocket' = "connecting"
    /\ keyRequested' = FALSE
    /\ process' = "up"
    /\ UNCHANGED <<timer, isReconnecting, losses, clock, loops, registered, presented>>

\* connect() throws.  At the start onModuleInit throws too and the application
\* does not come up; later the error is logged and nothing tries again.
KeyRefused ==
    /\ process # "down" /\ keyRequested
    /\ keyRequested' = FALSE
    /\ isReconnecting' = FALSE
    /\ process' = IF process = "starting" THEN "down" ELSE process
    /\ UNCHANGED <<kisSocket, socketKey, APPROVAL_KEY, timer, losses, clock,
                   loops, registered, presented>>

\* Mutant: the open event leaves the flag up.
OpenedReconnecting ==
    /\ process = "up" /\ kisSocket = "connecting"
    /\ kisSocket' = "open"
    /\ UNCHANGED <<process, socketKey, APPROVAL_KEY, keyRequested, timer, isReconnecting,
                   losses, clock, loops, registered, presented>>

Opened ==
    /\ process = "up" /\ kisSocket = "connecting"
    /\ kisSocket' = "open"
    /\ isReconnecting' = FALSE
    /\ UNCHANGED <<process, socketKey, APPROVAL_KEY, keyRequested, timer, losses,
                   clock, loops, registered, presented>>

\* The error event, of a handshake that fails or of an open socket: it goes down
\* rawMessageStream, whose subscriber in onModuleInit handles no error, and rxjs
\* throws it out of a timer.
Failed ==
    /\ process = "up" /\ kisSocket \in {"connecting", "open"}
    /\ process' = "down"
    /\ UNCHANGED <<kisSocket, socketKey, APPROVAL_KEY, keyRequested, timer,
                   isReconnecting, losses, clock, loops, registered, presented>>

\* The close event of a connection lost without an error, and with it
\* reconnectWebSocket.
Closed ==
    /\ process = "up" /\ kisSocket = "open" /\ losses < MaxLosses
    /\ kisSocket' = "closed"
    /\ registered' = {}
    /\ presented' = {}
    /\ losses' = losses + 1
    /\ isReconnecting' = TRUE
    /\ timer' = (timer \/ ~isReconnecting)
    /\ UNCHANGED <<process, socketKey, APPROVAL_KEY, keyRequested, clock, loops>>

\* Mutant: the timer is an interval.
TimerRepeats ==
    /\ process = "up" /\ timer
    /\ keyRequested' = (keyRequested \/ kisSocket # "open")
    /\ UNCHANGED <<process, kisSocket, socketKey, APPROVAL_KEY, timer, isReconnecting,
                   losses, clock, loops, registered, presented>>

\* The timer of reconnectWebSocket ends in connect().
TimerFires ==
    /\ process = "up" /\ timer
    /\ timer' = FALSE
    /\ keyRequested' = (keyRequested \/ kisSocket # "open")
    /\ UNCHANGED <<process, kisSocket, socketKey, APPROVAL_KEY, isReconnecting,
                   losses, clock, loops, registered, presented>>

ConnectionEvent ==
    KeyGranted \/ KeyRefused \/ Opened \/ Failed \/ Closed \/ TimerFires

-----------------------------------------------------------------------------
(* KoreaInvestmentStockStreamProvider: subscribe and unsubscribe *)

\* Time passes: the market may open or close meanwhile.
TimePasses ==
    /\ process = "up"
    /\ clock' \in Instants \ {clock}
    /\ UNCHANGED <<connectionVars, loops, registered, presented>>

Regular == CheckMarketStatus("US", clock, NewYork) = "REGULAR"

\* Mutant: no prefix outside regular hours.
CreateTickerKeyBare(s) == <<IF Regular THEN "R" ELSE "", Ticker[s]>>

CreateTickerKey(s) == <<IF Regular THEN "R" ELSE "D", Ticker[s]>>

\* One message, with the approval key of the moment.  It is dropped unless the
\* socket is open.
Send(type, key) ==
    \/ /\ kisSocket = "open"
       /\ registered' = IF type = "register" THEN registered \cup {key} ELSE registered \ {key}
       /\ presented' = presented \cup {APPROVAL_KEY}
    \/ kisSocket # "open" /\ UNCHANGED <<registered, presented>>

\* The call sends the first of the keys and leaves the others to a loop.  Their
\* order is that of a ranking or of a map, and any order here.
Start(type, keys) ==
    \/ /\ keys = {}
       /\ UNCHANGED <<loops, registered, presented>>
    \/ \E first \in keys :
         /\ Send(type, first)
         /\ IF keys = {first} THEN UNCHANGED loops
            ELSE \E i \in LoopIds :
                   /\ loops[i].keys = {}
                   /\ loops' = [loops EXCEPT ![i] =
                                  [type |-> type, keys |-> keys \ {first}]]

\* requestSymbols.splice(0, 80) takes the first SpliceSize symbols away.
Spliced(symbols) == {rest \in SUBSET symbols :
    Cardinality(rest) = IF Cardinality(symbols) > SpliceSize
                          THEN Cardinality(symbols) - SpliceSize ELSE 0}

Subscribe(symbols) ==
    /\ process = "up"
    /\ \E rest \in Spliced(symbols) :
         Start("register", {CreateTickerKey(s) : s \in rest})
    /\ UNCHANGED <<connectionVars, clock>>

Unsubscribe(symbols) ==
    /\ process = "up"
    /\ Start("release", {CreateTickerKey(s) : s \in symbols})
    /\ UNCHANGED <<connectionVars, clock>>

\* 100 ms later: the next message of a loop.
LoopContinues(i) ==
    /\ process = "up"
    /\ \E key \in loops[i].keys :
         /\ Send(loops[i].type, key)
         /\ loops' = [loops EXCEPT ![i] = IF @.keys = {key} THEN Done
                        ELSE [type |-> @.type, keys |-> @.keys \ {key}]]
    /\ UNCHANGED <<connectionVars, clock>>

KisEvent == ConnectionEvent \/ TimePasses \/ \E i \in LoopIds : LoopContinues(i)

-----------------------------------------------------------------------------
(* What the client must satisfy *)

\* The parts of a connection attempt are spread over a timer, an awaited request
\* and a socket, with one flag to keep them apart: at most one of them is under
\* way, so that no live socket is ever replaced and left without a reader.
OneConnection ==
    process # "down" =>
        /\ ~(timer /\ keyRequested)
        /\ kisSocket \in {"connecting", "open"} => ~timer /\ ~keyRequested
        /\ timer => isReconnecting

\* A loop outlives the connection it began on, and goes on when the next one is
\* open: no message of a call or a loop reaches a connection with another key than
\* the one that connection was opened with.
KeyIsCurrent == presented \subseteq {socketKey}

\* connect() threw after a lost connection: nothing is under way any more.
GaveUp == ~timer /\ ~keyRequested /\ ~isReconnecting

\* A lost connection comes back, unless the process ends or no key is granted:
\* no sequence of losses leaves the flag up with nobody reconnecting.
ConnectionReturns ==
    kisSocket = "closed" ~> kisSocket = "open" \/ process = "down" \/ GaveUp

=============================================================================
