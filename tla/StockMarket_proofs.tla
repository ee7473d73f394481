------------------------- MODULE StockMarket_proofs -------------------------
(***************************************************************************)
(* What the stock provider preserves under the subscription service, for   *)
(* any number of losses, loops, symbols and clients.                       *)
(***************************************************************************)
EXTENDS StockMarket, MarketSubscription_proofs

Flags == {timer, keyRequested, isReconnecting} \subseteq BOOLEAN

\* From the first socket on, the key in use is the one the last socket has.
KeyOfLastSocket == kisSocket # "none" => APPROVAL_KEY = socketKey

ConnectionInv == Flags /\ Kis!OneConnection /\ KeyOfLastSocket

LEMMA InitConnection == Init => ConnectionInv
BY DEF Init, Kis!KisInit, ConnectionInv, Flags, KeyOfLastSocket, Kis!OneConnection

\* What the calls and the loops leave alone.
ConnectionVars == <<process, kisSocket, socketKey, APPROVAL_KEY, keyRequested,
                    timer, isReconnecting>>

LEMMA UnchangedConnection ==
    ASSUME ConnectionInv, UNCHANGED ConnectionVars
    PROVE  ConnectionInv'
BY DEF ConnectionInv, ConnectionVars, Flags, KeyOfLastSocket, Kis!OneConnection

\* Each event of the connection keeps its flags apart.
LEMMA ConnectionStep ==
    ASSUME ConnectionInv, Kis!ConnectionEvent
    PROVE  ConnectionInv'
<1> USE DEF ConnectionInv, Flags, KeyOfLastSocket, Kis!OneConnection
<1>1. CASE Kis!KeyGranted BY <1>1 DEF Kis!KeyGranted
<1>2. CASE Kis!KeyRefused BY <1>2 DEF Kis!KeyRefused
<1>3. CASE Kis!Opened BY <1>3 DEF Kis!Opened
<1>4. CASE Kis!Failed BY <1>4 DEF Kis!Failed
<1>5. CASE Kis!Closed BY <1>5 DEF Kis!Closed
<1>6. CASE Kis!TimerFires BY <1>6 DEF Kis!TimerFires
<1> QED BY <1>1, <1>2, <1>3, <1>4, <1>5, <1>6 DEF Kis!ConnectionEvent

\* A call, a message of a loop, the passing of time: none touches the
\* connection.
LEMMA CallStep ==
    ASSUME Next
    PROVE  Kis!ConnectionEvent \/ UNCHANGED ConnectionVars
<1> USE DEF ConnectionVars, Kis!connectionVars, kisVars
<1>1. CASE \E c \in Clients, ch \in Channels, types \in Requested :
             \E listed \in Listings(ch) : Subscribe(c, ch, listed, types)
  BY <1>1 DEF Subscribe, Kis!Subscribe
<1>2. CASE \E c \in Clients, ch \in Channels : Unsubscribe(c, ch)
  BY <1>2 DEF Unsubscribe, Kis!Unsubscribe
<1>3. CASE KisEvent
  BY <1>3 DEF KisEvent, Kis!KisEvent, Kis!TimePasses, Kis!LoopContinues
<1> QED BY <1>1, <1>2, <1>3 DEF Next

LEMMA ConnectionInvariant == Spec => []ConnectionInv
<1>1. ConnectionInv /\ [Next]_vars => ConnectionInv'
  <2> SUFFICES ASSUME ConnectionInv, [Next]_vars PROVE ConnectionInv'
    OBVIOUS
  <2>1. CASE Next BY <2>1, CallStep, ConnectionStep, UnchangedConnection
  <2>2. CASE UNCHANGED vars
    BY <2>2, UnchangedConnection DEF vars, kisVars, ConnectionVars
  <2> QED BY <2>1, <2>2
<1> QED BY <1>1, InitConnection, PTL DEF Spec

\* reconnectWebSocket, connect and the socket's events: never two attempts at a
\* time, and never an attempt next to a live socket.
THEOREM OneConnectionAtATime == Spec => []OneConnection
<1>1. ConnectionInv => OneConnection
  BY DEF ConnectionInv, OneConnection
<1> QED BY <1>1, ConnectionInvariant, PTL

\* What the connection received carries its key.  It received nothing before it was
\* open, so that no key is granted while there is anything here.
MessagesInv ==
    /\ presented \subseteq {socketKey}
    /\ presented # {} => kisSocket = "open"

\* A step adds at most a message with the key of the moment to what an open
\* connection received.
Presents ==
    presented' = presented \/ (kisSocket = "open" /\ presented' = presented \cup {APPROVAL_KEY})

LEMMA SendPresents ==
    ASSUME NEW type, NEW key, Kis!Send(type, key)
    PROVE  Presents
BY DEF Kis!Send, Presents

LEMMA StartPresents ==
    ASSUME NEW type, NEW keys, Kis!Start(type, keys)
    PROVE  Presents
<1>1. CASE keys = {} /\ UNCHANGED <<loops, registered, presented>>
  BY <1>1 DEF Presents
<1>2. CASE \E first \in keys : Kis!Send(type, first)
  BY <1>2, SendPresents
<1> QED BY <1>1, <1>2 DEF Kis!Start

LEMMA CallPresents ==
    ASSUME Next, ~Kis!ConnectionEvent
    PROVE  Presents
<1>1. ASSUME NEW c \in Clients, NEW ch \in Channels, NEW types \in Requested,
             NEW listed \in Listings(ch), Subscribe(c, ch, listed, types)
      PROVE  Presents
  <2>1. CASE NewSymbols(ch, listed) = {}
    BY <1>1, <2>1 DEF Subscribe, kisVars, Presents
  <2>2. CASE NewSymbols(ch, listed) # {}
    BY <1>1, <2>2, StartPresents DEF Subscribe, Kis!Subscribe
  <2> QED BY <2>1, <2>2
<1>2. ASSUME NEW c \in Clients, NEW ch \in Channels, Unsubscribe(c, ch)
      PROVE  Presents
  <2>1. CASE Released(c, {ch}) = {}
    BY <1>2, <2>1 DEF Unsubscribe, kisVars, Presents
  <2>2. CASE Released(c, {ch}) # {}
    BY <1>2, <2>2, StartPresents DEF Unsubscribe, Kis!Unsubscribe
  <2> QED BY <2>1, <2>2
<1>3. CASE Kis!TimePasses
  BY <1>3 DEF Kis!TimePasses, Presents
<1>4. ASSUME NEW i \in LoopIds, Kis!LoopContinues(i)
      PROVE  Presents
  BY <1>4, SendPresents DEF Kis!LoopContinues
<1> QED BY <1>1, <1>2, <1>3, <1>4 DEF Next, KisEvent, Kis!KisEvent

LEMMA MessagesStep ==
    ASSUME ConnectionInv, MessagesInv, [Next]_vars
    PROVE  MessagesInv'
<1> USE DEF MessagesInv
<1>1. CASE Kis!ConnectionEvent
  <2> USE DEF ConnectionInv, Kis!OneConnection
  <2>1. CASE Kis!KeyGranted
    <3>1. presented = {} /\ UNCHANGED presented
      BY <2>1 DEF Kis!KeyGranted
    <3> QED BY <3>1
  <2>2. CASE Kis!KeyRefused BY <2>2 DEF Kis!KeyRefused
  <2>3. CASE Kis!Opened BY <2>3 DEF Kis!Opened
  <2>4. CASE Kis!Failed BY <2>4 DEF Kis!Failed
  <2>5. CASE Kis!Closed BY <2>5 DEF Kis!Closed
  <2>6. CASE Kis!TimerFires BY <2>6 DEF Kis!TimerFires
  <2> QED BY <1>1, <2>1, <2>2, <2>3, <2>4, <2>5, <2>6 DEF Kis!ConnectionEvent
<1>2. CASE Next /\ ~Kis!ConnectionEvent
  BY <1>2, CallStep, CallPresents
     DEF Presents, ConnectionVars, ConnectionInv, KeyOfLastSocket
<1>3. CASE UNCHANGED vars
  BY <1>3 DEF vars, kisVars
<1> QED BY <1>1, <1>2, <1>3

\* No message of subscribe, of unsubscribe or of the loops they leave behind, which
\* outlive connections, reaches a connection with the key of another one.
THEOREM KeyStaysCurrent == Spec => []KeyIsCurrent
<1>1. Init => MessagesInv
  BY DEF Init, Kis!KisInit, MessagesInv
<1>2. MessagesInv => KeyIsCurrent
  BY DEF MessagesInv, KeyIsCurrent, Kis!KeyIsCurrent
<1> QED BY <1>1, <1>2, MessagesStep, ConnectionInvariant, PTL DEF Spec

-----------------------------------------------------------------------------
(* StockMarket implements Reconnection *)

\* The flag is down whenever a close event may find the socket open.
FlagIsDown == process = "up" /\ kisSocket = "open" => ~isReconnecting

\* Until the first key comes there is nothing but the request for it.
NothingBeforeTheKey ==
    /\ process \in {"starting", "up", "down"}
    /\ process = "starting" => kisSocket = "none" /\ keyRequested /\ ~timer

PhaseInv == ConnectionInv /\ FlagIsDown /\ NothingBeforeTheKey

LEMMA InitPhase == Init => PhaseInv
BY InitConnection DEF Init, Kis!KisInit, PhaseInv, FlagIsDown, NothingBeforeTheKey

LEMMA PhaseStep ==
    ASSUME PhaseInv, Kis!ConnectionEvent
    PROVE  PhaseInv'
<1>1. ConnectionInv'
  BY ConnectionStep DEF PhaseInv
<1> USE DEF PhaseInv, FlagIsDown, NothingBeforeTheKey
<1>2. CASE Kis!KeyGranted BY <1>1, <1>2 DEF Kis!KeyGranted
<1>3. CASE Kis!KeyRefused BY <1>1, <1>3 DEF Kis!KeyRefused
<1>4. CASE Kis!Opened BY <1>1, <1>4 DEF Kis!Opened
<1>5. CASE Kis!Failed BY <1>1, <1>5 DEF Kis!Failed
<1>6. CASE Kis!Closed BY <1>1, <1>6 DEF Kis!Closed
<1>7. CASE Kis!TimerFires BY <1>1, <1>7 DEF Kis!TimerFires
<1> QED BY <1>2, <1>3, <1>4, <1>5, <1>6, <1>7 DEF Kis!ConnectionEvent

LEMMA StepOrStutter ==
    ASSUME [Next]_vars
    PROVE  Kis!ConnectionEvent \/ UNCHANGED ConnectionVars
BY CallStep DEF vars, kisVars, ConnectionVars

LEMMA PhaseInvariant == Spec => []PhaseInv
<1>1. ASSUME PhaseInv, UNCHANGED ConnectionVars
      PROVE  PhaseInv'
  BY <1>1, UnchangedConnection DEF PhaseInv, FlagIsDown, NothingBeforeTheKey, ConnectionVars
<1>2. PhaseInv /\ [Next]_vars => PhaseInv'
  BY <1>1, PhaseStep, StepOrStutter
<1> QED BY <1>2, InitPhase, PTL DEF Spec

\* Each event is the step of the attempt that has its name.
LEMMA EventHasPhase ==
    ASSUME PhaseInv, Kis!ConnectionEvent
    PROVE  Attempts!Next
<1> USE DEF PhaseInv, ConnectionInv, Flags, Kis!OneConnection, NothingBeforeTheKey, Phase
<1>1. CASE Kis!KeyGranted
  <2>1. Attempts!Granted
    BY <1>1 DEF Kis!KeyGranted, Attempts!Granted
  <2> QED BY <2>1 DEF Attempts!Next
<1>2. CASE Kis!KeyRefused
  <2>1. Attempts!Refused
    BY <1>2 DEF Kis!KeyRefused, Attempts!Refused
  <2> QED BY <2>1 DEF Attempts!Next
<1>3. CASE Kis!Opened
  <2>1. Attempts!Opens
    BY <1>3 DEF Kis!Opened, Attempts!Opens
  <2> QED BY <2>1 DEF Attempts!Next
<1>4. CASE Kis!Failed
  <2>1. Attempts!Crashes
    BY <1>4 DEF Kis!Failed, Attempts!Crashes
  <2> QED BY <2>1 DEF Attempts!Next
<1>5. CASE Kis!Closed
  <2>1. Attempts!Lost
    BY <1>5 DEF Kis!Closed, Attempts!Lost, FlagIsDown
  <2> QED BY <2>1 DEF Attempts!Next
<1>6. CASE Kis!TimerFires
  <2>1. Attempts!Retries
    BY <1>6 DEF Kis!TimerFires, Attempts!Retries
  <2> QED BY <2>1 DEF Attempts!Next
<1> QED BY <1>1, <1>2, <1>3, <1>4, <1>5, <1>6 DEF Kis!ConnectionEvent

\* connect, reconnectWebSocket and the events of the socket go through the phases
\* of one attempt after the other, whatever calls and loops do meanwhile.
THEOREM ConnectionGoesThroughPhases == Spec => ConnectionHasPhases
<1>1. Init => Attempts!Init
  BY DEF Init, Kis!KisInit, Attempts!Init, Phase
<1>2. ASSUME UNCHANGED ConnectionVars
      PROVE  UNCHANGED Phase
  BY <1>2 DEF ConnectionVars, Phase
<1>3. PhaseInv /\ [Next]_vars => [Attempts!Next]_Phase
  BY <1>2, EventHasPhase, StepOrStutter
<1> QED BY <1>1, <1>3, PhaseInvariant, PTL DEF Spec, ConnectionHasPhases, Attempts!Spec

-----------------------------------------------------------------------------
(* Types *)

LEMMA TickerKeyType ==
    ASSUME NEW s \in Symbols
    PROVE  Kis!CreateTickerKey(s) \in Kis!TrKeys
BY StockAssumption DEF StockAssumption, Kis!CreateTickerKey, Kis!TrKeys

LEMMA SendType ==
    ASSUME Kis!KisTypeOK, NEW type, NEW key \in Kis!TrKeys, Kis!Send(type, key)
    PROVE  registered' \subseteq Kis!TrKeys /\ presented' \subseteq 0 .. MaxLosses + 1
BY DEF Kis!Send, Kis!KisTypeOK

LEMMA StartType ==
    ASSUME Kis!KisTypeOK, NEW type \in Kis!TrTypes, NEW keys \in SUBSET Kis!TrKeys,
           Kis!Start(type, keys), UNCHANGED <<Kis!connectionVars, clock>>
    PROVE  Kis!KisTypeOK'
<1> USE DEF Kis!KisTypeOK
<1>1. registered' \subseteq Kis!TrKeys /\ presented' \subseteq 0 .. MaxLosses + 1
  BY SendType DEF Kis!Start
<1>2. loops' \in [LoopIds -> Kis!Loops]
  <2>1. ASSUME NEW first \in keys
        PROVE  [type |-> type, keys |-> keys \ {first}] \in Kis!Loops
    BY DEF Kis!Loops
  <2> QED BY <2>1 DEF Kis!Start
<1> QED BY <1>1, <1>2 DEF Kis!connectionVars

LEMMA LoopType ==
    ASSUME Kis!KisTypeOK, NEW i \in LoopIds, Kis!LoopContinues(i)
    PROVE  Kis!KisTypeOK'
<1> USE DEF Kis!KisTypeOK
<1>1. PICK key \in loops[i].keys :
        /\ Kis!Send(loops[i].type, key)
        /\ loops' = [loops EXCEPT ![i] = IF @.keys = {key} THEN Kis!Done
                       ELSE [type |-> @.type, keys |-> @.keys \ {key}]]
  BY DEF Kis!LoopContinues
<1>2. loops[i].type \in Kis!TrTypes /\ loops[i].keys \in SUBSET Kis!TrKeys
  BY DEF Kis!Loops
<1>3. registered' \subseteq Kis!TrKeys /\ presented' \subseteq 0 .. MaxLosses + 1
  BY <1>1, <1>2, SendType
<1>4. Kis!Done \in Kis!Loops /\ [type |-> loops[i].type, keys |-> loops[i].keys \ {key}] \in Kis!Loops
  BY <1>2 DEF Kis!Done, Kis!Loops, Kis!TrTypes
<1>5. loops' \in [LoopIds -> Kis!Loops]
  BY <1>1, <1>4
<1> QED BY <1>3, <1>5 DEF Kis!LoopContinues, Kis!connectionVars

LEMMA ConnectionType ==
    ASSUME Kis!KisTypeOK, Kis!ConnectionEvent
    PROVE  Kis!KisTypeOK'
<1> USE StockAssumption DEF Kis!KisTypeOK, StockAssumption
<1>1. CASE Kis!KeyGranted
  <2>1. losses + 1 \in 0 .. MaxLosses + 1
    OBVIOUS
  <2>2. socketKey' = losses + 1 /\ APPROVAL_KEY' = losses + 1
    BY <1>1 DEF Kis!KeyGranted
  <2> QED BY <1>1, <2>1, <2>2 DEF Kis!KeyGranted
<1>2. CASE Kis!KeyRefused BY <1>2 DEF Kis!KeyRefused
<1>3. CASE Kis!Opened BY <1>3 DEF Kis!Opened
<1>4. CASE Kis!Failed BY <1>4 DEF Kis!Failed
<1>5. CASE Kis!Closed BY <1>5 DEF Kis!Closed
<1>6. CASE Kis!TimerFires BY <1>6 DEF Kis!TimerFires
<1> QED BY <1>1, <1>2, <1>3, <1>4, <1>5, <1>6 DEF Kis!ConnectionEvent

LEMMA TypeStep ==
    ASSUME TypeOK, [Next]_vars
    PROVE  TypeOK'
<1> USE DEF TypeOK
<1>1. ASSUME NEW c \in Clients, NEW ch \in Channels, NEW types \in Requested,
             NEW listed \in Listings(ch), Subscribe(c, ch, listed, types)
      PROVE  TypeOK'
  <2>1. listed \subseteq Symbols /\ (~IsRanking(ch) => listed = {ch[2]})
    BY StockAssumption, SymbolChannelName DEF Listings, StockAssumption
  <2>2. ValidLinks([k \in {ch} |-> listed], types)
    <3>1. types \subseteq DataTypes /\ types # {}
      BY DEF Requested
    <3> QED BY <2>1, <3>1 DEF ValidLinks
  <2>3. BookTypeOK'
    BY <1>1, <2>2, SubscribeTypeOK DEF Subscribe
  <2>4. CASE NewSymbols(ch, listed) = {}
    BY <1>1, <2>3, <2>4 DEF Subscribe, kisVars, Kis!KisTypeOK
  <2>5. CASE NewSymbols(ch, listed) # {}
    <3>1. Kis!Subscribe(NewSymbols(ch, listed))
      BY <1>1, <2>5 DEF Subscribe
    <3>2. PICK rest \in Kis!Spliced(NewSymbols(ch, listed)) :
            Kis!Start("register", {Kis!CreateTickerKey(s) : s \in rest})
      BY <3>1 DEF Kis!Subscribe
    <3>3. {Kis!CreateTickerKey(s) : s \in rest} \in SUBSET Kis!TrKeys
      BY <2>1, TickerKeyType DEF Kis!Spliced, NewSymbols
    <3> QED BY <2>3, <3>1, <3>2, <3>3, StartType DEF Kis!Subscribe, Kis!TrTypes
  <2> QED BY <2>4, <2>5
<1>2. ASSUME NEW c \in Clients, NEW ch \in Channels, Unsubscribe(c, ch)
      PROVE  TypeOK'
  <2>1. BookTypeOK'
    BY <1>2, UnsubscribeTypeOK DEF Unsubscribe
  <2>2. CASE Released(c, {ch}) = {}
    BY <1>2, <2>1, <2>2 DEF Unsubscribe, kisVars, Kis!KisTypeOK
  <2>3. CASE Released(c, {ch}) # {}
    <3>1. Kis!Unsubscribe(Released(c, {ch}))
      BY <1>2, <2>3 DEF Unsubscribe
    <3>2. {Kis!CreateTickerKey(s) : s \in Released(c, {ch})} \in SUBSET Kis!TrKeys
      BY TickerKeyType DEF Released
    <3> QED BY <2>1, <3>1, <3>2, StartType DEF Kis!Unsubscribe, Kis!TrTypes
  <2> QED BY <2>2, <2>3
<1>3. CASE KisEvent
  <2>1. BookTypeOK'
    BY <1>3 DEF KisEvent, bookVars, BookTypeOK
  <2>2. CASE Kis!TimePasses
    BY <2>1, <2>2 DEF Kis!TimePasses, Kis!connectionVars, Kis!KisTypeOK
  <2> QED BY <1>3, <2>1, <2>2, ConnectionType, LoopType DEF KisEvent, Kis!KisEvent
<1>4. CASE UNCHANGED vars
  BY <1>4 DEF vars, bookVars, kisVars, BookTypeOK, Kis!KisTypeOK
<1> QED BY <1>1, <1>2, <1>3, <1>4 DEF Next

\* The book, the connection's state and what the loops have still to send keep
\* their types: keys have the prefix of an open or of a closed market.
THEOREM StockTypeCorrect == Spec => []TypeOK
<1>1. Init => TypeOK
  <2> SUFFICES ASSUME Init PROVE TypeOK
    OBVIOUS
  <2>1. BookTypeOK
    BY DEF Init, BookInit, BookTypeOK
  <2>2. Kis!Done \in Kis!Loops
    BY DEF Kis!Done, Kis!Loops, Kis!TrTypes
  <2>3. losses \in 0 .. MaxLosses /\ {socketKey, APPROVAL_KEY} \subseteq 0 .. MaxLosses + 1
    BY StockAssumption DEF Init, Kis!KisInit, StockAssumption
  <2>4. Kis!KisTypeOK
    BY <2>2, <2>3 DEF Init, Kis!KisInit, Kis!KisTypeOK
  <2> QED BY <2>1, <2>4 DEF TypeOK
<1> QED BY <1>1, TypeStep, PTL DEF Spec

=============================================================================
