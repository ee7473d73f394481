-------------------------- MODULE SharedRefreshes --------------------------
(***************************************************************************)
(* What the cache orchestrator and refreshCache promise, without jobs, the *)
(* map inFlight and the cache: callers refresh one type after the other; a *)
(* type is refreshed by one task at a time, which everyone who wants it    *)
(* awaits and whose end lets all of them go on, whether it succeeded or    *)
(* not; and what a task stores is never older than what was stored.        *)
(* AssetCache implements this specification.                               *)
(***************************************************************************)
EXTENDS Sequences

CONSTANTS
    Callers, Types, Symbols,
    Work,      \* the lists of types that cron jobs refresh
    Started    \* Started[c]: what c has to refresh when a process starts

VARIABLES
    listed,    \* the symbols that exist
    todo,      \* todo[c]: the types that c has still to refresh, in order
    waiting,   \* waiting[d]: who awaits the refresh of d; nobody if there is none
    seen       \* seen[d]: what existed when the stored answer for d was given

vars == <<listed, todo, waiting, seen>>

NobodyWaits == [d \in Types |-> {}]

Init ==
    /\ listed \in SUBSET Symbols
    /\ todo = Started
    /\ waiting = NobodyWaits
    /\ seen = [d \in Types |-> {}]

Assign(c, types) ==
    /\ todo[c] = <<>>
    /\ todo' = [todo EXCEPT ![c] = types]
    /\ UNCHANGED <<listed, waiting, seen>>

\* Begins a refresh, or joins the one there is.
Await(c) ==
    /\ todo[c] # <<>>
    /\ \A d \in Types : c \notin waiting[d]
    /\ waiting' = [waiting EXCEPT ![Head(todo[c])] = @ \cup {c}]
    /\ UNCHANGED <<listed, todo, seen>>

\* Everyone goes on at once; a refresh that failed has stored nothing.
Finish(d) ==
    /\ waiting[d] # {}
    /\ waiting' = [waiting EXCEPT ![d] = {}]
    /\ todo' = [c \in Callers |-> IF c \in waiting[d] THEN Tail(todo[c]) ELSE todo[c]]
    /\ \E symbols \in SUBSET listed :
         /\ seen[d] \subseteq symbols
         /\ seen' \in {seen, [seen EXCEPT ![d] = symbols]}
    /\ UNCHANGED listed

List(s) ==
    /\ listed' = listed \cup {s}
    /\ UNCHANGED <<todo, waiting, seen>>

Restart ==
    /\ todo' = Started
    /\ waiting' = NobodyWaits
    /\ UNCHANGED <<listed, seen>>

Next ==
    \/ \E c \in Callers : Await(c) \/ \E types \in Work : Assign(c, types)
    \/ \E d \in Types : Finish(d)
    \/ \E s \in Symbols : List(s)
    \/ Restart

Spec == Init /\ [][Next]_vars

=============================================================================
