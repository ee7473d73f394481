----------------------------- MODULE ScrollBack -----------------------------
(***************************************************************************)
(* What nextDateTime promises to whoever scrolls back through candles,     *)
(* without windows, limits, pieces of answers and the cache: each answer   *)
(* is the next stretch of the history, which begins where the one before   *)
(* ended, leaves nothing out and has nothing twice, while new candles      *)
(* appear at the other end.  A reader of coins may lose one candle between *)
(* two stretches.  Candles implements this specification.                  *)
(***************************************************************************)
EXTENDS Integers

CONSTANTS
    Readers,
    Horizon,   \* times are 1 .. Horizon
    First,     \* the place of a reader that has not begun
    End        \* and of one that was told that there is nothing older

VARIABLES
    bars,      \* the times that have a candle
    place,     \* place[r]: what r is given next is before this time
    seen,      \* seen[r]: the candles that r has been given
    lossy      \* lossy[r]: whether r scrolls through coins

vars == <<bars, place, seen, lossy>>

Init ==
    /\ bars \in SUBSET (1 .. Horizon)
    /\ place = [r \in Readers |-> First]
    /\ seen = [r \in Readers |-> {}]
    /\ lossy \in [Readers -> BOOLEAN]

Stretch(oldest, from) == {b \in bars : oldest <= b /\ b < from}

\* Between a stretch and the next one there is nothing, or one candle of a coin.
Seam(r, rest, oldest) ==
    \A b, c \in Stretch(rest, oldest) : lossy[r] /\ b = c

\* A stretch from the place of r down to oldest, which may have to be the last.
\* That of a reader that begins may leave out the latest candles: it may come
\* from a cache.
Give(r, oldest, from) ==
    /\ place[r] \in {First, from}
    /\ Stretch(oldest, from) \cap seen[r] = {}
    /\ seen' = [seen EXCEPT ![r] = @ \cup Stretch(oldest, from)]
    /\ \/ place' = [place EXCEPT ![r] = End]
       \/ /\ Stretch(oldest, from) # {}
          /\ \E rest \in 0 .. oldest : Seam(r, rest, oldest) /\ place' = [place EXCEPT ![r] = rest]
    /\ UNCHANGED <<bars, lossy>>

\* With the same stock or coin, or with another one.
StartOver(r) ==
    /\ place' = [place EXCEPT ![r] = First]
    /\ seen' = [seen EXCEPT ![r] = {}]
    /\ \E coin \in BOOLEAN : lossy' = [lossy EXCEPT ![r] = coin]
    /\ UNCHANGED bars

\* A candle later than all others, and before no place.
Trade(t) ==
    /\ \A b \in bars : b < t
    /\ \A r \in Readers : place[r] \in {First, End} \/ place[r] <= t
    /\ bars' = bars \cup {t}
    /\ UNCHANGED <<place, seen, lossy>>

Next ==
    \/ \E r \in Readers :
         \/ StartOver(r)
         \/ \E oldest \in 1 .. Horizon + 1, from \in 0 .. Horizon + 1 : Give(r, oldest, from)
    \/ \E t \in 1 .. Horizon : Trade(t)

Spec == Init /\ [][Next]_vars

=============================================================================
