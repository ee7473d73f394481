---------------------------- MODULE Reconnection ----------------------------
(***************************************************************************)
(* What a client of a stream that needs a key promises: it is always in    *)
(* one phase of one attempt.  A live connection is left only by its loss   *)
(* or by the end of the process, every loss starts the timer of one new    *)
(* attempt, and an attempt goes on to a live connection unless a key is    *)
(* refused.  After a refusal nothing is tried again.                       *)
(***************************************************************************)

VARIABLE phase

Phases == {"starting", "connecting", "open", "waiting", "asking", "givenUp", "ended"}

\* The first key is asked for while the application starts.
Init == phase = "starting"

-----------------------------------------------------------------------------

Granted ==
    /\ phase \in {"starting", "asking"}
    /\ phase' = "connecting"

\* The application does not come up without its first key.
Refused ==
    \/ phase = "starting" /\ phase' = "ended"
    \/ phase = "asking" /\ phase' = "givenUp"

Opens == phase = "connecting" /\ phase' = "open"

Lost == phase = "open" /\ phase' = "waiting"

Retries == phase = "waiting" /\ phase' = "asking"

Crashes == phase \in {"connecting", "open"} /\ phase' = "ended"

Next == Granted \/ Refused \/ Opens \/ Lost \/ Retries \/ Crashes

Spec == Init /\ [][Next]_phase

=============================================================================
