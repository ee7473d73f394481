------------------------- MODULE ChannelMembership -------------------------
(***************************************************************************)
(* What the market gateway promises a client, without the maps, rooms and  *)
(* pending handlers it keeps the promise with: a client asks for channels, *)
(* is admitted to those it asked for and to no other, and stops receiving  *)
(* when it drops a channel or goes away.  MarketGateway implements this    *)
(* specification for clients that behave (see there).                      *)
(***************************************************************************)

CONSTANTS Clients, Channels

VARIABLES
    asked,   \* asked[c]: the channels client c wants
    member   \* member[c]: the channels whose data client c is sent

vars == <<asked, member>>

Init ==
    /\ asked = [c \in Clients |-> {}]
    /\ member = [c \in Clients |-> {}]

Ask(c, ch) ==
    /\ asked' = [asked EXCEPT ![c] = @ \cup {ch}]
    /\ UNCHANGED member

\* Data reaches only those who asked for it.
Admit(c, ch) ==
    /\ ch \in asked[c] \ member[c]
    /\ member' = [member EXCEPT ![c] = @ \cup {ch}]
    /\ UNCHANGED asked

Drop(c, ch) ==
    /\ asked' = [asked EXCEPT ![c] = @ \ {ch}]
    /\ member' = [member EXCEPT ![c] = @ \ {ch}]

Depart(c) ==
    /\ asked' = [asked EXCEPT ![c] = {}]
    /\ member' = [member EXCEPT ![c] = {}]

Next == \E c \in Clients :
    \/ Depart(c)
    \/ \E ch \in Channels : Ask(c, ch) \/ Admit(c, ch) \/ Drop(c, ch)

Safety == Init /\ [][Next]_vars

\* Whoever asks is admitted, unless it drops the channel first.
Spec == Safety /\ \A c \in Clients : \A ch \in Channels : WF_vars(Admit(c, ch))

=============================================================================
