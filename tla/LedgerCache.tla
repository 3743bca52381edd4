---------------------------- MODULE LedgerCache -----------------------------
(***************************************************************************)
(* What the ledgers of a Network (lib/network.js) are to clients whose     *)
(* calls for one channel do not overlap: a channel has one ledger at most, *)
(* being made or in use; discarding ends all in use, for good.  No awaits, *)
(* peers, handlers or identities.                                          *)
(***************************************************************************)
CONSTANTS Ledgers, Channels

VARIABLES
    asked,   \* the channels a ledger is being made for
    inUse,   \* per channel: the ledgers clients can work with
    ended    \* ledgers that were in use

vars == <<asked, inUse, ended>>

Init ==
    /\ asked = {}
    /\ inUse = [ch \in Channels |-> {}]
    /\ ended = {}

\* A client asks for a channel that has no ledger.
Ask(ch) ==
    /\ ch \notin asked
    /\ inUse[ch] = {}
    /\ asked' = asked \cup {ch}
    /\ UNCHANGED <<inUse, ended>>

\* It gets one that nobody had before, and the channel has no other.
Provide(ch, l) ==
    /\ ch \in asked
    /\ l \notin ended
    /\ \A c \in Channels : l \notin inUse[c]
    /\ asked' = asked \ {ch}
    /\ inUse' = [inUse EXCEPT ![ch] = {l}]
    /\ UNCHANGED ended

\* It gets none, and may ask again.
Refuse(ch) ==
    /\ ch \in asked
    /\ asked' = asked \ {ch}
    /\ UNCHANGED <<inUse, ended>>

Answer(ch) == Refuse(ch) \/ \E l \in Ledgers : Provide(ch, l)

\* The network is cleaned up; what is being made is not in use yet.
Discard ==
    /\ inUse' = [ch \in Channels |-> {}]
    /\ ended' = ended \cup UNION {inUse[ch] : ch \in Channels}
    /\ UNCHANGED asked

Next ==
    \/ \E ch \in Channels : Ask(ch) \/ Answer(ch)
    \/ Discard

Spec == Init /\ [][Next]_vars
=============================================================================
