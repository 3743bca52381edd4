---------------------------- MODULE PeerFailover ----------------------------
(***************************************************************************)
(* What a DefaultQueryHandler (lib/impl/query) is to clients that wait for *)
(* each answer before they query again, as the comment above               *)
(* queryChaincode says it: the last peer that answered is asked first, and *)
(* when it fails the first of the list that has not failed the query.  No  *)
(* search with its index, and no peer to skip.                             *)
(***************************************************************************)
EXTENDS Integers

CONSTANTS Queries, MaxPeers

VARIABLES
    peerCount,
    remembered,   \* the peer that answered last
    asked,        \* per query: the peer that has it
    failed,       \* per query: the peers that failed it
    result

vars == <<peerCount, remembered, asked, failed, result>>

Peers == 0 .. peerCount - 1
None  == -1

Init ==
    /\ peerCount \in 0..MaxPeers
    /\ remembered = None
    /\ asked = [q \in Queries |-> None]
    /\ failed = [q \in Queries |-> {}]
    /\ result = [q \in Queries |-> "none"]

Ask(q, p) ==
    /\ asked' = [asked EXCEPT ![q] = p]
    /\ result' = [result EXCEPT ![q] = "none"]

End(q, r) ==
    /\ asked' = [asked EXCEPT ![q] = None]
    /\ result' = [result EXCEPT ![q] = r]

\* The first of the peers that are left, if any is.
AskFirst(q, peers) ==
    \/ peers = {} /\ End(q, "noneAvailable")
    \/ \E p \in peers : (\A other \in peers : p <= other) /\ Ask(q, p)

Query(q) ==
    /\ \A other \in Queries : asked[other] = None
    /\ failed' = [failed EXCEPT ![q] = {}]
    /\ UNCHANGED <<peerCount, remembered>>
    /\ \/ peerCount = 0 /\ End(q, "noPeers")
       \/ peerCount # 0 /\ remembered # None /\ Ask(q, remembered)
       \/ peerCount # 0 /\ remembered = None /\ AskFirst(q, Peers)

Answer(q, answer) ==
    /\ asked[q] # None
    /\ remembered' = asked[q]
    /\ End(q, answer)
    /\ UNCHANGED <<peerCount, failed>>

Fail(q) ==
    /\ asked[q] # None
    /\ remembered' = None
    /\ failed' = [failed EXCEPT ![q] = @ \cup {asked[q]}]
    /\ AskFirst(q, Peers \ failed'[q])
    /\ UNCHANGED peerCount

Respond(q) == Fail(q) \/ \E answer \in {"payload", "peerError"} : Answer(q, answer)

Next == \E q \in Queries : Query(q) \/ Respond(q)

Spec == Init /\ [][Next]_vars
=============================================================================
