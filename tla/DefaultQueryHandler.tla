------------------------ MODULE DefaultQueryHandler -------------------------
(***************************************************************************)
(* DefaultQueryHandler.queryChaincode (lib/impl/query) with the peer query *)
(* of BaseQueryHandler it awaits.  One handler serves every query of a     *)
(* ledger, so queries interleave at that await and share queryPeerIndex.   *)
(* A peer's answer is the environment's choice.                            *)
(***************************************************************************)
EXTENDS Integers, FiniteSets

CONSTANTS
    Queries,     \* bound: queries that may be in flight together
    MaxPeers     \* bound: peers of the client's organisation

ASSUME QueryAssumption == MaxPeers \in Nat

VARIABLES
    peerCount,        \* allQueryablePeers.length
    queryPeerIndex,   \* the peer the handler is locked onto, or -1
    pc,               \* per query: the await it is in
    trying,           \* per query: index of the peer it has asked
    failedPeer,       \* per query: the local failedPeer
    tried,            \* per query: peers that failed it, its allErrors
    result,           \* per query: what queryChaincode returned or threw
    overlapped        \* history: two queries were in flight together

queryVars == <<pc, trying, failedPeer, tried, result>>
vars      == <<peerCount, queryPeerIndex, queryVars, overlapped>>

Peers == 0 .. peerCount - 1
None  == -1

Results == {"none", "payload", "peerError", "noneAvailable", "noPeers"}

TypeOK ==
    /\ peerCount \in 0..MaxPeers
    /\ queryPeerIndex \in Peers \cup {None}
    /\ pc \in [Queries -> {"idle", "last", "search", "done"}]
    /\ trying \in [Queries -> Peers \cup {None}]
    /\ failedPeer \in [Queries -> Peers \cup {None}]
    /\ tried \in [Queries -> SUBSET Peers]
    /\ result \in [Queries -> Results]
    /\ overlapped \in BOOLEAN

Init ==
    /\ peerCount \in 0..MaxPeers
    /\ queryPeerIndex = None
    /\ pc = [q \in Queries |-> "idle"]
    /\ trying = [q \in Queries |-> None]
    /\ failedPeer = [q \in Queries |-> None]
    /\ tried = [q \in Queries |-> {}]
    /\ result = [q \in Queries |-> "none"]
    /\ overlapped = FALSE

-----------------------------------------------------------------------------

InFlight(q) == pc[q] \in {"last", "search"}

Return(q, r) ==
    /\ pc' = [pc EXCEPT ![q] = "done"]
    /\ trying' = [trying EXCEPT ![q] = None]
    /\ result' = [result EXCEPT ![q] = r]

Ask(q, await, p) ==
    /\ pc' = [pc EXCEPT ![q] = await]
    /\ trying' = [trying EXCEPT ![q] = p]
    /\ result' = [result EXCEPT ![q] = "none"]

\* Bug: off by one, i <= allQueryablePeers.length.
CandidatesOffByOne(i, skipped) == {p \in 0..peerCount : p >= i /\ p # skipped}

\* The loop goes on with the first index from i on that is not skipped.
Candidates(i, skipped) == {p \in Peers : p >= i /\ p # skipped}

Continue(q, i, skipped) ==
    \/ /\ Candidates(i, skipped) = {}
       /\ Return(q, "noneAvailable")
    \/ \E p \in Candidates(i, skipped) :
          /\ \A other \in Candidates(i, skipped) : p <= other
          /\ Ask(q, "search", p)

\* Bug: the search goes on below the peer that failed, not from the top.
SearchBelow(q) ==
    /\ failedPeer' = [failedPeer EXCEPT ![q] = queryPeerIndex]
    /\ queryPeerIndex' = None
    /\ Continue(q, queryPeerIndex + 1, queryPeerIndex)

\* Bug: queryPeerIndex is reset before failedPeer is read.
SearchForgetsFailed(q) ==
    /\ failedPeer' = [failedPeer EXCEPT ![q] = None]
    /\ queryPeerIndex' = None
    /\ Continue(q, 0, None)

\* failedPeer is what queryPeerIndex is by now.
Search(q) ==
    /\ failedPeer' = [failedPeer EXCEPT ![q] = queryPeerIndex]
    /\ queryPeerIndex' = None
    /\ Continue(q, 0, queryPeerIndex)

\* queryChaincode is called, up to its first await.
QueryChaincode(q) ==
    /\ ~InFlight(q)
    /\ tried' = [tried EXCEPT ![q] = {}]
    /\ overlapped' = (overlapped \/ \E other \in Queries : InFlight(other))
    /\ UNCHANGED peerCount
    /\ \/ /\ peerCount = 0
          /\ Return(q, "noPeers")
          /\ UNCHANGED <<queryPeerIndex, failedPeer>>
       \/ /\ peerCount # 0
          /\ queryPeerIndex # None
          /\ Ask(q, "last", queryPeerIndex)
          /\ failedPeer' = [failedPeer EXCEPT ![q] = None]
          /\ UNCHANGED queryPeerIndex
       \/ /\ peerCount # 0
          /\ queryPeerIndex = None
          /\ Search(q)

\* The peer answers with a payload, or with an error that is not code 14: both
\* are answers to _querySinglePeer, the error is thrown at the very end.
PeerAnswers(q, answer) ==
    /\ InFlight(q)
    /\ queryPeerIndex' = IF pc[q] = "search" THEN trying[q] ELSE queryPeerIndex
    /\ Return(q, answer)
    /\ UNCHANGED <<peerCount, failedPeer, tried, overlapped>>

\* Bug: a search that has found nobody starts over.
FailsStartsOver(q) ==
    /\ InFlight(q)
    /\ tried' = [tried EXCEPT ![q] = @ \cup {trying[q]}]
    /\ UNCHANGED <<peerCount, overlapped>>
    /\ \/ /\ pc[q] = "last"
          /\ Search(q)
       \/ /\ pc[q] = "search"
          /\ LET next == Candidates(trying[q] + 1, failedPeer[q])
             IN  Continue(q, IF next = {} THEN 0 ELSE trying[q] + 1, failedPeer[q])
          /\ UNCHANGED <<queryPeerIndex, failedPeer>>

\* The peer is unavailable (code 14), sends no payloads, or the request
\* rejects.
PeerFails(q) ==
    /\ InFlight(q)
    /\ tried' = [tried EXCEPT ![q] = @ \cup {trying[q]}]
    /\ UNCHANGED <<peerCount, overlapped>>
    /\ \/ /\ pc[q] = "last"
          /\ Search(q)
       \/ /\ pc[q] = "search"
          /\ Continue(q, trying[q] + 1, failedPeer[q])
          /\ UNCHANGED <<queryPeerIndex, failedPeer>>

PeerResponds(q) ==
    \/ \E answer \in {"payload", "peerError"} : PeerAnswers(q, answer)
    \/ PeerFails(q)

Next == \E q \in Queries : QueryChaincode(q) \/ PeerResponds(q)

\* The SDK answers every request, with its request-timeout if nothing else.
Spec == Init /\ [][Next]_vars /\ \A q \in Queries : WF_vars(PeerResponds(q))

-----------------------------------------------------------------------------
(* Properties                                                              *)

\* However queries interleave, a query that reports no available peer has been
\* failed by all peers but one at most: the one it skipped.
AtMostOneSkipped ==
    \A q \in Queries : result[q] = "noneAvailable" =>
        \E s \in Peers : Peers \ {s} \subseteq tried[q]

\* A query never asks a peer of the list before those above it have failed it:
\* the one it asks is the first of the list, but for the one it skips.
SearchesFromTheTop ==
    \A q \in Queries : pc[q] = "search" =>
        \A p \in Peers : p < trying[q] /\ p # failedPeer[q] => p \in tried[q]

\* A query in flight has asked a peer of the list and has no result yet.
AskedInFlight ==
    \A q \in Queries : InFlight(q) => trying[q] \in Peers /\ result[q] = "none"

\* Types, the search order and its outcome hang together: true at the start and
\* kept by every call and every answer of a peer.
IInv ==
    /\ TypeOK
    /\ AskedInFlight
    /\ SearchesFromTheTop
    /\ AtMostOneSkipped

\* Every query ends, whatever the other queries do to the shared index.
QueryEnds == \A q \in Queries : InFlight(q) ~> ~InFlight(q)

\* "If that fails or this is the first time try all query peers in order": a
\* query reports that no peer is available only when every peer failed it.
EveryPeerTried ==
    \A q \in Queries : result[q] = "noneAvailable" => tried[q] = Peers

\* "... ignoring the one that just failed": that holds, and no query asks a peer
\* again that has failed it, as long as no two queries have been in flight
\* together.
EveryPeerTriedAlone ==
    ~overlapped =>
        /\ EveryPeerTried
        /\ \A q \in Queries : InFlight(q) => trying[q] \notin tried[q]

\* "... then remember that peer, until it fails": as long as no two queries have
\* been in flight together, the handler gives up the peer it is locked onto
\* only in a step in which that peer fails a query.
LockedUntilFailedAlone ==
    [][~overlapped /\ queryPeerIndex # None /\ queryPeerIndex' # queryPeerIndex =>
          \E q \in Queries : PeerFails(q) /\ trying[q] = queryPeerIndex]_vars

\* Without overlap the only query in flight finds the shared index as it left
\* it: on the peer it asks first, or reset while it searches on from the peer
\* that failed it.
AloneWith(q) ==
    /\ pc[q] = "last" => queryPeerIndex = trying[q] /\ tried[q] = {}
    /\ pc[q] = "search" =>
          /\ queryPeerIndex = None
          /\ failedPeer[q] \in tried[q] \cup {None}
          /\ trying[q] # failedPeer[q]
          /\ \A p \in tried[q] : p < trying[q] \/ p = failedPeer[q]
    /\ result[q] = "noneAvailable" => tried[q] = Peers

\* The inductive invariant behind the properties of a handler without overlap.
AloneInv ==
    /\ IInv
    /\ ~overlapped =>
          /\ \A q, r \in Queries : InFlight(q) /\ InFlight(r) => q = r
          /\ \A q \in Queries : AloneWith(q)

-----------------------------------------------------------------------------
(* What the handler implements as long as queries do not overlap           *)

Failover == INSTANCE PeerFailover WITH
    remembered <- queryPeerIndex,
    asked <- trying,
    failed <- tried

\* "1. try the last successful peer 2. If that fails or this is the first time try all
\* query peers in order": as long as no two queries have been in flight together, the
\* search with its index, its reset and its skipped peer implements just that.
ImplementsFailover ==
    Failover!Init /\ [][~overlapped' => Failover!Next]_(Failover!vars)
=============================================================================
