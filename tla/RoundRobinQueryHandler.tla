----------------------- MODULE RoundRobinQueryHandler -----------------------
(***************************************************************************)
(* RoundRobinQueryHandler (lib/impl/query).  A query asks the peers of its *)
(* handler from the least used to the most used and counts the peer that   *)
(* answers.  The counts belong to the process: all queries of all handlers *)
(* sort by them before an await and write them after it.  Each query is of *)
(* a handler with peers of its own, those of its channel in any order.     *)
(***************************************************************************)
EXTENDS Integers, FiniteSets, SequencesExt

CONSTANTS
    Peers,     \* the organisation's peers, over all channels of the process
    Queries,   \* bound: queries that may be in flight together
    MaxUses    \* bound: no query asks a peer once so many uses were counted

ASSUME RoundRobinAssumption ==
    /\ IsFiniteSet(Peers)
    /\ IsFiniteSet(Queries)
    /\ MaxUses \in Nat

VARIABLES
    peerCount,   \* a peer that was never used counts 0
    listed,      \* per query: the peers its handler has (allQueryablePeers)
    peerList,    \* per query: the peers it has not asked yet, after the one it asks
    allErrors,   \* per query: the peers that failed it
    result,      \* per query: what queryChaincode returned or threw
    uncompared   \* history: <<p, r>> once p was asked without being sorted before r

vars == <<peerCount, listed, peerList, allErrors, result, uncompared>>

InFlight(q) == peerList[q] # <<>>

\* Every variable has its type: a use count is a number from the first query on,
\* and a query asks peers of its handler only.
TypeOK ==
    /\ peerCount \in [Peers -> Nat]
    /\ listed \in [Queries -> SUBSET Peers]
    /\ peerList \in [Queries -> Seq(Peers)]
    /\ allErrors \in [Queries -> SUBSET Peers]
    /\ result \in [Queries -> {"none", "typeError", "noPeers",
                               "payload", "peerError", "noneAvailable"}]
    /\ uncompared \in SUBSET (Peers \X Peers)

Init ==
    /\ peerCount = [p \in Peers |-> 0]
    /\ listed = [q \in Queries |-> {}]
    /\ peerList = [q \in Queries |-> <<>>]
    /\ allErrors = [q \in Queries |-> {}]
    /\ result = [q \in Queries |-> "none"]
    /\ uncompared = {}

-----------------------------------------------------------------------------

\* Bug: in front of the first peer that is used less.
InsertReversed(peerOrder, p) ==
    IF peerCount[p] = 0
    THEN <<p>> \o peerOrder
    ELSE LET i == SelectInSeq(peerOrder, LAMBDA r : peerCount[r] < peerCount[p])
         IN  IF i = 0 THEN Append(peerOrder, p) ELSE InsertAt(peerOrder, i, p)

\* Bug: the peer at the place of insertion is replaced, as by splice(i, 1, peer).
InsertReplaces(peerOrder, p) ==
    IF peerCount[p] = 0
    THEN <<p>> \o peerOrder
    ELSE LET i == SelectInSeq(peerOrder, LAMBDA r : peerCount[p] < peerCount[r])
         IN  IF i = 0 THEN Append(peerOrder, p) ELSE ReplaceAt(peerOrder, i, p)

\* A peer never used goes first, another in front of the first one used more.
Insert(peerOrder, p) ==
    IF peerCount[p] = 0
    THEN <<p>> \o peerOrder
    ELSE LET i == SelectInSeq(peerOrder, LAMBDA r : peerCount[p] < peerCount[r])
         IN  IF i = 0 THEN Append(peerOrder, p) ELSE InsertAt(peerOrder, i, p)

GetPeersInOrder(allQueryablePeers) == FoldLeft(Insert, <<>>, allQueryablePeers)

\* No peer of the channel is of the organisation: peerMap.get(mspId) is undefined,
\* and reading its length throws.
QueryUndefined(q) ==
    /\ ~InFlight(q)
    /\ listed' = [listed EXCEPT ![q] = {}]
    /\ allErrors' = [allErrors EXCEPT ![q] = {}]
    /\ result' = [result EXCEPT ![q] = "typeError"]
    /\ UNCHANGED <<peerCount, peerList, uncompared>>

\* A query is sent: with an empty list it throws.
QueryChaincode(q, allQueryablePeers) ==
    LET order == GetPeersInOrder(allQueryablePeers)
        peers == ToSet(allQueryablePeers)
    IN  /\ ~InFlight(q)
        /\ peers # {} => MapThenSumSet(LAMBDA p : peerCount[p], Peers) < MaxUses
        /\ listed' = [listed EXCEPT ![q] = peers]
        /\ peerList' = [peerList EXCEPT ![q] = order]
        /\ allErrors' = [allErrors EXCEPT ![q] = {}]
        /\ result' = [result EXCEPT ![q] = IF allQueryablePeers = <<>> THEN "noPeers" ELSE "none"]
        /\ uncompared' = uncompared \cup
              (IF order = <<>> THEN {} ELSE {Head(order)} \X (Peers \ peers))
        /\ UNCHANGED peerCount

\* The peer answers with a payload, or with an error other than code 14, which
\* counts as a use too and is thrown at the very end.
PeerAnswers(q, answer) ==
    /\ InFlight(q)
    /\ peerCount' = [peerCount EXCEPT ![Head(peerList[q])] = @ + 1]
    /\ peerList' = [peerList EXCEPT ![q] = <<>>]
    /\ result' = [result EXCEPT ![q] = answer]
    /\ UNCHANGED <<listed, allErrors, uncompared>>

\* The peer fails the query, which goes on to the next of its list, used however
\* much by now.
PeerFails(q) ==
    /\ InFlight(q)
    /\ peerList' = [peerList EXCEPT ![q] = Tail(@)]
    /\ allErrors' = [allErrors EXCEPT ![q] = @ \cup {Head(peerList[q])}]
    /\ result' = [result EXCEPT ![q] =
                     IF Len(peerList[q]) = 1 THEN "noneAvailable" ELSE "none"]
    /\ uncompared' = uncompared \cup
          (IF Len(peerList[q]) = 1 THEN {} ELSE {peerList[q][2]} \X Peers)
    /\ UNCHANGED <<peerCount, listed>>

PeerResponds(q) ==
    \/ \E answer \in {"payload", "peerError"} : PeerAnswers(q, answer)
    \/ PeerFails(q)

\* The lists a handler can have: some of the peers, each once.
Lists == UNION {SetToSeqs(S) : S \in SUBSET Peers}

Next ==
    \E q \in Queries :
        \/ QueryUndefined(q)
        \/ \E list \in Lists : QueryChaincode(q, list)
        \/ PeerResponds(q)

Spec == Init /\ [][Next]_vars

-----------------------------------------------------------------------------
(* Properties                                                              *)

\* The queries whose request is with peer p.
Asking(p) == {q \in Queries : InFlight(q) /\ Head(peerList[q]) = p}

\* "sort the peers in order from least used to most used": a peer that was only
\* ever asked first, by handlers that have r too, is not ahead of r by more than
\* the queries that may be in flight together and sort by the same counts; its
\* requests in flight included, and whatever the handlers of other channels, the
\* failures of other peers and the queries that began at r did to the counts.
SpreadBounded ==
    \A p, r \in Peers :
        <<p, r>> \notin uncompared =>
            peerCount[p] + Cardinality(Asking(p)) <= peerCount[r] + Cardinality(Queries)

\* A query that reports no available peer was failed by every peer of its handler, and one in
\* flight has yet to ask exactly those that have not failed it: none is lost or
\* asked twice, whatever the sorting and other queries do.
EveryPeerTriedOnce ==
    \A q \in Queries :
        /\ result[q] = "noneAvailable" => allErrors[q] = listed[q]
        /\ InFlight(q) =>
              /\ ToSet(peerList[q]) = listed[q] \ allErrors[q]
              /\ IsInjective(peerList[q])

\* A query is failed by peers of its handler.
ErrorsAreListed == \A q \in Queries : allErrors[q] \subseteq listed[q]

\* The inductive invariant behind both.
IInv ==
    /\ TypeOK
    /\ ErrorsAreListed
    /\ SpreadBounded
    /\ EveryPeerTriedOnce
=============================================================================
