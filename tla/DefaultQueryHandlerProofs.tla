---------------------- MODULE DefaultQueryHandlerProofs ----------------------
(***************************************************************************)
(* Proofs about DefaultQueryHandler, for any number of peers and of        *)
(* queries in flight together: IInv is inductive, and with it a query      *)
(* gives up only when all peers but one at most have failed it.  Without   *)
(* overlap AloneInv is, and the handler implements PeerFailover.           *)
(***************************************************************************)
EXTENDS DefaultQueryHandler, TLAPS

LEMMA IInvInit == Init => IInv
<1> SUFFICES ASSUME Init PROVE IInv
  OBVIOUS
<1>1. TypeOK
  BY DEF Init, TypeOK, Results, None
<1>2. AskedInFlight
  BY DEF Init, AskedInFlight, InFlight
<1>3. SearchesFromTheTop
  BY DEF Init, SearchesFromTheTop
<1>4. AtMostOneSkipped
  BY DEF Init, AtMostOneSkipped
<1> QED
  BY <1>1, <1>2, <1>3, <1>4 DEF IInv

\* What the invariant says of one query.
QueryOK(q) ==
    /\ pc[q] \in {"idle", "last", "search", "done"}
    /\ trying[q] \in Peers \cup {None}
    /\ failedPeer[q] \in Peers \cup {None}
    /\ tried[q] \in SUBSET Peers
    /\ result[q] \in Results
    /\ InFlight(q) => trying[q] \in Peers /\ result[q] = "none"
    /\ pc[q] = "search" =>
          \A p \in Peers : p < trying[q] /\ p # failedPeer[q] => p \in tried[q]
    /\ result[q] = "noneAvailable" => \E s \in Peers : Peers \ {s} \subseteq tried[q]

AllOK == \A q \in Queries : QueryOK(q)

\* The functions over the queries are functions over the queries.
Shape ==
    /\ peerCount \in 0..MaxPeers
    /\ queryPeerIndex \in Peers \cup {None}
    /\ pc = [q \in Queries |-> pc[q]]
    /\ trying = [q \in Queries |-> trying[q]]
    /\ failedPeer = [q \in Queries |-> failedPeer[q]]
    /\ tried = [q \in Queries |-> tried[q]]
    /\ result = [q \in Queries |-> result[q]]
    /\ overlapped \in BOOLEAN

LEMMA PerQuery == IInv <=> Shape /\ AllOK
<1>1. ASSUME IInv PROVE Shape
  BY <1>1 DEF IInv, TypeOK, Shape
<1>2. ASSUME IInv PROVE AllOK
  BY <1>2 DEF IInv, TypeOK, AskedInFlight, SearchesFromTheTop, AtMostOneSkipped, AllOK, QueryOK
<1>3. ASSUME Shape, AllOK PROVE IInv
  <2>1. TypeOK
    BY <1>3 DEF Shape, AllOK, QueryOK, TypeOK
  <2>2. AskedInFlight /\ SearchesFromTheTop /\ AtMostOneSkipped
    BY <1>3 DEF AllOK, QueryOK, AskedInFlight, SearchesFromTheTop, AtMostOneSkipped
  <2> QED
    BY <2>1, <2>2 DEF IInv
<1> QED
  BY <1>1, <1>2, <1>3

\* A step of q that leaves the other queries alone has only q to answer for.
LEMMA OneQuery ==
    ASSUME IInv, NEW q \in Queries,
           UNCHANGED peerCount,
           queryPeerIndex' \in Peers \cup {None}, overlapped' \in BOOLEAN,
           NEW c, pc' = [pc EXCEPT ![q] = c],
           NEW t, trying' = [trying EXCEPT ![q] = t],
           NEW f, failedPeer' = [failedPeer EXCEPT ![q] = f],
           NEW d, tried' = [tried EXCEPT ![q] = d],
           NEW r, result' = [result EXCEPT ![q] = r],
           QueryOK(q)'
    PROVE  IInv'
<1>1. Shape /\ AllOK
  BY PerQuery
<1>2. Peers' = Peers
  BY DEF Peers
<1>3. Shape'
  BY <1>1, <1>2 DEF Shape
<1>4. ASSUME NEW x \in Queries PROVE QueryOK(x)'
  <2>1. CASE x = q
    BY <2>1
  <2>2. CASE x # q
    <3>1. /\ pc'[x] = pc[x] /\ trying'[x] = trying[x] /\ failedPeer'[x] = failedPeer[x]
          /\ tried'[x] = tried[x] /\ result'[x] = result[x]
      BY <1>1, <2>2 DEF Shape
    <3>2. QueryOK(x)
      BY <1>1 DEF AllOK
    <3> QED
      BY <3>1, <3>2, <1>2 DEF QueryOK, InFlight
  <2> QED
    BY <2>1, <2>2
<1>5. AllOK'
  BY <1>4 DEF AllOK
<1> QED
  BY <1>3, <1>5, PerQuery, PTL

\* Where the loop goes from i, when the peers before i have failed the query
\* but for the one it skips.
LEMMA ContinueKeeps ==
    ASSUME IInv, NEW q \in Queries, peerCount # 0,
           UNCHANGED peerCount,
           queryPeerIndex' \in Peers \cup {None}, overlapped' \in BOOLEAN,
           NEW i \in Nat, NEW skipped \in Peers \cup {None},
           NEW d \in SUBSET Peers,
           \A p \in Peers : p < i /\ p # skipped => p \in d,
           failedPeer' = [failedPeer EXCEPT ![q] = skipped],
           tried' = [tried EXCEPT ![q] = d],
           Continue(q, i, skipped)
    PROVE  IInv'
<1>1. Shape /\ QueryOK(q)
  BY PerQuery DEF AllOK
<1>2. Peers' = Peers /\ Peers \in SUBSET Int /\ 0 \in Peers
  BY <1>1 DEF Peers, Shape
<1>3. failedPeer'[q] = skipped /\ tried'[q] = d
  BY <1>1 DEF Shape
<1>4. CASE Candidates(i, skipped) = {} /\ Return(q, "noneAvailable")
  <2>1. pc'[q] = "done" /\ trying'[q] = None /\ result'[q] = "noneAvailable"
    BY <1>1, <1>4 DEF Shape, Return
  <2>2. Peers \ {skipped} \subseteq d
    BY <1>2, <1>4 DEF Candidates
  <2>3. \E s \in Peers : Peers \ {s} \subseteq d
    <3>1. CASE skipped \in Peers
      BY <2>2, <3>1
    <3>2. CASE skipped \notin Peers
      BY <2>2, <3>2, <1>2
    <3> QED
      BY <3>1, <3>2
  <2>4. QueryOK(q)'
    BY <1>2, <1>3, <2>1, <2>3 DEF QueryOK, InFlight, Results, None
  <2> QED
    BY <1>4, <2>4, OneQuery DEF Return
<1>5. ASSUME NEW p \in Candidates(i, skipped),
             \A other \in Candidates(i, skipped) : p <= other,
             Ask(q, "search", p)
      PROVE  IInv'
  <2>1. pc'[q] = "search" /\ trying'[q] = p /\ result'[q] = "none"
    BY <1>1, <1>5 DEF Shape, Ask
  <2>2. p \in Peers
    BY DEF Candidates
  <2>3. ASSUME NEW x \in Peers, x < p, x # skipped PROVE x \in d
    <3>1. x \notin Candidates(i, skipped)
      BY <1>2, <1>5, <2>2, <2>3
    <3> QED
      BY <3>1, <2>3, <1>2 DEF Candidates
  <2>4. QueryOK(q)'
    BY <1>2, <1>3, <2>1, <2>2, <2>3 DEF QueryOK, InFlight, Results
  <2> QED
    BY <1>5, <2>4, OneQuery DEF Ask
<1> QED
  BY <1>4, <1>5 DEF Continue

LEMMA SearchKeeps ==
    ASSUME IInv, NEW q \in Queries, peerCount # 0,
           UNCHANGED peerCount, overlapped' \in BOOLEAN,
           NEW d \in SUBSET Peers, tried' = [tried EXCEPT ![q] = d],
           Search(q)
    PROVE  IInv'
<1>1. Shape
  BY PerQuery
<1>2. \A p \in Peers : ~(p < 0)
  BY <1>1 DEF Peers, Shape
<1>3. queryPeerIndex \in Peers \cup {None} /\ queryPeerIndex' \in Peers \cup {None}
  BY <1>1 DEF Shape, Search
<1> QED
  BY <1>2, <1>3, ContinueKeeps DEF Search

LEMMA CallKeeps ==
    ASSUME IInv, NEW q \in Queries, QueryChaincode(q)
    PROVE  IInv'
<1>1. Shape /\ QueryOK(q)
  BY PerQuery DEF AllOK
<1>2. Peers' = Peers
  BY DEF Peers, QueryChaincode
<1>3. tried'[q] = {} /\ tried' = [tried EXCEPT ![q] = {}] /\ UNCHANGED peerCount
      /\ overlapped' \in BOOLEAN
  BY <1>1 DEF Shape, QueryChaincode
<1>4. CASE peerCount = 0 /\ Return(q, "noPeers") /\ UNCHANGED <<queryPeerIndex, failedPeer>>
  <2>1. pc'[q] = "done" /\ trying'[q] = None /\ result'[q] = "noPeers"
    BY <1>1, <1>4 DEF Shape, Return
  <2>2. failedPeer' = [failedPeer EXCEPT ![q] = failedPeer[q]]
    BY <1>1, <1>4 DEF Shape
  <2>3. QueryOK(q)'
    BY <1>1, <1>2, <1>3, <1>4, <2>1 DEF QueryOK, InFlight, Results
  <2>4. queryPeerIndex' \in Peers \cup {None}
    BY <1>1, <1>4 DEF Shape
  <2> QED
    BY <1>3, <1>4, <2>2, <2>3, <2>4, OneQuery DEF Return
<1>5. CASE /\ queryPeerIndex # None
           /\ Ask(q, "last", queryPeerIndex)
           /\ failedPeer' = [failedPeer EXCEPT ![q] = None]
           /\ UNCHANGED queryPeerIndex
  <2>1. /\ pc'[q] = "last" /\ trying'[q] = queryPeerIndex /\ result'[q] = "none"
        /\ failedPeer'[q] = None
    BY <1>1, <1>5 DEF Shape, Ask
  <2>2. queryPeerIndex \in Peers /\ queryPeerIndex' \in Peers \cup {None}
    BY <1>1, <1>5 DEF Shape
  <2>3. QueryOK(q)'
    BY <1>2, <1>3, <2>1, <2>2 DEF QueryOK, InFlight, Results
  <2> QED
    BY <1>3, <1>5, <2>2, <2>3, OneQuery DEF Ask
<1>6. CASE peerCount # 0 /\ Search(q)
  BY <1>3, <1>6, SearchKeeps
<1> QED
  BY <1>4, <1>5, <1>6 DEF QueryChaincode

LEMMA AnswerKeeps ==
    ASSUME IInv, NEW q \in Queries, NEW answer \in {"payload", "peerError"},
           PeerAnswers(q, answer)
    PROVE  IInv'
<1>1. Shape /\ QueryOK(q)
  BY PerQuery DEF AllOK
<1>2. Peers' = Peers
  BY DEF Peers, PeerAnswers
<1>3. pc'[q] = "done" /\ trying'[q] = None /\ result'[q] = answer
  BY <1>1 DEF Shape, PeerAnswers, Return
<1>4. /\ failedPeer' = [failedPeer EXCEPT ![q] = failedPeer[q]]
      /\ tried' = [tried EXCEPT ![q] = tried[q]]
  BY <1>1 DEF Shape, PeerAnswers
<1>5. QueryOK(q)'
  BY <1>1, <1>2, <1>3 DEF QueryOK, InFlight, Results, PeerAnswers
<1>6. queryPeerIndex' \in Peers \cup {None} /\ overlapped' \in BOOLEAN
  BY <1>1 DEF Shape, QueryOK, PeerAnswers
<1> QED
  BY <1>4, <1>5, <1>6, OneQuery DEF PeerAnswers, Return

LEMMA FailureKeeps ==
    ASSUME IInv, NEW q \in Queries, PeerFails(q)
    PROVE  IInv'
<1>1. Shape /\ QueryOK(q)
  BY PerQuery DEF AllOK
<1> DEFINE d == tried[q] \cup {trying[q]}
<1>2. trying[q] \in Peers
  BY <1>1 DEF QueryOK, PeerFails
<1>3. d \in SUBSET Peers /\ peerCount # 0 /\ trying[q] \in Nat
  BY <1>1, <1>2 DEF QueryOK, Peers, Shape
<1>4. UNCHANGED peerCount /\ overlapped' \in BOOLEAN /\ tried' = [tried EXCEPT ![q] = d]
  BY <1>1 DEF Shape, PeerFails
<1>5. CASE pc[q] = "last" /\ Search(q)
  BY <1>3, <1>4, <1>5, SearchKeeps
<1>6. CASE /\ pc[q] = "search"
           /\ Continue(q, trying[q] + 1, failedPeer[q])
           /\ UNCHANGED <<queryPeerIndex, failedPeer>>
  <2>1. failedPeer' = [failedPeer EXCEPT ![q] = failedPeer[q]]
    BY <1>1, <1>6 DEF Shape
  <2>2. failedPeer[q] \in Peers \cup {None} /\ queryPeerIndex' \in Peers \cup {None}
    BY <1>1, <1>6 DEF Shape, QueryOK
  <2>3. ASSUME NEW p \in Peers, p < trying[q] + 1, p # failedPeer[q]
        PROVE  p \in d
    <3>1. p \in Int
      BY <1>1 DEF Peers, Shape
    <3>2. p < trying[q] \/ p = trying[q]
      BY <1>3, <2>3, <3>1
    <3> QED
      BY <1>1, <1>6, <2>3, <3>2 DEF QueryOK
  <2>4. trying[q] + 1 \in Nat
    BY <1>3
  <2> HIDE DEF d
  <2> QED
    BY <1>3, <1>4, <1>6, <2>1, <2>2, <2>3, <2>4, ContinueKeeps
<1> QED
  BY <1>5, <1>6 DEF PeerFails

LEMMA IInvNext == IInv /\ [Next]_vars => IInv'
<1> SUFFICES ASSUME IInv, [Next]_vars PROVE IInv'
  OBVIOUS
<1>1. CASE \E q \in Queries : QueryChaincode(q)
  BY <1>1, CallKeeps
<1>2. CASE \E q \in Queries : PeerResponds(q)
  BY <1>2, AnswerKeeps, FailureKeeps DEF PeerResponds
<1>3. CASE UNCHANGED vars
  BY <1>3 DEF vars, queryVars, IInv, TypeOK, AskedInFlight, SearchesFromTheTop,
              AtMostOneSkipped, Peers, InFlight
<1> QED
  BY <1>1, <1>2, <1>3 DEF Next

-----------------------------------------------------------------------------
(* The theorems                                                            *)

\* The inductive invariant of the query handler: types, what a query in flight
\* has asked, the order of its search and what it may conclude.
THEOREM Invariance == Spec => []IInv
<1>1. IInv /\ [Next]_vars => IInv'
  BY IInvNext
<1>2. Init => IInv
  BY IInvInit
<1> QED
  BY <1>1, <1>2, PTL DEF Spec

\* However many queries interleave over however many peers, one that reports no
\* available peer was failed by all peers but the one it skipped at most.
THEOREM OneSkippedAtMost == Spec => []AtMostOneSkipped
<1>1. IInv => AtMostOneSkipped
  BY DEF IInv
<1> QED
  BY <1>1, Invariance, PTL

\* However many queries interleave, each asks the peers from the top of the
\* list on.
THEOREM TopDown == Spec => []SearchesFromTheTop
<1>1. IInv => SearchesFromTheTop
  BY DEF IInv
<1> QED
  BY <1>1, Invariance, PTL

\* Every variable keeps its type: no peer outside the list is asked.
THEOREM TypeCorrectness == Spec => []TypeOK
<1>1. IInv => TypeOK
  BY DEF IInv
<1> QED
  BY <1>1, Invariance, PTL

-----------------------------------------------------------------------------
(* Without overlap                                                         *)

\* Where the loop goes for the only query in flight: the peers it has been
\* failed by are those before i and the one it skips.
LEMMA ContinueAlone ==
    ASSUME IInv, NEW q \in Queries, NEW i \in Nat, NEW skipped \in Peers \cup {None},
           NEW d \in SUBSET Peers,
           UNCHANGED peerCount, queryPeerIndex' = None,
           \A p \in Peers : p < i /\ p # skipped => p \in d,
           \A p \in d : p < i \/ p = skipped,
           skipped \in d \cup {None},
           failedPeer'[q] = skipped, tried'[q] = d,
           Continue(q, i, skipped)
    PROVE  AloneWith(q)'
<1>1. /\ pc \in [Queries -> {"idle", "last", "search", "done"}]
      /\ trying \in [Queries -> Peers \cup {None}] /\ result \in [Queries -> Results]
      /\ peerCount \in Nat
  BY QueryAssumption DEF IInv, TypeOK
<1>2. Peers' = Peers /\ Peers \subseteq Int /\ None \notin Peers
  BY <1>1 DEF Peers, None
<1>3. CASE Candidates(i, skipped) = {} /\ Return(q, "noneAvailable")
  <2>1. pc'[q] = "done" /\ result'[q] = "noneAvailable"
    BY <1>1, <1>3 DEF Return
  <2>2. \A p \in Peers : p \in d
    <3> SUFFICES ASSUME NEW p \in Peers PROVE p \in d
      OBVIOUS
    <3>1. p < i \/ p = skipped
      BY <1>2, <1>3 DEF Candidates
    <3> QED
      BY <1>2, <3>1
  <2> QED
    BY <1>2, <2>1, <2>2 DEF AloneWith
<1>4. ASSUME NEW p \in Candidates(i, skipped), Ask(q, "search", p)
      PROVE  AloneWith(q)'
  <2>1. pc'[q] = "search" /\ trying'[q] = p /\ result'[q] = "none"
    BY <1>1, <1>4 DEF Ask
  <2>2. p \in Peers /\ p >= i /\ p # skipped
    BY DEF Candidates
  <2>3. \A x \in d : x < p \/ x = skipped
    BY <1>2, <2>2
  <2> QED
    BY <2>1, <2>2, <2>3 DEF AloneWith
<1> QED
  BY <1>3, <1>4 DEF Continue

\* A step of the only query in flight answers for that query alone.
LEMMA OnlyOne ==
    ASSUME IInv, NEW q \in Queries, IInv',
           \A r \in Queries : r # q => AloneWith(r) /\ ~InFlight(r),
           UNCHANGED peerCount,
           \A r \in Queries : r # q =>
              pc'[r] = pc[r] /\ tried'[r] = tried[r] /\ result'[r] = result[r],
           AloneWith(q)'
    PROVE  AloneInv'
<1>1. \A r \in Queries : r # q => AloneWith(r)' /\ ~InFlight(r)'
  BY DEF AloneWith, InFlight, Peers
<1> QED
  BY <1>1 DEF AloneInv

LEMMA AloneNext == AloneInv /\ [Next]_vars => AloneInv'
<1> SUFFICES ASSUME AloneInv, [Next]_vars PROVE AloneInv'
  OBVIOUS
<1>1. IInv /\ IInv'
  BY IInvNext DEF AloneInv
<1>2. CASE overlapped'
  BY <1>1, <1>2 DEF AloneInv
<1>3. CASE UNCHANGED vars
  BY <1>1, <1>3 DEF AloneInv, AloneWith, vars, queryVars, InFlight, Peers
<1>4. ASSUME NEW q \in Queries, QueryChaincode(q) \/ PeerResponds(q), ~overlapped'
      PROVE  AloneInv'
  <2>1. /\ pc \in [Queries -> {"idle", "last", "search", "done"}]
        /\ trying \in [Queries -> Peers \cup {None}] /\ tried \in [Queries -> SUBSET Peers]
        /\ failedPeer \in [Queries -> Peers \cup {None}] /\ result \in [Queries -> Results]
        /\ peerCount \in Nat /\ queryPeerIndex \in Peers \cup {None}
    BY <1>1, QueryAssumption DEF IInv, TypeOK
  <2>2. Peers \subseteq Nat /\ None \notin Peers
    BY <2>1 DEF Peers, None
  <2>3. ~overlapped /\ UNCHANGED peerCount
    BY <1>1, <1>4 DEF QueryChaincode, PeerResponds, PeerAnswers, PeerFails, IInv, TypeOK
  <2>4. \A r \in Queries : r # q => AloneWith(r) /\ ~InFlight(r)
    BY <1>4, <2>3 DEF AloneInv, QueryChaincode, PeerResponds, PeerAnswers, PeerFails
  <2>5. \A r \in Queries : r # q =>
           pc'[r] = pc[r] /\ tried'[r] = tried[r] /\ result'[r] = result[r]
    BY <1>4, <2>1 DEF QueryChaincode, PeerResponds, PeerAnswers, PeerFails, Search,
        Continue, Ask, Return
  <2>6. AloneWith(q)
    BY <2>3 DEF AloneInv
  <2>7. CASE QueryChaincode(q)
    <3>1. tried'[q] = {}
      BY <2>1, <2>7 DEF QueryChaincode
    <3>2. CASE peerCount = 0 /\ Return(q, "noPeers")
      <4>1. pc'[q] = "done" /\ result'[q] = "noPeers"
        BY <2>1, <3>2 DEF Return
      <4> QED
        BY <1>1, <2>3, <2>4, <2>5, <4>1, OnlyOne DEF AloneWith
    <3>3. CASE Ask(q, "last", queryPeerIndex) /\ UNCHANGED queryPeerIndex
      <4>1. pc'[q] = "last" /\ trying'[q] = queryPeerIndex /\ result'[q] = "none"
        BY <2>1, <3>3 DEF Ask
      <4> QED
        BY <1>1, <2>3, <2>4, <2>5, <3>1, <3>3, <4>1, OnlyOne DEF AloneWith
    <3>4. CASE queryPeerIndex = None /\ Search(q)
      <4>1. failedPeer'[q] = None /\ queryPeerIndex' = None /\ Continue(q, 0, None)
        BY <2>1, <3>4 DEF Search
      <4> DEFINE d == {}
      <4>2. d \in SUBSET Peers /\ tried'[q] = d /\ failedPeer'[q] \in d \cup {None}
        BY <3>1, <4>1
      <4>3. \A p \in d : p < 0 \/ p = None
        OBVIOUS
      <4>4. \A p \in Peers : p < 0 /\ p # None => p \in d
        BY <2>1 DEF Peers
      <4>5. 0 \in Nat /\ None \in Peers \cup {None}
        OBVIOUS
      <4> HIDE DEF d
      <4>6. AloneWith(q)'
        BY <1>1, <2>3, <4>1, <4>2, <4>3, <4>4, <4>5, ContinueAlone
      <4> QED
        BY <1>1, <2>3, <2>4, <2>5, <4>6, OnlyOne
    <3> QED
      BY <2>7, <3>2, <3>3, <3>4 DEF QueryChaincode
  <2>8. ASSUME NEW answer \in {"payload", "peerError"}, PeerAnswers(q, answer)
        PROVE  AloneInv'
    <3>1. pc'[q] = "done" /\ result'[q] = answer
      BY <2>1, <2>8 DEF PeerAnswers, Return
    <3> QED
      BY <1>1, <2>3, <2>4, <2>5, <3>1, OnlyOne DEF AloneWith
  <2>9. CASE PeerFails(q)
    <3> DEFINE d == tried[q] \cup {trying[q]}
    <3>1. tried'[q] = d
      BY <2>1, <2>9 DEF PeerFails
    <3>2. trying[q] \in Peers /\ d \in SUBSET Peers
      BY <1>1, <2>1, <2>9 DEF PeerFails, IInv, AskedInFlight
    <3>5. trying[q] \in Nat /\ \A p \in Peers : p \in Nat
      BY <2>1, <3>2 DEF Peers
    <3>3. CASE pc[q] = "last" /\ Search(q)
      <4>1. /\ failedPeer'[q] = trying[q] /\ queryPeerIndex' = None
            /\ Continue(q, 0, trying[q]) /\ d = {trying[q]}
        BY <2>1, <2>6, <3>3 DEF Search, AloneWith
      <4>2. \A p \in d : p < 0 \/ p = trying[q]
        BY <4>1
      <4>3. \A p \in Peers : p < 0 /\ p # trying[q] => p \in d
        BY <2>1 DEF Peers
      <4>4. failedPeer'[q] \in d \cup {None} /\ 0 \in Nat /\ trying[q] \in Peers \cup {None}
        BY <3>2, <4>1
      <4> HIDE DEF d
      <4>5. AloneWith(q)'
        BY <1>1, <2>3, <3>1, <3>2, <4>1, <4>2, <4>3, <4>4, ContinueAlone
      <4> QED
        BY <1>1, <2>3, <2>4, <2>5, <4>5, OnlyOne
    <3>4. CASE /\ pc[q] = "search"
               /\ Continue(q, trying[q] + 1, failedPeer[q])
               /\ UNCHANGED <<queryPeerIndex, failedPeer>>
      <4>1. /\ failedPeer'[q] = failedPeer[q] /\ queryPeerIndex' = None
            /\ failedPeer[q] \in d \cup {None}
        BY <2>6, <3>4 DEF AloneWith
      <4>2. \A p \in d : p < trying[q] + 1 \/ p = failedPeer[q]
        <5> SUFFICES ASSUME NEW p \in d PROVE p < trying[q] + 1 \/ p = failedPeer[q]
          OBVIOUS
        <5>1. p < trying[q] \/ p = failedPeer[q] \/ p = trying[q]
          BY <2>6, <3>4 DEF AloneWith
        <5>2. p \in Nat
          BY <3>2, <3>5
        <5> HIDE DEF d
        <5> QED
          BY <3>5, <5>1, <5>2
      <4>3. \A p \in Peers : p < trying[q] + 1 /\ p # failedPeer[q] => p \in d
        <5> SUFFICES ASSUME NEW p \in Peers, p < trying[q] + 1, p # failedPeer[q]
                     PROVE  p \in d
          OBVIOUS
        <5>1. p < trying[q] \/ p = trying[q]
          <6>1. p \in Nat
            BY <3>5
          <6> HIDE DEF d
          <6> QED
            BY <3>5, <6>1
        <5> QED
          BY <1>1, <3>4, <5>1 DEF IInv, SearchesFromTheTop
      <4>4. trying[q] + 1 \in Nat /\ failedPeer[q] \in Peers \cup {None}
        BY <2>1, <3>5
      <4> HIDE DEF d
      <4>5. AloneWith(q)'
        BY <1>1, <2>3, <3>1, <3>2, <3>4, <4>1, <4>2, <4>3, <4>4, ContinueAlone
      <4> QED
        BY <1>1, <2>3, <2>4, <2>5, <4>5, OnlyOne
    <3> QED
      BY <2>9, <3>3, <3>4 DEF PeerFails
  <2> QED
    BY <1>4, <2>7, <2>8, <2>9 DEF PeerResponds
<1> QED
  BY <1>2, <1>3, <1>4 DEF Next

\* As long as no two queries have been in flight together, the index is what
\* the query in flight made of it.
THEOREM AloneInvariance == Spec => []AloneInv
<1>1. Init => AloneInv
  BY IInvInit DEF Init, AloneInv, AloneWith, InFlight
<1> QED
  BY <1>1, AloneNext, PTL DEF Spec

\* Then a query gives up only when every peer has failed it, and asks none
\* twice.
THEOREM AllTriedAlone == Spec => []EveryPeerTriedAlone
<1>1. AloneInv => EveryPeerTriedAlone
  <2> SUFFICES ASSUME AloneInv, ~overlapped PROVE EveryPeerTriedAlone
    BY DEF EveryPeerTriedAlone
  <2>1. EveryPeerTried
    BY DEF AloneInv, AloneWith, EveryPeerTried
  <2>2. ASSUME NEW q \in Queries, InFlight(q) PROVE trying[q] \notin tried[q]
    <3>1. trying[q] \in Int
      BY <2>2, QueryAssumption DEF AloneInv, IInv, TypeOK, AskedInFlight, Peers
    <3> QED
      BY <2>2, <3>1 DEF AloneInv, AloneWith, InFlight
  <2> QED
    BY <2>1, <2>2 DEF EveryPeerTriedAlone
<1> QED
  BY <1>1, AloneInvariance, PTL

\* Then the handler also stays locked onto a peer until that peer fails.
THEOREM StaysLocked == Spec => LockedUntilFailedAlone
<1>1. AloneInv /\ [Next]_vars =>
        [~overlapped /\ queryPeerIndex # None /\ queryPeerIndex' # queryPeerIndex =>
           \E q \in Queries : PeerFails(q) /\ trying[q] = queryPeerIndex]_vars
  <2> SUFFICES ASSUME AloneInv, [Next]_vars, ~overlapped, queryPeerIndex # None,
                      queryPeerIndex' # queryPeerIndex
               PROVE  \E q \in Queries : PeerFails(q) /\ trying[q] = queryPeerIndex
    OBVIOUS
  <2>1. PICK q \in Queries : QueryChaincode(q) \/ PeerResponds(q)
    BY DEF Next, vars
  <2>2. AloneWith(q)
    BY DEF AloneInv
  <2>3. ~QueryChaincode(q)
    BY DEF QueryChaincode
  <2>4. \A answer : ~PeerAnswers(q, answer)
    BY <2>2 DEF PeerAnswers, AloneWith
  <2>5. PeerFails(q)
    BY <2>1, <2>3, <2>4 DEF PeerResponds
  <2> QED
    BY <2>2, <2>5 DEF PeerFails, AloneWith
<1> QED
  BY <1>1, AloneInvariance, PTL DEF Spec, LockedUntilFailedAlone

-----------------------------------------------------------------------------
(* The failover that clients see without overlap                           *)

\* What has overlapped has: a step without overlap comes after none.
LEMMA NeverForgotten ==
    ASSUME [Next]_vars, ~overlapped'
    PROVE  ~overlapped
BY DEF Next, QueryChaincode, PeerResponds, PeerAnswers, PeerFails, vars

\* A query that is over has no peer.
NobodyAsked == \A q \in Queries : ~InFlight(q) => trying[q] = None

LEMMA NobodyAskedKeeps == IInv /\ NobodyAsked /\ [Next]_vars => NobodyAsked'
<1> SUFFICES ASSUME IInv, NobodyAsked, [Next]_vars PROVE NobodyAsked'
  OBVIOUS
<1>1. /\ pc \in [Queries -> {"idle", "last", "search", "done"}]
      /\ trying \in [Queries -> Peers \cup {None}]
  BY DEF IInv, TypeOK
<1>2. ASSUME NEW q \in Queries, NEW r, Return(q, r)
      PROVE  NobodyAsked'
  BY <1>1, <1>2 DEF Return, NobodyAsked, InFlight
<1>3. ASSUME NEW q \in Queries, NEW await \in {"last", "search"}, NEW p, Ask(q, await, p)
      PROVE  NobodyAsked'
  BY <1>1, <1>3 DEF Ask, NobodyAsked, InFlight
<1>4. ASSUME NEW q \in Queries, NEW i, NEW skipped, Continue(q, i, skipped)
      PROVE  NobodyAsked'
  BY <1>2, <1>3, <1>4 DEF Continue
<1>5. CASE UNCHANGED vars
  BY <1>5 DEF vars, queryVars, NobodyAsked, InFlight
<1>6. ASSUME NEW q \in Queries, QueryChaincode(q)
      PROVE  NobodyAsked'
  BY <1>2, <1>3, <1>4, <1>6 DEF QueryChaincode, Search
<1>7. ASSUME NEW q \in Queries, PeerResponds(q)
      PROVE  NobodyAsked'
  BY <1>2, <1>4, <1>7 DEF PeerResponds, PeerAnswers, PeerFails, Search
<1> QED
  BY <1>5, <1>6, <1>7 DEF Next

LEMMA FailoverInit == Init => Failover!Init
BY DEF Init, Failover!Init, None, Failover!None

\* The loop asks the first of the peers that are left for it.
LEMMA ContinueAsksFirst ==
    ASSUME NEW q \in Queries, NEW i, NEW skipped, Continue(q, i, skipped)
    PROVE  Failover!AskFirst(q, Candidates(i, skipped))
BY DEF Continue, Return, Ask, Failover!AskFirst, Failover!End, Failover!Ask, None, Failover!None

LEMMA CallRefines ==
    ASSUME AloneInv, NobodyAsked, NEW q \in Queries, QueryChaincode(q), ~overlapped'
    PROVE  Failover!Query(q)
<1>1. \A r \in Queries : trying[r] = None
  BY DEF QueryChaincode, NobodyAsked
<1>2. CASE peerCount = 0 /\ Return(q, "noPeers") /\ UNCHANGED queryPeerIndex
  BY <1>1, <1>2 DEF QueryChaincode, Return, Failover!Query, Failover!End, None, Failover!None
<1>3. CASE peerCount # 0 /\ queryPeerIndex # None /\ Ask(q, "last", queryPeerIndex)
             /\ UNCHANGED queryPeerIndex
  BY <1>1, <1>3 DEF QueryChaincode, Ask, Failover!Query, Failover!Ask, None, Failover!None
<1>4. CASE peerCount # 0 /\ queryPeerIndex = None /\ Search(q)
  <2>1. Candidates(0, None) = Peers
    BY QueryAssumption DEF AloneInv, IInv, TypeOK, Candidates, Peers, None
  <2>2. Failover!AskFirst(q, Failover!Peers) /\ queryPeerIndex' = None
    BY <1>4, <2>1, ContinueAsksFirst DEF Search, Peers, Failover!Peers
  <2> QED
    BY <1>1, <1>4, <2>2 DEF QueryChaincode, Failover!Query, None, Failover!None
<1> QED
  BY <1>2, <1>3, <1>4 DEF QueryChaincode

LEMMA AnswerRefines ==
    ASSUME AloneInv, ~overlapped, NEW q \in Queries, NEW answer, PeerAnswers(q, answer)
    PROVE  Failover!Answer(q, answer)
<1>1. trying[q] # None
  BY QueryAssumption DEF PeerAnswers, AloneInv, IInv, AskedInFlight, Peers, None, TypeOK
<1>2. queryPeerIndex' = trying[q]
  BY DEF PeerAnswers, InFlight, AloneInv, AloneWith
<1> QED
  BY <1>1, <1>2 DEF PeerAnswers, Return, Failover!Answer, Failover!End, None, Failover!None

LEMMA FailureRefines ==
    ASSUME AloneInv, ~overlapped, NEW q \in Queries, PeerFails(q)
    PROVE  Failover!Fail(q)
<1>1. trying[q] \in Peers /\ tried \in [Queries -> SUBSET Peers] /\ peerCount \in Nat
  BY QueryAssumption DEF PeerFails, AloneInv, IInv, AskedInFlight, TypeOK
<1>2. Peers \subseteq Nat /\ None \notin Peers
  BY <1>1 DEF Peers, None
<1>3. AloneWith(q)
  BY DEF AloneInv
<1> DEFINE left == Peers \ (tried[q] \cup {trying[q]})
<1>4. queryPeerIndex' = None /\ Failover!AskFirst(q, left)
  <2>1. CASE pc[q] = "last" /\ Search(q)
    <3>1. Candidates(0, queryPeerIndex) = left
      <4>1. queryPeerIndex = trying[q] /\ tried[q] = {}
        BY <1>3, <2>1 DEF AloneWith
      <4>2. \A p \in Peers : p >= 0
        BY <1>2
      <4> QED
        BY <4>1, <4>2 DEF Candidates
    <3> HIDE DEF left
    <3> QED
      BY <2>1, <3>1, ContinueAsksFirst DEF Search
  <2>2. CASE /\ pc[q] = "search"
             /\ Continue(q, trying[q] + 1, failedPeer[q])
             /\ UNCHANGED <<queryPeerIndex, failedPeer>>
    <3>1. ASSUME NEW p \in Peers
          PROVE  p >= trying[q] + 1 /\ p # failedPeer[q] <=> p \notin tried[q] /\ p # trying[q]
      <4>1. p \in Nat /\ trying[q] \in Nat /\ p # None
        BY <1>1, <1>2
      <4>2. p \in tried[q] => p < trying[q] \/ p = failedPeer[q]
        BY <1>3, <2>2 DEF AloneWith
      <4>3. p < trying[q] /\ p # failedPeer[q] => p \in tried[q]
        BY <2>2 DEF AloneInv, IInv, SearchesFromTheTop
      <4>4. p = failedPeer[q] => p \in tried[q]
        BY <1>3, <2>2, <4>1 DEF AloneWith
      <4> QED
        BY <4>1, <4>2, <4>3, <4>4
    <3>2. Candidates(trying[q] + 1, failedPeer[q]) = left
      BY <3>1 DEF Candidates
    <3>3. queryPeerIndex = None
      BY <1>3, <2>2 DEF AloneWith
    <3> HIDE DEF left
    <3> QED
      BY <2>2, <3>2, <3>3, ContinueAsksFirst
  <2> QED
    BY <2>1, <2>2 DEF PeerFails
<1>5. /\ tried' = [tried EXCEPT ![q] = @ \cup {trying[q]}]
      /\ left = Failover!Peers \ tried'[q]
  BY <1>1 DEF PeerFails, Peers, Failover!Peers
<1> HIDE DEF left
<1> QED
  BY <1>1, <1>2, <1>4, <1>5 DEF PeerFails, Failover!Fail, None, Failover!None

\* As long as queries do not overlap, over any number of peers, the handler asks the
\* last successful peer first, and when it fails the others in order.
THEOREM FailoverImplementation == Spec => ImplementsFailover
<1>1. Init => Failover!Init /\ NobodyAsked
  BY FailoverInit DEF Init, NobodyAsked
<1>2. IInv /\ NobodyAsked /\ [Next]_vars => NobodyAsked'
  BY NobodyAskedKeeps
<1>3. AloneInv /\ NobodyAsked /\ [Next]_vars => [~overlapped' => Failover!Next]_(Failover!vars)
  <2> SUFFICES ASSUME AloneInv, NobodyAsked, [Next]_vars, ~overlapped'
               PROVE  Failover!Next \/ UNCHANGED Failover!vars
    OBVIOUS
  <2>1. ~overlapped
    BY NeverForgotten
  <2>2. CASE UNCHANGED vars
    BY <2>2 DEF vars, queryVars, Failover!vars
  <2>3. ASSUME NEW q \in Queries, QueryChaincode(q) \/ PeerResponds(q)
        PROVE  Failover!Next
    BY <2>1, <2>3, CallRefines, AnswerRefines, FailureRefines
       DEF PeerResponds, Failover!Next, Failover!Respond
  <2> QED
    BY <2>2, <2>3 DEF Next
<1> QED
  BY <1>1, <1>2, <1>3, Invariance, AloneInvariance, PTL DEF Spec, ImplementsFailover
=============================================================================
