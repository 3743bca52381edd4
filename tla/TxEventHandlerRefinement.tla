---------------------- MODULE TxEventHandlerRefinement ----------------------
(***************************************************************************)
(* The handler implements CommitNotice: for any hubs, organisations and    *)
(* strategies but CHANNEL_SCOPE_ALLFORTX, every step of TxEventHandler is  *)
(* a step of the notice README.md promises, or leaves the notice alone.    *)
(***************************************************************************)
EXTENDS TxEventHandlerProofs

LEMMA NoticeInit == Init => Notice!Init
  BY DEF Init, Notice!Init, NoticeRule, NoticeStatus

\* A handler that is listening shows as a notice that is waiting.
LEMMA WaitingStatus ==
    ASSUME IInv
    PROVE  /\ NoticeStatus = "waiting" <=> Listening
           /\ registered # {} => Listening
  BY DEF IInv, LifeCycle, Listening, NoticeStatus

\* What is watched after a report or a loss bears the verdict the notice asks
\* for: this is where the invariant comes in.
Agreement ==
    call = "listening" /\ notificationPromise \in {"pending", "resolved", "lost"}
        => NoticeStatus = Notice!Verdict(validFrom, lostFrom)

LEMMA VerdictAgrees ==
    ASSUME "CHANNEL_SCOPE_ALLFORTX" \notin Configured
    PROVE  IInv => Agreement
<1> SUFFICES ASSUME IInv, call = "listening",
                    notificationPromise \in {"pending", "resolved", "lost"}
             PROVE  NoticeStatus = Notice!Verdict(validFrom, lostFrom)
  BY DEF Agreement
<1>1. strategy \in Strategies /\ strategy # "CHANNEL_SCOPE_ALLFORTX"
  BY TxEventHandlerAssumption DEF IInv, TypeOK
<1>2. CASE notificationPromise = "pending"
  <2>1. Listening /\ NoticeStatus = "waiting"
    BY <1>2 DEF Listening, NoticeStatus
  <2>2. connectedHubs # validFrom \cup lostFrom
    BY <2>1 DEF IInv, CountsMatchRegistrations, StillOpen
  <2>3. NoticeRule = "any" => validFrom = {}
    BY <1>1, <2>1 DEF IInv, StillOpen, NoticeRule
  <2> QED
    BY <2>1, <2>2, <2>3 DEF Notice!Verdict, NoticeRule
<1>3. CASE notificationPromise = "lost"
  BY <1>3 DEF IInv, LossFailsOnlyUnheard, NoticeStatus, Notice!Verdict
<1>4. CASE notificationPromise = "resolved"
  <2>1. Promised
    BY <1>1, <1>4 DEF IInv, ResolvedMeansPromised
  <2> QED
    BY <1>1, <1>4, <2>1 DEF Promised, NoticeStatus, NoticeRule, Notice!Verdict
<1> QED
  BY <1>2, <1>3, <1>4

\* An action that touches neither the promise nor what it rests on is a stutter.
LEMMA Stutters ==
    ASSUME UNCHANGED <<strategy, call, notificationPromise, connectedHubs, validFrom, lostFrom>>
    PROVE  UNCHANGED Notice!vars
  BY DEF Notice!vars, NoticeRule, NoticeStatus

\* An error passes the strategy, fails it or leaves it open.
LEMMA ErrorDecides ==
    ASSUME NEW counts, NEW m
    PROVE  ErrorReceived(strategy, counts, m)
              \in {STRATEGY_PASSED, STRATEGY_FAILED, STRATEGY_STILLONGOING}
  BY DEF ErrorReceived, CheckEachMspIdForEvents, CheckRemainingEventsForAll,
         CheckRemainingEventsForMspId

LEMMA HubErrorRefines ==
    ASSUME IInv, IInv', "CHANNEL_SCOPE_ALLFORTX" \notin Configured,
           NEW h \in Hubs, HubError(h)
    PROVE  Notice!Next \/ UNCHANGED Notice!vars
<1>1. CASE h \notin registered
  BY <1>1, Stutters DEF HubError, handlerVars
<1>2. CASE h \in registered
  <2>1. ErrorCallback(h) /\ UNCHANGED strategy
    BY <1>2 DEF HubError
  <2>2. Listening /\ NoticeStatus = "waiting"
    BY <1>2, WaitingStatus
  <2>3. /\ lostFrom' = lostFrom \cup {h}
        /\ UNCHANGED <<call, connectedHubs, validFrom>>
        /\ notificationPromise' \in {"pending", "resolved", "lost"}
    BY <2>1, <2>2, ErrorDecides DEF ErrorCallback, Settle, KeepListening, Listening
  <2>4. h \in connectedHubs \ (validFrom \cup lostFrom)
    BY <1>2, <2>2 DEF IInv, CountsMatchRegistrations
  <2>5. Agreement'
    BY VerdictAgrees, PTL
  <2>6. Notice!Lose(h)
    BY <2>1, <2>2, <2>3, <2>4, <2>5 DEF Agreement, Listening, Notice!Lose, Notice!Unheard, Notice!Verdict, NoticeRule
  <2> QED
    BY <2>6 DEF Notice!Next
<1> QED
  BY <1>1, <1>2

LEMMA PeerCommitRefines ==
    ASSUME IInv, IInv', "CHANNEL_SCOPE_ALLFORTX" \notin Configured,
           NEW h \in Hubs, PeerCommit(h)
    PROVE  Notice!Next \/ UNCHANGED Notice!vars
<1>1. CASE h \notin registered
  BY <1>1, Stutters DEF PeerCommit, handlerVars
<1>2. CASE h \in registered
  <2>1. EventCallback(h, outcome) /\ UNCHANGED strategy
    BY <1>2 DEF PeerCommit
  <2>2. Listening /\ NoticeStatus = "waiting"
    BY <1>2, WaitingStatus
  <2>3. CASE outcome # "VALID"
    <3>1. /\ notificationPromise' = "invalid"
          /\ UNCHANGED <<strategy, call, connectedHubs, validFrom, lostFrom>>
      BY <2>1, <2>3 DEF EventCallback, Settle
    <3>2. Notice!Fail
      BY <2>2, <3>1 DEF Notice!Fail, NoticeStatus, NoticeRule
    <3> QED
      BY <3>2 DEF Notice!Next
  <2>4. CASE outcome = "VALID"
    <3>1. /\ validFrom' = validFrom \cup {h}
          /\ UNCHANGED <<call, connectedHubs, lostFrom>>
          /\ notificationPromise' \in {"pending", "resolved"}
      BY <2>1, <2>2, <2>4 DEF EventCallback, Settle, KeepListening, Listening
    <3>2. h \in connectedHubs \ (validFrom \cup lostFrom)
      BY <1>2, <2>2 DEF IInv, CountsMatchRegistrations
    <3>3. Agreement'
      BY VerdictAgrees, PTL
    <3>4. Notice!Confirm(h)
      BY <2>1, <2>2, <3>1, <3>2, <3>3
         DEF Agreement, Listening, Notice!Confirm, Notice!Unheard, Notice!Verdict, NoticeRule
    <3> QED
      BY <3>4 DEF Notice!Next
  <2> QED
    BY <2>3, <2>4
<1> QED
  BY <1>1, <1>2

LEMMA CallerRefines ==
    ASSUME IInv, IInv', StartListening \/ Reestablished \/ TimeoutFires \/ CancelListening
    PROVE  Notice!Next \/ UNCHANGED Notice!vars
<1>1. CASE StartListening
  <2>1. notificationPromise = "none" /\ UNCHANGED <<strategy, validFrom, lostFrom>>
    BY <1>1 DEF StartListening, IInv, LifeCycle
  <2>2. CASE call' = "listening"
    <3>1. notificationPromise' = "pending"
      BY <1>1, <2>2 DEF StartListening
    <3>2. connectedHubs' \in (SUBSET Hubs) \ {{}}
      <4>1. TypeOK' /\ StillOpen' /\ Sources'
        BY DEF IInv
      <4>2. connectedHubs' \subseteq Hubs
        BY <4>1 DEF TypeOK
      <4>3. registered' # {}
        BY <4>1, <2>2, <3>1 DEF StillOpen, Listening
      <4>4. registered' \subseteq connectedHubs'
        BY <4>1 DEF Sources
      <4> QED
        BY <4>2, <4>3, <4>4
    <3>3. Notice!Watch
      BY <2>1, <2>2, <3>1, <3>2 DEF Notice!Watch, NoticeStatus, NoticeRule
    <3> QED
      BY <3>3 DEF Notice!Next
  <2>3. CASE call' # "listening"
    <3>1. UNCHANGED <<connectedHubs, notificationPromise>>
      BY <1>1, <2>3 DEF StartListening
    <3> QED
      BY <2>1, <3>1 DEF Notice!vars, NoticeStatus, NoticeRule
  <2> QED
    BY <2>2, <2>3
<1>2. CASE Reestablished
  BY <1>2 DEF Reestablished, IInv, LifeCycle, Notice!vars, NoticeStatus, NoticeRule
<1>3. CASE TimeoutFires
  <2>1. Listening /\ NoticeStatus = "waiting"
    BY <1>3, WaitingStatus DEF TimeoutFires, IInv, LifeCycle
  <2>2. /\ notificationPromise' = "timeout"
        /\ UNCHANGED <<strategy, call, connectedHubs, validFrom, lostFrom>>
    BY <1>3 DEF TimeoutFires, Settle
  <2>3. Notice!Fail
    BY <2>1, <2>2 DEF Notice!Fail, NoticeStatus, NoticeRule
  <2> QED
    BY <2>3 DEF Notice!Next
<1>4. CASE CancelListening
  <2>1. /\ call = "listening" /\ call' = "cancelled"
        /\ UNCHANGED <<strategy, connectedHubs, notificationPromise, validFrom, lostFrom>>
    BY <1>4 DEF CancelListening
  <2>2. CASE notificationPromise = "pending"
    <3>1. Notice!Stop
      BY <2>1, <2>2 DEF Notice!Stop, NoticeStatus, NoticeRule
    <3> QED
      BY <3>1 DEF Notice!Next
  <2>3. CASE notificationPromise # "pending"
    BY <2>1, <2>3 DEF Notice!vars, NoticeStatus, NoticeRule
  <2> QED
    BY <2>2, <2>3
<1> QED
  BY <1>1, <1>2, <1>3, <1>4

\* Every step of the handler is a step of the notice or leaves it alone.
LEMMA StepRefines ==
    ASSUME "CHANNEL_SCOPE_ALLFORTX" \notin Configured
    PROVE  IInv /\ IInv' /\ [Next]_vars => [Notice!Next]_(Notice!vars)
<1> SUFFICES ASSUME IInv, IInv', [Next]_vars
             PROVE  Notice!Next \/ UNCHANGED Notice!vars
  OBVIOUS
<1>1. CASE StartListening \/ Reestablished \/ TimeoutFires \/ CancelListening
  BY <1>1, CallerRefines
<1>2. ASSUME NEW h \in Hubs, HubError(h)
      PROVE  Notice!Next \/ UNCHANGED Notice!vars
  BY <1>2, HubErrorRefines
<1>3. ASSUME NEW h \in Hubs, PeerCommit(h)
      PROVE  Notice!Next \/ UNCHANGED Notice!vars
  BY <1>3, PeerCommitRefines
<1>4. CASE (\E h \in Hubs : HubConnect(h)) \/ \E code \in {"VALID", "INVALID"} : Order(code)
  BY <1>4, Stutters DEF HubConnect, Order, handlerVars
<1>5. CASE UNCHANGED vars
  BY <1>5, Stutters DEF vars, handlerVars
<1> QED
  BY <1>1, <1>2, <1>3, <1>4, <1>5 DEF Next

-----------------------------------------------------------------------------
(* The theorem                                                             *)

\* Whatever hubs, peers, timer and caller do, the counts, registrations and
\* timer of startListening show the client what the notice allows: watched
\* hubs confirm or are lost one by one, and the verdict is the one README.md
\* states.  CHANNEL_SCOPE_ALLFORTX, which breaks its promise, is excluded.
THEOREM Implementation ==
    ASSUME "CHANNEL_SCOPE_ALLFORTX" \notin Configured
    PROVE  Spec => Notice!Safety
<1>1. Init => Notice!Init
  BY NoticeInit
<1>2. IInv /\ IInv' /\ [Next]_vars => [Notice!Next]_(Notice!vars)
  BY StepRefines
<1> QED
  BY <1>1, <1>2, Invariance, PTL DEF Spec, Notice!Safety
=============================================================================
