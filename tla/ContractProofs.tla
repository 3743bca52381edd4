--------------------------- MODULE ContractProofs ----------------------------
(***************************************************************************)
(* Proofs about Contract, for any hubs, organisations, strategies and      *)
(* number of responses.  Every step of a submission is a step of its       *)
(* handler or leaves it alone, so the handler's invariant holds;           *)
(* SubmitIInv adds what each await says of the handler and the orderer.    *)
(***************************************************************************)
EXTENDS Contract, TxEventHandlerRefinement

\* What submitTransaction and the world around it do to the handler, the
\* handler allows.
LEMMA HandlerStep == SubmitNext => [Next]_vars
BY DEF SubmitNext, Submit, SendTransactionProposal, ProposalFails, ProposalAnswered,
       ListeningFails, OrdererAccepts, OrdererRefuses, SendTransactionFails,
       WaitForEventsEnds, Elsewhere, Next

LEMMA SubmitInitially == SubmitInit => SubmitIInv
<1> SUFFICES ASSUME SubmitInit PROVE SubmitIInv
  OBVIOUS
<1>1. IInv
  BY IInvInit DEF SubmitInit
<1>2. << >> \in Responses
  BY ContractAssumption DEF Responses
<1>3. SubmitTypeOK
  BY <1>1, <1>2 DEF SubmitInit, SubmitTypeOK, IInv
<1>4. Progress /\ SentMeans /\ registered \cap passed = {}
  BY DEF SubmitInit, Init, Progress, SentMeans
<1> QED
  BY <1>1, <1>3, <1>4 DEF SubmitIInv

\* Hubs, peers, orderer and timer leave startListening's progress alone, never
\* take a success back, and a hub that delivers the block is not registered any
\* more.
LEMMA ElsewhereHandler ==
    ASSUME SubmitIInv, Elsewhere
    PROVE  /\ call' = call
           /\ notificationPromise = "resolved" => notificationPromise' = "resolved"
           /\ sent = "no" => outcome' = outcome /\ passed' = passed
           /\ registered' \cap passed' = {}
<1> USE DEF SubmitIInv
<1>1. notificationPromise = "resolved" => registered = {} /\ timeoutHandle # "armed"
  BY DEF IInv, LifeCycle, Listening
<1>2. CASE TimeoutFires
  BY <1>1, <1>2 DEF TimeoutFires, Settle, SentMeans, ledgerVars
<1>3. ASSUME NEW h \in Hubs, HubError(h)
      PROVE  /\ call' = call
             /\ notificationPromise = "resolved" => notificationPromise' = "resolved"
             /\ sent = "no" => outcome' = outcome /\ passed' = passed
             /\ registered' \cap passed' = {}
  <2>1. UNCHANGED ledgerVars
    BY <1>3 DEF HubError
  <2>2. CASE h \notin registered
    BY <1>3, <2>1, <2>2 DEF HubError, handlerVars, ledgerVars
  <2>3. CASE h \in registered
    <3>1. ErrorCallback(h)
      BY <1>3, <2>3 DEF HubError
    <3>2. call' = call
      BY <3>1 DEF ErrorCallback
    <3>3. registered' \subseteq registered
      <4> DEFINE status == ErrorReceived(strategy, [eventsByMspId EXCEPT ![MspOf[h]] = CountError(@)], MspOf[h])
      <4>1. status \in {STRATEGY_FAILED, STRATEGY_PASSED, STRATEGY_STILLONGOING}
        BY DEF ErrorReceived, CheckRemainingEventsForMspId, CheckEachMspIdForEvents,
               CheckRemainingEventsForAll
      <4> QED
        BY <3>1, <4>1 DEF ErrorCallback, Settle, KeepListening
    <3> QED
      BY <1>1, <2>1, <2>3, <3>2, <3>3 DEF ledgerVars
  <2> QED
    BY <2>2, <2>3
<1>4. ASSUME NEW h \in Hubs, HubConnect(h)
      PROVE  UNCHANGED <<handlerVars, ledgerVars>>
  BY <1>4 DEF HubConnect
<1>5. ASSUME NEW h \in Hubs, PeerCommit(h)
      PROVE  /\ call' = call
             /\ notificationPromise = "resolved" => notificationPromise' = "resolved"
             /\ sent = "no" => outcome' = outcome /\ passed' = passed
             /\ registered' \cap passed' = {}
  <2>1. sent # "no" /\ outcome' = outcome /\ passed' = passed \cup {h}
    BY <1>5 DEF PeerCommit, SentMeans
  <2>2. CASE h \notin registered
    BY <1>5, <2>1, <2>2 DEF PeerCommit, handlerVars
  <2>3. CASE h \in registered
    <3>1. EventCallback(h, outcome)
      BY <1>5, <2>3 DEF PeerCommit
    <3>2. call' = call /\ registered' \subseteq registered \ {h}
      BY <3>1 DEF EventCallback, Settle, KeepListening
    <3> QED
      BY <1>1, <2>1, <2>3, <3>2
  <2> QED
    BY <2>2, <2>3
<1>6. ASSUME NEW code \in {"VALID", "INVALID"}, sent \in {"sent", "accepted"}, Order(code)
      PROVE  /\ call' = call /\ notificationPromise' = notificationPromise /\ sent # "no"
             /\ registered' = registered /\ passed' = passed
  BY <1>6 DEF Order, handlerVars
<1> QED
  BY <1>2, <1>3, <1>4, <1>5, <1>6 DEF Elsewhere, handlerVars, ledgerVars

LEMMA ElsewhereKeeps ==
    ASSUME SubmitIInv, Elsewhere, IInv'
    PROVE  SubmitIInv'
<1> USE DEF SubmitIInv, submitVars, Elsewhere
<1>1. SubmitTypeOK'
  BY DEF SubmitTypeOK, IInv
<1>2. Progress'
  BY ElsewhereHandler DEF Progress
<1>3. SentMeans'
  BY ElsewhereHandler DEF SentMeans, ValidResponses
<1> QED
  BY <1>1, <1>2, <1>3, ElsewhereHandler

\* With the responses in, the handler listens before the transaction is sent.
LEMMA AnsweredKeeps ==
    ASSUME SubmitIInv, NEW responses \in Responses, ProposalAnswered(responses), IInv'
    PROVE  SubmitIInv'
<1> USE DEF SubmitIInv
<1>1. SubmitTypeOK'
  BY DEF ProposalAnswered, SendTransaction, Finish, SubmitTypeOK, IInv
<1>2. call = "created" /\ sent = "no" /\ outcome = "none" /\ passed = {} /\ result = "none"
  BY DEF ProposalAnswered, Progress, SentMeans, SubmitTypeOK
<1>3. CASE UNCHANGED vars
  BY <1>1, <1>2, <1>3
  DEF ProposalAnswered, SendTransaction, Finish, Progress, SentMeans, ValidResponses,
      vars, handlerVars, ledgerVars, StartListening
<1>4. CASE StartListening /\ hasFactory /\ ValidResponses(responses) # {}
  <2>1. /\ hasFactory' /\ proposalResponses' = responses /\ result' = "none"
        /\ IF call' = "listening"
           THEN pc' = "ordering" /\ sent' = "sent"
           ELSE pc' = "reestablishing" /\ sent' = "no"
    BY <1>2, <1>4 DEF ProposalAnswered, SendTransaction, StartListening, vars, handlerVars
  <2>2. call' \in {"listening", "reestablishing"} /\ outcome' = "none" /\ passed' = {}
    BY <1>2, <1>4 DEF StartListening, ledgerVars
  <2>3. Progress'
    BY <2>1, <2>2 DEF Progress
  <2>4. SentMeans'
    BY <1>4, <2>1, <2>2 DEF SentMeans, ValidResponses
  <2> QED
    BY <1>1, <2>2, <2>3, <2>4
<1> QED
  BY <1>3, <1>4 DEF ProposalAnswered

LEMMA SubmitKeeps ==
    ASSUME SubmitIInv, Submit, IInv'
    PROVE  SubmitIInv'
<1> USE DEF SubmitIInv
<1>1. CASE SendTransactionProposal \/ ProposalFails \/ SendTransactionFails
  BY <1>1 DEF SendTransactionProposal, ProposalFails, SendTransactionFails, Finish,
      SubmitTypeOK, IInv, Progress, SentMeans, ValidResponses, vars, handlerVars, ledgerVars
<1>2. CASE ListeningFails
  BY <1>2 DEF ListeningFails, Reestablished, Finish, SubmitTypeOK, IInv, Progress,
      SentMeans, ValidResponses, ledgerVars
<1>3. CASE OrdererAccepts
  <2>1. UNCHANGED <<vars, hasFactory, proposalResponses>> /\ sent = "sent" /\ sent' = "accepted"
    BY <1>3 DEF OrdererAccepts, Progress
  <2>2. CASE hasFactory
    BY <1>3, <2>1, <2>2 DEF OrdererAccepts, SubmitTypeOK, IInv, Progress, SentMeans,
        ValidResponses, vars, handlerVars, ledgerVars
  <2>3. CASE ~hasFactory
    BY <1>3, <2>1, <2>3 DEF OrdererAccepts, Return, Finish, SubmitTypeOK, IInv, Progress,
        SentMeans, ValidResponses, vars, handlerVars, ledgerVars
  <2> QED
    BY <2>2, <2>3
<1>4. CASE OrdererRefuses
  <2>1. /\ UNCHANGED <<hasFactory, proposalResponses>>
        /\ sent = "sent" /\ sent' = "refused" /\ pc' = "done" /\ result' = "threw"
    BY <1>4 DEF OrdererRefuses, Finish, Progress
  <2>2. CASE hasFactory
    BY <1>4, <2>1, <2>2 DEF OrdererRefuses, CancelListening, SubmitTypeOK, IInv, Progress,
        SentMeans, ValidResponses, ledgerVars
  <2>3. CASE ~hasFactory
    BY <1>4, <2>1, <2>3 DEF OrdererRefuses, SubmitTypeOK, IInv, Progress, SentMeans,
        ValidResponses, vars, handlerVars, ledgerVars
  <2> QED
    BY <2>2, <2>3
<1>5. CASE WaitForEventsEnds
  BY <1>5 DEF WaitForEventsEnds, Return, Finish, SubmitTypeOK, IInv, Progress, SentMeans,
      ValidResponses, vars, handlerVars, ledgerVars, Reasons
<1> QED
  BY <1>1, <1>2, <1>3, <1>4, <1>5, AnsweredKeeps DEF Submit

-----------------------------------------------------------------------------
(* What a submission comes to                                              *)

LEMMA OutcomeInit == SubmitInit => Outcome!Init
BY DEF SubmitInit, Init, Outcome!Init, ClientSees

\* The channel commits, or neither the client nor the channel sees anything.
LEMMA ElsewhereOutcome ==
    ASSUME Elsewhere
    PROVE  Outcome!Next \/ UNCHANGED Outcome!vars
<1> USE DEF Elsewhere, submitVars, ClientSees
<1>1. ASSUME NEW code \in {"VALID", "INVALID"}, sent \in {"sent", "accepted"}, Order(code)
      PROVE  Outcome!Commit(code)
  BY <1>1 DEF Order, Outcome!Commit
<1>2. CASE UNCHANGED outcome
  BY <1>2 DEF Outcome!vars
<1>3. TimeoutFires \/ (\E h \in Hubs : HubError(h) \/ HubConnect(h) \/ PeerCommit(h))
        => UNCHANGED outcome
  BY DEF TimeoutFires, HubError, HubConnect, PeerCommit, ledgerVars
<1> QED
  BY <1>1, <1>2, <1>3 DEF Outcome!Next

\* With the responses in, the call throws, sends or has hubs re-established.
LEMMA AnsweredOutcome ==
    ASSUME SubmitIInv, NEW responses \in Responses, ProposalAnswered(responses)
    PROVE  Outcome!Next \/ UNCHANGED Outcome!vars
<1>1. /\ pc = "proposing" /\ sent = "no" /\ ClientSees = "busy"
      /\ UNCHANGED <<hasFactory, outcome>>
  BY DEF ProposalAnswered, SubmitIInv, Progress, ClientSees, StartListening, vars, ledgerVars
<1>2. CASE pc' = "done" /\ result' = "threw" /\ UNCHANGED sent
  BY <1>1, <1>2 DEF Outcome!Next, Outcome!Throw, ClientSees
<1>3. CASE pc' = "ordering" /\ sent' = "sent"
  BY <1>1, <1>3 DEF Outcome!Next, Outcome!Send, ClientSees
<1>4. CASE pc' = "reestablishing" /\ UNCHANGED sent
  BY <1>1, <1>4 DEF Outcome!vars, ClientSees
<1> QED
  BY <1>2, <1>3, <1>4 DEF ProposalAnswered, SendTransaction, Finish

\* Each await ends in a step the client or the orderer can tell: here the handler's
\* verdict has to be the ledger's.
LEMMA SubmitOutcome ==
    ASSUME "CHANNEL_SCOPE_ALLFORTX" \notin Configured, SubmitIInv, Submit
    PROVE  Outcome!Next \/ UNCHANGED Outcome!vars
<1> USE DEF ClientSees, Finish
<1>1. Progress /\ SentMeans
  BY DEF SubmitIInv
<1>2. CASE SendTransactionProposal
  BY <1>2 DEF SendTransactionProposal, vars, ledgerVars, Outcome!Next, Outcome!Begin
<1>3. CASE ProposalFails \/ SendTransactionFails
  BY <1>3 DEF ProposalFails, SendTransactionFails, vars, ledgerVars, Outcome!Next, Outcome!Throw
<1>4. CASE ListeningFails
  BY <1>4 DEF ListeningFails, Reestablished, ledgerVars, Outcome!Next, Outcome!Throw
<1>5. CASE OrdererAccepts
  <2>1. /\ pc = "ordering" /\ sent = "sent" /\ sent' = "accepted"
        /\ UNCHANGED <<hasFactory, outcome>>
    BY <1>1, <1>5 DEF OrdererAccepts, Progress, vars, ledgerVars
  <2>2. CASE hasFactory
    BY <1>5, <2>1, <2>2 DEF OrdererAccepts, Outcome!Next, Outcome!Accept
  <2>3. CASE ~hasFactory
    BY <1>5, <2>1, <2>3
       DEF OrdererAccepts, Return, SubmitIInv, SubmitTypeOK, Outcome!Next, Outcome!Return, Outcome!Throw
  <2> QED
    BY <2>2, <2>3 DEF SubmitIInv, SubmitTypeOK
<1>6. CASE OrdererRefuses
  <2>1. pc = "ordering" /\ sent = "sent" /\ outcome = "none" /\ UNCHANGED <<hasFactory, outcome>>
    BY <1>1, <1>6 DEF OrdererRefuses, Progress, CancelListening, vars, ledgerVars
  <2> QED
    BY <1>6, <2>1 DEF OrdererRefuses, Outcome!Next, Outcome!Refuse
<1>7. CASE WaitForEventsEnds
  <2>1. /\ pc = "waiting" /\ pc' = "done" /\ hasFactory /\ sent = "accepted"
        /\ UNCHANGED <<hasFactory, sent, outcome>>
    BY <1>1, <1>7 DEF WaitForEventsEnds, Return, Progress, vars, ledgerVars
  <2>2. notificationPromise = "resolved" => outcome = "VALID"
    BY DEF SubmitIInv, IInv, TypeOK, ResolvedMeansPromised
  <2>3. CASE result' = "payload"
    <3>1. outcome = "VALID"
      BY <1>7, <2>2, <2>3 DEF WaitForEventsEnds
    <3> QED
      BY <2>1, <2>3, <3>1 DEF Outcome!Next, Outcome!Return
  <2>4. CASE result' = "threw"
    BY <2>1, <2>4 DEF Outcome!Next, Outcome!Throw
  <2> QED
    BY <1>7, <2>3, <2>4 DEF WaitForEventsEnds, Return
<1> QED
  BY <1>2, <1>3, <1>4, <1>5, <1>6, <1>7, AnsweredOutcome DEF Submit

-----------------------------------------------------------------------------
(* The theorems                                                            *)

\* SubmitIInv holds in every reachable state.
THEOREM SubmitInvariance == SubmitSpec => []SubmitIInv
<1>1. SubmitIInv /\ [SubmitNext]_allVars => SubmitIInv'
  <2> SUFFICES ASSUME SubmitIInv, [SubmitNext]_allVars PROVE SubmitIInv'
    OBVIOUS
  <2>1. [Next]_vars
    BY HandlerStep DEF allVars
  <2>2. IInv'
    BY <2>1, IInvNext DEF SubmitIInv
  <2>3. CASE SubmitNext
    BY <2>2, <2>3, ElsewhereKeeps, SubmitKeeps DEF SubmitNext
  <2>4. CASE UNCHANGED allVars
    BY <2>2, <2>4 DEF allVars, submitVars, SubmitIInv, SubmitTypeOK, IInv, Progress,
        SentMeans, ValidResponses, vars, handlerVars, ledgerVars
  <2> QED
    BY <2>3, <2>4
<1> QED
  BY <1>1, SubmitInitially, PTL DEF SubmitSpec

\* Every variable of the submission and its handler keeps its type.
THEOREM SubmitTypeCorrectness == SubmitSpec => []SubmitTypeOK
BY SubmitInvariance, PTL DEF SubmitIInv

\* A hub the client still listens to has not delivered the block yet.
THEOREM NoneMissed == SubmitSpec => []NoCommitMissed
<1>1. SubmitIInv => NoCommitMissed
  BY DEF SubmitIInv, NoCommitMissed
<1> QED
  BY <1>1, SubmitInvariance, PTL

\* A refused transaction leaves no registration and no timer.
THEOREM CleanRefusal == SubmitSpec => []RefusalLeavesNothing
<1>1. SubmitIInv => RefusalLeavesNothing
  BY DEF SubmitIInv, SentMeans, IInv, LifeCycle, Listening, RefusalLeavesNothing
<1> QED
  BY <1>1, SubmitInvariance, PTL

\* A submission that fails before sending never commits.
THEOREM SafeToRetry == SubmitSpec => []EarlyFailureNeverCommits
<1>1. SubmitIInv => EarlyFailureNeverCommits
  BY DEF SubmitIInv, SentMeans, EarlyFailureNeverCommits
<1> QED
  BY <1>1, SubmitInvariance, PTL

\* Unless CHANNEL_SCOPE_ALLFORTX may be configured, a client with event handling
\* that gets its result knows that the transaction was committed as promised.
THEOREM ResultIsCommitted ==
    ASSUME "CHANNEL_SCOPE_ALLFORTX" \notin Configured
    PROVE  SubmitSpec => []ResultMeansCommitted
<1>1. SubmitIInv => ResultMeansCommitted
  BY DEF SubmitIInv, SentMeans, IInv, TypeOK, ResolvedMeansPromised, ResultMeansCommitted
<1> QED
  BY <1>1, SubmitInvariance, PTL

\* So a client that submits a transaction gets the notice README.md promises: the
\* watched hubs confirm or are lost one by one, a refusal stops the notice, and
\* its verdict is theirs.  CHANNEL_SCOPE_ALLFORTX is excluded, as for the handler.
THEOREM SubmissionGivesNotice ==
    ASSUME "CHANNEL_SCOPE_ALLFORTX" \notin Configured
    PROVE  SubmitSpec => Notice!Safety
<1>1. SubmitInit => Notice!Init
  BY NoticeInit DEF SubmitInit
<1>2. SubmitIInv /\ SubmitIInv' /\ [SubmitNext]_allVars => [Notice!Next]_(Notice!vars)
  BY HandlerStep, StepRefines DEF SubmitIInv, allVars
<1> QED
  BY <1>1, <1>2, SubmitInvariance, PTL DEF SubmitSpec, Notice!Safety

\* Whatever endorsers, hubs, timer and orderer do, a submission comes to one sending
\* at most, a result only for what the channel committed as VALID, and nothing
\* committed that was refused or never sent.  CHANNEL_SCOPE_ALLFORTX is excluded.
THEOREM OutcomeImplementation ==
    ASSUME "CHANNEL_SCOPE_ALLFORTX" \notin Configured
    PROVE  SubmitSpec => Outcome!Safety
<1>1. SubmitInit => Outcome!Init
  BY OutcomeInit
<1>2. SubmitIInv /\ [SubmitNext]_allVars => [Outcome!Next]_(Outcome!vars)
  <2> SUFFICES ASSUME SubmitIInv, [SubmitNext]_allVars
               PROVE  Outcome!Next \/ UNCHANGED Outcome!vars
    OBVIOUS
  <2>1. CASE UNCHANGED allVars
    BY <2>1 DEF allVars, submitVars, vars, ledgerVars, Outcome!vars, ClientSees
  <2> QED
    BY <2>1, ElsewhereOutcome, SubmitOutcome DEF SubmitNext
<1> QED
  BY <1>1, <1>2, SubmitInvariance, PTL DEF SubmitSpec, Outcome!Safety
=============================================================================
