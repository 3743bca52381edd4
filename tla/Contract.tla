------------------------------ MODULE Contract ------------------------------
(***************************************************************************)
(* Contract.submitTransaction (lib/contract.js): the client side of one    *)
(* transaction, from the proposal to the result, composed with the         *)
(* DefaultTxEventHandler it creates.  Its awaits are the values of pc; the *)
(* hubs, the orderer and the peers act between them.                       *)
(*                                                                         *)
(* validate-listen-send is one action: once the proposal responses are in, *)
(* submitTransaction reaches sendTransaction through microtasks alone,     *)
(* unless startListening has to re-establish hubs.                         *)
(***************************************************************************)
EXTENDS TxEventHandler

CONSTANT Endorsers   \* bound: responses one proposal can bring back

ASSUME ContractAssumption == Endorsers \in Nat

VARIABLES
    pc,                  \* the await submitTransaction is in
    hasFactory,          \* this.eventHandlerFactory is set
    proposalResponses,
    sent,                \* what became of sendTransaction
    result               \* what the client got

submitVars == <<pc, hasFactory, proposalResponses, sent, result>>
allVars    == <<vars, submitVars>>

\* An Error; an answer that fails verification or is not status 200; an
\* endorsement.
Kinds == {"error", "invalid", "ok"}

Responses == UNION {[1..n -> Kinds] : n \in 0..Endorsers}

SubmitTypeOK ==
    /\ TypeOK
    /\ pc \in {"idle", "proposing", "reestablishing", "ordering", "waiting", "done"}
    /\ hasFactory \in BOOLEAN
    /\ proposalResponses \in Responses
    /\ sent \in {"no", "sent", "accepted", "refused"}
    /\ result \in {"none", "payload", "threw"}

-----------------------------------------------------------------------------

\* _validatePeerResponses
ValidResponses(responses) == {i \in DOMAIN responses : responses[i] = "ok"}

Finish(r) ==
    /\ pc' = "done"
    /\ result' = r

\* The last lines of submitTransaction log proposalResponses[0].response.payload:
\* an Error has no response, so that throws a TypeError.
Return == Finish(IF proposalResponses[1] = "error" THEN "threw" ELSE "payload")

SubmitInit ==
    /\ Init
    /\ pc = "idle"
    /\ hasFactory \in BOOLEAN
    /\ proposalResponses = << >>
    /\ sent = "no"
    /\ result = "none"

\* Up to the await of sendTransactionProposal.  checkEventHubs only asks the
\* hubs to reconnect: HubConnect may follow.
SendTransactionProposal ==
    /\ pc = "idle"
    /\ pc' = "proposing"
    /\ UNCHANGED <<vars, hasFactory, proposalResponses, sent, result>>

\* sendTransactionProposal rejects.
ProposalFails ==
    /\ pc = "proposing"
    /\ Finish("threw")
    /\ UNCHANGED <<vars, hasFactory, proposalResponses, sent>>

SendTransaction ==
    /\ pc' = "ordering"
    /\ sent' = "sent"

\* The responses arrive: validate them, start listening, send to the orderer.
ProposalAnswered(responses) ==
    /\ pc = "proposing"
    /\ proposalResponses' = responses
    /\ UNCHANGED hasFactory
    /\ \/ /\ ValidResponses(responses) = {}
          /\ Finish("threw")
          /\ UNCHANGED <<vars, sent>>
       \/ /\ ValidResponses(responses) # {}
          /\ ~hasFactory
          /\ SendTransaction
          /\ UNCHANGED <<vars, result>>
       \/ /\ ValidResponses(responses) # {}
          /\ hasFactory
          /\ StartListening
          /\ IF call' = "listening"
             THEN SendTransaction
             ELSE pc' = "reestablishing" /\ UNCHANGED sent
          /\ UNCHANGED result

\* Bug: the transaction is sent though nobody listens.
ListeningFailsUnnoticed ==
    /\ pc = "reestablishing"
    /\ Reestablished
    /\ SendTransaction
    /\ UNCHANGED <<hasFactory, proposalResponses, result>>

ListeningFails ==
    /\ pc = "reestablishing"
    /\ Reestablished
    /\ Finish("threw")
    /\ UNCHANGED <<hasFactory, proposalResponses, sent>>

\* Bug: the commit events are not awaited.
AcceptedDoesNotWait ==
    /\ pc = "ordering"
    /\ sent' = "accepted"
    /\ Return
    /\ UNCHANGED <<vars, hasFactory, proposalResponses>>

\* The orderer answers SUCCESS.
OrdererAccepts ==
    /\ pc = "ordering"
    /\ sent' = "accepted"
    /\ IF hasFactory THEN pc' = "waiting" /\ UNCHANGED result ELSE Return
    /\ UNCHANGED <<vars, hasFactory, proposalResponses>>

\* Bug: nobody cancels the handler.
RefusedKeepsListening ==
    /\ pc = "ordering"
    /\ outcome = "none"
    /\ sent' = "refused"
    /\ Finish("threw")
    /\ UNCHANGED <<vars, hasFactory, proposalResponses>>

\* The orderer answers anything else, and will not order the transaction.
OrdererRefuses ==
    /\ pc = "ordering"
    /\ outcome = "none"
    /\ sent' = "refused"
    /\ Finish("threw")
    /\ IF hasFactory THEN CancelListening ELSE UNCHANGED vars
    /\ UNCHANGED <<hasFactory, proposalResponses>>

\* sendTransaction rejects, as it does when the answer does not come in time;
\* the transaction may still be ordered.  The handler is left as it is.
SendTransactionFails ==
    /\ pc = "ordering"
    /\ Finish("threw")
    /\ UNCHANGED <<vars, hasFactory, proposalResponses, sent>>

\* Bug: the catch swallows the rejection.
WaitSwallowsRejection ==
    /\ pc = "waiting"
    /\ notificationPromise \in {"resolved"} \cup Reasons
    /\ Return
    /\ UNCHANGED <<vars, hasFactory, proposalResponses, sent>>

\* waitForEvents ends with the promise.
WaitForEventsEnds ==
    /\ pc = "waiting"
    /\ \/ notificationPromise = "resolved" /\ Return
       \/ notificationPromise \in Reasons /\ Finish("threw")
    /\ UNCHANGED <<vars, hasFactory, proposalResponses, sent>>

\* What happens between the awaits.  Only a transaction that was sent and not
\* refused can be ordered.
Elsewhere ==
    /\ \/ TimeoutFires
       \/ \E h \in Hubs : HubError(h) \/ HubConnect(h) \/ PeerCommit(h)
       \/ \E code \in {"VALID", "INVALID"} : sent \in {"sent", "accepted"} /\ Order(code)
    /\ UNCHANGED submitVars

Submit ==
    \/ SendTransactionProposal
    \/ ProposalFails
    \/ \E responses \in Responses : ProposalAnswered(responses)
    \/ ListeningFails
    \/ OrdererAccepts
    \/ OrdererRefuses
    \/ SendTransactionFails
    \/ WaitForEventsEnds

SubmitNext == Submit \/ Elsewhere

\* Once begun, a submission goes on: the SDK answers every request and ends
\* every attempt to connect a hub, with its own timeouts if nothing else, and
\* the event loop fires an armed timer.  Nothing is assumed of the orderer, the
\* peers or established streams.
SubmitSpec ==
    /\ SubmitInit
    /\ [][SubmitNext]_allVars
    /\ WF_allVars(Submit /\ pc # "idle")
    /\ WF_allVars(TimeoutFires /\ UNCHANGED submitVars)

-----------------------------------------------------------------------------
(* Properties                                                              *)

\* A client that gets its result knows that the transaction was committed as
\* VALID and that the strategy it configured was satisfied.
ResultMeansCommitted ==
    hasFactory /\ result = "payload" => outcome = "VALID" /\ Promised

\* The handler listens before the transaction is sent, so while the client may
\* still wait no hub it listens to has already delivered the block: a commit
\* cannot be missed between sending and listening.
NoCommitMissed ==
    Listening => registered \cap passed = {}

\* A transaction the orderer refused leaves no registration and no timer.
RefusalLeavesNothing ==
    sent = "refused" => registered = {} /\ timeoutHandle # "armed"

\* A client whose endorsements or event hubs were not good enough gets an error
\* and may submit again: that transaction was never sent, so it never commits
\* behind the client's back.
EarlyFailureNeverCommits ==
    result = "threw" /\ (ValidResponses(proposalResponses) = {} \/ call = "threw")
        => outcome = "none" /\ passed = {}

\* When submitTransaction has ended, with a result or an error, what it registered
\* and its timer go in the end, what a failing sendTransaction left too.
NothingLeftBehind == pc = "done" ~> registered = {} /\ timeoutHandle # "armed"

\* A client whose strategy was satisfied gets its result, not an error.
SatisfiedIsReported ==
    notificationPromise = "resolved" /\ pc = "done" /\ sent = "accepted"
        => result = "payload"

\* What each await, and each way out, of submitTransaction says of its handler
\* and of the transaction.
Progress ==
    /\ pc \in {"idle", "proposing"} => call = "created" /\ proposalResponses = << >>
    /\ pc = "reestablishing" => call = "reestablishing"
    /\ pc \in {"idle", "proposing", "reestablishing"} => sent = "no"
    /\ pc = "ordering" => sent = "sent"
    /\ pc = "waiting" => sent = "accepted" /\ hasFactory
    /\ pc \in {"ordering", "waiting"} => call = IF hasFactory THEN "listening" ELSE "created"
    /\ pc = "done" <=> result # "none"

\* What was sent had a valid response and, with a factory, a listener; only
\* what was sent and not refused is ordered.
SentMeans ==
    /\ sent = "no" => outcome = "none" /\ passed = {}
    /\ sent # "no" => /\ ValidResponses(proposalResponses) # {}
                      /\ call \notin {"reestablishing", "threw"}
    /\ sent = "refused" => pc = "done" /\ call = IF hasFactory THEN "cancelled" ELSE "created"
    /\ hasFactory /\ result = "payload" => notificationPromise = "resolved"

\* The inductive invariant behind the safety of a submission: that of its
\* handler, how far it got, and that no registered hub is past the block.
SubmitIInv ==
    /\ IInv
    /\ SubmitTypeOK
    /\ Progress
    /\ SentMeans
    /\ registered \cap passed = {}

-----------------------------------------------------------------------------
(* What a submission implements                                            *)

ClientSees ==
    CASE pc = "idle" -> "idle"
      [] pc = "done" -> result
      [] OTHER       -> "busy"

Outcome == INSTANCE SubmissionOutcome WITH
    notified <- hasFactory,
    client   <- ClientSees,
    orderer  <- sent

\* Under every strategy but CHANNEL_SCOPE_ALLFORTX the awaits, endorsements, hubs
\* and handler of a submission come to what SubmissionOutcome says: one sending, a
\* result only for what was committed as VALID, an end to every call.
ImplementsOutcome == Outcome!Spec
=============================================================================
