--------------------------- MODULE TxEventHandler ---------------------------
(***************************************************************************)
(* DefaultTxEventHandler (lib/impl/event/defaulttxeventhandler.js): one    *)
(* handler listening for the commit of one transaction on the event hubs   *)
(* the factory made for the configured strategy, while hubs connect,       *)
(* break, reconnect and deliver blocks, and a timer runs.                  *)
(*                                                                         *)
(* JavaScript runs a callback to completion, so every callback is one      *)
(* action.  startListening is one action too unless it has to re-establish *)
(* hubs: its other awaits only yield to microtasks, and a hub or a timer   *)
(* calls back from a macrotask.                                            *)
(***************************************************************************)
EXTENDS EventStrategies, FiniteSets

CONSTANTS
    Hubs,         \* an event hub per peer of the channel
    Msps,         \* the organisations of the channel
    MspOf,        \* eventHub._EVH_mspId
    MspId,        \* the organisation of the client's identity
    Configured    \* the strategies options.strategy may name

ASSUME TxEventHandlerAssumption ==
    /\ IsFiniteSet(Hubs)
    /\ MspOf \in [Hubs -> Msps]
    /\ MspId \in Msps
    /\ Configured \subseteq Strategies

VARIABLES
    strategy,             \* options.strategy
    connected,            \* per hub: eventHubConnected(hub)
    call,                 \* how far startListening / cancelListening got
    eventsByMspId,
    connectedHubs,        \* this.connectedHubs
    registered,           \* hubs that hold a registration for this txId
    timeoutHandle,
    notificationPromise,  \* a rejected promise carries its reason
    outcome,              \* validation code of the transaction, once ordered
    passed,               \* hubs whose peer is past the transaction's block
    validFrom,            \* history: hubs that called back with VALID
    lostFrom              \* history: hubs that called back with an error

handlerVars == <<call, eventsByMspId, connectedHubs, registered, timeoutHandle,
                 notificationPromise, validFrom, lostFrom>>
ledgerVars  == <<outcome, passed>>
vars        == <<strategy, connected, handlerVars, ledgerVars>>

Reasons == {"timeout", "invalid", "lost"}

TypeOK ==
    /\ strategy \in Configured
    /\ connected \in [Hubs -> BOOLEAN]
    /\ call \in {"created", "reestablishing", "listening", "threw", "cancelled"}
    /\ DOMAIN eventsByMspId \subseteq Msps
    /\ eventsByMspId \in [DOMAIN eventsByMspId -> Count]
    /\ connectedHubs \subseteq Hubs
    /\ registered \subseteq Hubs
    /\ timeoutHandle \in {"none", "armed", "cleared"}
    /\ notificationPromise \in {"none", "pending", "resolved"} \cup Reasons
    /\ outcome \in {"none", "VALID", "INVALID"}
    /\ passed \subseteq Hubs
    /\ validFrom \subseteq Hubs
    /\ lostFrom \subseteq Hubs

-----------------------------------------------------------------------------
(* Helpers                                                                 *)

HubsOf(S, m) == {h \in S : MspOf[h] = m}

\* factory.getEventHubs(): the hubs the factory set up for the strategy
EventHubs == IF strategy \in MspidStrategies THEN HubsOf(Hubs, MspId) ELSE Hubs

\* The Map _getConnectedHubs builds from the hubs it finds connected
CountsOf(S) ==
    [m \in {MspOf[h] : h \in S} |-> NewCount(Cardinality(HubsOf(S, m)))]

\* Bug: the timer stays armed.
SettleKeepsTimer(verdict) ==
    /\ notificationPromise' = verdict
    /\ registered' = {}
    /\ UNCHANGED timeoutHandle

\* Bug: the hubs keep their registrations.
SettleKeepsRegistrations(verdict) ==
    /\ notificationPromise' = verdict
    /\ timeoutHandle' = "cleared"
    /\ UNCHANGED registered

\* cancelListening, then txResolve or txReject.  No callback is left that
\* could settle the promise again.
Settle(verdict) ==
    /\ notificationPromise' = verdict
    /\ registered' = {}
    /\ timeoutHandle' = "cleared"

\* Bug: the callback leaves its hub registered.
KeepListeningRegistered(h) ==
    UNCHANGED <<registered, notificationPromise, timeoutHandle>>

\* The callback unregistered its own hub; the handler goes on listening.
KeepListening(h) ==
    /\ registered' = registered \ {h}
    /\ UNCHANGED <<notificationPromise, timeoutHandle>>

-----------------------------------------------------------------------------
(* The handler                                                             *)

Init ==
    /\ strategy \in Configured
    /\ connected \in [Hubs -> BOOLEAN]
    /\ EventHubs # {}                    \* or the constructor throws
    /\ call = "created"
    /\ eventsByMspId = [m \in {} |-> Undefined]
    /\ connectedHubs = {}
    /\ registered = {}
    /\ timeoutHandle = "none"
    /\ notificationPromise = "none"
    /\ outcome = "none"
    /\ passed = {}
    /\ validFrom = {}
    /\ lostFrom = {}

\* startListening: count the connected hubs; if they are enough for the
\* strategy, make the promise, arm the timer and register on each of them,
\* otherwise ask the factory to establish its hubs anew.
StartListening ==
    LET hubs   == {h \in EventHubs : connected[h]}
        counts == CountsOf(hubs)
    IN  /\ call = "created"
        /\ eventsByMspId' = counts
        /\ \/ /\ CheckInitialState(strategy, counts)
              /\ call' = "listening"
              /\ connectedHubs' = hubs
              /\ registered' = hubs
              /\ timeoutHandle' = "armed"
              /\ notificationPromise' = "pending"
           \/ /\ ~CheckInitialState(strategy, counts)
              /\ call' = "reestablishing"
              /\ UNCHANGED <<connectedHubs, registered, timeoutHandle,
                             notificationPromise>>
        /\ UNCHANGED <<strategy, connected, ledgerVars, validFrom, lostFrom>>

\* _establishEventHubsForStrategy returned or threw.  The handler looks again
\* at the counts it already had, which nothing has recomputed, and throws.
Reestablished ==
    /\ call = "reestablishing"
    /\ ~CheckInitialState(strategy, eventsByMspId)
    /\ call' = "threw"
    /\ UNCHANGED <<strategy, connected, ledgerVars, eventsByMspId, connectedHubs,
                   registered, timeoutHandle, notificationPromise, validFrom, lostFrom>>

\* Bug: the timer stops the listening but does not reject.
TimeoutForgetsReject ==
    /\ timeoutHandle = "armed"
    /\ registered' = {}
    /\ timeoutHandle' = "cleared"
    /\ UNCHANGED <<strategy, connected, ledgerVars, call, eventsByMspId,
                   connectedHubs, notificationPromise, validFrom, lostFrom>>

TimeoutFires ==
    /\ timeoutHandle = "armed"
    /\ Settle("timeout")
    /\ UNCHANGED <<strategy, connected, ledgerVars, call, eventsByMspId,
                   connectedHubs, validFrom, lostFrom>>

\* The caller gives up; the promise stays as it is.
CancelListening ==
    /\ call = "listening"
    /\ call' = "cancelled"
    /\ registered' = {}
    /\ timeoutHandle' = "cleared"
    /\ UNCHANGED <<strategy, connected, ledgerVars, eventsByMspId, connectedHubs,
                   notificationPromise, validFrom, lostFrom>>

\* The event callback of hub h
EventCallback(h, code) ==
    LET m      == MspOf[h]
        counts == [eventsByMspId EXCEPT ![m] = CountEvent(@)]
    IN  /\ \/ /\ code # "VALID"
              /\ Settle("invalid")
              /\ UNCHANGED <<eventsByMspId, validFrom>>
           \/ /\ code = "VALID"
              /\ eventsByMspId' = counts
              /\ validFrom' = validFrom \cup {h}
              /\ IF EventReceived(strategy, counts, m) = STRATEGY_PASSED
                 THEN Settle("resolved")
                 ELSE KeepListening(h)
        /\ UNCHANGED <<call, connectedHubs, lostFrom>>

\* The error callback of hub h.  After a rejection its txResolve is void.
ErrorCallback(h) ==
    LET m      == MspOf[h]
        counts == [eventsByMspId EXCEPT ![m] = CountError(@)]
        status == ErrorReceived(strategy, counts, m)
    IN  /\ eventsByMspId' = counts
        /\ lostFrom' = lostFrom \cup {h}
        /\ CASE status = STRATEGY_FAILED       -> Settle("lost")
             [] status = STRATEGY_PASSED       -> Settle("resolved")
             [] status = STRATEGY_STILLONGOING -> KeepListening(h)
        /\ UNCHANGED <<call, connectedHubs, validFrom>>

-----------------------------------------------------------------------------
(* The event hubs and the network behind them                              *)

\* The stream of a hub breaks, or dispose disconnects the hub.
HubError(h) ==
    /\ connected[h]
    /\ connected' = [connected EXCEPT ![h] = FALSE]
    /\ IF h \in registered THEN ErrorCallback(h) ELSE UNCHANGED handlerVars
    /\ UNCHANGED <<strategy, ledgerVars>>

\* A hub connects, or checkEventHubs reconnects it.  Its stream starts at the
\* newest block and its registrations are gone.
HubConnect(h) ==
    /\ ~connected[h]
    /\ connected' = [connected EXCEPT ![h] = TRUE]
    /\ UNCHANGED <<strategy, handlerVars, ledgerVars>>

\* The orderer puts the transaction in a block; its peers agree on the code.
Order(code) ==
    /\ outcome = "none"
    /\ outcome' = code
    /\ UNCHANGED <<strategy, connected, handlerVars, passed>>

\* The peer of h commits the block.  Only a registered hub calls back.
PeerCommit(h) ==
    /\ outcome # "none"
    /\ h \notin passed
    /\ passed' = passed \cup {h}
    /\ IF h \in registered THEN EventCallback(h, outcome) ELSE UNCHANGED handlerVars
    /\ UNCHANGED <<strategy, connected, outcome>>

-----------------------------------------------------------------------------
Next ==
    \/ StartListening
    \/ Reestablished
    \/ TimeoutFires
    \/ CancelListening
    \/ \E h \in Hubs : HubError(h) \/ HubConnect(h) \/ PeerCommit(h)
    \/ \E code \in {"VALID", "INVALID"} : Order(code)

\* Node's event loop fires an armed timer.  Nothing is assumed of the hubs,
\* the orderer or the peers.
Spec == Init /\ [][Next]_vars /\ WF_vars(TimeoutFires)

-----------------------------------------------------------------------------
(* Properties                                                              *)

Listening == call = "listening" /\ notificationPromise = "pending"

Settled == notificationPromise \in {"resolved"} \cup Reasons

\* While it listens, the handler's books agree with the registrations it
\* holds: per organisation, "remaining" is the number of hubs that can still
\* call back and "valid" the number that reported VALID; every hub it started
\* with is registered, heard or lost.  A lost decrement, a double callback or
\* a callback of a hub it does not listen to breaks this.
CountsMatchRegistrations ==
    Listening =>
        /\ connectedHubs = registered \cup validFrom \cup lostFrom
        /\ registered \cap (validFrom \cup lostFrom) = {}
        /\ DOMAIN eventsByMspId = {MspOf[h] : h \in connectedHubs}
        /\ \A m \in DOMAIN eventsByMspId :
              LET count == eventsByMspId[m]
                  valid == HubsOf(validFrom, m)
              IN  /\ count.remaining = Cardinality(HubsOf(registered, m))
                  /\ count.valid = IF valid = {} THEN Undefined ELSE Cardinality(valid)

\* Once the promise is settled or the caller has cancelled, no hub holds a
\* registration for the transaction and no timer is armed: nothing leaks and
\* no late callback can act on the handler.
QuietOnceOver ==
    Settled \/ call = "cancelled" => registered = {} /\ timeoutHandle # "armed"

\* The handler never waits for nobody: while the promise is pending some hub
\* can still call back, and that hub is connected.  Otherwise only the timer
\* would end the wait though the strategy was already decided.
WaitsForSomebody ==
    Listening => \E h \in registered : connected[h]

\* Loss of event hubs makes the client's transaction fail only when no hub
\* ever reported VALID (README: "A client is unblocked successfully so long
\* as all peers respond or error out with at least 1 peer responding").
LossFailsOnlyUnheard ==
    notificationPromise = "lost" => validFrom = {} /\ lostFrom = connectedHubs

\* What the README promises when the client is unblocked with success.
OrgHeard(m) == HubsOf(validFrom, m) # {}

Promised ==
    CASE strategy = "MSPID_SCOPE_ALLFORTX" ->
            /\ validFrom # {}
            /\ connectedHubs = validFrom \cup lostFrom
      [] strategy = "CHANNEL_SCOPE_ALLFORTX" ->
            \A m \in {MspOf[h] : h \in EventHubs} : OrgHeard(m)
      [] OTHER -> validFrom # {}

\* A resolved promise means the transaction was committed as VALID, and that
\* the configured strategy was really satisfied by what the hubs reported.
ResolvedMeansPromised ==
    notificationPromise = "resolved" => outcome = "VALID" /\ Promised

\* The other way round: a client is refused, by the timer, an event or a loss, only
\* if what the hubs reported does not satisfy the strategy.  As soon as it is
\* satisfied the promise is settled, and no timer can race it.
RejectedMeansUnmet ==
    notificationPromise \in Reasons => ~Promised

\* Whatever the hubs, the orderer and the peers do, listening ends.
ListeningEnds == Listening ~> ~Listening

-----------------------------------------------------------------------------
(* The inductive invariant behind the safety properties                    *)

\* The promise exists from the moment listening starts; registrations and an
\* armed timer exist only while the handler listens.
LifeCycle ==
    /\ notificationPromise # "none" <=> call \in {"listening", "cancelled"}
    /\ timeoutHandle = "armed" <=> Listening
    /\ registered # {} => Listening
    /\ notificationPromise = "none" =>
          connectedHubs = {} /\ validFrom = {} /\ lostFrom = {}

\* The handler hears only hubs of its scope it started with, those registered
\* are connected, and a VALID report comes from an ordered transaction.
Sources ==
    /\ connectedHubs \subseteq EventHubs
    /\ registered \cup validFrom \cup lostFrom \subseteq connectedHubs
    /\ \A h \in registered : connected[h]
    /\ validFrom # {} => outcome = "VALID"

\* A strategy that is still ongoing can still be decided, and all but one are
\* decided by the first VALID report.
StillOpen ==
    Listening =>
        /\ registered # {}
        /\ strategy # "MSPID_SCOPE_ALLFORTX" => validFrom = {}

\* The books, the lifecycle and the verdicts of the handler hang together:
\* true at the start and kept by every callback of startListening.
IInv ==
    /\ TypeOK
    /\ LifeCycle
    /\ Sources
    /\ CountsMatchRegistrations
    /\ StillOpen
    /\ LossFailsOnlyUnheard
    /\ strategy # "CHANNEL_SCOPE_ALLFORTX" => ResolvedMeansPromised

-----------------------------------------------------------------------------
(* What the handler implements                                             *)

NoticeRule == IF strategy = "MSPID_SCOPE_ALLFORTX" THEN "all" ELSE "any"

NoticeStatus ==
    CASE notificationPromise = "none"     -> "idle"
      [] notificationPromise = "pending"  ->
            IF call = "cancelled" THEN "stopped" ELSE "waiting"
      [] notificationPromise = "resolved" -> "committed"
      [] OTHER                            -> "failed"

Notice == INSTANCE CommitNotice WITH
    Peers     <- Hubs,
    rule      <- NoticeRule,
    status    <- NoticeStatus,
    watched   <- connectedHubs,
    confirmed <- validFrom,
    lost      <- lostFrom

\* Under every strategy but CHANNEL_SCOPE_ALLFORTX the counts, registrations
\* and timer of the handler implement the notice README.md promises.
ImplementsCommitNotice == Notice!Spec
=============================================================================
