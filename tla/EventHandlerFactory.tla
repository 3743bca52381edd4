------------------------ MODULE EventHandlerFactory -------------------------
(***************************************************************************)
(* DefaultEventHandlerFactory with its superclass EventHandlerFactory      *)
(* (lib/impl/event, lib/api/eventhandler.js): the list of event hubs, the  *)
(* establishment of hubs at initialize and again when a transaction finds  *)
(* none connected, and dispose.  Of a transaction's handler only what it   *)
(* does with the hubs is kept: the hubs it found, those it is registered   *)
(* on, and its end; TxEventHandler models its verdicts.                    *)
(*                                                                         *)
(* An establishment makes one new hub per peer of the strategy's scope and *)
(* a transaction re-establishes at most once, so a hub is named by who     *)
(* established it and its peer.                                            *)
(***************************************************************************)
EXTENDS FiniteSets

CONSTANTS
    Peers,     \* the peers in the scope of the strategy
    Txs,       \* bound: transactions submitted
    Factory    \* stands for the factory's own initialize

ASSUME FactoryAssumption == Peers # {} /\ Factory \notin Txs

Establishers == {Factory} \cup Txs

Hubs == Establishers \X Peers

HubsBy(e) == {e} \X Peers

VARIABLES
    availableEventHubs,   \* the list, as a set
    hub,                  \* per hub: the state of its connection
    answered,             \* hubs whose connectPromise is resolved
    establishing,         \* per establisher: _establishEventHubsForStrategy
    initialized,
    disposed,             \* history: dispose was called
    tx,                   \* per transaction: how far its handler is
    registered            \* per transaction: the hubs it is registered on

txVars == <<tx, registered>>
vars   == <<availableEventHubs, hub, answered, establishing, initialized, disposed, txVars>>

\* The hubs that exist and have been told to connect.
Created == {h \in Hubs : hub[h] # "none"}

\* Every variable has its type; the list, the answers and the registrations
\* are of hubs that exist.
TypeOK ==
    /\ hub \in [Hubs -> {"none", "connecting", "connected", "down"}]
    /\ availableEventHubs \subseteq Created
    /\ answered \subseteq Created
    /\ establishing \in [Establishers -> {"no", "waiting", "returned", "threw"}]
    /\ initialized \in BOOLEAN
    /\ disposed \in BOOLEAN
    /\ tx \in [Txs -> {"none", "reestablishing", "listening", "ended", "threw"}]
    /\ registered \in [Txs -> SUBSET Created]

Init ==
    /\ availableEventHubs = {}
    /\ hub = [h \in Hubs |-> "none"]
    /\ answered = {}
    /\ establishing = [e \in Establishers |-> "no"]
    /\ initialized = FALSE
    /\ disposed = FALSE
    /\ tx = [t \in Txs |-> "none"]
    /\ registered = [t \in Txs |-> {}]

-----------------------------------------------------------------------------
(* Establishing hubs                                                       *)

Connected(S) == {h \in S : hub[h] = "connected"}
Open         == {h \in Hubs : hub[h] \in {"connecting", "connected"}}

\* Bug: the new hubs are not told to connect.
EstablishUnconnected(e) ==
    /\ availableEventHubs' = HubsBy(e)
    /\ hub' = hub
    /\ establishing' = [establishing EXCEPT ![e] = "waiting"]

\* _establishEventHubsForStrategy up to its await: the list is emptied and
\* filled with new hubs, which start to connect.
Establish(e) ==
    /\ availableEventHubs' = HubsBy(e)
    /\ hub' = [h \in Hubs |-> IF h \in HubsBy(e) THEN "connecting" ELSE hub[h]]
    /\ establishing' = [establishing EXCEPT ![e] = "waiting"]

\* Bug: the list is not looked at again after the await.
EstablishEndsUnchecked(e) ==
    /\ establishing[e] = "waiting"
    /\ HubsBy(e) \subseteq answered
    /\ establishing' = [establishing EXCEPT ![e] = "returned"]
    /\ initialized' = (initialized \/ e = Factory)
    /\ tx' = [t \in Txs |-> IF t = e THEN "threw" ELSE tx[t]]
    /\ UNCHANGED <<availableEventHubs, hub, answered, disposed, registered>>

\* Every connectPromise is resolved.  An empty list, which only dispose can
\* have left, makes it throw.
EstablishEnds(e) ==
    /\ establishing[e] = "waiting"
    /\ HubsBy(e) \subseteq answered
    /\ establishing' = [establishing EXCEPT
          ![e] = IF availableEventHubs = {} THEN "threw" ELSE "returned"]
    /\ initialized' = (initialized \/ (e = Factory /\ availableEventHubs # {}))
    \* The handler that asked looks at its old counts again, and throws.
    /\ tx' = [t \in Txs |-> IF t = e THEN "threw" ELSE tx[t]]
    /\ UNCHANGED <<availableEventHubs, hub, answered, disposed, registered>>

Initialize ==
    /\ establishing[Factory] = "no"
    /\ ~disposed
    /\ Establish(Factory)
    /\ UNCHANGED <<answered, initialized, disposed, txVars>>

-----------------------------------------------------------------------------
(* Hubs                                                                    *)

\* Bug: the error callback does not resolve the connectPromise.
LoseUnanswered(S) ==
    /\ hub' = [h \in Hubs |-> IF h \in S THEN "down" ELSE hub[h]]
    /\ answered' = answered
    /\ registered' = [t \in Txs |-> registered[t] \ S]
    /\ tx' = [t \in Txs |-> IF tx[t] = "listening" /\ registered[t] \subseteq S
                            THEN "ended" ELSE tx[t]]

\* Bug: the handlers are not told.
LoseSilently(S) ==
    /\ hub' = [h \in Hubs |-> IF h \in S THEN "down" ELSE hub[h]]
    /\ answered' = answered \cup S
    /\ UNCHANGED txVars

\* The error callbacks of the hubs in S: the block registration resolves the
\* connectPromise, and a handler that loses its last hub is done.
Lose(S) ==
    /\ hub' = [h \in Hubs |-> IF h \in S THEN "down" ELSE hub[h]]
    /\ answered' = answered \cup S
    /\ registered' = [t \in Txs |-> registered[t] \ S]
    /\ tx' = [t \in Txs |-> IF tx[t] = "listening" /\ registered[t] \subseteq S
                            THEN "ended" ELSE tx[t]]

\* The first block arrives.
HubConnects(h) ==
    /\ hub[h] = "connecting"
    /\ hub' = [hub EXCEPT ![h] = "connected"]
    /\ answered' = answered \cup {h}
    /\ UNCHANGED <<availableEventHubs, establishing, initialized, disposed, txVars>>

\* A hub cannot connect, or its stream breaks.
HubFails(h) ==
    /\ h \in Open
    /\ Lose({h})
    /\ UNCHANGED <<availableEventHubs, establishing, initialized, disposed>>

\* checkEventHubs, called by submitTransaction: hubs that are down try again.
CheckEventHubs ==
    LET down == {h \in availableEventHubs : hub[h] = "down"}
    IN  /\ establishing[Factory] = "returned"
        /\ down # {}
        /\ hub' = [h \in Hubs |-> IF h \in down THEN "connecting" ELSE hub[h]]
        /\ UNCHANGED <<availableEventHubs, answered, establishing, initialized,
                       disposed, txVars>>

-----------------------------------------------------------------------------
(* Transactions and dispose                                                *)

\* Bug: the constructor accepts an empty list.
StartTxWithoutHubs(t) ==
    /\ establishing[Factory] = "returned"
    /\ tx[t] = "none"
    /\ \/ /\ Connected(availableEventHubs) # {}
          /\ tx' = [tx EXCEPT ![t] = "listening"]
          /\ registered' = [registered EXCEPT ![t] = Connected(availableEventHubs)]
          /\ UNCHANGED <<availableEventHubs, hub, establishing>>
       \/ /\ Connected(availableEventHubs) = {}
          /\ tx' = [tx EXCEPT ![t] = "reestablishing"]
          /\ Establish(t)
          /\ UNCHANGED registered
    /\ UNCHANGED <<answered, initialized, disposed>>

\* createTxEventHandler and startListening: without hubs the constructor
\* throws; with none connected the handler has the hubs established anew.
StartTx(t) ==
    /\ establishing[Factory] = "returned"
    /\ tx[t] = "none"
    /\ \/ /\ availableEventHubs = {}
          /\ tx' = [tx EXCEPT ![t] = "threw"]
          /\ UNCHANGED <<availableEventHubs, hub, establishing, registered>>
       \/ /\ Connected(availableEventHubs) # {}
          /\ tx' = [tx EXCEPT ![t] = "listening"]
          /\ registered' = [registered EXCEPT ![t] = Connected(availableEventHubs)]
          /\ UNCHANGED <<availableEventHubs, hub, establishing>>
       \/ /\ availableEventHubs # {}
          /\ Connected(availableEventHubs) = {}
          /\ tx' = [tx EXCEPT ![t] = "reestablishing"]
          /\ Establish(t)
          /\ UNCHANGED registered
    /\ UNCHANGED <<answered, initialized, disposed>>

\* The handler of t settles or is cancelled.
EndTx(t) ==
    /\ tx[t] = "listening"
    /\ tx' = [tx EXCEPT ![t] = "ended"]
    /\ registered' = [registered EXCEPT ![t] = {}]
    /\ UNCHANGED <<availableEventHubs, hub, answered, establishing, initialized, disposed>>

\* Bug: dispose only forgets the hubs.
DisposeWithoutDisconnect ==
    /\ ~disposed
    /\ establishing[Factory] # "no"
    /\ availableEventHubs' = {}
    /\ initialized' = FALSE
    /\ disposed' = TRUE
    /\ UNCHANGED <<hub, answered, establishing, txVars>>

\* dispose disconnects the hubs of the list and forgets them.
Dispose ==
    /\ ~disposed
    /\ establishing[Factory] # "no"
    /\ Lose(availableEventHubs)
    /\ availableEventHubs' = {}
    /\ initialized' = FALSE
    /\ disposed' = TRUE
    /\ UNCHANGED establishing

Next ==
    \/ Initialize
    \/ \E e \in Establishers : EstablishEnds(e)
    \/ \E h \in Hubs : HubConnects(h) \/ HubFails(h)
    \/ CheckEventHubs
    \/ \E t \in Txs : StartTx(t) \/ EndTx(t)
    \/ Dispose

\* Every attempt to connect a hub ends, and so does the await on all of them.
Spec ==
    /\ Init
    /\ [][Next]_vars
    /\ \A h \in Hubs : WF_vars(HubConnects(h) \/ HubFails(h))
    /\ \A e \in Establishers : WF_vars(EstablishEnds(e))

-----------------------------------------------------------------------------
(* Properties                                                              *)

\* An initialized factory has hubs, so that createTxEventHandler cannot fail
\* for want of them, however establishments and dispose overlap.
InitializedHasHubs == initialized => availableEventHubs # {}

\* A listening handler is registered on at least one hub and only on hubs that
\* are connected, though the list may have been replaced or disposed since.
ListenersAreConnected ==
    \A t \in Txs : /\ tx[t] = "listening" => registered[t] # {}
                   /\ registered[t] \subseteq Connected(Hubs)

\* The only open hubs the factory has lost sight of are those of an
\* establishment that a transaction's own has replaced.
Replaced(e) ==
    /\ establishing[e] # "no"
    /\ \E t \in Txs \ {e} : establishing[t] # "no"

OnlyReplacedHubsEscape ==
    \A h \in Open : h \in availableEventHubs \/ Replaced(h[1])

\* The list is empty or what one establishment made of it; hubs exist only by
\* establishments; transactions re-establish at most once, and only after the
\* factory is initialized.
Provenance ==
    /\ \/ availableEventHubs = {}
       \/ \E e \in Establishers :
             establishing[e] # "no" /\ availableEventHubs = HubsBy(e)
    /\ \A h \in Hubs : establishing[h[1]] = "no" => hub[h] = "none"
    /\ \A t \in Txs : tx[t] = "none" => establishing[t] = "no"
    /\ establishing[Factory] # "returned" => \A t \in Txs : tx[t] = "none"

\* The inductive invariant behind the safety properties.
IInv ==
    /\ TypeOK
    /\ Provenance
    /\ InitializedHasHubs
    /\ ListenersAreConnected
    /\ OnlyReplacedHubsEscape

\* After dispose nobody opens a new hub.
NothingOpensAfterDispose ==
    [][disposed => \A h \in Hubs : hub[h] = "none" => hub'[h] = "none"]_vars

\* Every establishment ends, even if it is replaced or disposed of meanwhile.
EstablishmentEnds ==
    \A e \in Establishers : establishing[e] = "waiting" ~> establishing[e] # "waiting"

\* "... and being able to disconnect them when required": once disposed, the
\* factory has left no hub open.
DisposedMeansClosed == disposed => Open = {}
=============================================================================
