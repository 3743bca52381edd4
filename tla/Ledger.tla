------------------------------- MODULE Ledger -------------------------------
(***************************************************************************)
(* Ledger (lib/ledger.js): the ledgers that calls of getLedger make, each  *)
(* named by its call.  Initialising one takes an await per peer it tries   *)
(* and one for the event hubs; the query handlers of lib/impl/query        *)
(* initialise without waiting.                                             *)
(***************************************************************************)
EXTENDS Naturals, FiniteSets

CONSTANTS
    Ledgers,       \* bound: ledgers made
    Channels,
    LedgerPeers,   \* per channel: its peers in the ledger query role
    Chaincodes,
    Orgs,
    None

ASSUME LedgerAssumption ==
    /\ LedgerPeers \in [Channels -> Nat]
    /\ None \notin Ledgers \cup Channels \cup Orgs

VARIABLES
    step,              \* how far _initialize got
    channel,
    ledgerPeerIndex,   \* the peer asked to initialise the channel, from 1
    factoryFor,        \* the organisation the event handler factory was made for
    queryHandlerFor,   \* ... and the query handler
    hubs,              \* the factory's event hubs were told to connect
    contracts          \* the chaincodes whose contract is cached

initVars   == <<step, channel, ledgerPeerIndex, factoryFor, queryHandlerFor, hubs>>
ledgerVars == <<initVars, contracts>>

InProgress(l) == step[l] \in {"channel", "hubs"}

\* Every variable has its type, and a channel is never initialised from a peer
\* past the last of its ledger peers.
LedgerTypeOK ==
    /\ step \in [Ledgers -> {"none", "channel", "hubs", "initialized",
                             "failed", "abandoned", "disposed"}]
    /\ channel \in [Ledgers -> Channels \cup {None}]
    /\ ledgerPeerIndex \in [Ledgers -> Nat]
    /\ \A l \in Ledgers : step[l] = "channel" =>
          channel[l] \in Channels /\ ledgerPeerIndex[l] \in 1..LedgerPeers[channel[l]]
    /\ factoryFor \in [Ledgers -> Orgs \cup {None}]
    /\ queryHandlerFor \in [Ledgers -> Orgs \cup {None}]
    /\ hubs \in [Ledgers -> BOOLEAN]
    /\ contracts \in [Ledgers -> SUBSET Chaincodes]

LedgerInit ==
    /\ step = [l \in Ledgers |-> "none"]
    /\ channel = [l \in Ledgers |-> None]
    /\ ledgerPeerIndex = [l \in Ledgers |-> 0]
    /\ factoryFor = [l \in Ledgers |-> None]
    /\ queryHandlerFor = [l \in Ledgers |-> None]
    /\ hubs = [l \in Ledgers |-> FALSE]
    /\ contracts = [l \in Ledgers |-> {}]

-----------------------------------------------------------------------------
(* _initialize, from one await to the next                                 *)

\* The constructor and _initialize up to its first await: without peers in the
\* ledger query role it throws at once.
New(l, ch) ==
    /\ step[l] = "none"
    /\ step' = [step EXCEPT ![l] = IF LedgerPeers[ch] = 0 THEN "failed" ELSE "channel"]
    /\ channel' = [channel EXCEPT ![l] = ch]
    /\ ledgerPeerIndex' = [ledgerPeerIndex EXCEPT ![l] = 1]
    /\ UNCHANGED <<factoryFor, queryHandlerFor, hubs, contracts>>

\* Bug: the search never gives up.
PeerRefusesEndlessly(l) ==
    /\ step[l] = "channel"
    /\ ledgerPeerIndex' = [ledgerPeerIndex EXCEPT
          ![l] = IF @ < LedgerPeers[channel[l]] THEN @ + 1 ELSE 1]
    /\ UNCHANGED <<step, channel, factoryFor, queryHandlerFor, hubs, contracts>>

\* Bug: the last peer is taken for one before the last.
PeerRefusesOffByOne(l) ==
    /\ step[l] = "channel"
    /\ IF ledgerPeerIndex[l] <= LedgerPeers[channel[l]]
       THEN /\ ledgerPeerIndex' = [ledgerPeerIndex EXCEPT ![l] = @ + 1]
            /\ UNCHANGED step
       ELSE /\ step' = [step EXCEPT ![l] = "failed"]
            /\ UNCHANGED ledgerPeerIndex
    /\ UNCHANGED <<channel, factoryFor, queryHandlerFor, hubs, contracts>>

\* channel.initialize rejects: the next peer is tried, until there is none.
PeerRefuses(l) ==
    /\ step[l] = "channel"
    /\ IF ledgerPeerIndex[l] < LedgerPeers[channel[l]]
       THEN /\ ledgerPeerIndex' = [ledgerPeerIndex EXCEPT ![l] = @ + 1]
            /\ UNCHANGED step
       ELSE /\ step' = [step EXCEPT ![l] = "failed"]
            /\ UNCHANGED ledgerPeerIndex
    /\ UNCHANGED <<channel, factoryFor, queryHandlerFor, hubs, contracts>>

\* Network._createQueryHandler for the organisation org of the identity, and the
\* end of _initialize: without an identity, or when the configured handler
\* cannot be made, it throws and leaves the hubs as they are.
CreateQueryHandler(l, org, works, thrown) ==
    IF org # None /\ works
    THEN /\ queryHandlerFor' = [queryHandlerFor EXCEPT ![l] = org]
         /\ step' = [step EXCEPT ![l] = "initialized"]
    ELSE /\ step' = [step EXCEPT ![l] = thrown]
         /\ UNCHANGED queryHandlerFor

\* _mapPeersToMSPid finds no peer with an organisation, there is no identity to
\* create the event handler factory for, or the factory knows no such strategy
\* or no peer of that organisation: none of them has opened a hub.
InitializeThrows(l) ==
    /\ step[l] = "channel"
    /\ step' = [step EXCEPT ![l] = "failed"]
    /\ UNCHANGED <<channel, ledgerPeerIndex, factoryFor, queryHandlerFor, hubs, contracts>>

\* channel.initialize resolves, and Network._createEventHandlerFactory has the
\* hubs connect.
ConnectHubs(l, org) ==
    /\ step[l] = "channel"
    /\ org # None
    /\ step' = [step EXCEPT ![l] = "hubs"]
    /\ factoryFor' = [factoryFor EXCEPT ![l] = org]
    /\ hubs' = [hubs EXCEPT ![l] = TRUE]
    /\ UNCHANGED <<channel, ledgerPeerIndex, queryHandlerFor, contracts>>

\* channel.initialize resolves, and no event handler factory is configured.
GoWithoutHubs(l, org, works) ==
    /\ step[l] = "channel"
    /\ CreateQueryHandler(l, org, works, "failed")
    /\ UNCHANGED <<channel, ledgerPeerIndex, factoryFor, hubs, contracts>>

\* Every hub has connected or failed.  If _initialize throws now, nobody is left
\* to dispose of the hubs.
HubsEstablished(l, org, works) ==
    /\ step[l] = "hubs"
    /\ CreateQueryHandler(l, org, works, "abandoned")
    /\ UNCHANGED <<channel, ledgerPeerIndex, factoryFor, hubs, contracts>>

-----------------------------------------------------------------------------

\* getContract, which does not look whether the ledger is initialised.
GetContract(l, cc) ==
    /\ contracts' = [contracts EXCEPT ![l] = @ \cup {cc}]
    /\ UNCHANGED initVars

\* _dispose of every ledger in S, with the factories' and the channels': a channel
\* is closed when its ledger is disposed of.
DisposeLedgers(S) ==
    /\ hubs' = [l \in Ledgers |-> hubs[l] /\ l \notin S]
    /\ contracts' = [l \in Ledgers |-> IF l \in S THEN {} ELSE contracts[l]]
    /\ step' = [l \in Ledgers |-> IF l \in S THEN "disposed" ELSE step[l]]
    /\ UNCHANGED <<channel, ledgerPeerIndex, factoryFor, queryHandlerFor>>
=============================================================================
