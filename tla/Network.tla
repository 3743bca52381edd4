------------------------------ MODULE Network -------------------------------
(***************************************************************************)
(* Network (lib/network.js) over the ledgers it makes: its options, its    *)
(* identity and its cache of ledgers.  getLedger and setIdentity look at   *)
(* the cache or the identity before an await and write it after; dispose   *)
(* may come in between, and so may a further initialize, which looks at    *)
(* nothing first.  An identity is told apart by its organisation.  The     *)
(* calls begin in any order, several at a time.                            *)
(***************************************************************************)
EXTENDS Ledger

CONSTANT IdentityCalls   \* bound: setUserContext calls of initialize and setIdentity

ASSUME NetworkAssumption == "ended" \notin Orgs

VARIABLES
    client,              \* loaded by initialize
    hasFactory,          \* an event handler factory is configured: eventHandlerFactoryClass
    queryHandlerWorks,   \* the configured query handler can be made
    currentIdentity,
    loading,             \* per identity call: the identity it is loading
    ledgers,             \* the cache
    contested,           \* history: identity calls made together with another, or by
                         \* an initialize that found an identity
    ledgersOverlapped,   \* history: ledgers made together with another of their channel
    disposed             \* history: dispose found no getLedger call in flight, and none
                         \* has begun since

optionVars   == <<client, hasFactory, queryHandlerWorks>>
identityVars == <<currentIdentity, loading, contested>>
cacheVars    == <<ledgers, ledgersOverlapped, disposed>>
vars         == <<ledgerVars, optionVars, identityVars, cacheVars>>

\* Every variable has its type.
TypeOK ==
    /\ LedgerTypeOK
    /\ client \in BOOLEAN
    /\ hasFactory \in BOOLEAN
    /\ queryHandlerWorks \in BOOLEAN
    /\ currentIdentity \in Orgs \cup {None}
    /\ loading \in [IdentityCalls -> Orgs \cup {None, "ended"}]
    /\ ledgers \in [Channels -> Ledgers \cup {None}]
    /\ contested \subseteq IdentityCalls
    /\ ledgersOverlapped \subseteq Ledgers
    /\ disposed \in BOOLEAN

Init ==
    /\ LedgerInit
    /\ client = FALSE
    /\ hasFactory = FALSE
    /\ queryHandlerWorks = FALSE
    /\ currentIdentity = None
    /\ loading = [s \in IdentityCalls |-> None]
    /\ ledgers = [ch \in Channels |-> None]
    /\ contested = {}
    /\ ledgersOverlapped = {}
    /\ disposed = FALSE

-----------------------------------------------------------------------------
(* initialize and the identity                                             *)

InFlight == {s \in IdentityCalls : loading[s] \in Orgs}

\* wallet.setUserContext begins, in place of another identity or not.
LoadIdentity(s, org, replaces) ==
    /\ loading[s] = None
    /\ loading' = [loading EXCEPT ![s] = org]
    /\ contested' = IF InFlight # {} \/ replaces THEN contested \cup InFlight \cup {s}
                    ELSE contested
    /\ UNCHANGED currentIdentity

\* initialize merges the options, requires the handlers they name, and loads the
\* client, unless one is given or something throws.  A factory once required stays
\* if later options name none.
Configure ==
    /\ hasFactory' \in {hasFactory, TRUE}
    /\ queryHandlerWorks' \in BOOLEAN
    /\ client' \in {client, TRUE}

\* initialize without an identity, or one that throws before it gets to it.
Initialize ==
    /\ Configure
    /\ UNCHANGED <<ledgerVars, identityVars, cacheVars>>

\* initialize with an identity, which replaces the one there is.
InitializeIdentity(s, org) ==
    /\ Configure
    /\ client'
    /\ LoadIdentity(s, org, currentIdentity # None)
    /\ UNCHANGED <<ledgerVars, cacheVars>>

\* Bug: the identity is not looked at first.
SetIdentityAgain(s, org) ==
    /\ client
    /\ LoadIdentity(s, org, FALSE)
    /\ UNCHANGED <<ledgerVars, optionVars, cacheVars>>

\* setIdentity, which throws when there is an identity already.
SetIdentity(s, org) ==
    /\ client
    /\ currentIdentity = None
    /\ LoadIdentity(s, org, FALSE)
    /\ UNCHANGED <<ledgerVars, optionVars, cacheVars>>

\* setUserContext returns the identity, or throws.
IdentityLoaded(s) ==
    /\ s \in InFlight
    /\ loading' = [loading EXCEPT ![s] = "ended"]
    /\ currentIdentity' \in {loading[s], currentIdentity}
    /\ UNCHANGED <<ledgerVars, optionVars, cacheVars, contested>>

-----------------------------------------------------------------------------
(* getLedger and dispose                                                   *)

Org == currentIdentity

Quiet == \A l \in Ledgers : ~InProgress(l)

Together(ch) == {l \in Ledgers : InProgress(l) /\ channel[l] = ch}

\* Bug: the cache is not looked at first.
GetLedgerAgain(l, ch) ==
    /\ client
    /\ New(l, ch)
    /\ disposed' = FALSE
    /\ ledgersOverlapped' = IF Together(ch) = {} THEN ledgersOverlapped
                            ELSE ledgersOverlapped \cup Together(ch) \cup {l}
    /\ UNCHANGED <<ledgers, optionVars, identityVars>>

\* getLedger for a channel without a ledger in the cache; another call only
\* returns the cached one.
GetLedger(l, ch) ==
    /\ client
    /\ ledgers[ch] = None
    /\ New(l, ch)
    /\ disposed' = FALSE
    /\ ledgersOverlapped' = IF Together(ch) = {} THEN ledgersOverlapped
                            ELSE ledgersOverlapped \cup Together(ch) \cup {l}
    /\ UNCHANGED <<ledgers, optionVars, identityVars>>

\* An await of _initialize ends; getLedger caches a ledger that is initialised.
Initializes(l) ==
    /\ \/ hasFactory /\ ConnectHubs(l, Org)
       \/ ~hasFactory /\ GoWithoutHubs(l, Org, queryHandlerWorks)
       \/ HubsEstablished(l, Org, queryHandlerWorks)
       \/ InitializeThrows(l)
       \/ PeerRefuses(l)
    /\ ledgers' = IF step'[l] = "initialized"
                  THEN [ledgers EXCEPT ![channel[l]] = l] ELSE ledgers
    /\ UNCHANGED <<optionVars, identityVars, ledgersOverlapped, disposed>>

\* A client asks a ledger it was given for a contract.
AskContract(l, cc) ==
    /\ step[l] \in {"initialized", "disposed"} \/ \E ch \in Channels : ledgers[ch] = l
    /\ GetContract(l, cc)
    /\ UNCHANGED <<optionVars, identityVars, cacheVars>>

\* Bug: the cache is not cleared.
DisposeKeepsCache ==
    /\ DisposeLedgers({ledgers[ch] : ch \in Channels} \ {None})
    /\ disposed' = Quiet
    /\ UNCHANGED <<ledgers, optionVars, identityVars, ledgersOverlapped>>

\* Bug: a ledger's handlers are forgotten and not disposed.
DisposeForgets ==
    /\ ledgers' = [ch \in Channels |-> None]
    /\ disposed' = Quiet
    /\ UNCHANGED <<ledgerVars, optionVars, identityVars, ledgersOverlapped>>

\* dispose reaches the ledgers of the cache.
Dispose ==
    /\ DisposeLedgers({ledgers[ch] : ch \in Channels} \ {None})
    /\ ledgers' = [ch \in Channels |-> None]
    /\ disposed' = Quiet
    /\ UNCHANGED <<optionVars, identityVars, ledgersOverlapped>>

Next ==
    \/ Initialize
    \/ \E s \in IdentityCalls :
          \/ \E org \in Orgs : InitializeIdentity(s, org) \/ SetIdentity(s, org)
          \/ IdentityLoaded(s)
    \/ \E l \in Ledgers :
          \/ \E ch \in Channels : GetLedger(l, ch)
          \/ Initializes(l)
          \/ \E cc \in Chaincodes : AskContract(l, cc)
    \/ Dispose

\* The SDK answers every request and ends every attempt to connect a hub.
Spec == Init /\ [][Next]_vars /\ \A l \in Ledgers : WF_vars(Initializes(l))

-----------------------------------------------------------------------------
(* Properties                                                              *)

\* A client only meets ledgers that were initialised: what is cached has a query
\* handler and, if it has a factory, hubs, and is not disposed; no contract was
\* made, and then cached, without its handlers, and none has a factory that the
\* options never named.
HandedOutIsInitialized ==
    /\ \A ch \in Channels : ledgers[ch] # None =>
          /\ step[ledgers[ch]] = "initialized"
          /\ channel[ledgers[ch]] = ch
          /\ hubs[ledgers[ch]] = (factoryFor[ledgers[ch]] # None)
    /\ \A l \in Ledgers :
          /\ contracts[l] # {} => queryHandlerFor[l] # None
          /\ factoryFor[l] # None => hasFactory

\* Only what is cached can be disposed of.  A ledger in use is cached unless its
\* getLedger call overlapped another one for the same channel, and one that
\* failed leaves no hubs behind, unless it failed after they were opened.
OpenHubsAreReachable ==
    \A l \in Ledgers :
        /\ step[l] = "initialized" => ledgers[channel[l]] = l \/ l \in ledgersOverlapped
        /\ step[l] \in {"none", "failed", "disposed"} => ~hubs[l]

\* The two handlers of a ledger, made on either side of an await, are for the
\* same organisation, that of the current identity, unless identities were
\* loaded together or initialize has set a second one.
OneOrgPerLedger ==
    contested = {} =>
        \A l \in Ledgers :
            /\ factoryFor[l] \in {None, currentIdentity}
            /\ queryHandlerFor[l] \in {None, currentIdentity}

\* "you can only set it once": an identity, once set, is replaced by nothing but a
\* call that overlapped another while there was none, or by a second initialize,
\* which makes no such check.
IdentityStaysAlone ==
    [][currentIdentity # None /\ currentIdentity' # currentIdentity
          => \E s \in contested : s \in InFlight /\ currentIdentity' = loading[s]]_vars

\* What a ledger has at each step of its initialisation.
StepMeans(l) ==
    /\ step[l] # "none" => channel[l] \in Channels
    /\ step[l] \in {"none", "channel"} => factoryFor[l] = None /\ ~hubs[l]
    /\ step[l] \in {"none", "channel", "hubs"} => queryHandlerFor[l] = None
    /\ step[l] = "hubs" => hubs[l] /\ factoryFor[l] # None
    /\ factoryFor[l] # None => currentIdentity # None
    /\ queryHandlerFor[l] # None => currentIdentity # None
    /\ step[l] = "initialized" => hubs[l] = (factoryFor[l] # None)
    /\ step[l] \in {"initialized", "disposed"} => queryHandlerFor[l] # None

\* A ledger in progress has overlapped every other of its channel, in progress
\* or cached.
Overlaps ==
    \A l, m \in Ledgers :
        /\ InProgress(l) /\ l # m /\ channel[l] = channel[m]
        /\ InProgress(m) \/ ledgers[channel[m]] = m
        => l \in ledgersOverlapped /\ m \in ledgersOverlapped

\* An identity call that is not contested is alone, and finds none when it ends;
\* there is none before initialize.
OneLoading ==
    /\ ~client => currentIdentity = None /\ InFlight = {}
    /\ \A s \in InFlight \ contested : InFlight = {s} /\ currentIdentity = None

\* The inductive invariant behind the safety properties.
IInv ==
    /\ TypeOK
    /\ \A l \in Ledgers : StepMeans(l)
    /\ Overlaps
    /\ OneLoading
    /\ HandedOutIsInitialized
    /\ OpenHubsAreReachable
    /\ OneOrgPerLedger

\* Its extension to clients whose calls do not overlap: what is discarded is over.
AloneInv ==
    /\ IInv
    /\ ledgersOverlapped = {}
    /\ disposed => Quiet /\ \A l \in Ledgers : step[l] # "initialized"

\* Every getLedger call ends, whatever peers refuse and whoever disposes.
GetLedgerEnds == \A l \in Ledgers : InProgress(l) ~> ~InProgress(l)

\* "clean up this network in prep for it to be discarded and garbage collected":
\* after a dispose that no getLedger call overlaps or follows, no ledger is in
\* use.
DisposedMeansDiscarded ==
    disposed => \A l \in Ledgers : step[l] # "initialized"

-----------------------------------------------------------------------------
(* What a network implements as long as getLedger calls do not overlap     *)

Asked == {ch \in Channels : Together(ch) # {}}

InUse(ch) == {l \in Ledgers : step[l] = "initialized" /\ channel[l] = ch}

Cache == INSTANCE LedgerCache WITH
    asked <- Asked,
    inUse <- [ch \in Channels |-> InUse(ch)],
    ended <- {l \in Ledgers : step[l] = "disposed"}

\* As long as no two getLedger calls for one channel overlap, a channel gets one
\* ledger at most and dispose ends it, for good: the look-up before the awaits,
\* the set after them, failover and dispose together implement that.
ImplementsCache ==
    Cache!Init /\ [][ledgersOverlapped' = {} => Cache!Next]_(Cache!vars)
=============================================================================
