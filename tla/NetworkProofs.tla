--------------------------- MODULE NetworkProofs ----------------------------
(***************************************************************************)
(* Proofs about Network and its ledgers, for any number of channels, peers,*)
(* identities and calls: IInv is inductive, and the safety properties      *)
(* follow.  As long as no two getLedger calls for one channel overlapped,  *)
(* AloneInv holds too, and a network implements LedgerCache.               *)
(***************************************************************************)
EXTENDS Network, TLAPS

LEMMA IInvInit == Init => IInv
<1> SUFFICES ASSUME Init PROVE IInv
  OBVIOUS
<1> USE DEF Init, LedgerInit
<1>1. TypeOK
  BY DEF TypeOK, LedgerTypeOK
<1>2. \A l \in Ledgers : StepMeans(l)
  BY DEF StepMeans
<1>3. Overlaps
  BY DEF Overlaps, InProgress
<1>4. OneLoading
  BY LedgerAssumption DEF OneLoading, InFlight
<1>5. HandedOutIsInitialized /\ OpenHubsAreReachable /\ OneOrgPerLedger
  BY DEF HandedOutIsInitialized, OpenHubsAreReachable, OneOrgPerLedger
<1> QED
  BY <1>1, <1>2, <1>3, <1>4, <1>5 DEF IInv

\* Steps that leave the ledgers and the cache alone and only begin or end a
\* loading keep what is said of ledgers, as long as a factory class and an identity
\* are not unset and the identity, unless contested, is not replaced.
LEMMA LedgersKeep ==
    ASSUME IInv, UNCHANGED <<ledgerVars, cacheVars>>, TypeOK', OneLoading',
           hasFactory => hasFactory',
           currentIdentity # None => currentIdentity' # None,
           contested \subseteq contested',
           contested = {} /\ currentIdentity # None => currentIdentity' = currentIdentity
    PROVE  IInv'
<1> USE DEF IInv, ledgerVars, initVars, cacheVars
<1>1. \A l \in Ledgers : StepMeans(l)'
  BY DEF StepMeans
<1>2. Overlaps'
  BY DEF Overlaps, InProgress
<1>3. HandedOutIsInitialized' /\ OpenHubsAreReachable'
  BY DEF HandedOutIsInitialized, OpenHubsAreReachable
<1>4. OneOrgPerLedger'
  BY DEF OneOrgPerLedger, StepMeans
<1> QED
  BY <1>1, <1>2, <1>3, <1>4

LEMMA LoadIdentityKeeps ==
    ASSUME IInv, NEW s \in IdentityCalls, NEW org \in Orgs, NEW replaces \in BOOLEAN,
           LoadIdentity(s, org, replaces), currentIdentity # None => replaces,
           client', Configure, UNCHANGED <<ledgerVars, cacheVars>>
    PROVE  IInv'
<1>1. /\ loading' = [loading EXCEPT ![s] = org] /\ currentIdentity' = currentIdentity
      /\ contested' = IF InFlight # {} \/ replaces THEN contested \cup InFlight \cup {s}
                      ELSE contested
  BY DEF LoadIdentity
<1>2. InFlight \subseteq IdentityCalls
  BY DEF InFlight
<1>3. TypeOK'
  BY <1>1, <1>2 DEF Configure, IInv, TypeOK, LedgerTypeOK, ledgerVars, initVars, cacheVars
<1>4. InFlight' = InFlight \cup {s}
  BY <1>1 DEF InFlight, IInv, TypeOK
<1>5. OneLoading'
  <2> SUFFICES ASSUME NEW t \in InFlight' \ contested'
               PROVE  InFlight' = {t} /\ currentIdentity' = None
    BY DEF OneLoading
  <2>1. InFlight = {} /\ ~replaces
    BY <1>1, <1>4
  <2> QED
    BY <1>1, <1>4, <2>1
<1>6. contested \subseteq contested'
  BY <1>1
<1>7. hasFactory => hasFactory'
  BY DEF Configure
<1> QED
  BY <1>1, <1>3, <1>5, <1>6, <1>7, LedgersKeep

LEMMA IdentityLoadedKeeps ==
    ASSUME IInv, NEW s \in IdentityCalls, IdentityLoaded(s)
    PROVE  IInv'
<1> USE DEF IdentityLoaded, InFlight
<1>1. TypeOK'
  BY DEF IInv, TypeOK, LedgerTypeOK, ledgerVars, initVars, cacheVars, optionVars
<1>2. InFlight' \subseteq InFlight \ {s}
  BY NetworkAssumption DEF IInv, TypeOK
<1>3. OneLoading'
  <2> SUFFICES ASSUME NEW t \in InFlight' \ contested PROVE FALSE
    BY DEF IInv, OneLoading, optionVars
  <2>1. t \in InFlight \ contested /\ t # s
    BY <1>2
  <2>2. InFlight = {t} /\ s \in InFlight
    BY <2>1 DEF IInv, OneLoading
  <2> QED
    BY <2>1, <2>2
<1>4. contested = {} /\ currentIdentity # None => currentIdentity' = currentIdentity
  BY DEF IInv, OneLoading
<1>5. currentIdentity # None => currentIdentity' # None
  BY LedgerAssumption
<1> QED
  BY <1>1, <1>3, <1>4, <1>5, LedgersKeep DEF optionVars

LEMMA GetLedgerKeeps ==
    ASSUME IInv, NEW l \in Ledgers, NEW ch \in Channels, GetLedger(l, ch)
    PROVE  IInv'
<1> USE DEF GetLedger, New, optionVars, identityVars
<1>1. TypeOK'
  <2>1. LedgerTypeOK /\ LedgerPeers[ch] \in Nat
    BY LedgerAssumption DEF IInv, TypeOK
  <2>2. LedgerTypeOK'
    <3>1. \A m \in Ledgers : step'[m] = "channel" =>
             channel'[m] \in Channels /\ ledgerPeerIndex'[m] \in 1..LedgerPeers[channel'[m]]
      BY <2>1 DEF LedgerTypeOK
    <3> QED
      BY <2>1, <3>1 DEF LedgerTypeOK
  <2>3. ledgersOverlapped' \subseteq Ledgers /\ disposed' \in BOOLEAN
    BY DEF IInv, TypeOK, Together
  <2> QED
    BY <2>2, <2>3 DEF IInv, TypeOK
<1>2. /\ \A m \in Ledgers \ {l} : step'[m] = step[m] /\ channel'[m] = channel[m]
      /\ channel'[l] = ch /\ step'[l] \in {"failed", "channel"} /\ step[l] = "none"
  BY DEF IInv, TypeOK, LedgerTypeOK
<1>3. \A m \in Ledgers : StepMeans(m)'
  BY <1>2 DEF IInv, StepMeans
<1>4. \A c \in Channels : ledgers[c] # l
  BY <1>2, LedgerAssumption DEF IInv, HandedOutIsInitialized, TypeOK
<1>5. Overlaps'
  <2> SUFFICES ASSUME NEW k \in Ledgers, NEW m \in Ledgers,
                      InProgress(k)', k # m, channel'[k] = channel'[m],
                      InProgress(m)' \/ ledgers'[channel'[m]] = m
               PROVE  k \in ledgersOverlapped' /\ m \in ledgersOverlapped'
    BY DEF Overlaps
  <2>1. CASE k # l /\ m # l
    BY <1>2, <2>1 DEF IInv, Overlaps, InProgress
  <2>2. CASE k = l
    BY <1>2, <2>2, LedgerAssumption DEF InProgress, Together
  <2>3. CASE m = l
    <3>1. ledgers[channel'[m]] # m
      BY <1>2, <1>4, <2>3
    <3> QED
      BY <1>2, <2>3, <3>1 DEF InProgress, Together
  <2> QED
    BY <2>1, <2>2, <2>3
<1>6. HandedOutIsInitialized'
  BY <1>2, <1>4 DEF IInv, HandedOutIsInitialized, TypeOK
<1>7. OpenHubsAreReachable'
  BY <1>2, <1>4 DEF IInv, OpenHubsAreReachable, StepMeans
<1>8. OneOrgPerLedger' /\ OneLoading'
  BY DEF IInv, OneOrgPerLedger, OneLoading, InFlight, optionVars
<1> QED
  BY <1>1, <1>3, <1>5, <1>6, <1>7, <1>8 DEF IInv

LEMMA AskContractKeeps ==
    ASSUME IInv, NEW l \in Ledgers, NEW cc \in Chaincodes, AskContract(l, cc)
    PROVE  IInv'
<1> USE DEF AskContract, GetContract, initVars, optionVars, identityVars, cacheVars
<1>1. TypeOK'
  BY DEF IInv, TypeOK, LedgerTypeOK
<1>2. (\A m \in Ledgers : StepMeans(m)') /\ Overlaps' /\ OneLoading'
  BY DEF IInv, StepMeans, Overlaps, InProgress, OneLoading, InFlight
<1>3. step[l] \in {"initialized", "disposed"}
  BY LedgerAssumption DEF IInv, HandedOutIsInitialized
<1>4. HandedOutIsInitialized'
  BY <1>3 DEF IInv, HandedOutIsInitialized, StepMeans, TypeOK, LedgerTypeOK
<1>5. OpenHubsAreReachable' /\ OneOrgPerLedger'
  BY DEF IInv, OpenHubsAreReachable, OneOrgPerLedger
<1> QED
  BY <1>1, <1>2, <1>4, <1>5 DEF IInv

LEMMA DisposeKeeps ==
    ASSUME IInv, Dispose
    PROVE  IInv'
<1> DEFINE S == {ledgers[ch] : ch \in Channels} \ {None}
<1>1. /\ DisposeLedgers(S)
      /\ ledgers' = [ch \in Channels |-> None]
      /\ UNCHANGED <<optionVars, identityVars, ledgersOverlapped>>
      /\ disposed' \in BOOLEAN
  BY DEF Dispose, Quiet
<1>2. \A l \in S : /\ l \in Ledgers
                   /\ step[l] = "initialized"
                   /\ channel[l] \in Channels /\ ledgers[channel[l]] = l
  BY DEF IInv, HandedOutIsInitialized, TypeOK
<1>3. TypeOK'
  BY <1>1, <1>2 DEF IInv, TypeOK, LedgerTypeOK, DisposeLedgers, optionVars, identityVars
<1> HIDE DEF S
<1>4. \A l \in Ledgers : StepMeans(l)'
  <2> SUFFICES ASSUME NEW l \in Ledgers PROVE StepMeans(l)'
    OBVIOUS
  <2>1. StepMeans(l)
    BY DEF IInv
  <2>2. CASE l \in S
    <3>1. step[l] = "initialized" /\ step'[l] = "disposed" /\ ~hubs'[l]
      BY <1>1, <1>2, <2>2 DEF DisposeLedgers
    <3> QED
      BY <1>1, <2>1, <3>1 DEF StepMeans, DisposeLedgers, optionVars, identityVars
  <2>3. CASE l \notin S
    <3>1. step'[l] = step[l] /\ hubs'[l] = hubs[l]
      BY <1>1, <2>3, <1>3 DEF DisposeLedgers, TypeOK, LedgerTypeOK, IInv
    <3> QED
      BY <1>1, <2>1, <3>1 DEF StepMeans, DisposeLedgers, optionVars, identityVars
  <2> QED
    BY <2>2, <2>3
<1>5. Overlaps'
  BY <1>1, <1>2, LedgerAssumption DEF IInv, Overlaps, InProgress, DisposeLedgers, StepMeans
<1>6. HandedOutIsInitialized'
  BY <1>1 DEF IInv, HandedOutIsInitialized, DisposeLedgers, optionVars
<1>7. OpenHubsAreReachable'
  <2>1. \A l \in Ledgers : step[l] = "initialized" /\ l \notin S => l \in ledgersOverlapped
    <3> SUFFICES ASSUME NEW l \in Ledgers, step[l] = "initialized", l \notin ledgersOverlapped
                 PROVE  l \in S
      OBVIOUS
    <3>1. ledgers[channel[l]] = l /\ channel[l] \in Channels
      BY DEF IInv, OpenHubsAreReachable, StepMeans
    <3> QED
      BY <3>1, LedgerAssumption DEF S
  <2> QED
    BY <1>1, <2>1 DEF IInv, OpenHubsAreReachable, DisposeLedgers, optionVars
<1>8. OneOrgPerLedger' /\ OneLoading'
  BY <1>1 DEF IInv, OneOrgPerLedger, OneLoading, InFlight, DisposeLedgers, identityVars, optionVars
<1> QED
  BY <1>3, <1>4, <1>5, <1>6, <1>7, <1>8 DEF IInv

\* A call that stays in its initialisation or fails changes no other ledger and
\* not the cache.
LEMMA GoesOnOrFails ==
    ASSUME IInv, NEW l \in Ledgers, InProgress(l), TypeOK', StepMeans(l)',
           \A m \in Ledgers \ {l} : step'[m] = step[m] /\ factoryFor'[m] = factoryFor[m]
                                      /\ hubs'[m] = hubs[m],
           step'[l] \in {"channel", "hubs", "failed", "abandoned"},
           step'[l] = "failed" => ~hubs'[l],
           factoryFor'[l] = factoryFor[l] \/ (hasFactory /\ factoryFor'[l] = currentIdentity),
           UNCHANGED <<channel, queryHandlerFor, contracts, cacheVars, optionVars, identityVars>>
    PROVE  IInv'
<1> USE DEF optionVars, identityVars, cacheVars
<1>1. \A m \in Ledgers : StepMeans(m)'
  BY DEF IInv, StepMeans
<1>2. \A c \in Channels : ledgers[c] # l
  BY LedgerAssumption DEF IInv, HandedOutIsInitialized, InProgress
<1>3. Overlaps'
  BY DEF IInv, Overlaps, InProgress
<1>4. contracts[l] = {}
  BY DEF IInv, HandedOutIsInitialized, InProgress, StepMeans
<1>5. HandedOutIsInitialized'
  BY <1>2, <1>4 DEF IInv, HandedOutIsInitialized, TypeOK
<1>6. OpenHubsAreReachable'
  BY DEF IInv, OpenHubsAreReachable
<1>7. OneOrgPerLedger' /\ OneLoading'
  BY DEF IInv, OneOrgPerLedger, OneLoading, InFlight, optionVars
<1> QED
  BY <1>1, <1>3, <1>5, <1>6, <1>7 DEF IInv

\* ... in particular when it opens no hubs.
LEMMA HubsStay ==
    ASSUME IInv, NEW l \in Ledgers, InProgress(l), TypeOK', StepMeans(l)',
           \A m \in Ledgers \ {l} : step'[m] = step[m],
           step'[l] \in {"channel", "failed", "abandoned"},
           step'[l] = "failed" => ~hubs[l],
           UNCHANGED <<channel, factoryFor, queryHandlerFor, hubs, contracts,
                       ledgers, ledgersOverlapped, disposed, optionVars, identityVars>>
    PROVE  IInv'
<1>1. \A m \in Ledgers \ {l} : step'[m] = step[m] /\ factoryFor'[m] = factoryFor[m]
                                  /\ hubs'[m] = hubs[m]
  OBVIOUS
<1>2. hubs' = hubs /\ factoryFor' = factoryFor
  OBVIOUS
<1>3. step'[l] = "failed" => ~hubs'[l]
  BY <1>2
<1>4. UNCHANGED <<channel, queryHandlerFor, contracts, cacheVars, optionVars, identityVars>>
  BY DEF cacheVars
<1>5. /\ step'[l] \in {"channel", "hubs", "failed", "abandoned"}
      /\ factoryFor'[l] = factoryFor[l] \/ (hasFactory /\ factoryFor'[l] = currentIdentity)
  BY <1>2
<1> QED
  BY <1>1, <1>3, <1>4, <1>5, GoesOnOrFails

\* The query handler is made and the ledger is cached.
LEMMA Caches ==
    ASSUME IInv, NEW l \in Ledgers, InProgress(l), currentIdentity # None,
           step' = [step EXCEPT ![l] = "initialized"],
           queryHandlerFor' = [queryHandlerFor EXCEPT ![l] = currentIdentity],
           ledgers' = [ledgers EXCEPT ![channel[l]] = l],
           UNCHANGED <<channel, ledgerPeerIndex, factoryFor, hubs, contracts,
                       optionVars, identityVars, ledgersOverlapped, disposed>>
    PROVE  IInv'
<1> USE DEF optionVars, identityVars
<1>1. TypeOK'
  BY DEF IInv, TypeOK, LedgerTypeOK
<1>2. /\ channel[l] \in Channels
      /\ hubs[l] = (factoryFor[l] # None)
      /\ step[l] # "initialized" /\ contracts[l] = {}
  <2>1. StepMeans(l) /\ step[l] \in {"channel", "hubs"} /\ TypeOK /\ HandedOutIsInitialized
    BY DEF IInv, InProgress
  <2>2. hubs[l] = (factoryFor[l] # None)
    BY <2>1 DEF StepMeans, TypeOK, LedgerTypeOK
  <2>3. contracts[l] = {}
    BY <2>1 DEF StepMeans, HandedOutIsInitialized
  <2> QED
    BY <2>1, <2>2, <2>3 DEF StepMeans
<1>3. /\ \A m \in Ledgers : step'[m] = IF m = l THEN "initialized" ELSE step[m]
      /\ \A m \in Ledgers : queryHandlerFor'[m] =
             IF m = l THEN currentIdentity ELSE queryHandlerFor[m]
      /\ \A c \in Channels : ledgers'[c] = IF c = channel[l] THEN l ELSE ledgers[c]
  BY DEF IInv, TypeOK, LedgerTypeOK
<1>4. \A m \in Ledgers : StepMeans(m)'
  <2> SUFFICES ASSUME NEW m \in Ledgers PROVE StepMeans(m)'
    OBVIOUS
  <2>1. CASE m = l
    BY <1>2, <1>3, <2>1 DEF IInv, StepMeans
  <2>2. CASE m # l
    BY <1>3, <2>2 DEF IInv, StepMeans
  <2> QED
    BY <2>1, <2>2
<1>5. Overlaps'
  <2> SUFFICES ASSUME NEW k \in Ledgers, NEW m \in Ledgers,
                      InProgress(k)', k # m, channel[k] = channel[m],
                      InProgress(m)' \/ ledgers'[channel[m]] = m
               PROVE  k \in ledgersOverlapped /\ m \in ledgersOverlapped
    BY DEF Overlaps
  <2>1. InProgress(k) /\ k # l /\ channel[k] \in Channels
    BY <1>3 DEF InProgress, IInv, StepMeans
  <2>2. InProgress(m) \/ ledgers[channel[m]] = m
    BY <1>3, <2>1 DEF InProgress
  <2> QED
    BY <2>1, <2>2 DEF IInv, Overlaps
<1>6. HandedOutIsInitialized'
  BY <1>2, <1>3 DEF IInv, HandedOutIsInitialized, TypeOK
<1>7. OpenHubsAreReachable'
  <2> SUFFICES ASSUME NEW m \in Ledgers, m # l, step[m] = "initialized"
               PROVE  ledgers'[channel[m]] = m \/ m \in ledgersOverlapped
    BY <1>2, <1>3 DEF IInv, OpenHubsAreReachable
  <2>1. channel[m] \in Channels /\ (ledgers[channel[m]] = m \/ m \in ledgersOverlapped)
    BY DEF IInv, OpenHubsAreReachable, StepMeans
  <2>2. CASE channel[m] = channel[l]
    BY <2>1, <2>2 DEF IInv, Overlaps
  <2> QED
    BY <1>3, <2>1, <2>2
<1>8. OneOrgPerLedger' /\ OneLoading'
  BY <1>3 DEF IInv, OneOrgPerLedger, OneLoading, InFlight, optionVars
<1> QED
  BY <1>1, <1>4, <1>5, <1>6, <1>7, <1>8 DEF IInv

LEMMA InitializesKeeps ==
    ASSUME IInv, NEW l \in Ledgers, Initializes(l)
    PROVE  IInv'
<1> USE DEF optionVars, identityVars, cacheVars
<1>1. UNCHANGED <<channel, contracts, optionVars, identityVars, ledgersOverlapped, disposed>>
  BY DEF Initializes, ConnectHubs, GoWithoutHubs, HubsEstablished, InitializeThrows, PeerRefuses
<1>2. ledgers' = IF step'[l] = "initialized" THEN [ledgers EXCEPT ![channel[l]] = l] ELSE ledgers
  BY DEF Initializes
<1>3. StepMeans(l) /\ TypeOK
  BY DEF IInv
<1>4. CASE InitializeThrows(l)
  <2>1. TypeOK'
    BY <1>1, <1>2, <1>3, <1>4 DEF InitializeThrows, TypeOK, LedgerTypeOK
  <2>2. StepMeans(l)' /\ InProgress(l)
    BY <1>1, <1>3, <1>4 DEF InitializeThrows, StepMeans, InProgress, TypeOK, LedgerTypeOK
  <2>3. /\ \A m \in Ledgers \ {l} : step'[m] = step[m]
        /\ step'[l] = "failed" /\ ~hubs[l]
        /\ UNCHANGED <<factoryFor, queryHandlerFor, hubs, ledgers>>
    BY <1>2, <1>3, <1>4 DEF InitializeThrows, StepMeans, TypeOK, LedgerTypeOK
  <2> QED
    BY <1>1, <2>1, <2>2, <2>3, HubsStay
<1>5. CASE PeerRefuses(l)
  <2>1. channel[l] \in Channels /\ LedgerPeers[channel[l]] \in Nat /\ ledgerPeerIndex[l] \in Nat
    BY <1>3, <1>5, LedgerAssumption DEF PeerRefuses, StepMeans, TypeOK, LedgerTypeOK
  <2>2. TypeOK'
    BY <1>1, <1>2, <1>3, <1>5, <2>1 DEF PeerRefuses, TypeOK, LedgerTypeOK
  <2>3. StepMeans(l)' /\ InProgress(l)
    BY <1>1, <1>3, <1>5 DEF PeerRefuses, StepMeans, InProgress, TypeOK, LedgerTypeOK
  <2>4. /\ \A m \in Ledgers \ {l} : step'[m] = step[m]
        /\ step'[l] \in {"channel", "failed"} /\ ~hubs[l]
        /\ UNCHANGED <<factoryFor, queryHandlerFor, hubs, ledgers>>
    BY <1>2, <1>3, <1>5 DEF PeerRefuses, StepMeans, TypeOK, LedgerTypeOK
  <2> QED
    BY <1>1, <2>2, <2>3, <2>4, HubsStay
<1>6. CASE hasFactory /\ ConnectHubs(l, Org)
  <2>1. TypeOK'
    BY <1>1, <1>2, <1>3, <1>6 DEF ConnectHubs, Org, TypeOK, LedgerTypeOK
  <2>2. StepMeans(l)' /\ InProgress(l)
    BY <1>1, <1>3, <1>6 DEF ConnectHubs, Org, StepMeans, InProgress, TypeOK, LedgerTypeOK
  <2> QED
    BY <1>1, <1>2, <1>3, <1>6, <2>1, <2>2, GoesOnOrFails
       DEF ConnectHubs, Org, TypeOK, LedgerTypeOK
<1>7. ASSUME NEW thrown \in {"failed", "abandoned"}, InProgress(l),
             CreateQueryHandler(l, Org, queryHandlerWorks, thrown),
             thrown = "failed" => ~hubs[l],
             UNCHANGED <<ledgerPeerIndex, factoryFor, hubs>>
      PROVE  IInv'
  <2>1. CASE Org # None /\ queryHandlerWorks
    <3>1. step' = [step EXCEPT ![l] = "initialized"] /\ step'[l] = "initialized"
      BY <1>3, <1>7, <2>1 DEF CreateQueryHandler, TypeOK, LedgerTypeOK
    <3> QED
      BY <1>1, <1>2, <1>7, <2>1, <3>1, Caches DEF CreateQueryHandler, Org
  <2>2. CASE ~(Org # None /\ queryHandlerWorks)
    <3>1. /\ step' = [step EXCEPT ![l] = thrown]
          /\ queryHandlerFor' = queryHandlerFor /\ step'[l] = thrown
      BY <1>3, <1>7, <2>2 DEF CreateQueryHandler, TypeOK, LedgerTypeOK
    <3>2. TypeOK'
      BY <1>1, <1>2, <1>3, <1>7, <3>1 DEF TypeOK, LedgerTypeOK
    <3>3. StepMeans(l)'
      BY <1>1, <1>3, <1>7, <3>1 DEF StepMeans, InProgress
    <3>4. /\ \A m \in Ledgers \ {l} : step'[m] = step[m]
          /\ step'[l] \in {"failed", "abandoned"} /\ (step'[l] = "failed" => ~hubs[l])
          /\ UNCHANGED <<factoryFor, queryHandlerFor, hubs, ledgers>>
      BY <1>2, <1>3, <1>7, <3>1 DEF TypeOK, LedgerTypeOK
    <3> QED
      BY <1>1, <1>7, <3>2, <3>3, <3>4, HubsStay
  <2> QED
    BY <2>1, <2>2
<1>8. CASE ~hasFactory /\ GoWithoutHubs(l, Org, queryHandlerWorks)
  BY <1>3, <1>7, <1>8 DEF GoWithoutHubs, InProgress, StepMeans
<1>9. CASE HubsEstablished(l, Org, queryHandlerWorks)
  BY <1>7, <1>9 DEF HubsEstablished, InProgress
<1> QED
  BY <1>4, <1>5, <1>6, <1>8, <1>9 DEF Initializes

\* No step breaks IInv.
LEMMA IInvNext == IInv /\ [Next]_vars => IInv'
<1> SUFFICES ASSUME IInv, [Next]_vars PROVE IInv'
  OBVIOUS
<1>1. CASE Initialize
  <2>1. TypeOK' /\ OneLoading'
    <3>1. TypeOK'
      BY <1>1 DEF IInv, Initialize, Configure, TypeOK, LedgerTypeOK,
                  ledgerVars, initVars, identityVars, cacheVars
    <3>2. OneLoading'
      <4>0. UNCHANGED <<currentIdentity, loading, contested>> /\ client' \in {client, TRUE}
        BY <1>1 DEF Initialize, Configure, identityVars
      <4>1. client => client'
        BY <4>0
      <4>2. InFlight' = InFlight
        BY <4>0 DEF InFlight
      <4> QED
        BY <4>0, <4>1, <4>2 DEF IInv, OneLoading
    <3> QED
      BY <3>1, <3>2
  <2>2. hasFactory => hasFactory'
    BY <1>1 DEF Initialize, Configure
  <2> QED
    BY <1>1, <2>1, <2>2, LedgersKeep DEF Initialize, identityVars
<1>2. ASSUME NEW s \in IdentityCalls, NEW org \in Orgs,
             InitializeIdentity(s, org) \/ SetIdentity(s, org)
      PROVE  IInv'
  <2>1. CASE InitializeIdentity(s, org)
    BY <2>1, LoadIdentityKeeps DEF InitializeIdentity
  <2>2. CASE SetIdentity(s, org)
    <3>1. client' /\ Configure
      BY <2>2 DEF SetIdentity, Configure, optionVars, IInv, TypeOK
    <3> QED
      BY <2>2, <3>1, LoadIdentityKeeps DEF SetIdentity
  <2> QED
    BY <1>2, <2>1, <2>2
<1>3. CASE UNCHANGED vars
  <2>1. TypeOK' /\ OneLoading'
    BY <1>3 DEF vars, IInv, TypeOK, LedgerTypeOK, OneLoading, InFlight,
                ledgerVars, initVars, optionVars, identityVars, cacheVars
  <2> QED
    BY <1>3, <2>1, LedgersKeep DEF vars, optionVars, identityVars
<1> QED
  BY <1>1, <1>2, <1>3, IdentityLoadedKeeps, GetLedgerKeeps, InitializesKeeps,
     AskContractKeeps, DisposeKeeps DEF Next

\* IInv is an invariant.
THEOREM Invariance == Spec => []IInv
BY IInvInit, IInvNext, PTL DEF Spec

\* Every variable keeps its type, and no peer past the last is asked.
THEOREM TypeCorrectness == Spec => []TypeOK
BY Invariance, PTL DEF IInv

\* Whatever calls overlap, clients meet initialised ledgers only.
THEOREM OnlyInitializedHandedOut == Spec => []HandedOutIsInitialized
BY Invariance, PTL DEF IInv

\* A ledger in use that dispose cannot reach has overlapped another.
THEOREM Reachable == Spec => []OpenHubsAreReachable
BY Invariance, PTL DEF IInv

\* Without overlapping identity calls, and without a second initialize, both
\* handlers of a ledger serve one organisation.
THEOREM OneOrg == Spec => []OneOrgPerLedger
BY Invariance, PTL DEF IInv

\* Nothing but a contested call replaces an identity: setIdentity's own check, made
\* before its await, is enough as long as no other call is in flight.
THEOREM ContestedReplaces == Spec => IdentityStaysAlone
<1> DEFINE Contested == \E s \in contested : s \in InFlight /\ currentIdentity' = loading[s]
<1>1. IInv /\ [Next]_vars =>
         [currentIdentity # None /\ currentIdentity' # currentIdentity => Contested]_vars
  <2> SUFFICES ASSUME IInv, [Next]_vars, currentIdentity # None,
                      currentIdentity' # currentIdentity
               PROVE  Contested
    OBVIOUS
  <2>1. ASSUME NEW s \in IdentityCalls, IdentityLoaded(s) PROVE Contested
    BY <2>1 DEF IdentityLoaded, IInv, OneLoading
  <2>2. ~UNCHANGED identityVars
    BY DEF identityVars
  <2>3. ASSUME NEW s \in IdentityCalls, NEW org \in Orgs,
               InitializeIdentity(s, org) \/ SetIdentity(s, org)
        PROVE  FALSE
    BY <2>3 DEF InitializeIdentity, SetIdentity, LoadIdentity
  <2>4. ASSUME NEW l \in Ledgers PROVE ~Initializes(l)
    BY <2>2 DEF Initializes
  <2> QED
    BY <2>1, <2>2, <2>3, <2>4 DEF Next, Initialize, GetLedger, AskContract, Dispose, vars
<1> HIDE DEF Contested
<1> QED
  BY <1>1, Invariance, PTL DEF Spec, IdentityStaysAlone, Contested

-----------------------------------------------------------------------------
(* Clients whose getLedger calls for a channel do not overlap              *)

AloneNext == Next /\ UNCHANGED ledgersOverlapped

\* What has overlapped has: without overlap after a step there was none before it.
LEMMA NeverForgotten ==
    ASSUME IInv, [Next]_vars, ledgersOverlapped' = {}
    PROVE  UNCHANGED ledgersOverlapped
<1>1. ASSUME NEW l \in Ledgers, NEW ch \in Channels, GetLedger(l, ch)
      PROVE  ledgersOverlapped \subseteq ledgersOverlapped'
  BY <1>1 DEF GetLedger
<1> QED
  BY <1>1 DEF Next, Initialize, InitializeIdentity, SetIdentity, IdentityLoaded, Initializes, AskContract, Dispose,
      vars, cacheVars, identityVars

LEMMA AloneInit == Init => AloneInv
BY IInvInit DEF Init, AloneInv

\* A cached ledger is the ledger in use of its channel, and nothing is being made
\* for that channel; nothing else is in use, or being made twice.
LEMMA OnePerChannel ==
    ASSUME AloneInv
    PROVE  /\ \A ch \in Channels : ledgers[ch] # None => ledgers[ch] \in InUse(ch)
           /\ \A l \in Ledgers : step[l] = "initialized" =>
                 channel[l] \in Channels /\ ledgers[channel[l]] = l /\ Together(channel[l]) = {}
           /\ \A l \in Ledgers : InProgress(l) =>
                 channel[l] \in Channels /\ Together(channel[l]) = {l}
<1> USE DEF AloneInv, IInv
<1>1. \A ch \in Channels : ledgers[ch] # None => ledgers[ch] \in InUse(ch)
  BY DEF HandedOutIsInitialized, TypeOK, InUse
<1>2. \A l \in Ledgers : step[l] = "initialized" \/ InProgress(l) => channel[l] \in Channels
  BY DEF StepMeans, InProgress
<1>3. \A l \in Ledgers : step[l] = "initialized" => ledgers[channel[l]] = l
  BY DEF OpenHubsAreReachable
<1>4. \A l, m \in Ledgers : InProgress(m) /\ channel[m] = channel[l] => step[l] # "initialized"
  BY <1>3 DEF Overlaps, InProgress
<1>5. \A l, m \in Ledgers : InProgress(l) /\ InProgress(m) /\ channel[m] = channel[l] => l = m
  BY DEF Overlaps
<1> QED
  BY <1>1, <1>2, <1>3, <1>4, <1>5 DEF Together

\* dispose reaches every ledger in use.
LEMMA DisposeReaches ==
    ASSUME AloneInv, Dispose
    PROVE  /\ \A l \in Ledgers : step'[l] = IF step[l] = "initialized" THEN "disposed" ELSE step[l]
           /\ UNCHANGED channel
<1> DEFINE S == {ledgers[ch] : ch \in Channels} \ {None}
<1>1. \A l \in Ledgers : l \in S <=> step[l] = "initialized"
  BY OnePerChannel, LedgerAssumption DEF InUse
<1>2. DisposeLedgers(S)
  BY DEF Dispose
<1> QED
  BY <1>1, <1>2 DEF DisposeLedgers

LEMMA AloneKeeps == AloneInv /\ [AloneNext]_vars => AloneInv'
<1> SUFFICES ASSUME AloneInv, [AloneNext]_vars PROVE AloneInv'
  OBVIOUS
<1>1. IInv' /\ ledgersOverlapped' = {}
  BY IInvNext DEF AloneInv, AloneNext, vars, cacheVars
<1>2. ASSUME disposed' PROVE Quiet' /\ \A l \in Ledgers : step'[l] # "initialized"
  <2>1. CASE Dispose
    <3>1. Quiet
      BY <1>2, <2>1 DEF Dispose
    <3> QED
      BY <2>1, <3>1, DisposeReaches DEF Quiet, InProgress
  <2>2. CASE UNCHANGED <<step, disposed>>
    BY <1>2, <2>2 DEF AloneInv, Quiet, InProgress
  <2>3. ASSUME NEW l \in Ledgers, NEW ch \in Channels, GetLedger(l, ch) PROVE FALSE
    BY <1>2, <2>3 DEF GetLedger
  <2>4. ASSUME NEW l \in Ledgers, Initializes(l) PROVE FALSE
    <3>1. InProgress(l) /\ disposed
      BY <1>2, <2>4 DEF Initializes, ConnectHubs, GoWithoutHubs, HubsEstablished,
                        InitializeThrows, PeerRefuses, InProgress
    <3> QED
      BY <3>1 DEF AloneInv, Quiet
  <2> QED
    BY <2>1, <2>2, <2>3, <2>4 DEF AloneNext, Next, Initialize, InitializeIdentity, SetIdentity, IdentityLoaded,
        AskContract, GetContract, vars, ledgerVars, initVars, cacheVars
<1> QED
  BY <1>1, <1>2 DEF AloneInv

\* AloneInv holds as long as no two getLedger calls for one channel have
\* overlapped, whatever identities, handlers, hubs and dispose do.
THEOREM AloneInvariance == Spec => [](ledgersOverlapped = {} => AloneInv)
<1> DEFINE P == IInv /\ (ledgersOverlapped = {} => AloneInv)
<1>1. Init => P
  BY IInvInit, AloneInit
<1>2. P /\ [Next]_vars => P'
  <2> SUFFICES ASSUME P, [Next]_vars PROVE P'
    OBVIOUS
  <2>1. IInv'
    BY IInvNext
  <2>2. ASSUME ledgersOverlapped' = {} PROVE AloneInv'
    <3>1. UNCHANGED ledgersOverlapped
      BY <2>2, NeverForgotten
    <3> QED
      BY <2>2, <3>1, AloneKeeps DEF AloneNext
  <2> QED
    BY <2>1, <2>2
<1> QED
  BY <1>1, <1>2, PTL DEF Spec

\* Calls that overlapped are the only reason why a ledger may be in use after a
\* dispose that no call overlaps or follows.
THEOREM DiscardedAlone == Spec => [](ledgersOverlapped = {} => DisposedMeansDiscarded)
<1>1. AloneInv => DisposedMeansDiscarded
  BY DEF AloneInv, DisposedMeansDiscarded
<1> QED
  BY <1>1, AloneInvariance, PTL

-----------------------------------------------------------------------------
(* The cache such clients see                                              *)

LEMMA CacheInit == Init => Cache!Init
BY DEF Init, LedgerInit, Cache!Init, Asked, Together, InUse, InProgress

\* Who uses which ledger is a matter of steps and channels.
LEMMA CacheStutters ==
    ASSUME UNCHANGED <<step, channel>>
    PROVE  UNCHANGED Cache!vars
BY DEF Cache!vars, Asked, Together, InUse, InProgress

\* A change of one ledger is seen by its channel alone.
LEMMA OthersUnseen ==
    ASSUME NEW l \in Ledgers, NEW ch \in Channels, channel'[l] = ch,
           channel[l] = ch \/ step[l] = "none",
           \A m \in Ledgers \ {l} : step'[m] = step[m] /\ channel'[m] = channel[m]
    PROVE  \A c \in Channels \ {ch} : Together(c)' = Together(c) /\ InUse(c)' = InUse(c)
BY DEF Together, InUse, InProgress

LEMMA GetLedgerRefines ==
    ASSUME AloneInv, NEW l \in Ledgers, NEW ch \in Channels,
           GetLedger(l, ch), UNCHANGED ledgersOverlapped
    PROVE  Cache!Next \/ UNCHANGED Cache!vars
<1>1. /\ \A m \in Ledgers \ {l} : step'[m] = step[m] /\ channel'[m] = channel[m]
      /\ step[l] = "none" /\ step'[l] \in {"failed", "channel"} /\ channel'[l] = ch
  BY DEF GetLedger, New, AloneInv, IInv, TypeOK, LedgerTypeOK
<1>2. Together(ch) = {}
  BY DEF GetLedger, AloneInv
<1>3. InUse(ch) = {}
  BY OnePerChannel, LedgerAssumption DEF GetLedger, InUse
<1>4. (\A c \in Channels : InUse(c)' = InUse(c))
      /\ {m \in Ledgers : step'[m] = "disposed"} = {m \in Ledgers : step[m] = "disposed"}
  BY <1>1, <1>3, OthersUnseen DEF InUse
<1>5. Together(ch)' = IF step'[l] = "channel" THEN {l} ELSE {}
  BY <1>1, <1>2 DEF Together, InProgress
<1>6. \A c \in Channels \ {ch} : Together(c)' = Together(c)
  BY <1>1, OthersUnseen
<1>7. CASE step'[l] = "channel"
  <2>1. ch \notin Asked /\ Asked' = Asked \cup {ch}
    BY <1>2, <1>5, <1>6, <1>7 DEF Asked
  <2>2. Cache!Ask(ch)
    BY <1>3, <1>4, <2>1 DEF Cache!Ask
  <2> QED
    BY <2>2 DEF Cache!Next
<1>8. CASE step'[l] # "channel"
  <2>1. Asked' = Asked
    BY <1>2, <1>5, <1>6, <1>8 DEF Asked
  <2> QED
    BY <1>4, <2>1 DEF Cache!vars
<1> QED
  BY <1>7, <1>8

LEMMA InitializesRefines ==
    ASSUME AloneInv, NEW l \in Ledgers, Initializes(l)
    PROVE  Cache!Next \/ UNCHANGED Cache!vars
<1>1. InProgress(l)
  BY DEF Initializes, ConnectHubs, GoWithoutHubs, HubsEstablished, InitializeThrows,
         PeerRefuses, InProgress
<1>2. /\ UNCHANGED channel
      /\ \A m \in Ledgers \ {l} : step'[m] = step[m]
      /\ step'[l] \in {"channel", "hubs", "initialized", "failed", "abandoned"}
  BY <1>1 DEF Initializes, ConnectHubs, GoWithoutHubs, HubsEstablished, InitializeThrows,
      PeerRefuses, CreateQueryHandler, AloneInv, IInv, TypeOK, LedgerTypeOK, InProgress
<1>3. PICK ch \in Channels : channel[l] = ch /\ Together(ch) = {l} /\ ch \in Asked
  BY <1>1, OnePerChannel DEF Asked
<1>4. InUse(ch) = {}
  BY <1>3, OnePerChannel DEF InUse
<1>5. \A c \in Channels \ {ch} : Together(c)' = Together(c) /\ InUse(c)' = InUse(c)
  BY <1>2, <1>3, OthersUnseen
<1>6. {m \in Ledgers : step'[m] = "disposed"} = {m \in Ledgers : step[m] = "disposed"}
  BY <1>1, <1>2 DEF InProgress
<1>7. CASE step'[l] \in {"channel", "hubs"}
  BY <1>1, <1>2, <1>7 DEF Cache!vars, Asked, Together, InUse, InProgress
<1>8. ASSUME step'[l] \in {"initialized", "failed", "abandoned"}
      PROVE  /\ Asked' = Asked \ {ch}
             /\ InUse(ch)' = IF step'[l] = "initialized" THEN {l} ELSE {}
  <2>1. Together(ch)' = {}
    BY <1>2, <1>3, <1>8 DEF Together, InProgress
  <2>2. Asked' = Asked \ {ch}
    BY <1>5, <2>1 DEF Asked
  <2> QED
    BY <1>2, <1>3, <1>4, <1>8, <2>2 DEF InUse
<1>9. CASE step'[l] \in {"failed", "abandoned"}
  <2>1. \A c \in Channels : InUse(c)' = InUse(c)
    BY <1>4, <1>5, <1>8, <1>9
  <2>2. Cache!Refuse(ch)
    BY <1>3, <1>6, <1>8, <1>9, <2>1 DEF Cache!Refuse
  <2> QED
    BY <1>3, <2>2 DEF Cache!Next, Cache!Answer
<1>10. CASE step'[l] = "initialized"
  <2>1. [c \in Channels |-> InUse(c)]' = [[c \in Channels |-> InUse(c)] EXCEPT ![ch] = {l}]
    BY <1>3, <1>5, <1>8, <1>10
  <2>2. l \notin {m \in Ledgers : step[m] = "disposed"} /\ \A c \in Channels : l \notin InUse(c)
    BY <1>1 DEF InUse, InProgress
  <2>3. Cache!Provide(ch, l)
    BY <1>3, <1>6, <1>8, <1>10, <2>1, <2>2 DEF Cache!Provide
  <2> QED
    BY <1>3, <2>3 DEF Cache!Next, Cache!Answer
<1> QED
  BY <1>2, <1>7, <1>9, <1>10

LEMMA DisposeRefines ==
    ASSUME AloneInv, Dispose
    PROVE  Cache!Next
<1>1. Asked' = Asked /\ \A ch \in Channels : InUse(ch)' = {}
  BY DisposeReaches DEF Asked, Together, InUse, InProgress
<1>2. {l \in Ledgers : step'[l] = "disposed"}
        = {l \in Ledgers : step[l] = "disposed"} \cup UNION {InUse(ch) : ch \in Channels}
  BY DisposeReaches, OnePerChannel DEF InUse
<1>3. Cache!Discard
  BY <1>1, <1>2 DEF Cache!Discard
<1> QED
  BY <1>3 DEF Cache!Next

\* As long as no two getLedger calls for a channel overlap, whatever identities,
\* handlers, hubs and peers do during their awaits, a network is a cache with one
\* ledger per channel, which dispose ends.
THEOREM CacheImplementation == Spec => ImplementsCache
<1>1. Init => Cache!Init
  BY CacheInit
<1>2. IInv /\ (ledgersOverlapped = {} => AloneInv) /\ [Next]_vars
        => [ledgersOverlapped' = {} => Cache!Next]_(Cache!vars)
  <2> SUFFICES ASSUME IInv, ledgersOverlapped = {} => AloneInv, [Next]_vars,
                      ledgersOverlapped' = {}
               PROVE  Cache!Next \/ UNCHANGED Cache!vars
    OBVIOUS
  <2>1. AloneInv /\ [AloneNext]_vars
    BY NeverForgotten DEF AloneNext
  <2>2. CASE UNCHANGED <<step, channel>>
    BY <2>2, CacheStutters
  <2> QED
    BY <2>1, <2>2, GetLedgerRefines, InitializesRefines, DisposeRefines
       DEF AloneNext, Next, Initialize, InitializeIdentity, SetIdentity, IdentityLoaded, AskContract, GetContract,
           vars, ledgerVars, initVars
<1> QED
  BY <1>1, <1>2, Invariance, AloneInvariance, PTL DEF Spec, ImplementsCache
=============================================================================
