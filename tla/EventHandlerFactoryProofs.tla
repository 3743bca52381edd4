---------------------- MODULE EventHandlerFactoryProofs ----------------------
(***************************************************************************)
(* Proofs about EventHandlerFactory, for any number of peers and of        *)
(* transactions: IInv is inductive, and the safety properties follow.      *)
(***************************************************************************)
EXTENDS EventHandlerFactory, TLAPS

LEMMA HubsOfPeers ==
    ASSUME NEW e \in Establishers
    PROVE  /\ HubsBy(e) # {}
           /\ HubsBy(e) \subseteq Hubs
           /\ \A h \in Hubs : h \in HubsBy(e) <=> h[1] = e
<1>1. PICK p \in Peers : TRUE
  BY FactoryAssumption
<1>2. <<e, p>> \in HubsBy(e)
  BY <1>1 DEF HubsBy
<1>3. HubsBy(e) \subseteq Hubs
  BY DEF HubsBy, Hubs
<1>4. \A h \in Hubs : h \in HubsBy(e) <=> h[1] = e
  BY DEF HubsBy, Hubs
<1> QED
  BY <1>2, <1>3, <1>4

LEMMA HubsHaveEstablishers == \A h \in Hubs : h[1] \in Establishers
BY DEF Hubs

LEMMA IInvInit == Init => IInv
<1> SUFFICES ASSUME Init PROVE IInv
  OBVIOUS
<1>1. TypeOK
  BY DEF Init, TypeOK, Created
<1>2. Provenance
  BY HubsHaveEstablishers DEF Init, Provenance, Establishers
<1>3. InitializedHasHubs /\ ListenersAreConnected
  BY DEF Init, InitializedHasHubs, ListenersAreConnected
<1>4. OnlyReplacedHubsEscape
  BY DEF Init, OnlyReplacedHubsEscape, Open
<1> QED
  BY <1>1, <1>2, <1>3, <1>4 DEF IInv

\* _establishEventHubsForStrategy: the hubs of the list it replaces are those
\* of an earlier establishment, so they are replaced ones from now on.
LEMMA EstablishKeeps ==
    ASSUME IInv, NEW e \in Establishers, Establish(e),
           establishing[e] = "no",
           e = Factory \/ (e \in Txs /\ establishing[Factory] = "returned"),
           tx' = IF e = Factory THEN tx ELSE [tx EXCEPT ![e] = "reestablishing"],
           e # Factory => tx[e] = "none",
           UNCHANGED <<answered, registered, initialized, disposed>>
    PROVE  IInv'
<1>1. TypeOK /\ Provenance /\ ListenersAreConnected /\ OnlyReplacedHubsEscape
  BY DEF IInv
<1>2. /\ HubsBy(e) # {} /\ HubsBy(e) \subseteq Hubs
      /\ \A h \in Hubs : h \in HubsBy(e) <=> h[1] = e
  BY HubsOfPeers
<1>3. \A h \in HubsBy(e) : hub[h] = "none"
  BY <1>1, <1>2 DEF Provenance
<1>4. /\ availableEventHubs' = HubsBy(e)
      /\ hub' \in [Hubs -> {"none", "connecting", "connected", "down"}]
      /\ \A h \in Hubs : hub'[h] = IF h \in HubsBy(e) THEN "connecting" ELSE hub[h]
      /\ establishing' \in [Establishers -> {"no", "waiting", "returned", "threw"}]
      /\ \A x \in Establishers : establishing'[x] = IF x = e THEN "waiting" ELSE establishing[x]
  BY <1>1 DEF Establish, TypeOK
<1>5. /\ tx' \in [Txs -> {"none", "reestablishing", "listening", "ended", "threw"}]
      /\ \A t \in Txs : tx'[t] = IF t = e THEN "reestablishing" ELSE tx[t]
  BY <1>1, FactoryAssumption DEF TypeOK
<1>6. Created \subseteq Created' /\ HubsBy(e) \subseteq Created'
  BY <1>2, <1>4 DEF Created
<1>7. TypeOK'
  BY <1>1, <1>4, <1>5, <1>6 DEF TypeOK
<1>8. Provenance'
  <2>1. establishing'[e] # "no" /\ availableEventHubs' = HubsBy(e)
    BY <1>4
  <2>2. \A h \in Hubs : establishing'[h[1]] = "no" => hub'[h] = "none"
    BY <1>1, <1>2, <1>4, HubsHaveEstablishers DEF Provenance
  <2>3. \A t \in Txs : tx'[t] = "none" => establishing'[t] = "no"
    BY <1>1, <1>4, <1>5 DEF Provenance, Establishers
  <2>4. establishing'[Factory] # "returned" => \A t \in Txs : tx'[t] = "none"
    BY <1>1, <1>4, <1>5, FactoryAssumption DEF Provenance, Establishers
  <2> QED
    BY <2>1, <2>2, <2>3, <2>4 DEF Provenance
<1>9. InitializedHasHubs'
  BY <1>2, <1>4 DEF InitializedHasHubs
<1>10. ListenersAreConnected'
  BY <1>1, <1>3, <1>4, <1>5 DEF ListenersAreConnected, Connected, TypeOK
<1>11. OnlyReplacedHubsEscape'
  <2> SUFFICES ASSUME NEW h \in Hubs, h \in Open', h \notin HubsBy(e)
               PROVE  Replaced(h[1])'
    BY <1>4 DEF OnlyReplacedHubsEscape, Open
  <2>1. h \in Open /\ h[1] # e /\ h[1] \in Establishers
    BY <1>2, <1>4, HubsHaveEstablishers DEF Open
  <2>2. establishing[h[1]] # "no"
    BY <1>1, <2>1 DEF Provenance, Open
  <2>3. e \in Txs
    <3>1. CASE e = Factory
      <4>1. h[1] \in Txs
        BY <2>1, <3>1 DEF Establishers
      <4>2. establishing[h[1]] = "no"
        BY <1>1, <3>1, <4>1 DEF Provenance
      <4> QED
        BY <2>2, <4>2
    <3> QED
      BY <3>1 DEF Establishers
  <2> QED
    BY <1>4, <2>1, <2>2, <2>3 DEF Replaced, Establishers
<1> QED
  BY <1>7, <1>8, <1>9, <1>10, <1>11 DEF IInv

LEMMA EstablishEndsKeeps ==
    ASSUME IInv, NEW e \in Establishers, EstablishEnds(e)
    PROVE  IInv'
<1>1. TypeOK /\ Provenance /\ ListenersAreConnected /\ OnlyReplacedHubsEscape
  BY DEF IInv
<1>2. /\ establishing' \in [Establishers -> {"no", "waiting", "returned", "threw"}]
      /\ \A x \in Establishers : establishing'[x] = "no" <=> establishing[x] = "no"
      /\ \A x \in Establishers \ {e} : establishing'[x] = establishing[x]
      /\ establishing[e] = "waiting"
  BY <1>1 DEF EstablishEnds, TypeOK
<1>3. /\ tx' \in [Txs -> {"none", "reestablishing", "listening", "ended", "threw"}]
      /\ \A t \in Txs : tx'[t] = IF t = e THEN "threw" ELSE tx[t]
  BY <1>1 DEF EstablishEnds, TypeOK
<1>4. /\ UNCHANGED <<availableEventHubs, hub, answered, disposed, registered>>
      /\ initialized' \in BOOLEAN
  BY <1>1 DEF EstablishEnds, TypeOK
<1>5. TypeOK'
  BY <1>1, <1>2, <1>3, <1>4 DEF TypeOK, Created
<1>6. Provenance'
  <2>1. \/ availableEventHubs' = {}
        \/ \E x \in Establishers : establishing'[x] # "no" /\ availableEventHubs' = HubsBy(x)
    BY <1>1, <1>2, <1>4 DEF Provenance
  <2>2. \A h \in Hubs : establishing'[h[1]] = "no" => hub'[h] = "none"
    BY <1>1, <1>2, <1>4, HubsHaveEstablishers DEF Provenance
  <2>3. \A t \in Txs : tx'[t] = "none" => establishing'[t] = "no"
    BY <1>1, <1>2, <1>3 DEF Provenance, Establishers
  <2>4. establishing'[Factory] # "returned" => \A t \in Txs : tx'[t] = "none"
    <3>1. CASE e = Factory
      BY <1>1, <1>2, <1>3, <3>1, FactoryAssumption DEF Provenance
    <3>2. CASE e # Factory
      <4>1. e \in Txs /\ tx[e] # "none"
        BY <1>1, <1>2, <3>2 DEF Provenance, Establishers
      <4> QED
        BY <1>1, <1>2, <3>2, <4>1 DEF Provenance, Establishers
    <3> QED
      BY <3>1, <3>2
  <2> QED
    BY <2>1, <2>2, <2>3, <2>4 DEF Provenance
<1>7. InitializedHasHubs'
  BY DEF IInv, InitializedHasHubs, EstablishEnds
<1>8. ListenersAreConnected'
  BY <1>1, <1>3, <1>4 DEF ListenersAreConnected, Connected
<1>9. OnlyReplacedHubsEscape'
  BY <1>1, <1>2, <1>4, HubsHaveEstablishers
     DEF OnlyReplacedHubsEscape, Open, Replaced, Establishers
<1> QED
  BY <1>5, <1>6, <1>7, <1>8, <1>9 DEF IInv

\* A step that only moves existing hubs between the states of a connection, and
\* leaves no registration on one that is not connected.
LEMMA HubsMove ==
    ASSUME IInv,
           hub' \in [Hubs -> {"none", "connecting", "connected", "down"}],
           \A h \in Hubs : hub'[h] = "none" <=> hub[h] = "none",
           \A h \in Hubs : h \in Open' => h \in Open \/ h \in availableEventHubs,
           answered' \subseteq Created,
           tx' \in [Txs -> {"none", "reestablishing", "listening", "ended", "threw"}],
           registered' \in [Txs -> SUBSET Created],
           \A t \in Txs : tx'[t] = "none" <=> tx[t] = "none",
           ListenersAreConnected',
           UNCHANGED <<availableEventHubs, establishing, initialized, disposed>>
    PROVE  IInv'
<1>1. TypeOK /\ Provenance /\ InitializedHasHubs /\ OnlyReplacedHubsEscape
  BY DEF IInv
<1>2. Created' = Created
  BY DEF Created
<1>3. TypeOK'
  BY <1>1, <1>2 DEF TypeOK
<1>4. Provenance'
  <2>1. \A h \in Hubs : establishing'[h[1]] = "no" => hub'[h] = "none"
    BY <1>1 DEF Provenance
  <2>2. \A t \in Txs : tx'[t] = "none" => establishing'[t] = "no"
    BY <1>1 DEF Provenance
  <2>3. establishing'[Factory] # "returned" => \A t \in Txs : tx'[t] = "none"
    BY <1>1 DEF Provenance
  <2> QED
    BY <1>1, <2>1, <2>2, <2>3 DEF Provenance
<1>5. InitializedHasHubs'
  BY <1>1 DEF InitializedHasHubs
<1>6. OnlyReplacedHubsEscape'
  <2> SUFFICES ASSUME NEW h \in Open', h \notin availableEventHubs
               PROVE  Replaced(h[1])
    BY DEF OnlyReplacedHubsEscape, Replaced
  <2>1. h \in Open
    BY DEF Open
  <2> QED
    BY <1>1, <2>1 DEF OnlyReplacedHubsEscape
<1> QED
  BY <1>3, <1>4, <1>5, <1>6 DEF IInv

LEMMA HubConnectsKeeps ==
    ASSUME IInv, NEW h \in Hubs, HubConnects(h)
    PROVE  IInv'
<1>1. TypeOK /\ ListenersAreConnected
  BY DEF IInv
<1>2. /\ hub' \in [Hubs -> {"none", "connecting", "connected", "down"}]
      /\ \A x \in Hubs : hub'[x] = IF x = h THEN "connected" ELSE hub[x]
      /\ hub[h] = "connecting" /\ answered' = answered \cup {h}
      /\ UNCHANGED <<availableEventHubs, establishing, initialized, disposed, tx, registered>>
  BY <1>1 DEF HubConnects, TypeOK, txVars
<1>3. answered' \subseteq Created
  BY <1>1, <1>2 DEF TypeOK, Created
<1>4. \A x \in Hubs : x \in Open' => x \in Open
  BY <1>2 DEF Open
<1>5. ListenersAreConnected'
  BY <1>1, <1>2 DEF ListenersAreConnected, Connected
<1> QED
  BY <1>1, <1>2, <1>3, <1>4, <1>5, HubsMove DEF TypeOK

\* The error callbacks of a set of existing hubs.
LEMMA LoseMoves ==
    ASSUME IInv, NEW S \in SUBSET Created, Lose(S)
    PROVE  /\ hub' \in [Hubs -> {"none", "connecting", "connected", "down"}]
           /\ \A h \in Hubs : hub'[h] = "none" <=> hub[h] = "none"
           /\ Open' = Open \ S
           /\ answered' \subseteq Created
           /\ tx' \in [Txs -> {"none", "reestablishing", "listening", "ended", "threw"}]
           /\ registered' \in [Txs -> SUBSET Created]
           /\ \A t \in Txs : tx'[t] = "none" <=> tx[t] = "none"
           /\ ListenersAreConnected'
<1>1. TypeOK /\ ListenersAreConnected
  BY DEF IInv
<1>2. /\ hub' \in [Hubs -> {"none", "connecting", "connected", "down"}]
      /\ \A h \in Hubs : hub'[h] = IF h \in S THEN "down" ELSE hub[h]
  BY <1>1 DEF Lose, TypeOK
<1>3. /\ tx' \in [Txs -> {"none", "reestablishing", "listening", "ended", "threw"}]
      /\ \A t \in Txs : tx'[t] = IF tx[t] = "listening" /\ registered[t] \subseteq S
                                 THEN "ended" ELSE tx[t]
  BY <1>1 DEF Lose, TypeOK
<1>4. /\ registered' \in [Txs -> SUBSET Created]
      /\ \A t \in Txs : registered'[t] = registered[t] \ S
  BY <1>1 DEF Lose, TypeOK
<1>5. \A h \in Hubs : hub'[h] = "none" <=> hub[h] = "none"
  BY <1>2 DEF Created
<1>6. Open' = Open \ S
  BY <1>2 DEF Open
<1>7. answered' \subseteq Created
  BY <1>1 DEF Lose, TypeOK
<1>8. \A t \in Txs : tx'[t] = "none" <=> tx[t] = "none"
  BY <1>3
<1>9. ListenersAreConnected'
  BY <1>1, <1>2, <1>3, <1>4 DEF ListenersAreConnected, Connected
<1> QED
  BY <1>2, <1>3, <1>4, <1>5, <1>6, <1>7, <1>8, <1>9

LEMMA HubFailsKeeps ==
    ASSUME IInv, NEW h \in Hubs, HubFails(h)
    PROVE  IInv'
<1>1. {h} \in SUBSET Created
  BY DEF HubFails, Open, Created
<1>2. Lose({h}) /\ UNCHANGED <<availableEventHubs, establishing, initialized, disposed>>
  BY DEF HubFails
<1> QED
  BY <1>1, <1>2, LoseMoves, HubsMove

LEMMA CheckEventHubsKeeps == IInv /\ CheckEventHubs => IInv'
<1> SUFFICES ASSUME IInv, CheckEventHubs PROVE IInv'
  OBVIOUS
<1> DEFINE down == {h \in availableEventHubs : hub[h] = "down"}
<1>1. TypeOK /\ ListenersAreConnected
  BY DEF IInv
<1>2. /\ hub' \in [Hubs -> {"none", "connecting", "connected", "down"}]
      /\ \A h \in Hubs : hub'[h] = IF h \in down THEN "connecting" ELSE hub[h]
      /\ UNCHANGED <<availableEventHubs, answered, establishing, initialized, disposed, tx, registered>>
  BY <1>1 DEF CheckEventHubs, TypeOK, txVars
<1>3. \A h \in Hubs : hub'[h] = "none" <=> hub[h] = "none"
  BY <1>2
<1>4. \A h \in Hubs : h \in Open' => h \in Open \/ h \in availableEventHubs
  BY <1>2 DEF Open
<1>5. ListenersAreConnected'
  BY <1>1, <1>2 DEF ListenersAreConnected, Connected
<1> QED
  BY <1>1, <1>2, <1>3, <1>4, <1>5, HubsMove DEF TypeOK

LEMMA StartTxKeeps ==
    ASSUME IInv, NEW t \in Txs, StartTx(t)
    PROVE  IInv'
<1>1. TypeOK /\ Provenance /\ ListenersAreConnected
  BY DEF IInv
<1>2. /\ establishing[Factory] = "returned" /\ tx[t] = "none"
      /\ UNCHANGED <<answered, initialized, disposed>>
      /\ establishing[t] = "no"
  BY <1>1 DEF StartTx, Provenance
<1>3. CASE /\ tx' = [tx EXCEPT ![t] = "threw"]
           /\ UNCHANGED <<availableEventHubs, hub, establishing, registered>>
  <2>1. /\ tx' \in [Txs -> {"none", "reestablishing", "listening", "ended", "threw"}]
        /\ \A x \in Txs : tx'[x] = IF x = t THEN "threw" ELSE tx[x]
    BY <1>1, <1>3 DEF TypeOK
  <2>2. TypeOK' /\ ListenersAreConnected'
    BY <1>1, <1>2, <1>3, <2>1 DEF TypeOK, Created, ListenersAreConnected, Connected
  <2>3. Provenance'
    BY <1>1, <1>2, <1>3, <2>1 DEF Provenance
  <2>4. InitializedHasHubs' /\ OnlyReplacedHubsEscape'
    BY <1>2, <1>3 DEF IInv, InitializedHasHubs, OnlyReplacedHubsEscape, Open, Replaced
  <2> QED
    BY <2>2, <2>3, <2>4 DEF IInv
<1>4. CASE /\ Connected(availableEventHubs) # {}
           /\ tx' = [tx EXCEPT ![t] = "listening"]
           /\ registered' = [registered EXCEPT ![t] = Connected(availableEventHubs)]
           /\ UNCHANGED <<availableEventHubs, hub, establishing>>
  <2>1. /\ tx' \in [Txs -> {"none", "reestablishing", "listening", "ended", "threw"}]
        /\ \A x \in Txs : tx'[x] = IF x = t THEN "listening" ELSE tx[x]
    BY <1>1, <1>4 DEF TypeOK
  <2>2. Connected(availableEventHubs) \subseteq Created
    BY <1>1 DEF TypeOK, Connected
  <2>3. /\ registered' \in [Txs -> SUBSET Created]
        /\ \A x \in Txs : registered'[x] = IF x = t THEN Connected(availableEventHubs)
                                            ELSE registered[x]
    BY <1>1, <1>4, <2>2 DEF TypeOK
  <2>4. TypeOK'
    BY <1>1, <1>2, <1>4, <2>1, <2>3 DEF TypeOK, Created
  <2>5. Provenance'
    BY <1>1, <1>2, <1>4, <2>1 DEF Provenance
  <2>6. ListenersAreConnected'
    <3>1. Connected(availableEventHubs) \subseteq Connected(Hubs)
      BY <1>1 DEF TypeOK, Created, Connected
    <3>2. Connected(Hubs)' = Connected(Hubs)
      BY <1>4 DEF Connected
    <3> QED
      BY <1>1, <1>4, <2>1, <2>3, <3>1, <3>2 DEF ListenersAreConnected
  <2>7. InitializedHasHubs' /\ OnlyReplacedHubsEscape'
    BY <1>2, <1>4 DEF IInv, InitializedHasHubs, OnlyReplacedHubsEscape, Open, Replaced
  <2> QED
    BY <2>4, <2>5, <2>6, <2>7 DEF IInv
<1>5. CASE /\ tx' = [tx EXCEPT ![t] = "reestablishing"]
           /\ Establish(t)
           /\ UNCHANGED registered
  BY <1>2, <1>5, EstablishKeeps, FactoryAssumption DEF Establishers
<1> QED
  BY <1>3, <1>4, <1>5 DEF StartTx

LEMMA EndTxKeeps ==
    ASSUME IInv, NEW t \in Txs, EndTx(t)
    PROVE  IInv'
<1>1. TypeOK /\ ListenersAreConnected
  BY DEF IInv
<1>2. /\ tx' \in [Txs -> {"none", "reestablishing", "listening", "ended", "threw"}]
      /\ \A x \in Txs : tx'[x] = IF x = t THEN "ended" ELSE tx[x]
      /\ tx[t] = "listening"
  BY <1>1 DEF EndTx, TypeOK
<1>3. /\ registered' \in [Txs -> SUBSET Created]
      /\ \A x \in Txs : registered'[x] = IF x = t THEN {} ELSE registered[x]
  BY <1>1 DEF EndTx, TypeOK
<1>4. UNCHANGED <<availableEventHubs, hub, answered, establishing, initialized, disposed>>
  BY DEF EndTx
<1>5. ListenersAreConnected'
  BY <1>1, <1>2, <1>3, <1>4 DEF ListenersAreConnected, Connected
<1>6. Open' = Open
  BY <1>4 DEF Open
<1> QED
  BY <1>1, <1>2, <1>3, <1>4, <1>5, <1>6, HubsMove DEF TypeOK

\* dispose: the hubs of the list are closed, so those left open are replaced.
LEMMA DisposeKeeps == IInv /\ Dispose => IInv'
<1> SUFFICES ASSUME IInv, Dispose PROVE IInv'
  OBVIOUS
<1>1. TypeOK /\ Provenance /\ OnlyReplacedHubsEscape
  BY DEF IInv
<1>2. /\ Lose(availableEventHubs) /\ UNCHANGED establishing
      /\ availableEventHubs' = {} /\ initialized' = FALSE /\ disposed' = TRUE
  BY DEF Dispose
<1>3. availableEventHubs \in SUBSET Created
  BY <1>1 DEF TypeOK
<1>4. /\ hub' \in [Hubs -> {"none", "connecting", "connected", "down"}]
      /\ \A h \in Hubs : hub'[h] = "none" <=> hub[h] = "none"
      /\ Open' = Open \ availableEventHubs
      /\ answered' \subseteq Created
      /\ tx' \in [Txs -> {"none", "reestablishing", "listening", "ended", "threw"}]
      /\ registered' \in [Txs -> SUBSET Created]
      /\ \A t \in Txs : tx'[t] = "none" <=> tx[t] = "none"
      /\ ListenersAreConnected'
  BY <1>2, <1>3, LoseMoves
<1>5. Created' = Created
  BY <1>4 DEF Created
<1>6. TypeOK'
  BY <1>1, <1>2, <1>4, <1>5 DEF TypeOK
<1>7. Provenance'
  BY <1>1, <1>2, <1>4 DEF Provenance
<1>8. InitializedHasHubs'
  BY <1>2 DEF InitializedHasHubs
<1>9. OnlyReplacedHubsEscape'
  BY <1>1, <1>2, <1>4 DEF OnlyReplacedHubsEscape, Replaced
<1> QED
  BY <1>4, <1>6, <1>7, <1>8, <1>9 DEF IInv

LEMMA IInvNext == IInv /\ [Next]_vars => IInv'
<1> SUFFICES ASSUME IInv, [Next]_vars PROVE IInv'
  OBVIOUS
<1>1. CASE Initialize
  <2>1. Factory \in Establishers
    BY DEF Establishers
  <2> QED
    BY <1>1, <2>1, EstablishKeeps DEF Initialize, txVars
<1>2. CASE \E e \in Establishers : EstablishEnds(e)
  BY <1>2, EstablishEndsKeeps
<1>3. CASE \E h \in Hubs : HubConnects(h) \/ HubFails(h)
  BY <1>3, HubConnectsKeeps, HubFailsKeeps
<1>4. CASE CheckEventHubs
  BY <1>4, CheckEventHubsKeeps
<1>5. CASE \E t \in Txs : StartTx(t) \/ EndTx(t)
  BY <1>5, StartTxKeeps, EndTxKeeps
<1>6. CASE Dispose
  BY <1>6, DisposeKeeps
<1>7. CASE UNCHANGED vars
  BY <1>7 DEF vars, txVars, IInv, TypeOK, Created, Provenance, InitializedHasHubs,
              ListenersAreConnected, Connected, OnlyReplacedHubsEscape, Open, Replaced
<1> QED
  BY <1>1, <1>2, <1>3, <1>4, <1>5, <1>6, <1>7 DEF Next

-----------------------------------------------------------------------------
(* The theorems                                                            *)

\* The inductive invariant of the factory: types, where hubs come from, who
\* listens on them and which of them it still knows.
THEOREM Invariance == Spec => []IInv
<1>1. Init => IInv
  BY IInvInit
<1>2. IInv /\ [Next]_vars => IInv'
  BY IInvNext
<1> QED
  BY <1>1, <1>2, PTL DEF Spec

\* initialize and dispose, however they overlap with transactions, never leave
\* an initialized factory without hubs.
THEOREM NeverInitializedWithoutHubs == Spec => []InitializedHasHubs
<1>1. IInv => InitializedHasHubs
  BY DEF IInv
<1> QED
  BY <1>1, Invariance, PTL

\* A listening handler sits on connected hubs, whatever became of the list.
THEOREM ListenersStayConnected == Spec => []ListenersAreConnected
<1>1. IInv => ListenersAreConnected
  BY DEF IInv
<1> QED
  BY <1>1, Invariance, PTL

\* Re-establishing is the only way hubs get out of the sight of dispose.
THEOREM EscapeByReplacement == Spec => []OnlyReplacedHubsEscape
<1>1. IInv => OnlyReplacedHubsEscape
  BY DEF IInv
<1> QED
  BY <1>1, Invariance, PTL

\* dispose empties the list, and only a handler that finds hubs in it has them
\* established anew: so no hub is opened once dispose was called.
THEOREM DisposeIsTheEnd == Spec => NothingOpensAfterDispose
<1> DEFINE Emptied == disposed => availableEventHubs = {}
           Opens   == disposed => \A h \in Hubs : hub[h] = "none" => hub'[h] = "none"
<1>1. Init => Emptied
  BY DEF Init
<1>2. Emptied /\ [Next]_vars => Emptied'
  BY DEF Next, Initialize, EstablishEnds, HubConnects, HubFails, Lose, CheckEventHubs,
         StartTx, EndTx, Dispose, vars
<1>3. IInv /\ Emptied /\ [Next]_vars => [Opens]_vars
  <2> SUFFICES ASSUME IInv, disposed, availableEventHubs = {}, [Next]_vars,
                      NEW h \in Hubs, hub[h] = "none"
               PROVE  hub'[h] = "none"
    OBVIOUS
  <2>1. CASE Initialize \/ CheckEventHubs
    BY <2>1 DEF Initialize, CheckEventHubs
  <2>2. CASE \E e \in Establishers : EstablishEnds(e)
    BY <2>2 DEF EstablishEnds
  <2>3. ASSUME NEW x \in Hubs, HubConnects(x) PROVE hub'[h] = "none"
    BY <2>3 DEF HubConnects, IInv, TypeOK
  <2>4. ASSUME NEW x \in Hubs, HubFails(x) PROVE hub'[h] = "none"
    BY <2>4 DEF HubFails, Lose, Open
  <2>5. CASE \E t \in Txs : StartTx(t) \/ EndTx(t)
    BY <2>5 DEF StartTx, EndTx, Connected
  <2>6. CASE Dispose \/ UNCHANGED vars
    BY <2>6 DEF Dispose, vars
  <2> QED
    BY <2>1, <2>2, <2>3, <2>4, <2>5, <2>6 DEF Next
<1> QED
  BY <1>1, <1>2, <1>3, Invariance, PTL DEF Spec, NothingOpensAfterDispose

\* Every variable keeps its type, and the list holds only hubs that exist.
THEOREM TypeCorrectness == Spec => []TypeOK
<1>1. IInv => TypeOK
  BY DEF IInv
<1> QED
  BY <1>1, Invariance, PTL
=============================================================================
