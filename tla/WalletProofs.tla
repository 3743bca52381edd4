---------------------------- MODULE WalletProofs -----------------------------
(***************************************************************************)
(* Proofs about Wallet, for any number of labels and calls: IInv is        *)
(* inductive, and what is saved loads unless calls met on the shared       *)
(* client or with a delete.  Second, ViewsInv is inductive: what exists    *)
(* loads unless some call left its label half done, what loads exists and  *)
(* is listed, stays until it is deleted or saved over, and setUserContext  *)
(* answers for its label.  Third, as long as no call was disturbed, a      *)
(* wallet implements IdentityStore.                                        *)
(***************************************************************************)
EXTENDS Wallet, TLAPS

\* Every label has its stores.
LEMMA StoresOfLabels ==
    \A l \in Labels : Partition(l) \in Partitions /\ KeyStore(l) \in KeyStores
BY DEF Partition, KeyStore, Partitions, KeyStores

LEMMA IInvInit == Init => IInv
<1> SUFFICES ASSUME Init PROVE IInv
  OBVIOUS
<1> USE DEF Init
<1>1. TypeOK
  BY DEF TypeOK, Results
<1>2. Begun /\ KeyFirst
  BY DEF Begun, KeyFirst
<1>3. ClientFits
  BY DEF ClientFits, OnSharedClient, InProgress
<1>4. SavedIsLoadable
  <2> SUFFICES ASSUME NEW l \in Labels PROVE users[<<Partition(l), l>>] = None
    BY DEF SavedIsLoadable
  <2> QED
    BY StoresOfLabels
<1> QED
  BY <1>1, <1>2, <1>3, <1>4 DEF IInv

\* Calls that begin, go on or end leave what is saved as it is.
LEMMA SavedKeeps ==
    ASSUME SavedIsLoadable, UNCHANGED <<kind, mixin, users>>,
           keys \subseteq keys', disturbed \subseteq disturbed'
    PROVE  SavedIsLoadable'
<1> SUFFICES ASSUME NEW l \in Labels, users[<<Partition(l), l>>] # None,
                    users[<<Partition(l), l>>] \notin disturbed
             PROVE  Loadable(l)'
  BY DEF SavedIsLoadable, Partition
<1>1. Loadable(l)
  BY DEF SavedIsLoadable
<1> QED
  BY <1>1 DEF Loadable, LoadsFrom, Partition, KeyStore

\* A call that goes on or ends, without touching the client, leaves the client
\* to the others.
LEMMA ClientKeeps ==
    ASSUME ClientFits, NEW c \in Calls,
           UNCHANGED <<kind, mixin, stateStore, cryptoStore, op, label>>,
           disturbed \subseteq disturbed',
           \A d \in Calls : InProgress(d)' => InProgress(d) /\ (pc[d] = "opened" => pc'[d] = "opened")
    PROVE  ClientFits'
<1>1. OnSharedClient' \subseteq OnSharedClient
  BY DEF OnSharedClient
<1>2. \A d \in OnSharedClient' : pc'[d] # "opened" => pc[d] # "opened"
  BY <1>1 DEF OnSharedClient
<1>3. \A l \in Labels : Partition(l)' = Partition(l) /\ KeyStore(l)' = KeyStore(l)
  BY DEF Partition, KeyStore
<1>4. {Partition(l) : l \in Labels}' = {Partition(l) : l \in Labels}
  BY <1>3
<1>5. {KeyStore(l) : l \in Labels}' = {KeyStore(l) : l \in Labels}
  BY <1>3
<1>6. ASSUME NEW d \in OnSharedClient'
      PROVE  /\ stateStore' # None
             /\ pc'[d] # "opened" => cryptoStore' # None
             /\ d \notin disturbed' =>
                   /\ OnSharedClient' = {d}
                   /\ stateStore' = Partition(label[d])'
                   /\ pc'[d] # "opened" => cryptoStore' = KeyStore(label[d])'
  <2>1. d \in OnSharedClient
    BY <1>1
  <2>2. Partition(label[d])' = Partition(label[d]) /\ KeyStore(label[d])' = KeyStore(label[d])
    BY DEF Partition, KeyStore
  <2> QED
    BY <1>1, <1>2, <2>1, <2>2 DEF ClientFits
<1> QED
  BY <1>4, <1>5, <1>6 DEF ClientFits

-----------------------------------------------------------------------------
(* The steps                                                               *)

LEMMA SetStateStoreKeeps ==
    ASSUME IInv, NEW c \in Calls, NEW o \in {"import", "enroll", "load", "export"},
           NEW l \in Labels, SetStateStore(c, o, l)
    PROVE  IInv'
<1> USE DEF SetStateStore, IInv
<1>1. TypeOK'
  BY StoresOfLabels DEF TypeOK, OnSharedClient
<1>2. Begun'
  BY DEF TypeOK, Begun
<1>3. KeyFirst'
  BY DEF TypeOK, KeyFirst, KeyStore, Partition
<1>4. \A d \in Calls : d # c => op'[d] = op[d] /\ label'[d] = label[d] /\ pc'[d] = pc[d]
  BY DEF TypeOK
<1>5. op'[c] = o /\ label'[c] = l /\ pc'[c] = "opened"
  BY DEF TypeOK
<1>6. ClientFits'
  <2>1. CASE o \notin Shared
    <3>1. OnSharedClient' = OnSharedClient
      BY <1>4, <1>5, <2>1 DEF OnSharedClient, InProgress
    <3>2. \A d \in OnSharedClient : d # c
      BY DEF OnSharedClient, InProgress
    <3> QED
      BY <1>4, <2>1, <3>1, <3>2 DEF ClientFits, Partition, KeyStore, OnSharedClient
  <2>2. CASE o \in Shared
    <3>1. OnSharedClient' = OnSharedClient \cup {c}
      BY <1>4, <1>5, <2>2 DEF OnSharedClient, InProgress
    <3>2. stateStore' = Partition(l)' /\ stateStore' # None
      BY <2>2, WalletAssumption DEF Partition
    <3>3. \A d \in OnSharedClient : d # c
      BY DEF OnSharedClient, InProgress
    <3>4. \A d \in OnSharedClient' : pc'[d] # "opened" => cryptoStore' # None
      BY <1>4, <1>5, <3>1, <3>3 DEF ClientFits
    <3>5. CASE OnSharedClient = {}
      BY <1>5, <3>1, <3>2, <3>4, <3>5 DEF ClientFits, Partition, KeyStore
    <3>6. CASE OnSharedClient # {}
      <4>1. \A d \in OnSharedClient' : d \in disturbed'
        BY <2>2, <3>1, <3>6
      <4> QED
        BY <3>2, <3>4, <4>1 DEF ClientFits, Partition, KeyStore
    <3> QED
      BY <3>5, <3>6
  <2> QED
    BY <2>1, <2>2
<1>7. SavedIsLoadable'
  BY SavedKeeps
<1> QED
  BY <1>1, <1>2, <1>3, <1>6, <1>7

LEMMA SetCryptoSuiteKeeps ==
    ASSUME IInv, NEW c \in Calls, SetCryptoSuite(c)
    PROVE  IInv'
<1> USE DEF SetCryptoSuite, GoOn, IInv, storeVars
<1>1. label[c] \in Labels
  BY DEF Begun
<1>2. TypeOK'
  BY <1>1, StoresOfLabels DEF TypeOK
<1>3. Begun' /\ KeyFirst'
  BY DEF TypeOK, Begun, KeyFirst, KeyStore, Partition
<1>4. \A d \in Calls : d # c => pc'[d] = pc[d]
  BY DEF TypeOK
<1>5. pc'[c] = "configured"
  BY DEF TypeOK
<1>6. OnSharedClient' = OnSharedClient
  BY <1>4, <1>5 DEF OnSharedClient, InProgress
<1>7. ClientFits'
  <2>1. CASE op[c] \notin Shared
    <3>1. \A d \in OnSharedClient : d # c
      BY <2>1 DEF OnSharedClient
    <3> QED
      BY <1>4, <1>6, <2>1, <3>1 DEF ClientFits, Partition, KeyStore, OnSharedClient
  <2>2. CASE op[c] \in Shared
    <3>1. c \in OnSharedClient
      BY <2>2 DEF OnSharedClient, InProgress
    <3>2. cryptoStore' = KeyStore(label[c]) /\ KeyStore(label[c]) # None
      BY <1>1, <2>2, WalletAssumption DEF KeyStore, Partition
    <3>3. \A d \in OnSharedClient : d \notin disturbed => d = c
      BY <3>1 DEF ClientFits
    <3>4. \A k : Partition(k)' = Partition(k) /\ KeyStore(k)' = KeyStore(k)
      BY DEF Partition, KeyStore
    <3>5. label' = label /\ stateStore' = stateStore /\ disturbed' = disturbed
      OBVIOUS
    <3> QED
      BY <1>1, <1>6, <3>1, <3>2, <3>3, <3>4, <3>5 DEF ClientFits
  <2> QED
    BY <2>1, <2>2
<1>8. SavedIsLoadable'
  BY SavedKeeps
<1> QED
  BY <1>2, <1>3, <1>7, <1>8

\* An enrolment that is not disturbed generates its key where it belongs.
LEMMA StoreKeyKeeps ==
    ASSUME IInv, NEW c \in Calls, StoreKey(c)
    PROVE  IInv'
<1> USE DEF StoreKey, GoOn, IInv, clientVars
<1> DEFINE store == IF op[c] = "enroll" THEN cryptoStore ELSE KeyStore(label[c])
<1>1. label[c] \in Labels
  BY DEF Begun
<1>2. op[c] = "enroll" => c \in OnSharedClient
  BY DEF OnSharedClient, InProgress, Shared
<1>3. store \in KeyStores /\ (kind = "file" /\ mixin = "x509" => store \in Labels)
  <2>1. \A l \in Labels : kind = "file" /\ mixin = "x509" => KeyStore(l) \in Labels
    BY DEF KeyStore, Partition
  <2>2. CASE op[c] = "enroll"
    <3>1. PICK l \in Labels : cryptoStore = KeyStore(l)
      BY <1>2, <2>2 DEF ClientFits
    <3> QED
      BY <2>1, <2>2, <3>1, StoresOfLabels
  <2>3. CASE op[c] # "enroll"
    BY <1>1, <2>1, <2>3, StoresOfLabels
  <2> QED
    BY <2>2, <2>3
<1>4. keys' = keys \cup {<<store, c>>}
  OBVIOUS
<1>5. directories' \subseteq directories \cup Labels
  BY <1>1, <1>3
<1>6. TypeOK'
  <2>1. keys' \subseteq KeyStores \X Calls
    BY <1>3, <1>4 DEF TypeOK
  <2>2. directories' \subseteq Labels
    BY <1>5 DEF TypeOK
  <2>3. pc' \in [Calls -> {"idle", "opened", "configured", "keyStored", "ended"}]
    BY DEF TypeOK
  <2> QED
    BY <2>1, <2>2, <2>3 DEF TypeOK
<1>7. Begun'
  BY DEF TypeOK, Begun
<1>8. KeyFirst'
  <2>1. c \notin disturbed => store = KeyStore(label[c])
    BY <1>2 DEF ClientFits
  <2>2. \A d \in Calls : d # c => pc'[d] = pc[d]
    BY DEF TypeOK
  <2>3. \A k : KeyStore(k)' = KeyStore(k)
    BY DEF KeyStore, Partition
  <2>4. op' = op /\ label' = label /\ disturbed' = disturbed
    OBVIOUS
  <2> QED
    BY <1>4, <2>1, <2>2, <2>3, <2>4 DEF KeyFirst
<1>9. ClientFits'
  BY ClientKeeps DEF TypeOK, InProgress
<1>10. SavedIsLoadable'
  BY <1>4, SavedKeeps
<1> QED
  BY <1>6, <1>7, <1>8, <1>9, <1>10

\* One that is not disturbed saves its user next to its key.
LEMMA SaveUserKeeps ==
    ASSUME IInv, NEW c \in Calls, SaveUser(c)
    PROVE  IInv'
<1> USE DEF SaveUser, End, IInv, clientVars
<1> DEFINE p == IF op[c] = "enroll" THEN stateStore ELSE Partition(label[c])
<1>1. label[c] \in Labels
  BY DEF Begun
<1>2. op[c] = "enroll" => c \in OnSharedClient
  BY DEF OnSharedClient, InProgress, Shared
<1>3. p \in Partitions
  BY <1>1, <1>2, StoresOfLabels DEF ClientFits, TypeOK
<1>4. users' = [users EXCEPT ![<<p, label[c]>>] = c]
  OBVIOUS
<1>5. TypeOK'
  BY <1>1, <1>3, <1>4 DEF TypeOK, Results
<1>6. Begun' /\ KeyFirst'
  BY DEF TypeOK, Begun, KeyFirst, KeyStore, Partition
<1>7. ClientFits'
  BY ClientKeeps DEF TypeOK, InProgress
<1>8. SavedIsLoadable'
  <2> SUFFICES ASSUME NEW l \in Labels,
                      users'[<<Partition(l), l>>] # None,
                      users'[<<Partition(l), l>>] \notin disturbed
               PROVE  <<KeyStore(l), users'[<<Partition(l), l>>]>> \in keys
    BY DEF SavedIsLoadable, Loadable, LoadsFrom, Partition, KeyStore
  <2>1. Partition(l) \in Partitions
    BY StoresOfLabels
  <2>2. CASE Partition(l) = p /\ l = label[c]
    <3>1. users'[<<Partition(l), l>>] = c
      BY <1>4, <2>1, <2>2 DEF TypeOK
    <3> QED
      BY <2>2, <3>1 DEF KeyFirst
  <2>3. CASE ~(Partition(l) = p /\ l = label[c])
    <3>1. users'[<<Partition(l), l>>] = users[<<Partition(l), l>>]
      BY <1>4, <2>1, <2>3 DEF TypeOK
    <3> QED
      BY <3>1 DEF SavedIsLoadable, Loadable, LoadsFrom
  <2> QED
    BY <2>2, <2>3
<1> QED
  BY <1>5, <1>6, <1>7, <1>8

\* A call that ends without saving.
LEMMA EndKeeps ==
    ASSUME IInv, NEW c \in Calls, NEW r \in Results, InProgress(c), End(c, r),
           userContext' \in Calls \cup {None},
           UNCHANGED <<kind, mixin, storeVars, clientVars, disturbed>>
    PROVE  IInv'
<1> USE DEF End, IInv, storeVars, clientVars
<1>1. TypeOK'
  BY DEF TypeOK
<1>2. Begun' /\ KeyFirst'
  BY DEF TypeOK, Begun, KeyFirst, KeyStore, Partition, InProgress
<1>3. ClientFits'
  BY ClientKeeps DEF TypeOK, InProgress
<1>4. SavedIsLoadable'
  BY SavedKeeps
<1> QED
  BY <1>1, <1>2, <1>3, <1>4

\* A delete takes users and keys of its label together, and disturbs whoever
\* has stored a key for it.
LEMMA DeleteKeeps ==
    ASSUME IInv, NEW l \in Labels, Delete(l), kind # "couch"
    PROVE  IInv'
<1> USE DEF Delete, RemovePartition, IInv, clientVars, callVars
<1>1. TypeOK'
  BY DEF TypeOK
<1>2. Begun'
  BY DEF Begun
<1>3. \A m \in Labels : m # l => KeyStore(m) # l /\ Partition(m) = m
  BY WalletAssumption DEF KeyStore, Partition
<1>4. KeyFirst'
  <2> SUFFICES ASSUME NEW c \in Calls, pc[c] = "keyStored", c \notin disturbed'
               PROVE  <<KeyStore(label[c]), c>> \in keys'
    BY DEF KeyFirst, KeyStore, Partition
  <2>1. op[c] \in Saving /\ InProgress(c) /\ label[c] \in Labels
    BY DEF KeyFirst, InProgress, Begun
  <2>2. label[c] # l /\ c \notin disturbed
    BY <2>1
  <2> QED
    BY <1>3, <2>1, <2>2 DEF KeyFirst
<1>5. ClientFits'
  <2>1. OnSharedClient' = OnSharedClient
    BY DEF OnSharedClient, InProgress
  <2> QED
    BY <2>1 DEF ClientFits, Partition, KeyStore
<1>6. SavedIsLoadable'
  <2> HIDE DEF Delete, RemovePartition, IInv
  <2>0. disturbed \subseteq disturbed' /\ UNCHANGED <<kind, mixin>>
    BY DEF Delete, RemovePartition
  <2> SUFFICES ASSUME NEW m \in Labels,
                      users'[<<Partition(m), m>>] # None,
                      users'[<<Partition(m), m>>] \notin disturbed
               PROVE  <<KeyStore(m), users'[<<Partition(m), m>>]>> \in keys'
    BY <2>0 DEF SavedIsLoadable, Loadable, LoadsFrom, Partition, KeyStore
  <2> USE DEF Delete, RemovePartition, IInv
  <2>1. users'[<<Partition(m), m>>] =
           IF Partition(m) = l THEN None ELSE users[<<Partition(m), m>>]
    BY StoresOfLabels
  <2>2. m # l
    BY <2>1 DEF Partition
  <2> QED
    BY <1>3, <2>1, <2>2 DEF SavedIsLoadable, Loadable, LoadsFrom
<1> QED
  BY <1>1, <1>2, <1>4, <1>5, <1>6

\* A delete in CouchDB changes nothing.
LEMMA CouchKeepsAll ==
    ASSUME NEW l \in Labels, Delete(l), kind = "couch"
    PROVE  UNCHANGED vars
BY DEF Delete, vars

\* Nothing that is saved depends on the cache of suites.
LEMMA SuiteKeeps ==
    ASSUME IInv, suite' \in {"none", "closed"},
           UNCHANGED <<kind, mixin, storeVars, stateStore, cryptoStore, userContext>>,
           UNCHANGED <<callVars, disturbed>>
    PROVE  IInv'
<1> USE DEF IInv, storeVars, callVars
<1>1. TypeOK' /\ Begun'
  BY DEF TypeOK, Begun
<1>2. ClientFits'
  BY DEF ClientFits, OnSharedClient, InProgress, Partition, KeyStore
<1>3. KeyFirst' /\ SavedIsLoadable'
  BY DEF KeyFirst, SavedIsLoadable, Loadable, LoadsFrom, Partition, KeyStore
<1> QED
  BY <1>1, <1>2, <1>3

-----------------------------------------------------------------------------
(* The theorems                                                            *)

LEMMA IInvNext == IInv /\ [Next]_vars => IInv'
<1> SUFFICES ASSUME IInv, [Next]_vars PROVE IInv'
  OBVIOUS
<1>1. ASSUME NEW c \in Calls, Fails(c) \/ SetUserContext(c) \/ ExportIdentity(c)
      PROVE  IInv'
  <2>1. InProgress(c)
    BY <1>1 DEF Fails, SetUserContext, ExportIdentity, InProgress
  <2>2. \E r \in Results : End(c, r)
    BY <1>1 DEF Fails, SetUserContext, ExportIdentity, Results
  <2>3. UNCHANGED <<kind, mixin, storeVars, clientVars, disturbed>>
    BY <1>1 DEF Fails, SetUserContext, ExportIdentity
  <2>4. userContext' \in Calls \cup {None}
    <3>1. userContext \in Calls \cup {None} /\ keys \subseteq KeyStores \X Calls
      BY DEF IInv, TypeOK
    <3> QED
      BY <1>1, <3>1 DEF Fails, SetUserContext, ExportIdentity, LoadsFrom
  <2> QED
    BY <2>1, <2>2, <2>3, <2>4, EndKeeps
<1>2. CASE CloseDown \/ ClearHSMCache
  BY <1>2, SuiteKeeps DEF CloseDown, ClearHSMCache
<1>3. CASE UNCHANGED vars
  <2> USE <1>3 DEF vars, storeVars, clientVars, callVars, IInv
  <2>1. TypeOK' /\ Begun'
    BY DEF TypeOK, Begun
  <2>2. ClientFits'
    BY DEF ClientFits, OnSharedClient, InProgress, Partition, KeyStore
  <2>3. KeyFirst' /\ SavedIsLoadable'
    BY DEF KeyFirst, SavedIsLoadable, Loadable, LoadsFrom, Partition, KeyStore
  <2> QED
    BY <2>1, <2>2, <2>3
<1>4. ASSUME NEW l \in Labels, Delete(l) PROVE IInv'
  BY <1>3, <1>4, DeleteKeeps, CouchKeepsAll
<1> QED
  BY <1>1, <1>2, <1>3, <1>4, SetStateStoreKeeps, SetCryptoSuiteKeeps, StoreKeyKeeps,
     SaveUserKeeps DEF Next

\* IInv holds in every reachable state.
THEOREM Invariance == Spec => []IInv
BY IInvInit, IInvNext, PTL DEF Spec

\* Every variable keeps its type: no key or user goes to a store that was never
\* set.
THEOREM TypeCorrectness == Spec => []TypeOK
BY Invariance, PTL DEF IInv

\* A user in the partition of its label comes with its key, unless the call that
\* saved it was disturbed.
THEOREM SavedLoads == Spec => []SavedIsLoadable
BY Invariance, PTL DEF IInv

-----------------------------------------------------------------------------
(* The views: where everything in a partition came from                    *)

LEMMA ViewsInit == Init => ViewsInv
<1> SUFFICES ASSUME Init PROVE ViewsInv
  OBVIOUS
<1>1. IInv
  BY IInvInit
<1> USE DEF Init
<1>2. ClientTraced
  BY DEF ClientTraced, OnSharedClient, InProgress
<1>3. StoresTraced
  BY DEF StoresTraced
<1>4. UserFollows
  BY DEF UserFollows
<1> QED
  BY <1>1, <1>2, <1>3, <1>4 DEF ViewsInv

\* What the invariant is for.
LEMMA ViewsFollow == ViewsInv => ViewsAgree
<1> SUFFICES ASSUME ViewsInv, NEW l \in Labels
             PROVE  /\ Exists(l) /\ ~Loadable(l) => \E c \in Calls : Culprit(c, l)
                    /\ Loadable(l) => Exists(l) /\ (kind # "couch" => l \in GetAllLabels)
  BY DEF ViewsAgree
<1> USE DEF ViewsInv
<1>1. l \in Partitions /\ Partition(l) \in Partitions /\ l # "wallet" /\ l # "hsm"
  BY WalletAssumption DEF Partitions, Partition
<1>2. ASSUME Loadable(l)
      PROVE  Exists(l) /\ (kind # "couch" => l \in GetAllLabels)
  <2>1. users[<<Partition(l), l>>] # None
    BY <1>2 DEF Loadable, LoadsFrom
  <2>2. kind = "file" => l \in directories
    BY <1>1, <2>1 DEF StoresTraced, Partition
  <2>3. kind \in {"memory", "file", "couch"}
    BY DEF IInv, TypeOK
  <2> QED
    BY <2>1, <2>2, <2>3 DEF Exists, GetAllLabels, InStore, Partition
<1>3. ASSUME Exists(l), ~Loadable(l), \A c \in Calls : ~Culprit(c, l)
      PROVE  FALSE
  <2>1. ~Astray(l)
    BY <1>3 DEF Astray, Culprit, IInv, TypeOK
  <2>2. ASSUME users[<<Partition(l), l>>] # None PROVE FALSE
    <3>1. users[<<Partition(l), l>>] \in Calls /\ label[users[<<Partition(l), l>>]] = l
      BY <1>1, <2>2 DEF IInv, TypeOK, StoresTraced
    <3>2. users[<<Partition(l), l>>] \notin disturbed
      BY <1>3, <3>1 DEF Culprit
    <3> QED
      BY <1>3, <2>2, <3>2 DEF IInv, SavedIsLoadable
  <2>3. CASE kind = "file" /\ l \in directories
    BY <1>3, <2>2, <2>3 DEF UserFollows, Partition
  <2>4. CASE kind = "couch" /\ users[<<"wallet", l>>] # None
    BY <2>2, <2>4 DEF Partition
  <2>5. ASSUME kind = "memory", NEW c \in Calls, <<l, c>> \in keys PROVE FALSE
    <3>1. /\ label[c] = l
          /\ \/ pc[c] = "keyStored"
             \/ pc[c] = "ended" /\ result[c] \in {"saved", "failed"}
      BY <2>1, <2>5 DEF StoresTraced
    <3>2. pc[c] = "ended" /\ result[c] = "saved" /\ c \notin disturbed
      BY <1>3, <3>1 DEF Culprit, InProgress
    <3>3. users[<<l, l>>] # None
      BY <2>5, <3>1, <3>2 DEF UserFollows
    <3> QED
      BY <2>2, <2>5, <3>3 DEF Partition
  <2>6. ASSUME kind = "memory", NEW m \in Labels, users[<<l, m>>] # None PROVE FALSE
    <3>1. m = l
      BY <1>1, <2>1, <2>6 DEF StoresTraced
    <3> QED
      BY <2>2, <2>6, <3>1 DEF Partition
  <2> QED
    BY <1>3, <2>3, <2>4, <2>5, <2>6 DEF Exists, InStore
<1> QED
  BY <1>2, <1>3

-----------------------------------------------------------------------------
(* What a step leaves alone                                                *)

\* A label that is astray stays so.
LEMMA AstrayStays ==
    ASSUME ViewsInv, disturbed \subseteq disturbed',
           \A c \in Calls : pc[c] # "idle" => label'[c] = label[c],
           NEW l \in Labels, Astray(l)
    PROVE  Astray(l)'
<1>1. PICK d \in disturbed : label[d] = l
  BY DEF Astray
<1>2. d \in Calls /\ l # None
  BY WalletAssumption DEF ViewsInv, IInv, TypeOK
<1>3. pc[d] # "idle"
  BY <1>1, <1>2 DEF ViewsInv, StoresTraced
<1> QED
  BY <1>1, <1>2, <1>3 DEF Astray

\* A call that left a label half done did so for good.
LEMMA CulpritStays ==
    ASSUME ViewsInv, disturbed \subseteq disturbed', UNCHANGED kind,
           NEW c \in Calls, NEW l \in Labels, Culprit(c, l),
           pc[c] # "idle" => /\ label'[c] = label[c] /\ op'[c] = op[c]
                             /\ pc'[c] = pc[c] /\ result'[c] = result[c]
    PROVE  Culprit(c, l)'
<1>1. label[c] = l /\ l # None
  BY WalletAssumption DEF Culprit
<1>2. pc[c] # "idle"
  BY <1>1 DEF ViewsInv, StoresTraced
<1> QED
  BY <1>1, <1>2 DEF Culprit, InProgress

\* Without a change of its stores the shared client is as well traced as before.
LEMMA ClientTracedKeeps ==
    ASSUME ViewsInv, disturbed \subseteq disturbed',
           \A c \in Calls : pc[c] # "idle" => label'[c] = label[c],
           UNCHANGED <<kind, mixin, stateStore, cryptoStore>>,
           \A c \in OnSharedClient' :
              /\ c \in OnSharedClient
              /\ pc[c] = "opened" => pc'[c] = "opened"
    PROVE  ClientTraced'
<1> SUFFICES ASSUME NEW c \in OnSharedClient'
             PROVE  /\ \E l \in Labels : stateStore = Partition(l)
                                         /\ (l = label'[c] \/ Astray(l)')
                    /\ pc'[c] # "opened" =>
                          \E l \in Labels : cryptoStore = KeyStore(l)
                                            /\ (l = label'[c] \/ Astray(l)')
  BY DEF ClientTraced, Partition, KeyStore
<1>1. c \in OnSharedClient /\ c \in Calls /\ pc[c] # "idle" /\ label'[c] = label[c]
  BY DEF OnSharedClient, InProgress
<1> QED
  BY <1>1, AstrayStays DEF ViewsInv, ClientTraced

-----------------------------------------------------------------------------
(* The steps                                                               *)

LEMMA SetStateStoreViews ==
    ASSUME ViewsInv, NEW c \in Calls, NEW o \in {"import", "enroll", "load", "export"},
           NEW l \in Labels, SetStateStore(c, o, l)
    PROVE  ClientTraced' /\ StoresTraced' /\ UserFollows'
<1> USE DEF SetStateStore
<1>1. /\ pc \in [Calls -> {"idle", "opened", "configured", "keyStored", "ended"}]
      /\ op \in [Calls -> {"none", "import", "enroll", "load", "export"}]
      /\ label \in [Calls -> Labels \cup {None}] /\ keys \subseteq KeyStores \X Calls
      /\ users \in [Partitions \X Labels -> Calls \cup {None}] /\ disturbed \subseteq Calls
  BY DEF ViewsInv, IInv, TypeOK
<1>2. \A d \in Calls : d # c => op'[d] = op[d] /\ label'[d] = label[d] /\ pc'[d] = pc[d]
  BY <1>1
<1>3. op'[c] = o /\ label'[c] = l /\ pc'[c] = "opened" /\ pc[c] = "idle"
  BY <1>1
<1>4. \A d \in Calls : pc[d] # "idle" => /\ label'[d] = label[d]
                                         /\ pc'[d] = pc[d] /\ op'[d] = op[d]
  BY <1>2, <1>3
<1>5. disturbed \subseteq disturbed'
  OBVIOUS
<1>6. \A m \in Labels : Astray(m) => Astray(m)'
  BY <1>4, <1>5, AstrayStays
<1>7. ClientTraced'
  <2>1. CASE o \notin Shared
    <3>1. OnSharedClient' \subseteq OnSharedClient
      BY <1>2, <1>3, <2>1 DEF OnSharedClient, InProgress
    <3>2. \A d \in OnSharedClient' : d \in Calls /\ d # c
      BY <1>3, <2>1 DEF OnSharedClient
    <3> QED
      BY <1>2, <1>4, <1>5, <2>1, <3>1, <3>2, ClientTracedKeeps
  <2>2. CASE o \in Shared
    <3>1. stateStore' = Partition(l) /\ UNCHANGED <<cryptoStore, kind, mixin>>
      BY <2>2
    <3>2. OnSharedClient' = OnSharedClient \cup {c}
      BY <1>2, <1>3, <2>2 DEF OnSharedClient, InProgress
    <3>3. ASSUME NEW d \in OnSharedClient' 
          PROVE  /\ l = label'[d] \/ Astray(l)'
                 /\ pc'[d] # "opened" =>
                       \E m \in Labels : cryptoStore = KeyStore(m)
                                         /\ (m = label'[d] \/ Astray(m)')
      <4>1. CASE d = c
        BY <1>3, <4>1
      <4>2. CASE d # c
        <5>1. d \in OnSharedClient /\ d \in Calls /\ pc'[d] = pc[d] /\ label'[d] = label[d]
          BY <1>2, <3>2, <4>2 DEF OnSharedClient
        <5>2. c \in disturbed'
          BY <2>2, <5>1
        <5>3. Astray(l)'
          BY <1>3, <5>2 DEF Astray
        <5> QED
          BY <1>6, <5>1, <5>3 DEF ViewsInv, ClientTraced
      <4> QED
        BY <4>1, <4>2
    <3> QED
      BY <3>1, <3>3 DEF ClientTraced, Partition, KeyStore
  <2> QED
    BY <2>1, <2>2
<1>8. StoresTraced'
  <2>1. \A d \in Calls : (pc'[d] = "idle" => label'[d] = None)
                         /\ (pc'[d] # "ended" => result'[d] = "none")
    BY <1>2, <1>3 DEF ViewsInv, StoresTraced
  <2>2. ASSUME NEW k \in keys
        PROVE  /\ k[1] \in Labels => k[1] = label'[k[2]] \/ Astray(k[1])'
               /\ \/ pc'[k[2]] = "keyStored"
                  \/ pc'[k[2]] = "ended" /\ result'[k[2]] \in {"saved", "failed"}
    BY <1>1, <1>4, <1>6 DEF ViewsInv, StoresTraced
  <2>3. ASSUME NEW p \in Partitions, NEW m \in Labels, users[<<p, m>>] # None
        PROVE  /\ pc'[users[<<p, m>>]] = "ended" /\ label'[users[<<p, m>>]] = m
               /\ p \in Labels => p = m \/ Astray(p)'
               /\ kind = "file" => p \in directories'
    <3>1. users[<<p, m>>] \in Calls
      BY <1>1, <2>3
    <3> QED
      BY <1>4, <1>6, <2>3, <3>1 DEF ViewsInv, StoresTraced
  <2> QED
    BY <2>1, <2>2, <2>3 DEF StoresTraced
<1>9. UserFollows'
  <2>1. ASSUME NEW k \in keys, kind = "memory", k[1] = label'[k[2]],
               result[k[2]] = "saved", k[2] \notin disturbed'
        PROVE  users[<<k[1], k[1]>>] # None
    <3>1. k[2] \in Calls /\ pc[k[2]] # "idle"
      BY <1>1 DEF ViewsInv, StoresTraced
    <3> QED
      BY <1>4, <2>1, <3>1 DEF ViewsInv, UserFollows
  <2>2. ASSUME kind = "file", NEW m \in directories',
               users[<<m, m>>] = None
        PROVE  \E d \in Calls : Culprit(d, m)'
    <3>1. CASE m = l
      BY <1>3, <3>1 DEF Culprit, InProgress
    <3>2. CASE m \in directories
      <4>1. m \in Labels
        BY <3>2 DEF ViewsInv, IInv, TypeOK
      <4>2. PICK d \in Calls : Culprit(d, m)
        BY <2>2, <3>2 DEF ViewsInv, UserFollows
      <4> QED
        BY <1>4, <1>5, <4>1, <4>2, CulpritStays
    <3> QED
      BY <2>2, <3>1, <3>2
  <2> QED
    BY <2>1, <2>2 DEF UserFollows
<1> QED
  BY <1>7, <1>8, <1>9

LEMMA SetCryptoSuiteViews ==
    ASSUME ViewsInv, NEW c \in Calls, SetCryptoSuite(c)
    PROVE  ClientTraced' /\ StoresTraced' /\ UserFollows'
<1> USE DEF SetCryptoSuite, GoOn, storeVars
<1>1. /\ pc \in [Calls -> {"idle", "opened", "configured", "keyStored", "ended"}]
      /\ keys \subseteq KeyStores \X Calls
      /\ users \in [Partitions \X Labels -> Calls \cup {None}]
      /\ label[c] \in Labels
  BY DEF ViewsInv, IInv, TypeOK, Begun
<1>2. /\ pc'[c] = "configured" /\ pc[c] = "opened"
      /\ \A d \in Calls : d # c => pc'[d] = pc[d]
  BY <1>1
<1>3. ClientTraced'
  <2>1. OnSharedClient' = OnSharedClient
    BY <1>2 DEF OnSharedClient, InProgress
  <2>2. CASE op[c] \notin Shared
    <3>1. \A d \in OnSharedClient : d \in Calls /\ d # c
      BY <2>2 DEF OnSharedClient
    <3> QED
      BY <1>2, <2>1, <2>2, <3>1, ClientTracedKeeps
  <2>3. CASE op[c] \in Shared
    <3>1. c \in OnSharedClient
      BY <1>2, <2>3 DEF OnSharedClient, InProgress
    <3>2. cryptoStore' = KeyStore(label[c]) /\ UNCHANGED <<stateStore, kind, mixin, label, disturbed>>
      BY <2>3
    <3>3. \A d \in OnSharedClient : d = c \/ Astray(label[c])
      BY <3>1 DEF ViewsInv, IInv, ClientFits, Astray
    <3> QED
      BY <1>1, <2>1, <3>2, <3>3
         DEF ViewsInv, ClientTraced, Partition, KeyStore, Astray
  <2> QED
    BY <2>2, <2>3
<1>4. StoresTraced'
  <2>1. \A d \in Calls : (pc'[d] = "idle" => label'[d] = None)
                         /\ (pc'[d] # "ended" => result'[d] = "none")
    BY <1>2 DEF ViewsInv, StoresTraced
  <2>2. ASSUME NEW k \in keys
        PROVE  pc'[k[2]] = pc[k[2]]
    <3>1. k[2] \in Calls /\ k[2] # c
      BY <1>1, <1>2 DEF ViewsInv, StoresTraced
    <3> QED
      BY <1>2, <3>1
  <2>3. ASSUME NEW p \in Partitions, NEW m \in Labels, users[<<p, m>>] # None
        PROVE  pc'[users[<<p, m>>]] = pc[users[<<p, m>>]]
    <3>1. users[<<p, m>>] \in Calls /\ users[<<p, m>>] # c
      BY <1>1, <1>2, <2>3 DEF ViewsInv, StoresTraced
    <3> QED
      BY <1>2, <3>1
  <2> QED
    BY <2>1, <2>2, <2>3 DEF ViewsInv, StoresTraced, Astray
<1>5. UserFollows'
  <2>1. \A d \in Calls, m \in Labels : Culprit(d, m) => Culprit(d, m)'
    BY <1>2 DEF Culprit, InProgress
  <2> QED
    BY <2>1 DEF ViewsInv, UserFollows, IInv, TypeOK
<1> QED
  BY <1>3, <1>4, <1>5

\* A key of another label gets into a partition by an enrolment that found the
\* stores of a label astray.
LEMMA StoreKeyViews ==
    ASSUME ViewsInv, NEW c \in Calls, StoreKey(c)
    PROVE  ClientTraced' /\ StoresTraced' /\ UserFollows'
<1> USE DEF StoreKey, GoOn, clientVars
<1> DEFINE store == IF op[c] = "enroll" THEN cryptoStore ELSE KeyStore(label[c])
<1>1. /\ pc \in [Calls -> {"idle", "opened", "configured", "keyStored", "ended"}]
      /\ keys \subseteq KeyStores \X Calls /\ disturbed \subseteq Calls
      /\ users \in [Partitions \X Labels -> Calls \cup {None}]
      /\ label[c] \in Labels
  BY DEF ViewsInv, IInv, TypeOK, Begun
<1>2. /\ pc'[c] = "keyStored" /\ pc[c] = "configured"
      /\ \A d \in Calls : d # c => pc'[d] = pc[d]
  BY <1>1
<1>3. keys' = keys \cup {<<store, c>>}
      /\ directories' = IF kind = "file" /\ mixin = "x509"
                        THEN directories \cup {IF op[c] = "enroll" THEN cryptoStore ELSE label[c]}
                        ELSE directories
  OBVIOUS
<1>4. store \in Labels => store = label[c] \/ Astray(store)
  <2>1. \A m \in Labels : KeyStore(m) \in Labels => KeyStore(m) = m
    BY WalletAssumption DEF KeyStore, Partition
  <2>2. CASE op[c] = "enroll"
    <3>1. c \in OnSharedClient
      BY <1>2, <2>2 DEF OnSharedClient, InProgress, Shared
    <3>2. PICK m \in Labels : cryptoStore = KeyStore(m) /\ (m = label[c] \/ Astray(m))
      BY <1>2, <3>1 DEF ViewsInv, ClientTraced
    <3> QED
      BY <2>1, <2>2, <3>2
  <2> QED
    BY <1>1, <2>1, <2>2
<1>5. \A m \in Labels : Astray(m)' <=> Astray(m)
  BY DEF Astray
<1> HIDE DEF store
<1>6. ClientTraced'
  <2>1. \A d \in OnSharedClient' : d \in OnSharedClient /\ (pc[d] = "opened" => pc'[d] = "opened")
    BY <1>2 DEF OnSharedClient, InProgress
  <2> QED
    BY <2>1, ClientTracedKeeps
<1>7. StoresTraced'
  <2>1. \A d \in Calls : (pc'[d] = "idle" => label'[d] = None)
                         /\ (pc'[d] # "ended" => result'[d] = "none")
    BY <1>2 DEF ViewsInv, StoresTraced
  <2>2. ASSUME NEW k \in keys'
        PROVE  /\ k[1] \in Labels => k[1] = label'[k[2]] \/ Astray(k[1])'
               /\ \/ pc'[k[2]] = "keyStored"
                  \/ pc'[k[2]] = "ended" /\ result'[k[2]] \in {"saved", "failed"}
    <3>1. CASE k \in keys
      <4>1. k[2] \in Calls
        BY <1>1, <3>1
      <4> QED
        BY <1>2, <1>5, <3>1, <4>1 DEF ViewsInv, StoresTraced
    <3>2. CASE k = <<store, c>>
      BY <1>2, <1>4, <1>5, <3>2
    <3> QED
      BY <1>3, <3>1, <3>2
  <2>3. ASSUME NEW p \in Partitions, NEW m \in Labels, users[<<p, m>>] # None
        PROVE  /\ pc'[users[<<p, m>>]] = "ended" /\ label'[users[<<p, m>>]] = m
               /\ p \in Labels => p = m \/ Astray(p)'
               /\ kind = "file" => p \in directories'
    <3>1. users[<<p, m>>] \in Calls
      BY <1>1, <2>3
    <3>2. directories \subseteq directories'
      BY <1>3
    <3> QED
      BY <1>2, <1>5, <2>3, <3>1, <3>2 DEF ViewsInv, StoresTraced
  <2> QED
    BY <2>1, <2>2, <2>3 DEF StoresTraced
<1>8. UserFollows'
  <2>1. ASSUME NEW k \in keys', kind = "memory", k[1] = label[k[2]],
               result[k[2]] = "saved", k[2] \notin disturbed
        PROVE  users[<<k[1], k[1]>>] # None
    <3>1. result[c] = "none"
      BY <1>2 DEF ViewsInv, StoresTraced
    <3>2. k \in keys
      BY <1>3, <2>1, <3>1
    <3> QED
      BY <2>1, <3>2 DEF ViewsInv, UserFollows
  <2>2. \A d \in Calls, m \in Labels : Culprit(d, m) => Culprit(d, m)'
    BY <1>2 DEF Culprit, InProgress
  <2>3. ASSUME kind = "file", NEW m \in directories', users[<<m, m>>] = None
        PROVE  \E d \in Calls : Culprit(d, m)'
    <3>1. CASE m \in directories
      <4>1. m \in Labels
        BY <3>1 DEF ViewsInv, IInv, TypeOK
      <4> QED
        BY <2>2, <2>3, <3>1, <4>1 DEF ViewsInv, UserFollows
    <3>2. CASE m = label[c]
      BY <1>2, <3>2 DEF Culprit, InProgress
    <3>3. CASE mixin = "x509" /\ m = store
      <4>1. m \in Labels
        BY <1>1, <1>3, <2>3, <3>3, StoreKeyKeeps DEF ViewsInv, IInv, TypeOK
      <4>2. CASE Astray(m)
        BY <1>1, <4>2 DEF Astray, Culprit
      <4> QED
        BY <1>4, <3>2, <3>3, <4>1, <4>2
    <3> QED
      BY <1>3, <3>1, <3>2, <3>3 DEF store
  <2> QED
    BY <2>1, <2>3 DEF UserFollows
<1> QED
  BY <1>6, <1>7, <1>8

\* A user is saved in a partition that exists, next to its key if its call was
\* not disturbed.
LEMMA SaveUserViews ==
    ASSUME ViewsInv, NEW c \in Calls, SaveUser(c)
    PROVE  ClientTraced' /\ StoresTraced' /\ UserFollows'
<1> USE DEF SaveUser, End, clientVars
<1> DEFINE p == IF op[c] = "enroll" THEN stateStore ELSE Partition(label[c])
<1>1. /\ pc \in [Calls -> {"idle", "opened", "configured", "keyStored", "ended"}]
      /\ result \in [Calls -> Results]
      /\ keys \subseteq KeyStores \X Calls /\ disturbed \subseteq Calls
      /\ users \in [Partitions \X Labels -> Calls \cup {None}]
      /\ directories \subseteq Labels
      /\ label[c] \in Labels
  BY DEF ViewsInv, IInv, TypeOK, Begun
<1>2. /\ pc'[c] = "ended" /\ pc[c] = "keyStored" /\ result'[c] = "saved"
      /\ \A d \in Calls : d # c => pc'[d] = pc[d] /\ result'[d] = result[d]
  BY <1>1
<1>3. users' = [users EXCEPT ![<<p, label[c]>>] = c] /\ (kind = "file" => p \in directories)
  OBVIOUS
<1>4. op[c] = "enroll" => c \in OnSharedClient
  BY <1>2 DEF OnSharedClient, InProgress, Shared
<1>5. p \in Partitions /\ (p \in Labels => p = label[c] \/ Astray(p))
  <2>1. \A m \in Labels : Partition(m) \in Partitions
                         /\ (Partition(m) \in Labels => Partition(m) = m)
    BY StoresOfLabels, WalletAssumption DEF Partition
  <2>2. CASE op[c] = "enroll"
    <3>1. PICK m \in Labels : stateStore = Partition(m) /\ (m = label[c] \/ Astray(m))
      BY <1>4, <2>2 DEF ViewsInv, ClientTraced
    <3> QED
      BY <2>1, <2>2, <3>1
  <2> QED
    BY <1>1, <2>1, <2>2
<1>6. c \notin disturbed => p = Partition(label[c])
  BY <1>4 DEF ViewsInv, IInv, ClientFits
<1>7. c # None
  BY WalletAssumption
<1> HIDE DEF p
<1>8. \A q \in Partitions, m \in Labels :
         users'[<<q, m>>] = IF q = p /\ m = label[c] THEN c ELSE users[<<q, m>>]
  BY <1>1, <1>3, <1>5
<1>9. ClientTraced'
  <2>1. \A d \in OnSharedClient' : d \in OnSharedClient /\ (pc[d] = "opened" => pc'[d] = "opened")
    BY <1>2 DEF OnSharedClient, InProgress
  <2> QED
    BY <2>1, ClientTracedKeeps
<1>10. StoresTraced'
  <2>1. \A d \in Calls : (pc'[d] = "idle" => label'[d] = None)
                         /\ (pc'[d] # "ended" => result'[d] = "none")
    BY <1>2 DEF ViewsInv, StoresTraced
  <2>2. ASSUME NEW k \in keys
        PROVE  /\ k[1] \in Labels => k[1] = label[k[2]] \/ Astray(k[1])
               /\ \/ pc'[k[2]] = "keyStored"
                  \/ pc'[k[2]] = "ended" /\ result'[k[2]] \in {"saved", "failed"}
    <3>1. k[2] \in Calls
      BY <1>1
    <3> QED
      BY <1>2, <3>1 DEF ViewsInv, StoresTraced
  <2>3. ASSUME NEW q \in Partitions, NEW m \in Labels, users'[<<q, m>>] # None
        PROVE  /\ pc'[users'[<<q, m>>]] = "ended" /\ label[users'[<<q, m>>]] = m
               /\ q \in Labels => q = m \/ Astray(q)
               /\ kind = "file" => q \in directories
    <3>1. CASE q = p /\ m = label[c]
      BY <1>2, <1>3, <1>5, <1>8, <3>1
    <3>2. CASE ~(q = p /\ m = label[c])
      <4>1. users'[<<q, m>>] = users[<<q, m>>] /\ users[<<q, m>>] \in Calls
        BY <1>1, <1>8, <2>3, <3>2
      <4> QED
        BY <1>2, <2>3, <4>1 DEF ViewsInv, StoresTraced
    <3> QED
      BY <3>1, <3>2
  <2> QED
    BY <2>1, <2>2, <2>3 DEF StoresTraced, Astray
<1>11. UserFollows'
  <2>1. ASSUME NEW k \in keys, kind = "memory", k[1] = label[k[2]],
               result'[k[2]] = "saved", k[2] \notin disturbed
        PROVE  users'[<<k[1], k[1]>>] # None
    <3>1. k[2] \in Calls /\ k[1] \in Labels
      BY <1>1, <2>1 DEF ViewsInv, IInv, Begun, StoresTraced
    <3>2. CASE k[2] = c
      <4>1. p = k[1]
        BY <1>6, <2>1, <3>2 DEF Partition
      <4> QED
        BY <1>5, <1>7, <1>8, <2>1, <3>1, <3>2, <4>1
    <3>3. CASE k[2] # c
      <4>1. users[<<k[1], k[1]>>] # None
        BY <1>2, <2>1, <3>1, <3>3 DEF ViewsInv, UserFollows
      <4> QED
        BY <1>7, <1>8, <3>1, <4>1 DEF Partitions
    <3> QED
      BY <3>2, <3>3
  <2>2. ASSUME kind = "file", NEW m \in directories, users'[<<m, m>>] = None
        PROVE  \E d \in Calls : Culprit(d, m)'
    <3>1. m \in Labels /\ m \in Partitions
      BY <1>1 DEF Partitions
    <3>2. users[<<m, m>>] = None /\ ~(p = m /\ m = label[c])
      BY <1>7, <1>8, <2>2, <3>1
    <3>3. PICK d \in Calls : Culprit(d, m)
      BY <2>2, <3>2 DEF ViewsInv, UserFollows
    <3>4. CASE d = c
      <4>1. c \in disturbed
        BY <1>6, <2>2, <3>2, <3>3, <3>4 DEF Culprit, Partition
      <4> QED
        BY <3>3, <3>4, <4>1 DEF Culprit
    <3>5. CASE d # c
      BY <1>2, <3>3, <3>5 DEF Culprit, InProgress
    <3> QED
      BY <3>4, <3>5
  <2> QED
    BY <2>1, <2>2 DEF UserFollows
<1> QED
  BY <1>9, <1>10, <1>11

\* A call that ends without saving has failed, or found what there is of its label
\* in its stores or, if it is a load, in the memory of the client.
LEMMA EndViews ==
    ASSUME ViewsInv, NEW c \in Calls, NEW r \in {"failed", "loaded", "refused", "absent"},
           InProgress(c), End(c, r),
           r # "failed" => pc[c] = "configured",
           r = "loaded" => op[c] = "load" \/ users[<<Partition(label[c]), label[c]>>] # None,
           UNCHANGED <<kind, mixin, storeVars, clientVars, disturbed>>
    PROVE  ClientTraced' /\ StoresTraced' /\ UserFollows'
<1> USE DEF End, storeVars, clientVars
<1>1. /\ pc \in [Calls -> {"idle", "opened", "configured", "keyStored", "ended"}]
      /\ result \in [Calls -> Results]
      /\ keys \subseteq KeyStores \X Calls /\ disturbed \subseteq Calls
      /\ users \in [Partitions \X Labels -> Calls \cup {None}]
  BY DEF ViewsInv, IInv, TypeOK
<1>2. /\ pc'[c] = "ended" /\ pc[c] # "ended" /\ pc[c] # "idle" /\ result'[c] = r
      /\ \A d \in Calls : d # c => pc'[d] = pc[d] /\ result'[d] = result[d]
  BY <1>1 DEF InProgress
<1>3. ClientTraced'
  <2>1. \A d \in OnSharedClient' : d \in OnSharedClient /\ (pc[d] = "opened" => pc'[d] = "opened")
    BY <1>2 DEF OnSharedClient, InProgress
  <2> QED
    BY <2>1, ClientTracedKeeps
<1>4. StoresTraced'
  <2>1. \A d \in Calls : (pc'[d] = "idle" => label'[d] = None)
                         /\ (pc'[d] # "ended" => result'[d] = "none")
    BY <1>2 DEF ViewsInv, StoresTraced
  <2>2. ASSUME NEW k \in keys
        PROVE  \/ pc'[k[2]] = "keyStored"
               \/ pc'[k[2]] = "ended" /\ result'[k[2]] \in {"saved", "failed"}
    <3>1. k[2] \in Calls
      BY <1>1
    <3>2. k[2] = c => r = "failed"
      BY <1>2 DEF ViewsInv, StoresTraced
    <3> QED
      BY <1>2, <3>1, <3>2 DEF ViewsInv, StoresTraced
  <2>3. ASSUME NEW p \in Partitions, NEW m \in Labels, users[<<p, m>>] # None
        PROVE  pc'[users[<<p, m>>]] = "ended"
    <3>1. users[<<p, m>>] \in Calls
      BY <1>1, <2>3
    <3> QED
      BY <1>2, <2>3, <3>1 DEF ViewsInv, StoresTraced
  <2> QED
    BY <2>1, <2>2, <2>3 DEF ViewsInv, StoresTraced, Astray
<1>5. UserFollows'
  <2>1. ASSUME NEW k \in keys, result'[k[2]] = "saved" PROVE result[k[2]] = "saved"
    <3>1. k[2] \in Calls
      BY <1>1
    <3> QED
      BY <1>2, <2>1, <3>1
  <2>2. ASSUME kind = "file", NEW m \in directories, users[<<m, m>>] = None
        PROVE  \E d \in Calls : Culprit(d, m)'
    <3>1. PICK d \in Calls : Culprit(d, m)
      BY <2>2 DEF ViewsInv, UserFollows
    <3>2. CASE d = c
      <4>1. CASE c \in disturbed
        BY <3>1, <3>2, <4>1 DEF Culprit
      <4>2. CASE c \notin disturbed
        <5>1. r # "loaded" \/ op[c] = "load"
          BY <2>2, <3>1, <3>2, <4>2 DEF Culprit, Partition
        <5> QED
          BY <1>2, <2>2, <3>1, <3>2, <5>1 DEF Culprit
      <4> QED
        BY <4>1, <4>2
    <3>3. CASE d # c
      BY <1>2, <3>1, <3>3 DEF Culprit, InProgress
    <3> QED
      BY <3>2, <3>3
  <2> QED
    BY <2>1, <2>2 DEF ViewsInv, UserFollows
<1> QED
  BY <1>3, <1>4, <1>5

\* A delete leaves nothing of its label, and the others as they are.
LEMMA DeleteViews ==
    ASSUME ViewsInv, NEW l \in Labels, Delete(l), kind # "couch"
    PROVE  ClientTraced' /\ StoresTraced' /\ UserFollows'
<1> USE DEF Delete, RemovePartition, clientVars, callVars
<1>1. users \in [Partitions \X Labels -> Calls \cup {None}] /\ directories \subseteq Labels
      /\ disturbed \subseteq disturbed'
  BY DEF ViewsInv, IInv, TypeOK
<1>2. \A m \in Labels : Astray(m) => Astray(m)'
  BY <1>1, AstrayStays
<1>3. \A p \in Partitions, m \in Labels :
         users'[<<p, m>>] = IF p = l THEN None ELSE users[<<p, m>>]
  OBVIOUS
<1>4. ClientTraced'
  <2>1. OnSharedClient' = OnSharedClient
    BY DEF OnSharedClient, InProgress
  <2> QED
    BY <1>1, <2>1, ClientTracedKeeps
<1>5. StoresTraced'
  <2>1. \A d \in Calls : (pc'[d] = "idle" => label'[d] = None)
                         /\ (pc'[d] # "ended" => result'[d] = "none")
    BY DEF ViewsInv, StoresTraced
  <2>2. ASSUME NEW k \in keys'
        PROVE  /\ k[1] \in Labels => k[1] = label[k[2]] \/ Astray(k[1])'
               /\ \/ pc[k[2]] = "keyStored"
                  \/ pc[k[2]] = "ended" /\ result[k[2]] \in {"saved", "failed"}
    BY <1>2 DEF ViewsInv, StoresTraced
  <2>3. ASSUME NEW p \in Partitions, NEW m \in Labels, users'[<<p, m>>] # None
        PROVE  /\ pc[users'[<<p, m>>]] = "ended" /\ label[users'[<<p, m>>]] = m
               /\ p \in Labels => p = m \/ Astray(p)'
               /\ kind = "file" => p \in directories'
    <3>1. p # l /\ users'[<<p, m>>] = users[<<p, m>>]
      BY <1>3, <2>3
    <3> QED
      BY <1>2, <2>3, <3>1 DEF ViewsInv, StoresTraced
  <2>4. pc' = pc /\ label' = label /\ result' = result /\ kind' = kind
    OBVIOUS
  <2> HIDE DEF Delete, RemovePartition
  <2> QED
    BY <2>1, <2>2, <2>3, <2>4 DEF StoresTraced
<1>6. UserFollows'
  <2>1. ASSUME NEW k \in keys', kind = "memory", k[1] = label[k[2]],
               result[k[2]] = "saved", k[2] \notin disturbed'
        PROVE  users'[<<k[1], k[1]>>] # None
    <3>1. k \in keys /\ k[1] # l /\ k[2] \notin disturbed
      BY <1>1, <2>1
    <3>2. users[<<k[1], k[1]>>] # None
      BY <2>1, <3>1 DEF ViewsInv, UserFollows
    <3>3. k[1] \in Labels /\ k[1] \in Partitions
      BY <2>1, <3>1 DEF ViewsInv, IInv, TypeOK, Begun, StoresTraced, Partitions
    <3> QED
      BY <1>3, <3>1, <3>2, <3>3
  <2>2. ASSUME kind = "file", NEW m \in directories', users'[<<m, m>>] = None
        PROVE  \E d \in Calls : Culprit(d, m)'
    <3>1. m \in directories /\ m # l /\ m \in Labels /\ m \in Partitions
      BY <1>1 DEF Partitions
    <3>2. users[<<m, m>>] = None
      BY <1>3, <2>2, <3>1
    <3>3. PICK d \in Calls : Culprit(d, m)
      BY <2>2, <3>1, <3>2 DEF ViewsInv, UserFollows
    <3> QED
      BY <1>1, <3>3 DEF Culprit, InProgress
  <2> QED
    BY <2>1, <2>2 DEF UserFollows
<1> QED
  BY <1>4, <1>5, <1>6

\* The cache of suites holds nothing of a label.
LEMMA SuiteViews ==
    ASSUME ViewsInv,
           UNCHANGED <<kind, mixin, storeVars, stateStore, cryptoStore>>,
           UNCHANGED <<callVars, disturbed>>
    PROVE  ClientTraced' /\ StoresTraced' /\ UserFollows'
<1> USE DEF ViewsInv, storeVars, callVars
<1>1. ClientTraced'
  BY DEF ClientTraced, OnSharedClient, InProgress, Partition, KeyStore, Astray
<1>2. StoresTraced'
  BY DEF StoresTraced, Astray
<1>3. UserFollows'
  BY DEF UserFollows, Culprit, InProgress
<1> QED
  BY <1>1, <1>2, <1>3

-----------------------------------------------------------------------------
(* The theorems                                                            *)

LEMMA ViewsNext == ViewsInv /\ [Next]_vars => ViewsInv'
<1> SUFFICES ASSUME ViewsInv, [Next]_vars PROVE ClientTraced' /\ StoresTraced' /\ UserFollows'
  BY IInvNext DEF ViewsInv
<1>1. ASSUME NEW c \in Calls, Fails(c) \/ SetUserContext(c) \/ ExportIdentity(c)
      PROVE  ClientTraced' /\ StoresTraced' /\ UserFollows'
  <2>1. InProgress(c) /\ UNCHANGED <<kind, mixin, storeVars, clientVars, disturbed>>
    BY <1>1 DEF Fails, SetUserContext, ExportIdentity, InProgress
  <2>2. CASE Fails(c)
    BY <2>1, <2>2, EndViews DEF Fails
  <2>3. CASE SetUserContext(c)
    <3>1. pc[c] = "configured" /\ op[c] = "load" /\ \E r \in {"loaded", "refused"} : End(c, r)
      BY <2>3 DEF SetUserContext
    <3> QED
      BY <2>1, <3>1, EndViews
  <2>4. CASE ExportIdentity(c)
    <3> DEFINE r == IF users[<<Partition(label[c]), label[c]>>] = None THEN "absent"
                    ELSE IF SuiteWorks /\ Loadable(label[c]) THEN "loaded" ELSE "refused"
    <3>1. pc[c] = "configured" /\ End(c, r)
      BY <2>4 DEF ExportIdentity
    <3>2. /\ r \in {"failed", "loaded", "refused", "absent"} /\ r # "failed"
          /\ r = "loaded" => users[<<Partition(label[c]), label[c]>>] # None
      OBVIOUS
    <3> HIDE DEF r
    <3> QED
      BY <2>1, <3>1, <3>2, EndViews
  <2> QED
    BY <1>1, <2>2, <2>3, <2>4
<1>2. CASE CloseDown \/ ClearHSMCache
  BY <1>2, SuiteViews DEF CloseDown, ClearHSMCache
<1>3. CASE UNCHANGED vars
  BY <1>3, SuiteViews DEF vars, clientVars
<1>4. ASSUME NEW l \in Labels, Delete(l)
      PROVE  ClientTraced' /\ StoresTraced' /\ UserFollows'
  BY <1>3, <1>4, DeleteViews, CouchKeepsAll
<1> QED
  BY <1>1, <1>2, <1>3, <1>4, SetStateStoreViews, SetCryptoSuiteViews, StoreKeyViews,
     SaveUserViews DEF Next

\* ViewsInv holds in every reachable state.
THEOREM ViewsInvariance == Spec => []ViewsInv
BY ViewsInit, ViewsNext, PTL DEF Spec

\* exists, list and what a client can load agree, but for a label that some call
\* left half done.
THEOREM ViewsAlwaysAgree == Spec => []ViewsAgree
BY ViewsInvariance, ViewsFollow, PTL

\* Whatever meets on the shared client, setUserContext returns a user of its label;
\* if nothing did, the one the client held, or the one saved last in the wallet.
THEOREM RightAnswer == Spec => AnswersForItsLabel
<1> DEFINE Right(c) ==
       LET l == label[c] IN
       /\ result'[c] = "loaded" => userContext' # None /\ label[userContext'] = l
       /\ c \notin disturbed =>
             /\ (result'[c] = "loaded") = (Holds(l) \/ (Loadable(l) /\ SuiteWorks))
             /\ userContext' \in {userContext, users[<<Partition(l), l>>]}
<1>1. ASSUME ViewsInv, Next, NEW c \in Calls, op[c] = "load",
             pc[c] = "configured", pc'[c] = "ended"
      PROVE  Right(c)
  <2>1. SetUserContext(c)
    <3>1. pc' # pc /\ pc \in [Calls -> {"idle", "opened", "configured", "keyStored", "ended"}]
      BY <1>1 DEF ViewsInv, IInv, TypeOK
    <3>2. PICK d \in Calls :
             \/ \E o \in {"import", "enroll", "load", "export"}, l \in Labels :
                   SetStateStore(d, o, l)
             \/ SetCryptoSuite(d) \/ StoreKey(d) \/ SaveUser(d) \/ Fails(d)
             \/ SetUserContext(d) \/ ExportIdentity(d)
      BY <1>1, <3>1 DEF Next, Delete, CloseDown, ClearHSMCache, callVars
    <3>3. d = c
      BY <1>1, <3>1, <3>2 DEF SetStateStore, SetCryptoSuite, StoreKey, SaveUser, Fails,
                              SetUserContext, ExportIdentity, GoOn, End
    <3> QED
      BY <1>1, <3>1, <3>2, <3>3 DEF SetStateStore, SetCryptoSuite, StoreKey, SaveUser,
                                    Fails, ExportIdentity, GoOn, End, Saving
  <2> DEFINE loads == SuiteWorks /\ LoadsFrom(stateStore, cryptoStore, label[c])
  <2>2. c \in OnSharedClient /\ stateStore \in Partitions /\ label[c] \in Labels
    BY <1>1, StoresOfLabels
       DEF ViewsInv, IInv, TypeOK, ClientFits, OnSharedClient, InProgress, Shared, Begun
  <2>3. c \notin disturbed =>
           stateStore = Partition(label[c]) /\ cryptoStore = KeyStore(label[c])
    BY <1>1, <2>2 DEF ViewsInv, IInv, ClientFits
  <2>4. loads => /\ users[<<stateStore, label[c]>>] # None
                 /\ label[users[<<stateStore, label[c]>>]] = label[c]
    BY <1>1, <2>2 DEF LoadsFrom, ViewsInv, StoresTraced
  <2>5. c \notin disturbed => (loads <=> Loadable(label[c]) /\ SuiteWorks)
    BY <2>3 DEF Loadable
  <2>6. /\ result'[c] = (IF Holds(label[c]) \/ loads THEN "loaded" ELSE "refused")
        /\ userContext' = IF loads /\ ~Holds(label[c]) THEN users[<<stateStore, label[c]>>]
                          ELSE userContext
    BY <1>1, <2>1 DEF SetUserContext, End, ViewsInv, IInv, TypeOK
  <2> HIDE DEF loads
  <2> QED
    BY <2>3, <2>4, <2>5, <2>6 DEF Holds
<1>2. ViewsInv /\ [Next]_vars =>
        [\A c \in Calls : op[c] = "load" /\ pc[c] = "configured" /\ pc'[c] = "ended"
            => Right(c)]_vars
  BY <1>1 DEF vars
<1> QED
  BY <1>2, ViewsInvariance, PTL DEF Spec, AnswersForItsLabel

\* Nothing but a save that is answered makes an identity loadable, and nothing but a
\* delete of its label, or a disturbed call that saves over it, takes it away.
THEOREM KeptUntilDeleted == Spec => LoadableUntilDeleted
<1> DEFINE Came(l) == ~Loadable(l) /\ Loadable(l)' => \E c \in Calls :
                         label[c] = l /\ pc[c] = "keyStored" /\ result'[c] = "saved"
           Went(l) == Loadable(l) /\ ~Loadable(l)' =>
              \/ \E c \in disturbed : label[c] = l /\ users'[<<Partition(l), l>>] = c
              \/ /\ kind # "couch" /\ UNCHANGED pc
                 /\ \A m \in Labels \ {l} : users'[<<m, m>>] = users[<<m, m>>]
<1>1. ASSUME ViewsInv, Next, NEW l \in Labels PROVE Came(l) /\ Went(l)
  <2>1. ASSUME UNCHANGED <<kind, mixin, keys, users>> PROVE Loadable(l)' = Loadable(l)
    BY <2>1 DEF Loadable, LoadsFrom, Partition, KeyStore
  <2>2. ASSUME NEW c \in Calls, StoreKey(c) PROVE Came(l) /\ Went(l)
    <3>1. keys \subseteq keys' /\ \A k \in keys' : k \in keys \/ k[2] = c
      BY <2>2 DEF StoreKey
    <3>2. users[<<Partition(l), l>>] # c
      <4>1. c # None /\ pc[c] = "configured" /\ Partition(l) \in Partitions
        BY <2>2, StoresOfLabels, WalletAssumption DEF StoreKey
      <4> QED
        BY <1>1, <4>1 DEF ViewsInv, StoresTraced
    <3>3. UNCHANGED <<kind, mixin, users>>
      BY <2>2 DEF StoreKey
    <3>4. Loadable(l)' = Loadable(l)
      BY <3>1, <3>2, <3>3 DEF Loadable, LoadsFrom, Partition, KeyStore
    <3> QED
      BY <3>4
  <2>3. ASSUME NEW c \in Calls, SaveUser(c) PROVE Came(l) /\ Went(l)
    <3> DEFINE p == IF op[c] = "enroll" THEN stateStore ELSE Partition(label[c])
    <3>1. /\ users' = [users EXCEPT ![<<p, label[c]>>] = c]
          /\ pc[c] = "keyStored" /\ result'[c] = "saved" /\ UNCHANGED <<kind, mixin, keys>>
      BY <1>1, <2>3 DEF SaveUser, End, ViewsInv, IInv, TypeOK
    <3> HIDE DEF p
    <3>2. Partition(l) \in Partitions /\ users \in [Partitions \X Labels -> Calls \cup {None}]
      BY <1>1, StoresOfLabels DEF ViewsInv, IInv, TypeOK
    <3>3. CASE p = Partition(l) /\ label[c] = l
      <4>1. users'[<<Partition(l), l>>] = c /\ c # None
        BY <3>1, <3>2, <3>3, WalletAssumption
      <4>2. c \notin disturbed => Loadable(l)'
        <5>1. c \notin disturbed => <<KeyStore(l), c>> \in keys
          BY <1>1, <3>1, <3>3 DEF ViewsInv, IInv, KeyFirst
        <5> QED
          BY <3>1, <4>1, <5>1 DEF Loadable, LoadsFrom, Partition, KeyStore
      <4> QED
        BY <3>1, <3>3, <4>1, <4>2
    <3>4. CASE ~(p = Partition(l) /\ label[c] = l)
      <4>1. users'[<<Partition(l), l>>] = users[<<Partition(l), l>>]
        BY <3>1, <3>2, <3>4
      <4>2. Loadable(l)' = Loadable(l)
        BY <3>1, <4>1 DEF Loadable, LoadsFrom, Partition, KeyStore
      <4> QED
        BY <4>2
    <3> QED
      BY <3>3, <3>4
  <2>4. ASSUME NEW d \in Labels, Delete(d) PROVE Came(l) /\ Went(l)
    <3>1. CASE kind = "couch"
      BY <2>1, <2>4, <3>1 DEF Delete, storeVars
    <3>2. CASE kind # "couch"
      <4>1. /\ Partition(l) = l /\ l \in Partitions /\ UNCHANGED <<kind, mixin, pc>>
            /\ keys' = {k \in keys : k[1] # d}
            /\ \A m \in Labels : users'[<<m, m>>] = IF m = d THEN None ELSE users[<<m, m>>]
        BY <2>4, <3>2 DEF Delete, RemovePartition, Partition, Partitions, callVars
      <4>2. CASE l = d
        BY <3>2, <4>1, <4>2 DEF Loadable, LoadsFrom, Partition
      <4>3. CASE l # d
        <5>1. KeyStore(l) # d
          BY <4>1, <4>3, WalletAssumption DEF KeyStore
        <5>2. Loadable(l)' = Loadable(l)
          BY <4>1, <4>3, <5>1 DEF Loadable, LoadsFrom, Partition, KeyStore
        <5> QED
          BY <5>2
      <4> QED
        BY <4>2, <4>3
    <3> QED
      BY <3>1, <3>2
  <2>5. \/ UNCHANGED <<kind, mixin, keys, users>>
        \/ \E c \in Calls : StoreKey(c) \/ SaveUser(c)
        \/ \E d \in Labels : Delete(d)
    BY <1>1 DEF Next, SetStateStore, SetCryptoSuite, Fails, SetUserContext, ExportIdentity,
       CloseDown, ClearHSMCache, storeVars
  <2> HIDE DEF Came, Went
  <2>6. CASE UNCHANGED <<kind, mixin, keys, users>>
    BY <2>1, <2>6 DEF Came, Went
  <2> QED
    BY <2>2, <2>3, <2>4, <2>5, <2>6
<1>2. ViewsInv /\ [Next]_vars =>
        [\A l \in Labels :
            /\ ~Loadable(l) /\ Loadable(l)' => \E c \in Calls :
                  label[c] = l /\ pc[c] = "keyStored" /\ result'[c] = "saved"
            /\ Loadable(l) /\ ~Loadable(l)' =>
                  \/ \E c \in disturbed : label[c] = l /\ users'[<<Partition(l), l>>] = c
                  \/ /\ kind # "couch" /\ UNCHANGED pc
                     /\ \A m \in Labels \ {l} : users'[<<m, m>>] = users[<<m, m>>]]_vars
  BY <1>1 DEF vars
<1> QED
  BY <1>2, ViewsInvariance, PTL DEF Spec, LoadableUntilDeleted

-----------------------------------------------------------------------------
(* The map that undisturbed callers see                                    *)

UndisturbedNext == Next /\ UNCHANGED disturbed

\* What was disturbed stays so: if no call is after a step, none was before it.
LEMMA DisturbedForEver ==
    ASSUME [Next]_vars, disturbed' = {}
    PROVE  UNCHANGED disturbed
<1>1. ASSUME NEW c \in Calls, NEW o \in {"import", "enroll", "load", "export"},
             NEW l \in Labels, SetStateStore(c, o, l)
      PROVE  disturbed \subseteq disturbed'
  BY <1>1 DEF SetStateStore
<1> QED
  BY <1>1 DEF Next, SetCryptoSuite, StoreKey, SaveUser, Fails, SetUserContext, ExportIdentity,
      Delete, RemovePartition, CloseDown, ClearHSMCache, vars

LEMMA UndisturbedInit == Init => UndisturbedInv
BY ViewsInit DEF Init, UndisturbedInv, Answered, SuiteHeld

\* A step of a call that is in progress, or one that has not begun.
LEMMA AnsweredKeeps ==
    ASSUME UndisturbedInv, Next
    PROVE  Answered'
<1> USE DEF UndisturbedInv, ViewsInv, IInv, TypeOK
<1>1. ASSUME NEW c \in Calls, NEW o \in {"import", "enroll", "load", "export"},
             NEW l \in Labels, SetStateStore(c, o, l)
      PROVE  Answered'
  BY <1>1 DEF SetStateStore, Answered
<1>2. ASSUME NEW c \in Calls, NEW at \in {"configured", "keyStored"},
             pc[c] \in {"opened", "configured"}, GoOn(c, at)
      PROVE  Answered'
  BY <1>2 DEF GoOn, Answered
<1>3. ASSUME NEW c \in Calls, InProgress(c),
             NEW r \in {"saved", "failed", "loaded", "refused", "absent"}, End(c, r)
      PROVE  Answered'
  BY <1>3 DEF End, Answered, InProgress
<1>4. CASE UNCHANGED callVars
  BY <1>4 DEF callVars, Answered
<1> QED
  BY <1>1, <1>2, <1>3, <1>4 DEF Next, SetCryptoSuite, StoreKey, SaveUser, Fails,
      SetUserContext, ExportIdentity, InProgress, Delete, CloseDown, ClearHSMCache

\* The suite is opened before a call is configured, and closed between calls only.
LEMMA SuiteHeldKeeps ==
    ASSUME UndisturbedInv, Next
    PROVE  SuiteHeld'
<1> USE DEF UndisturbedInv, ViewsInv, IInv, TypeOK, SuiteHeld
<1>1. ASSUME NEW c \in Calls, NEW o \in {"import", "enroll", "load", "export"},
             NEW l \in Labels, SetStateStore(c, o, l)
      PROVE  SuiteHeld'
  BY <1>1 DEF SetStateStore
<1>2. ASSUME NEW c \in Calls, SetCryptoSuite(c)
      PROVE  SuiteHeld'
  BY <1>2 DEF SetCryptoSuite, GoOn
<1>3. ASSUME NEW c \in Calls, StoreKey(c)
      PROVE  SuiteHeld'
  BY <1>3 DEF StoreKey, SuiteWorks, GoOn, clientVars
<1>4. ASSUME NEW c \in Calls, NEW r, End(c, r), UNCHANGED <<mixin, suite>>
      PROVE  SuiteHeld'
  BY <1>4 DEF End
<1>5. CASE CloseDown \/ ClearHSMCache
  BY <1>5 DEF CloseDown, ClearHSMCache, Quiet, InProgress, callVars
<1>6. ASSUME NEW l \in Labels, Delete(l)
      PROVE  SuiteHeld'
  BY <1>6 DEF Delete, callVars, clientVars
<1> QED
  BY <1>1, <1>2, <1>3, <1>4, <1>5, <1>6 DEF Next, SaveUser, Fails, SetUserContext,
      ExportIdentity, clientVars

LEMMA UndisturbedKeeps == UndisturbedInv /\ [UndisturbedNext]_vars => UndisturbedInv'
<1> SUFFICES ASSUME UndisturbedInv, [UndisturbedNext]_vars PROVE UndisturbedInv'
  OBVIOUS
<1>1. ViewsInv' /\ disturbed' = {}
  BY ViewsNext DEF UndisturbedInv, UndisturbedNext, vars
<1>2. CASE UndisturbedNext
  BY <1>1, <1>2, AnsweredKeeps, SuiteHeldKeeps DEF UndisturbedInv, UndisturbedNext
<1>3. CASE UNCHANGED vars
  BY <1>1, <1>3 DEF UndisturbedInv, Answered, SuiteHeld, vars, clientVars, callVars
<1> QED
  BY <1>2, <1>3

\* UndisturbedInv holds as long as no call was disturbed.
THEOREM UndisturbedInvariance == Spec => [](disturbed = {} => UndisturbedInv)
<1> DEFINE P == ViewsInv /\ (disturbed = {} => UndisturbedInv)
<1>1. Init => P
  BY ViewsInit, UndisturbedInit
<1>2. P /\ [Next]_vars => P'
  <2> SUFFICES ASSUME P, [Next]_vars PROVE P'
    OBVIOUS
  <2>1. ViewsInv'
    BY ViewsNext
  <2>2. ASSUME disturbed' = {} PROVE UndisturbedInv'
    <3>1. [UndisturbedNext]_vars /\ disturbed = {}
      BY <2>2, DisturbedForEver DEF UndisturbedNext
    <3> QED
      BY <3>1, UndisturbedKeeps
  <2> QED
    BY <2>1, <2>2
<1> QED
  BY <1>1, <1>2, PTL DEF Spec

\* Whoever has a user has its key.
LEMMA StoredIsUser ==
    UndisturbedInv => Stored = [l \in Labels |-> users[<<Partition(l), l>>]]
BY DEF UndisturbedInv, ViewsInv, IInv, SavedIsLoadable, Stored

LEMMA StoredIsUserNext ==
    ASSUME UndisturbedInv, UndisturbedInv', UNCHANGED kind
    PROVE  /\ Stored = [l \in Labels |-> users[<<Partition(l), l>>]]
           /\ Stored' = [l \in Labels |-> users'[<<Partition(l), l>>]]
<1>1. (Stored = [l \in Labels |-> users[<<Partition(l), l>>]])'
  BY StoredIsUser, PTL
<1> QED
  BY <1>1, StoredIsUser DEF Partition

LEMMA StoreInit == Init => Store!Init
BY StoresOfLabels DEF Init, Store!Init, Stored, Loadable, LoadsFrom

LEMMA SetStateStoreRefines ==
    ASSUME UndisturbedInv, UndisturbedInv', NEW c \in Calls,
           NEW o \in {"import", "enroll", "load", "export"}, NEW l \in Labels,
           SetStateStore(c, o, l)
    PROVE  Store!Next
<1>1. op[c] = "none"
  BY DEF SetStateStore, UndisturbedInv, Answered
<1>2. Stored' = Stored
  BY DEF SetStateStore, Stored, Loadable, LoadsFrom, Partition, KeyStore
<1>3. Store!Begin(c, o, l)
  BY <1>1, <1>2 DEF SetStateStore, Store!Begin
<1> QED
  BY <1>3 DEF Store!Next

\* The steps before the answer are nobody's business.
LEMMA GoOnRefines ==
    ASSUME UndisturbedInv, UndisturbedInv', NEW c \in Calls, SetCryptoSuite(c) \/ StoreKey(c)
    PROVE  UNCHANGED Store!vars
<1>1. UNCHANGED <<kind, users, userContext, op, label, result>>
  BY DEF SetCryptoSuite, StoreKey, GoOn, storeVars
<1>2. Stored' = Stored
  BY <1>1, StoredIsUserNext
<1>3. suite' # "closed" <=> suite # "closed"
  BY DEF SetCryptoSuite, StoreKey, clientVars
<1> QED
  BY <1>1, <1>2, <1>3 DEF Store!vars

\* A call in progress is waiting for its answer.
LEMMA InProgressPending ==
    ASSUME UndisturbedInv, NEW c \in Calls
    PROVE  /\ InProgress(c) <=> Store!Pending(c)
           /\ InProgress(c) => label[c] \in Labels
<1>1. pc[c] \in {"idle", "opened", "configured", "keyStored", "ended"}
  BY DEF UndisturbedInv, ViewsInv, IInv, TypeOK
<1> QED
  BY <1>1 DEF InProgress, Store!Pending, UndisturbedInv, ViewsInv, IInv, Begun, Answered

LEMMA SaveUserRefines ==
    ASSUME UndisturbedInv, UndisturbedInv', NEW c \in Calls, SaveUser(c)
    PROVE  Store!Next
<1> USE DEF UndisturbedInv, ViewsInv, IInv
<1>1. /\ InProgress(c) /\ Store!Pending(c) /\ label[c] \in Labels
      /\ op[c] \in {"import", "enroll"}
  BY InProgressPending DEF SaveUser, InProgress, Saving
<1>2. op[c] = "enroll" => stateStore = Partition(label[c])
  BY <1>1 DEF SaveUser, ClientFits, OnSharedClient, Shared
<1>3. users' = [users EXCEPT ![<<Partition(label[c]), label[c]>>] = c] /\ UNCHANGED kind
  BY <1>1, <1>2 DEF SaveUser
<1>4. Stored' = [Stored EXCEPT ![label[c]] = c]
  <2>1. /\ Stored = [l \in Labels |-> users[<<Partition(l), l>>]]
        /\ Stored' = [l \in Labels |-> users'[<<Partition(l), l>>]]
    BY <1>3, StoredIsUserNext
  <2>2. \A l \in Labels : users'[<<Partition(l), l>>]
                            = IF l = label[c] THEN c ELSE users[<<Partition(l), l>>]
    BY <1>1, <1>3, StoresOfLabels DEF TypeOK
  <2> QED
    BY <1>1, <2>1, <2>2
<1>5. suite # "closed"
  BY DEF SaveUser, SuiteHeld, TypeOK
<1>6. Store!Save(c)
  BY <1>1, <1>4, <1>5 DEF SaveUser, End, clientVars, Store!Save, Store!Saves, Store!Answer
<1> QED
  BY <1>6 DEF Store!Next

\* setUserContext, export and failures change no store.
LEMMA AnswersRefine ==
    ASSUME UndisturbedInv, NEW c \in Calls, Fails(c) \/ SetUserContext(c) \/ ExportIdentity(c)
    PROVE  Store!Next
<1> USE DEF UndisturbedInv, ViewsInv, IInv
<1>1. /\ InProgress(c) /\ Store!Pending(c) /\ label[c] \in Labels
      /\ UNCHANGED <<kind, mixin, users, keys, suite, op, label>>
  BY InProgressPending DEF Fails, SetUserContext, ExportIdentity, InProgress, End, storeVars, clientVars
<1>2. Stored' = Stored
  BY <1>1 DEF Stored, Loadable, LoadsFrom, Partition, KeyStore
<1>3. CASE Fails(c)
  <2>1. UNCHANGED userContext \/ (op[c] = "enroll" /\ userContext' = c)
    BY <1>3 DEF Fails
  <2>2. Store!Fail(c)
    BY <1>1, <1>2, <1>3, <2>1 DEF Fails, End, Store!Fail, Store!Answer
  <2> QED
    BY <2>2 DEF Store!Next
<1>4. pc[c] = "configured" => (SuiteWorks <=> suite # "closed")
  BY DEF SuiteWorks, SuiteHeld, TypeOK
<1>5. /\ Loadable(label[c]) <=> Stored[label[c]] # None
      /\ Loadable(label[c]) => Stored[label[c]] = users[<<Partition(label[c]), label[c]>>]
  BY <1>1 DEF Stored, Loadable, LoadsFrom
<1>6. CASE SetUserContext(c)
  <2>1. stateStore = Partition(label[c]) /\ cryptoStore = KeyStore(label[c])
    BY <1>1, <1>6 DEF SetUserContext, ClientFits, OnSharedClient, Shared
  <2>2. /\ Holds(label[c]) <=> Store!Remembered(label[c])
        /\ SuiteWorks /\ LoadsFrom(stateStore, cryptoStore, label[c])
              <=> Store!Found(label[c])
    BY <1>4, <1>5, <1>6, <2>1
       DEF SetUserContext, Loadable, Holds, Store!Remembered, Store!Found
  <2>3. userContext' = IF Store!Found(label[c]) /\ ~Store!Remembered(label[c])
                       THEN Stored[label[c]] ELSE userContext
    BY <1>5, <1>6, <2>1, <2>2 DEF SetUserContext, Loadable
  <2>4. /\ op[c] = "load"
        /\ result' = [result EXCEPT ![c] =
              IF Store!Remembered(label[c]) \/ Store!Found(label[c])
              THEN "loaded" ELSE "refused"]
    BY <1>6, <2>2 DEF SetUserContext, End
  <2>5. Store!Load(c)
    BY <1>1, <1>2, <2>3, <2>4 DEF Store!Load, Store!Answer
  <2> QED
    BY <2>5 DEF Store!Next
<1>7. CASE ExportIdentity(c)
  <2>1. Stored[label[c]] = users[<<Partition(label[c]), label[c]>>]
    BY <1>1, StoredIsUser
  <2>2. Store!Export(c)
    BY <1>1, <1>2, <1>4, <1>5, <1>7, <2>1 DEF ExportIdentity, End, Store!Export, Store!Answer
  <2> QED
    BY <2>2 DEF Store!Next
<1> QED
  BY <1>3, <1>6, <1>7

LEMMA DeleteRefines ==
    ASSUME UndisturbedInv, UndisturbedInv', NEW l \in Labels, Delete(l), kind # "couch"
    PROVE  Store!Next
<1> USE DEF RemovePartition
<1>1. \A c \in Calls : ~(Store!Pending(c) /\ Store!Saves(c) /\ label[c] = l)
  BY InProgressPending DEF Delete, UndisturbedInv, Saving, Store!Saves
<1>2. Stored' = [Stored EXCEPT ![l] = None]
  <2>1. /\ Stored = [m \in Labels |-> users[<<m, m>>]]
        /\ Stored' = [m \in Labels |-> users'[<<m, m>>]]
    <3>1. UNCHANGED kind /\ \A m \in Labels : Partition(m) = m
      BY DEF Delete, Partition
    <3> QED
      BY <3>1, StoredIsUserNext
  <2>2. \A m \in Labels : users'[<<m, m>>] = IF m = l THEN None ELSE users[<<m, m>>]
    BY DEF Delete, Partitions
  <2> QED
    BY <2>1, <2>2
<1>3. Store!Remove(l)
  BY <1>1, <1>2 DEF Delete, clientVars, callVars, Store!Remove
<1> QED
  BY <1>3 DEF Store!Next

LEMMA SuiteRefines ==
    ASSUME UndisturbedInv, CloseDown \/ ClearHSMCache
    PROVE  Store!Next
<1>1. Stored' = Stored
  BY DEF CloseDown, ClearHSMCache, Stored, Loadable, LoadsFrom, Partition, KeyStore, storeVars
<1>2. Store!CloseOrReopen
  BY <1>1, InProgressPending DEF CloseDown, ClearHSMCache, Quiet, callVars, Store!CloseOrReopen
<1> QED
  BY <1>2 DEF Store!Next

\* As long as no call was disturbed, however calls interleave, a wallet of every kind
\* is a map, and the shared client a memory of one identity: each call takes effect at
\* once, when it is answered.  In CouchDB, delete is a call without effect.
THEOREM StoreImplementation == Spec => ImplementsStore
<1>1. Init => Store!Init
  BY StoreInit
<1> DEFINE P == ViewsInv /\ (disturbed = {} => UndisturbedInv)
<1>2. P /\ P' /\ [Next]_vars => [disturbed' = {} => Store!Next]_(Store!vars)
  <2> SUFFICES ASSUME P, P', [Next]_vars, disturbed' = {}
               PROVE  Store!Next \/ UNCHANGED Store!vars
    OBVIOUS
  <2>1. [UndisturbedNext]_vars /\ UndisturbedInv /\ UndisturbedInv'
    BY DisturbedForEver DEF UndisturbedNext
  <2>2. CASE UNCHANGED vars
    BY <2>2 DEF vars, storeVars, clientVars, callVars, Store!vars, Stored, Loadable,
                LoadsFrom, Partition, KeyStore
  <2>3. ASSUME NEW l \in Labels, Delete(l), kind = "couch"
        PROVE  UNCHANGED vars
    BY <2>3, CouchKeepsAll
  <2> HIDE DEF P
  <2> QED
    BY <2>1, <2>2, <2>3, SetStateStoreRefines, GoOnRefines, SaveUserRefines, AnswersRefine,
       DeleteRefines, SuiteRefines DEF UndisturbedNext, Next
<1> QED
  BY <1>1, <1>2, ViewsInvariance, UndisturbedInvariance, PTL DEF Spec, ImplementsStore
=============================================================================
