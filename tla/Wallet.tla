------------------------------- MODULE Wallet -------------------------------
(***************************************************************************)
(* A wallet (lib/impl/wallet) in memory, in files or in CouchDB, with      *)
(* X.509 identities or an HSM, and the calls that use it: import, export   *)
(* and list with a client of their own; setUserContext and the enrolment   *)
(* of lib/idmanager.js with a client that all of them share and whose      *)
(* stores each of them sets.  The stores of a client are set in two steps  *)
(* with awaits between them, and used after further ones.                  *)
(***************************************************************************)
EXTENDS FiniteSets

CONSTANTS
    Labels,
    Calls,    \* bound: calls, each of which is made once
    None

ASSUME WalletAssumption ==
    /\ {"wallet", "hsm"} \cap Labels = {}
    /\ None \notin Labels \cup {"wallet", "hsm"} \cup Calls

VARIABLES
    kind,          \* "memory", "file" or "couch"
    mixin,         \* "x509" or "hsm"
    directories,   \* of a file wallet
    keys,          \* <<partition, call>>: a private key and the call that brought it
    users,         \* <<partition, label>>: the call that saved the user there
    stateStore,    \* the partitions that the shared client uses
    cryptoStore,
    suite,         \* of the HSM: not in the cache, or there open or closed
    userContext,   \* the user that the shared client holds: the call that brought it
    op,            \* per call: its operation, label, progress and result
    label,
    pc,
    result,
    disturbed      \* history: calls that met another one on the shared client, and
                   \* those that met a delete of the label they were saving

storeVars  == <<directories, keys, users>>
clientVars == <<stateStore, cryptoStore, suite>>
callVars   == <<op, label, pc, result>>
vars       == <<kind, mixin, storeVars, clientVars, userContext, callVars, disturbed>>

Partitions == Labels \cup {"wallet"}
KeyStores  == Partitions \cup {"hsm"}

Shared  == {"enroll", "load"}       \* the operations on the shared client
Saving  == {"import", "enroll"}
Results == {"none", "saved", "failed", "loaded", "refused", "absent"}

\* Every variable has its type.
TypeOK ==
    /\ kind \in {"memory", "file", "couch"}
    /\ mixin \in {"x509", "hsm"}
    /\ directories \subseteq Labels
    /\ keys \subseteq KeyStores \X Calls
    /\ users \in [Partitions \X Labels -> Calls \cup {None}]
    /\ stateStore \in Partitions \cup {None}
    /\ cryptoStore \in KeyStores \cup {None}
    /\ suite \in {"none", "open", "closed"}
    /\ userContext \in Calls \cup {None}
    /\ op \in [Calls -> {"none", "import", "enroll", "load", "export"}]
    /\ label \in [Calls -> Labels \cup {None}]
    /\ pc \in [Calls -> {"idle", "opened", "configured", "keyStored", "ended"}]
    /\ result \in [Calls -> Results]
    /\ disturbed \subseteq Calls

Init ==
    /\ kind \in {"memory", "file", "couch"}
    /\ mixin \in {"x509", "hsm"}
    /\ directories = {}
    /\ keys = {}
    /\ users = [pl \in Partitions \X Labels |-> None]
    /\ stateStore = None
    /\ cryptoStore = None
    /\ suite = "none"
    /\ userContext = None
    /\ op = [c \in Calls |-> "none"]
    /\ label = [c \in Calls |-> None]
    /\ pc = [c \in Calls |-> "idle"]
    /\ result = [c \in Calls |-> "none"]
    /\ disturbed = {}

-----------------------------------------------------------------------------
(* What a wallet holds                                                     *)

\* CouchDB keeps all labels in one database.
Partition(l) == IF kind = "couch" THEN "wallet" ELSE l

KeyStore(l) == IF mixin = "hsm" THEN "hsm" ELSE Partition(l)

\* A client with these stores can load the user of this name and its key.
LoadsFrom(states, cryptos, l) ==
    users[<<states, l>>] # None /\ <<cryptos, users[<<states, l>>]>> \in keys

Loadable(l) == LoadsFrom(Partition(l), KeyStore(l), l)

InStore(p) ==
    (\E c \in Calls : <<p, c>> \in keys) \/ (\E l \in Labels : users[<<p, l>>] # None)

Exists(l) ==
    \/ kind = "memory" /\ InStore(l)
    \/ kind = "file" /\ l \in directories
    \/ kind = "couch" /\ users[<<"wallet", l>>] # None

\* CouchDB lists its databases, which are no labels.
GetAllLabels ==
    {l \in Labels :
        \/ kind = "memory" /\ InStore(l)
        \/ kind = "file" /\ l \in directories /\ users[<<l, l>>] # None}

InProgress(c) == pc[c] \in {"opened", "configured", "keyStored"}

OnSharedClient == {c \in Calls : InProgress(c) /\ op[c] \in Shared}

-----------------------------------------------------------------------------
(* configureClientStores                                                   *)

End(c, r) ==
    /\ pc' = [pc EXCEPT ![c] = "ended"]
    /\ result' = [result EXCEPT ![c] = r]
    /\ UNCHANGED <<op, label>>

GoOn(c, at) ==
    /\ pc' = [pc EXCEPT ![c] = at]
    /\ UNCHANGED <<op, label, result>>

\* A call begins: it opens the state store of its label, which makes the
\* directory of a file wallet, and sets it on its client.
SetStateStore(c, o, l) ==
    /\ pc[c] = "idle"
    /\ pc' = [pc EXCEPT ![c] = "opened"]
    /\ op' = [op EXCEPT ![c] = o]
    /\ label' = [label EXCEPT ![c] = l]
    /\ directories' = IF kind = "file" THEN directories \cup {l} ELSE directories
    /\ stateStore' = IF o \in Shared THEN Partition(l) ELSE stateStore
    /\ disturbed' = IF o \in Shared /\ OnSharedClient # {}
                    THEN disturbed \cup OnSharedClient \cup {c} ELSE disturbed
    /\ UNCHANGED <<kind, mixin, keys, users, cryptoStore, suite, userContext, result>>

\* Bug: the crypto suite of the client is left alone.
SetCryptoSuiteForgotten(c) ==
    /\ pc[c] = "opened"
    /\ suite' = IF mixin = "hsm" /\ suite = "none" THEN "open" ELSE suite
    /\ GoOn(c, "configured")
    /\ UNCHANGED <<kind, mixin, storeVars, stateStore, cryptoStore, userContext, disturbed>>

\* Bug: a client that has a crypto suite keeps it.
SetCryptoSuiteOnce(c) ==
    /\ pc[c] = "opened"
    /\ cryptoStore' = IF op[c] \in Shared /\ cryptoStore = None
                      THEN KeyStore(label[c]) ELSE cryptoStore
    /\ suite' = IF mixin = "hsm" /\ suite = "none" THEN "open" ELSE suite
    /\ GoOn(c, "configured")
    /\ UNCHANGED <<kind, mixin, storeVars, stateStore, userContext, disturbed>>

\* The crypto suite is set as well: that of the HSM comes from the cache.
SetCryptoSuite(c) ==
    /\ pc[c] = "opened"
    /\ cryptoStore' = IF op[c] \in Shared THEN KeyStore(label[c]) ELSE cryptoStore
    /\ suite' = IF mixin = "hsm" /\ suite = "none" THEN "open" ELSE suite
    /\ GoOn(c, "configured")
    /\ UNCHANGED <<kind, mixin, storeVars, stateStore, userContext, disturbed>>

-----------------------------------------------------------------------------
(* import and enrollToWallet                                               *)

SuiteWorks == mixin = "hsm" => suite = "open"

\* Bug: the identity that was there is removed first.
StoreKeyRemovesFirst(c) ==
    /\ pc[c] = "configured"
    /\ op[c] \in Saving
    /\ SuiteWorks
    /\ keys' = keys \cup {<<KeyStore(label[c]), c>>}
    /\ users' = [users EXCEPT ![<<Partition(label[c]), label[c]>>] = None]
    /\ GoOn(c, "keyStored")
    /\ UNCHANGED <<kind, mixin, directories, clientVars, userContext, disturbed>>

\* createUser stores the private key it is given; enroll generates one by the
\* suite of the shared client, and then asks the certificate authority.  An
\* identity imported into an HSM has its key there already.
StoreKey(c) ==
    /\ pc[c] = "configured"
    /\ op[c] \in Saving
    /\ SuiteWorks
    /\ keys' = keys \cup {<<IF op[c] = "enroll" THEN cryptoStore
                            ELSE KeyStore(label[c]), c>>}
    /\ directories' = IF kind = "file" /\ mixin = "x509"
                      THEN directories \cup {IF op[c] = "enroll" THEN cryptoStore
                                             ELSE label[c]}
                      ELSE directories
    /\ GoOn(c, "keyStored")
    /\ UNCHANGED <<kind, mixin, users, clientVars, userContext, disturbed>>

\* Bug: the user is saved whether or not there is a key.
SaveUserWithoutKey(c) ==
    LET p == IF op[c] = "enroll" THEN stateStore ELSE Partition(label[c]) IN
    /\ pc[c] \in {"configured", "keyStored"}
    /\ op[c] \in Saving
    /\ kind = "file" => p \in directories
    /\ users' = [users EXCEPT ![<<p, label[c]>>] = c]
    /\ userContext' = IF op[c] = "enroll" THEN c ELSE userContext
    /\ End(c, "saved")
    /\ UNCHANGED <<kind, mixin, directories, keys, clientVars, disturbed>>

\* createUser saves the user; enrollToWallet does so, once it has the certificate
\* and has stored the public key, in the state store of the client by then, and
\* leaves the shared client with it.
SaveUser(c) ==
    LET p == IF op[c] = "enroll" THEN stateStore ELSE Partition(label[c]) IN
    /\ pc[c] = "keyStored"
    /\ op[c] \in Saving
    /\ kind = "file" => p \in directories
    /\ users' = [users EXCEPT ![<<p, label[c]>>] = c]
    /\ userContext' = IF op[c] = "enroll" THEN c ELSE userContext
    /\ End(c, "saved")
    /\ UNCHANGED <<kind, mixin, directories, keys, clientVars, disturbed>>

\* A bad identity, a refusal of the certificate authority, an error of a store;
\* for any call, of the HSM.  The shared client takes an enrolled user before it
\* saves it, and keeps it.
Fails(c) ==
    /\ InProgress(c)
    /\ op[c] \in Saving \/ pc[c] = "opened"
    /\ \/ UNCHANGED userContext
       \/ op[c] = "enroll" /\ pc[c] = "keyStored" /\ userContext' = c
    /\ End(c, "failed")
    /\ UNCHANGED <<kind, mixin, storeVars, clientVars, disturbed>>

-----------------------------------------------------------------------------
(* setUserContext and export                                               *)

\* The shared client holds the user of this name.
Holds(l) == userContext # None /\ label[userContext] = l

\* setUserContext is answered by the user that the client holds, whatever became of
\* it in the wallet, or else loads it from whatever stores the client has by now.
SetUserContext(c) ==
    LET loads == SuiteWorks /\ LoadsFrom(stateStore, cryptoStore, label[c]) IN
    /\ pc[c] = "configured"
    /\ op[c] = "load"
    /\ End(c, IF Holds(label[c]) \/ loads THEN "loaded" ELSE "refused")
    /\ userContext' = IF loads /\ ~Holds(label[c]) THEN users[<<stateStore, label[c]>>]
                      ELSE userContext
    /\ UNCHANGED <<kind, mixin, storeVars, clientVars, disturbed>>

\* export, and list for each of its labels, load with a client of their own:
\* there may be no user, or one that does not load.
ExportIdentity(c) ==
    /\ pc[c] = "configured"
    /\ op[c] = "export"
    /\ End(c, IF users[<<Partition(label[c]), label[c]>>] = None THEN "absent"
              ELSE IF SuiteWorks /\ Loadable(label[c]) THEN "loaded" ELSE "refused")
    /\ UNCHANGED <<kind, mixin, storeVars, clientVars, userContext, disturbed>>

-----------------------------------------------------------------------------
(* delete, and the cache of HSM suites                                     *)

\* Bug: only the user is removed.
RemovePartitionKeepsKeys(l) ==
    /\ directories' = directories
    /\ keys' = keys
    /\ users' = [pl \in Partitions \X Labels |-> IF pl[1] = l THEN None ELSE users[pl]]
    /\ disturbed' = disturbed
        \cup {c \in Calls : InProgress(c) /\ op[c] \in Saving /\ label[c] = l}

RemovePartition(l) ==
    /\ directories' = directories \ {l}
    /\ keys' = {k \in keys : k[1] # l}
    /\ users' = [pl \in Partitions \X Labels |-> IF pl[1] = l THEN None ELSE users[pl]]
    /\ disturbed' = disturbed
        \cup {c \in Calls : InProgress(c) /\ op[c] \in Saving /\ label[c] = l}

\* delete removes the partition of the label.  CouchDB is told to destroy a
\* database of that name, and has none.
Delete(l) ==
    /\ IF kind = "couch" THEN UNCHANGED <<storeVars, disturbed>> ELSE RemovePartition(l)
    /\ UNCHANGED <<kind, mixin, clientVars, userContext, callVars>>

Quiet == \A c \in Calls : ~InProgress(c)

\* closeDown finalises the suites in the cache and leaves them there.
CloseDown ==
    /\ Quiet
    /\ suite = "open"
    /\ suite' = "closed"
    /\ UNCHANGED <<kind, mixin, storeVars, stateStore, cryptoStore, userContext>>
    /\ UNCHANGED <<callVars, disturbed>>

ClearHSMCache ==
    /\ Quiet
    /\ suite' = "none"
    /\ UNCHANGED <<kind, mixin, storeVars, stateStore, cryptoStore, userContext>>
    /\ UNCHANGED <<callVars, disturbed>>

Next ==
    \/ \E c \in Calls :
          \/ \E o \in {"import", "enroll", "load", "export"}, l \in Labels :
                SetStateStore(c, o, l)
          \/ SetCryptoSuite(c)
          \/ StoreKey(c)
          \/ SaveUser(c)
          \/ Fails(c)
          \/ SetUserContext(c)
          \/ ExportIdentity(c)
    \/ \E l \in Labels : Delete(l)
    \/ CloseDown
    \/ ClearHSMCache

Spec == Init /\ [][Next]_vars

-----------------------------------------------------------------------------
(* Properties                                                              *)

\* "private key will now have been stored ... state store will now have been
\* saved": a user in the partition of its label comes with the key it was saved
\* for, unless the call that saved it met another on the shared client, or a
\* delete of its label.
SavedIsLoadable ==
    \A l \in Labels :
        LET c == users[<<Partition(l), l>>]
        IN  c # None /\ c \notin disturbed => Loadable(l)

\* A call of this label that may have left something half done behind.
Culprit(c, l) ==
    /\ label[c] = l
    /\ \/ InProgress(c)
       \/ c \in disturbed
       \/ result[c] = "failed"
       \/ kind = "file" /\ (op[c] = "load" \/ result[c] \in {"absent", "refused"})

\* What exists can be loaded, but for a label some call left half done (in
\* a file wallet even by looking for it); what can be loaded exists and, but
\* for CouchDB, is listed.
ViewsAgree ==
    \A l \in Labels :
        /\ Exists(l) /\ ~Loadable(l) => \E c \in Calls : Culprit(c, l)
        /\ Loadable(l) => Exists(l) /\ (kind # "couch" => l \in GetAllLabels)

\* setUserContext answers for its label, whoever else uses the client: the user it
\* returns has that name.  Unless its call was disturbed, it is the one the client
\* held already, or the one saved last in the wallet, and it returns one if and only
\* if there is either, and for the second an HSM that was not closed.
AnswersForItsLabel ==
    [][\A c \in Calls : op[c] = "load" /\ pc[c] = "configured" /\ pc'[c] = "ended" =>
          LET l == label[c] IN
          /\ result'[c] = "loaded" => userContext' # None /\ label[userContext'] = l
          /\ c \notin disturbed =>
                /\ (result'[c] = "loaded") = (Holds(l) \/ (Loadable(l) /\ SuiteWorks))
                /\ userContext' \in {userContext, users[<<Partition(l), l>>]}]_vars

\* A wallet can load an identity from the moment a call of its label saves it, and
\* until that label is deleted, if it is not kept in CouchDB: failures and other calls
\* take nothing away, but for a call that was disturbed and saves over it.
LoadableUntilDeleted ==
    [][\A l \in Labels :
          /\ ~Loadable(l) /\ Loadable(l)' => \E c \in Calls :
                label[c] = l /\ pc[c] = "keyStored" /\ result'[c] = "saved"
          /\ Loadable(l) /\ ~Loadable(l)' =>
                \/ \E c \in disturbed : label[c] = l /\ users'[<<Partition(l), l>>] = c
                \/ /\ kind # "couch" /\ UNCHANGED pc
                   /\ \A m \in Labels \ {l} : users'[<<m, m>>] = users[<<m, m>>]]_vars

\* A call that has begun has an operation and a label.
Begun ==
    \A c \in Calls : pc[c] # "idle" => op[c] # "none" /\ label[c] \in Labels

\* The shared client has the stores of some label, and those of each call on it
\* that is not disturbed; of two calls on it both are disturbed.
ClientFits ==
    /\ stateStore \in {Partition(l) : l \in Labels} \cup {None}
    /\ cryptoStore \in {KeyStore(l) : l \in Labels} \cup {None}
    /\ \A c \in OnSharedClient :
          /\ stateStore # None
          /\ pc[c] # "opened" => cryptoStore # None
          /\ c \notin disturbed =>
                /\ OnSharedClient = {c}
                /\ stateStore = Partition(label[c])
                /\ pc[c] # "opened" => cryptoStore = KeyStore(label[c])

\* What is about to be saved has its key.
KeyFirst ==
    \A c \in Calls : pc[c] = "keyStored" =>
        /\ op[c] \in Saving
        /\ c \notin disturbed => <<KeyStore(label[c]), c>> \in keys

\* The inductive invariant behind SavedIsLoadable and AnswersForItsLabel.
IInv ==
    /\ TypeOK
    /\ Begun
    /\ ClientFits
    /\ KeyFirst
    /\ SavedIsLoadable

\* A label is astray once a call of it was disturbed; then things of other labels
\* may be found in its partition.
Astray(l) == \E d \in disturbed : label[d] = l

\* Whoever is on the shared client has the stores of its label there, or those of
\* one that is astray.
ClientTraced ==
    \A c \in OnSharedClient :
        /\ \E l \in Labels : stateStore = Partition(l) /\ (l = label[c] \/ Astray(l))
        /\ pc[c] # "opened" =>
              \E l \in Labels : cryptoStore = KeyStore(l) /\ (l = label[c] \/ Astray(l))

\* Whose key or user it is that a partition holds.
StoresTraced ==
    /\ \A c \in Calls :
          /\ pc[c] = "idle" => label[c] = None
          /\ pc[c] # "ended" => result[c] = "none"
    /\ \A k \in keys :
          /\ k[1] \in Labels => k[1] = label[k[2]] \/ Astray(k[1])
          /\ \/ pc[k[2]] = "keyStored"
             \/ pc[k[2]] = "ended" /\ result[k[2]] \in {"saved", "failed"}
    /\ \A p \in Partitions, l \in Labels : users[<<p, l>>] # None =>
          /\ pc[users[<<p, l>>]] = "ended" /\ label[users[<<p, l>>]] = l
          /\ p \in Labels => p = l \/ Astray(p)
          /\ kind = "file" => p \in directories

\* A key is followed by its user, a directory by a user or by a call that left it
\* half done.
UserFollows ==
    /\ \A k \in keys : kind = "memory" /\ k[1] = label[k[2]]
                       /\ result[k[2]] = "saved" /\ k[2] \notin disturbed
          => users[<<k[1], k[1]>>] # None
    /\ kind = "file" => \A l \in directories :
          users[<<l, l>>] # None \/ \E c \in Calls : Culprit(c, l)

\* The inductive invariant behind ViewsAgree.
ViewsInv == IInv /\ ClientTraced /\ StoresTraced /\ UserFollows

-----------------------------------------------------------------------------
(* What a wallet implements for callers that are not in each other's way   *)

Stored == [l \in Labels |-> IF Loadable(l) THEN users[<<Partition(l), l>>] ELSE None]

Store == INSTANCE IdentityStore WITH
    stored <- Stored,
    held <- userContext,
    usable <- suite # "closed",
    removes <- kind # "couch"

\* As long as no call was disturbed, the awaits, the two stores of a label, the shared
\* client and the cache of suites implement a map and a memory of one identity, on
\* which every call takes effect at once or not at all: a load is answered from the
\* memory, or with what was saved last, and a save that fails loses nothing.
ImplementsStore ==
    Store!Init /\ [][disturbed' = {} => Store!Next]_(Store!vars)

\* A call is asked for once and answered once.
Answered ==
    \A c \in Calls :
        /\ op[c] = "none" <=> pc[c] = "idle"
        /\ result[c] # "none" <=> pc[c] = "ended"

\* A call in progress has a suite, and one that has a key an open one.
SuiteHeld ==
    /\ mixin = "x509" => suite = "none"
    /\ mixin = "hsm" => \A c \in Calls :
          /\ pc[c] \in {"configured", "keyStored"} => suite # "none"
          /\ pc[c] = "keyStored" => suite = "open"

\* The inductive invariant behind ImplementsStore, as long as no call was disturbed.
UndisturbedInv ==
    /\ ViewsInv
    /\ Answered
    /\ SuiteHeld
    /\ disturbed = {}
=============================================================================
