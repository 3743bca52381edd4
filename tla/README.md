# Verification of simple-fabric-client

TLA+ models, model-checking runs and machine-checked proofs for the client library under
`src/simple-fabric-client/lib`: a JavaScript layer over the Hyperledger Fabric node SDK that submits
transactions, waits for their commit on event hubs, queries peers and keeps identities in wallets. The SDK, the
peers and the orderer are the environment: modelled from how the library uses them.

## 1. The system

Node runs a callback or the code between two awaits to completion, so nothing here is preempted. Every hard
behaviour comes from what happens *between* two awaits, from callbacks in an order nobody chose, and from
requests that fail after an earlier step took effect.

| Component | Source | State | Operations | Correct when |
|---|---|---|---|---|
| Network | `network.js` | options, client, current identity, cache of ledgers | `initialize`, `setIdentity`, `getLedger`, `dispose` | an identity is replaced only where the code leaves a way to it; one live ledger per channel; nothing is live after dispose |
| Ledger | `ledger.js` | peers per organisation, event handler factory, query handler, cache of contracts | `_initialize` with failover over the peers, `getContract`, `_dispose` | initialisation fails only when all peers failed; a failed one leaves nothing open |
| Contract | `contract.js` | none but its collaborators | `submitTransaction`, `query` | listening starts before sending; a result means committed; every exit cleans up |
| Event handler factory | `impl/event/defaulteventhandlerfactory.js`, `api/eventhandler.js` | list of event hubs | `initialize`, re-establish, `checkEventHubs`, `createTxEventHandler`, `dispose` | every hub it opened can be closed; the list is complete when used |
| Transaction event handler | `impl/event/defaulttxeventhandler.js` | counts per organisation, registrations, promise, timer | `startListening` and its callbacks, `waitForEvents`, `cancelListening` | the promise is settled once, by the strategy, and nothing stays registered |
| Event strategies | `impl/event/defaulteventstrategies.js` and the handler | none | initial check, event, error | success only when the documented strategy is satisfied |
| Default query handler | `impl/query/defaultqueryhandler.js`, `basequeryhandler.js` | index of the peer it is locked onto | `queryChaincode` | all peers are tried before giving up; the lock is kept until its peer fails |
| Round robin query handler | `impl/query/roundrobinqueryhandler.js` | use count per peer, process wide | `queryChaincode` | peers are asked from least used to most used |
| Wallets | `impl/wallet/*.js` | state store and key store per label; the user the network's client remembers | `import`, `export`, `exists`, `delete`, `list`, `setUserContext` | the views agree; a client gets the stores of its label |
| HSM wallet mixin | `impl/wallet/hsmwalletmixin.js` | process-wide cache of crypto suites | `getCryptoSuite`, `closeDown`, `clearHSMCache` | no closed suite is handed out |
| ID manager | `idmanager.js` | a client | `registerUser`, `enrollToWallet` | the identity lands in the wallet it was meant for |
| Logger, index, declarations; sketches in `__ideas`; build tasks, scripts, tests | `logger.js`, `index.js`, `types/`, `lib/__ideas/`, `build/`, `e2e/`, `test/` | none of their own | | not modelled |

The pieces meet as follows. A `Network` caches a `Ledger` per channel; a ledger makes one event handler factory
and one query handler and hands both to every `Contract`. `submitTransaction` asks the factory to check its hubs,
sends the proposal, makes one transaction event handler, lets it register on the connected hubs, sends the
transaction to the orderer and awaits the handler's promise. The hubs belong to the factory and call back into
every handler registered on them; a handler that finds no connected hub calls back into the factory, which
replaces its whole list. All queries of a ledger share one query handler and its index; the use counts of the round
robin handler are shared by the whole process. A network has its wallet set the stores of its client and load the
identity; the ID manager has a client of its own, whose stores every registration and enrolment sets anew.

What is hard here:

- **Callbacks in any order.** An event, an error, the timer and a cancel all reach the same handler; each may be
  the one that decides.
- **State read across an await.** `failedPeer` in the query handler, the counts a handler took before it
  re-established hubs, the identity and ledger caches of `Network`.
- **Failure after an effect.** The orderer refuses, or the request is lost, when listening has already begun; an
  endorser fails but the transaction commits.
- **Shared lists replaced under their users.** Re-establishing hubs during another establishment, a listening
  handler or `dispose`; a cache of ledgers written after the await that follows its look-up.
- **A client shared by calls.** Its state store and its crypto suite are set one after the other, with awaits before,
  between and after, so a call may load or save by the stores of another label; and it remembers the user it has last
  loaded or enrolled, which may not be in the wallet any more.

`PROJECT.json` lists each such place with its line under `hazards`, and the properties that watch it.

## 2. The modules

| Module | Models | Built from |
|---|---|---|
| `EventStrategies` | the four strategies as operators on the counts per organisation | |
| `TxEventHandler` | `DefaultTxEventHandler` with its hubs, timer and peers | extends `EventStrategies` |
| `CommitNotice` | what a listener promises its client: README of the library, strategies S1 and S2 | abstract |
| `Contract` | `submitTransaction` | extends `TxEventHandler` |
| `SubmissionOutcome` | what a submission comes to for its client and for the channel | abstract |
| `EventHandlerFactory` | the list of hubs through initialize, re-establish and dispose, with several transactions | |
| `DefaultQueryHandler` | `queryChaincode`, several at once | |
| `PeerFailover` | what the comment above `queryChaincode` promises: the last successful peer, then the others in order | abstract |
| `RoundRobinQueryHandler` | the order of the peers by use count, and queries that share the counts | |
| `Ledger` | the ledgers of a network through `_initialize`, `getContract` and `_dispose` | |
| `Network` | the options, identity and cache of a network | extends `Ledger` |
| `LedgerCache` | what its ledgers are to clients: one per channel, being made or in use, until dispose | abstract |
| `Wallet` | the three wallets, both mixins, the cache of HSM suites, enrolment by the ID manager | |
| `IdentityStore` | what a wallet is to its callers: a map from labels to identities, next to the one identity a client remembers | abstract |
| `MC…` | instances for TLC: the organisation of each hub, the peers of each channel, symmetry | extend the above |
| `TxEventHandlerProofs`, `TxEventHandlerRefinement`, `ContractProofs`, `EventHandlerFactoryProofs`, `DefaultQueryHandlerProofs`, `RoundRobinQueryHandlerProofs`, `NetworkProofs`, `WalletProofs` | theorems | extend the above and TLAPS |

One action is one uninterrupted run of JavaScript: from a callback or the end of an await to the next await. An
await that only yields to microtasks (an `async` function that returns without waiting for the network) is not a
boundary, because hubs and timers call back from macrotasks. Definitions prefixed by a comment "Bug:" are not used
by any specification; each is a plausible slip in the operator that follows it, and shows that the properties can
fail.

*The abstract modules.* `CommitNotice` and `SubmissionOutcome` are implemented in every behaviour, as long as
CHANNEL_SCOPE_ALLFORTX is not configured, and the runs check their fairness too (`ImplementsCommitNotice`,
`ImplementsOutcome`). `PeerFailover`, `LedgerCache` and `IdentityStore` say what a component is when its calls do not
overlap, which the code does not prevent: `ImplementsFailover`, `ImplementsCache` and `ImplementsStore` ask that the
initial states map to initial states, and every step up to the first overlap to a step or a stutter. The runs and the
proofs have all behaviours; the history variables below say which step is the first to overlap. Findings 3 and 5 show
that the handler and the cache are not what they promise after it.

**TxEventHandler.** `eventsByMspId` is a function on the organisations that have an entry, because entries exist
only for connected hubs and are created without `valid` (`Undefined`, not 0). `registered` stands for the
registrations the hubs hold for the transaction, `notificationPromise` for the promise, with the reason of a
rejection as its value, `timeoutHandle` for the timer, `call` for how far `startListening` and `cancelListening`
got. `EventCallback` and `ErrorCallback` are the two closures of `startListening`; `Settle` is `cancelListening`
with `txResolve` or `txReject`. `validFrom` and `lostFrom` are history. The environment: `HubError`, `HubConnect`,
`Order` and `PeerCommit`. A hub that reconnects has lost its registrations and starts at the newest block; the
peers of a channel agree on a validation code.

**Contract.** `pc` is the await `submitTransaction` is in. `ProposalAnswered` runs from the responses to the sending of
the transaction, since everything between is microtasks unless hubs must be re-established. A response is an
endorsement, an invalid answer or an `Error`, which is what lines 48-88 and 188 tell apart. Only a transaction that
was sent and not refused can be ordered, and one whose request failed may be. `hasFactory` covers a contract
without event handling.

**EventHandlerFactory.** A hub is the pair of who established it (the factory's `initialize`, or a transaction that
re-established) and its peer: a transaction does so once at most, so every hub the program makes has a name.
`answered` is the set of hubs whose `connectPromise` is resolved. Of a handler only its use of hubs is kept.
A handler that re-established always throws afterwards, as the code does: it looks at its old counts. `Lose` joins the
error callbacks of the hub: the factory's and that of the transaction handler listening on it
(`defaulttxeventhandler.js:324`).

**DefaultQueryHandler.** `trying` and `failedPeer` are the local variables of each query, `queryPeerIndex` the shared
field. `Search` reads the shared index after the await of the request it was used for, as line 78 does. An answer
with an error other than code 14 counts as an answer, and locks the handler onto that peer. `overlapped` is history:
it tells the runs in which queries were in flight together from the others.

**RoundRobinQueryHandler.** `GetPeersInOrder` folds `Insert`, one turn of the `forEach`, over the peers a handler lists.
`peerCount` is the map of the process (line 5); a peer that was never used counts 0, which the code does not tell apart.
Each channel has a handler with peers of its own (`ledger.js:44`), so every query comes with a list of any of the peers,
which `listed` remembers. `peerList` is the sorted list of each query from the peer it is asking on. `PeerAnswers`
counts the use after the await. `QueryUndefined` is a query of a channel without a peer of the organisation: the list is
undefined, and reading its length throws. `uncompared` is history: the pairs of peers of which the first was once asked
without having been sorted before the second, because the second is not in the list, or because an earlier peer had
failed.

**Ledger and Network.** A ledger is named by the `getLedger` call that makes it, and `step` is the await its `_initialize`
is in: one per peer asked to initialise the channel, one for the hubs. `PeerRefuses` is the `catch` of the failover
loop. `factoryFor` and `queryHandlerFor` are the organisations the two handlers were made for, read on either side
of an await. `Initializes` joins the end of each await with what `getLedger` does when it is the last. A ledger that
fails with its hubs open is `"abandoned"`. `Dispose` reaches what is in the cache, and ledgers in progress go on. An
identity is told apart by its organisation, all that is read of it; `hasFactory` and `queryHandlerWorks` are what the
merged options come down to. `initialize` may be called at any time and any number of times: without an identity it is
`Initialize`, with one `InitializeIdentity`, which looks for no identity first (`network.js:124`) while `SetIdentity`
does (line 153). `contested` is history: the identity calls that were in flight together with another, or that replace
an identity. `ledgersOverlapped` and `disposed` are history too. The factory's own behaviour is the module
`EventHandlerFactory`; here its hubs are open or not.

**Wallet.** A private key is named by the call that brought it, and `users` says which call saved the user of a label
in a partition, so a user loads from stores that hold the key of the same call. In memory and in files each label has a
partition, in CouchDB all share `"wallet"`; an HSM holds the keys of all. `SetStateStore` and `SetCryptoSuite` are the two halves of
`configureClientStores`. `import`, `export` and `list` have clients of their own; `setUserContext` (a network's, or the
one `registerUser` begins with) and `enrollToWallet` use one shared client, whose stores are `stateStore` and
`cryptoStore`. `userContext` is the user that client holds: `getUserContext(label, true)` (`basewallet.js:50`) is
answered with it when it has the name, and by the stores otherwise, and an enrolment leaves it there (`idmanager.js:87`).
`Delete` is a call of every kind of wallet; in CouchDB it removes nothing. `SaveUser` joins the storing of the public
key (line 85) with the saving of the user: nothing reads that key. `suite` is the cached suite of the HSM's slot.
`disturbed` is history: the calls that met another on the shared client, and those that were saving a label while its
partition was removed. `closeDown` and `clearHSMCache` come between calls, since they are what a program does when it
ends.

## 3. The runs

| Run | Bounds | Distinct states | Shows |
|---|---|---|---|
| `handler_all_strategies` | 3 hubs, 2 organisations, 4 strategies | 31 236 | books match registrations; quiet once over; never waits for nobody; loss fails only the unheard; nobody is refused whose strategy is satisfied; listening ends |
| `submit` | 3 hubs, up to 2 responses, 3 strategies, with and without event handling | 219 702 | a result means committed and the strategy satisfied; no commit missed; refused submissions leave nothing, early failing ones never commit; what was registered goes; the handler implements `CommitNotice`, and the whole implements `SubmissionOutcome`, liveness included: every call ends |
| `query` | 0 to 4 peers, 2 queries at a time, unlimited queries | 51 248 | at most one peer skipped; queries end; without overlap the handler implements `PeerFailover`: all peers are tried, none twice, a peer is remembered until it fails |
| `round_robin` | 3 peers and any lists of them, 2 queries at a time, no query with peers once 4 uses were counted | 88 025 | a peer that was never asked but in front of another is used no more than it by more than the queries in flight; every query tries every peer of its list once |
| `factory` | 2 peers, 2 transactions | 14 451 | initialized means hubs; listeners sit on connected hubs; only replaced hubs escape; nothing opens after dispose; establishments end |
| `network` | 2 ledgers made, a channel with 2 peers and one with none, 2 organisations, 2 identity calls, 1 chaincode | 152 936 | what is cached is initialised and live; hubs in use can be disposed of; one organisation per ledger, and the identity stays, but for contested identity calls; every `getLedger` ends; without overlap the network implements `LedgerCache` |
| `wallet` | 2 labels, 3 calls, 3 kinds of wallet, 2 mixins | about 620 000 | a saved user has its key; `exists`, `list` and what loads agree; `setUserContext` answers for its label; what loads goes on loading until it is deleted; undisturbed, the wallet implements `IdentityStore` |
| `channel_all_resolves_early` | the handler's, CHANNEL_SCOPE_ALLFORTX | violated | finding 1 |
| `submit_result_lost` | the submission's | violated | finding 2 |
| `query_skips_good_peer` | 3 peers, 2 queries | violated | finding 3 |
| `factory_leaks_hubs` | 2 peers, 2 transactions | violated | finding 4 |
| `network_loses_ledger` | the network's | violated | finding 5 |

*Why the bounds are enough.* Two hubs in one organisation and one in another is the smallest channel on which "all of
mine", "any of mine", "one of each" and "any" differ and a count can go down twice. Two responses are
the least for which the first fails and another is valid. Two queries are the least that interleave, and with four
peers a search can pass, skip, and still have peers above and below. Three peers are the least for which a sorted list has a
place of insertion inside it, and four uses in all let two counts differ by more than the two queries account for if the
order is wrong, and a third peer be used in between. Two transactions are the least for which one
re-establishes while the other listens, or both re-establish. Two ledgers and two identity calls are the least that
overlap or for the second to replace the identity of the first, and two ledger peers the least to fail over. Three calls
on a wallet let one fail, one save and one load, or one save and two load around a delete. Nothing else is bounded: hubs
break and reconnect, queries are issued, networks are initialised again, contracts are asked for, networks and labels
are disposed of and deleted, without limit. The safety properties proved in section 5 hold for every size.

Several properties hold only of calls that did not overlap (or of peers that were compared, of identities that were not
contested), and say so by a history variable. That they are weaker otherwise is what findings 3 and 5 and the
divergences of section 4 are about; the overlapping behaviours are part of every run. Such a property describes what the
code does there and does not refute it: `PROJECT.json` says so in the notes of the hazards.

`factory` and `network` allow deadlock: after `dispose`, with all hubs down and all transactions over, or once all
calls were made and end without a ledger, the program has nothing to do.

*Fairness.*
- `TxEventHandler`: only that an armed timer fires, which Node's event loop guarantees. Nothing is assumed of hubs,
  peers or the orderer, so `ListeningEnds` and the fairness of `CommitNotice` rest on the timer alone.
- `Contract`: the timer, and that a submission once begun goes on. The SDK answers or rejects every request, with its
  request timeout if nothing else. That every call returns or throws (`SubmissionOutcome`) follows. A client need not
  submit at all.
- `DefaultQueryHandler`: each request is answered or rejected, for the same reason.
- `EventHandlerFactory`: each attempt to connect a hub ends, in a connection or an error. The library has no
  timeout of its own there (lines 87 and 93 note it), so this rests on the SDK's; and `Promise.all` continues
  once its promises are resolved.
- `Network`: each await of an initialisation ends, for the same two reasons. Nothing is assumed of the calls
  themselves, of `dispose` or of identities being loaded.
- `RoundRobinQueryHandler` and `Wallet` assume none and state safety only.

## 4. Findings

1. CHANNEL_SCOPE_ALLFORTX resolves on the first event or error: `entry.valid === 0` is never true of a count created
   without `valid` (`defaulttxeventhandler.js:192`).
2. A committed transaction is reported as a TypeError when the first endorser failed (`contract.js:188`).
3. Two concurrent queries: one fails with "No peers available" without having asked a peer that answers
   (`defaultqueryhandler.js:78`).
4. Re-establishing drops hubs without disconnecting them; they stay open after `dispose`
   (`defaulteventhandlerfactory.js:67`).
5. Two `getLedger` calls for one channel each make a ledger; the one cached first stays in use after `dispose`, with
   its hubs if it has any (`network.js:234`).

Divergences that the models contain, or that only reading shows, and that no run singles out:

- CHANNEL_SCOPE_ALLFORTX starts listening though an organisation has no connected hub: the check runs over the
  organisations that have one (`defaulttxeventhandler.js:107`, against the comment at line 95). `CheckInitialCountByMspId` says
  so.
- A handler that has the hubs re-established gives up whatever connected, because it looks at the counts it took
  before (`defaulttxeventhandler.js:113`). `Reestablished` and `StartTx` say so.
- The comment at `network.js:152` says of the identity "you can only set it once". Two `setIdentity` calls in flight
  together both set it (line 153), and a second `initialize` with an identity replaces it unasked (line 124), under
  ledgers made for the first; a ledger that is being made then may have its two handlers for two organisations. Hence
  `contested`, which `OneOrgPerLedger` and `IdentityStaysAlone` leave out.
- A ledger whose query handler cannot be made leaves its hubs open (`ledger.js:123`): the step `"abandoned"`, which
  `OpenHubsAreReachable` leaves out.
- CouchDBWallet keeps every label in the database `wallet` (`couchdbwallet.js:45`), against line 73 of the library's
  README; `delete` destroys a database named like the label, which is none (lines 71 and 103), so it removes nothing and
  the identity goes on loading; and `list` lists databases. `Delete`, `LoadableUntilDeleted` and `removes` of
  `IdentityStore` say so.
- A label that was loaded by a client and then deleted is still answered by that client, and one that was imported anew is
  answered with the old user, because the SDK's client is asked for the user it holds first (`basewallet.js:50`). An
  enrolment whose saving fails leaves its user with the client as well (`idmanager.js:87`). `held` of `IdentityStore` is
  that memory.
- The use counts of the round robin handler belong to the process (`roundrobinqueryhandler.js:5`), its lists to a channel. A
  peer that is the only one of one channel is used without limit, and another channel then asks its other peers until
  they have caught up; so the spread of the counts has no bound, and `SpreadBounded` is about pairs of peers that are
  not in `uncompared`. For a channel without a peer of the organisation a query ends in a TypeError (line 68) and not in
  the error that an empty list gets.
- A failed import or enrolment leaves a label that exists and does not load, and looking a label up in a file wallet
  makes its directory (`filesystemwallet.js:109`); `e2e/testproto.js:72` enrols only when a label does not exist, so it
  does not recover from that. `Culprit` of `Wallet` lists the causes.
- `closeDown` leaves finalised suites in the cache (`hsmwalletmixin.js:39`): only `clearHSMCache` helps.
- The round robin handler takes its arguments in another order than `Contract.query` gives them
  (`roundrobinqueryhandler.js:62`, `contract.js:100`): the transaction id is lost.
- `Network.initialize` compares `queryHandler` with an option of another name (line 89), so any supplied query handler deletes
  the default options; and given a `Client` it keeps none (line 117).

## 5. The proofs

All theorems hold for every value of the constants, under the assumptions named in the modules: finitely many hubs,
each of an organisation, configured strategies among the four, `Undefined` not a number; at least one peer per
factory; any number of peers and queries, of channels, ledgers and calls, of labels. The round robin handler has finitely
many peers and queries in flight (`RoundRobinAssumption`); `MaxUses` may be any number.

**The handler** (`TxEventHandlerProofs`). The properties are not inductive alone: that a resolved promise is justified
depends on the counts, which depend on the registrations, which depend on the lifecycle. `IInv` joins them:
`LifeCycle` (promise, timer and registrations exist only while listening), `Sources` (who may be registered or heard),
`CountsMatchRegistrations`, `StillOpen` (a pending strategy has somebody registered, and one decided by the first
report has had none), and the two verdict properties. The lemmas `HubsOfRemove` and `HubsOfAdd` say how a callback
changes the number of hubs of an organisation, `BooksAfterEvent` and `BooksAfterError` that `_checkStrategyStatus`
follows, and one lemma per action that it keeps `IInv`. The theorems: `Invariance`, `TypeCorrectness`, `Accounting`,
`Quiet`, `SomebodyLeft`, `LossIsTotal`, `Refusal`; and `Soundness`, which assumes that CHANNEL_SCOPE_ALLFORTX is not
configured, since finding 1 is that it fails there.

**Refinement** (`TxEventHandlerRefinement`). `Implementation`: under the same assumption every step of the handler is a
step of `CommitNotice` or leaves it alone. A notice knows no counts, registrations or timer, only who confirmed and who
is lost; `VerdictAgrees` is where `IInv` shows that the counts decide what those sets decide. The fairness part
of `CommitNotice` is checked by TLC only. `SubmissionGivesNotice` (`ContractProofs`) carries it over to a handler that
`submitTransaction` uses.

**The submission** (`ContractProofs`). `SubmitIInv` joins the handler's `IInv` with `Progress`, what the handler is doing at
each await of `submitTransaction`, and `SentMeans`, what is known of the transaction once it was sent. Every step of a
submission is a step of the handler or leaves it alone, by the way `Contract` is composed, so the handler's part follows
from `TxEventHandlerProofs`. `NoneMissed` needs that a hub listened on
from the start loses its registration only by reporting or breaking. `ResultIsCommitted` assumes that
CHANNEL_SCOPE_ALLFORTX is not configured, like `Soundness`, and so does `OutcomeImplementation`: every step of a submission
is one of `SubmissionOutcome` or invisible to its client and the channel. Sending, acceptance, refusal and commit map to
themselves; that a call returns only after a commit as VALID is where the invariant is needed.

**The factory** (`EventHandlerFactoryProofs`). `IInv` adds `Provenance` to the properties: the list is empty or the work of
one establishment, hubs exist only by establishments, and a transaction that has not begun has established
none. Hence establishing never disturbs a hub somebody listens on, and a hub that leaves the list is a replaced
one. `DisposeIsTheEnd` needs besides that the list stays empty after `dispose`.

**The query handler** (`DefaultQueryHandlerProofs`). `IInv` relates, per query, the peer it asks, the one it skips and
those that failed it. `ContinueKeeps` is the loop: whatever the shared index was when the search began, the peers
above the one asked have failed the query, or are the one skipped. So a query that gives up was failed by
all but one (`OneSkippedAtMost`), which is the most that finding 3 leaves true. `AloneInv` is the invariant of a handler whose
queries have not overlapped: one query is in flight at most, and the shared index is what it made of it. There the
peers that failed are exactly those passed, which gives `AllTriedAlone` and `StaysLocked`, and, step by step,
`FailoverImplementation`: what the loop finds from its index on, without the skipped peer (`Candidates`), is exactly
what has not failed the query, so it asks the peer `PeerFailover` asks.

**The round robin handler** (`RoundRobinQueryHandlerProofs`). What `getPeersInOrder` computes is a fold over a list, and the
prover has no induction to offer that takes a property as a parameter. The proofs state induction as the least-number
principle instead (`Least`, of a set of numbers): the set of lengths at which a fold goes wrong has no least element.
`FoldIsLoop` unfolds the fold one peer at a time, `InsertKeepsOrder` says that a turn of the loop keeps a sorted order
of distinct peers sorted and distinct, and `OrderSorts` concludes that the order is the list, sorted. Hence the peer
asked first is one used least. `SpreadBounded` is then inductive with types and lists: when a query begins, the peer it
asks has been used no more than any other of its list, and no more requests can be at it than there are queries; an
answer turns a request into a use, which leaves their sum; a peer that is asked past another, which is not in the list or
comes after one that failed, is `uncompared` with it from then on (`UseIsSpread`). `TriedOnce` follows a query down the
list of its handler, whatever the queries of other handlers do to the counts.

**The network** (`NetworkProofs`). `IInv` adds to the properties what a ledger has at each step of its initialisation
(`StepMeans`), that two ledgers of one channel in progress or cached have overlapped (`Overlaps`), and that an identity
call that is not contested is alone and finds no identity when it ends (`OneLoading`). The second is why a cached ledger
is overwritten only by one that overlapped it (`Reachable`), the third why the organisation of a ledger's handlers stays
that of the identity until an identity call is contested (`OneOrg`), and why only such a call replaces an identity
(`ContestedReplaces`). `AloneInv` extends it to networks in which no two calls for a channel overlapped: a
ledger in use is the cached one of its channel and nothing is made there (`OnePerChannel`), so dispose reaches all
ledgers in use. `DiscardedAlone` says that overlap is the only cause of finding 5, `CacheImplementation` that such a
network is a `LedgerCache`, whatever identities, handlers, hubs and peers do during the awaits.

**The wallet** (`WalletProofs`). `IInv` adds that the shared client has the stores of the only undisturbed call on it
(`ClientFits`) and that what is about to be saved has its key (`KeyFirst`). `SavedLoads` follows.
`ViewsAgree` needs to know where everything in a partition came from (`ViewsInv`): `ClientTraced` says that the
stores a call finds on the shared client are of its label or of one that is astray, `StoresTraced` that a key or a
user in a partition is of its label or the label is astray, `UserFollows` that a key is followed by its user and a
directory by a user or a call that left it half done. Their conjunction is inductive, and implies the property
(`ViewsAlwaysAgree`). From it follow two action properties. `RightAnswer`: whoever a call met, the user it returns has
the name it asked for, because what a partition has under a name was saved under that name; undisturbed, it is the one
the client held or the one the wallet loads. `KeptUntilDeleted`: what a wallet loads is lost only to a delete, never in
CouchDB, or to a disturbed call that saves over it, since keys and users are only ever added otherwise and a call that
saves undisturbed has stored its key. `UndisturbedInv` adds, for wallets no call of which was disturbed, that a call is answered once
and that an HSM is not closed under it. Then what loads for a label is the last user saved there (`StoredIsUser`), keys
without a user show to nobody, and each call takes effect in the step that answers it (`StoreImplementation`).

*Only model-checked:* everything under fairness, which is out of the prover's reach: `ListeningEnds`, `NothingLeftBehind`,
`QueryEnds`, `EstablishmentEnds`, `GetLedgerEnds`, and the liveness half of `ImplementsCommitNotice` and
`ImplementsOutcome`. Every invariant and every action property of the passing runs is a theorem.

## 6. Not modelled, and why

Not modelled at all: the logger, the declarations, sketches nothing requires, build tasks, end-to-end scripts, the
chaincode and the tests; none has state of the library.

Left out of what is modelled:

- `transientMap`, `functionNamespace`, full blocks and logging: no decision depends on them.
- The choice of peers by role, which the factory and the query handler receive as their scope; the merge of the options
  and the choice of classes by path, of which the outcome is kept; the TLS identity, which `initialize` loads by
  `export` and hands to the SDK.
- Errors of a store on reading, and a delete that fails: they change no state. A delete removes a partition in one
  step.
- `closeDown` and `clearHSMCache` in the middle of a call, and HSM slots beyond the first.
- The attributes of a registration: `registerUser` is one `setUserContext` and one request to the certificate authority.
- What the SDK's channel does after `close`: ledgers of one channel share its channel object, so closing one closes the
  channel of all. Whether a closed channel can be used again is the SDK's.
- More than one shared client: the calls of `Wallet` that use one all use the same. A second `initialize` of a network
  that is not given a client makes a new one (`network.js:119`), which starts without a user in memory.
- The composition of the factory with the submission: `Contract` has hubs that break and reconnect of their own accord, and
  `EventHandlerFactory` transactions that only hold hubs. Between them they cover the calls each makes of the other.

Worth doing next: an abstract pool of hubs that `EventHandlerFactory` implements until hubs are established anew, and the
composition above.
