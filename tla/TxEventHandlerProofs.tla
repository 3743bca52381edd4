----------------------- MODULE TxEventHandlerProofs ------------------------
(***************************************************************************)
(* Proofs about TxEventHandler, for any set of hubs and organisations and  *)
(* any configured strategies: IInv is inductive, and the safety properties *)
(* follow from it.                                                         *)
(***************************************************************************)
EXTENDS TxEventHandler, FiniteSetTheorems, TLAPS

-----------------------------------------------------------------------------
(* Counting the hubs of an organisation                                    *)

LEMMA HubsOfFinite ==
    ASSUME NEW S \in SUBSET Hubs, NEW m
    PROVE  /\ IsFiniteSet(HubsOf(S, m))
           /\ Cardinality(HubsOf(S, m)) \in Nat
           /\ Cardinality(HubsOf(S, m)) = 0 <=> HubsOf(S, m) = {}
<1>1. HubsOf(S, m) \in SUBSET Hubs
  BY DEF HubsOf
<1>2. IsFiniteSet(HubsOf(S, m))
  BY <1>1, FS_Subset, TxEventHandlerAssumption
<1> QED
  BY <1>2, FS_CardinalityType, FS_EmptySet

LEMMA HubsOfRemove ==
    ASSUME NEW S \in SUBSET Hubs, NEW h \in S, NEW m
    PROVE  Cardinality(HubsOf(S \ {h}, m)) =
             IF m = MspOf[h] THEN Cardinality(HubsOf(S, m)) - 1
                             ELSE Cardinality(HubsOf(S, m))
<1>1. CASE m = MspOf[h]
  <2>1. h \in HubsOf(S, m) /\ HubsOf(S \ {h}, m) = HubsOf(S, m) \ {h}
    BY <1>1 DEF HubsOf
  <2>2. IsFiniteSet(HubsOf(S, m))
    BY HubsOfFinite
  <2>3. Cardinality(HubsOf(S, m) \ {h}) = Cardinality(HubsOf(S, m)) - 1
    BY <2>1, <2>2, FS_RemoveElement
  <2> QED
    BY <1>1, <2>1, <2>3
<1>2. CASE m # MspOf[h]
  <2>1. HubsOf(S \ {h}, m) = HubsOf(S, m)
    BY <1>2 DEF HubsOf
  <2> QED
    BY <1>2, <2>1
<1> QED
  BY <1>1, <1>2

LEMMA HubsOfAdd ==
    ASSUME NEW S \in SUBSET Hubs, NEW h \in Hubs \ S, NEW m
    PROVE  /\ Cardinality(HubsOf(S \cup {h}, m)) =
                IF m = MspOf[h] THEN Cardinality(HubsOf(S, m)) + 1
                                ELSE Cardinality(HubsOf(S, m))
           /\ m = MspOf[h] => HubsOf(S \cup {h}, m) # {}
           /\ m # MspOf[h] => HubsOf(S \cup {h}, m) = HubsOf(S, m)
<1>1. CASE m = MspOf[h]
  <2>1. h \notin HubsOf(S, m) /\ HubsOf(S \cup {h}, m) = HubsOf(S, m) \cup {h}
    BY <1>1 DEF HubsOf
  <2>2. IsFiniteSet(HubsOf(S, m))
    BY HubsOfFinite
  <2>3. Cardinality(HubsOf(S, m) \cup {h}) = Cardinality(HubsOf(S, m)) + 1
    BY <2>1, <2>2, FS_AddElement
  <2> QED
    BY <1>1, <2>1, <2>3
<1>2. CASE m # MspOf[h]
  <2>1. HubsOf(S \cup {h}, m) = HubsOf(S, m)
    BY <1>2 DEF HubsOf
  <2> QED
    BY <1>2, <2>1
<1> QED
  BY <1>1, <1>2

\* An organisation with no registered hub left has remaining = 0, and only then.
LEMMA NothingRemains ==
    ASSUME NEW S \in SUBSET Hubs, NEW D,
           \A h \in S : MspOf[h] \in D,
           \A m \in D : Cardinality(HubsOf(S, m)) = 0
    PROVE  S = {}
<1>1. \A m \in D : HubsOf(S, m) = {}
  BY HubsOfFinite
<1> QED
  BY <1>1 DEF HubsOf

-----------------------------------------------------------------------------
(* The invariant holds at the start                                        *)

LEMMA IInvInit == Init => IInv
<1> SUFFICES ASSUME Init PROVE IInv
  OBVIOUS
<1> USE DEF Init
<1>1. TypeOK
  BY TxEventHandlerAssumption DEF TypeOK, Count
<1>2. LifeCycle /\ Sources /\ StillOpen
  BY DEF LifeCycle, Sources, StillOpen, Listening
<1>3. CountsMatchRegistrations /\ LossFailsOnlyUnheard /\ ResolvedMeansPromised
  BY DEF CountsMatchRegistrations, LossFailsOnlyUnheard, ResolvedMeansPromised, Listening
<1> QED
  BY <1>1, <1>2, <1>3 DEF IInv

-----------------------------------------------------------------------------
(* startListening                                                          *)

LEMMA StartKeeps == IInv /\ StartListening => IInv'
<1> SUFFICES ASSUME IInv, StartListening PROVE IInv'
  OBVIOUS
<1> DEFINE hubs   == {h \in EventHubs : connected[h]}
           counts == CountsOf(hubs)
<1>1. /\ hubs \in SUBSET Hubs /\ hubs \subseteq EventHubs
      /\ DOMAIN counts = {MspOf[h] : h \in hubs}
      /\ DOMAIN counts \subseteq Msps
  BY TxEventHandlerAssumption DEF EventHubs, HubsOf, CountsOf
<1>2. \A m \in DOMAIN counts : /\ counts[m].remaining = Cardinality(HubsOf(hubs, m))
                              /\ counts[m].valid = Undefined
                              /\ counts[m] \in Count
  <2> TAKE m \in DOMAIN counts
  <2>1. Cardinality(HubsOf(hubs, m)) \in Nat
    BY <1>1, HubsOfFinite
  <2>2. counts[m] = NewCount(Cardinality(HubsOf(hubs, m)))
    BY DEF CountsOf
  <2> QED
    BY <2>1, <2>2 DEF NewCount, Count
<1>3. counts \in [DOMAIN counts -> Count]
  BY <1>2 DEF CountsOf
<1>4. /\ call = "created" /\ eventsByMspId' = counts
      /\ notificationPromise = "none" /\ validFrom = {} /\ lostFrom = {}
      /\ connectedHubs = {} /\ registered = {}
      /\ timeoutHandle # "armed"
  BY DEF StartListening, IInv, LifeCycle, TypeOK, Listening
<1>5. UNCHANGED <<strategy, connected, outcome, passed, validFrom, lostFrom>>
  BY DEF StartListening, ledgerVars
<1>6. CASE CheckInitialState(strategy, counts)
  <2>1. /\ call' = "listening" /\ connectedHubs' = hubs /\ registered' = hubs
        /\ timeoutHandle' = "armed" /\ notificationPromise' = "pending"
    BY <1>6 DEF StartListening
  <2>2. hubs # {}
    BY <1>1, <1>6 DEF CheckInitialState, CheckInitialCountTotal, CheckInitialCountByMspId
  <2>3. TypeOK'
    BY <1>1, <1>3, <1>4, <1>5, <2>1 DEF IInv, TypeOK
  <2>4. LifeCycle' /\ StillOpen'
    BY <1>4, <1>5, <2>1, <2>2 DEF LifeCycle, StillOpen, Listening
  <2>5. Sources'
    BY <1>1, <1>4, <1>5, <2>1 DEF Sources, EventHubs, HubsOf
  <2>6. CountsMatchRegistrations'
    <3>1. \A m : HubsOf(validFrom', m) = {}
      BY <1>4, <1>5 DEF HubsOf
    <3> HIDE DEF counts, hubs
    <3> QED
      BY <1>1, <1>2, <1>4, <1>5, <2>1, <3>1 DEF CountsMatchRegistrations, HubsOf
  <2>7. LossFailsOnlyUnheard' /\ ResolvedMeansPromised'
    BY <2>1 DEF LossFailsOnlyUnheard, ResolvedMeansPromised
  <2> QED
    BY <2>3, <2>4, <2>5, <2>6, <2>7 DEF IInv
<1>7. CASE ~CheckInitialState(strategy, counts)
  <2>1. /\ call' = "reestablishing"
        /\ UNCHANGED <<connectedHubs, registered, timeoutHandle, notificationPromise>>
    BY <1>7 DEF StartListening
  <2>2. TypeOK'
    BY <1>1, <1>3, <1>4, <1>5, <2>1 DEF IInv, TypeOK
  <2>3. LifeCycle' /\ StillOpen' /\ CountsMatchRegistrations'
    BY <1>4, <1>5, <2>1
    DEF LifeCycle, StillOpen, CountsMatchRegistrations, Listening
  <2>4. Sources' /\ LossFailsOnlyUnheard' /\ ResolvedMeansPromised'
    BY <1>4, <1>5, <2>1
    DEF Sources, LossFailsOnlyUnheard, ResolvedMeansPromised
  <2> QED
    BY <2>2, <2>3, <2>4 DEF IInv
<1> QED
  BY <1>6, <1>7

-----------------------------------------------------------------------------
(* Settling the promise                                                    *)

\* Settling keeps the invariant if the verdict is one the reports justify.
LEMMA SettleKeeps ==
    ASSUME IInv, Listening, NEW verdict \in {"resolved"} \cup Reasons, Settle(verdict),
           TypeOK', Sources', UNCHANGED <<strategy, call, connectedHubs>>,
           verdict = "lost" => validFrom' = {} /\ lostFrom' = connectedHubs,
           verdict = "resolved" /\ strategy # "CHANNEL_SCOPE_ALLFORTX" =>
                outcome' = "VALID" /\ Promised'
    PROVE  IInv'
<1>1. LifeCycle' /\ StillOpen' /\ CountsMatchRegistrations'
  BY DEF Settle, LifeCycle, StillOpen, CountsMatchRegistrations, Listening, Reasons
<1>2. LossFailsOnlyUnheard'
  BY DEF Settle, LossFailsOnlyUnheard
<1>3. strategy' # "CHANNEL_SCOPE_ALLFORTX" => ResolvedMeansPromised'
  BY DEF Settle, ResolvedMeansPromised
<1> QED
  BY <1>1, <1>2, <1>3 DEF IInv

-----------------------------------------------------------------------------
(* The books after a callback                                              *)

\* A hub that calls back was registered, so its organisation has it among the
\* hubs that remain.
LEMMA CallerIsCounted ==
    ASSUME IInv, NEW h \in registered
    PROVE  /\ Listening
           /\ h \in Hubs /\ h \in connectedHubs /\ connected[h]
           /\ h \notin validFrom /\ h \notin lostFrom
           /\ MspOf[h] \in DOMAIN eventsByMspId
           /\ eventsByMspId[MspOf[h]] \in Count
           /\ eventsByMspId[MspOf[h]].remaining >= 1
<1>1. Listening
  BY DEF IInv, LifeCycle
<1>2. /\ h \in Hubs /\ h \in connectedHubs /\ connected[h]
      /\ h \notin validFrom /\ h \notin lostFrom
      /\ MspOf[h] \in DOMAIN eventsByMspId
  BY <1>1 DEF IInv, TypeOK, Sources, CountsMatchRegistrations
<1>3. eventsByMspId[MspOf[h]] \in Count
  BY <1>2 DEF IInv, TypeOK
<1>4. eventsByMspId[MspOf[h]].remaining = Cardinality(HubsOf(registered, MspOf[h]))
  BY <1>1, <1>2 DEF IInv, CountsMatchRegistrations
<1>5. h \in HubsOf(registered, MspOf[h])
  BY DEF HubsOf
<1>6. registered \in SUBSET Hubs
  BY DEF IInv, TypeOK
<1>7. Cardinality(HubsOf(registered, MspOf[h])) \in Nat \ {0}
  BY <1>5, <1>6, HubsOfFinite
<1> QED
  BY <1>1, <1>2, <1>3, <1>4, <1>7

\* The two updates of an entry.
LEMMA CountUpdates ==
    ASSUME NEW count \in Count, count.remaining >= 1
    PROVE  /\ CountEvent(count) \in Count
           /\ CountEvent(count).remaining = count.remaining - 1
           /\ CountEvent(count).valid = IF SomeValid(count) THEN count.valid + 1 ELSE 1
           /\ CountError(count) \in Count
           /\ CountError(count).remaining = count.remaining - 1
           /\ CountError(count).valid = count.valid
<1>1. /\ count.initial \in Nat /\ count.remaining \in Nat /\ count.remaining - 1 \in Nat
      /\ count.valid \in Nat \cup {Undefined}
      /\ count = [initial |-> count.initial, remaining |-> count.remaining, valid |-> count.valid]
  BY DEF Count
<1>2. (IF SomeValid(count) THEN count.valid + 1 ELSE 1) \in Nat
  BY <1>1 DEF SomeValid
<1>3. CountEvent(count) = [initial   |-> count.initial,
                           remaining |-> count.remaining - 1,
                           valid     |-> IF SomeValid(count) THEN count.valid + 1 ELSE 1]
  <2> DEFINE v == IF SomeValid(count) THEN count.valid + 1 ELSE 1
  <2>1. CountEvent(count) = [count EXCEPT !.remaining = @ - 1, !.valid = v]
    BY DEF CountEvent
  <2> HIDE DEF v
  <2>2. CountEvent(count) = [initial |-> count.initial, remaining |-> count.remaining - 1,
                             valid |-> v]
    BY <1>1, <2>1
  <2> QED
    BY <2>2 DEF v
<1>4. CountError(count) = [initial   |-> count.initial,
                           remaining |-> count.remaining - 1,
                           valid     |-> count.valid]
  BY <1>1 DEF CountError
<1> QED
  BY <1>1, <1>2, <1>3, <1>4 DEF Count

Books(counts, S, V) ==
    /\ DOMAIN counts = DOMAIN eventsByMspId
    /\ counts \in [DOMAIN eventsByMspId -> Count]
    /\ \A m \in DOMAIN counts :
          /\ counts[m].remaining = Cardinality(HubsOf(S, m))
          /\ counts[m].valid = IF HubsOf(V, m) = {} THEN Undefined
                               ELSE Cardinality(HubsOf(V, m))

LEMMA BooksAfterEvent ==
    ASSUME IInv, NEW h \in registered
    PROVE  Books([eventsByMspId EXCEPT ![MspOf[h]] = CountEvent(@)],
                 registered \ {h}, validFrom \cup {h})
<1> DEFINE k      == MspOf[h]
           old    == eventsByMspId[k]
           counts == [eventsByMspId EXCEPT ![k] = CountEvent(@)]
<1>1. registered \in SUBSET Hubs /\ validFrom \in SUBSET Hubs /\ h \in Hubs \ validFrom
  BY CallerIsCounted DEF IInv, TypeOK
<1>2. /\ \A m \in DOMAIN eventsByMspId :
          /\ eventsByMspId[m] \in Count
          /\ eventsByMspId[m].remaining = Cardinality(HubsOf(registered, m))
          /\ eventsByMspId[m].valid = IF HubsOf(validFrom, m) = {} THEN Undefined
                                      ELSE Cardinality(HubsOf(validFrom, m))
      /\ k \in DOMAIN eventsByMspId /\ old.remaining >= 1
  BY CallerIsCounted DEF IInv, TypeOK, CountsMatchRegistrations
<1>3. counts[k] = CountEvent(old)
  BY <1>2
<1>4. /\ CountEvent(old) \in Count
      /\ CountEvent(old).remaining = old.remaining - 1
      /\ CountEvent(old).valid = IF SomeValid(old) THEN old.valid + 1 ELSE 1
  BY <1>2, CountUpdates
<1>5. IF HubsOf(validFrom, k) = {}
      THEN old.valid = Undefined /\ Cardinality(HubsOf(validFrom, k)) = 0
      ELSE old.valid = Cardinality(HubsOf(validFrom, k)) /\ old.valid \in Nat \ {0}
  BY <1>1, <1>2, HubsOfFinite
<1>6. CountEvent(old).valid = Cardinality(HubsOf(validFrom, k)) + 1
  BY <1>4, <1>5, UndefinedAssumption DEF SomeValid
<1>7. \A m \in DOMAIN counts : m # k => counts[m] = eventsByMspId[m]
  OBVIOUS
<1> HIDE DEF counts
<1>8. ASSUME NEW m \in DOMAIN eventsByMspId
      PROVE  /\ counts[m] \in Count
             /\ counts[m].remaining = Cardinality(HubsOf(registered \ {h}, m))
             /\ counts[m].valid = IF HubsOf(validFrom \cup {h}, m) = {} THEN Undefined
                                  ELSE Cardinality(HubsOf(validFrom \cup {h}, m))
  <2>1. Cardinality(HubsOf(registered \ {h}, m)) =
          IF m = k THEN Cardinality(HubsOf(registered, m)) - 1
                   ELSE Cardinality(HubsOf(registered, m))
    BY <1>1, HubsOfRemove
  <2>2. /\ Cardinality(HubsOf(validFrom \cup {h}, m)) =
             IF m = k THEN Cardinality(HubsOf(validFrom, m)) + 1
                      ELSE Cardinality(HubsOf(validFrom, m))
        /\ m = k => HubsOf(validFrom \cup {h}, m) # {}
        /\ m # k => HubsOf(validFrom \cup {h}, m) = HubsOf(validFrom, m)
    BY <1>1, HubsOfAdd
  <2>3. CASE m = k
    BY <1>2, <1>3, <1>4, <1>6, <2>1, <2>2, <2>3
  <2>4. CASE m # k
    <3>1. counts[m] = eventsByMspId[m]
      BY <1>7, <2>4 DEF counts
    <3> QED
      BY <1>2, <2>1, <2>2, <2>4, <3>1
  <2> QED
    BY <2>3, <2>4
<1>9. DOMAIN counts = DOMAIN eventsByMspId /\ counts = [m \in DOMAIN counts |-> counts[m]]
  BY DEF counts
<1> QED
  BY <1>8, <1>9 DEF Books, counts

LEMMA BooksAfterError ==
    ASSUME IInv, NEW h \in registered
    PROVE  Books([eventsByMspId EXCEPT ![MspOf[h]] = CountError(@)],
                 registered \ {h}, validFrom)
<1> DEFINE k      == MspOf[h]
           old    == eventsByMspId[k]
           counts == [eventsByMspId EXCEPT ![k] = CountError(@)]
<1>1. registered \in SUBSET Hubs
  BY DEF IInv, TypeOK
<1>2. /\ \A m \in DOMAIN eventsByMspId :
          /\ eventsByMspId[m] \in Count
          /\ eventsByMspId[m].remaining = Cardinality(HubsOf(registered, m))
          /\ eventsByMspId[m].valid = IF HubsOf(validFrom, m) = {} THEN Undefined
                                      ELSE Cardinality(HubsOf(validFrom, m))
      /\ k \in DOMAIN eventsByMspId /\ old.remaining >= 1
  BY CallerIsCounted DEF IInv, TypeOK, CountsMatchRegistrations
<1>3. counts[k] = CountError(old)
  BY <1>2
<1>4. /\ CountError(old) \in Count
      /\ CountError(old).remaining = old.remaining - 1
      /\ CountError(old).valid = old.valid
  BY <1>2, CountUpdates
<1>5. \A m \in DOMAIN counts : m # k => counts[m] = eventsByMspId[m]
  OBVIOUS
<1> HIDE DEF counts
<1>6. ASSUME NEW m \in DOMAIN eventsByMspId
      PROVE  /\ counts[m] \in Count
             /\ counts[m].remaining = Cardinality(HubsOf(registered \ {h}, m))
             /\ counts[m].valid = IF HubsOf(validFrom, m) = {} THEN Undefined
                                  ELSE Cardinality(HubsOf(validFrom, m))
  <2>1. CASE m = k
    BY <1>1, <1>2, <1>3, <1>4, <2>1, HubsOfRemove
  <2>2. CASE m # k
    BY <1>1, <1>2, <1>5, <2>2, HubsOfRemove DEF counts
  <2> QED
    BY <2>1, <2>2
<1>7. DOMAIN counts = DOMAIN eventsByMspId /\ counts = [m \in DOMAIN counts |-> counts[m]]
  BY DEF counts
<1> QED
  BY <1>6, <1>7 DEF Books, counts

\* One hub less to hear, and the handler goes on listening.
LEMMA KeepListeningKeeps ==
    ASSUME IInv, NEW h \in registered, KeepListening(h), TypeOK', Sources',
           UNCHANGED <<strategy, call, connectedHubs>>,
           validFrom' \cup lostFrom' = validFrom \cup lostFrom \cup {h},
           Books(eventsByMspId', registered \ {h}, validFrom'),
           registered # {h},
           strategy # "MSPID_SCOPE_ALLFORTX" => validFrom' = {}
    PROVE  IInv'
<1>1. Listening /\ h \in connectedHubs
  BY CallerIsCounted
<1>2. /\ registered' = registered \ {h} /\ notificationPromise' = "pending"
      /\ call' = "listening" /\ timeoutHandle' = "armed" /\ Listening'
  BY <1>1 DEF KeepListening, Listening, IInv, LifeCycle
<1>3. LifeCycle' /\ StillOpen'
  BY <1>2 DEF LifeCycle, StillOpen, Listening
<1>4. CountsMatchRegistrations'
  <2>1. /\ connectedHubs = registered \cup validFrom \cup lostFrom
        /\ registered \cap (validFrom \cup lostFrom) = {}
        /\ DOMAIN eventsByMspId = {MspOf[g] : g \in connectedHubs}
    BY <1>1 DEF IInv, CountsMatchRegistrations
  <2>2. /\ connectedHubs' = registered' \cup validFrom' \cup lostFrom'
        /\ registered' \cap (validFrom' \cup lostFrom') = {}
        /\ DOMAIN eventsByMspId' = {MspOf[g] : g \in connectedHubs'}
    BY <1>2, <2>1 DEF Books
  <2>3. \A m \in DOMAIN eventsByMspId' :
           /\ eventsByMspId'[m].remaining = Cardinality(HubsOf(registered', m))
           /\ eventsByMspId'[m].valid = IF HubsOf(validFrom', m) = {} THEN Undefined
                                        ELSE Cardinality(HubsOf(validFrom', m))
    BY <1>2 DEF Books
  <2>4. \A m : HubsOf(validFrom, m)' = HubsOf(validFrom', m)
               /\ HubsOf(registered, m)' = HubsOf(registered', m)
    BY DEF HubsOf
  <2> QED
    BY <2>2, <2>3, <2>4 DEF CountsMatchRegistrations
<1>5. LossFailsOnlyUnheard' /\ ResolvedMeansPromised'
  BY <1>2 DEF LossFailsOnlyUnheard, ResolvedMeansPromised
<1> QED
  BY <1>3, <1>4, <1>5 DEF IInv

\* Under a strategy of one organisation every hub listened to is of MspId.
LEMMA OneOrganisation ==
    ASSUME IInv, strategy \in MspidStrategies
    PROVE  \A g \in connectedHubs : MspOf[g] = MspId
  BY DEF IInv, Sources, EventHubs, HubsOf

\* What an answer decides, once h is no longer registered.
LEMMA RemainingZero ==
    ASSUME IInv, NEW h \in registered, NEW counts, NEW V,
           Books(counts, registered \ {h}, V),
           \A m \in DOMAIN counts : counts[m].remaining = 0
    PROVE  registered = {h}
<1>1. registered \ {h} \in SUBSET Hubs
  BY DEF IInv, TypeOK
<1>2. \A g \in registered \ {h} : MspOf[g] \in DOMAIN counts
  BY CallerIsCounted DEF Books
<1>3. \A m \in DOMAIN counts : Cardinality(HubsOf(registered \ {h}, m)) = 0
  BY DEF Books
<1>4. registered \ {h} = {}
  BY <1>1, <1>2, <1>3, NothingRemains
<1> QED
  BY <1>4

\* No entry has valid = 0: an organisation that is not heard has undefined.
LEMMA UnheardIsUndefined ==
    ASSUME IInv, NEW S, NEW V \in SUBSET Hubs, NEW counts, Books(counts, S, V)
    PROVE  /\ {m \in DOMAIN counts : counts[m].valid = 0} = {}
           /\ \A m \in DOMAIN counts : SomeValid(counts[m]) <=> HubsOf(V, m) # {}
<1> SUFFICES ASSUME NEW m \in DOMAIN counts
             PROVE  /\ counts[m].valid # 0
                    /\ SomeValid(counts[m]) <=> HubsOf(V, m) # {}
  OBVIOUS
<1>1. counts[m].valid = IF HubsOf(V, m) = {} THEN Undefined ELSE Cardinality(HubsOf(V, m))
  BY DEF Books
<1>2. HubsOf(V, m) # {} => Cardinality(HubsOf(V, m)) \in Nat \ {0}
  BY HubsOfFinite
<1> QED
  BY <1>1, <1>2, UndefinedAssumption DEF SomeValid

-----------------------------------------------------------------------------
(* The event callback                                                      *)

LEMMA EventCallbackKeeps ==
    ASSUME IInv, NEW h \in registered, EventCallback(h, outcome),
           outcome \in {"VALID", "INVALID"}, UNCHANGED <<strategy, connected, outcome>>,
           passed' \in SUBSET Hubs
    PROVE  IInv'
<1> DEFINE m      == MspOf[h]
           counts == [eventsByMspId EXCEPT ![m] = CountEvent(@)]
<1>1. /\ Listening /\ h \in Hubs /\ h \in connectedHubs
      /\ m \in DOMAIN eventsByMspId
  BY CallerIsCounted
<1>2. UNCHANGED <<call, connectedHubs, lostFrom>>
  BY DEF EventCallback
<1>3. EventHubs' = EventHubs
  BY DEF EventHubs
<1>4. CASE outcome # "VALID"
  <2>1. Settle("invalid") /\ UNCHANGED <<eventsByMspId, validFrom>>
    BY <1>4 DEF EventCallback
  <2>2. TypeOK'
    BY <1>2, <2>1 DEF IInv, TypeOK, Settle, Reasons
  <2>3. Sources'
    BY <1>2, <1>3, <2>1 DEF IInv, Sources, Settle
  <2>4. "invalid" \in {"resolved"} \cup Reasons /\ "invalid" # "lost" /\ "invalid" # "resolved"
    BY DEF Reasons
  <2> QED
    BY <1>1, <1>2, <2>1, <2>2, <2>3, <2>4, SettleKeeps
<1>5. CASE outcome = "VALID"
  <2>1. /\ eventsByMspId' = counts /\ validFrom' = validFrom \cup {h}
        /\ IF EventReceived(strategy, counts, m) = STRATEGY_PASSED
           THEN Settle("resolved") ELSE KeepListening(h)
    BY <1>5 DEF EventCallback
  <2>2. Books(counts, registered \ {h}, validFrom \cup {h})
    BY BooksAfterEvent
  <2> HIDE DEF counts
  <2>8. validFrom \cup {h} \in SUBSET Hubs
    BY <1>1 DEF IInv, TypeOK
  <2>3. /\ registered' \subseteq registered
        /\ timeoutHandle' \in {"none", "armed", "cleared"}
        /\ notificationPromise' \in {"none", "pending", "resolved"} \cup Reasons
    BY <2>1 DEF Settle, KeepListening, IInv, TypeOK
  <2>4. TypeOK'
    BY <1>1, <1>2, <2>1, <2>2, <2>3 DEF IInv, TypeOK, Books
  <2>5. Sources'
    BY <1>1, <1>2, <1>3, <1>5, <2>1, <2>3 DEF IInv, Sources
  <2>6. CASE EventReceived(strategy, counts, m) = STRATEGY_PASSED
    <3>1. Settle("resolved") /\ "resolved" # "lost"
      BY <2>1, <2>6
    <3>2. ASSUME strategy # "CHANNEL_SCOPE_ALLFORTX"
          PROVE  Promised'
      <4>1. CASE strategy = "MSPID_SCOPE_ALLFORTX"
        <5>1. ~(counts[m].remaining >= 1)
          <6>1. CheckRemainingEventsForMspId(counts[m]) = STRATEGY_PASSED
            BY <2>6, <4>1 DEF EventReceived
          <6> QED
            BY <6>1 DEF CheckRemainingEventsForMspId, STRATEGY_PASSED, STRATEGY_STILLONGOING
        <5>2. counts[m].remaining = 0 /\ m = MspId
          BY <1>1, <2>2, <4>1, <5>1, OneOrganisation DEF Books, Count, MspidStrategies
        <5>3. DOMAIN counts = {m}
          BY <1>1, <2>2, <4>1, <5>2, OneOrganisation
          DEF Books, IInv, CountsMatchRegistrations, MspidStrategies
        <5>4. registered = {h}
          BY <2>2, <5>2, <5>3, RemainingZero
        <5>5. connectedHubs' = validFrom' \cup lostFrom'
          BY <1>1, <1>2, <2>1, <5>4 DEF IInv, CountsMatchRegistrations
        <5> QED
          BY <2>1, <4>1, <5>5 DEF Promised
      <4>2. CASE strategy # "MSPID_SCOPE_ALLFORTX"
        BY <2>1, <3>2, <4>2 DEF Promised
      <4> QED
        BY <4>1, <4>2
    <3>3. outcome' = "VALID"
      BY <1>5
    <3> QED
      BY <1>1, <1>2, <2>4, <2>5, <3>1, <3>2, <3>3, SettleKeeps
  <2>7. CASE EventReceived(strategy, counts, m) # STRATEGY_PASSED
    <3>1. KeepListening(h)
      BY <2>1, <2>7
    <3>2. strategy \in {"MSPID_SCOPE_ALLFORTX", "CHANNEL_SCOPE_ALLFORTX"}
      BY <2>7 DEF EventReceived
    <3>3. strategy # "CHANNEL_SCOPE_ALLFORTX"
      <4>1. {k \in DOMAIN counts : counts[k].valid = 0} = {}
        BY <2>2, <2>8, UnheardIsUndefined
      <4> QED
        BY <2>7, <4>1 DEF EventReceived, CheckEachMspIdForEvents
    <3>4. registered # {h}
      <4> SUFFICES ASSUME registered = {h} PROVE FALSE
        OBVIOUS
      <4>1. /\ m \in DOMAIN counts /\ HubsOf(registered \ {h}, m) = {}
            /\ HubsOf(validFrom \cup {h}, m) # {}
        BY <1>1, <2>2 DEF Books, HubsOf
      <4>2. counts[m].remaining = 0
        <5>1. Cardinality(HubsOf(registered \ {h}, m)) = 0
          BY <4>1, FS_EmptySet
        <5> QED
          BY <2>2, <4>1, <5>1 DEF Books
      <4>3. SomeValid(counts[m])
        BY <2>2, <2>8, <4>1, UnheardIsUndefined
      <4> QED
        BY <2>7, <3>2, <3>3, <4>2, <4>3 DEF EventReceived, CheckRemainingEventsForMspId
    <3>5. validFrom' \cup lostFrom' = validFrom \cup lostFrom \cup {h}
      BY <1>2, <2>1
    <3>6. Books(eventsByMspId', registered \ {h}, validFrom')
      BY <2>1, <2>2
    <3> QED
      BY <1>2, <2>4, <2>5, <3>1, <3>2, <3>3, <3>4, <3>5, <3>6, KeepListeningKeeps
  <2> QED
    BY <2>6, <2>7
<1> QED
  BY <1>4, <1>5

-----------------------------------------------------------------------------
(* The error callback                                                      *)

LEMMA ErrorCallbackKeeps ==
    ASSUME IInv, NEW h \in registered, ErrorCallback(h),
           connected' = [connected EXCEPT ![h] = FALSE],
           UNCHANGED <<strategy, outcome, passed>>
    PROVE  IInv'
<1> DEFINE m      == MspOf[h]
           counts == [eventsByMspId EXCEPT ![m] = CountError(@)]
           status == ErrorReceived(strategy, counts, m)
<1>1. /\ Listening /\ h \in Hubs /\ h \in connectedHubs
      /\ h \notin validFrom /\ m \in DOMAIN eventsByMspId
  BY CallerIsCounted
<1>2. /\ UNCHANGED <<call, connectedHubs, validFrom>>
      /\ eventsByMspId' = counts /\ lostFrom' = lostFrom \cup {h}
      /\ CASE status = STRATEGY_FAILED       -> Settle("lost")
           [] status = STRATEGY_PASSED       -> Settle("resolved")
           [] status = STRATEGY_STILLONGOING -> KeepListening(h)
  BY DEF ErrorCallback
<1>3. Books(counts, registered \ {h}, validFrom) /\ validFrom \in SUBSET Hubs
  BY BooksAfterError DEF IInv, TypeOK
<1> HIDE DEF counts
<1>4. /\ {k \in DOMAIN counts : counts[k].valid = 0} = {}
      /\ \A k \in DOMAIN counts : SomeValid(counts[k]) <=> HubsOf(validFrom, k) # {}
  BY <1>3, UnheardIsUndefined
<1>5. /\ connectedHubs = registered \cup validFrom \cup lostFrom
      /\ DOMAIN counts = {MspOf[g] : g \in connectedHubs}
      /\ m \in DOMAIN counts
  BY <1>1, <1>3 DEF IInv, CountsMatchRegistrations, Books
<1>6. ASSUME strategy \in MspidStrategies
      PROVE  /\ DOMAIN counts = {m}
             /\ SomeValid(counts[m]) <=> validFrom # {}
  <2>1. \A g \in connectedHubs : MspOf[g] = MspId
    BY <1>6, OneOrganisation
  <2>2. DOMAIN counts = {m}
    BY <1>1, <1>5, <2>1
  <2>3. HubsOf(validFrom, m) = validFrom
    BY <1>1, <1>5, <2>1 DEF HubsOf
  <2> QED
    BY <1>4, <2>2, <2>3
<1>7. counts[m].remaining \in Nat
  BY <1>3, <1>5 DEF Books, Count
<1>8. CASE status = STRATEGY_FAILED
  \* Nobody is left to answer and nobody reported VALID.
  <2>1. strategy # "CHANNEL_SCOPE_ALLFORTX"
    BY <1>4, <1>8 DEF ErrorReceived, CheckEachMspIdForEvents, STRATEGY_FAILED, STRATEGY_PASSED
  <2>2. registered = {h} /\ validFrom = {}
    <3>1. CASE strategy = "CHANNEL_SCOPE_ANYFORTX"
      <4>1. CheckRemainingEventsForAll(counts) = STRATEGY_FAILED
        BY <1>8, <3>1 DEF ErrorReceived
      <4>2. \A k \in DOMAIN counts : counts[k].remaining = 0
        BY <4>1 DEF CheckRemainingEventsForAll, STRATEGY_FAILED, STRATEGY_STILLONGOING
      <4>3. registered = {h}
        BY <1>3, <4>2, RemainingZero
      <4> QED
        BY <1>1, <3>1, <4>3 DEF IInv, StillOpen
    <3>2. CASE strategy # "CHANNEL_SCOPE_ANYFORTX"
      <4>1. strategy \in MspidStrategies
        BY <2>1, <3>2, TxEventHandlerAssumption
        DEF IInv, TypeOK, Strategies, MspidStrategies, ChannelStrategies
      <4>2. CheckRemainingEventsForMspId(counts[m]) = STRATEGY_FAILED
        BY <1>8, <2>1, <3>2 DEF ErrorReceived
      <4>3. ~(counts[m].remaining >= 1) /\ ~SomeValid(counts[m])
        BY <4>2 DEF CheckRemainingEventsForMspId, STRATEGY_FAILED, STRATEGY_STILLONGOING,
                    STRATEGY_PASSED
      <4>4. counts[m].remaining = 0 /\ validFrom = {}
        BY <1>6, <1>7, <4>1, <4>3
      <4>5. registered = {h}
        BY <1>3, <1>6, <4>1, <4>4, RemainingZero
      <4> QED
        BY <4>4, <4>5
    <3> QED
      BY <3>1, <3>2
  <2>3. Settle("lost") /\ "lost" \in {"resolved"} \cup Reasons /\ "lost" # "resolved"
    BY <1>2, <1>8 DEF STRATEGY_FAILED, STRATEGY_PASSED, STRATEGY_STILLONGOING, Reasons
  <2>4. TypeOK'
    BY <1>1, <1>2, <1>3, <2>3 DEF IInv, TypeOK, Books, Settle, Reasons
  <2>5. Sources'
    BY <1>1, <1>2, <2>3 DEF IInv, Sources, Settle, EventHubs
  <2>6. validFrom' = {} /\ lostFrom' = connectedHubs
    BY <1>2, <1>5, <2>2
  <2> QED
    BY <1>1, <1>2, <2>3, <2>4, <2>5, <2>6, SettleKeeps
<1>9. CASE status = STRATEGY_PASSED
  \* The last hub of the organisation is gone, but one had reported VALID.
  <2>1. Settle("resolved") /\ "resolved" # "lost"
    BY <1>2, <1>9 DEF STRATEGY_FAILED, STRATEGY_PASSED, STRATEGY_STILLONGOING
  <2>2. TypeOK'
    BY <1>1, <1>2, <1>3, <2>1 DEF IInv, TypeOK, Books, Settle, Reasons
  <2>3. Sources'
    BY <1>1, <1>2, <2>1 DEF IInv, Sources, Settle, EventHubs
  <2>4. ASSUME strategy # "CHANNEL_SCOPE_ALLFORTX"
        PROVE  outcome' = "VALID" /\ Promised'
    <3>1. strategy # "CHANNEL_SCOPE_ANYFORTX"
      BY <1>9 DEF ErrorReceived, CheckRemainingEventsForAll, STRATEGY_PASSED,
                  STRATEGY_FAILED, STRATEGY_STILLONGOING
    <3>2. strategy \in MspidStrategies
      BY <2>4, <3>1, TxEventHandlerAssumption
      DEF IInv, TypeOK, Strategies, MspidStrategies, ChannelStrategies
    <3>3. CheckRemainingEventsForMspId(counts[m]) = STRATEGY_PASSED
      BY <1>9, <2>4, <3>1 DEF ErrorReceived
    <3>4. ~(counts[m].remaining >= 1) /\ SomeValid(counts[m])
      BY <3>3 DEF CheckRemainingEventsForMspId, STRATEGY_FAILED, STRATEGY_STILLONGOING,
                  STRATEGY_PASSED
    <3>5. counts[m].remaining = 0 /\ validFrom # {}
      BY <1>6, <1>7, <3>2, <3>4
    <3>6. registered = {h}
      BY <1>3, <1>6, <3>2, <3>5, RemainingZero
    <3>7. connectedHubs' = validFrom' \cup lostFrom' /\ validFrom' # {}
      BY <1>2, <1>5, <3>5, <3>6
    <3> QED
      BY <2>4, <3>1, <3>5, <3>7 DEF Promised, IInv, Sources
  <2> QED
    BY <1>1, <1>2, <2>1, <2>2, <2>3, <2>4, SettleKeeps
<1>10. CASE status = STRATEGY_STILLONGOING
  <2>1. KeepListening(h)
    BY <1>2, <1>10 DEF STRATEGY_FAILED, STRATEGY_PASSED, STRATEGY_STILLONGOING
  <2>2. TypeOK'
    BY <1>1, <1>2, <1>3, <2>1 DEF IInv, TypeOK, Books, KeepListening
  <2>3. Sources'
    BY <1>1, <1>2, <2>1 DEF IInv, Sources, KeepListening, EventHubs
  <2>4. strategy # "CHANNEL_SCOPE_ALLFORTX"
    BY <1>4, <1>10 DEF ErrorReceived, CheckEachMspIdForEvents, STRATEGY_STILLONGOING,
                       STRATEGY_PASSED
  <2>5. registered # {h}
    <3> SUFFICES ASSUME registered = {h} PROVE FALSE
      OBVIOUS
    <3>1. \A k \in DOMAIN counts : counts[k].remaining = 0
      <4>1. \A k : HubsOf(registered \ {h}, k) = {}
        BY DEF HubsOf
      <4>2. \A k : Cardinality(HubsOf(registered \ {h}, k)) = 0
        BY <4>1, FS_EmptySet
      <4> QED
        BY <1>3, <4>2 DEF Books
    <3>2. counts[m].remaining = 0
      BY <1>5, <3>1
    <3> QED
      BY <1>10, <2>4, <3>1, <3>2
      DEF ErrorReceived, CheckRemainingEventsForAll, CheckRemainingEventsForMspId,
          STRATEGY_STILLONGOING, STRATEGY_PASSED, STRATEGY_FAILED
  <2>6. strategy # "MSPID_SCOPE_ALLFORTX" => validFrom' = {}
    BY <1>1, <1>2 DEF IInv, StillOpen
  <2>7. /\ validFrom' \cup lostFrom' = validFrom \cup lostFrom \cup {h}
        /\ Books(eventsByMspId', registered \ {h}, validFrom')
    BY <1>2, <1>3
  <2> QED
    BY <1>2, <2>1, <2>2, <2>3, <2>5, <2>6, <2>7, KeepListeningKeeps
<1>11. status \in {STRATEGY_FAILED, STRATEGY_PASSED, STRATEGY_STILLONGOING}
  BY DEF ErrorReceived, CheckRemainingEventsForAll, CheckRemainingEventsForMspId,
         CheckEachMspIdForEvents
<1> QED
  BY <1>8, <1>9, <1>10, <1>11

-----------------------------------------------------------------------------
(* Every step keeps the invariant                                          *)

\* A step that leaves the handler alone keeps the invariant if registered hubs
\* stay connected and an ordered transaction keeps its code.
LEMMA HandlerUntouched ==
    ASSUME IInv, UNCHANGED <<strategy, handlerVars>>, TypeOK',
           \A h \in registered : connected'[h],
           outcome # "none" => outcome' = outcome
    PROVE  IInv'
<1>1. LifeCycle' /\ StillOpen' /\ LossFailsOnlyUnheard'
  BY DEF IInv, LifeCycle, StillOpen, LossFailsOnlyUnheard, Listening, handlerVars
<1>2. Sources'
  BY DEF IInv, Sources, EventHubs, handlerVars
<1>3. CountsMatchRegistrations'
  BY DEF IInv, CountsMatchRegistrations, Listening, HubsOf, handlerVars
<1>4. strategy' # "CHANNEL_SCOPE_ALLFORTX" => ResolvedMeansPromised'
  BY DEF IInv, ResolvedMeansPromised, Promised, OrgHeard, HubsOf, EventHubs, handlerVars
<1> QED
  BY <1>1, <1>2, <1>3, <1>4 DEF IInv

LEMMA IInvNext == IInv /\ [Next]_vars => IInv'
<1> SUFFICES ASSUME IInv, [Next]_vars PROVE IInv'
  OBVIOUS
<1>1. CASE StartListening
  BY <1>1, StartKeeps
<1>2. CASE Reestablished
  <2>1. /\ notificationPromise = "none" /\ registered = {} /\ timeoutHandle # "armed"
        /\ call' = "threw"
        /\ UNCHANGED <<strategy, connected, outcome, passed, eventsByMspId, connectedHubs,
                       registered, timeoutHandle, notificationPromise, validFrom, lostFrom>>
    BY <1>2 DEF Reestablished, IInv, LifeCycle, TypeOK, Listening, ledgerVars
  <2>2. TypeOK'
    BY <2>1 DEF IInv, TypeOK
  <2>3. LifeCycle' /\ StillOpen' /\ CountsMatchRegistrations'
    BY <2>1 DEF IInv, LifeCycle, StillOpen, CountsMatchRegistrations, Listening
  <2>4. Sources' /\ LossFailsOnlyUnheard' /\ ResolvedMeansPromised'
    BY <2>1 DEF IInv, Sources, LossFailsOnlyUnheard, ResolvedMeansPromised, EventHubs
  <2> QED
    BY <2>2, <2>3, <2>4 DEF IInv
<1>3. CASE TimeoutFires
  <2>1. /\ Listening /\ Settle("timeout")
        /\ UNCHANGED <<strategy, connected, outcome, passed, call, eventsByMspId,
                       connectedHubs, validFrom, lostFrom>>
    BY <1>3 DEF TimeoutFires, IInv, LifeCycle, ledgerVars
  <2>2. TypeOK' /\ Sources'
    BY <2>1 DEF IInv, TypeOK, Sources, Settle, Reasons, EventHubs
  <2>3. "timeout" \in {"resolved"} \cup Reasons /\ "timeout" # "lost" /\ "timeout" # "resolved"
    BY DEF Reasons
  <2> QED
    BY <2>1, <2>2, <2>3, SettleKeeps
<1>4. CASE CancelListening
  <2>1. /\ call = "listening" /\ call' = "cancelled" /\ registered' = {}
        /\ timeoutHandle' = "cleared"
        /\ UNCHANGED <<strategy, connected, outcome, passed, eventsByMspId, connectedHubs,
                       notificationPromise, validFrom, lostFrom>>
    BY <1>4 DEF CancelListening, ledgerVars
  <2>2. TypeOK' /\ Sources'
    BY <2>1 DEF IInv, TypeOK, Sources, EventHubs
  <2>3. LifeCycle' /\ StillOpen' /\ CountsMatchRegistrations'
    BY <2>1 DEF IInv, LifeCycle, StillOpen, CountsMatchRegistrations, Listening
  <2>4. LossFailsOnlyUnheard' /\ (strategy' # "CHANNEL_SCOPE_ALLFORTX" => ResolvedMeansPromised')
    BY <2>1 DEF IInv, LossFailsOnlyUnheard, ResolvedMeansPromised, Promised, OrgHeard,
                HubsOf, EventHubs
  <2> QED
    BY <2>2, <2>3, <2>4 DEF IInv
<1>5. ASSUME NEW h \in Hubs, HubError(h)
      PROVE  IInv'
  <2>1. /\ connected' = [connected EXCEPT ![h] = FALSE]
        /\ UNCHANGED <<strategy, outcome, passed>>
    BY <1>5 DEF HubError, ledgerVars
  <2>2. CASE h \in registered
    BY <1>5, <2>1, <2>2, ErrorCallbackKeeps DEF HubError
  <2>3. CASE h \notin registered
    <3>1. UNCHANGED handlerVars
      BY <1>5, <2>3 DEF HubError
    <3>2. TypeOK'
      BY <2>1, <3>1 DEF IInv, TypeOK, handlerVars
    <3>3. \A g \in registered : connected'[g]
      BY <2>1, <2>3 DEF IInv, TypeOK, Sources
    <3> QED
      BY <2>1, <3>1, <3>2, <3>3, HandlerUntouched
  <2> QED
    BY <2>2, <2>3
<1>6. ASSUME NEW h \in Hubs, HubConnect(h)
      PROVE  IInv'
  <2>1. /\ connected' = [connected EXCEPT ![h] = TRUE]
        /\ UNCHANGED <<strategy, handlerVars, outcome, passed>>
    BY <1>6 DEF HubConnect, ledgerVars
  <2>2. TypeOK'
    BY <2>1 DEF IInv, TypeOK, handlerVars
  <2>3. \A g \in registered : connected'[g]
    BY <2>1 DEF IInv, TypeOK, Sources
  <2> QED
    BY <2>1, <2>2, <2>3, HandlerUntouched
<1>7. ASSUME NEW h \in Hubs, PeerCommit(h)
      PROVE  IInv'
  <2>1. /\ outcome # "none" /\ passed' = passed \cup {h}
        /\ UNCHANGED <<strategy, connected, outcome>>
    BY <1>7 DEF PeerCommit
  <2>2. passed' \in SUBSET Hubs /\ outcome \in {"VALID", "INVALID"}
    BY <2>1 DEF IInv, TypeOK
  <2>3. CASE h \in registered
    BY <1>7, <2>1, <2>2, <2>3, EventCallbackKeeps DEF PeerCommit
  <2>4. CASE h \notin registered
    <3>1. UNCHANGED handlerVars
      BY <1>7, <2>4 DEF PeerCommit
    <3>2. TypeOK'
      BY <2>1, <2>2, <3>1 DEF IInv, TypeOK, handlerVars
    <3> QED
      BY <2>1, <3>1, <3>2, HandlerUntouched DEF IInv, Sources
  <2> QED
    BY <2>3, <2>4
<1>8. ASSUME NEW code \in {"VALID", "INVALID"}, Order(code)
      PROVE  IInv'
  <2>1. /\ outcome = "none" /\ outcome' = code
        /\ UNCHANGED <<strategy, connected, handlerVars, passed>>
    BY <1>8 DEF Order
  <2>2. TypeOK'
    BY <2>1 DEF IInv, TypeOK, handlerVars
  <2> QED
    BY <2>1, <2>2, HandlerUntouched DEF IInv, Sources
<1>9. CASE UNCHANGED vars
  <2>1. TypeOK'
    BY <1>9 DEF IInv, TypeOK, vars, handlerVars, ledgerVars
  <2> QED
    BY <1>9, <2>1, HandlerUntouched DEF IInv, Sources, vars, ledgerVars
<1> QED
  BY <1>1, <1>2, <1>3, <1>4, <1>5, <1>6, <1>7, <1>8, <1>9 DEF Next

-----------------------------------------------------------------------------
(* The theorems                                                            *)

\* The books of the handler, its lifecycle and its verdicts hang together in
\* every reachable state: the callbacks of startListening keep IInv.
THEOREM Invariance == Spec => []IInv
<1>1. Init => IInv
  BY IInvInit
<1>2. IInv /\ [Next]_vars => IInv'
  BY IInvNext
<1> QED
  BY <1>1, <1>2, PTL DEF Spec

\* Every variable keeps its type; no "remaining" ever drops below zero.
THEOREM TypeCorrectness == Spec => []TypeOK
<1>1. IInv => TypeOK
  BY DEF IInv
<1> QED
  BY <1>1, Invariance, PTL

\* _checkStrategyStatus counts right: "remaining" and "valid" are the numbers
\* of hubs that can still call back and that reported VALID.
THEOREM Accounting == Spec => []CountsMatchRegistrations
<1>1. IInv => CountsMatchRegistrations
  BY DEF IInv
<1> QED
  BY <1>1, Invariance, PTL

\* Once the promise is settled or the caller has cancelled, no hub holds a
\* registration and no timer is armed.
THEOREM Quiet == Spec => []QuietOnceOver
<1>1. IInv => QuietOnceOver
  BY DEF IInv, LifeCycle, QuietOnceOver, Settled, Listening, Reasons
<1> QED
  BY <1>1, Invariance, PTL

\* While the promise is pending a connected hub can still call back.
THEOREM SomebodyLeft == Spec => []WaitsForSomebody
<1>1. IInv => WaitsForSomebody
  BY DEF IInv, StillOpen, Sources, WaitsForSomebody
<1> QED
  BY <1>1, Invariance, PTL

\* Loss of hubs rejects the promise only when no hub reported VALID.
THEOREM LossIsTotal == Spec => []LossFailsOnlyUnheard
<1>1. IInv => LossFailsOnlyUnheard
  BY DEF IInv
<1> QED
  BY <1>1, Invariance, PTL

\* Unless CHANNEL_SCOPE_ALLFORTX may be configured, a resolved promise means
\* the transaction was committed as VALID and the strategy was satisfied.
THEOREM Soundness ==
    ASSUME "CHANNEL_SCOPE_ALLFORTX" \notin Configured
    PROVE  Spec => []ResolvedMeansPromised
<1>1. IInv => ResolvedMeansPromised
  BY DEF IInv, TypeOK
<1> QED
  BY <1>1, Invariance, PTL

-----------------------------------------------------------------------------
(* A refusal is right                                                      *)

\* While the handler listens its strategy is not satisfied.
LEMMA ListeningUnmet == IInv /\ Listening => ~Promised
<1> SUFFICES ASSUME IInv, Listening PROVE ~Promised
  OBVIOUS
<1>1. /\ connectedHubs = registered \cup validFrom \cup lostFrom
      /\ registered \cap (validFrom \cup lostFrom) = {} /\ registered # {}
      /\ registered \subseteq EventHubs
  BY DEF IInv, CountsMatchRegistrations, StillOpen, Sources
<1>2. CASE strategy = "MSPID_SCOPE_ALLFORTX"
  BY <1>1, <1>2 DEF Promised
<1>3. CASE strategy = "CHANNEL_SCOPE_ALLFORTX"
  <2>1. validFrom = {} /\ \E h : h \in EventHubs
    BY <1>1, <1>3 DEF IInv, StillOpen
  <2>2. \E m \in {MspOf[h] : h \in EventHubs} : ~OrgHeard(m)
    BY <2>1 DEF OrgHeard, HubsOf
  <2> QED
    BY <1>3, <2>2 DEF Promised
<1>4. CASE strategy \notin {"MSPID_SCOPE_ALLFORTX", "CHANNEL_SCOPE_ALLFORTX"}
  BY <1>4 DEF Promised, IInv, StillOpen
<1> QED
  BY <1>2, <1>3, <1>4

\* What the hubs reported is all that decides whether the strategy is satisfied.
LEMMA UnmetStays ==
    ASSUME UNCHANGED <<strategy, connectedHubs, validFrom, lostFrom>>
    PROVE  Promised' <=> Promised
BY DEF Promised, OrgHeard, HubsOf, EventHubs

\* Nothing the hubs, the peers or the timer do touches a settled handler.
LEMMA SettledStays ==
    ASSUME IInv, Settled, [Next]_vars
    PROVE  UNCHANGED <<strategy, connectedHubs, validFrom, lostFrom>>
<1>1. registered = {} /\ timeoutHandle # "armed" /\ call \in {"listening", "cancelled"}
  BY DEF IInv, LifeCycle, Settled, Listening, Reasons
<1>2. ASSUME NEW h \in Hubs, HubError(h) \/ HubConnect(h) \/ PeerCommit(h)
      PROVE  UNCHANGED <<strategy, connectedHubs, validFrom, lostFrom>>
  BY <1>1, <1>2 DEF HubError, HubConnect, PeerCommit, handlerVars
<1>3. CASE StartListening \/ Reestablished \/ TimeoutFires \/ CancelListening
  BY <1>1, <1>3 DEF StartListening, Reestablished, TimeoutFires, CancelListening
<1>4. CASE (\E code \in {"VALID", "INVALID"} : Order(code)) \/ UNCHANGED vars
  BY <1>4 DEF Order, vars, handlerVars
<1> QED
  BY <1>2, <1>3, <1>4 DEF Next

\* A step that refuses the client finds the strategy unmet and leaves it so.
LEMMA RefusalKeeps ==
    ASSUME IInv, IInv', [Next]_vars, notificationPromise \notin Reasons,
           notificationPromise' \in Reasons
    PROVE  ~Promised'
<1>1. "none" \notin Reasons /\ "pending" \notin Reasons /\ "resolved" \notin Reasons
  BY DEF Reasons
<1>2. ASSUME TimeoutFires PROVE ~Promised'
  <2>1. Listening /\ UNCHANGED <<strategy, connectedHubs, validFrom, lostFrom>>
    BY <1>2 DEF TimeoutFires, IInv, LifeCycle
  <2> QED
    BY <2>1, ListeningUnmet, UnmetStays
<1>3. ASSUME NEW h \in Hubs, HubError(h) PROVE ~Promised'
  <2>1. h \in registered /\ ErrorCallback(h) /\ strategy' = strategy
    BY <1>3 DEF HubError, handlerVars
  <2>2. notificationPromise' = "lost"
    BY <1>1, <2>1 DEF ErrorCallback, Settle, KeepListening, STRATEGY_FAILED,
                      STRATEGY_PASSED, STRATEGY_STILLONGOING, ErrorReceived,
                      CheckRemainingEventsForAll, CheckRemainingEventsForMspId,
                      CheckEachMspIdForEvents
  <2>3. validFrom' = {}
    BY <2>2 DEF IInv, LossFailsOnlyUnheard
  <2>4. h \in EventHubs'
    BY <2>1 DEF IInv, Sources, EventHubs
  <2>5. strategy' = "CHANNEL_SCOPE_ALLFORTX" => ~Promised'
    <3>1. MspOf[h] \in {MspOf[g] : g \in EventHubs'} /\ ~OrgHeard(MspOf[h])'
      BY <2>3, <2>4 DEF OrgHeard, HubsOf
    <3> QED
      BY <3>1 DEF Promised
  <2> QED
    BY <2>3, <2>5 DEF Promised
<1>4. ASSUME NEW h \in Hubs, PeerCommit(h) PROVE ~Promised'
  <2>1. h \in registered /\ EventCallback(h, outcome) /\ strategy' = strategy
    BY <1>4 DEF PeerCommit, handlerVars
  <2>2. UNCHANGED <<strategy, connectedHubs, validFrom, lostFrom>>
    BY <1>1, <2>1 DEF EventCallback, Settle, KeepListening
  <2>3. Listening
    BY <2>1 DEF IInv, LifeCycle
  <2> QED
    BY <2>2, <2>3, ListeningUnmet, UnmetStays
<1>5. ASSUME NEW h \in Hubs, HubConnect(h) PROVE FALSE
  BY <1>5 DEF HubConnect, handlerVars
<1>6. CASE StartListening \/ Reestablished \/ CancelListening
  BY <1>1, <1>6 DEF StartListening, Reestablished, CancelListening
<1>7. CASE (\E code \in {"VALID", "INVALID"} : Order(code)) \/ UNCHANGED vars
  BY <1>7 DEF Order, vars, handlerVars
<1> QED
  BY <1>2, <1>3, <1>4, <1>5, <1>6, <1>7 DEF Next

\* No timer, event or loss refuses a client whose strategy the hubs' reports have
\* satisfied.
THEOREM Refusal == Spec => []RejectedMeansUnmet
<1>1. Init => RejectedMeansUnmet
  BY DEF Init, RejectedMeansUnmet, Reasons
<1>2. IInv /\ IInv' /\ [Next]_vars /\ RejectedMeansUnmet => RejectedMeansUnmet'
  <2> SUFFICES ASSUME IInv, IInv', [Next]_vars, RejectedMeansUnmet,
                      notificationPromise' \in Reasons
               PROVE  ~Promised'
    BY DEF RejectedMeansUnmet, Reasons
  <2>1. CASE notificationPromise \in Reasons
    BY <2>1, SettledStays, UnmetStays DEF RejectedMeansUnmet, Settled
  <2>2. CASE notificationPromise \notin Reasons
    BY <2>2, RefusalKeeps
  <2> QED
    BY <2>1, <2>2
<1> QED
  BY <1>1, <1>2, Invariance, PTL DEF Spec
=============================================================================
