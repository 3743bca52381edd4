-------------------------- MODULE EventStrategies --------------------------
(***************************************************************************)
(* The four event strategies of lib/impl/event, as pure operators.  A      *)
(* strategy decides from the counts DefaultTxEventHandler keeps per        *)
(* organisation whether listening may start, and, after every event or     *)
(* error, whether the strategy has passed, has failed or is still ongoing. *)
(*                                                                         *)
(* "counts" stands for the Map eventsByMspId: a function whose domain is   *)
(* the set of organisations that have an entry.                            *)
(***************************************************************************)
EXTENDS Integers

CONSTANT Undefined   \* JavaScript's undefined, the initial count.valid

ASSUME UndefinedAssumption == Undefined \notin Nat

STRATEGY_PASSED       == 1
STRATEGY_STILLONGOING == 0
STRATEGY_FAILED       == -1

MspidStrategies   == {"MSPID_SCOPE_ALLFORTX", "MSPID_SCOPE_ANYFORTX"}
ChannelStrategies == {"CHANNEL_SCOPE_ALLFORTX", "CHANNEL_SCOPE_ANYFORTX"}
Strategies        == MspidStrategies \cup ChannelStrategies

\* An entry of eventsByMspId; the code creates it without a "valid" field.
Count == [initial : Nat, remaining : Nat, valid : Nat \cup {Undefined}]

NewCount(n) == [initial |-> n, remaining |-> n, valid |-> Undefined]

-----------------------------------------------------------------------------
(* May listening start?                                                    *)

CheckInitialCountByMspId(counts) ==
    /\ DOMAIN counts # {}
    /\ \A m \in DOMAIN counts : counts[m].initial >= 1

CheckInitialCountTotal(counts) ==
    \E m \in DOMAIN counts : counts[m].initial >= 1

CheckInitialState(strategy, counts) ==
    IF strategy = "CHANNEL_SCOPE_ANYFORTX"
    THEN CheckInitialCountTotal(counts)
    ELSE CheckInitialCountByMspId(counts)

-----------------------------------------------------------------------------
(* What does an event or an error decide?                                  *)

\* count.valid > 0, which is false of undefined
SomeValid(count) == count.valid \notin {0, Undefined}

\* Bug: the last hub to answer decides, whatever the others reported.
CheckRemainingForgetsValid(count) ==
    IF count.remaining >= 1 THEN STRATEGY_STILLONGOING ELSE STRATEGY_FAILED

\* Bug: off by one, the last answer is waited for once more.
CheckRemainingOffByOne(count) ==
    IF count.remaining >= 0 THEN STRATEGY_STILLONGOING
    ELSE IF SomeValid(count) THEN STRATEGY_PASSED
    ELSE STRATEGY_FAILED

\* Bug: nobody looks whether any hub reported VALID.
CheckRemainingPasses(count) ==
    IF count.remaining >= 1 THEN STRATEGY_STILLONGOING ELSE STRATEGY_PASSED

CheckRemainingEventsForMspId(count) ==
    IF count.remaining >= 1 THEN STRATEGY_STILLONGOING
    ELSE IF SomeValid(count) THEN STRATEGY_PASSED
    ELSE STRATEGY_FAILED

\* The code compares valid with 0 by ===, and undefined is not 0.
CheckEachMspIdForEvents(counts) ==
    LET unheard == {m \in DOMAIN counts : counts[m].valid = 0}
    IN  IF \A m \in unheard : counts[m].remaining = 0 THEN STRATEGY_PASSED
        ELSE IF \E m \in unheard : counts[m].remaining = 0 THEN STRATEGY_FAILED
        ELSE STRATEGY_STILLONGOING

\* Bug: off by one, a total of 0 is not below 0.
CheckRemainingEventsNever(counts) ==
    IF \E m \in DOMAIN counts : counts[m].remaining < 0
    THEN STRATEGY_FAILED
    ELSE STRATEGY_STILLONGOING

CheckRemainingEventsForAll(counts) ==
    IF \A m \in DOMAIN counts : counts[m].remaining = 0
    THEN STRATEGY_FAILED
    ELSE STRATEGY_STILLONGOING

EventReceived(strategy, counts, m) ==
    CASE strategy = "MSPID_SCOPE_ALLFORTX"   -> CheckRemainingEventsForMspId(counts[m])
      [] strategy = "CHANNEL_SCOPE_ALLFORTX" -> CheckEachMspIdForEvents(counts)
      [] OTHER                               -> STRATEGY_PASSED

ErrorReceived(strategy, counts, m) ==
    CASE strategy = "CHANNEL_SCOPE_ALLFORTX" -> CheckEachMspIdForEvents(counts)
      [] strategy = "CHANNEL_SCOPE_ANYFORTX" -> CheckRemainingEventsForAll(counts)
      [] OTHER                               -> CheckRemainingEventsForMspId(counts[m])

\* Bug: an event is not taken off the remaining ones.
CountEventStays(count) ==
    [count EXCEPT !.valid = IF SomeValid(count) THEN @ + 1 ELSE 1]

\* The two updates of _checkStrategyStatus
CountEvent(count) ==
    [count EXCEPT !.remaining = @ - 1,
                  !.valid     = IF SomeValid(count) THEN @ + 1 ELSE 1]

CountError(count) == [count EXCEPT !.remaining = @ - 1]
=============================================================================
