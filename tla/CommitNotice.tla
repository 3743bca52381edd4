---------------------------- MODULE CommitNotice ----------------------------
(***************************************************************************)
(* What a listener for one transaction promises its client, as README.md   *)
(* (impl/event) states it for the strategies "all of my organisation", S1, *)
(* and "the first to answer", S2, over the sets of peers that answered:    *)
(* no counts, no registrations, no timer.                                  *)
(***************************************************************************)
CONSTANT Peers

VARIABLES
    rule,        \* "all" or "any"
    status,
    watched,     \* peers the verdict depends on
    confirmed,   \* peers that reported the transaction VALID
    lost         \* peers that can no longer report

vars == <<rule, status, watched, confirmed, lost>>

Init ==
    /\ rule \in {"all", "any"}
    /\ status = "idle"
    /\ watched = {}
    /\ confirmed = {}
    /\ lost = {}

\* "all": everyone has answered or is lost and somebody confirmed.
\* "any": somebody confirmed.
Verdict(c, l) ==
    CASE c # {} /\ (rule = "any" \/ c \cup l = watched) -> "committed"
      [] c = {} /\ l = watched                           -> "failed"
      [] OTHER                                           -> "waiting"

Watch ==
    /\ status = "idle"
    /\ status' = "waiting"
    /\ watched' \in (SUBSET Peers) \ {{}}
    /\ UNCHANGED <<rule, confirmed, lost>>

Unheard == watched \ (confirmed \cup lost)

Confirm(p) ==
    /\ status = "waiting"
    /\ p \in Unheard
    /\ confirmed' = confirmed \cup {p}
    /\ status' = Verdict(confirmed', lost)
    /\ UNCHANGED <<rule, watched, lost>>

Lose(p) ==
    /\ status = "waiting"
    /\ p \in Unheard
    /\ lost' = lost \cup {p}
    /\ status' = Verdict(confirmed, lost')
    /\ UNCHANGED <<rule, watched, confirmed>>

\* A peer rejected the transaction, or the timeout passed.
Fail ==
    /\ status = "waiting"
    /\ status' = "failed"
    /\ UNCHANGED <<rule, watched, confirmed, lost>>

\* The client stopped waiting.
Stop ==
    /\ status = "waiting"
    /\ status' = "stopped"
    /\ UNCHANGED <<rule, watched, confirmed, lost>>

Next ==
    \/ Watch
    \/ \E p \in Peers : Confirm(p) \/ Lose(p)
    \/ Fail
    \/ Stop

Safety == Init /\ [][Next]_vars

\* No client waits for ever.
Spec == Safety /\ WF_vars(Fail)
=============================================================================
