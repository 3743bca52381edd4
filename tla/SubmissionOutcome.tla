------------------------- MODULE SubmissionOutcome --------------------------
(***************************************************************************)
(* What submitTransaction (lib/contract.js) comes to for its client, who   *)
(* sees a call that returns or throws, and for the channel, on which the   *)
(* transaction may be committed.  No endorsements, hubs, strategies,       *)
(* counts or timers, and no awaits.                                        *)
(***************************************************************************)
VARIABLES
    notified,   \* the contract waits for commit events
    client,     \* what the client sees of its call
    orderer,    \* what the orderer did with the transaction
    outcome     \* what it was committed as

vars == <<notified, client, orderer, outcome>>

Init ==
    /\ notified \in BOOLEAN
    /\ client = "idle"
    /\ orderer = "no"
    /\ outcome = "none"

Begin ==
    /\ client = "idle"
    /\ client' = "busy"
    /\ UNCHANGED <<notified, orderer, outcome>>

\* A transaction is sent once, while its client waits.
Send ==
    /\ client = "busy"
    /\ orderer = "no"
    /\ orderer' = "sent"
    /\ UNCHANGED <<notified, client, outcome>>

Accept ==
    /\ client = "busy"
    /\ orderer = "sent"
    /\ orderer' = "accepted"
    /\ UNCHANGED <<notified, client, outcome>>

\* The client learns of a refusal, and the transaction is never committed.
Refuse ==
    /\ client = "busy"
    /\ orderer = "sent"
    /\ outcome = "none"
    /\ orderer' = "refused"
    /\ client' = "threw"
    /\ UNCHANGED <<notified, outcome>>

\* The channel commits what was sent and not refused, be the client still there or not.
Commit(code) ==
    /\ orderer \in {"sent", "accepted"}
    /\ outcome = "none"
    /\ outcome' = code
    /\ UNCHANGED <<notified, client, orderer>>

\* A result means committed as VALID, or at least accepted when nobody waits for
\* events: then the call ends with the acceptance.
Return ==
    /\ client = "busy"
    /\ \/ notified /\ orderer = "accepted" /\ outcome = "VALID"
       \/ ~notified /\ orderer = "sent"
    /\ orderer' = "accepted"
    /\ client' = "payload"
    /\ UNCHANGED <<notified, outcome>>

\* An error may come at any time, and says nothing of what was sent.
Throw ==
    /\ client = "busy"
    /\ client' = "threw"
    /\ \/ UNCHANGED orderer
       \/ ~notified /\ orderer = "sent" /\ orderer' = "accepted"
    /\ UNCHANGED <<notified, outcome>>

Next ==
    \/ Begin
    \/ Send
    \/ Accept
    \/ Refuse
    \/ \E code \in {"VALID", "INVALID"} : Commit(code)
    \/ Return
    \/ Throw

Safety == Init /\ [][Next]_vars

\* Every call returns or throws.
Spec == Safety /\ WF_vars(Throw)
=============================================================================
