--------------------------- MODULE IdentityStore ----------------------------
(***************************************************************************)
(* What a wallet (lib/impl/wallet) is to callers that do not get in each   *)
(* other's way: a map from labels to identities, each named by the call    *)
(* that brought it, and the one identity that the client of the network    *)
(* remembers, whatever became of it in the map.  A call takes effect at    *)
(* once, when it is answered, and one that fails has none on the map.  No  *)
(* stores, keys or steps.                                                  *)
(***************************************************************************)
CONSTANTS Labels, Calls, None

VARIABLES
    stored,   \* per label: the identity
    held,     \* the identity that the client remembers
    usable,   \* the HSM, if there is one, was not closed
    removes,  \* a delete removes the identity
    op,       \* per call: what it asks for, of which label, and its answer
    label,
    result

vars == <<stored, held, usable, removes, op, label, result>>

Init ==
    /\ stored = [l \in Labels |-> None]
    /\ held = None
    /\ usable = TRUE
    /\ removes \in BOOLEAN
    /\ op = [c \in Calls |-> "none"]
    /\ label = [c \in Calls |-> None]
    /\ result = [c \in Calls |-> "none"]

Pending(c) == op[c] # "none" /\ result[c] = "none"

Saves(c) == op[c] \in {"import", "enroll"}

Begin(c, o, l) ==
    /\ op[c] = "none"
    /\ op' = [op EXCEPT ![c] = o]
    /\ label' = [label EXCEPT ![c] = l]
    /\ UNCHANGED <<stored, held, usable, removes, result>>

Answer(c, r) ==
    /\ Pending(c)
    /\ result' = [result EXCEPT ![c] = r]
    /\ UNCHANGED <<usable, removes, op, label>>

\* The identity is there, instead of one that was there before.
Save(c) ==
    /\ Saves(c)
    /\ usable
    /\ Answer(c, "saved")
    /\ stored' = [stored EXCEPT ![label[c]] = c]
    /\ held' = IF op[c] = "enroll" THEN c ELSE held

\* What was there before is there still; an enrolment may be remembered even so.
Fail(c) ==
    /\ Answer(c, "failed")
    /\ UNCHANGED held \/ (op[c] = "enroll" /\ held' = c)
    /\ UNCHANGED stored

Remembered(l) == held # None /\ label[held] = l

Found(l) == usable /\ stored[l] # None

Load(c) ==
    /\ op[c] = "load"
    /\ Answer(c, IF Remembered(label[c]) \/ Found(label[c]) THEN "loaded" ELSE "refused")
    /\ held' = IF Found(label[c]) /\ ~Remembered(label[c]) THEN stored[label[c]] ELSE held
    /\ UNCHANGED stored

Export(c) ==
    /\ op[c] = "export"
    /\ Answer(c, IF stored[label[c]] = None THEN "absent"
                 ELSE IF usable THEN "loaded" ELSE "refused")
    /\ UNCHANGED <<stored, held>>

\* Nobody removes an identity of a label while one is being saved there.  It is
\* remembered after that, and stays in a wallet whose delete removes nothing.
Remove(l) ==
    /\ removes => \A c \in Calls : ~(Pending(c) /\ Saves(c) /\ label[c] = l)
    /\ stored' = IF removes THEN [stored EXCEPT ![l] = None] ELSE stored
    /\ UNCHANGED <<held, usable, removes, op, label, result>>

\* The HSM is closed, or its cache cleared, between calls.
CloseOrReopen ==
    /\ \A c \in Calls : ~Pending(c)
    /\ usable' \in BOOLEAN
    /\ UNCHANGED <<stored, held, removes, op, label, result>>

Next ==
    \/ \E c \in Calls :
          \/ \E o \in {"import", "enroll", "load", "export"}, l \in Labels : Begin(c, o, l)
          \/ Save(c)
          \/ Fail(c)
          \/ Load(c)
          \/ Export(c)
    \/ \E l \in Labels : Remove(l)
    \/ CloseOrReopen

Spec == Init /\ [][Next]_vars
=============================================================================
