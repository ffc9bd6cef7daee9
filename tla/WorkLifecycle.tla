---------------------------- MODULE WorkLifecycle ----------------------------
(***************************************************************************)
(* What core/work_storage.py promises of every work item, as the state     *)
(* table of a work item says it and no more: how an item may move, that a  *)
(* claim makes a new generation of it, and that an item is done only       *)
(* because the worker of its newest generation said so.  Items that share  *)
(* a conversation have two ways more: the answer to one of them may finish *)
(* others that nobody holds, and the owner may start one afresh and take   *)
(* that back, to exactly the state it was in, while nothing else happened. *)
(***************************************************************************)
EXTENDS Integers

CONSTANTS
    Item,
    Shared        \* the items that share a conversation

VARIABLES
    phase,        \* the state of each item
    generation,   \* how often it was claimed or fenced off
    grants,       \* <<item, generation>> pairs handed to workers still alive
    earlier       \* the state an owner's fresh start may be taken back to

Stopped == {"done", "failed", "obsolete"}

Init ==
    /\ phase \in [Item -> {"absent", "failed"}]
    /\ generation \in [Item -> Nat]
    /\ grants = {}
    /\ earlier = [i \in Item |-> {}]

Newest(i) == <<i, generation[i]>>

Becomes(i, state) == phase'[i] = state /\ generation'[i] = generation[i]

Queued(i) == phase[i] = "absent" /\ Becomes(i, "pending")

\* A lease that ran out may be given to another in the same step.
Granted(i) ==
    /\ phase[i] \in {"pending", "leased"}
    /\ phase'[i] = "leased"
    /\ generation'[i] = generation[i] + 1
    /\ grants' = grants \cup {<<i, generation'[i]>>}

Landed(i) ==
    /\ phase[i] = "leased"
    /\ Newest(i) \in grants
    /\ grants' = grants \ {Newest(i)}
    /\ \E state \in Stopped \cup {"pending"} : Becomes(i, state)

\* Another item's answer covered this one too.
Covered(i) ==
    /\ i \in Shared
    /\ phase[i] = "pending"
    /\ \E j \in Shared \ {i} : Landed(j)
    /\ Becomes(i, "done")

TakenBack(i) == phase[i] = "leased" /\ (Becomes(i, "pending") \/ Becomes(i, "failed"))

Withdrawn(i) ==
    /\ phase[i] \in {"pending", "leased", "failed"}
    /\ phase'[i] = "obsolete"
    /\ generation'[i] \in {generation[i], generation[i] + 1}

Reopened(i) ==
    /\ phase[i] \in Stopped
    /\ phase'[i] = "pending"
    /\ generation'[i] \in {generation[i], generation[i] + 1}

\* The owner starts an item nobody works on afresh.
Reviewed(i) ==
    /\ i \in Shared
    /\ phase[i] # "leased"
    /\ phase'[i] = "pending"
    /\ generation'[i] = generation[i] + 1
    /\ earlier'[i] = {phase[i]}

\* The fresh start is taken back; an item it brought into being is withdrawn.
Undone(i) ==
    /\ i \in Shared
    /\ phase[i] = "pending"
    /\ \E state \in earlier[i] : phase'[i] = IF state = "absent" THEN "obsolete" ELSE state
    /\ generation'[i] = generation[i] + 1

\* An undone rejection changes nothing but the generation.
Outdated(i) ==
    /\ i \in Shared
    /\ phase[i] # "absent"
    /\ phase'[i] = phase[i]
    /\ generation'[i] = generation[i] + 1
    /\ grants' = grants

Moves(i) ==
    /\ earlier'[i] = {}
    /\ \/ Queued(i) \/ Granted(i) \/ Landed(i) \/ Covered(i)
       \/ TakenBack(i) \/ Withdrawn(i) \/ Reopened(i)
       \/ Undone(i) \/ Outdated(i)

Stays(i) ==
    /\ phase'[i] = phase[i]
    /\ generation'[i] = generation[i]
    /\ earlier'[i] \subseteq earlier[i]

\* Leases of several items may be taken back in one step.
Next ==
    /\ \A i \in Item : Moves(i) \/ Reviewed(i) \/ Stays(i)
    /\ \/ grants' \subseteq grants
       \/ \E i \in Item : Granted(i)

Spec == Init /\ [][Next]_<<phase, generation, grants, earlier>>
=============================================================================
