---------------------------- MODULE MCWorkQueue ----------------------------
(***************************************************************************)
(* Instances of WorkQueue.  Times are in units of the shortest wait; every *)
(* schedule keeps its shape (a first wait, a doubling, a ceiling).         *)
(***************************************************************************)
EXTENDS WorkQueue, TLC

CONSTANTS w1, w2

\* A store with one consolidation, or one with one embedding: every budget mark
\* and every grant, on rows that two workers contend for.
OneConsolidation == (1 :> "consolidate") @@ (2 :> "embed")
OneAtATime == {{1}, {2}}

\* Two sources of one conversation.
Conversation == (1 :> "consolidate") @@ (2 :> "consolidate")
Together == {{1, 2}}

\* A page's embedding beside a projection, and each other kind of work alone.
EveryKind == (1 :> "embed") @@ (2 :> "rebuild_projection") @@ (3 :> "evaluate_candidate")
             @@ (4 :> "purge") @@ (5 :> "consolidate")
EveryKindInTurn == {{1, 2}, {3}, {4}, {5}}

\* The two workers differ only in their names while both have every port.
Workers == Permutations({w1, w2})

AllPorts == [w \in Worker |-> WorkType]
=============================================================================
