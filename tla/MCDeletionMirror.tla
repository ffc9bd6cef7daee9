-------------------------- MODULE MCDeletionMirror --------------------------
(* Two messages and no facts: two deletions that share nothing.               *)
EXTENDS DeletionMirror
CONSTANTS first, second
Messages == {first, second}
Facts == {}
Derived == [c \in {} |-> first]
=============================================================================
