---------------------------- MODULE RetryHistory ----------------------------
(***************************************************************************)
(* What the column work_items.last_error_code says and how each writer of  *)
(* core/work_storage.py changes it.  The column is a text of segments      *)
(* separated by "|": marks that retry budgets are read from, counts, and,  *)
(* last, the kind of the newest failure.  Here it is the record of what    *)
(* the regular expressions of the code can read back from that text:       *)
(*                                                                         *)
(*   kind   the last segment (_failure_kind), grouped by what the queue    *)
(*          does with it;                                                  *)
(*   marks  the budget marks found anywhere in it (_BUDGET_MARK);          *)
(*   autos  the automatic count (_auto_count, "auto_retry:n");             *)
(*   caps   the capacity count (_capacity_count, "capacity:n").            *)
(*                                                                         *)
(* The length bound of the text (CODE_BOUND) is not modelled: past it the  *)
(* code keeps exactly marks, autos and kind.                               *)
(***************************************************************************)
EXTENDS Integers

CONSTANTS
    Release,       \* releases whose stamp "retried:<release>" a row may carry
    Operation      \* ids of explicit operator retries, "operator_retry:<id>"

ASSUME MarksAreDistinct ==
    /\ Release \cap Operation = {}
    /\ {"derivation_retry", "interrupted_retry", "chunk_upgrade"}
            \cap (Release \cup Operation) = {}

Mark == {"derivation_retry", "interrupted_retry", "chunk_upgrade"}
            \cup Release \cup Operation

(***************************************************************************)
(* "transient" is AUTO_RECOVERABLE_ERRORS without the capacity refusals,   *)
(* "unknown" any failure no release has named, "refused" the by-design     *)
(* outcomes that no retry is given for, "held" the codes of a deferral or  *)
(* of a requeue, which no recovery selects.                                *)
(***************************************************************************)
Kind == {"none", "transient", "capacity", "unknown", "refused", "oversized",
         "invalid", "interrupted", "held", "revoked"}

History == [kind: Kind, marks: SUBSET Mark, autos: Nat, caps: Nat]

Bare(kind) == [kind |-> kind, marks |-> {}, autos |-> 0, caps |-> 0]

NoHistory == Bare("none")

(***************************************************************************)
(* A mark or an automatic count makes the next failure an added segment;   *)
(* anything else is replaced, its capacity count with it.                  *)
(***************************************************************************)
PreserveRetryHistory(h) == h.marks # {} \/ h.autos > 0

\* Mutant: only a mark, not an automatic count, is worth adding to.
RecordedOverCount(h, kind) ==
    IF h.marks # {} THEN [h EXCEPT !.kind = kind] ELSE Bare(kind)

Recorded(h, kind) ==
    IF PreserveRetryHistory(h) THEN [h EXCEPT !.kind = kind] ELSE Bare(kind)

CapacityRefusal(h) == [h EXCEPT !.kind = "capacity", !.caps = @ + 1]

AutoRetryStamp(h) == [h EXCEPT !.autos = @ + 1, !.caps = 0]

WithMark(h, mark) == [h EXCEPT !.marks = @ \cup {mark}]

\* One release's stamp replaces another's (failure_retry.marked).
Marked(h, release) == [h EXCEPT !.marks = (@ \ Release) \cup {release}]

OperatorRetryIds(h) == h.marks \cap Operation

AlreadyRetried(h, release) == release \in h.marks

-----------------------------------------------------------------------------
(***************************************************************************)
(* RetrySchedule.delay: a wait that grows by a factor per failure and is   *)
(* cut at a ceiling.  Written so that the ceiling bounds it by definition. *)
(***************************************************************************)
Backoff(first, ceiling, count) ==
    LET exponent == IF count < 1 THEN 0 ELSE IF count > 33 THEN 32 ELSE count - 1
        wait     == first * 2 ^ exponent
    IN  IF wait \in 0 .. ceiling THEN wait ELSE ceiling
=============================================================================
