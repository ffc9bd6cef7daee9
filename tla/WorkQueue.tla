------------------------------ MODULE WorkQueue ------------------------------
(***************************************************************************)
(* The durable work queue of core/work_storage.py and the worker replies   *)
(* of core/worker_outcomes.py: one row of work_items per subject, leased   *)
(* to one worker at a time under a token, retried within bounded budgets,  *)
(* refunded when a provider or an allowance refused before the attempt,    *)
(* recovered after a cooldown, and reopened by an operator.  The rows of   *)
(* consolidations have three writers more: the answer of another one of    *)
(* their conversation (core/consolidate.py, core/adoption_work.py), and    *)
(* the owner's reviews and their undo (core/review_sources.py).            *)
(*                                                                         *)
(* Every action is one IMMEDIATE write transaction, so rows change         *)
(* atomically; what interleaves is the work between a claim and its reply. *)
(* Times are kept relative to the clock: wait is available_at - now, ttl   *)
(* is lease_until - now.                                                   *)
(***************************************************************************)
EXTENDS RetryHistory, FiniteSets

CONSTANTS
    Item,                \* work ids
    Stores,              \* the sets of items one store may come to queue
    TypeOf,              \* Item -> WorkType
    Worker, NoWorker,    \* lease owners; the NULL owner
    Ports,               \* Worker -> the work types its ports can process
    Legacy,              \* items an earlier release may have left failed
    MAX_RECOVERABLE_ATTEMPTS, MAX_OPERATOR_RETRIES,
    MaxRecoveries,       \* config.max_auto_recoveries
    LeaseSeconds, CooldownSeconds, AgingSeconds, FreshLaneSeconds,
    RetryFirst, RetryCeiling, CapacityFirst, CapacityCeiling,
    HoldSeconds,         \* the waits a deferral may ask for
    PurgeTries,          \* attempts after which an obsolete purge is not requeued
    MaxLag,              \* how old the clock reading of a reply may be
    MaxHeld,             \* how many leases one worker's pass works under
    Horizon,             \* waits below -Horizon are not told apart
    MaxFree              \* bound: refunds and fresh starts granted from outside

WorkType == {"purge", "consolidate", "embed", "rebuild_projection",
             "evaluate_candidate"}

ASSUME QueueAssumption ==
    /\ Item \subseteq Nat
    /\ Stores \subseteq SUBSET Item
    /\ TypeOf \in [Item -> WorkType]
    /\ NoWorker \notin Worker
    /\ Ports \in [Worker -> SUBSET WorkType]
    /\ Legacy \subseteq Item
    /\ MAX_RECOVERABLE_ATTEMPTS \in Nat \ {0}
    /\ MAX_OPERATOR_RETRIES \in Nat
    /\ MaxRecoveries \in 0 .. 4
    /\ LeaseSeconds \in Nat \ {0}
    /\ {CooldownSeconds, AgingSeconds, FreshLaneSeconds, RetryFirst,
        RetryCeiling, CapacityFirst, CapacityCeiling, MaxLag, MaxFree} \subseteq Nat
    /\ HoldSeconds \subseteq Nat
    /\ PurgeTries \in 0 .. MAX_RECOVERABLE_ATTEMPTS
    /\ MaxHeld \in Nat \ {0}
    /\ Horizon \in Nat
    /\ {CooldownSeconds, AgingSeconds, FreshLaneSeconds} \subseteq 0 .. Horizon

VARIABLES
    rows,      \* work_items, by work id
    leases,    \* the LeasedWork values workers hold, dead ones included
    live,      \* items whose subject may still be worked on
    undoable,  \* the row as it was before an approval that can still be undone
    free       \* bound only: refunds and fresh starts granted so far

vars == <<rows, leases, live, undoable, free>>

State == {"absent", "pending", "leased", "done", "failed", "obsolete"}

Row == [state: State, attempt: Nat, token: Nat, owner: Worker \cup {NoWorker},
        ttl: Int, wait: Int, history: History]

LeasedWork == [item: Item, token: Nat, owner: Worker]

TypeOK ==
    /\ rows \in [Item -> Row]
    /\ leases \subseteq LeasedWork
    /\ live \subseteq Item
    /\ undoable \in [Item -> SUBSET Row]
    /\ free \in Nat

AbsentRow == [state |-> "absent", attempt |-> 0, token |-> 0, owner |-> NoWorker,
              ttl |-> 0, wait |-> 0, history |-> NoHistory]

\* A store carried over from an earlier release may hold failures that were
\* never given the marks this release writes.
LegacyFailure(attempt, kind) ==
    [AbsentRow EXCEPT !.state = "failed", !.attempt = attempt, !.token = attempt,
                      !.history = Bare(kind)]

LegacyRow ==
    {LegacyFailure(attempt, kind) :
        attempt \in 1 .. MAX_RECOVERABLE_ATTEMPTS, kind \in {"invalid", "oversized"}}

Init ==
    /\ rows \in [Item -> LegacyRow \cup {AbsentRow}]
    /\ live \in Stores
    /\ \A i \in Item : rows[i] # AbsentRow => i \in Legacy \cap live
    /\ leases = {}
    /\ undoable = [i \in Item |-> {}]
    /\ free = 0

-----------------------------------------------------------------------------
\* A row taken out of its lease, or back into the queue.
Unleased(r, state, history) ==
    [r EXCEPT !.state = state, !.owner = NoWorker, !.history = history]

Pending(r, wait, history) == [Unleased(r, "pending", history) EXCEPT !.wait = wait]

Failed(r, wait, history) == [Unleased(r, "failed", history) EXCEPT !.wait = wait]

\* A requeue that forgives the attempts, one that outdates the token, and the
\* two ways of rewriting a failed row where it stands.
Restarted(r, history) == [Pending(r, 0, history) EXCEPT !.attempt = 0]

Fenced(r) == [r EXCEPT !.token = @ + 1]

Noted(r, history) == [r EXCEPT !.history = history]

Obsolete(r) == [r EXCEPT !.state = "obsolete"]

\* Mutant: the refusal and its deferral each give the attempt back.
RefundedTwice(r) == [r EXCEPT !.attempt = @ - 2]

Refunded(r) == [r EXCEPT !.attempt = IF @ = 0 THEN 0 ELSE @ - 1]

\* A review is undone only while its row is as the decision left it (the digest
\* that undo compares), so whatever rewrites the row ends that.
Put(i, r) ==
    /\ rows' = [rows EXCEPT ![i] = r]
    /\ undoable' = [undoable EXCEPT ![i] = {}]

(***************************************************************************)
(* enqueue: a subject is queued at most once, whatever became of its row.  *)
(***************************************************************************)
Enqueue(i) ==
    /\ rows[i].state = "absent"
    /\ i \in live
    /\ Put(i, [rows[i] EXCEPT !.state = "pending"])
    /\ UNCHANGED <<leases, live, free>>

-----------------------------------------------------------------------------
(***************************************************************************)
(* release_stale on one row: an expired lease is given back until its      *)
(* attempts are spent, then it is a failure like another.                  *)
(***************************************************************************)
Expired(r) == r.state = "leased" /\ r.ttl < 0

\* Mutant: only leases with attempts left are looked at.
ReleasedUnspent(r) ==
    IF Expired(r) /\ r.attempt < MAX_RECOVERABLE_ATTEMPTS
    THEN Unleased(r, "pending", r.history) ELSE r

ReleasedRow(r) ==
    IF ~Expired(r) THEN r
    ELSE IF r.attempt >= MAX_RECOVERABLE_ATTEMPTS
    THEN Failed(r, 0, Recorded(r.history, "transient"))
    ELSE Unleased(r, "pending", r.history)

Released == [i \in Item |-> ReleasedRow(rows[i])]

Ready(R, kinds) ==
    {i \in Item : R[i].state = "pending" /\ R[i].wait <= 0 /\ TypeOf[i] \in kinds}

\* _AGED_CLAIM_ORDER: purge first, a young evaluation last.
ClaimClass(R, i) ==
    IF TypeOf[i] = "purge" THEN 0
    ELSE IF TypeOf[i] = "evaluate_candidate" /\ R[i].wait > -AgingSeconds THEN 2
    ELSE 1

Precedes(R, i, j) ==
    \/ ClaimClass(R, i) < ClaimClass(R, j)
    \/ /\ ClaimClass(R, i) = ClaimClass(R, j)
       /\ \/ R[i].wait < R[j].wait
          \/ R[i].wait = R[j].wait /\ R[i].wait > -Horizon /\ i < j

FifoHeads(R, kinds) ==
    {i \in Ready(R, kinds) : \A j \in Ready(R, kinds) : ~Precedes(R, j, i)}

\* The fresh lane gives way to a purge; any young consolidation or embedding
\* may be the oldest one whose source is fresh conversation.
FreshHeads(R, kinds) ==
    {i \in Ready(R, kinds) :
        /\ TypeOf[i] \in {"consolidate", "embed"}
        /\ R[i].wait >= -FreshLaneSeconds
        /\ \A j \in Ready(R, kinds) : TypeOf[j] # "purge"}

Heads(R, kinds, freshLane) ==
    IF freshLane /\ FreshHeads(R, kinds) # {} THEN FreshHeads(R, kinds)
                                              ELSE FifoHeads(R, kinds)

\* Mutant: the claim forgets to issue a new token.
LeasedUnderOldToken(r, w) ==
    [r EXCEPT !.state = "leased", !.owner = w, !.ttl = LeaseSeconds, !.attempt = @ + 1]

LeasedRow(r, w) ==
    [r EXCEPT !.state = "leased", !.token = @ + 1, !.owner = w,
              !.ttl = LeaseSeconds, !.attempt = @ + 1]

(***************************************************************************)
(* claim_next: give back expired leases, then lease the head of the queue  *)
(* under a new token.  A claim that finds nothing still gives them back.   *)
(***************************************************************************)
ClaimNext(w, kinds, freshLane) ==
    /\ kinds # {}
    /\ Cardinality({h \in leases : h.owner = w}) < MaxHeld
    /\ \E i \in Heads(Released, kinds, freshLane) :
        LET claimed == LeasedRow(Released[i], w)
        IN  /\ rows' = [Released EXCEPT ![i] = claimed]
            /\ leases' = leases \cup {[item |-> i, token |-> claimed.token, owner |-> w]}
            /\ undoable' = [undoable EXCEPT ![i] = {}]
    /\ UNCHANGED <<live, free>>

ReleaseStale(kinds) ==
    /\ kinds # {}
    /\ Ready(Released, kinds) = {}
    /\ rows' = Released
    /\ rows' # rows
    /\ UNCHANGED <<leases, live, undoable, free>>

-----------------------------------------------------------------------------
(***************************************************************************)
(* _verify_lease, the fence every reply passes first.  A reply may have    *)
(* read the clock before it waited for the write lock.                     *)
(***************************************************************************)
\* Mutant: any leased row is taken for the caller's.
VerifyStateOnly(h, lag) ==
    rows[h.item].state = "leased" /\ rows[h.item].ttl + lag > 0

VerifyLease(h, lag) ==
    /\ rows[h.item].state = "leased"
    /\ rows[h.item].token = h.token
    /\ rows[h.item].owner = h.owner
    /\ rows[h.item].ttl + lag > 0

\* One reply: the row h names becomes r and the worker lets go of h.
Reply(h, lag, r) ==
    /\ VerifyLease(h, lag)
    /\ Put(h.item, r)
    /\ leases' = leases \ {h}
    /\ UNCHANGED live

\* Processing checks the subject again before it records a result.
Complete(h, lag) ==
    /\ TypeOf[h.item] # "consolidate"
    /\ h.item \in live
    /\ Reply(h, lag, Unleased(rows[h.item], "done", NoHistory))
    /\ UNCHANGED free

Consolidations == {i \in Item : TypeOf[i] = "consolidate"}

\* The siblings an answer finishes with its own row.  Mutant: those that a
\* worker holds, too.
FinishedHeldToo(covered) == {i \in covered : rows[i].state \in {"pending", "leased"}}

FinishedAlong(covered) == {i \in covered : rows[i].state = "pending"}

(***************************************************************************)
(* An accepted consolidation: complete_consolidation finishes the leased   *)
(* row and the rows still pending of the sources its batch covered, which  *)
(* nobody holds, and schedule_adoptions queues covered replies that are    *)
(* done once more, under the token they have.  Which sources an answer     *)
(* covers is ConsolidationBatches' business; here it may be any.  A reply  *)
(* is queued for its adoption once; MaxFree bounds it here.                *)
(***************************************************************************)
CompleteConsolidation(h, lag) ==
    /\ h.item \in Consolidations \cap live
    /\ VerifyLease(h, lag)
    /\ \E covered \in SUBSET ((Consolidations \cap live) \ {h.item}) :
        LET finished == {h.item} \cup FinishedAlong(covered)
            done == finished \cup {i \in covered : rows[i].state = "done"}
        IN  \E adopting \in SUBSET done :
            /\ adopting # {} => free < MaxFree
            /\ rows' = [i \in Item |->
                           IF i \in adopting THEN Restarted(rows[i], NoHistory)
                           ELSE IF i \in finished THEN Unleased(rows[i], "done", NoHistory)
                           ELSE rows[i]]
            /\ undoable' = [i \in Item |-> IF i \in done THEN {} ELSE undoable[i]]
            /\ free' = IF adopting = {} THEN free ELSE free + 1
    /\ leases' = leases \ {h}
    /\ UNCHANGED live

MarkObsolete(h, lag) ==
    /\ Reply(h, lag, Unleased(rows[h.item], "obsolete", Bare("revoked")))
    /\ UNCHANGED free

(***************************************************************************)
(* defer_without_attempt: a missing allowance, credential, private mode,   *)
(* a paused entry, or a finished page of a long source.                    *)
(***************************************************************************)
DeferWithoutAttempt(h, lag, seconds) ==
    LET r == rows[h.item]
    IN  /\ free < MaxFree
        /\ Reply(h, lag, Refunded(Pending(r, seconds - lag, Recorded(r.history, "held"))))
        /\ free' = free + 1

\* fail, refused for capacity: the attempt is refunded, the wait grows.
FailForCapacity(h, lag) ==
    LET r == rows[h.item]
        refused == CapacityRefusal(r.history)
    IN  /\ free < MaxFree
        /\ Reply(h, lag, Refunded(Pending(r,
                Backoff(CapacityFirst, CapacityCeiling, refused.caps) - lag, refused)))
        /\ free' = free + 1

RetryWait(r, lag) == Backoff(RetryFirst, RetryCeiling, r.attempt) - lag

\* fail, invalid output: one extra execution whatever the attempts say.
FailForInvalid(h, lag) ==
    LET r == rows[h.item]
        repaired == WithMark(r.history, "derivation_retry")
    IN  /\ TypeOf[h.item] \in {"consolidate", "evaluate_candidate"}
        /\ "derivation_retry" \notin r.history.marks
        /\ Reply(h, lag, Pending(r, RetryWait(r, lag), Recorded(repaired, "invalid")))
        /\ UNCHANGED free

\* Whether a processor may report a failure of this kind as recoverable
\* (failure_policy.retryable): an evaluation already sent to the model is
\* retried only when the provider rejected it.
RecoverableKinds(t) ==
    IF t = "evaluate_candidate" THEN {"transient"}
    ELSE IF t = "consolidate" THEN {"transient", "unknown", "oversized"}
    ELSE {"transient", "unknown"}

FailForRetry(h, lag, kind) ==
    LET r == rows[h.item]
    IN  /\ kind \in RecoverableKinds(TypeOf[h.item])
        /\ r.attempt < MAX_RECOVERABLE_ATTEMPTS
        /\ Reply(h, lag, Pending(r, RetryWait(r, lag), Recorded(r.history, kind)))
        /\ UNCHANGED free

\* Kinds a processor may report as not recoverable.
FinalKinds(t) ==
    IF t = "evaluate_candidate"
    THEN {"transient", "unknown", "refused", "interrupted"}
    ELSE {"unknown", "refused"}

FailForGood(h, lag, kind) ==
    LET r == rows[h.item]
    IN  /\ \/ kind \in FinalKinds(TypeOf[h.item])
           \/ /\ kind \in RecoverableKinds(TypeOf[h.item])
              /\ r.attempt >= MAX_RECOVERABLE_ATTEMPTS
           \/ kind = "invalid" /\ "derivation_retry" \in r.history.marks
        /\ Reply(h, lag, Failed(r, -lag, Recorded(r.history, kind)))
        /\ UNCHANGED free

(***************************************************************************)
(* A worker that dies, runs out of its pass, or finds its lease stale lets *)
(* go of the work without touching the row.                                *)
(***************************************************************************)
Abandon(h) ==
    /\ leases' = leases \ {h}
    /\ UNCHANGED <<rows, live, undoable, free>>

-----------------------------------------------------------------------------
(***************************************************************************)
(* Automatic recovery, at the start of a pass (_recover_failed_work).      *)
(***************************************************************************)
RecoverTransientFailures(i) ==
    LET r == rows[i]
    IN  /\ r.state = "failed"
        /\ TypeOf[i] # "evaluate_candidate"
        /\ r.history.kind \in {"transient", "capacity"}
        /\ r.wait <= -CooldownSeconds
        /\ r.history.autos < MaxRecoveries
        /\ Put(i, IF i \in live THEN Pending(r, 0, AutoRetryStamp(r.history))
                  ELSE Obsolete(Noted(r, Bare("revoked"))))
        /\ UNCHANGED <<leases, live, free>>

RecoverInvalidDerivations(i) ==
    LET r == rows[i]
    IN  /\ r.state = "failed"
        /\ TypeOf[i] \in {"consolidate", "evaluate_candidate"}
        /\ r.history.kind = "invalid"
        /\ "derivation_retry" \notin r.history.marks
        /\ Put(i, Pending(r, 0, WithMark(r.history, "derivation_retry")))
        /\ UNCHANGED <<leases, live, free>>

\* Only a row that says nothing but INPUT_INVALID is examined.
RecoverOversizedConsolidations(i) ==
    LET r == rows[i]
    IN  /\ r.state = "failed"
        /\ TypeOf[i] = "consolidate"
        /\ r.history = Bare("oversized")
        /\ \/ i \in live /\ Put(i, Pending(r, 0, WithMark(r.history, "chunk_upgrade")))
           \/ Put(i, Noted(r, Bare("refused")))
        /\ UNCHANGED <<leases, live, free>>

\* An evaluation that no longer fitted its input budget: sent again when it does
\* now, marked otherwise, and a marked one is closed when its set is rebuilt.
\* Only an earlier release leaves one whose size the new budget may fit.
RecoverOversizedEvaluation(i) ==
    LET r == rows[i]
    IN  /\ r.state = "failed"
        /\ TypeOf[i] = "evaluate_candidate"
        /\ r.history = Bare("oversized")
        /\ \/ Put(i, Pending(r, 0, Bare("held")))
           \/ Put(i, Noted(r, Bare("refused")))
        /\ UNCHANGED <<leases, live, free>>

RetireRebounded(i) ==
    LET r == rows[i]
    IN  /\ r.state = "failed"
        /\ TypeOf[i] = "evaluate_candidate"
        /\ r.history = Bare("refused")
        /\ Put(i, Obsolete(r))
        /\ UNCHANGED <<leases, live, free>>

\* Mutant: the marker alone bounds the grant, not the attempts.
RecoverInterruptedOnce(i) ==
    LET r == rows[i]
    IN  /\ r.state = "failed"
        /\ TypeOf[i] = "evaluate_candidate"
        /\ r.history.kind = "interrupted"
        /\ "interrupted_retry" \notin r.history.marks
        /\ Put(i, Pending(r, 0, WithMark(r.history, "interrupted_retry")))
        /\ UNCHANGED <<leases, live, free>>

\* The evaluation and its candidate move with it (reopen_evaluation).
RecoverInterruptedAttempts(i) ==
    LET r == rows[i]
    IN  /\ r.state = "failed"
        /\ TypeOf[i] = "evaluate_candidate"
        /\ r.history.kind = "interrupted"
        /\ "interrupted_retry" \notin r.history.marks
        /\ r.attempt < MAX_RECOVERABLE_ATTEMPTS
        /\ Put(i, Pending(r, 0, WithMark(r.history, "interrupted_retry")))
        /\ UNCHANGED <<leases, live, free>>

-----------------------------------------------------------------------------
(***************************************************************************)
(* What an operator grants: one fresh start per release, and explicit      *)
(* retries that keep the count of attempts.                                *)
(***************************************************************************)
RetryFailed(i, release) ==
    LET r == rows[i]
    IN  /\ r.state = "failed"
        /\ ~AlreadyRetried(r.history, release)
        /\ Put(i, Restarted(r, Marked(r.history, release)))
        /\ UNCHANGED <<leases, live, free>>

\* The same run reopens the embedding of a readable head made obsolete.
ReopenUnvectored(i, release) ==
    LET r == rows[i]
    IN  /\ r.state = "obsolete"
        /\ TypeOf[i] = "embed"
        /\ i \in live
        /\ r.history = Bare("revoked")
        /\ free < MaxFree
        /\ Put(i, Restarted(r, Marked(r.history, release)))
        /\ free' = free + 1
        /\ UNCHANGED <<leases, live>>

OperatorRetryFailed(i, operation) ==
    LET r == rows[i]
    IN  /\ r.state = "failed"
        /\ TypeOf[i] # "evaluate_candidate"
        /\ operation \notin OperatorRetryIds(r.history)
        /\ Cardinality(OperatorRetryIds(r.history)) < MAX_OPERATOR_RETRIES
        /\ i \in live
        /\ Put(i, Pending(r, 0, WithMark(r.history, operation)))
        /\ UNCHANGED <<leases, live, free>>

(***************************************************************************)
(* Fresh starts: a re-embed run reaches a finished embedding; the entity   *)
(* backfill asks a finished projection again, under its old token; a       *)
(* suppression is lifted from an evaluation whose question was never sent. *)
(***************************************************************************)
FreshStart(i, r) ==
    /\ free < MaxFree
    /\ Put(i, r)
    /\ free' = free + 1
    /\ UNCHANGED leases

RespacePage(i) ==
    /\ rows[i].state = "done"
    /\ TypeOf[i] = "embed"
    /\ FreshStart(i, Fenced(Restarted(rows[i], Bare("held"))))
    /\ UNCHANGED live

ReopenProjection(i) ==
    /\ rows[i].state \in {"done", "obsolete"}
    /\ TypeOf[i] = "rebuild_projection"
    /\ i \in live
    /\ FreshStart(i, Restarted(rows[i], NoHistory))
    /\ UNCHANGED live

RequeueSuppressed(i) ==
    /\ rows[i].state = "obsolete"
    /\ TypeOf[i] = "evaluate_candidate"
    /\ i \notin live
    /\ rows[i].history = Bare("revoked")
    /\ FreshStart(i, Fenced(Restarted(rows[i], NoHistory)))
    /\ live' = live \cup {i}

\* A purge marked obsolete while its deletion still has a layer to remove.
RequeueUnfinishedPurge(i) ==
    LET r == rows[i]
    IN  /\ r.state = "obsolete"
        /\ TypeOf[i] = "purge"
        /\ r.history.kind = "revoked"
        /\ r.attempt <= PurgeTries
        /\ Put(i, Fenced(Pending(r, 0, Bare("held"))))
        /\ UNCHANGED <<leases, live, free>>

(***************************************************************************)
(* The subject goes away: deleted or suppressed, when its queued work is   *)
(* fenced off with a new token, or superseded, when the token stays: an    *)
(* embedding already attempted is left to finish, an evaluation under a    *)
(* lease too, and a suppressed source leaves its work for the worker to    *)
(* find obsolete.                                                          *)
(***************************************************************************)
DeleteSubject(i) ==
    LET r == rows[i]
    IN  /\ i \in live
        /\ TypeOf[i] # "purge"
        /\ live' = live \ {i}
        /\ Put(i, IF r.state \notin {"pending", "leased"} THEN r
                  ELSE Fenced(Unleased(r, "obsolete", IF TypeOf[i] = "evaluate_candidate"
                                                      THEN Bare("revoked") ELSE r.history)))
        /\ UNCHANGED <<leases, free>>

\* An evaluation whose question can no longer be asked (its person is absent or
\* unknown) is closed, a failed one too.
RetireEvaluation(i) ==
    LET r == rows[i]
    IN  /\ TypeOf[i] = "evaluate_candidate"
        /\ r.state \in {"pending", "leased", "failed"}
        /\ live' = live \ {i}
        /\ Put(i, Fenced(Unleased(r, "obsolete", Bare("refused"))))
        /\ UNCHANGED <<leases, free>>

Supersedable(i) ==
    CASE TypeOf[i] = "embed" ->
            rows[i].state \in {"pending", "leased"} /\ rows[i].token = 0
      [] TypeOf[i] = "rebuild_projection" -> rows[i].state \in {"pending", "leased"}
      [] TypeOf[i] = "evaluate_candidate" -> rows[i].state = "pending"
      [] OTHER -> FALSE

SupersedeSubject(i) ==
    /\ i \in live
    /\ TypeOf[i] # "purge"
    /\ live' = live \ {i}
    /\ Put(i, IF Supersedable(i) THEN Obsolete(rows[i]) ELSE rows[i])
    /\ UNCHANGED <<leases, free>>

-----------------------------------------------------------------------------
(***************************************************************************)
(* The owner's reviews of imports and adoptions (core/review_sources.py).  *)
(* An approval queues the source's consolidation afresh, whatever became   *)
(* of it, but takes it from no worker.  Its undo puts the row back as it   *)
(* was, a row the approval created aside.  A rejection leaves the row      *)
(* alone, and its undo rewrites it as it stands; the two may follow each   *)
(* other at any time, so they are one step here.  Every one of them        *)
(* outdates the token.                                                     *)
(***************************************************************************)
ResumeQueue(i) ==
    /\ i \in Consolidations \cap live
    /\ rows[i].state # "leased"
    /\ free < MaxFree
    /\ rows' = [rows EXCEPT ![i] = Fenced(Restarted(@, NoHistory))]
    /\ undoable' = [undoable EXCEPT ![i] = {rows[i]}]
    /\ free' = free + 1
    /\ UNCHANGED <<leases, live>>

\* The row an undo leaves of r, which an approval had made of the earlier one.
\* Mutant: it does not outdate the token.
RestoredUnderItsToken(r, before) ==
    IF before.state = "absent" THEN Obsolete(Noted(r, Bare("revoked")))
                               ELSE [before EXCEPT !.token = r.token]

RestoredRow(r, before) ==
    Fenced(IF before.state = "absent" THEN Obsolete(Noted(r, Bare("revoked")))
                                      ELSE [before EXCEPT !.token = r.token])

RestoreQueue(i) ==
    /\ i \in Consolidations \cap live
    /\ rows[i].state = "pending"
    /\ \E before \in undoable[i] : Put(i, RestoredRow(rows[i], before))
    /\ UNCHANGED <<leases, live, free>>

RestoreRejected(i) ==
    /\ i \in Consolidations \cap live
    /\ rows[i].state # "absent"
    /\ free < MaxFree
    /\ Put(i, Fenced(rows[i]))
    /\ free' = free + 1
    /\ UNCHANGED <<leases, live>>

-----------------------------------------------------------------------------
Older(r) ==
    [r EXCEPT !.wait = IF @ > -Horizon /\ r.state \in {"pending", "leased", "failed"}
                       THEN @ - 1 ELSE @,
              !.ttl = IF r.state = "leased" /\ (@ >= 0 \/ @ > -MaxLag) THEN @ - 1 ELSE @]

\* One unit of time passes.
Tick ==
    /\ rows' = [i \in Item |-> Older(rows[i])]
    /\ undoable' = [i \in Item |-> {Older(before) : before \in undoable[i]}]
    /\ UNCHANGED <<leases, live, free>>

-----------------------------------------------------------------------------
WorkerReply(h, lag) ==
    \/ Complete(h, lag)
    \/ MarkObsolete(h, lag)
    \/ \E seconds \in HoldSeconds : DeferWithoutAttempt(h, lag, seconds)
    \/ FailForCapacity(h, lag)
    \/ FailForInvalid(h, lag)
    \/ \E kind \in Kind : FailForRetry(h, lag, kind) \/ FailForGood(h, lag, kind)

Recovery(i) ==
    \/ RecoverTransientFailures(i)
    \/ RecoverInvalidDerivations(i)
    \/ RecoverOversizedConsolidations(i)
    \/ RecoverOversizedEvaluation(i)
    \/ RetireRebounded(i)
    \/ RecoverInterruptedAttempts(i)
    \/ RequeueUnfinishedPurge(i)

\* A pass stands a type down when its port refuses, its budget is short or its
\* batch is full, so what is left of its ports is any of their types.
QueuedTypes == {TypeOf[i] : i \in Item}

OperatorGrant(i) ==
    \/ \E release \in Release : RetryFailed(i, release) \/ ReopenUnvectored(i, release)
    \/ \E operation \in Operation : OperatorRetryFailed(i, operation)
    \/ RespacePage(i)
    \/ ReopenProjection(i)
    \/ RequeueSuppressed(i)

Withdrawal(i) == DeleteSubject(i) \/ RetireEvaluation(i) \/ SupersedeSubject(i)

OwnerReview(i) == ResumeQueue(i) \/ RestoreQueue(i) \/ RestoreRejected(i)

Next ==
    \/ \E i \in Item :
            Enqueue(i) \/ Recovery(i) \/ OperatorGrant(i) \/ Withdrawal(i) \/ OwnerReview(i)
    \/ \E w \in Worker, freshLane \in BOOLEAN :
            \E kinds \in SUBSET (Ports[w] \cap QueuedTypes) : ClaimNext(w, kinds, freshLane)
    \/ \E w \in Worker : ReleaseStale(Ports[w])
    \/ \E h \in leases :
            \/ Abandon(h)
            \/ \E lag \in 0 .. MaxLag : WorkerReply(h, lag) \/ CompleteConsolidation(h, lag)
    \/ Tick

Spec == Init /\ [][Next]_vars

(***************************************************************************)
(* What the scheduling justifies: time passes; the supervisor keeps        *)
(* starting passes whose first claim takes any work its ports can process, *)
(* or gives expired leases back when there is none; a pass is bounded by   *)
(* its time budget and its watchdog, so a worker lets go of what it holds. *)
(* Nothing says that a reply ever lands.                                   *)
(***************************************************************************)
Fairness ==
    /\ WF_vars(Tick)
    /\ \A w \in Worker : /\ WF_vars(ClaimNext(w, Ports[w], FALSE))
                          /\ WF_vars(ReleaseStale(Ports[w]))
                          /\ WF_vars(\E h \in leases : h.owner = w /\ Abandon(h))

FairSpec == Spec /\ Fairness

-----------------------------------------------------------------------------
(***************************************************************************)
(* A token is a generation of its row: no two claims ever share one, and   *)
(* none outruns the row's.  This is what makes the token a fence when the  *)
(* same worker, or two, hold an item's dead leases at once.                *)
(***************************************************************************)
TokensFence ==
    /\ \A h \in leases : h.token <= rows[h.item].token
    /\ \A h, g \in leases : h.item = g.item /\ h.token = g.token => h = g

HeldBy(h, r) == h.token = r.token /\ h.owner = r.owner

Standing(r) == <<r.state, r.token, r.owner, r.attempt, r.history>>

(***************************************************************************)
(* A lease is respected until it ends: a leased row leaves its lease only  *)
(* by a reply of the worker that holds exactly this lease, by its expiry,  *)
(* or by a withdrawal that outdates the token.  Work of a projection whose *)
(* claim moved on is withdrawn under its token.  A batch sibling's answer  *)
(* never takes a row from its worker, and of the owner's reviews only the  *)
(* undo of a rejection does: it outdates the lease and gives it to nobody, *)
(* so the row waits for the lease to expire.                               *)
(***************************************************************************)
OutdatedByUndo(i) ==
    /\ TypeOf[i] = "consolidate"
    /\ Standing(rows'[i]) = Standing(Fenced(rows[i]))
    /\ leases' = leases

LeaseRespected ==
    [][\A i \in Item :
         rows[i].state = "leased" /\ Standing(rows'[i]) # Standing(rows[i]) =>
            \/ \E h \in leases \ leases' : h.item = i /\ HeldBy(h, rows[i])
            \/ rows[i].ttl < 0 /\ rows'[i].state \in {"pending", "failed", "leased"}
            \/ rows'[i].state = "obsolete" /\ (TypeOf[i] # "rebuild_projection"
                                                => rows'[i].token > rows[i].token)
            \/ OutdatedByUndo(i)]_vars

(***************************************************************************)
(* The executions an item may be given.  Every grant beyond the ordinary   *)
(* attempts is one mark or count in its history, so an item comes to rest  *)
(* whatever sequence of failures, recoveries and grants it meets.  The two *)
(* repairs that leave no budget mark (an obsolete purge, an evaluation an  *)
(* earlier release found too large) count once.                            *)
(***************************************************************************)
BudgetMark == {"derivation_retry", "chunk_upgrade"} \cup Operation

Granted(h) == h.autos + Cardinality(h.marks \cap BudgetMark)

Repairs(i) ==
    IF TypeOf[i] = "purge" \/ (TypeOf[i] = "evaluate_candidate" /\ i \in Legacy) THEN 1 ELSE 0

Budget(i, h) == MAX_RECOVERABLE_ATTEMPTS + Granted(h) + Repairs(i)

WithinBudget(i, r) ==
    /\ r.state = "pending" => r.attempt < Budget(i, r.history)
    /\ r.state \in {"leased", "failed"} => r.attempt <= Budget(i, r.history)
    /\ r.state = "leased" => r.attempt >= 1

AttemptBudget == \A i \in Item : WithinBudget(i, rows[i])

(***************************************************************************)
(* Budgets are spent once: while an item is worked on, what its history    *)
(* says was granted is never forgotten, whatever failure is recorded over  *)
(* it.  Only one release's stamp replaces another's.  A consolidation has  *)
(* two fresh starts that drop its history: an owner's review, which always *)
(* outdates the token without leasing the row, and the adoption that an    *)
(* accepted answer queues in the same transaction that finished the row.   *)
(* No retry, recovery, expiry, claim or operator's grant is one of them.   *)
(***************************************************************************)
Unfinished == {"pending", "leased", "failed"}

NothingForgotten(i) ==
    /\ rows[i].history.marks \ Release \subseteq rows'[i].history.marks
    /\ rows[i].history.autos <= rows'[i].history.autos

ReviewedByOwner(i) ==
    /\ TypeOf[i] = "consolidate"
    /\ rows'[i].token = rows[i].token + 1
    /\ leases' = leases

QueuedForAdoption(i) ==
    /\ rows'[i] = Restarted(rows[i], NoHistory)
    /\ \E h \in leases \ leases' : TypeOf[i] = "consolidate" /\ TypeOf[h.item] = "consolidate"

BudgetMarksKept ==
    [][\A i \in Item :
         rows[i].state \in Unfinished /\ rows'[i].state \in Unfinished =>
            NothingForgotten(i) \/ ReviewedByOwner(i) \/ QueuedForAdoption(i)]_vars

(***************************************************************************)
(* Everything queued is settled: it comes to done, failed or obsolete even *)
(* if no worker ever answers, as long as workers are started, and refusals *)
(* are finitely many.                                                      *)
(***************************************************************************)
Settles ==
    \A i \in Item :
        rows[i].state \in {"pending", "leased"} ~> rows[i].state \in {"done", "failed", "obsolete"}

-----------------------------------------------------------------------------
(***************************************************************************)
(* What the queue promises of each item, without its clock, its budgets or *)
(* its histories: see WorkLifecycle.                                       *)
(***************************************************************************)
Lifecycle == INSTANCE WorkLifecycle WITH
    phase      <- [i \in Item |-> rows[i].state],
    generation <- [i \in Item |-> rows[i].token],
    grants     <- {<<h.item, h.token>> : h \in leases},
    earlier    <- [i \in Item |-> {before.state : before \in undoable[i]}],
    Shared     <- Consolidations

LifecycleSpec == Lifecycle!Spec
=============================================================================
