# A verification project for scope-recall-hermes

scope-recall keeps a person's long-term memory in one SQLite store per profile.
Host agents hand it conversations; it commits them as immutable sources, and a
worker derives everything else (claims, episode summaries, vectors, candidate
questions, adoptions, handoffs) from a durable queue, asking external models on
the way. Every transition is one `BEGIN IMMEDIATE` transaction, so what is hard
is never inside a transaction. It is what happens between two of them: a lease
that runs out under a model call, a deletion that meets an answer under way, a
budget kept in a text that every failure rewrites, a checkpoint reopened while
an older answer still knows the row.

The modules are checked with TLC on the small instances of the `.cfg` files;
the theorems are checked with TLAPS for all values of the constants.

    tlc -workers 2 -config WorkQueueConsolidate.cfg MCWorkQueue
    tlapm WorkQueueProofs.tla

`PROJECT.json` lists the components, the runs, for each property a mutant of the
code's model that breaks it, the source lines each definition stands for, the
hazards, and the theorems.

## 1. Inventory

Paths are below `src/`. "Correct when" names what would have to be shown.

### The core: derivation

| Component | State | Operations | Hard behaviour | Correct when |
|---|---|---|---|---|
| **Durable work queue** `core/work_storage.py`, `failure_policy.py`, `failure_retry.py` | `work_items`: state, attempt, token, owner, lease_until, available_at, last_error_code | enqueue, claim_next, release_stale, complete, fail, defer, four automatic recoveries, two operator grants, withdrawals and reopenings by other components | leases against late replies; refunds and grants that add up; budgets in one text | a stale reply never lands; a live lease is not taken away; executions are bounded; everything queued settles |
| **Worker pass** `core/worker.py`, `worker_outcomes.py` | none that lasts; its leases | recover, claim in two lanes, run members in threads, map outcomes to replies | several passes at once, deadlines, ports that stand down | each claim ends in one reply or an expired lease |
| **Consolidation batches** `core/worker_consolidation.py`, `consolidate.py`, `consolidation_chunks.py` | consolidate rows, chunk offset in the row, the episode's `processed_sequence` | read a batch, ask, accept (whole or one page), complete without a model | one lease, several rows completed; the batch is read minutes before the answer | nothing counts as consolidated that no accepted answer read; nothing withdrawn is derived from |
| **Adoption and owner review** `core/adoption_work.py`, `adoption_storage.py`, `worker_adoption.py`, `review_sources.py` | `adoption_processing`, review decisions | schedule, stages, approve, undo (`resume_queue`, `restore_queue`) | reopens a done row other answers still list | a started adoption is carried to its last stage |
| **Candidate evaluation** `core/candidate_*.py`, `worker_candidates.py`, `evidence_question.py` | `candidate_evaluations`, candidate lifecycle, the work row | register, debounce, begin_model_attempt, verdict, reopen, sweep | at most one request per question, across crashes | an uncertain request is not repeated without a grant; a verdict is not applied to evidence that changed |
| **Other processors** `worker_projection.py`, `worker_summaries.py`, `worker_reflection.py`, `worker_entities.py` | projections, summaries, entity pages | process one leased item | the subject changes during the call | output carries the epoch it was derived in |

### The core: truth

| Component | State | Operations | Hard behaviour | Correct when |
|---|---|---|---|---|
| **Capture inbox** `core/capture_inbox.py`, `inbox_rules.py`, `capture.py`, `admission.py` | inbox rows, the sources they become | enqueue, commit, re-key, replay, defer, refuse, retry | crash between the commit and the clearing; key collisions; deletion of a waiting row; a private interval opened in between | a capture is stored once or kept out for a cause, and no row waits for ever |
| **Sources and episodes** `core/source_storage.py`, `episode_storage.py` | sources, versions, episodes and their watermark | capture a version, attach, summarise | out-of-order resumes | the watermark never passes an unread source |
| **Claims** `core/claims.py`, `claim_storage.py`, `mutate.py`, `fact_temporal_semantics.py` | claim groups, versions, heads, evidence | propose, correct, supersede, corroborate, forget | concurrent corrections of one head | one head per group; a correction outranks what it corrects |
| **Deletion, suppression, mirror** `core/delete_storage.py`, `deletion.py`, `deletion_mirror.py`, `restore.py` | deletion jobs per layer, suppressions, the mirror file | delete, purge, suppress, lift, mirror, restore | crash before the mirror; restore from an old backup | a deleted object stays deleted, whatever snapshot is put back; receipts say only what is true of the files |
| **Private mode, entry control** `core/private.py`, `entry_control.py` | intervals, pauses | open, close, calibrate | opened between a check and a read | sources of an interval are not sent while it is open |
| **Handoffs** `core/handoff.py` | drafts, revisions | draft, confirm, accept, cancel, expire | three parties, each with an old revision | one outcome per handoff |
| **Session injection** `core/session_injection.py` | injection ledger per session, the client's compaction mark | prepare, confirm twice, record, announce changes, compact | two prompts on one snapshot; late and lost answers; a lost counter | the session's token cap holds; nothing barred is shown; a change is announced |
| **Recall** `core/recall*.py`, `retrieval*.py` | none | query | none of its own | pure |

### The runtime

| Component | State | Operations | Hard behaviour | Correct when |
|---|---|---|---|---|
| **Storage and writer lease** `core/storage.py`, `writer_lease.py` | an OS lock, holders, pins | acquire, release, idle handoff | processes and threads | one writer; the last release drops the lock once |
| **Scheduling** `runtime/scheduling.py`, `worker_launch.py`, `worker_watchdog.py` | owner lock, control file | wake, supervise, close, resume | a wake while the owner closes; what a dead owner left | no announced work waits for the next wake |
| **Model budgets** `runtime/model_budget.py`, `subscription_budget.py` | a ledger of reservations | reserve, settle | concurrent reservations, a locked ledger | the cap holds, each call is settled once |
| **Vector index** `src/vector/`, `runtime/vector_port.py` | a second database | publish, purge, compact | a deletion in the other database | no vector outlives its object |
| **Model ports** `runtime/auxiliary.py`, `http_session.py`, `codex_cli.py` | external | request | failure, silence | modelled as: anything may be answered |
| **Host adapters** `src/adapters/` | retry buffers, session bindings | hooks | overlapping retry passes | each capture handed over once |
| **Backups and disaster restore** `runtime/backup_*`, `maintenance/disaster_restore.py` | bundles, the destination's fence | make a bundle, mirror first; recover to a fresh directory | what was deleted after the bundle was made | a recovery opens with nothing a finished mirror pass had mirrored |
| **Maintenance, installation** `src/maintenance/` | files | one-shot commands | run with the store closed | not modelled |

### How they interact

A capture commits a source, attaches it to its episode and enqueues consolidate
and embed rows in the same transaction. A worker pass claims a row, reads what
it needs in a read transaction, asks a model in none, and writes in one
transaction that starts with `_verify_lease` and checks its subject again. That
write may enqueue or reopen further rows, complete rows it holds no lease on
(siblings of a batch), and move the episode's watermark. Deletions,
suppressions, owner reviews and operator commands change the same rows under no
lease, so they outdate the token instead. Nothing calls back; the only shared
memory is the store, its vector companion, and the few files beside them: the
restore marker with its ledger, the deletion mirror's journal, the supervisor's
control file and locks, the client's compaction mark.

The modules divide this along those lines. `CaptureInbox` ends where a source is
stored, which is where `ConsolidationBatches` begins (`Arrive`); `WorkQueue` is
what the batches and evaluations are scheduled by, and `Supervisor` is why passes
keep being started at all; `StoreRestore` is what becomes of deletions, vectors
and withdrawals when the file itself is exchanged, `DeletionMirror` what survives
of a deletion when the file is lost; `SessionDelivery` is the way out.

## 2. The modules

    RetryHistory            what last_error_code remembers
      ├─ WorkQueue          the queue and the writers of its rows (section 6 names the rest)
      │    ├─ MCWorkQueue             instances for TLC
      │    ├─ WorkLifecycle           the abstract specification (INSTANCE ... WITH)
      │    └─ WorkQueueProofs         types, token fence, lease, budget; it implements WorkLifecycle
      └─ CandidateEvaluation  one claim's questions; implements WorkLifecycle too
           ├─ MCCandidateEvaluation
           └─ CandidateEvaluationProofs  the three tables, the requests, the inheritance; WorkLifecycle
    ConsolidationBatches    one conversation's batches, pages and adoptions
      ├─ MCConsolidationBatches
      └─ ConsolidationBatchesProofs  nothing settled unread, nothing that moved settled late
    TruthStore              the content of a store, as a value: deletes, mutes, the ledger, its replay
      ├─ StoreRestore       that store with its reader, worker, backups and restores
      │    ├─ MCStoreRestore
      │    └─ StoreRestoreProofs     decisions, receipts and reads across restores
      └─ DeletionMirror     the journal of deletions beside the backups, and the disaster restore
           ├─ MCDeletionMirror
           └─ DeletionMirrorProofs   what a recovery opens with
    SessionDelivery         what one session is told, and what is recorded of it
      ├─ MCSessionDelivery
      └─ SessionDeliveryProofs  the cap, the contexts, corrections due or told
    CaptureInbox            a message between the hook and the store
      ├─ MCCaptureInbox
      └─ CaptureInboxProofs  stored once, left for a cause, nothing stored against the owner's will
    Supervisor              one owner of the worker loop, and the wakes coalesced onto it
      ├─ MCSupervisor
      └─ SupervisorProofs   types and limits, the clean idle close

### RetryHistory and WorkQueue

`rows` is `work_items`, `leases` the `LeasedWork` values in workers' hands,
stale ones included, `live` the items whose subject (source, head, candidate)
may still be worked on, `undoable` the row as it was before an approval that can still be
undone. One action is one write transaction. Times are kept
relative to the clock, so `Tick` ages every row; a reply's `lag` is how old its
clock reading was when it obtained the write lock, which the code really allows
(the clock is read before `BEGIN IMMEDIATE`).

| Action | Code (`core/work_storage.py` unless said otherwise) |
|---|---|
| `Enqueue` | `enqueue`: one row per subject, whatever became of it |
| `ClaimNext`, `ReleaseStale` | `claim_next` with `release_stale` inside it, the aged and the fresh order |
| `Complete`, `MarkObsolete`, `DeferWithoutAttempt` | the replies of the same names behind `_verify_lease`; `Complete` of all but consolidations |
| `CompleteConsolidation` | `complete_consolidation` and `schedule_adoptions` (`adoption_work.py`) in one transaction: the leased row and the pending rows of its batch become done, replies among them are queued again for their adoption |
| `FailForCapacity`, `FailForInvalid`, `FailForRetry`, `FailForGood` | the branches of `fail`; which kinds a processor may report comes from `failure_policy.py` and `worker_outcomes.py` |
| `Abandon` | a dead or timed-out worker, or one whose reply raised `StaleLease` |
| `RecoverTransientFailures` ... `RetireRebounded` | `_recover_failed_work` of a pass |
| `RetryFailed`, `ReopenUnvectored`, `OperatorRetryFailed` | `failure_retry.py` and the explicit retry |
| `RespacePage`, `ReopenProjection`, `RequeueSuppressed`, `RequeueUnfinishedPurge` | the reopenings of finished rows by re-embedding, the entity backfill, lifted suppressions and unfinished purges |
| `DeleteSubject`, `RetireEvaluation`, `SupersedeSubject` | fencing (token + 1) and superseding (token kept) |
| `ResumeQueue`, `RestoreQueue` | `review_sources.py` `resume_queue` (an approval; it refuses a leased row) and `restore_queue` (its undo) |
| `RestoreRejected` | a rejection, which leaves the row alone, and its undo, which rewrites the row as it stands with token + 1 |

`undo` (`review_list.py:145-183`) compares a digest of the whole row with the one the decision
left, so an approval is undone only while nobody has claimed, completed or otherwise
rewritten the row it queued: `undoable` is emptied by every other writer of the row
(`Put`). The undo of a rejection has no such protection for a lease, because the row it finds
is the leased one the rejection found.

The column `last_error_code` is text of up to `CODE_BOUND` characters in
segments. `RetryHistory` keeps exactly what the code's regular expressions can
read back: the newest kind, the set of budget marks, the automatic count, the
capacity count. The bound on the text's length is not modelled; past it the code
keeps the marks, the automatic count and the newest kind.

The order of the claim is in the model because `Settles` rests on it; which of
several fresh sources is oldest is a free choice among the young ones.

### WorkLifecycle

The abstract specification: a phase, a generation and the set of grants still in
workers' hands. An item is done because the holder of its newest generation said
so; each claim makes a new generation; generations never go back. Items of the set
`Shared` (the consolidations, which share a conversation) have two ways more: the
answer to one covers others that nobody holds, and an owner's fresh start of one may be
taken back to the state it was in while nothing else happened. It has no
clock, budget or history, so it is what other components may rely on. The evaluations
implement it with `Shared` empty.

### ConsolidationBatches

One conversation with sources 1..N in capture order. A worker's `task` is the
local state of `process_consolidate` between its transactions: `claimed` (leased),
`admitted` (`_run_member` has read the private intervals), `asked` or `paged`
(the batch was read, the model has it), `empty` (nothing was left to read),
`adopting`. `task.pending` is the list of sibling rows with the tokens they had
at the read, `task.changed` what the acceptance fences would notice (a retraction
epoch, an episode revision).

| Action | Code |
|---|---|
| `Admit`, `HoldForPrivateMode` | `worker.py` `_run_member`, the outbound check before the request |
| `ReadBatch` | `worker_consolidation.py` `_read_batch`, `_episode_batch`, `consolidation_chunks.py` |
| `Accept`, `AcceptPage`, `Discard`, `Refuse` | `consolidate.py` `accept_consolidation`, `_fence_consolidation` |
| `Completed` | `work_storage.py` `complete_consolidation` |
| `ProcessedSequence` | `episode_storage.py` `_processed_sequence` |
| `WithAdoptions`, `AdoptionStage` | `adoption_work.py`, `adoption_storage.py` |
| `CompleteWithoutModel` | the row of a source of which nothing is left to read |
| `ApproveImport`, `ApproveAdoption`, `UndoReview` | `review_sources.py` with `resume_queue` and `restore_queue` |
| `Arrive`, `Delete`, `Supersede`, `Suppress`, `OpenInterval`, `CloseInterval` | capture, deletion, private mode |

`derived` and `moved` are ghosts: they guard nothing. `derived` records what an
accepted answer really read, `moved` which of the siblings a worker waits for had
their rows changed in any way since its batch was read.

Abstractions: leases expire at any moment instead of by a clock (`WorkQueue` has
the clock); attempts are abstracted to "pending or failed afterwards"; every
source is a human root; the stages of an adoption are one open state, ended by a
publication, a finding of nothing, or a question to the owner; entry pauses are
left out, and so are a rejection and its undo, which settle nothing (`WorkQueue` has
them). A deletion of a batch's sibling during the model call obsoletes the
leased item although its own source is still live: `ObsoleteWork` says so, and
`tests/contract/test_worker_incremental_batch.py:305-330` expects it.

### CandidateEvaluation

One claim with its revisions, and every question that can be put about each: a
question is the set of sources it cites, as `question_digest` identifies it. Three
tables move together: `stage` is `candidate_lifecycle`, `evals`
`candidate_evaluations` (its state and whether `model_attempted_at` is set), `work`
the `work_items` rows of the evaluations. A helper that several transactions call
(`_move`, `_schedule`, `_retire_evaluations`, `register`) is a function on the three
tables, and a transaction composes them in the order of the code.

A `task` is the local state of `process_candidate_evaluation`: `claimed`,
`revoked` (the first transaction found no authority), `interrupted` (it found a
mark of an earlier lease), `marked` (the mark is committed), `asked` (the request
is out). `touched` is what the dependency fence would notice since the mark: a
retraction in the scope, or a pause of the entry.

| Action | Code |
|---|---|
| `Revise` | `claim_storage.py` `_project_claim` with `candidate_intake.py` `register` |
| `Observe` | `observe_source`, `_schedule_when_settled`, `_schedule` |
| `ScheduleSettled`, `ArchiveDormant` | `candidate_sweeps.py` `schedule_settled_candidates`, `archive_dormant` |
| `Withdraw`, `WithdrawElsewhere` | `delete_storage.py` `block`, `apply_blocks`; `block_objects` |
| `ReleaseSuppressed` | `suppression.py` `release`, `resume_candidates`; `_requeue_suppressed` |
| `Pause`, `Resume` | `entry_control.py` `change` |
| `Claim`, `Expire`, `Abandon` | `claim_next`, `release_stale`, a dead worker |
| `Defer`, `FindRevoked`, `SettleByRule`, `FindInterrupted`, `BeginModelAttempt` | the first transaction of `process_candidate_evaluation` |
| `Ask` | `evaluator.evaluate_candidate`: no look at the lease before it |
| `DeferEntry`, `DeferBudget`, `CapacityRefused`, `Rejected`, `InvalidAnswer`, `CloseInterrupted`, `FailForGood` | `_candidate_failure` with `candidate_evaluations.py` `defer_entry`, `defer_budget`, `fail` |
| `CloseRevoked`, `CloseChanged`, `Insufficient`, `Applied` | `_record_verdict`, `_apply_verdict`, `inherit_answer`, `_candidate_obsolete` |
| `RecoverInterrupted` | `recover_interrupted_attempts` with `reopen_evaluation` |
| `RetryFailed`, `Reconcile` | `retry_failed` with `reconcile_failed_evaluation` |

`parent` and `credit` are ghosts: which question's verdict wrote a revision, and how
many requests a question may still cost (one at first, one more for each refusal
the provider answered with, each repair, each operator's grant and each answer thrown
away because the entry was paused meanwhile, less one for each request). The last is
what the code does and not what its documentation says (`OnlyRejectionClearsFence`,
section 5).

Abstractions: leases expire and quiet windows end at any moment; `Unanswerable` and
`Restating` fix once which questions the rules decide and which sources say the
claim again; the sources are a person's own words. Evidence that is not
first-hand, unresolved subjects, the absent person, the slow pace (which only
delays) and the budget and oversize repairs are left out. With first-hand
evidence alone `settle_stale_pending` never finds anything:
`NewEvidencePosesAQuestion` is that statement.

### TruthStore and StoreRestore

`TruthStore` has no variables: a store's content is a value, because a backup
snapshot is one too, and restoring is putting an older value back. Its operators
are what one transaction makes of a content: `Captured`, `Appended`, `Deleted`,
`Muted`, `Unmuted`, the exported ledger (`LedgerOf`), and `Replayed`, the composition
of the replayed operations, mutes, withdrawals, absences and epochs.

`StoreRestore` has the store (`truth`) with the page images older than it in the
write-ahead log (`history`), the vector companion (`vectors`, `fences`), the files
beside it (`marker`, `kept`), the operator's `snapshots`, and what each process has
read: `opened` (a host between its look at the marker and its transaction), `reader`,
`embed`, `purge`, `run`. `decided` is a ghost: what the owner last decided, and which objects a
recorded mute operation lists (a ledger of the older format carries no others).

| Action | Code |
|---|---|
| `OpenWriter`, `OwnerWrites`, `WriterRefused` | `storage.py` `_open`, `_transaction`: the marker is looked for before the lease and again after it |
| `Capture`, `Revise`, `Retract`, `Forget`, `Mute`, `Unmute` | `source_storage.py` `put_source`, `claim_storage.py` `append`, `management.py` `apply` |
| `ReaderOpens`, `ReaderBegins`, `ReaderEnds` | a reading transaction, which may hold an older snapshot |
| `EmbedReads`, `EmbedGuarded`, `EmbedPublished` | `worker_projection.py` `process_embed`, `_EmbedFence`; `vector/sqlite_store.py` `_write_rows` |
| `PurgeScrubs`, `PurgeVectors`, `PurgeRefused`, `PurgeTruncates`, `PurgeAcknowledges` | `worker_projection.py` `process_purge`, `_purge_layers`; `purge_governed_members`; a companion that refuses |
| `Backup` | `backup_primitives.py` `backup_sqlite` |
| `RestoreStarts`, `RestoreKeepsLedger`, `RestoreCloses`, `RestoreCopies`, `RestoreReplays`, `RestoreTruncates`, `RestoreReopens` | `maintenance/restore.py` `apply_restore`, `core/restore.py` `begin_restore`, `replay_deletion_ledger` |
| `RestoreStops`, `WorkerCrashes`, `MarkerDamaged` | a run that stops between any two steps, a killed worker, a marker cut short while it is written |

Abstractions: one scope; words are told apart by their object; what a claim was
derived from is one source; verification of the ledger and other installations'
bindings are left out; the mirror is `DeletionMirror`'s.

### DeletionMirror

The second composition of `TruthStore`: the store's content, the append-only journal
on the backups' disk (`files`, the journal and an older copy an operator kept), the
checkpoint that spares a pass from reading the journal again (`cache`), the lag marker, and
one catch-up per process (`pass`): the hook of the transaction that deleted, the
worker, a backup. A journal line is a record, so a torn last line is a flag. `promised`
is a ghost: the objects whose deletion a finished pass had in the journal; `recovery.owed`
is what was promised of the file a recovery was given.

| Action | Code |
|---|---|
| `Forget` | `storage.py` `_transaction`, `_after_commit_deletions`: the mirror is tried after the commit, outside the lease |
| `WorkerStarts`, `BackupStarts` | `backup_upkeep.py` `mirror_if_due`; `backup_bundle.py` `_ensure_backup_mirror` under `exclusive_store` |
| `PassUnconfigured`, `PassBlocked`, `PassStops` | `deletion_mirror.py` `mirror_committed_deletions`, `catchup_deletion_mirror`: no directory, the lock held, a deadline or an error |
| `PassScans` | `deletion_mirror_checkpoint.py` `scan_inventory` |
| `PassBegins`, `PassAppends`, `PassFinishes` | `_catchup` with `_truth_records`, `save_inventory` |
| `PassMisplaced`, `PassDies` | `validate_mutable_file`; a killed process, with or without a torn line |
| `BackupStages` | `_stage_database` |
| `JournalCopied`, `JournalPutBack`, `StoreLost` | what happens to the disks |
| `RecoveryFences`, `RecoveryReplays`, `RecoveryReopens`, `RecoveryStops` | `disaster_restore.py` `apply_disaster_restore`, `backup_replay.py` `replay_deletion_mirror`, `restore.py` `fence_disaster_recovery`, `finish_disaster_recovery` |

Abstractions: the checkpoint's signature of the journal is the journal; a scan that is cut
short is not told apart from none (it is resumed where it stopped); source groups and
restored absences, which are mirrored like operations, are left out, and so are the
mutes, which are not mirrored (`StoreRestore` has them); messages are captured in a
fixed order. The recovery's steps inside its fenced destination are one, because nobody
reads there and a stopped one is never resumed.

### SessionDelivery

One session: its prompts, the facts it may be told, and the ledger of what it was
told. A request is the local state of one hook call: `begun` (brief and recall were
read), `prepared`, `checked` (confirm's read transaction), then `recorded`,
`unconfirmed` (the writer was busy), `invalid` or `refused`. The host waits for it
(`heard`) or has given up, and the server finishes it all the same. `context` is a
ghost: what the model was last told of each fact, as far as it was shown. `crossed` is
another: whether a request that carries the epoch of a lost counter was ever under way at a
compaction. `Compact` happens whenever the host waits for no answer, such requests or not.

| Action | Code |
|---|---|
| `Change` | a correction, a withdrawal or its release, a private interval, a pause (`entry_control.py`) |
| `Compact`, `CounterLost` | `session_marks.py` `mark_compaction`, `_read_compaction` |
| `Begin`, `Prepare` | `handler.py` `_handle_start_or_prompt`, `session_brief.py` `read_snapshot`; `session_injection.py` `prepare`, `_fit`, `_select_notices` |
| `ConfirmRead`, `ConfirmWrite`, `ConfirmBusy` | `confirm`, `_release_refusal`, `_record` |
| `SyncCompaction` | `_finish_compaction`, `sync_compaction` |
| `Answer`, `GiveUp`, `Dropped` | the answer is shown and the mark cleared, or the hook's deadline passes |

Abstractions: a line costs one token, so caps are numbers of lines; which lines are
left out when they do not fit is any choice of the right size; facts stand for
claims (sources that carry several facts and replaced claims are left out).

### CaptureInbox

Every capture comes under one host key, in one scope and as one part. A `job` is a
process's local state in `record_event` and `_commit`: the capture it holds, the
path (the host's key, a comparison before a new key, the new key), the rule
revision of its private check. `page` is what the worker's pass read of the inbox.

| Action | Code (`core/capture_inbox.py` unless said otherwise) |
|---|---|
| `Enqueue` | `enqueue`: a new row, or the row of the same words, under its rules about an earlier code |
| `Record` | `_commit` with `capture.py` `record_event`, `source_storage.py` `put_source`, `private.py` `capture_blocked`, `entry_control.py` `capture_refusal` |
| `Compare` | `_as_stored`: is the key's holder this message, or one it must not replace |
| `Settle` | the codes a refusal writes, `_refused_for_a_delete`, the removed row |
| `Interrupted` | a crash, a busy store, a passed deadline |
| `ReadPage`, `TakeRow`, `Revalidate`, `Due` | `_replay_rows`, `_replay_row`, `_revalidated`, `_defer`; `inbox_rules.py` `deferral` |
| `Delete`, `Purge` | `delete_storage.py` `apply_blocks` with the inbox rows it cancels, `purge_sqlite` |
| `RetryFailures` | `work_storage.py` `retry` |
| `SetPrivate`, `SetEntry`, `Tick` | intervals, pauses, time |

`forgotten` is a ghost: captures that waited when a message was deleted whose words
they hold.

### Supervisor

Processes that were launched to drain the store's work. `file` is the control file;
of the wake revision it keeps whether it was raised since the owner last read it,
which is all `close_if_unchanged` compares. The owner lock belongs to the
operating system and is free when its process is gone.

| Action | Code |
|---|---|
| `Launch`, `ResumeOnce` | `worker_launch.py` `launch_worker`; `resume_entry.py` `resume_once` |
| `Request`, `Acquire`, `Held`, `WaitOver` | `scheduling.py` `SupervisorControl.request`, `_acquire_ownership` |
| `Begin`, `Top`, `ReadRevision`, `Plan`, `Sleep`, `Drain`, `RunBackup` | `_begin_supervisor`, `supervise`, `next_wake`, `_wake_plan` |
| `CloseIdle`, `Release` | `close_if_unchanged`; the lock let go last |
| `DirectPass` | `worker_watchdog.py` `run`: one pass when no supervised pass began |
| `Raise`, `Crash`, `WindowOver`, `SetPaused` | an exception, a killed process, the window's end, the autostart switch |

`owed` is a ghost: the items a wake announced to an owner that has not looked since.

## 3. What the runs check

| Run | Instance | Shows |
|---|---|---|
| `WorkQueueConsolidate` | one consolidation (new, or left failed by an earlier release) or one embedding, two workers, two ordinary attempts, one automatic recovery, one release, one operator grant (1.1 million states) | `TypeOK`, `TokensFence`, `LeaseRespected`, `BudgetMarksKept` through every failure, recovery, grant, withdrawal, review and undo |
| `WorkQueueConversation` | two consolidations of one conversation, two workers (700,000 states) | `LeaseRespected`: no sibling's answer takes a row from its worker; `LifecycleSpec`: refinement of `WorkLifecycle` |
| `WorkQueueSettles` | each of the five kinds in turn, two ordinary attempts, one automatic recovery, one fair worker (195,000 states) | `AttemptBudget`; `Settles`: leased or queued work comes to rest although nobody promises an answer |
| `BatchesPlain` | three sources (plain, import, long reply), two workers, no private intervals | `WatermarkWasRead`, `DoneWasRead`, `OnlyLiveDerived` |
| `BatchesAdoption` | a reply whose adoption follows, a source under a private interval | `SiblingsWereRead`, `RenewedSpared`: no answer settles a sibling's row that changed in any way since its batch was read, unless an adoption of it was begun (for those, see section 5) |
| `EvaluationGrants` | one source, one revision, two tasks, suppression, deletion, pauses, one release | `RequestsWithinGrants`, where an answer lost to a paused entry allows one more request; `LifecycleSpec`: the evaluation's rows implement `WorkLifecycle` although intake, blocks and verdicts write them too |
| `EvaluationVerdicts` | two sources, two revisions, one task | `InStep`, `InheritedAnswered`, `NewEvidencePosesAQuestion` (about 650,000 states) |
| `RestoreKeeps` | one message and one fact of it, two snapshots, two restore runs, three epochs (2.4 million states) | `DecisionsKept`, `ForgottenNeverAnswered`, `WithdrawalsKept`: what the owner decided outlives restores that stop anywhere; `HistoryHonest`, `VectorsHonest`, `ReopensAfresh`: what the store says of its files is true |
| `Delivery` | one fact with two statements, two prompts at once, three changes or compactions, one lost counter | `NothingBarredShown`, `RecordedWithinCap`, `CountedForThisContext`, `CorrectionDueOrTold`, both silent once a request of a lost counter was carried across a compaction (3.9 million states) |
| `Inbox` | one hook and the worker, four captures under one key (a message, the same dated anew, one quoting it, another session's), three acts, one fault | `KeyHolderStoredOnce`, `LeavesForCause`, `NotStoredOnceForgotten`, `WithheldNeverStored`; `InboxSettles` |
| `Mirror` | two messages, no facts, one bundle, four epochs, one fault (437,000 states) | `RecoveredKeepsForgotten`: what a finished pass mirrored is gone from whatever is recovered; `CommittedIsMirrored`: every committed deletion is mirrored in the end |
| `Supervise` | two processes, an item and a backup job, two passes, two failures, two faults (263,000 states) | `IdleClosesClean`; `AnnouncedIsDone`, of owners that are not killed and do not close for a limit, a pause or failures; `DueIsDone`, of those too; `TypeOK` with the loop's limits |

Deadlock is checked in the queue runs, where `Tick` is always possible, and not in
the others, where everything may be settled.

`TypeOK` of `ConsolidationBatches`, `StoreRestore`, `DeletionMirror`, `SessionDelivery` and
`CaptureInbox` is proved (section 4). It is left out of those runs in favour of properties
that say more.

### Bounds

* `MaxFree`: how many refunds, fresh starts, approvals, undone rejections and adoptions
  the environment hands out. They give attempts back or raise tokens, so without the
  bound `attempt` and `token` may alternate for ever. One is enough for a refund at each attempt count, before and after each
  mark; the proofs have no bound.
* `MaxHeld`: leases one worker works under. With one, two workers can hold two
  generations of one item; dead leases stay in `leases` until let go.
* `MaxLag` = 1 and `LeaseSeconds` = 1: the unit of time is the shortest wait, so
  a reply can arrive before, at and after its lease's end, and after another's
  release of it.
* `Horizon`: waits older than it are not told apart; every threshold (cooldown,
  aging, fresh lane) lies within it.
* `MAX_RECOVERABLE_ATTEMPTS` (3 in the code) = 2 with `MaxRecoveries` = 1 in
  `WorkQueueConsolidate` and `WorkQueueSettles`: an expired lease is given back once and
  failed once, an ordinary failure is retried once, a failed row recovers once. 1, and no
  recovery, in `WorkQueueConversation`, which is about two rows in one step.
  The theorems have no bound.
* `Stores` says which items a store queues: the kinds of `WorkQueueSettles` in turn, since
  no property there relates two items, both items of `WorkQueueConversation` together.
* `MaxToken`, `MaxReviews` (batches): two claims and a review per row suffice for
  an answer under an outdated token, `BatchesAdoption` has three so that an
  adoption follows a sibling's late answer.
* N = 3 in `BatchesPlain`: an unread source between two read ones is the
  smallest case in which a watermark can run ahead.
* `AUTOMATIC_VERDICTS` is 2 in the code and 1 in the two passing evaluation runs:
  a revision of two sources has three questions, so one verdict is enough for the
  rule to decide a question, and with two it would decide only the last. The
  observations on them use 2.
* `MaxTasks`, `MaxToken` (evaluations): `EvaluationGrants` has two tasks and four
  generations, enough for a request under a dead lease next to its successor's, an
  interruption, its repair and an operator's retry. `EvaluationVerdicts` trades them
  for a second source and a second revision.
* `MaxEpoch`, `MaxSnapshots`, `MaxRestores` (restore): a snapshot, decisions after
  it, a run that stops and a second one that finds its marker. Two snapshots let the
  second run copy another one over what the first left, the case in which a
  receipt of the abandoned copy could be believed. The owner's transactions end
  at the third epoch; the theorems have no bound.
* `InjectionCap` = 2, `SessionCap` = 1: two prepared lines cannot both be recorded.
  `MaxEvents` = 3 is a change, a change back and a compaction. A prompt of a lost counter
  that is still under way at the next compaction and recorded after it is within the
  bounds: `CountedForThisContext` without its antecedent `~crossed` is violated.
* `MaxEpoch` = 4, `MaxBundles` = 1, `MaxFaults` = 1 (mirror): both messages captured and
  deleted, with a bundle from before, between or after; one pass cut short, one journal
  put back or one recovery stopped. Put back, the journal lacks what the checkpoint
  still counts, which is the case `RecoveredKeepsForgotten` needs.
* `DEFER_ATTEMPTS` = 1 (inbox): put off once, then given up. `MaxActs` = 3 is two
  colliding sends and a deletion, an interval or a pause; `MaxFaults` = 1 a crash at
  any step between.
* `MaxDrains` = `MaxFailures` = 2, `MaxFaults` = 2 (supervisor): a limit reached with
  and without failures, and a crash followed by another fault. Two processes are an
  owner and a wake; a third wake meets what the second does.
* `MaxCaps` = 1: refusals for capacity give the attempt back, so nothing else
  bounds them.

### Fairness

`Settles`, `InboxSettles`, `CommittedIsMirrored`, `AnnouncedIsDone` and `DueIsDone` assume some.

*Queue.* Time passes (`Tick`). The supervisor restarts
passes as long as there is work, a pass begins with a claim in the aged order
with all of its ports, and a claim that finds nothing still gives expired leases
back; hence weak fairness of `ClaimNext(w, Ports[w], FALSE)` and `ReleaseStale`.
A pass ends at its time budget and the watchdog ends a pass that does not, so a
worker lets go of what it holds (`Abandon`). No fairness is assumed of any reply:
a model may be silent for ever.

*Inbox.* Passes keep coming (`ReadPage`, `TakeRow`, `Revalidate`: `instance.py`
`_replay_ingress` runs in each), a process inside a capture goes on (`Step`), and the
time of a deferred row comes (`Due`). Nothing is assumed of hooks starting.

*Mirror.* The worker is woken for the mirror every five minutes, whether or not there is
other work (`next_backup_wake`, `mirror_if_due`), and a pass under way takes its next step;
a process that dies takes its pass with it, which is one of the bounded faults. The
hook's attempt alone would not do: it neither waits for the lock nor comes back.

*Supervisor.* A running process takes its next step (`Step(p)`; each wait in the
code has a timeout) and what is due later becomes due (`Ripen`). Nothing says that a
host launches another process. `DueIsDone` is about a store the operating system's
scheduler wakes, so weak fairness of `Resume` is the antecedent of the property
and not part of the specification.

## 4. What is proved

| Theorem | Module | For every value of the constants |
|---|---|---|
| `TypeCorrect` | WorkQueueProofs | `TypeOK`; in particular no refund takes `attempt` below zero |
| `TokensFenceHolds` | WorkQueueProofs | `TokensFence` |
| `LeaseRespectedHolds` | WorkQueueProofs | the action property `LeaseRespected`, sibling answers, reviews and their undo included |
| `BudgetMarksKeptHolds` | WorkQueueProofs | the action property `BudgetMarksKept`: nothing but an owner's review and a queued adoption forgets a grant |
| `AttemptBudgetHolds` | WorkQueueProofs | `AttemptBudget` |
| `ImplementsLifecycle` | WorkQueueProofs | `Spec => LifecycleSpec` |
| `TypeCorrect` | ConsolidationBatchesProofs | `TypeOK`: a page never goes past its source's pages, and the watermark's next stop always exists |
| `WatermarkWasReadHolds`, `AdoptedWasReadHolds` | ConsolidationBatchesProofs | `WatermarkWasRead`; `AdoptedWasRead` (in no run: an adoption follows a consolidation that read the whole reply) |
| `DoneWasReadHolds`, `SettledWasReadHolds` | ConsolidationBatchesProofs | `DoneWasRead` where no session has a private interval; with intervals, a settled source was read or is one that an interval may cover |
| `OnlyLiveDerivedHolds`, `SiblingsWereReadHolds`, `RenewedSparedHolds` | ConsolidationBatchesProofs | the action properties `OnlyLiveDerived`, `SiblingsWereRead`, `RenewedSpared` |
| `TypeCorrect`, `InStepHolds` | CandidateEvaluationProofs | `TypeOK`, `InStep`, for any revisions, sources, questions and tasks |
| `RequestsWithinGrantsHolds` | CandidateEvaluationProofs | `RequestsWithinGrants`, for any number of tasks under leases that ran out |
| `InheritedAnsweredHolds`, `NewEvidencePosesAQuestionHolds` | CandidateEvaluationProofs | `InheritedAnswered`, `NewEvidencePosesAQuestion` |
| `ImplementsLifecycle` | CandidateEvaluationProofs | `Spec => LifecycleSpec` |
| `TypeCorrect` | StoreRestoreProofs | `TypeOK`: the contents of the store and of every snapshot, the marker and ledger, every process |
| `DecisionsKeptHolds`, `WithdrawalsKeptHolds` | StoreRestoreProofs | `DecisionsKept`, `WithdrawalsKept`, for any number of snapshots and of stopped runs |
| `ForgottenNeverAnsweredHolds` | StoreRestoreProofs | `ForgottenNeverAnswered` |
| `HistoryHonestHolds`, `VectorsHonestHolds` | StoreRestoreProofs | `HistoryHonest`, `VectorsHonest` |
| `ReopensAfreshHolds` | StoreRestoreProofs | the action property `ReopensAfresh` |
| `TypeCorrect` | DeletionMirrorProofs | `TypeOK`: the store, the journal and its copy, the checkpoint, every pass and the recovery |
| `JournalsOfTheStoreHolds` | DeletionMirrorProofs | no journal, copy or bundle holds a deletion that the store did not commit |
| `RecoveredKeepsForgottenHolds` | DeletionMirrorProofs | `RecoveredKeepsForgotten`, for any number of processes, bundles, faults and facts |
| `TypeCorrect` | SessionDeliveryProofs | `TypeOK` |
| `NothingBarredShownHolds`, `RecordedWithinCapHolds` | SessionDeliveryProofs | `NothingBarredShown`, `RecordedWithinCap`, for any number of prompts at once |
| `InStepHolds`, `CountedForThisContextHolds` | SessionDeliveryProofs | until a prompt of a lost counter is carried across a compaction, the client's and the server's counters agree; `CountedForThisContext` |
| `ToldHolds`, `CorrectionDueOrToldHolds` | SessionDeliveryProofs | with the same exception, the host's context agrees with the newest deliveries; `CorrectionDueOrTold` |
| `TypeCorrect` | CaptureInboxProofs | `TypeOK`; in particular a row put off has at most one try more than `DEFER_ATTEMPTS` |
| `KeyHolderStoredOnceHolds` | CaptureInboxProofs | `KeyHolderStoredOnce`, for any number of hooks, sessions, versions and texts |
| `LeavesForCauseHolds`, `NotStoredOnceForgottenHolds`, `WithheldNeverStoredHolds` | CaptureInboxProofs | the action properties `LeavesForCause`, `NotStoredOnceForgotten`, `WithheldNeverStored` |
| `TypeCorrect` | SupervisorProofs | `Supervisor!TypeOK`: the process in the loop holds the owner lock, no other does, and no owner exceeds its passes or failures |
| `IdleClosesCleanHolds` | SupervisorProofs | the action property `IdleClosesClean` |

The assumptions are `MarksAreDistinct` (a release's stamp is none of the fixed
tokens) and `QueueAssumption` (ranges of the limits; `MaxRecoveries <= 4` is the
range the configuration accepts; `PurgeTries <= MAX_RECOVERABLE_ATTEMPTS`, the
code compares against the same constant), for the supervisor
`SupervisorAssumption` (limits above zero, as the configuration demands), for the
batches `BatchAssumption` (N sources, some of which are imports, replies or long), for the
evaluations `EvaluationAssumption` (there is a revision, the limits on attempts and verdicts are above
zero, the other bounds are numbers),
for the restore and the mirror `ObjectAssumption` (a claim is not a source and is derived
from one), for the mirror `MirrorAssumption` (its bounds are numbers), and for the delivery `DeliveryAssumption` (ranges of the caps) and
`StatementAssumption` (a statement is not one of the two marks that stand for the
absence of one), and for the inbox `InboxAssumption` (captures are made of the sessions,
versions, texts and moments there are, the worker is no hook, the bounds are numbers). TLC evaluates them in the runs of their modules.

* `TypeCorrect` is inductive as it stands; each helper on rows (`Pending`,
  `Failed`, `Refunded`, ...) has a lemma that keeps `Row`.
* `TokensFence` is inductive with `TypeOK`: only a claim adds a lease, under a
  token greater than the row's, and no action lowers a token. The "moves" lemmas
  (`ReplyMoves`, `CompletionMoves`, `GrantMoves`, `WithdrawalMoves`, `ReviewMoves`, `ClaimMoves`, `QuietStep`) say
  once what each group of actions does to tokens, leases and states; the
  refinement uses the same facts.
* `LeaseRespected` needs one invariant more, `LeasedToken`: a leased row has an
  owner and a token above zero, which is what keeps the superseding of untouched
  embeddings (`token = 0`) away from leased ones. A sibling's answer finishes only rows
  that are pending, an approval and its undo touch only rows that are not leased; the
  undo of a rejection is an exit of its own (`OutdatedByUndo`).
* `BudgetMarksKept` needs no invariant beyond the types: it holds step by step,
  by lemmas on `Recorded` and the stamps. The two writers that drop a
  consolidation's history are named in it, and no retry, recovery, expiry, claim or
  operator's grant can pass for one: a review raises the token by one and ends no lease,
  an adoption is queued only as a consolidation's lease ends.
* `AttemptBudget` is not inductive. The strengthening `Sound` says of each row
  that its marks are finitely many (so that counting them adds up), that an
  absent row has no attempts, and that a failed evaluation whose history is
  exactly "oversized" was left by an earlier release with no more than the
  ordinary attempts. The last conjunct is what bounds the one recovery that
  leaves no mark. `Remembered` says the same of the rows that an undo may bring back.
* `ImplementsLifecycle` maps each disjunct of `Next` to a step or a stutter of
  `WorkLifecycle`; a claim that gives other leases back, and an answer that finishes
  siblings, map to several items moving in one abstract step.

* `SupervisorProofs` has one invariant for both theorems, `Inv`. `TypeOK` alone is not
  inductive: a pass may be counted only because the loop passed its limit test,
  so `WithinLimits` says of every place behind the test that a pass is left.
  `IdleClosesClean` needs `ClosingClean`: an owner on its way to the close, with no wake
  raised since it read the revision, has nothing owed that is not done. It
  survives the other processes because a wake raises the revision in the same step
  in which it owes them something, and because work that is done stays done
  (`StaysClean`); the plan establishes it. The lemmas `OwnerGoesOn`, `OutsiderGoesOn`,
  `LockTaken` and `LockLetGo` say once what each kind of step does to the lock.

* `ConsolidationBatchesProofs`: `Inv` is `TypeOK`, `ReadBeforeSettled` and `TasksInOrder`. None of the
  run's properties is inductive: an acceptance settles sources because its task
  listed them, minutes earlier. `ReadBeforeSettled` joins the watermark, the done
  rows and the adoptions, of which each is the reason for another
  (`CompleteWithoutModel` settles a row because the watermark is past it, an undone
  review settles one because its reply was read). `TasksInOrder` is what a task may
  still rely on: no two tasks under one token (`LeasesApart`), a page left to whoever
  holds a page's lease (`PageLeft`), why nothing was left to read (`NothingLeft`), and the tokens
  of the siblings as they were read (`PendingAsRead`). `RenewedSpared` needs what the ghost
  `moved` means (`WatchedAsRead`): a sibling whose row changed since has a greater token, is
  pending no more, or has an adoption begun. That
  `_processed_sequence` passes only read sources needs the first unread one;
  `LeastElement` takes it from the well-foundedness of finite sets, which the library
  states without an operator parameter.
* `CandidateEvaluationProofs` has one invariant for its theorems, `Inv`, and one description of a step.
  The same rows are written by some thirty actions, most of them a composition of helpers on
  the tables, so what a transaction may do to one question is said once: it takes one of
  a few turns (`Turn`: asked, superseded, fenced, resumed, timed out, reopened, ...), a
  claim (`Claims`) or the reply of its holder (`Reply`). A lemma per helper (`MovedIs`,
  `RetiredIs`, `QueuedIs`, `RegisteredIs`, ...) gives the turn each question takes, a
  lemma per action (`...Steps`) that it is a `Step`, and `StepKeeps` that a `Step` keeps `Inv`. `InStep`
  follows from the turns alone (`TurnKeeps`). `RequestsWithinGrants` is not inductive: the
  mark is committed before the request is made, and between the two a lease may
  expire, a repair clear the mark and another worker begin. `RequestsPaid` says that the mark has paid
  for the request: the requests still allowed are at least the attempts that have begun (`Begun`),
  and one more where there is no mark. `NewEvidencePosesAQuestion` needs why the question is new:
  some live source of the evidence is cited by no question so far (`NewEvidenceUncited`), thus the
  set that is alive now was never asked about, even after a deletion of the rest; that in
  turn needs that a question cites only what was heard (`AskedOfWhatIs`). The refinement is read off
  from the turns as well: `InStep` tells which states a row without an evaluation may
  have, `TokensApart` that a reply takes away the newest grant and no other.
* `StoreRestoreProofs` opens with what holds of a content as a value. `Sound` says of a content that it is well typed,
  that rows keep their words only while they exist, that a delete's members are
  blocked and a mute's are muted. Each operator keeps it (`CapturedSound` to
  `ReplayedSound`) and each says what it changes (`...Is`). Two relations to what the
  owner decided carry the rest: `Keeps`, an open store holds to the decisions beside
  the snapshots there are, and `Tells`, a ledger lists them. A store that keeps the
  decisions exports a ledger that tells them (`LedgerTells`), and a ledger that tells them,
  replayed over any snapshot, gives a store that keeps them (`ReplayedKeeps`). Both speak
  of the snapshots because the replay does: a mute is replayed unless the snapshot
  holds one under its request key, so every such mute must list the same
  object (`Lists`); a withdrawal is replayed over smaller revisions only; the
  generation of releases after a replay is beyond every snapshot's.
  The module then adds who holds the decisions when (`DecisionsCarried`): the open store; behind a
  marker the kept ledger; after the replay both. `RunInOrder` says that admission is
  closed on the ledger the run will replay, and that no restore begins with an embedding or
  a purge under way. `HistoryHonest` is inductive with `PurgeInOrder` because every
  replayed operation starts its layers anew; it says nothing of the time between
  the copy and the replay (see the observations). `ReaderInOrder` is `ForgottenNeverAnswered` with the reason: what a
  reader sees was visible when it began.
* `DeletionMirrorProofs`: `Inv` joins `TypeOK` with six parts. A deletion is never taken back and
  keeps its members and its epoch (`StoreOnward`), so what was once the store's
  stays among what the store wants mirrored (`Wanted`), and everything in a journal, a copy or a
  recovery is of that set (`JournalsOfTheStore`). The checkpoint vouches for the journal it was saved
  beside and for no other (`CheckpointVouches`); whoever holds the lock has in the journal what the
  checkpoint told it and what it appended (`PassInOrder`, `OneHolds`). That is why a finished pass
  may promise: each record the store wants is known, and what is known is there. The
  recovery's ledger is built from a bundle and a journal that may both name a delete.
  Because both are the store's, they agree (`RecoveryLedger` names each
  once), and the epoch it opens under is a maximum, which exists because the store's
  epoch bounds every one (`Largest`). What the replay makes of it is `ReplayedIs`, from the
  lemmas on contents that this module needs too; `RecoveryInOrder` carries that from the fence to the opening.
* `SessionDeliveryProofs` has three layers, each inductive given those before it. `Inv`: requests
  carry what was live when it was read, marks are of the current sequence, the budget. `InStepInv`: where the
  client's counter stands in the session's sequence (`Horizon`), that a mark is of the counter's epoch
  once it counted and of the one before until then, that a compaction since a
  prompt began lies beyond what it looked at (`CutoffsBehind`). `ToldInv`: the one answer the host
  still waits for carries news (`LinesAreNews`), and shown, it makes the context what its
  rows say (`AnswerWillTell`, `ContextKnown`). `CorrectionDueOrTold` follows because a row that acknowledges what
  was told is the only one of which no notice is made.

* `CaptureInboxProofs`: what makes a second copy possible is time between a refusal and what
  is done about it, so `Inv` says what was met and still holds. `Occupied` are the captures
  the host's key refuses, `Shut` those it refuses and does not hold. Both only grow
  (`StaysMet`): nothing is stored under a key that is occupied, and a delete blocks a message with
  all its versions (`KeysInOrder`). A row that is to take a new key, a page read of such rows
  and a job at its comparison are `Occupied`, a job under its new key is `Shut` (`RowsInOrder`,
  `PageInOrder`, `Met`). `LeavesForCause` and `NotStoredOnceForgotten` follow from who may take a row
  away and who may store (`WhoRemoves`, `WhoStores`). `WithheldNeverStored` needs `Relies`: a job's
  private check counts only while the rules have the revision it was made at, and
  `NoYounger`: what a job or a page read of a row was entered no later than the row there is now, so a
  pause the row has to heed is one the job heeds.

Only model-checked: the liveness properties `Settles`, `InboxSettles`, `CommittedIsMirrored`,
`AnnouncedIsDone` and `DueIsDone`, which are out of the prover's reach. Every invariant, action
property and refinement that a run checks is a theorem as well, `DoneWasRead` under the
assumption of its run (no private intervals).

## 5. Observations

Where the code and what is written of it part. Each names the definition that states
it; checked as an INVARIANT or a PROPERTY with the constants named, TLC shows how.

* **A fact changed back is not announced.** `docs/background-work.md:253` says that a session
  that received a changed fact gets its current value with the old reference.
  `_claim_change` (`session_injection.py:129-152`) compares the present statement with that
  of the *delivered revision*. Told A, corrected to B, announced as B in a notice and
  corrected back to A, the fact looks unchanged to its row: no notice is due, and the
  session keeps B unless recall offers the new revision by itself. What the notice
  said is in `notice_marker`, but is not compared. `ChangedFactDue`, with the constants of
  `Delivery`; `CorrectionDueOrTold`, which does not cover the change back, holds.
* **The lag marker can be cleared early.** `docs/background-work.md:158` says that it is
  cleared only after all current records have been appended. A pass that read the
  store before a deletion unlinks the marker (`deletion_mirror.py:244`) that the deletion's
  own attempt left because it found the lock held: `LagClearedWhenMirrored`, with the
  constants of `Mirror`. Nothing waits for the marker, so the next pass mirrors the
  deletion (`CommittedIsMirrored`), and the doctor counts the missing records itself.
* **A started adoption can be lost.** `schedule_adoptions` (`adoption_work.py:60`) reopens
  the reply's done row without a new token and with its offset. `_episode_batch` does
  not leave out rows that have an adoption checkpoint, so a sibling's batch read
  after that lists the reply with its current token, and `complete_consolidation`
  marks it done; nothing reopens it. A comment in `worker_consolidation.py:498-499`
  says a started adoption must retain its continuation. `AdoptionRetained` in
  `ConsolidationBatches` is that statement; TLC violates it under the constants of
  `BatchesAdoption`. An answer asked for *before* the adoption was queued can do the
  same, when another batch completed the reply meanwhile: the row is reopened under
  the token that answer knows (N = 3, `Reply` = {2}, `Long` = `Private` = {}, `MaxToken` = 2,
  `MaxReviews` = 0). `RenewedSpared` excepts these rows and says that no other moved row
  is settled.
* **The undo of a rejection takes a row from its worker.** `restore_queue` rewrites the row
  unchanged with token + 1 (`review_sources.py:519-538`), leased or not. The worker's answer
  is refused as stale, its model call is lost, the attempt stays counted, and nobody
  gets the row before the lease expires. `LeaseRespected` names this exit
  (`OutdatedByUndo`).
* **A private interval can settle a source unread.** The leased item's interval is
  checked in one transaction and the batch is read in another
  (`worker_consolidation.py:373`). Opened between the two, the interval empties the
  batch and `_complete_without_model` marks the row done; the comment at 371-372 says
  such sources stay pending. `DoneWasRead` is violated under the constants of
  `BatchesAdoption`, whose source may be private.
* **A question can be closed as revoked that nobody was asked.** One pass schedules a
  settled question and then reopens an interrupted one of the same candidate
  (`worker.py:409`). The verdict on one moves the candidate to waiting; the worker of
  the other closes it as `authority_revoked`, and neither the debounce nor the settle
  sweep asks it again. `UnaskedClosedOnlyByFence` in `CandidateEvaluation`, with the
  constants of `EvaluationVerdicts` but two automatic verdicts, one release, three
  tokens.
* **A released candidate can stay pending for good.** Its question was decided by rule
  before it was suppressed; released, it is registered as pending,
  `_record_unanswerable` (`candidate_intake.py:513`) finds the decision recorded and
  returns before it moves the candidate. `PendingPosesAQuestion`, with one source and
  `Unanswerable <- OneAlone`.
* **A withdrawal is not always replayed.** `_replay_withdrawal` (`restore.py:580`) skips a
  claim of which the snapshot holds an equal or a greater revision: go back to an old
  snapshot, retract the claim there, then restore a newer snapshot taken before.
  `docs/deletion-contract.md:96-97` says the replay reinstates withdrawals.
  `WithdrawalsReinstated` in `StoreRestore` states that and is violated with two
  snapshots; `WithdrawalsKept` is what holds.
* **An acknowledged purge can leave a vector.** The replayed delete of an object the
  snapshot does not hold finds no row in `physical_members`, so its purge asks the
  companion for nothing (`AcknowledgedLeavesNoVector`; `maintenance/restore.py:26-28`). The
  vector belongs to no row and recall cannot answer from it: `VectorsHonest`.
* While a store is closed its receipts may be untrue: a run that copied a snapshot and
  stopped is followed by one that copies another, whose receipts say that the
  history of a delete is gone while the first snapshot's page images lie in the log.
  Nobody reads there, and every replayed operation starts its layers anew, so
  `HistoryHonest` begins with the replay.
* A ledger of the older format carries no suppressions that an object inherited by
  being derived from a suppressed one; its restore gives them up (the comment at
  `restore.py:703-706`). `decided.listed` is what such a restore must keep.
* A renewed observation head (`suppression.py:113`) is blocked again by a delete
  replayed later, and a purge fence skips the vector of a renewed observation.
* A prompt of a lost counter that is recorded after the next
  compaction counts as told in the new context, although `session_brief.py:201-202` says
  that the older bases make delayed requests idempotent and `docs/background-work.md:238-240`
  that a briefing comes anew after a compaction: `CountedForThisContext` without `~crossed`, with the
  constants of `Delivery`, in 19 steps. With it, nothing of that run's bounds is
  violated. A remote answer that misses the
  hook's deadline is recorded and never shown; that is why `CorrectionDueOrTold`
  speaks of settled facts.
* Inbox: a late refusal may mark by its token a row that was cancelled and sent
  anew; a replay that still holds an earlier row of the same words judges the row
  sent since by the earlier entry and moment (`LeavesForCause` allows it); a hook's
  conflict starts the count of deferrals anew, which sends bound; a message stored
  under a key of its own and sent once more with another moment is stored twice,
  because `_as_stored` (628-635) compares with the host key's holder only.
* Supervisor: a wake coalesced onto an owner that then closes for its limit, a pause
  or a failure is not read by it, although the docstring (`scheduling.py:393-395`) and
  the comment at 488 say that a live owner owes it a read; the same holds for
  `accepting` left by a killed owner while another waits for the lock. `owed` lets go
  of such items, so `AnnouncedIsDone` says nothing of them; only the system's scheduler
  covers them (`DueIsDone`).
* `_CAPACITY_TOKEN` says it records "how many times in a row" a provider refused
  (`work_storage.py:69`). When the code carries a budget mark, another failure is
  appended and `capacity:n` survives it, so the next refusal continues at n + 1.
* `defer_entry` after the model has answered (`worker_candidates.py:156-159`) clears
  the mark and the question is asked again, although its docstring speaks of "an
  uncalled attempt" and `docs/background-work.md:61` of explicit rejections only:
  `OnlyRejectionClearsFence` in `CandidateEvaluation`, with one source, one revision, one
  task, two tokens and a paused entry. `RequestsWithinGrants` counts such an answer as a grant.
* A question whose work was given up at the lease limit is still queued. A
  suppression revokes it, and releasing the suppression cannot resume it, because
  its work is failed and not obsolete.

## 6. Not modelled

Schema upgrades, `rebuild_lost_vectors`, the shared-store import, requalification
and injection quarantine write `work_items` too, but run while no worker does or on
rows of objects no worker processes. Prompts, decoding, ranking, rendering and
archive formats are data. Recall has no state of its own.

Inside the modelled components:

* Inbox: messages of several parts, more than one host key or scope, capacity,
  imports, the injection guard, copies of suppressed sources, restored absences.
* Restore: the archive, relocation and vectors of a disaster restore, a normal restore
  onto a destination whose disaster restore stopped.
* Delivery: sources that carry several facts, replaced claims, two hooks that write
  the pending mark at once and may share an ordinal.
* Supervisor: the close for a changed configuration, the worker lock between a
  supervised and a direct pass, start delays, upgrade jobs, the lengths of waits.

The components marked `not_modelled` in `PROJECT.json` give their reasons; the hazards
without a property name the planned module.

## 7. Plan

In order of what would be lost if it went wrong:

1. **WriterLease**: holders and pins over one lock; **ModelBudget**: caps under
   concurrent reservations. Both are small with provable invariants.
2. **ClaimLanes**: starvation under the two claim orders with several items.
3. **Handoff**, **CaptureRetry**.
4. Pure operators: temporal ordering of facts, against a reference definition.

A new module needs runs; where two runs of one module differ only in what they
check, they are merged first.
