------------------------- MODULE ConsolidationBatches -------------------------
(***************************************************************************)
(* Consolidation of one conversation's sources (core/worker_consolidation, *)
(* core/consolidate, core/adoption_work, core/review_sources).             *)
(*                                                                         *)
(* A worker leases one source's row, but one model call reads a batch: the *)
(* leased source and the pending siblings of its conversation.  Accepting  *)
(* the answer completes the siblings' rows too, without a lease on them,   *)
(* moves the conversation's watermark, and reopens the rows of replies     *)
(* that may adopt a proposal.  Between the read and the acceptance other   *)
(* workers, captures, deletions, private intervals and owner reviews go on.*)
(*                                                                         *)
(* Leases are free of time here: one may expire at any moment.             *)
(***************************************************************************)
EXTENDS Naturals, FiniteSets

CONSTANTS
    N,             \* the conversation's sources are 1 .. N, in capture order
    Worker,
    Import,        \* captured without work until the owner approves them
    Reply,         \* replies next to a proposal: adoption follows consolidation
    Long,          \* sources whose messages exceed the input budget
    Pages,         \* pages of a long source
    Private,       \* sources a session's private interval would cover
    MaxToken,      \* bound: lease tokens a row may reach
    MaxReviews     \* bound: owner decisions and undos

Source == 1 .. N

ASSUME BatchAssumption ==
    /\ N \in Nat
    /\ {Import, Reply, Long, Private} \subseteq SUBSET Source
    /\ Import \cap (Reply \cup Long) = {}
    /\ Pages \in Nat \ {0, 1}
    /\ {MaxToken, MaxReviews} \subseteq Nat

VARIABLES
    rows,          \* the consolidate rows of work_items, by source
    adoption,      \* adoption_processing, by source
    watermark,     \* episode_versions.processed_sequence
    arrived,       \* how many sources were captured
    live,          \* sources that are their group's newest visible version
    held,          \* sources under a full private interval now
    task,          \* what each worker is doing
    approved,      \* the token an approval gave a row, while it may be undone; else 0
    reviews,       \* bound only: owner decisions so far
    derived,       \* ghost: sources whose whole content an accepted answer read
    moved          \* ghost: siblings each worker read whose rows changed since

vars == <<rows, adoption, watermark, arrived, live, held, task, approved,
          reviews, derived, moved>>

Row == [state : {"absent", "pending", "leased", "done", "failed", "obsolete"},
        token : Nat, offset : 0 .. Pages]

NoTask == [step |-> "none"]

Claimed == [step : {"claimed", "admitted", "adopting"}, item : Source, token : Nat]

\* batch: what the model reads.  pending: siblings with the token their row had.
\* changed: what moved under the answer.
Asked == [step : {"empty", "asked", "paged"}, item : Source, token : Nat,
          batch : SUBSET Source, pending : SUBSET (Source \X Nat),
          changed : SUBSET {"retraction", "episode"}]

TypeOK ==
    /\ rows \in [Source -> Row]
    /\ adoption \in [Source -> {"none", "open", "review", "closed"}]
    /\ watermark \in 0 .. N
    /\ arrived \in 0 .. N
    /\ {live, held, derived} \subseteq SUBSET Source
    /\ approved \in [Source -> Nat]
    /\ task \in [Worker -> {NoTask} \cup Claimed \cup Asked]
    /\ reviews \in Nat
    /\ moved \in [Worker -> SUBSET Source]

Init ==
    /\ rows = [s \in Source |-> [state |-> "absent", token |-> 0, offset |-> 0]]
    /\ adoption = [s \in Source |-> "none"]
    /\ watermark = 0
    /\ arrived = 0
    /\ live = Source
    /\ held = {}
    /\ task = [w \in Worker |-> NoTask]
    /\ approved = [s \in Source |-> 0]
    /\ reviews = 0
    /\ derived = {}
    /\ moved = [w \in Worker |-> {}]

-----------------------------------------------------------------------------
(* What other parts of the program do to the conversation.                 *)

\* A capture attaches the source to the episode and queues its consolidation.
Arrive ==
    /\ arrived < N
    /\ arrived' = arrived + 1
    /\ rows' = IF arrived' \in Import THEN rows
               ELSE [rows EXCEPT ![arrived'].state = "pending"]
    /\ UNCHANGED <<adoption, watermark, live, held, task, approved, reviews, derived>>

\* Every answer being waited for learns that something it rests on changed.
Noted(T, change) ==
    [w \in Worker |-> IF "changed" \in DOMAIN T[w]
                      THEN [T[w] EXCEPT !.changed = @ \cup {change}] ELSE T[w]]

\* A deletion takes the source's unsettled work out of the queue.
Delete(s) ==
    /\ s \in live /\ s <= arrived
    /\ live' = live \ {s}
    /\ rows' = IF rows[s].state \in {"pending", "leased"}
               THEN [rows EXCEPT ![s].state = "obsolete", ![s].token = @ + 1] ELSE rows
    /\ task' = Noted(task, "retraction")
    /\ UNCHANGED <<adoption, watermark, arrived, held, approved, reviews, derived>>

\* A suppression, or a deletion elsewhere in the scope.
Suppress ==
    /\ task' = Noted(task, "retraction")
    /\ task' # task
    /\ UNCHANGED <<rows, adoption, watermark, arrived, live, held, approved,
                   reviews, derived>>

\* The capture of a newer version of the source; its work stays as it is.
Supersede(s) ==
    /\ s \in live /\ s <= arrived
    /\ live' = live \ {s}
    /\ UNCHANGED <<rows, adoption, watermark, arrived, held, task, approved,
                   reviews, derived>>

\* The operator opens or closes a full interval over a session's sources.
OpenInterval ==
    /\ held = {} /\ Private # {}
    /\ held' = Private
    /\ UNCHANGED <<rows, adoption, watermark, arrived, live, task, approved,
                   reviews, derived>>

CloseInterval ==
    /\ held # {}
    /\ held' = {}
    /\ UNCHANGED <<rows, adoption, watermark, arrived, live, task, approved,
                   reviews, derived>>

-----------------------------------------------------------------------------
(* Owner review: decisions that queue a source again, and their undo.  A   *)
(* decision needs the source in sight, and so does its undo.  What is      *)
(* rejected leaves the queue alone: its row is done, obsolete or missing.  *)

\* resume_queue: a fresh token fences whoever held the row before.
Resumed(s) == [rows EXCEPT ![s].state = "pending", ![s].token = @ + 1]

Reviewable(s) ==
    /\ s \in live \ held /\ s <= arrived
    /\ reviews < MaxReviews
    /\ rows[s].token < MaxToken
    /\ reviews' = reviews + 1

Approved(s) ==
    /\ rows' = Resumed(s)
    /\ approved' = [approved EXCEPT ![s] = rows'[s].token]

ApproveImport(s) ==
    /\ s \in Import /\ approved[s] = 0
    /\ rows[s].state # "leased"
    /\ Reviewable(s)
    /\ Approved(s)
    /\ UNCHANGED <<adoption, watermark, arrived, live, held, task, derived>>

\* The owner picks the adopted fragments and the stages start over from there.
ApproveAdoption(s) ==
    /\ adoption[s] = "review" /\ rows[s].state = "done"
    /\ Reviewable(s)
    /\ Approved(s)
    /\ adoption' = [adoption EXCEPT ![s] = "open"]
    /\ UNCHANGED <<watermark, arrived, live, held, task, derived>>

\* restore_queue: the row's earlier state under a new token, while the row is
\* still as the approval left it (the digest that undo compares).
UndoReview(s) ==
    /\ approved[s] # 0
    /\ rows[s].state = "pending" /\ rows[s].token = approved[s]
    /\ Reviewable(s)
    /\ approved' = [approved EXCEPT ![s] = 0]
    /\ rows' = [rows EXCEPT ![s].state = IF s \in Import THEN "obsolete" ELSE "done",
                            ![s].token = @ + 1]
    /\ adoption' = [adoption EXCEPT ![s] = IF s \in Import THEN "none" ELSE "review"]
    /\ UNCHANGED <<watermark, arrived, live, held, task, derived>>

-----------------------------------------------------------------------------
(* The lease, without its clock.                                           *)

Claim(w, s) ==
    /\ task[w] = NoTask
    /\ rows[s].state = "pending" /\ rows[s].token < MaxToken
    /\ rows' = [rows EXCEPT ![s].state = "leased", ![s].token = @ + 1]
    /\ task' = [task EXCEPT ![w] =
                    [step |-> "claimed", item |-> s, token |-> rows'[s].token]]
    /\ UNCHANGED <<adoption, watermark, arrived, live, held, approved, reviews, derived>>

\* release_stale: back to the queue, or failed when its attempts are spent.
Expire(s) ==
    /\ rows[s].state = "leased"
    /\ \E state \in {"pending", "failed"} : rows' = [rows EXCEPT ![s].state = state]
    /\ UNCHANGED <<adoption, watermark, arrived, live, held, task, approved,
                   reviews, derived>>

\* Recovery, or an operator's retry, gives a failed row another start.
Reopen(s) ==
    /\ rows[s].state = "failed"
    /\ rows' = [rows EXCEPT ![s].state = "pending"]
    /\ UNCHANGED <<adoption, watermark, arrived, live, held, task, approved,
                   reviews, derived>>

VerifyLease(w) ==
    /\ rows[task[w].item].state = "leased"
    /\ rows[task[w].item].token = task[w].token

Dropped(w) == task' = [task EXCEPT ![w] = NoTask]

\* A crash, a spent deadline, or a reply whose lease is gone: nothing is written.
Abandon(w) ==
    /\ task[w] # NoTask
    /\ Dropped(w)
    /\ UNCHANGED <<rows, adoption, watermark, arrived, live, held, approved,
                   reviews, derived>>

\* A reply that only gives the leased row another state.
Returned(w, state) ==
    /\ VerifyLease(w)
    /\ rows' = [rows EXCEPT ![task[w].item].state = state]
    /\ Dropped(w)
    /\ UNCHANGED <<adoption, watermark, arrived, live, held, approved, reviews, derived>>

\* finalize_work: a fault of the provider or of its answer is retried in bounds.
Refuse(w) ==
    /\ task[w].step \in {"asked", "paged", "adopting"}
    /\ \E state \in {"pending", "failed"} : Returned(w, state)

-----------------------------------------------------------------------------
(* One consolidation: the private check, the read, and the acceptance.     *)

\* _run_member reads the private intervals in a transaction of its own.
Admit(w) ==
    /\ task[w].step = "claimed" /\ task[w].item \notin held
    /\ task' = [task EXCEPT ![w].step = "admitted"]
    /\ UNCHANGED <<rows, adoption, watermark, arrived, live, held, approved,
                   reviews, derived>>

\* hold_for_private_mode, before the read or just before the provider is asked.
HoldForPrivateMode(w) ==
    /\ \/ task[w].step = "claimed" /\ task[w].item \in held
       \/ task[w].step \in {"asked", "paged"} /\ task[w].batch \cap held # {}
       \/ task[w].step = "adopting" /\ task[w].item \in held
    /\ Returned(w, "pending")

\* Siblings: live rows after the watermark, pending, not part-way through pages.
Siblings(s) ==
    {t \in (live \ {s}) \cap (1 .. arrived) :
        t > watermark /\ rows[t].state = "pending" /\ rows[t].offset = 0}

WithTokens(S) == {<<t, rows[t].token>> : t \in S}

\* What is sent: the siblings that are due and fit, without the private ones.
EpisodeBatch(s, ready) ==
    IF s <= watermark THEN {}
    ELSE (IF s \in Long THEN {s} ELSE {s} \cup (ready \ Long)) \ held

Request(s, token, step, batch, pending) ==
    [step |-> step, item |-> s, token |-> token, batch |-> batch,
     pending |-> pending, changed |-> {}]

\* _read_batch on a source with no adoption checkpoint: a page of a long source,
\* an episode batch, or nothing the model could read.
ReadBatch(w) ==
    LET s == task[w].item
        Reads(step, batch, pending) ==
            task' = [task EXCEPT ![w] = Request(s, task[w].token, step, batch, pending)]
    IN  /\ task[w].step = "admitted" /\ VerifyLease(w)
        /\ adoption[s] = "none"
        /\ s \in live
        /\ \E ready \in SUBSET (IF s > watermark THEN Siblings(s) ELSE {}) :
            LET batch == EpisodeBatch(s, ready)
                page  == {s} \ held
            IN  IF rows[s].offset > 0
                THEN /\ ready = {} /\ rows[s].offset < Pages
                     /\ Reads(IF page = {} THEN "empty" ELSE "paged", page, {})
                ELSE IF batch = {} THEN Reads("empty", {}, WithTokens(ready))
                ELSE IF s \in Long /\ s \in batch THEN ready = {} /\ Reads("paged", batch, {})
                ELSE Reads("asked", batch, WithTokens(ready))
        /\ UNCHANGED <<rows, adoption, watermark, arrived, live, held, approved,
                       reviews, derived>>

ReadAdoption(w) ==
    /\ task[w].step = "admitted" /\ VerifyLease(w)
    /\ adoption[task[w].item] # "none"
    /\ task' = [task EXCEPT ![w].step = "adopting"]
    /\ UNCHANGED <<rows, adoption, watermark, arrived, live, held, approved,
                   reviews, derived>>

\* The subject, or a source the answer was built on, is no longer to be worked on.
ObsoleteWork(w) ==
    /\ \/ task[w].step \in {"admitted", "adopting"} /\ task[w].item \notin live
       \/ /\ task[w].step \in {"empty", "asked", "paged"}
          /\ ~(({task[w].item} \cup task[w].batch) \subseteq live)
    /\ Returned(w, "obsolete")

\* Mutant: the watermark goes to the last declared source, gaps or not.
ToLastDeclared(declared) ==
    CHOOSE k \in Source : k \in declared /\ \A j \in declared : j <= k

\* _processed_sequence: the watermark passes the leading sources a resume declares.
ProcessedSequence(declared) ==
    CHOOSE k \in watermark .. N :
        /\ \A j \in watermark + 1 .. k : j \in declared
        /\ k + 1 \notin declared

\* Mutant: every sibling the read listed is completed, read by the model or not.
AllPendingCompleted(R, w, covered) ==
    [s \in Source |->
        IF s = task[w].item THEN [R[s] EXCEPT !.state = "done"]
        ELSE IF R[s].state = "pending" /\ <<s, R[s].token>> \in task[w].pending
        THEN [R[s] EXCEPT !.state = "done"] ELSE R[s]]

\* Mutant: a sibling is completed whoever worked on it since the read.
AnyTokenCompleted(R, w, covered) ==
    [s \in Source |->
        IF s = task[w].item THEN [R[s] EXCEPT !.state = "done"]
        ELSE IF s \in covered /\ R[s].state = "pending" /\ (\E p \in task[w].pending : p[1] = s)
        THEN [R[s] EXCEPT !.state = "done"] ELSE R[s]]

\* complete_consolidation: the leased row, and the covered siblings nobody else
\* has leased or queued again since the read.
Completed(R, w, covered) ==
    [s \in Source |->
        IF s = task[w].item THEN [R[s] EXCEPT !.state = "done"]
        ELSE IF s \in covered /\ R[s].state = "pending"
                /\ <<s, R[s].token>> \in task[w].pending
        THEN [R[s] EXCEPT !.state = "done"] ELSE R[s]]

\* schedule_adoptions: a completed reply without a checkpoint is queued again.
WithAdoptions(R, covered) ==
    LET starting == {s \in covered \cap Reply : R[s].state = "done" /\ adoption[s] = "none"}
    IN  /\ adoption' = [s \in Source |-> IF s \in starting THEN "open" ELSE adoption[s]]
        /\ rows' = [s \in Source |-> IF s \in starting
                                     THEN [R[s] EXCEPT !.state = "pending"] ELSE R[s]]

\* An accepted resume moves the watermark under every other answer being waited for.
Summarised(w, resume, declared) ==
    LET others == [task EXCEPT ![w] = NoTask]
    IN  IF resume
        THEN /\ "episode" \notin task[w].changed
             /\ watermark' = ProcessedSequence(declared)
             /\ task' = Noted(others, "episode")
        ELSE watermark' = watermark /\ task' = others

\* Mutant: only the leased source is looked at again.
AcceptableBySubject(w) ==
    /\ VerifyLease(w)
    /\ task[w].item \in live \cap task[w].batch
    /\ "retraction" \notin task[w].changed

\* _fence_consolidation, before anything of the answer is written.
Acceptable(w) ==
    /\ VerifyLease(w)
    /\ ({task[w].item} \cup task[w].batch) \subseteq live
    /\ "retraction" \notin task[w].changed
    /\ task[w].item \in task[w].batch

\* accept_consolidation of a whole batch.
Accept(w) ==
    /\ task[w].step = "asked" /\ Acceptable(w)
    /\ \E resume \in BOOLEAN : Summarised(w, resume, task[w].batch)
    /\ derived' = derived \cup task[w].batch
    /\ WithAdoptions(Completed(rows, w, task[w].batch), task[w].batch)
    /\ UNCHANGED <<arrived, live, held, approved, reviews>>

\* accept_consolidation of one page: only the last one completes the source.
AcceptPage(w) ==
    LET s == task[w].item
        final == rows[s].offset + 1 = Pages
        paged == [rows EXCEPT ![s].offset = @ + 1,
                              ![s].state = IF final THEN "done" ELSE "pending"]
    IN  /\ task[w].step = "paged" /\ Acceptable(w)
        /\ final => "episode" \notin task[w].changed
        /\ \E resume \in (IF final THEN BOOLEAN ELSE {FALSE}) : Summarised(w, resume, {s})
        /\ derived' = IF final THEN derived \cup {s} ELSE derived
        /\ IF final THEN WithAdoptions(paged, {s}) ELSE rows' = paged /\ adoption' = adoption
        /\ UNCHANGED <<arrived, live, held, approved, reviews>>

\* Something the answer rests on changed, or it does not cover the leased source:
\* nothing of it is kept and the work is tried again.
Discard(w) ==
    /\ \/ task[w].step \in {"empty", "asked", "paged"} /\ "retraction" \in task[w].changed
       \/ task[w].step \in {"asked", "paged"} /\ "episode" \in task[w].changed
       \/ task[w].step = "asked" /\ task[w].item \notin task[w].batch
    /\ \E state \in {"pending", "failed"} : Returned(w, state)

\* _complete_without_model: there was nothing to read, so the row is done.
CompleteWithoutModel(w) ==
    /\ task[w].step = "empty" /\ VerifyLease(w)
    /\ task[w].item \in live
    /\ "retraction" \notin task[w].changed
    /\ rows' = Completed(rows, w, {task[w].item})
    /\ Dropped(w)
    /\ UNCHANGED <<adoption, watermark, arrived, live, held, approved, reviews, derived>>

\* _save_adoption_stage: each stage is one pass under its own lease; the last one
\* publishes, finds nothing to adopt, or leaves a question for the owner.
AdoptionStage(w) ==
    LET s == task[w].item
    IN  /\ task[w].step = "adopting" /\ VerifyLease(w)
        /\ s \in live /\ adoption[s] = "open"
        /\ \E next \in {"open", "review", "closed"} :
            /\ adoption' = [adoption EXCEPT ![s] = next]
            /\ rows' = [rows EXCEPT ![s].state = IF next = "open" THEN "pending" ELSE "done"]
        /\ Dropped(w)
        /\ UNCHANGED <<watermark, arrived, live, held, approved, reviews, derived>>

-----------------------------------------------------------------------------
OfTheOwner ==
    \E s \in Source :
        \/ Delete(s) \/ Supersede(s)
        \/ ApproveImport(s) \/ ApproveAdoption(s) \/ UndoReview(s)

OfTheWorker(w) ==
    \/ \E s \in Source : Claim(w, s)
    \/ Abandon(w) \/ Admit(w) \/ HoldForPrivateMode(w)
    \/ ReadBatch(w) \/ ReadAdoption(w) \/ ObsoleteWork(w)
    \/ Refuse(w) \/ Discard(w)
    \/ Accept(w) \/ AcceptPage(w) \/ CompleteWithoutModel(w) \/ AdoptionStage(w)

Steps ==
    \/ Arrive \/ Suppress \/ OpenInterval \/ CloseInterval
    \/ OfTheOwner
    \/ \E s \in Source : Expire(s) \/ Reopen(s)
    \/ \E w \in Worker : OfTheWorker(w)

\* Ghost: whatever happens to the row of a sibling while an answer is waited for.
WaitsFor(T, w) == IF "pending" \in DOMAIN T[w] THEN {p[1] : p \in T[w].pending} ELSE {}

Watched ==
    moved' = [w \in Worker |->
                 {s \in WaitsFor(task, w) \cap WaitsFor(task', w) :
                     s \in moved[w] \/ rows'[s] # rows[s]}]

Next == Steps /\ Watched

Spec == Init /\ [][Next]_vars

-----------------------------------------------------------------------------
(* A source at or before the conversation's watermark was read whole by an *)
(* accepted answer: _episode_batch skips it for good, so a watermark that  *)
(* ran ahead (over an import still waiting for approval, a long source, a  *)
(* source another worker holds) would lose it without a trace.             *)
WatermarkWasRead == 1 .. watermark \subseteq derived

(* With no private interval, a row is done only when its source was read   *)
(* whole: neither a page, nor a sibling's batch, nor a row of which nothing*)
(* was left to read may settle an unread source.                           *)
DoneWasRead == \A s \in Source : rows[s].state = "done" => s \in derived

(* A row that no worker holds is completed only by a batch that read its   *)
(* source, whatever private interval opened or closed over the batch.      *)
SiblingsWereRead ==
    [][\A s \in Source :
          rows[s].state = "pending" /\ rows'[s].state = "done" => s \in derived']_vars

(* A deleted or superseded source adds nothing: an answer that read it is  *)
(* dropped whole, whichever worker waits for it and whenever it arrives.   *)
OnlyLiveDerived == [][derived' \ derived \subseteq live]_vars

(* An adoption follows a consolidation that read the whole reply.          *)
AdoptedWasRead == \A s \in Source : adoption[s] # "none" => s \in derived

(* An answer completes a sibling only as it was read: a row that anyone     *)
(* leased, settled, withdrew or queued again since then is not settled by  *)
(* an answer that knows nothing of it.  The one exception is the row of a  *)
(* reply that another answer finished in between and queued again for its  *)
(* adoption: schedule_adoptions leaves it the token that                   *)
(* complete_consolidation compares (see AdoptionRetained).                 *)
RenewedSpared ==
    [][\A s \in Source, w \in Worker :
          /\ s \in moved[w] /\ task'[w] = NoTask
          /\ rows[s].state = "pending" /\ rows'[s].state = "done"
          => adoption[s] # "none"]_vars

(* A started adoption keeps its row until its last stage: it "has its own  *)
(* durable fences and must retain its continuation" (process_consolidate). *)
(* The code does not hold to it: an answer that read the reply before the  *)
(* adoption was queued completes the row the adoption waits in.            *)
AdoptionRetained ==
    \A s \in Source : adoption[s] = "open" => rows[s].state # "done"

=============================================================================
