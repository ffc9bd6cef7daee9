------------------------- MODULE CandidateEvaluation -------------------------
(***************************************************************************)
(* The evaluation of candidate facts: core/candidate_intake.py and         *)
(* core/candidate_sweeps.py queue questions, core/worker_candidates.py     *)
(* puts one to the model, core/candidate_evaluations.py settles it.  One   *)
(* claim and its revisions; a question is the set of sources it cites, and *)
(* is asked of a revision at most once unless a grant says otherwise.      *)
(*                                                                         *)
(* Three tables move together: stage (candidate_lifecycle), evals          *)
(* (candidate_evaluations) and work (the work_items row of an evaluation). *)
(* Every action is one write transaction; between two transactions of a    *)
(* worker's task anything may happen.  Time is left out: a lease may run   *)
(* out whenever it is held, and a quiet window may be over or not.  The    *)
(* sources are a person's own words, the only ones that pose a question.   *)
(***************************************************************************)
EXTENDS RetryHistory, FiniteSets

CONSTANTS
    Source,
    MaxRevision,        \* bound: revisions of the claim
    Unanswerable,       \* questions no verdict could promote the claim on
    Restating,          \* sources that say again what the claim says
    AUTOMATIC_VERDICTS, MAX_RECOVERABLE_ATTEMPTS,
    Acts,               \* what a person does: suppression, deletion, pauses
    MaxTasks,           \* bound: tasks alive, dead leases included
    MaxToken, MaxCaps   \* bounds: generations and capacity refusals of a row

Revision == 1 .. MaxRevision
Question == (SUBSET Source) \ {{}}
Key == Revision \X Question

ASSUME EvaluationAssumption ==
    /\ MaxRevision \in Nat \ {0}
    /\ Unanswerable \subseteq Question
    /\ Restating \subseteq Source
    /\ AUTOMATIC_VERDICTS \in Nat \ {0}
    /\ MAX_RECOVERABLE_ATTEMPTS \in Nat \ {0}
    /\ Acts \subseteq {"suppressed", "deleted", "paused"}
    /\ {MaxTasks, MaxToken, MaxCaps} \subseteq Nat

VARIABLES
    source,     \* what may be read of each source
    heard,      \* sources admitted so far
    claim,      \* the head of the claim, its fact state, what may be read of it
    basis,      \* the sources each revision was derived from
    evidence,   \* candidate_evidence: the sources attached to each revision
    stage,      \* candidate_lifecycle: where each revision stands, and why
    evals,      \* candidate_evaluations: state, and whether an attempt is marked
    work,       \* work_items of the evaluations
    tasks,      \* what workers are in the middle of, dead leases included
    paused,     \* whether the entry that owns the sources is paused
    parent,     \* ghost: the question whose verdict wrote a revision
    credit      \* ghost: requests still allowed for a question

vars == <<source, heard, claim, basis, evidence, stage, evals, work, tasks,
          paused, parent, credit>>

Readable == {"live", "suppressed", "deleted"}

Stage == [state: {"absent", "pending", "waiting", "archived", "blocked", "resolved"},
          reason: {"new_evidence", "revoked", "dormant", "suppressed", "deleted", "other"}]

Evaluation == [state: {"absent", "queued", "answered", "failed", "revoked", "obsolete"},
               marked: BOOLEAN]

Row == [state: {"absent", "pending", "leased", "done", "failed", "obsolete"},
        attempt: 0 .. MaxToken, token: 0 .. MaxToken,
        history: History]

Task == [key: Key, token: 1 .. MaxToken,
         step: {"claimed", "revoked", "interrupted", "marked", "asked"},
         touched: SUBSET {"retracted", "paused"}]

TypeOK ==
    /\ source \in [Source -> Readable]
    /\ heard \subseteq Source
    /\ claim \in [head: 0 .. MaxRevision, fact: {"proposed", "active", "retracted"},
                  read: Readable]
    /\ basis \in [Revision -> SUBSET heard]
    /\ evidence \in [Revision -> SUBSET heard]
    /\ stage \in [Revision -> Stage]
    /\ evals \in [Key -> Evaluation]
    /\ work \in [Key -> Row]
    /\ tasks \subseteq Task
    /\ paused \in BOOLEAN
    /\ parent \in [Revision -> SUBSET Source]
    /\ credit \in [Key -> Int]

Init ==
    /\ source = [s \in Source |-> "live"]
    /\ heard = {}
    /\ claim = [head |-> 0, fact |-> "proposed", read |-> "live"]
    /\ basis = [r \in Revision |-> {}]
    /\ evidence = [r \in Revision |-> {}]
    /\ stage = [r \in Revision |-> [state |-> "absent", reason |-> "other"]]
    /\ evals = [k \in Key |-> [state |-> "absent", marked |-> FALSE]]
    /\ work = [k \in Key |-> [state |-> "absent", attempt |-> 0, token |-> 0,
                              history |-> NoHistory]]
    /\ tasks = {}
    /\ paused = FALSE
    /\ parent = [r \in Revision |-> {}]
    /\ credit = [k \in Key |-> 1]

world == <<source, heard, claim, basis, evidence, paused, parent>>

Live(S) == {s \in S : source[s] = "live"}

KeysOf(r) == {k \in Key : k[1] = r}

-----------------------------------------------------------------------------
(***************************************************************************)
(* The three tables as one value, so that what one transaction does to     *)
(* them in order is a composition of functions.                            *)
(***************************************************************************)
Now == [stage |-> stage, evals |-> evals, work |-> work]

Becomes(b) == stage' = b.stage /\ evals' = b.evals /\ work' = b.work

Reachable(st) ==
    st.state \in {"pending", "waiting"} \/ st = [state |-> "archived", reason |-> "dormant"]

\* A blocked candidate is moved by nothing but a new registration.
Moved(b, r, state, reason) ==
    IF b.stage[r].state = "blocked" THEN b
    ELSE [b EXCEPT !.stage[r] = [state |-> state, reason |-> reason]]

WithRow(b, k, row) == [b EXCEPT !.work[k] = row]

Closed(b, k, state) ==
    IF b.evals[k].state = "queued" THEN [b EXCEPT !.evals[k].state = state] ELSE b

AttemptReleased(b, k) ==
    IF b.evals[k].state = "queued" THEN [b EXCEPT !.evals[k].marked = FALSE] ELSE b

Unleased(row, state, history) == [row EXCEPT !.state = state, !.history = history]

\* Mutant: the refusal and its deferral each give the attempt back.
RefundedTwice(row) == [row EXCEPT !.attempt = @ - 2]

Refunded(row) == [row EXCEPT !.attempt = IF @ = 0 THEN 0 ELSE @ - 1]

\* Mutant: a row somebody holds is left alone.
RetiredUnheld(b, K, state, kind) ==
    [b EXCEPT
        !.evals = [k \in Key |->
            IF k \in K /\ b.evals[k].state = "queued"
            THEN [b.evals[k] EXCEPT !.state = state] ELSE b.evals[k]],
        !.work = [k \in Key |->
            IF k \in K /\ b.work[k].state = "pending"
            THEN [Unleased(b.work[k], "obsolete", Bare(kind)) EXCEPT !.token = @ + 1]
            ELSE b.work[k]]]

(***************************************************************************)
(* _retire_evaluations: the queued questions K are closed and their work,  *)
(* held or not, is fenced off.                                             *)
(***************************************************************************)
Retired(b, K, state, kind) ==
    [b EXCEPT
        !.evals = [k \in Key |->
            IF k \in K /\ b.evals[k].state = "queued"
            THEN [b.evals[k] EXCEPT !.state = state] ELSE b.evals[k]],
        !.work = [k \in Key |->
            IF k \in K /\ b.work[k].state \in {"pending", "leased"}
            THEN [Unleased(b.work[k], "obsolete", Bare(kind)) EXCEPT !.token = @ + 1]
            ELSE b.work[k]]]

\* Bound: every generation a retirement or a resumption starts is within MaxToken.
MayFence == \A k \in Key : work[k].token < MaxToken

-----------------------------------------------------------------------------
(***************************************************************************)
(* Questions settled without the model: no verdict could promote the claim *)
(* on this evidence, or enough verdicts were given and no source they did  *)
(* not see says the claim again.  A question is not weighed against itself.*)
(***************************************************************************)
RuleDecided(b, r, E, itself) ==
    LET asked == {k \in KeysOf(r) \ itself : b.evals[k].marked}
    IN  \/ E \in Unanswerable
        \/ /\ Cardinality(asked) >= AUTOMATIC_VERDICTS
           /\ (E \ UNION {k[2] : k \in asked}) \cap Restating = {}

NoneQueued(b, r) == \A k \in KeysOf(r) : b.evals[k].state # "queued"

\* Mutant: the answer is recorded, its candidate left where it stood.
RecordedInPlace(b, k) ==
    IF b.evals[k].state # "absent" THEN b ELSE [b EXCEPT !.evals[k].state = "answered"]

\* _record_unanswerable
RecordUnanswerable(b, k) ==
    IF b.evals[k].state # "absent" THEN b
    ELSE LET c == [b EXCEPT !.evals[k].state = "answered"]
         IN  IF NoneQueued(b, k[1]) THEN Moved(c, k[1], "waiting", "other") ELSE c

\* _supersede_unstarted: an older question nobody was asked yet gives way.
SupersedeUnstarted(b, r) ==
    LET unstarted == {k \in KeysOf(r) : b.evals[k].state = "queued" /\ ~b.evals[k].marked}
    IN  [b EXCEPT
            !.evals = [k \in Key |-> IF k \in unstarted
                THEN [b.evals[k] EXCEPT !.state = "obsolete"] ELSE b.evals[k]],
            !.work = [k \in Key |-> IF k \in unstarted /\ b.work[k].state = "pending"
                THEN [b.work[k] EXCEPT !.state = "obsolete"] ELSE b.work[k]]]

Queued(b, k) ==
    Moved([SupersedeUnstarted(b, k[1]) EXCEPT !.evals[k].state = "queued",
                                              !.work[k].state = "pending"],
          k[1], "pending", "new_evidence")

(***************************************************************************)
(* _requeue_suppressed: the very question a block retired unasked goes on, *)
(* under a token no lease from before the block knows.                     *)
(***************************************************************************)
Resumable(b, k) ==
    /\ b.evals[k] = [state |-> "revoked", marked |-> FALSE]
    /\ b.work[k].state = "obsolete"
    /\ b.work[k].history = Bare("revoked")

Resumed(b, k) ==
    Moved([b EXCEPT !.evals[k].state = "queued",
                    !.work[k] = [state |-> "pending", attempt |-> 0, token |-> @.token + 1,
                                 history |-> NoHistory]],
          k[1], "pending", "other")

(***************************************************************************)
(* _schedule: queue the question E of revision r, unless it was asked.     *)
(***************************************************************************)
Scheduled(b, r, E, resume) ==
    LET k == <<r, E>>
    IN  IF ~Reachable(b.stage[r]) THEN b
        ELSE IF E = {} THEN Moved(b, r, "waiting", "other")
        ELSE IF RuleDecided(b, r, E, {}) THEN RecordUnanswerable(b, k)
        ELSE IF b.evals[k].state = "absent" THEN Queued(b, k)
        ELSE IF ~resume THEN b
        ELSE IF Resumable(b, k) THEN Resumed(b, k)
        ELSE Moved(b, r, "waiting", "other")

(***************************************************************************)
(* register: revision r is what the claim says now.  What other revisions  *)
(* still had to ask is closed; where r stands follows its fact.            *)
(***************************************************************************)
Standing(fact) ==
    [state  |-> IF fact = "proposed" THEN "pending"
                ELSE IF fact = "active" THEN "resolved" ELSE "archived",
     reason |-> "other"]

Superseded(st) ==
    IF st.state \in {"absent", "resolved", "blocked"} THEN st
    ELSE [state |-> "archived", reason |-> "other"]

Registered(b, r, fact) ==
    LET c == [b EXCEPT !.stage = [p \in Revision |->
                 IF p = r THEN Standing(fact) ELSE Superseded(b.stage[p])]]
    IN  Retired(c, Key \ KeysOf(r), "obsolete", "refused")

\* Mutant: a verdict's own revision is registered like any other.
RegisteredWithFirstQuestion(b, r, fact, E) == Scheduled(Registered(b, r, fact), r, E, FALSE)

\* register(schedule_initial=False): a verdict's own revision waits.
RegisteredUnscheduled(b, r, fact, E) ==
    LET c == Registered(b, r, fact)
    IN  IF fact = "proposed" THEN Moved(c, r, "waiting", "other") ELSE c

Collecting(r) == Moved(Now, r, "pending", "new_evidence")

(***************************************************************************)
(* A new revision of the claim, written from sources somebody has said,    *)
(* and registered in the same transaction.                                 *)
(***************************************************************************)
Revise(E, fact) ==
    LET r == claim.head + 1
        b == Registered(Now, r, fact)
    IN  /\ claim.head < MaxRevision
        /\ claim.read = "live"
        /\ E # {} /\ E \subseteq Live(heard)
        /\ fact = "retracted" => claim.head # 0
        /\ MayFence
        /\ claim' = [claim EXCEPT !.head = r, !.fact = fact]
        /\ basis' = [basis EXCEPT ![r] = E]
        /\ evidence' = [evidence EXCEPT ![r] = IF fact = "proposed" THEN E ELSE {}]
        /\ Becomes(IF fact = "proposed" THEN Scheduled(b, r, E, FALSE) ELSE b)
        /\ UNCHANGED <<source, heard, tasks, paused, parent, credit>>

(***************************************************************************)
(* observe_source: a source admitted for the first time wakes the head it  *)
(* speaks to, and its question is queued unless the evidence is still      *)
(* coming in or a question already waits.                                  *)
(***************************************************************************)
Observe(s) ==
    LET r == claim.head
        speaks == r # 0 /\ claim.read = "live" /\ Reachable(stage[r])
    IN  /\ s \notin heard /\ source[s] = "live"
        /\ heard' = heard \cup {s}
        /\ \/ ~speaks /\ UNCHANGED <<evidence, stage, evals, work>>
           \/ /\ speaks
              /\ evidence' = [evidence EXCEPT ![r] = @ \cup {s}]
              /\ \/ Becomes(Collecting(r))
                 \/ /\ NoneQueued(Now, r)
                    /\ Becomes(Scheduled(Collecting(r), r, Live(evidence'[r]), FALSE))
        /\ UNCHANGED <<source, claim, basis, tasks, paused, parent, credit>>

\* schedule_settled_candidates: evidence that has settled into a new question.
ScheduleSettled(r) ==
    LET k == <<r, Live(evidence[r])>>
        b == Scheduled(Now, r, k[2], FALSE)
    IN  /\ r = claim.head /\ claim.read = "live" /\ claim.fact = "proposed"
        /\ stage[r].state \in {"pending", "waiting"} /\ stage[r].reason # "revoked"
        /\ NoneQueued(Now, r)
        /\ k[2] # {} /\ evals[k].state = "absent"
        /\ Becomes(IF b.evals[k].state = "queued" THEN Moved(b, r, "pending", "other") ELSE b)
        /\ UNCHANGED <<source, heard, claim, basis, evidence, tasks, paused, parent, credit>>

\* archive_dormant, thirty days without evidence.
ArchiveDormant(r) ==
    /\ stage[r].state = "waiting"
    /\ Becomes(Moved(Now, r, "archived", "dormant"))
    /\ UNCHANGED <<source, heard, claim, basis, evidence, tasks, paused, parent, credit>>

-----------------------------------------------------------------------------
(***************************************************************************)
(* What forgetting one object takes with it: a source takes every claim    *)
(* that was ever derived from it, a claim every source it was derived from.*)
(***************************************************************************)
Closures ==
    {[sources |-> {s}, claim |-> \E r \in Revision : s \in basis[r]] : s \in heard}
        \cup {c \in {[sources |-> UNION {basis[r] : r \in Revision}, claim |-> TRUE]} :
                  claim.head # 0}

Reads(c) == {source[s] : s \in c.sources} \cup (IF c.claim THEN {claim.read} ELSE {})

\* Tasks past their mark learn that something happened since they read.
Touch(what) ==
    tasks' = {IF t.step \in {"marked", "asked"} THEN [t EXCEPT !.touched = @ \cup {what}]
              ELSE t : t \in tasks}

Lowered(read, mode) == IF read = "deleted" THEN read ELSE mode

(***************************************************************************)
(* block and apply_blocks: deletion or suppression of a closure fences     *)
(* every revision that is of the claim or holds one of the sources.  The   *)
(* first reason for a block stays.                                         *)
(***************************************************************************)
Withdraw(c, mode) ==
    LET hit == {r \in Revision : /\ stage[r].state # "absent"
                                 /\ c.claim \/ c.sources \cap evidence[r] # {}}
        b   == [Now EXCEPT !.stage = [r \in Revision |->
                   IF r \in hit /\ stage[r].state # "blocked"
                   THEN [state |-> "blocked", reason |-> mode] ELSE stage[r]]]
    IN  /\ \E read \in Reads(c) : Lowered(read, mode) # read
        /\ MayFence
        /\ source' = [s \in Source |->
               IF s \in c.sources THEN Lowered(source[s], mode) ELSE source[s]]
        /\ claim' = IF c.claim THEN [claim EXCEPT !.read = Lowered(@, mode)] ELSE claim
        /\ Becomes(Retired(b, {k \in Key : k[1] \in hit}, "revoked", "revoked"))
        /\ Touch("retracted")
        /\ UNCHANGED <<heard, basis, evidence, paused, parent, credit>>

(***************************************************************************)
(* release and resume_candidates: what was suppressed may be read again,   *)
(* never what was deleted; a head blocked by a suppression is registered   *)
(* again and the question the block retired unasked goes on.               *)
(***************************************************************************)
ReleaseSuppressed(c) ==
    LET r == claim.head
        b == Registered(Now, r, claim.fact)
    IN  /\ "suppressed" \in Reads(c) /\ "deleted" \notin Reads(c)
        /\ MayFence
        /\ source' = [s \in Source |-> IF s \in c.sources THEN "live" ELSE source[s]]
        /\ claim' = IF c.claim THEN [claim EXCEPT !.read = "live"] ELSE claim
        /\ IF /\ claim'.read = "live" /\ r # 0
              /\ stage[r] = [state |-> "blocked", reason |-> "suppressed"]
           THEN LET seeded == IF claim.fact = "proposed"
                              THEN {s \in basis[r] : source'[s] = "live"} ELSE {}
                    E == {s \in evidence[r] \cup seeded : source'[s] = "live"}
                IN  /\ evidence' = [evidence EXCEPT ![r] = @ \cup seeded]
                    /\ Becomes(IF claim.fact = "proposed" THEN Scheduled(b, r, E, TRUE) ELSE b)
           ELSE UNCHANGED <<evidence, stage, evals, work>>
        /\ UNCHANGED <<heard, basis, tasks, paused, parent, credit>>

\* A withdrawal in the same scope that has nothing to do with this claim.
WithdrawElsewhere ==
    /\ \E t \in tasks : t.step \in {"marked", "asked"} /\ "retracted" \notin t.touched
    /\ Touch("retracted")
    /\ UNCHANGED <<world, stage, evals, work, credit>>

\* The operator pauses the entry that owns the sources, and resumes it.
Pause ==
    /\ ~paused /\ paused' = TRUE
    /\ Touch("paused")
    /\ UNCHANGED <<source, heard, claim, basis, evidence, stage, evals, work, parent, credit>>

Resume ==
    /\ paused /\ paused' = FALSE
    /\ UNCHANGED <<source, heard, claim, basis, evidence, stage, evals, work, tasks,
                   parent, credit>>

-----------------------------------------------------------------------------
\* claim_next: a lease under a new token, counted as an attempt.
Leased(row) == [row EXCEPT !.state = "leased", !.token = @ + 1, !.attempt = @ + 1]

Claim(k) ==
    /\ work[k].state = "pending"
    /\ work[k].token < MaxToken /\ Cardinality(tasks) < MaxTasks
    /\ work' = [work EXCEPT ![k] = Leased(@)]
    /\ tasks' = tasks \cup {[key |-> k, token |-> work[k].token + 1,
                             step |-> "claimed", touched |-> {}]}
    /\ UNCHANGED <<world, stage, evals, credit>>

\* release_stale: the question stays queued even when its work is given up.
Expire(k) ==
    /\ work[k].state = "leased"
    /\ work' = [work EXCEPT ![k] =
           IF @.attempt >= MAX_RECOVERABLE_ATTEMPTS
           THEN Unleased(@, "failed", Recorded(@.history, "transient"))
           ELSE Unleased(@, "pending", @.history)]
    /\ UNCHANGED <<world, stage, evals, tasks, credit>>

\* A crash, a deadline, or a reply that found its lease gone.
Abandon(t) ==
    /\ tasks' = tasks \ {t}
    /\ UNCHANGED <<world, stage, evals, work, credit>>

\* Mutant: any lease of the row will do.
HoldsSomeLease(t) == work[t.key].state = "leased"

\* _verify_lease
Holds(t) == work[t.key].state = "leased" /\ work[t.key].token = t.token

Advances(t, step) ==
    /\ tasks' = (tasks \ {t}) \cup {[t EXCEPT !.step = step]}
    /\ UNCHANGED <<world, stage, work>>

\* A reply: the task ends, and the tables become b.
Lands(t, b) == Holds(t) /\ tasks' = tasks \ {t} /\ Becomes(b)

\* evaluation(): the question may be put to the model.
MayJudge(k) ==
    /\ evals[k].state = "queued"
    /\ stage[k[1]].state = "pending"
    /\ claim.read = "live" /\ claim.head = k[1] /\ claim.fact = "proposed"

HasAuthority(k) == MayJudge(k) /\ Live(k[2]) = k[2]

ByRule(k) == RuleDecided(Now, k[1], k[2], {k})

\* The pass, a private interval or a paused entry puts the work off untried.
Defer(t) ==
    /\ t.step = "claimed"
    /\ Lands(t, WithRow(Now, t.key, Unleased(Refunded(work[t.key]), "pending",
                                             Recorded(work[t.key].history, "held"))))
    /\ UNCHANGED <<world, credit>>

FindRevoked(t) ==
    /\ t.step = "claimed" /\ Holds(t)
    /\ ~HasAuthority(t.key)
    /\ Advances(t, "revoked")
    /\ UNCHANGED <<evals, credit>>

Done(k) == WithRow(Now, k, Unleased(work[k], "done", NoHistory))

SettleByRule(t) ==
    LET k == t.key
    IN  /\ t.step = "claimed"
        /\ HasAuthority(k) /\ ~paused /\ ByRule(k)
        /\ Lands(t, Moved(Closed(Done(k), k, "answered"), k[1], "waiting", "other"))
        /\ UNCHANGED <<world, credit>>

\* An attempt marked under an earlier lease is an interruption seen late.
FindInterrupted(t) ==
    /\ t.step = "claimed" /\ Holds(t)
    /\ HasAuthority(t.key) /\ ~paused /\ ~ByRule(t.key)
    /\ evals[t.key].marked
    /\ Advances(t, "interrupted")
    /\ UNCHANGED <<evals, credit>>

\* Mutant: begin_model_attempt does not look whether an attempt has begun.
MayBeginAgain(t) ==
    HasAuthority(t.key) /\ ~paused /\ ~ByRule(t.key)

MayBegin(t) ==
    HasAuthority(t.key) /\ ~paused /\ ~ByRule(t.key) /\ ~evals[t.key].marked

\* begin_model_attempt: the mark is committed before the request is made.
BeginModelAttempt(t) ==
    /\ t.step = "claimed" /\ Holds(t)
    /\ MayBegin(t)
    /\ evals' = [evals EXCEPT ![t.key].marked = TRUE]
    /\ Advances(t, "marked")
    /\ UNCHANGED credit

-----------------------------------------------------------------------------
(***************************************************************************)
(* The request goes out without another look at the lease: an evaluation   *)
(* is bounded by its pass, which may outlast the lease.                    *)
(***************************************************************************)
Ask(t) ==
    /\ t.step = "marked"
    /\ ~paused /\ "paused" \notin t.touched
    /\ Advances(t, "asked")
    /\ credit' = [credit EXCEPT ![t.key] = @ - 1]
    /\ UNCHANGED evals

\* Requests the ledger allows from now on, n more than before.
Allows(k, n) == credit' = [credit EXCEPT ![k] = @ + n]

\* The attempt is handed back and its row keeps the history h.
HandedBack(t, row) == AttemptReleased(WithRow(Now, t.key, row), t.key)

FailedFor(t, h) ==
    Moved(Closed(WithRow(Now, t.key, Unleased(work[t.key], "failed", h)), t.key, "failed"),
          t.key[1], "waiting", "other")

(***************************************************************************)
(* defer_entry: a pause since the mark hands the attempt back, before the  *)
(* request or after the model has answered it.                             *)
(***************************************************************************)
DeferEntry(t) ==
    /\ t.step \in {"marked", "asked"}
    /\ paused \/ "paused" \in t.touched
    /\ Lands(t, HandedBack(t, Unleased(Refunded(work[t.key]), "pending",
                                       Recorded(work[t.key].history, "held"))))
    /\ IF t.step = "asked" THEN Allows(t.key, 1) ELSE UNCHANGED credit
    /\ UNCHANGED world

\* defer_budget: no allowance, a private interval, or the account was refused.
DeferBudget(t) ==
    /\ t.step \in {"marked", "asked"}
    /\ Lands(t, Moved(HandedBack(t, Unleased(Refunded(work[t.key]), "pending",
                                             Recorded(work[t.key].history, "held"))),
                      t.key[1], "pending", "other"))
    /\ IF t.step = "asked" THEN Allows(t.key, 1) ELSE UNCHANGED credit
    /\ UNCHANGED world

(***************************************************************************)
(* fail after a request: a refusal for want of capacity gives the attempt  *)
(* back, a plain rejection spends it, an unusable answer is asked for once *)
(* more, and each hands the question back; anything else keeps its mark.   *)
(***************************************************************************)
Retry(t, row) ==
    /\ t.step = "asked"
    /\ Lands(t, Moved(HandedBack(t, row), t.key[1], "pending", "other"))
    /\ Allows(t.key, 1)
    /\ UNCHANGED world

CapacityRefused(t) ==
    LET row == work[t.key]
    IN  /\ row.history.caps < MaxCaps
        /\ Retry(t, Unleased(Refunded(row), "pending", CapacityRefusal(row.history)))

Rejected(t) ==
    LET row == work[t.key]
    IN  /\ row.attempt < MAX_RECOVERABLE_ATTEMPTS
        /\ Retry(t, Unleased(row, "pending", Recorded(row.history, "transient")))

InvalidAnswer(t) ==
    LET row == work[t.key]
    IN  /\ "derivation_retry" \notin row.history.marks
        /\ Retry(t, Unleased(row, "pending",
                             Recorded(WithMark(row.history, "derivation_retry"), "invalid")))

Fails(t, kind) ==
    /\ Lands(t, FailedFor(t, Recorded(work[t.key].history, kind)))
    /\ UNCHANGED <<world, credit>>

\* Nobody knows what became of the earlier request.
CloseInterrupted(t) == t.step = "interrupted" /\ Fails(t, "interrupted")

FailForGood(t) ==
    \/ t.step \in {"marked", "asked"} /\ Fails(t, "unknown")
    \/ t.step = "asked" /\ work[t.key].attempt >= MAX_RECOVERABLE_ATTEMPTS /\ Fails(t, "transient")
    \/ t.step = "asked" /\ "derivation_retry" \in work[t.key].history.marks /\ Fails(t, "invalid")

\* obsolete: the question is closed without an answer.
Obsoleted(t, state, reason) ==
    LET k == t.key
    IN  /\ Lands(t, Moved(Closed(WithRow(Now, k, Unleased(work[k], "obsolete", Bare("revoked"))),
                                 k, state),
                          k[1], "waiting", reason))
        /\ UNCHANGED <<world, credit>>

Answered(t) == t.step = "asked" /\ ~paused /\ "paused" \notin t.touched

CloseRevoked(t) ==
    /\ (t.step = "revoked" \/ (Answered(t) /\ ~MayJudge(t.key)))
    /\ Obsoleted(t, "revoked", "revoked")

CloseChanged(t) ==
    /\ Answered(t) /\ MayJudge(t.key)
    /\ "retracted" \in t.touched
    /\ Obsoleted(t, "obsolete", "other")

Judged(t) == Answered(t) /\ HasAuthority(t.key) /\ "retracted" \notin t.touched

Insufficient(t) ==
    /\ Judged(t)
    /\ Lands(t, Moved(Closed(Done(t.key), t.key, "answered"), t.key[1], "waiting", "other"))
    /\ UNCHANGED <<world, credit>>

(***************************************************************************)
(* A verdict that writes a revision: the question is answered, the new     *)
(* revision registered without a question of its own, and the answer and   *)
(* the evidence collected so far are inherited (ON CONFLICT DO NOTHING).   *)
(***************************************************************************)
Inherited(b, k) ==
    IF b.evals[k].state = "absent"
    THEN [b EXCEPT !.evals[k] = [state |-> "answered", marked |-> TRUE]] ELSE b

Applied(t, fact) ==
    LET k == t.key
        r == claim.head + 1
        answered == Moved(Closed(Done(k), k, "answered"), k[1],
                          IF fact = "active" THEN "resolved" ELSE "waiting", "other")
    IN  /\ Judged(t)
        /\ claim.head < MaxRevision
        /\ MayFence
        /\ Lands(t, Inherited(RegisteredUnscheduled(answered, r, fact, k[2]), <<r, k[2]>>))
        /\ claim' = [claim EXCEPT !.head = r, !.fact = fact]
        /\ basis' = [basis EXCEPT ![r] = k[2]]
        /\ evidence' = [evidence EXCEPT ![r] = evidence[k[1]]]
        /\ parent' = [parent EXCEPT ![r] = k[2]]
        /\ UNCHANGED <<source, heard, paused, credit>>

-----------------------------------------------------------------------------
\* reopen_evaluation: a failed question is put back to be asked once more.
Reopened(b, k, row) ==
    Moved([b EXCEPT !.evals[k] = [state |-> "queued", marked |-> FALSE], !.work[k] = row],
          k[1], "pending", "other")

\* recover_interrupted_attempts: one fresh attempt for one nobody finished.
RecoverInterrupted(k) ==
    LET row == work[k]
    IN  /\ row.state = "failed" /\ row.history.kind = "interrupted"
        /\ "interrupted_retry" \notin row.history.marks
        /\ row.attempt < MAX_RECOVERABLE_ATTEMPTS
        /\ evals[k].state = "failed"
        /\ Becomes(Reopened(Now, k, Unleased(row, "pending",
                                             WithMark(row.history, "interrupted_retry"))))
        /\ Allows(k, 1)
        /\ UNCHANGED <<world, tasks>>

(***************************************************************************)
(* retry_failed: the operator's re-look, once per release.  A question     *)
(* still queued behind work that was given up is closed first; with the    *)
(* release's grant spent, that is all that happens.                        *)
(***************************************************************************)
Reconciled(b, k) ==
    IF b.evals[k].state = "queued" THEN Moved(Closed(b, k, "failed"), k[1], "waiting", "other")
    ELSE b

RetryFailed(k, release) ==
    LET row == work[k]
    IN  /\ row.state = "failed" /\ ~AlreadyRetried(row.history, release)
        /\ evals[k].state \in {"failed", "queued"}
        /\ Becomes(Reopened(Reconciled(Now, k), k,
                            [Unleased(row, "pending", Marked(row.history, release))
                                EXCEPT !.attempt = 0]))
        /\ Allows(k, 1)
        /\ UNCHANGED <<world, tasks>>

Reconcile(k, release) ==
    /\ work[k].state = "failed" /\ AlreadyRetried(work[k].history, release)
    /\ evals[k].state = "queued"
    /\ Becomes(Reconciled(Now, k))
    /\ UNCHANGED <<world, tasks, credit>>

-----------------------------------------------------------------------------
Intake ==
    \/ \E E \in Question, fact \in {"proposed", "active", "retracted"} : Revise(E, fact)
    \/ \E s \in Source : Observe(s)
    \/ \E r \in Revision : ScheduleSettled(r) \/ ArchiveDormant(r)

Person ==
    \/ \E c \in Closures : ReleaseSuppressed(c) \/ \E mode \in Acts \ {"paused"} : Withdraw(c, mode)
    \/ Acts \ {"paused"} # {} /\ WithdrawElsewhere
    \/ "paused" \in Acts /\ Pause
    \/ Resume

Queue ==
    \/ \E k \in Key : Claim(k) \/ Expire(k) \/ RecoverInterrupted(k)
    \/ \E k \in Key, release \in Release : RetryFailed(k, release) \/ Reconcile(k, release)

Work(t) ==
    \/ Abandon(t) \/ Defer(t) \/ FindRevoked(t) \/ SettleByRule(t) \/ FindInterrupted(t)
    \/ BeginModelAttempt(t) \/ Ask(t)
    \/ DeferEntry(t) \/ DeferBudget(t) \/ CapacityRefused(t) \/ Rejected(t)
    \/ InvalidAnswer(t) \/ CloseInterrupted(t) \/ FailForGood(t)
    \/ CloseRevoked(t) \/ CloseChanged(t) \/ Insufficient(t)
    \/ \E fact \in {"proposed", "active"} : Applied(t, fact)

Next == Intake \/ Person \/ Queue \/ \E t \in tasks : Work(t)

Spec == Init /\ [][Next]_vars

-----------------------------------------------------------------------------
(***************************************************************************)
(* How often a question may be asked, by every worker together, those      *)
(* whose lease ran out included: once, and once more for each refusal the  *)
(* provider answered with, for one unusable answer, for each explicit      *)
(* grant, and for each answer that was thrown away because its entry was   *)
(* paused meanwhile.  The last the code allows against its docs: see       *)
(* OnlyRejectionClearsFence.                                               *)
(***************************************************************************)
RequestsWithinGrants == \A k \in Key : credit[k] >= 0

(***************************************************************************)
(* docs/background-work.md: "only explicit provider rejections clear the   *)
(* attempted-request fence", to which the same page adds the repair of an  *)
(* unusable answer.  It does not hold: defer_entry clears the fence of a   *)
(* question whose answer has come in when its entry was paused meanwhile,  *)
(* and the same question is asked, and paid for, again.                    *)
(***************************************************************************)
OnlyRejectionClearsFence ==
    [][\A t \in tasks \ tasks' :
          t.step = "asked" /\ evals[t.key].marked /\ ~evals'[t.key].marked =>
              DeferBudget(t) \/ CapacityRefused(t) \/ Rejected(t) \/ InvalidAnswer(t)]_vars

(***************************************************************************)
(* The three tables stay in step through crashes, blocks and repairs: a    *)
(* queued question has work that is not finished, unfinished work has a    *)
(* queued question unless that was superseded while somebody held it, done *)
(* work has an answer, and a failed question has failed work to reopen.    *)
(***************************************************************************)
InStep ==
    \A k \in Key :
        /\ work[k].state \in {"pending", "leased"} => evals[k].state \in {"queued", "obsolete"}
        /\ work[k].state = "done" => evals[k].state = "answered"
        /\ work[k].state = "failed" => evals[k].state \notin {"absent", "answered"}
        /\ evals[k].state = "queued" => work[k].state \in {"pending", "leased", "failed"}
        /\ evals[k].state = "failed" => work[k].state = "failed"

(***************************************************************************)
(* docs/background-work.md: "A verdict-produced revision inherits its      *)
(* answered evidence fingerprint [...].  A version change alone cannot ask *)
(* that question again."                                                   *)
(***************************************************************************)
InheritedAnswered ==
    \A r \in Revision : parent[r] # {} => evals[<<r, parent[r]>>].state = "answered"

(***************************************************************************)
(* A candidate that is pending is waiting for something: a question is     *)
(* queued, or its evidence poses one that was never asked.  Otherwise it   *)
(* "has nothing to schedule it and would stay pending, which every agent   *)
(* reads as a backlog" (candidate_sweeps.stale_pending).                   *)
(***************************************************************************)
PosesAQuestion(r) ==
    LET E == Live(evidence[r])
    IN  ~NoneQueued(Now, r) \/ (E # {} /\ evals[<<r, E>>].state = "absent")

PendingPosesAQuestion ==
    \A r \in Revision : stage[r].state = "pending" => PosesAQuestion(r)

(***************************************************************************)
(* The same where new evidence made it pending: settle_stale_pending, the  *)
(* sweep over exactly these rows, has nothing left to do for evidence that *)
(* is a person's own words.                                                *)
(***************************************************************************)
NewEvidencePosesAQuestion ==
    \A r \in Revision :
        stage[r] = [state |-> "pending", reason |-> "new_evidence"] => PosesAQuestion(r)

(***************************************************************************)
(* A question no model was asked is closed as revoked only when something  *)
(* was revoked: a source or the claim withdrawn, or another head.          *)
(***************************************************************************)
WasRevoked(k) ==
    \/ claim.read # "live" \/ claim.head # k[1] \/ claim.fact # "proposed"
    \/ Live(k[2]) # k[2]
    \/ stage[k[1]].state = "blocked"

UnaskedClosedOnlyByFence ==
    [][\A k \in Key :
         /\ evals[k] = [state |-> "queued", marked |-> FALSE]
         /\ evals'[k].state = "revoked"
         => WasRevoked(k)']_vars

(***************************************************************************)
(* The work of the evaluations is work like any other: it implements the   *)
(* lifecycle every work item is promised, although intake, blocks and      *)
(* verdicts write its rows too.                                            *)
(***************************************************************************)
Lifecycle == INSTANCE WorkLifecycle WITH
    Item       <- Key,
    phase      <- [k \in Key |-> work[k].state],
    generation <- [k \in Key |-> work[k].token],
    grants     <- {<<t.key, t.token>> : t \in tasks},
    earlier    <- [k \in Key |-> {}],
    Shared     <- {}

LifecycleSpec == Lifecycle!Spec
=============================================================================
