---------------------------- MODULE CaptureInbox ----------------------------
(* A message on its way from a host's hook to the store                       *)
(* (core/capture_inbox.py, core/inbox_rules.py, core/capture.py and           *)
(* core/source_storage.py): the hook's first transaction puts it in the       *)
(* capture inbox, a second one stores it and clears its row.  What stands     *)
(* between the two is a crash, a busy store, another message that took its    *)
(* key, a delete, a private interval, a paused entry, and the worker's        *)
(* replays, which take up whatever was left.                                  *)
(*                                                                            *)
(* Every capture here comes under one host key, in one scope, and is one      *)
(* part of one role.  Texts that differ in spacing or punctuation only are    *)
(* one element of Words.                                                      *)
EXTENDS Naturals, FiniteSets, Sequences

CONSTANTS
    Session, Words,
    Capture,         \* what hosts may send
    Quotes,          \* <<x, w>>: x is another text that holds all the words of w
    Hook,            \* hooks that enqueue a capture and commit it at once
    Worker,          \* the process whose passes replay the inbox
    DEFER_ATTEMPTS,
    MaxRevision,     \* bound: versions of a message
    MaxNow,          \* bound: moments
    MaxActs,         \* bound: what hosts send, and what the owner deletes, bars and pauses
    MaxFaults        \* bound: crashes, busy stores and passed deadlines

Revision == 1 .. MaxRevision
Moment == 1 .. MaxNow
Captures == [session : Session, revision : Revision, words : Words, moment : Moment]

ASSUME InboxAssumption ==
    /\ Capture \subseteq Captures
    /\ Quotes \subseteq Words \X Words
    /\ Worker \notin Hook
    /\ {DEFER_ATTEMPTS, MaxRevision, MaxActs, MaxFaults} \subseteq Nat
    /\ MaxNow \in Nat \ {0}

VARIABLES
    stored,          \* source_events
    inbox,           \* capture_inbox: the row of each token
    job,             \* what each process has read and has still to do
    page,            \* the rows the worker's pass has still to replay, as it read them
    now,
    private,         \* private_intervals
    entry,           \* entry_control_history: every state the entry was changed to
    acts,            \* how much of that there has been
    faults,
    forgotten        \* ghost: captures that waited when words they hold were deleted

vars == <<stored, inbox, job, page, now, private, entry, acts, faults, forgotten>>
world == <<now, private, entry, acts>>

(* The host's key, or the key derived from a capture's own content.           *)
HostKey == [rekeyed |-> FALSE]
Rekeyed(words, moment) == [rekeyed |-> TRUE, words |-> words, moment |-> moment]
Keys == {HostKey} \cup [rekeyed : {TRUE}, words : Words, moment : Moment]

Sources == [key : Keys, revision : Revision, session : Session, words : Words,
            moment : Moment, blocked : BOOLEAN, purged : BOOLEAN]

(* last_error_code: `ready` is a row never tried, `conflict` VERSION_CONFLICT, *)
(* `stopped` VERSION_CONFLICT:rekeyed, `denied` ACCESS_DENIED, which an       *)
(* operator may lift, as a GAVE_UP; `rekey` is the path a row was put off by. *)
Plain(kind) == [kind |-> kind, tries |-> 0, rekey |-> FALSE, due |-> FALSE]
Codes == [kind : {"ready", "conflict", "stopped", "denied", "deferred", "given_up"},
          tries : 0 .. DEFER_ATTEMPTS + 1, rekey : BOOLEAN, due : BOOLEAN]

Tokens == [session : Session, revision : Revision, words : Words]
TokenOf(c) == [session |-> c.session, revision |-> c.revision, words |-> c.words]

NoRow == [kind |-> "none"]
Rows == [moment : Moment, entered : Nat, code : Codes]
Waiting == {t \in Tokens : inbox[t] # NoRow}

(* A job: a prepared capture, with the path of `_commit` it is on.  `moment`  *)
(* is when it was said, `dated` what the event carries; `rules` is the        *)
(* revision its private check was made at, Unchecked when it must be made     *)
(* again; `recheck` is a collision compared before it takes a new key.        *)
Unchecked == MaxActs + 1
Jobs == [step : {"check", "commit", "compare", "again", "refused", "write", "remove"},
         token : Tokens, moment : Moment, dated : Moment, key : Keys,
         path : {"original", "recheck", "rekeyed"},
         entered : Nat, rules : 0 .. Unchecked, code : Codes]
Idle == [step |-> "idle"]
NoPage == [step |-> "none"]
Pages == [step : {"replay", "resolve"},
          rows : SUBSET [token : Tokens, row : Rows]]

Init ==
    /\ stored = {}
    /\ inbox = [t \in Tokens |-> NoRow]
    /\ job = [p \in Hook \cup {Worker} |-> Idle]
    /\ page = NoPage
    /\ now = 1 /\ private = <<>> /\ entry = <<>>
    /\ acts = 0 /\ faults = 0 /\ forgotten = {}

-----------------------------------------------------------------------------
(* core/private.py: is a moment inside an interval; rule_revision.            *)
Covered(m) == \E i \in DOMAIN private : private[i].from <= m /\ m < private[i].until
RuleRevision == Len(private)

(* core/entry_control.py, capture_refusal: the entry's state now, and every   *)
(* one it has had since the capture was put in the inbox.                     *)
Refuses(entered) ==
    \/ entry # <<>> /\ entry[Len(entry)] # "normal"
    \/ \E i \in entered + 1 .. Len(entry) : entry[i] # "normal"

(* `holds`: does a text hold what is left of a stored message's words.        *)
Holds(words, r) == words = r.words \/ (~r.purged /\ <<words, r.words>> \in Quotes)

Under(key) == {r \in stored : r.key = key}

(* `refuse_under_a_deleted_key`, then `put_source` (core/source_storage.py).  *)
VerdictOfAnySession(j) ==
    LET group == Under(j.key)
        deleted == {r \in group : r.blocked}
        same == {r \in group : r.revision = j.token.revision}
    IN  IF deleted # {}
        THEN IF \/ \A r \in deleted : r.revision # j.token.revision
                \/ \E r \in deleted : Holds(j.token.words, r)
             THEN "deleted" ELSE "conflict"
        ELSE IF same = {} THEN "inserted"
        ELSE IF \E r \in same : r.words = j.token.words /\ r.moment = j.dated
        THEN "duplicate" ELSE "conflict"

Verdict(j) ==
    LET group == Under(j.key)
        deleted == {r \in group : r.blocked}
        same == {r \in group : r.revision = j.token.revision}
    IN  IF deleted # {}
        THEN IF \/ \A r \in deleted : r.revision # j.token.revision
                \/ \E r \in deleted : Holds(j.token.words, r)
             THEN "deleted" ELSE "conflict"
        ELSE IF \E r \in group : r.session # j.token.session THEN "conflict"
        ELSE IF same = {} THEN "inserted"
        ELSE IF \E r \in same : r.words = j.token.words /\ r.moment = j.dated
        THEN "duplicate" ELSE "conflict"

Stored(j) ==
    stored \cup {[key |-> j.key, revision |-> j.token.revision, session |-> j.token.session,
                  words |-> j.token.words, moment |-> j.dated,
                  blocked |-> FALSE, purged |-> FALSE]}

(* `capture_blocked`: has no interval been opened since the check was made.   *)
CheckedOnce(j) == j.rules # Unchecked

CheckedSince(j) == j.rules = RuleRevision

(* What the transaction of `record_event` does with a capture of the inbox.   *)
Outcome(j) ==
    IF inbox[j.token] = NoRow THEN "cancelled"
    ELSE IF Refuses(j.entered) \/ (~CheckedSince(j) /\ Covered(j.dated)) THEN "withheld"
    ELSE Verdict(j)

-----------------------------------------------------------------------------
Act == acts < MaxActs /\ acts' = acts + 1

(* `enqueue`: a hook puts a capture in the inbox, or meets its own row.       *)
PriorRow(c, row) ==
    [moment |-> row.moment, entered |-> row.entered, rules |-> Unchecked]

NewRow(c) ==
    [moment |-> c.moment, entered |-> Len(entry), rules |-> RuleRevision]

Enqueue(h, c) ==
    LET t == TokenOf(c)
        kept == IF t \in Waiting THEN PriorRow(c, inbox[t]) ELSE NewRow(c)
    IN  /\ Act
        /\ job[h] = Idle
        /\ c.moment <= now /\ ~Covered(c.moment) /\ ~Refuses(Len(entry))
        /\ inbox' = [inbox EXCEPT ![t] = IF t \in Waiting THEN @
                         ELSE [moment |-> c.moment, entered |-> Len(entry), code |-> Plain("ready")]]
        /\ forgotten' = IF t \in Waiting THEN forgotten ELSE forgotten \ {t}
        /\ job' = [job EXCEPT ![h] =
                     [step |-> "commit", token |-> t, moment |-> kept.moment,
                      dated |-> kept.moment, key |-> HostKey,
                      path |-> "original", entered |-> kept.entered, rules |-> kept.rules,
                      code |-> Plain("ready")]]
        /\ UNCHANGED <<stored, page, now, private, entry, faults>>

(* One transaction of `record_event`, and where `_commit` goes from it: a     *)
(* conflict is compared with what the key holds, unless it just was.          *)
Record(p) ==
    LET j == job[p]
        out == Outcome(j)
    IN  /\ j.step \in {"commit", "again"}
        /\ stored' = IF out = "inserted" THEN Stored(j) ELSE stored
        /\ inbox' = IF out \in {"withheld", "inserted", "duplicate"}
                    THEN [inbox EXCEPT ![j.token] = NoRow] ELSE inbox
        /\ job' = [job EXCEPT ![p] =
             CASE out = "cancelled" -> [j EXCEPT !.step = "write", !.code = Plain("denied")]
               [] out = "deleted" -> [j EXCEPT !.step = "remove"]
               [] out = "conflict" -> [j EXCEPT !.step = IF @ = "again" THEN "refused" ELSE "compare"]
               [] OTHER -> Idle]
        /\ UNCHANGED <<page, world, faults, forgotten>>

(* A capture its key does not hold: the collision takes a key of its own, or  *)
(* the row is left with what it met, for good when the key was its own.       *)
Unmatched(j) ==
    CASE j.path = "recheck" -> [j EXCEPT !.step = "check", !.path = "rekeyed", !.dated = j.moment,
                                         !.key = Rekeyed(j.token.words, j.moment)]
      [] j.path = "original" -> [j EXCEPT !.step = "write", !.code = Plain("conflict")]
      [] j.path = "rekeyed" -> [j EXCEPT !.step = "write", !.code = Plain("stopped")]

(* `_as_stored`: the message the key holds, dated anew.                       *)
MatchingNone(j) == {}

Matching(j) == {r \in Under(j.key) : /\ ~r.blocked /\ r.revision = j.token.revision
                                     /\ r.words = j.token.words}

Compare(p) ==
    LET j == job[p]
    IN  /\ j.step = "compare"
        /\ \/ /\ Matching(j) = {}
              /\ job' = [job EXCEPT ![p] = Unmatched(j)]
           \/ \E r \in Matching(j) :
                 job' = [job EXCEPT ![p] = [j EXCEPT !.step = "again", !.dated = r.moment,
                                                     !.rules = Unchecked]]
        /\ UNCHANGED <<stored, inbox, page, world, faults, forgotten>>

SetCode(t, code) == [inbox EXCEPT ![t] = IF @ = NoRow THEN @ ELSE [@ EXCEPT !.code = code]]

(* The last transaction of a refused capture, and what `_as_stored` leaves    *)
(* of a conflict it met under the moment it took: written, or met a busy      *)
(* store and left to the next pass.                                           *)
Settle(p) ==
    LET j == job[p]
    IN  /\ \/ /\ j.step = "write"
              /\ inbox' = SetCode(j.token, j.code)
              /\ job' = [job EXCEPT ![p] = Idle]
           \/ /\ j.step = "remove"
              /\ inbox' = [inbox EXCEPT ![j.token] = NoRow]
              /\ job' = [job EXCEPT ![p] = Idle]
           \/ /\ j.step = "refused"
              /\ inbox' = SetCode(j.token, Plain("conflict"))
              /\ job' = [job EXCEPT ![p] = Unmatched(j)]
        /\ UNCHANGED <<stored, page, world, faults, forgotten>>

(* A crash, a busy store or no time left: the process has done nothing more.  *)
(* The worker goes on with its page, leaves the rest of it, or is gone.       *)
Interrupted(p) ==
    /\ faults < MaxFaults
    /\ faults' = faults + 1
    /\ job[p] # Idle
    /\ job' = [job EXCEPT ![p] = Idle]
    /\ page' \in IF p = Worker THEN {page, [page EXCEPT !.rows = {}], NoPage} ELSE {page}
    /\ UNCHANGED <<stored, inbox, world, forgotten>>

-----------------------------------------------------------------------------
(* A worker's pass: `replay_inbox`, then `resolve_conflicted_ingress`, each a *)
(* page of rows as they were when the page was read.                          *)
Replayable(code) ==
    \/ code.kind = "ready"
    \/ code.kind = "deferred" /\ code.due /\ ~code.rekey
Resolvable(code) ==
    \/ code.kind = "conflict"
    \/ code.kind = "deferred" /\ code.due /\ code.rekey
Taken(P(_)) == {[token |-> t, row |-> inbox[t]] : t \in {u \in Waiting : P(inbox[u].code)}}

ReadPage ==
    /\ job[Worker] = Idle
    /\ \/ /\ page = NoPage
          /\ \E t \in Waiting : Replayable(inbox[t].code) \/ Resolvable(inbox[t].code)
          /\ page' = [step |-> "replay", rows |-> Taken(Replayable)]
       \/ /\ page # NoPage /\ page.rows = {}
          /\ page' = IF page.step = "replay"
                     THEN [step |-> "resolve", rows |-> Taken(Resolvable)] ELSE NoPage
    /\ UNCHANGED <<stored, inbox, job, world, faults, forgotten>>

TakeRow ==
    /\ job[Worker] = Idle /\ page # NoPage
    /\ \E item \in page.rows :
          /\ page' = [page EXCEPT !.rows = @ \ {item}]
          /\ job' = [job EXCEPT ![Worker] =
                       [step |-> "check", token |-> item.token, moment |-> item.row.moment,
                        dated |-> item.row.moment, key |-> HostKey,
                        path |-> IF page.step = "replay" THEN "original" ELSE "recheck",
                        entered |-> item.row.entered, rules |-> Unchecked,
                        code |-> item.row.code]]
    /\ UNCHANGED <<stored, inbox, world, faults, forgotten>>

(* `deferral`: put off with one try more, or given up.                        *)
DeferralAnew(j) ==
    [kind |-> IF 1 > DEFER_ATTEMPTS THEN "given_up" ELSE "deferred",
     tries |-> 1, rekey |-> j.path # "original", due |-> FALSE]

Deferral(j) ==
    LET tries == j.code.tries + 1
    IN  [kind |-> IF tries > DEFER_ATTEMPTS THEN "given_up" ELSE "deferred",
         tries |-> tries, rekey |-> j.path # "original", due |-> FALSE]

(* `_revalidated`: the host's grant and the envelope, checked again.          *)
Revalidate ==
    LET j == job[Worker]
    IN  /\ j.step = "check"
        /\ \/ /\ job' = [job EXCEPT ![Worker].step = IF j.path = "recheck" THEN "compare" ELSE "commit"]
              /\ inbox' = inbox
           \/ /\ inbox' = [inbox EXCEPT ![j.token] = NoRow]
              /\ job' = [job EXCEPT ![Worker] = Idle]
           \/ /\ inbox' = SetCode(j.token, Deferral(j))
              /\ job' = [job EXCEPT ![Worker] = Idle]
        /\ UNCHANGED <<stored, page, world, faults, forgotten>>

(* The time of a row put off has come.                                        *)
Due(t) ==
    /\ t \in Waiting /\ inbox[t].code.kind = "deferred" /\ ~inbox[t].code.due
    /\ inbox' = [inbox EXCEPT ![t].code.due = TRUE]
    /\ UNCHANGED <<stored, job, page, world, faults, forgotten>>

-----------------------------------------------------------------------------
(* `retry-failures --apply` (core/work_storage.py).                           *)
RetryFailures ==
    /\ \E t \in Waiting : inbox[t].code.kind \in {"given_up", "denied"}
    /\ inbox' = [t \in Tokens |->
          IF t \in Waiting /\ inbox[t].code.kind \in {"given_up", "denied"}
          THEN [inbox[t] EXCEPT !.code = Plain(IF @.rekey THEN "conflict" ELSE "ready")]
          ELSE inbox[t]]
    /\ UNCHANGED <<stored, job, page, world, faults, forgotten>>

(* `apply_blocks` for a delete: the message with all its versions, and the    *)
(* waiting captures that hold it.  A row that takes a new key is not of the   *)
(* group whose key it met.                                                    *)
TakingANewKey(code) == code.kind = "conflict" \/ code.rekey
CancelledByGroup(key, t) ==
    ~TakingANewKey(inbox[t].code) /\ \E r \in Under(key) :
        Holds(t.words, r) \/ (key = HostKey /\ r.revision # t.revision)

Cancelled(key, t) ==
    \/ \E r \in Under(key) : Holds(t.words, r)
    \/ /\ key = HostKey /\ ~TakingANewKey(inbox[t].code)
       /\ \A r \in Under(key) : r.revision # t.revision

Delete(key) ==
    /\ Act
    /\ \E r \in Under(key) : ~r.blocked
    /\ stored' = (stored \ Under(key)) \cup {[r EXCEPT !.blocked = TRUE] : r \in Under(key)}
    /\ inbox' = [t \in Tokens |-> IF t \in Waiting /\ Cancelled(key, t) THEN NoRow ELSE inbox[t]]
    /\ forgotten' = forgotten \cup {t \in Waiting : \E r \in Under(key) : Holds(t.words, r)}
    /\ UNCHANGED <<job, page, now, private, entry, faults>>

(* `purge_sqlite`: the words go, their digest and forms stay.                 *)
Purge(key) ==
    /\ Act
    /\ \E r \in Under(key) : r.blocked /\ ~r.purged
    /\ stored' = (stored \ Under(key)) \cup {[r EXCEPT !.purged = TRUE] : r \in Under(key)}
    /\ UNCHANGED <<inbox, job, page, now, private, entry, faults, forgotten>>

(* `open_interval` reads the clock before it has the store; `close_interval`. *)
Forever == MaxNow + 1
SetPrivate ==
    /\ Act
    /\ \/ /\ \A i \in DOMAIN private : private[i].until # Forever
          /\ \E from \in {now, now - 1} \cap Moment :
                private' = Append(private, [from |-> from, until |-> Forever])
       \/ /\ Covered(now)
          /\ private' = [i \in DOMAIN private |->
                IF private[i].until > now THEN [private[i] EXCEPT !.until = now] ELSE private[i]]
    /\ UNCHANGED <<stored, inbox, job, page, now, entry, faults, forgotten>>

SetEntry ==
    /\ Act
    /\ entry' = Append(entry, IF entry # <<>> /\ entry[Len(entry)] = "paused"
                              THEN "normal" ELSE "paused")
    /\ UNCHANGED <<stored, inbox, job, page, now, private, faults, forgotten>>

Tick ==
    /\ now < MaxNow
    /\ now' = now + 1
    /\ UNCHANGED <<stored, inbox, job, page, private, entry, acts, faults, forgotten>>

-----------------------------------------------------------------------------
Step(p) == Record(p) \/ Compare(p) \/ Settle(p)

Next ==
    \/ \E h \in Hook, c \in Capture : Enqueue(h, c)
    \/ \E p \in Hook \cup {Worker} : Step(p) \/ Interrupted(p)
    \/ ReadPage \/ TakeRow \/ Revalidate \/ RetryFailures
    \/ \E t \in Tokens : Due(t)
    \/ \E key \in Keys : Delete(key) \/ Purge(key)
    \/ SetPrivate \/ SetEntry \/ Tick

Spec == Init /\ [][Next]_vars

(* The worker keeps making passes while a row may be taken; no process stops  *)
(* within a capture for ever; the time of a row put off comes.                *)
Fairness ==
    /\ \A p \in Hook \cup {Worker} : WF_vars(Step(p))
    /\ WF_vars(ReadPage) /\ WF_vars(TakeRow) /\ WF_vars(Revalidate)
    /\ \A t \in {TokenOf(c) : c \in Capture} : WF_vars(Due(t))

FairSpec == Spec /\ Fairness

-----------------------------------------------------------------------------
(* Every variable has its type.                                               *)
TypeOK ==
    /\ stored \subseteq Sources
    /\ inbox \in [Tokens -> Rows \cup {NoRow}]
    /\ job \in [Hook \cup {Worker} -> Jobs \cup {Idle}]
    /\ page \in Pages \cup {NoPage}
    /\ now \in Moment /\ acts \in 0 .. MaxActs
    /\ private \in Seq([from : Moment, until : Moment \cup {Forever}])
    /\ entry \in Seq({"normal", "paused"})
    /\ faults \in 0 .. MaxFaults /\ forgotten \subseteq Tokens

StoredAs(t) == \E r \in stored : TokenOf(r) = t
HeldByADeleted(t) ==
    \E r \in stored : /\ r.blocked
                      /\ \/ t.words = r.words \/ <<t.words, r.words>> \in Quotes
                         \/ r.key = HostKey /\ r.revision # t.revision

(* A capture a hook was told is in the inbox leaves it only once it is        *)
(* stored, as its own session's message, or because someone forbade it: a     *)
(* private interval over its moment, an entry paused since it was sent, a     *)
(* scope the host withdrew, a delete of what it says or of its message.  Two  *)
(* sessions under one key, a retried hook, a replay and a crash between them  *)
(* drop nothing (core/capture_inbox.py, core/source_storage.py).  The moment  *)
(* and the sending are those its commit was begun with: a replay that still   *)
(* holds an earlier row of the same words judges the row sent since by it.    *)
LeavesForCause ==
    [][\A t \in Waiting : inbox'[t] = NoRow =>
          \/ StoredAs(t)' \/ HeldByADeleted(t)'
          \/ \E p \in DOMAIN job :
                /\ job[p] # Idle /\ job[p].token = t
                /\ \/ p = Worker /\ job[p].step = "check"
                   \/ Refuses(job[p].entered) \/ Covered(job[p].dated)]_vars

(* A message that is stored under its host's key is not stored once more      *)
(* under a key of its own when the host sends it again with another moment,   *)
(* whatever the hook and the worker do to its row meanwhile (`_as_stored`).   *)
KeyHolderStoredOnce ==
    \A r, s \in stored : (~r.blocked /\ r.key = HostKey /\ s.key # HostKey) => TokenOf(r) # TokenOf(s)

(* A capture that waited when a message was deleted whose words it holds is   *)
(* not stored afterwards, wherever its commit or its replay stood; only the   *)
(* host saying it again can bring it back (core/delete_storage.py,            *)
(* apply_blocks, and the row `record_event` reads in its transaction).        *)
NotStoredOnceForgotten ==
    [][\A r \in stored' : TokenOf(r) \in forgotten => TokenOf(r) \in {TokenOf(s) : s \in stored}]_vars

(* No message is stored that was said inside a private interval opened by     *)
(* then, or whose entry was paused at any time since it was put in the inbox: *)
(* not by a commit that had checked the rules before, a retry that met the    *)
(* row of an earlier moment, or a replay (core/private.py, capture_blocked;   *)
(* core/entry_control.py, capture_refusal).                                   *)
WithheldNeverStored ==
    [][\A r \in stored' : TokenOf(r) \notin {TokenOf(s) : s \in stored} =>
          /\ ~Covered(r.moment)
          /\ inbox[TokenOf(r)] # NoRow /\ ~Refuses(inbox[TokenOf(r)].entered)]_vars

(* Every capture a pass may still take leaves the inbox or comes to a state   *)
(* an operator is shown: a collision does not meet its key for ever           *)
(* (`_REKEYED_CONFLICT`), and a row put off is given up in the end.           *)
Passing == {"ready", "conflict", "deferred"}
InboxSettles ==
    \A t \in {TokenOf(c) : c \in Capture} :
        (t \in Waiting /\ inbox[t].code.kind \in Passing)
            ~> (t \notin Waiting \/ inbox[t].code.kind \notin Passing)

=============================================================================
