-------------------------- MODULE SessionDelivery --------------------------
(* What one host session is told: the briefing and the recalled facts a       *)
(* prompt is given, the delivery ledger that keeps them from being told       *)
(* twice, the notices that correct them later, the session's token budget,    *)
(* and the counter by which the host says that its context was compacted      *)
(* (core/session_injection.py, core/session_brief.py,                         *)
(* adapters/clients/session_marks.py, adapters/clients/handler.py).           *)
(*                                                                            *)
(* A prompt is answered by one request.  The host may give up on a request    *)
(* and go on: the server still finishes it, but what it answers is not shown. *)
(* Every transaction is one step; text is a fact with a statement, and a line *)
(* of it costs one token.                                                     *)
EXTENDS Naturals, FiniteSets, FiniteSetsExt, Sequences

CONSTANTS
    Fact, Value,      \* claims, and the statements they may make
    First,            \* what every fact says at the start
    Request,          \* requests a session may have under way
    InjectionCap,     \* injection_token_cap, in lines
    SessionCap,       \* session_token_cap
    MaxEvents,        \* bound: changes of facts, privacy and the entry, and compactions
    Counters          \* epochs of the client's counter: one more than its losses

ASSUME DeliveryAssumption == /\ {InjectionCap, SessionCap, MaxEvents} \subseteq Nat
                             /\ First \in Value
                             /\ Counters \in Nat \ {0}
                             /\ IsFiniteSet(Fact)

VARIABLES
    said,      \* each fact's statement by revision
    live,      \* facts neither deleted, suppressed nor quarantined
    hidden,    \* a full private interval covers the session
    entry,     \* entry_controls: paused, and its version
    changes,   \* steps of the four above
    row,       \* session_brief_sessions
    epochs,    \* session_brief_compaction_epochs: base_seq and local_seq
    marks,     \* session_brief_injections: what is counted as delivered
    counter,   \* the client's counter file: epoch and ordinal
    pending,   \* its compaction mark, with the time left out
    request,   \* the requests
    context,   \* what the host's model was last told of each fact
    compacted, \* compactions there have been
    unsettled, \* facts recorded since and not shown, or shown and not recorded
    crossed    \* a request of a lost counter was under way at a later compaction

vars == <<said, live, hidden, entry, changes, row, epochs, marks, counter, pending,
          request, context, compacted, unsettled, crossed>>
truth == <<said, live, hidden, entry, changes>>
ledger == <<row, epochs, marks>>
client == <<counter, pending>>
host == <<context, compacted, unsettled, crossed>>

NoMark == [epoch |-> 0, ordinal |-> 0]
Unregistered == [base |-> 0, local |-> 0, known |-> FALSE]
NotTold == "nothing"
Withdrawn == "withdrawn"
NoRequest == [pc |-> "idle"]

(* What the host was told of a fact without a statement is not a statement.   *)
ASSUME StatementAssumption == Value \cap {NotTold, Withdrawn} = {}

Revision(f) == Len(said[f])
Now(f) == IF f \in live /\ ~hidden THEN said[f][Revision(f)] ELSE Withdrawn

Init ==
    /\ said = [f \in Fact |-> <<First>>] /\ live = Fact
    /\ hidden = FALSE /\ entry = [paused |-> FALSE, version |-> 0]
    /\ changes = 0
    /\ row = [seq |-> 0, spent |-> 0, ordinary |-> 0, started |-> FALSE]
    /\ epochs = [e \in 1..Counters |-> Unregistered]
    /\ marks = {}
    /\ counter = [epoch |-> 1, ordinal |-> 0] /\ pending = NoMark
    /\ request = [r \in Request |-> NoRequest]
    /\ context = [f \in Fact |-> NotTold]
    /\ compacted = 0 /\ unsettled = {} /\ crossed = FALSE

-----------------------------------------------------------------------------
(* The owner: a correction, evidence alone, a withdrawal or its release, a    *)
(* private interval, a pause of the entry.                                    *)
Change ==
    /\ changes + compacted < MaxEvents
    /\ changes' = changes + 1
    /\ \/ \E f \in live, v \in Value :
             /\ said' = [said EXCEPT ![f] = Append(@, v)]
             /\ UNCHANGED <<live, hidden, entry>>
       \/ \E f \in Fact :
             /\ live' = IF f \in live THEN live \ {f} ELSE live \cup {f}
             /\ UNCHANGED <<said, hidden, entry>>
       \/ /\ hidden' = ~hidden
          /\ UNCHANGED <<said, live, entry>>
       \/ /\ entry' = [paused |-> ~entry.paused, version |-> entry.version + 1]
          /\ UNCHANGED <<said, live, hidden>>
    /\ UNCHANGED <<ledger, client, request, host>>

(* The host compacts its context; `mark_compaction` counts it.                *)
Compact ==
    /\ changes + compacted < MaxEvents
    /\ \A r \in Request : request[r].pc # "idle" => ~request[r].heard
    /\ compacted' = compacted + 1
    /\ crossed' = (crossed \/ \E r \in Request :
                      request[r].pc # "idle" /\ request[r].mark.epoch \notin {0, counter.epoch})
    /\ context' = [f \in Fact |-> NotTold]
    /\ unsettled' = {}
    /\ counter' = [counter EXCEPT !.ordinal = @ + 1]
    /\ pending' = [epoch |-> counter.epoch, ordinal |-> counter.ordinal + 1]
    /\ UNCHANGED <<truth, ledger, request>>

(* The counter file is lost: the next mark begins an epoch of its own.        *)
CounterLost ==
    /\ counter.epoch < Counters /\ counter.ordinal > 0
    /\ counter' = [epoch |-> counter.epoch + 1, ordinal |-> 0]
    /\ UNCHANGED <<truth, ledger, pending, request, host>>

-----------------------------------------------------------------------------
(* `compaction_cutoff`: a client counter in the session's own sequence.       *)
CutoffFromZero(mark) ==
    IF mark = NoMark THEN row.seq ELSE Max({row.seq, epochs[mark.epoch].base + mark.ordinal})

Cutoff(mark) ==
    IF mark = NoMark THEN row.seq
    ELSE LET known == epochs[mark.epoch]
         IN Max({row.seq, (IF known.known THEN known.base ELSE row.seq) + mark.ordinal})

Counted(mark) == {m \in marks : m.seq >= Cutoff(mark)}
AlreadyInjected(mark, f, rev) == \E m \in Counted(mark) : m.fact = f /\ m.rev = rev
Started(mark) == row.started /\ row.seq >= Cutoff(mark)
Usage(mark) == IF row.seq >= Cutoff(mark) THEN row.spent ELSE 0

(* `_delivery_rows`: each fact's newest counted delivery.                     *)
DeliveryRows(mark) ==
    {m \in Counted(mark) : \A n \in marks : n.fact = m.fact => n.rev <= m.rev}

(* `_claim_change` and `_make_notice`: evidence alone changes nothing; a      *)
(* change already acknowledged on the row is not told again.                  *)
ChangedRow(m) == Now(m.fact) # said[m.fact][m.rev]
OfferedOnce(m) == ChangedRow(m) /\ m.ack = NotTold

Offered(m) == ChangedRow(m) /\ m.ack # Now(m.fact)

Notices(mark) == {[fact |-> m.fact, rev |-> m.rev, value |-> Now(m.fact)] :
                      m \in {n \in DeliveryRows(mark) : Offered(n)}}

-----------------------------------------------------------------------------
(* A prompt: the pending mark is read, the briefing is prepared when the      *)
(* context is new, and facts are recalled, in one snapshot.                   *)
Lines(facts, brief) == {[fact |-> f, rev |-> Revision(f), brief |-> brief] : f \in facts}

Begin(r) ==
    /\ request[r].pc = "idle"
    /\ \A other \in Request : request[other].pc # "idle" => ~request[other].heard
    /\ ~entry.paused
    /\ LET fresh == Cutoff(pending) > row.seq
           may == {f \in live : ~hidden /\ (fresh \/ ~AlreadyInjected(pending, f, Revision(f)))}
       IN \E brief, question \in SUBSET may :
            /\ brief \cap question = {}
            /\ question \subseteq {f \in may : ~AlreadyInjected(pending, f, Revision(f))}
            /\ brief # {} => fresh \/ ~Started(pending)
            /\ request' = [request EXCEPT ![r] =
                 [pc |-> "begun", heard |-> TRUE, mark |-> pending, cutoff |-> Cutoff(pending),
                  compact |-> fresh, deliver |-> ~hidden /\ (fresh \/ ~Started(pending)),
                  lines |-> Lines(brief, TRUE) \cup Lines(question, FALSE),
                  notices |-> {}, entry |-> entry, stale |-> FALSE, compacted |-> compacted]]
    /\ UNCHANGED <<truth, ledger, client, host>>

(* A recalled line must still be the current revision, a briefing line the    *)
(* current statement.                                                         *)
LineLive(l) ==
    /\ Now(l.fact) = said[l.fact][l.rev]
    /\ ~l.brief => l.rev = Revision(l.fact)

(* What is left of a request once it is decided; nobody waits for one the     *)
(* host has given up.                                                         *)
Decided(r, pc) ==
    [request EXCEPT ![r] =
        IF @.heard \/ pc = "invalid"
        THEN [pc |-> pc, heard |-> @.heard, mark |-> @.mark, stale |-> @.stale,
              lines |-> @.lines, notices |-> @.notices]
        ELSE NoRequest]

Named(q) == {l.fact : l \in q.lines \cup q.notices}

(* The largest subsets of a size: which lines are left out is not modelled.   *)
Fitting(S, n) == {T \in SUBSET S : Cardinality(T) = Min({n, Cardinality(S)})}

(* `prepare`: notices first, then what the caps leave room for; the briefing  *)
(* keeps its lines before the recalled ones do.                               *)
Prepare(r) ==
    /\ request[r].pc = "begun"
    /\ LET q == request[r]
           kept == IF hidden THEN {} ELSE {l \in q.lines : l.brief \/ LineLive(l)}
           left == SessionCap - Min({SessionCap, Usage(q.mark)})
       IN \/ /\ entry = q.entry
             /\ \E notices \in Fitting(IF q.compact THEN {} ELSE Notices(q.mark), InjectionCap) :
                \E lines \in Fitting(kept, Min({InjectionCap - Cardinality(notices), left})) :
                  /\ (\E l \in lines : ~l.brief) => \A l \in kept : l.brief => l \in lines
                  /\ request' = [request EXCEPT ![r].pc = "prepared", ![r].lines = lines,
                                                ![r].notices = notices,
                                                ![r].deliver = @ /\ ~hidden]
          \/ /\ entry # q.entry
             /\ request' = Decided(r, "refused")
    /\ UNCHANGED <<truth, ledger, client, host>>

(* `_release_refusal`: the entry, the compaction, the budget, every line and  *)
(* every notice are looked at again.                                          *)
LinesOnly(q) == \A l \in q.lines : LineLive(l)

ReleasableIgnoringUsage(q) ==
    /\ entry = q.entry
    /\ Cutoff(q.mark) <= q.cutoff
    /\ LinesOnly(q)
    /\ q.notices \subseteq Notices(q.mark)
    /\ q.deliver /\ ~q.compact => ~Started(q.mark)

ReleasableAsPrepared(q) ==
    /\ entry = q.entry
    /\ Cardinality(q.lines) <= SessionCap - Min({SessionCap, Usage(q.mark)})
    /\ q.notices \subseteq Notices(q.mark)

Releasable(q) ==
    /\ entry = q.entry
    /\ Cutoff(q.mark) <= q.cutoff
    /\ q.deliver /\ ~q.compact => ~Started(q.mark)
    /\ Cardinality(q.lines) <= SessionCap - Min({SessionCap, Usage(q.mark)})
    /\ LinesOnly(q)
    /\ q.notices \subseteq Notices(q.mark)

Refused(r) == Decided(r, IF entry = request[r].entry THEN "invalid" ELSE "refused")

ConfirmRead(r) ==
    /\ request[r].pc = "prepared"
    /\ request' = IF Releasable(request[r])
                  THEN [request EXCEPT ![r].pc = "checked", ![r].stale = entry.paused \/ ~LinesOnly(request[r])]
                  ELSE Refused(r)
    /\ UNCHANGED <<truth, ledger, client, host>>

-----------------------------------------------------------------------------
(* `apply_compaction`: the counter is registered, older deliveries are        *)
(* forgotten and the usage starts again.                                      *)
Applied(mark) ==
    IF mark = NoMark \/ (epochs[mark.epoch].known /\ mark.ordinal <= epochs[mark.epoch].local)
    THEN [row |-> row, epochs |-> epochs, marks |-> marks]
    ELSE LET cutoff == Cutoff(mark)
             base == IF epochs[mark.epoch].known THEN epochs[mark.epoch].base ELSE cutoff - mark.ordinal
         IN [row |-> IF row.seq < cutoff
                     THEN [seq |-> cutoff, spent |-> 0, ordinary |-> 0, started |-> FALSE]
                     ELSE row,
             epochs |-> [epochs EXCEPT ![mark.epoch] =
                            [base |-> base, local |-> mark.ordinal, known |-> TRUE]],
             marks |-> {m \in marks : m.seq >= cutoff}]

(* `mark_delivered`: a row keeps its acknowledgement when it is told again.   *)
Delivered(old, q, seq) ==
    LET told == {<<l.fact, l.rev>> : l \in q.lines}
        ackOf(p) == IF \E m \in old : <<m.fact, m.rev>> = p
                    THEN (CHOOSE m \in old : <<m.fact, m.rev>> = p).ack
                    ELSE NotTold
    IN {m \in old : <<m.fact, m.rev>> \notin told}
           \cup {[fact |-> p[1], rev |-> p[2], seq |-> seq, ack |-> ackOf(p),
                  compacted |-> q.compacted] : p \in told}

(* The notices' values are acknowledged on the rows they correct.             *)
Acknowledged(old, q) ==
    {IF \E n \in q.notices : n.fact = m.fact /\ n.rev = m.rev
     THEN [m EXCEPT !.ack = (CHOOSE n \in q.notices : n.fact = m.fact /\ n.rev = m.rev).value]
     ELSE m : m \in old}

(* The write transaction of `confirm`: the checks again, then `_record`.      *)
ConfirmWrite(r) ==
    /\ request[r].pc = "checked"
    /\ LET q == request[r]
           a == Applied(q.mark)
           cost == Cardinality(q.lines) + Cardinality(q.notices)
       IN \/ /\ ~Releasable(q)
             /\ request' = Refused(r)
             /\ UNCHANGED <<ledger, unsettled>>
          \/ /\ Releasable(q)
             /\ epochs' = a.epochs
             /\ row' = [a.row EXCEPT !.spent = @ + cost,
                                     !.ordinary = @ + Cardinality(q.lines),
                                     !.started = @ \/ q.deliver]
             /\ marks' = Acknowledged(Delivered(a.marks, q, a.row.seq), q)
             /\ request' = Decided(r, "recorded")
             /\ unsettled' = IF q.heard THEN unsettled
                           ELSE unsettled \cup Named(q)
    /\ UNCHANGED <<truth, client, context, compacted, crossed>>

(* The writer is busy: the text is safe, and returns without being recorded.  *)
ConfirmBusy(r) ==
    /\ request[r].pc = "checked"
    /\ request' = Decided(r, "unconfirmed")
    /\ UNCHANGED <<truth, ledger, client, host>>

(* `_finish_compaction` after a refusal that was not the entry's.             *)
SyncCompaction(r) ==
    /\ request[r].pc = "invalid"
    /\ request[r].mark # NoMark /\ ~entry.paused
    /\ LET a == Applied(request[r].mark)
       IN row' = a.row /\ epochs' = a.epochs /\ marks' = a.marks
    /\ request' = Decided(r, "synced")
    /\ UNCHANGED <<truth, client, host>>

(* The answer reaches the host: the text is shown, and `clear_compaction`     *)
(* retires the mark the server confirmed.                                     *)
Final(r) == request[r].pc \in {"recorded", "unconfirmed", "invalid", "refused", "synced"}
Released(r) == request[r].pc \in {"recorded", "unconfirmed"}

Told(q) ==
    [f \in Fact |->
        IF \E l \in q.lines : l.fact = f
        THEN LET l == CHOOSE l \in q.lines : l.fact = f IN said[f][l.rev]
        ELSE IF \E n \in q.notices : n.fact = f
        THEN (CHOOSE n \in q.notices : n.fact = f).value
        ELSE context[f]]

Cleared(q) ==
    IF q.mark # NoMark /\ pending.epoch = q.mark.epoch /\ pending.ordinal <= q.mark.ordinal
    THEN NoMark ELSE pending

Answer(r) ==
    /\ Final(r) /\ request[r].heard
    /\ context' = IF Released(r) THEN Told(request[r]) ELSE context
    /\ pending' = IF request[r].pc \in {"recorded", "synced"} THEN Cleared(request[r]) ELSE pending
    /\ unsettled' = IF request[r].pc = "unconfirmed" THEN unsettled \cup Named(request[r]) ELSE unsettled
    /\ request' = [request EXCEPT ![r] = NoRequest]
    /\ UNCHANGED <<truth, ledger, counter, compacted, crossed>>

(* The host gives up on the request and goes on; the server does not.         *)
GiveUp(r) ==
    /\ request[r].pc # "idle" /\ request[r].heard
    /\ request' = IF Final(r) /\ request[r].pc # "invalid" THEN [request EXCEPT ![r] = NoRequest]
                  ELSE [request EXCEPT ![r].heard = FALSE]
    /\ unsettled' = IF request[r].pc = "recorded"
                  THEN unsettled \cup Named(request[r])
                  ELSE unsettled
    /\ UNCHANGED <<truth, ledger, client, context, compacted, crossed>>

Dropped(r) ==
    /\ Final(r) /\ ~request[r].heard
    /\ request' = [request EXCEPT ![r] = NoRequest]
    /\ UNCHANGED <<truth, ledger, client, host>>
-----------------------------------------------------------------------------
Next ==
    \/ Change \/ Compact \/ CounterLost
    \/ \E r \in Request :
          \/ Begin(r) \/ Prepare(r) \/ ConfirmRead(r) \/ ConfirmWrite(r) \/ ConfirmBusy(r)
          \/ SyncCompaction(r) \/ Answer(r) \/ GiveUp(r) \/ Dropped(r)

Spec == Init /\ [][Next]_vars
-----------------------------------------------------------------------------
ClientMark == {NoMark} \cup [epoch : 1..Counters, ordinal : Nat \ {0}]
Line == [fact : Fact, rev : Nat \ {0}, brief : BOOLEAN]
Notice == [fact : Fact, rev : Nat \ {0}, value : Value \cup {Withdrawn}]
Delivery == [fact : Fact, rev : Nat \ {0}, seq : Nat,
             ack : Value \cup {NotTold, Withdrawn}, compacted : Nat]
Entry == [paused : BOOLEAN, version : Nat]

Undecided == [pc : {"begun", "prepared", "checked"}, heard : BOOLEAN, mark : ClientMark,
              cutoff : Nat, compact : BOOLEAN, deliver : BOOLEAN, lines : SUBSET Line,
              notices : SUBSET Notice, entry : Entry, stale : BOOLEAN, compacted : Nat]

DecidedRequest == [pc : {"recorded", "unconfirmed", "invalid", "refused", "synced"},
                   heard : BOOLEAN, mark : ClientMark, stale : BOOLEAN,
                   lines : SUBSET Line, notices : SUBSET Notice]

(* The client's counters lie within the session's own sequence, and one row   *)
(* records each delivered revision (core/session_brief.py).                   *)
TypeOK ==
    /\ said \in [Fact -> Seq(Value)] /\ \A f \in Fact : Revision(f) > 0
    /\ live \subseteq Fact /\ hidden \in BOOLEAN /\ entry \in Entry
    /\ {changes, compacted} \subseteq Nat
    /\ row \in [seq : Nat, spent : Nat, ordinary : Nat, started : BOOLEAN]
    /\ epochs \in [1..Counters -> [base : Nat, local : Nat, known : BOOLEAN]]
    /\ \A e \in 1..Counters : epochs[e].base + epochs[e].local <= row.seq
    /\ marks \subseteq Delivery /\ IsFiniteSet(marks)
    /\ \A m \in marks : m.rev <= Revision(m.fact)
    /\ \A m, n \in marks : m.fact = n.fact /\ m.rev = n.rev => m = n
    /\ counter \in [epoch : 1..Counters, ordinal : Nat] /\ pending \in ClientMark
    /\ request \in [Request -> {NoRequest} \cup Undecided \cup DecidedRequest]
    /\ context \in [Fact -> Value \cup {NotTold, Withdrawn}]
    /\ unsettled \subseteq Fact /\ crossed \in BOOLEAN

(* Nothing is shown that was corrected, withdrawn or made private before the  *)
(* confirmation of its request began, whatever was prepared before.           *)
NothingBarredShown ==
    \A r \in Request : Released(r) /\ request[r].stale => request[r].lines = {}

(* Two prompts prepared on one snapshot are not both charged to one session's *)
(* budget: what was recorded since the compaction stays within the ceiling.   *)
RecordedWithinCap == row.ordinary <= SessionCap

(* A fact is held back as delivered only if it was recorded for this context: *)
(* a compaction forgets what came before it, although the client's mark is    *)
(* resent, its counter is lost and an earlier prompt is recorded late.  It    *)
(* says nothing once a request of a lost counter was still under way at the   *)
(* compaction after the loss: recorded later, it brings the row's sequence to *)
(* the point the new counter stands at (core/session_brief.py says that older *)
(* bases make delayed requests idempotent), and what it told is counted here. *)
CountedForThisContext == ~crossed => \A m \in Counted(pending) : m.compacted = compacted

(* A counted fact whose statement is no longer the delivered one has a notice *)
(* due until the session was told its present statement or its withdrawal, in *)
(* whatever order prompts are prepared and confirmed and although one change  *)
(* follows another.  A fact changed back to the delivered statement after its *)
(* notice is not covered: `_claim_change` finds nothing to tell.  Nor is what *)
(* is counted of an earlier context by the late record told of above.         *)
UnderWay(f) == \E r \in Request : request[r].pc = "recorded" /\ f \in Named(request[r])
Settled(f) == f \notin unsettled /\ ~UnderWay(f)

CorrectionDueOrTold ==
    ~crossed => \A m \in DeliveryRows(pending) :
        Settled(m.fact) /\ ChangedRow(m) => Offered(m) \/ context[m.fact] = Now(m.fact)

(* What docs/background-work.md says of notices: a session that received a    *)
(* changed fact gets its current value.  A fact told and counted whose value  *)
(* is not the last one told has a notice due.                                 *)
ChangedFactDue ==
    \A m \in DeliveryRows(pending) :
        (/\ Settled(m.fact)
         /\ {context[m.fact], Now(m.fact)} \subseteq Value
         /\ context[m.fact] # Now(m.fact))
            => Offered(m)
=============================================================================
