----------------------- MODULE CandidateEvaluationProofs -----------------------
(***************************************************************************)
(* Proofs about the evaluation of candidates: the three tables stay in     *)
(* step, a question is asked no oftener than it was allowed, what a        *)
(* verdict writes inherits its answer, a candidate woken by new evidence   *)
(* has a question for it, and the work of the evaluations implements the   *)
(* lifecycle of a work item.                                               *)
(***************************************************************************)
EXTENDS CandidateEvaluation, FiniteSetTheorems, TLAPS

(* Attempts are counted by claims, and a claim is a generation of its own.    *)
AttemptsWithinTokens == \A k \in Key : work[k].attempt <= work[k].token

(* No two tasks hold one generation of a row, and none is ahead of it.        *)
TokensApart ==
    /\ \A t \in tasks : t.token <= work[t.key].token
    /\ \A t, u \in tasks : t.key = u.key /\ t.token = u.token => t = u

(* Nothing was asked yet of a revision still to be written, and no question   *)
(* cites a source nobody has said.                                            *)
AskedOfWhatIs ==
    \A k \in Key :
        evals[k].state # "absent" => k[1] <= claim.head /\ k[2] \subseteq heard

NewEvidence == [state |-> "pending", reason |-> "new_evidence"]

(* What makes a candidate's evidence new: a source that no question cited.    *)
Uncited(r, s) == \A k \in KeysOf(r) : evals[k].state # "absent" => s \notin k[2]

NewEvidenceUncited ==
    \A r \in Revision :
        stage[r] = NewEvidence =>
            \/ ~NoneQueued(Now, r)
            \/ \E s \in Live(evidence[r]) : Uncited(r, s)

(* Attempts whose mark is committed and whose request is still to be made.    *)
Begun(k) == {t \in tasks : t.key = k /\ t.step = "marked"}

(* The mark pays for the request: a question without one has a request left,  *)
(* besides those of the attempts that have begun.                             *)
RequestsPaid ==
    /\ IsFiniteSet(tasks)
    /\ \A k \in Key : credit[k] >= Cardinality(Begun(k)) + (IF evals[k].marked THEN 0 ELSE 1)

Inv ==
    /\ TypeOK /\ AttemptsWithinTokens /\ TokensApart
    /\ InStep /\ AskedOfWhatIs /\ InheritedAnswered
    /\ NewEvidenceUncited /\ RequestsPaid

-----------------------------------------------------------------------------
(***************************************************************************)
(* What may become of one question, its evaluation e and its row w, in one *)
(* transaction: the evaluation is then f and the row v.                    *)
(***************************************************************************)
Asks(e, w, f, v) ==
    /\ e.state = "absent" /\ f.state = "queued" /\ f.marked = e.marked
    /\ v = [w EXCEPT !.state = "pending"]

Decides(e, w, f, v) ==
    e.state = "absent" /\ f.state = "answered" /\ (e.marked => f.marked) /\ v = w

GivesWay(e, w, f, v) ==
    /\ e.state = "queued" /\ ~e.marked
    /\ f.state = "obsolete" /\ f.marked = e.marked
    /\ v = IF w.state = "pending" THEN [w EXCEPT !.state = "obsolete"] ELSE w

Fenced(e, w, f, v) ==
    /\ f.marked = e.marked
    /\ IF e.state = "queued" THEN f.state \in {"revoked", "obsolete"} ELSE f.state = e.state
    /\ IF w.state \in {"pending", "leased"}
       THEN v.state = "obsolete" /\ v.attempt = w.attempt /\ v.token = w.token + 1
       ELSE v = w

Resumes(e, w, f, v) ==
    /\ e.state = "revoked" /\ ~e.marked /\ w.state = "obsolete"
    /\ f.state = "queued" /\ ~f.marked
    /\ v.state = "pending" /\ v.attempt = 0 /\ v.token = w.token + 1

TimesOut(e, w, f, v) ==
    /\ f = e /\ w.state = "leased"
    /\ v.state \in {"pending", "failed"} /\ v.attempt = w.attempt /\ v.token = w.token

Reopens(e, w, f, v) ==
    /\ e.state \in {"failed", "queued"} /\ w.state = "failed"
    /\ f.state = "queued" /\ ~f.marked
    /\ v.state = "pending" /\ v.attempt \in {w.attempt, 0} /\ v.token = w.token

Reconciles(e, w, f, v) ==
    /\ e.state = "queued" /\ w.state = "failed"
    /\ f.state = "failed" /\ f.marked = e.marked /\ v = w

Begins(e, w, f, v) ==
    /\ e.state = "queued" /\ ~e.marked
    /\ f.state = "queued" /\ f.marked /\ v = w

Same(e, w, f, v) == f = e /\ v = w

(* Everything but a claim and the reply of the worker that holds the row.     *)
Turn(e, w, f, v) ==
    \/ Same(e, w, f, v) \/ Asks(e, w, f, v) \/ Decides(e, w, f, v) \/ GivesWay(e, w, f, v)
    \/ Fenced(e, w, f, v) \/ Resumes(e, w, f, v) \/ TimesOut(e, w, f, v)
    \/ Reopens(e, w, f, v) \/ Reconciles(e, w, f, v) \/ Begins(e, w, f, v)

PutsBack(e, w, f, v) ==
    v.state = "pending" /\ f.state = e.state /\ (f.marked => e.marked)

GivesUp(e, w, f, v) ==
    /\ v.state = "failed" /\ f.marked = e.marked
    /\ f.state = IF e.state = "queued" THEN "failed" ELSE e.state

Finishes(e, w, f, v) ==
    v.state = "done" /\ f.marked = e.marked /\ e.state = "queued" /\ f.state = "answered"

Drops(e, w, f, v) ==
    /\ v.state = "obsolete" /\ f.marked = e.marked
    /\ IF e.state = "queued" THEN f.state \in {"revoked", "obsolete"} ELSE f.state = e.state

Reply(e, w, f, v) ==
    /\ w.state = "leased" /\ v.token = w.token /\ v.attempt \in 0 .. w.attempt
    /\ \/ PutsBack(e, w, f, v) \/ GivesUp(e, w, f, v)
       \/ Finishes(e, w, f, v) \/ Drops(e, w, f, v)

(* The same between two values b and c of the tables.                         *)
SameAt(k, b, c) == Same(b.evals[k], b.work[k], c.evals[k], c.work[k])
TurnAt(k, b, c) == Turn(b.evals[k], b.work[k], c.evals[k], c.work[k])
ReplyAt(k, b, c) == Reply(b.evals[k], b.work[k], c.evals[k], c.work[k])

Tables == [stage : [Revision -> Stage], evals : [Key -> Evaluation], work : [Key -> Row]]

(* The tables after the step.                                                 *)
Then == Now'

-----------------------------------------------------------------------------
(* The parts of a key and of a row.                                           *)
LEMMA KeyParts ==
    ASSUME NEW k \in Key
    PROVE  /\ k[1] \in Revision /\ k[2] \in Question /\ k = <<k[1], k[2]>>
           /\ k[2] \subseteq Source /\ k[2] # {} /\ k \in KeysOf(k[1])
BY DEF Key, Question, KeysOf

LEMMA KeyOf ==
    ASSUME NEW r \in Revision, NEW E \in SUBSET Source, E # {}
    PROVE  /\ <<r, E>> \in Key /\ <<r, E>>[1] = r /\ <<r, E>>[2] = E
           /\ <<r, E>> \in KeysOf(r)
BY DEF Key, Question, KeysOf

LEMMA TablesAre ==
    ASSUME NEW b \in Tables
    PROVE  /\ b.stage \in [Revision -> Stage]
           /\ b.evals \in [Key -> Evaluation]
           /\ b.work \in [Key -> Row]
           /\ b = [stage |-> b.stage, evals |-> b.evals, work |-> b.work]
BY DEF Tables

LEMMA RowParts ==
    ASSUME NEW w \in Row
    PROVE  /\ w.attempt \in Int /\ w.attempt >= 0 /\ w.attempt <= MaxToken
           /\ w.token \in Int /\ w.token >= 0 /\ w.token <= MaxToken
           /\ w.history \in History
           /\ MaxToken \in Nat
<1>1. MaxToken \in Nat
  BY EvaluationAssumption
<1>2. w.attempt \in 0 .. MaxToken /\ w.token \in 0 .. MaxToken /\ w.history \in History
  BY DEF Row
<1> QED
  BY <1>1, <1>2

LEMMA HistoryKept ==
    ASSUME NEW h \in History
    PROVE  /\ \A kind \in Kind : Bare(kind) \in History /\ Recorded(h, kind) \in History
           /\ NoHistory \in History /\ CapacityRefusal(h) \in History
           /\ \A m \in Mark : WithMark(h, m) \in History
           /\ \A m \in Release : Marked(h, m) \in History
<1>1. h = [kind |-> h.kind, marks |-> h.marks, autos |-> h.autos, caps |-> h.caps]
      /\ h.kind \in Kind /\ h.marks \subseteq Mark /\ h.autos \in Nat /\ h.caps \in Nat
  BY DEF History
<1>2. \A kind \in Kind : Bare(kind) \in History
  BY DEF Bare, History
<1>3. \A kind \in Kind : Recorded(h, kind) \in History
  BY <1>1, <1>2 DEF Recorded, History
<1>4. NoHistory \in History
  BY <1>2 DEF NoHistory, Kind
<1>5. CapacityRefusal(h) \in History
  <2>1. h.caps + 1 \in Nat
    BY <1>1
  <2> QED
    BY <2>1 DEF CapacityRefusal, History, Kind
<1>6. \A m \in Mark : WithMark(h, m) \in History
  BY <1>1 DEF WithMark, History
<1>7. \A m \in Release : Marked(h, m) \in History
  BY <1>1 DEF Marked, History, Mark
<1> QED
  BY <1>2, <1>3, <1>4, <1>5, <1>6, <1>7

(* One candidate is moved, unless it is blocked, and nothing else.            *)
LEMMA MovedIs ==
    ASSUME NEW b \in Tables, NEW r \in Revision,
           NEW state, NEW reason, [state |-> state, reason |-> reason] \in Stage
    PROVE  LET c == Moved(b, r, state, reason)
           IN  /\ c \in Tables /\ c.evals = b.evals /\ c.work = b.work
               /\ \A p \in Revision \ {r} : c.stage[p] = b.stage[p]
               /\ c.stage[r] = IF b.stage[r].state = "blocked" THEN b.stage[r]
                               ELSE [state |-> state, reason |-> reason]
BY DEF Moved, Tables

LEMMA RetiredIs ==
    ASSUME NEW b \in Tables, NEW K \in SUBSET Key, NEW state \in {"revoked", "obsolete"},
           NEW kind \in Kind, \A k \in Key : b.work[k].token < MaxToken
    PROVE  LET c == Retired(b, K, state, kind)
           IN  /\ c \in Tables /\ c.stage = b.stage
               /\ \A k \in K : Fenced(b.evals[k], b.work[k], c.evals[k], c.work[k])
               /\ \A k \in Key \ K : SameAt(k, b, c)
<1> DEFINE c == Retired(b, K, state, kind)
<1> DEFINE eval(k) == IF k \in K /\ b.evals[k].state = "queued"
                      THEN [b.evals[k] EXCEPT !.state = state] ELSE b.evals[k]
<1> DEFINE row(k) == IF k \in K /\ b.work[k].state \in {"pending", "leased"}
                     THEN [Unleased(b.work[k], "obsolete", Bare(kind)) EXCEPT !.token = @ + 1]
                     ELSE b.work[k]
<1> DEFINE F == [k \in Key |-> eval(k)]
<1> DEFINE G == [k \in Key |-> row(k)]
<1>1. c.stage = b.stage /\ c.evals = F /\ c.work = G
      /\ c = [stage |-> b.stage, evals |-> F, work |-> G]
  <2>1. c = [b EXCEPT !.evals = F, !.work = G]
    BY DEF Retired
  <2> HIDE DEF F, G, c
  <2> QED
    BY <2>1 DEF Tables
<1>2. \A k \in Key : eval(k) \in Evaluation
  BY TablesAre DEF Evaluation
<1>3. ASSUME NEW k \in Key
      PROVE  /\ row(k) \in Row
             /\ k \in K => Fenced(b.evals[k], b.work[k], eval(k), row(k))
             /\ k \notin K => eval(k) = b.evals[k] /\ row(k) = b.work[k]
  <2>1. b.work[k] \in Row /\ b.evals[k] \in Evaluation /\ b.work[k].token < MaxToken
    BY TablesAre
  <2>2. Bare(kind) \in History
    BY DEF Bare, History, Mark
  <2>3. b.work[k].token + 1 \in 0 .. MaxToken
    BY <2>1, RowParts
  <2>4. row(k) \in Row
    BY <2>1, <2>2, <2>3 DEF Unleased, Row
  <2>5. k \in K => Fenced(b.evals[k], b.work[k], eval(k), row(k))
    BY <2>1, <2>2 DEF Fenced, Evaluation, Row, Unleased
  <2> QED
    BY <2>4, <2>5
<1>4. \A k \in Key : F[k] = eval(k) /\ G[k] = row(k)
  OBVIOUS
<1>5. F \in [Key -> Evaluation] /\ G \in [Key -> Row]
  BY <1>2, <1>3
<1>6. c \in Tables
  <2> HIDE DEF F, G, c
  <2> QED
    BY <1>1, <1>5, TablesAre DEF Tables
<1> HIDE DEF eval, row, c, F, G
<1> QED
  BY <1>1, <1>3, <1>4, <1>6 DEF SameAt, Same, c

(* The older questions nobody was asked give way, and only those.             *)
LEMMA SupersedeUnstartedIs ==
    ASSUME NEW b \in Tables, NEW r \in Revision
    PROVE  LET c == SupersedeUnstarted(b, r)
           IN  /\ c \in Tables /\ c.stage = b.stage
               /\ \A k \in Key :
                    \/ SameAt(k, b, c)
                    \/ k[1] = r /\ GivesWay(b.evals[k], b.work[k], c.evals[k], c.work[k])
<1> DEFINE c == SupersedeUnstarted(b, r)
<1> DEFINE U == {k \in KeysOf(r) : b.evals[k].state = "queued" /\ ~b.evals[k].marked}
<1> DEFINE eval(k) == IF k \in U THEN [b.evals[k] EXCEPT !.state = "obsolete"] ELSE b.evals[k]
<1> DEFINE row(k) == IF k \in U /\ b.work[k].state = "pending"
                     THEN [b.work[k] EXCEPT !.state = "obsolete"] ELSE b.work[k]
<1> DEFINE F == [k \in Key |-> eval(k)]
<1> DEFINE G == [k \in Key |-> row(k)]
<1>1. c.stage = b.stage /\ c.evals = F /\ c.work = G
      /\ c = [stage |-> b.stage, evals |-> F, work |-> G]
  <2>1. c = [b EXCEPT !.evals = F, !.work = G]
    BY DEF SupersedeUnstarted
  <2> HIDE DEF F, G, c
  <2> QED
    BY <2>1 DEF Tables
<1>2. ASSUME NEW k \in Key
      PROVE  /\ eval(k) \in Evaluation /\ row(k) \in Row
             /\ k \in U => k[1] = r /\ GivesWay(b.evals[k], b.work[k], eval(k), row(k))
             /\ k \notin U => eval(k) = b.evals[k] /\ row(k) = b.work[k]
  <2>1. b.work[k] \in Row /\ b.evals[k] \in Evaluation
    BY TablesAre
  <2>2. eval(k) \in Evaluation /\ row(k) \in Row
    BY <2>1 DEF Evaluation, Row
  <2>3. k \in U => k[1] = r /\ GivesWay(b.evals[k], b.work[k], eval(k), row(k))
    BY <2>1 DEF GivesWay, Evaluation, KeysOf
  <2> QED
    BY <2>2, <2>3
<1>3. \A k \in Key : F[k] = eval(k) /\ G[k] = row(k)
  OBVIOUS
<1>4. F \in [Key -> Evaluation] /\ G \in [Key -> Row]
  BY <1>2
<1>5. c \in Tables
  <2> HIDE DEF F, G, c
  <2> QED
    BY <1>1, <1>4, TablesAre DEF Tables
<1> HIDE DEF eval, row, c, F, G, U
<1> QED
  BY <1>1, <1>2, <1>3, <1>5 DEF SameAt, Same, c

LEMMA QueuedIs ==
    ASSUME NEW b \in Tables, NEW k \in Key, b.evals[k].state = "absent"
    PROVE  LET c == Queued(b, k)
           IN  /\ c \in Tables
               /\ Asks(b.evals[k], b.work[k], c.evals[k], c.work[k])
               /\ \A j \in Key \ {k} :
                    \/ SameAt(j, b, c)
                    \/ j[1] = k[1] /\ GivesWay(b.evals[j], b.work[j], c.evals[j], c.work[j])
               /\ \A p \in Revision \ {k[1]} : c.stage[p] = b.stage[p]
<1> DEFINE d == SupersedeUnstarted(b, k[1])
<1> DEFINE g == [d EXCEPT !.evals[k].state = "queued", !.work[k].state = "pending"]
<1> DEFINE c == Queued(b, k)
<1>1. k[1] \in Revision
  BY KeyParts
<1>2. d \in Tables /\ d.stage = b.stage
      /\ \A j \in Key : \/ SameAt(j, b, d)
                        \/ j[1] = k[1] /\ GivesWay(b.evals[j], b.work[j], d.evals[j], d.work[j])
  BY <1>1, SupersedeUnstartedIs
<1>3. SameAt(k, b, d)
  BY <1>2 DEF GivesWay
<1> HIDE DEF d
<1>4. d.evals[k] \in Evaluation /\ d.work[k] \in Row
  BY <1>2, TablesAre
<1>5. [d.evals[k] EXCEPT !.state = "queued"] \in Evaluation
      /\ [d.work[k] EXCEPT !.state = "pending"] \in Row
  BY <1>4 DEF Evaluation, Row
<1>6. g = [stage |-> d.stage,
           evals |-> [d.evals EXCEPT ![k] = [d.evals[k] EXCEPT !.state = "queued"]],
           work |-> [d.work EXCEPT ![k] = [d.work[k] EXCEPT !.state = "pending"]]]
  <2> DEFINE F == [d.evals EXCEPT ![k] = [d.evals[k] EXCEPT !.state = "queued"]]
  <2> DEFINE G == [d.work EXCEPT ![k] = [d.work[k] EXCEPT !.state = "pending"]]
  <2>1. g = [d EXCEPT !.evals = F, !.work = G]
    BY <1>2, TablesAre
  <2> HIDE DEF F, G, g
  <2>2. g = [stage |-> d.stage, evals |-> F, work |-> G]
    BY <1>2, <2>1 DEF Tables
  <2> QED
    BY <2>2 DEF F, G
<1>7. g \in Tables
  BY <1>2, <1>5, <1>6, TablesAre DEF Tables
<1>8. /\ g.stage = d.stage
      /\ g.evals[k] = [d.evals[k] EXCEPT !.state = "queued"]
      /\ g.work[k] = [d.work[k] EXCEPT !.state = "pending"]
      /\ \A j \in Key \ {k} : g.evals[j] = d.evals[j] /\ g.work[j] = d.work[j]
  BY <1>2, <1>6, TablesAre
<1> HIDE DEF g
<1>9. c = Moved(g, k[1], "pending", "new_evidence")
  BY DEF Queued, g, d
<1>10. [state |-> "pending", reason |-> "new_evidence"] \in Stage
  BY DEF Stage
<1>11. /\ c \in Tables /\ c.evals = g.evals /\ c.work = g.work
       /\ \A p \in Revision \ {k[1]} : c.stage[p] = g.stage[p]
  BY <1>1, <1>7, <1>9, <1>10, MovedIs
<1> HIDE DEF c
<1>12. Asks(b.evals[k], b.work[k], c.evals[k], c.work[k])
  BY <1>3, <1>4, <1>8, <1>11 DEF Asks, SameAt, Same, Evaluation
<1>13. ASSUME NEW j \in Key \ {k}
       PROVE  \/ SameAt(j, b, c)
              \/ j[1] = k[1] /\ GivesWay(b.evals[j], b.work[j], c.evals[j], c.work[j])
  <2>1. c.evals[j] = d.evals[j] /\ c.work[j] = d.work[j]
    BY <1>8, <1>11
  <2> QED
    BY <1>2, <2>1 DEF SameAt
<1> QED
  BY <1>2, <1>8, <1>11, <1>12, <1>13 DEF c

(* One entry of the tables is written.                                        *)
LEMMA EvaluationSet ==
    ASSUME NEW b \in Tables, NEW k \in Key, NEW e \in Evaluation
    PROVE  LET c == [b EXCEPT !.evals[k] = e]
           IN  /\ c \in Tables /\ c.stage = b.stage /\ c.work = b.work
               /\ c.evals[k] = e
               /\ \A j \in Key \ {k} : c.evals[j] = b.evals[j]
<1> DEFINE F == [b.evals EXCEPT ![k] = e]
<1> DEFINE c == [b EXCEPT !.evals[k] = e]
<1>1. c = [b EXCEPT !.evals = F]
  BY TablesAre
<1>2. F \in [Key -> Evaluation] /\ F[k] = e /\ \A j \in Key \ {k} : F[j] = b.evals[j]
  BY TablesAre
<1> HIDE DEF F, c
<1>3. c = [stage |-> b.stage, evals |-> F, work |-> b.work]
  BY <1>1 DEF Tables
<1>4. c \in Tables
  BY <1>2, <1>3, TablesAre DEF Tables
<1> QED
  BY <1>2, <1>3, <1>4 DEF c

LEMMA RowSet ==
    ASSUME NEW b \in Tables, NEW k \in Key, NEW w \in Row
    PROVE  LET c == WithRow(b, k, w)
           IN  /\ c \in Tables /\ c.stage = b.stage /\ c.evals = b.evals
               /\ c.work[k] = w
               /\ \A j \in Key \ {k} : c.work[j] = b.work[j]
<1> DEFINE F == [b.work EXCEPT ![k] = w]
<1> DEFINE c == WithRow(b, k, w)
<1>1. c = [b EXCEPT !.work = F]
  BY TablesAre DEF WithRow
<1>2. F \in [Key -> Row] /\ F[k] = w /\ \A j \in Key \ {k} : F[j] = b.work[j]
  BY TablesAre
<1> HIDE DEF F, c
<1>3. c = [stage |-> b.stage, evals |-> b.evals, work |-> F]
  BY <1>1 DEF Tables
<1>4. c \in Tables
  BY <1>2, <1>3, TablesAre DEF Tables
<1> QED
  BY <1>2, <1>3, <1>4 DEF c

LEMMA RecordUnanswerableIs ==
    ASSUME NEW b \in Tables, NEW k \in Key
    PROVE  LET c == RecordUnanswerable(b, k)
           IN  /\ c \in Tables
               /\ b.evals[k].state # "absent" => c = b
               /\ b.evals[k].state = "absent" =>
                    Decides(b.evals[k], b.work[k], c.evals[k], c.work[k])
               /\ \A j \in Key \ {k} : SameAt(j, b, c)
               /\ \A p \in Revision \ {k[1]} : c.stage[p] = b.stage[p]
               /\ c.stage[k[1]] = NewEvidence => c = b \/ ~NoneQueued(c, k[1])
<1> DEFINE c == RecordUnanswerable(b, k)
<1>1. CASE b.evals[k].state # "absent"
  BY <1>1 DEF RecordUnanswerable, SameAt, Same
<1>2. CASE b.evals[k].state = "absent"
  <2> DEFINE e == [b.evals[k] EXCEPT !.state = "answered"]
  <2> DEFINE d == [b EXCEPT !.evals[k] = e]
  <2>1. e \in Evaluation /\ e.state = "answered" /\ e.marked = b.evals[k].marked
    BY TablesAre DEF Evaluation
  <2> HIDE DEF e
  <2>2. d \in Tables /\ d.stage = b.stage /\ d.work = b.work /\ d.evals[k] = e
        /\ \A j \in Key \ {k} : d.evals[j] = b.evals[j]
    BY <2>1, EvaluationSet
  <2>3. c = IF NoneQueued(b, k[1]) THEN Moved(d, k[1], "waiting", "other") ELSE d
    BY <1>2 DEF RecordUnanswerable, e
  <2> HIDE DEF c, d
  <2>4. k[1] \in Revision /\ [state |-> "waiting", reason |-> "other"] \in Stage
    BY KeyParts DEF Stage
  <2>5. /\ c \in Tables /\ c.evals = d.evals /\ c.work = d.work
        /\ \A p \in Revision \ {k[1]} : c.stage[p] = b.stage[p]
    BY <2>2, <2>3, <2>4, MovedIs
  <2>6. c.stage[k[1]] = NewEvidence => ~NoneQueued(b, k[1])
    <3> SUFFICES ASSUME NoneQueued(b, k[1]) PROVE c.stage[k[1]] # NewEvidence
      OBVIOUS
    <3>1. c.stage[k[1]] = IF d.stage[k[1]].state = "blocked" THEN d.stage[k[1]]
                          ELSE [state |-> "waiting", reason |-> "other"]
      BY <2>2, <2>3, <2>4, MovedIs
    <3> QED
      BY <3>1 DEF NewEvidence
  <2>7. ~NoneQueued(b, k[1]) => ~NoneQueued(c, k[1])
    BY <1>2, <2>2, <2>5 DEF NoneQueued, KeysOf
  <2>8. Decides(b.evals[k], b.work[k], c.evals[k], c.work[k])
    BY <1>2, <2>1, <2>2, <2>5 DEF Decides
  <2> QED
    BY <1>2, <2>2, <2>5, <2>6, <2>7, <2>8 DEF SameAt, Same, c
<1> QED
  BY <1>1, <1>2

LEMMA ResumedIs ==
    ASSUME NEW b \in Tables, NEW k \in Key, Resumable(b, k), b.work[k].token < MaxToken
    PROVE  LET c == Resumed(b, k)
           IN  /\ c \in Tables
               /\ Resumes(b.evals[k], b.work[k], c.evals[k], c.work[k])
               /\ \A j \in Key \ {k} : SameAt(j, b, c)
               /\ \A p \in Revision \ {k[1]} : c.stage[p] = b.stage[p]
<1> DEFINE e == [b.evals[k] EXCEPT !.state = "queued"]
<1> DEFINE w == [state |-> "pending", attempt |-> 0, token |-> b.work[k].token + 1,
                 history |-> NoHistory]
<1> DEFINE d == [b EXCEPT !.evals[k] = e]
<1> DEFINE g == WithRow(d, k, w)
<1> DEFINE c == Resumed(b, k)
<1>1. b.evals[k] \in Evaluation /\ b.work[k] \in Row
  BY TablesAre
<1>2. e \in Evaluation
  BY <1>1 DEF Evaluation
<1>3. w \in Row
  <2>1. NoHistory \in History
    BY DEF NoHistory, Bare, History, Kind
  <2>2. b.work[k].token + 1 \in 0 .. MaxToken /\ 0 \in 0 .. MaxToken
    BY <1>1, RowParts
  <2> QED
    BY <2>1, <2>2 DEF Row
<1>4. d \in Tables /\ d.stage = b.stage /\ d.work = b.work /\ d.evals[k] = e
      /\ \A j \in Key \ {k} : d.evals[j] = b.evals[j]
  BY <1>2, EvaluationSet
<1>5. g \in Tables /\ g.stage = d.stage /\ g.evals = d.evals /\ g.work[k] = w
      /\ \A j \in Key \ {k} : g.work[j] = d.work[j]
  <2> HIDE DEF d, w
  <2> QED
    BY <1>3, <1>4, RowSet
<1>6. c = Moved(g, k[1], "pending", "other")
  <2>1. [b EXCEPT !.evals[k].state = "queued",
                  !.work[k] = [state |-> "pending", attempt |-> 0, token |-> @.token + 1,
                               history |-> NoHistory]] = g
    BY TablesAre DEF WithRow, Tables
  <2> QED
    BY <2>1 DEF Resumed
<1>7. k[1] \in Revision /\ [state |-> "pending", reason |-> "other"] \in Stage
  BY KeyParts DEF Stage
<1>8. Resumes(b.evals[k], b.work[k], e, w)
  BY <1>1, RowParts DEF Resumable, Resumes
<1> HIDE DEF c, g, d, e, w
<1>9. /\ c \in Tables /\ c.evals = g.evals /\ c.work = g.work
      /\ \A p \in Revision \ {k[1]} : c.stage[p] = g.stage[p]
  BY <1>5, <1>6, <1>7, MovedIs
<1> QED
  BY <1>4, <1>5, <1>8, <1>9 DEF SameAt, Same, c

(***************************************************************************)
(* _schedule touches the questions of one candidate: one of them is asked, *)
(* decided or resumed, older ones give way.  It leaves the candidate       *)
(* pending for new evidence only if a question of it waits, or if this one *)
(* was put before and nothing was done.                                    *)
(***************************************************************************)
LEMMA ScheduledIs ==
    ASSUME NEW b \in Tables, NEW r \in Revision, NEW E \in SUBSET Source, NEW resume \in BOOLEAN,
           resume => \A j \in KeysOf(r) : b.work[j].token < MaxToken
    PROVE  LET c == Scheduled(b, r, E, resume)
               k == <<r, E>>
           IN  /\ c \in Tables
               /\ \A p \in Revision \ {r} : c.stage[p] = b.stage[p]
               /\ \A j \in Key \ {k} :
                    \/ SameAt(j, b, c)
                    \/ j[1] = r /\ GivesWay(b.evals[j], b.work[j], c.evals[j], c.work[j])
               /\ k \in Key =>
                    \/ SameAt(k, b, c)
                    \/ Asks(b.evals[k], b.work[k], c.evals[k], c.work[k])
                    \/ Decides(b.evals[k], b.work[k], c.evals[k], c.work[k])
                    \/ Resumes(b.evals[k], b.work[k], c.evals[k], c.work[k])
               /\ c.stage[r] = NewEvidence =>
                    \/ ~NoneQueued(c, r)
                    \/ c = b /\ k \in Key /\ b.evals[k].state # "absent"
<1> DEFINE c == Scheduled(b, r, E, resume)
<1> DEFINE k == <<r, E>>
<1>0. [state |-> "waiting", reason |-> "other"] \in Stage
  BY DEF Stage
<1>1. CASE ~Reachable(b.stage[r])
  <2>1. c = b
    BY <1>1 DEF Scheduled
  <2>2. b.stage[r] # NewEvidence
    BY <1>1 DEF Reachable, NewEvidence
  <2> QED
    BY <2>1, <2>2 DEF SameAt, Same
<1>2. CASE Reachable(b.stage[r]) /\ E = {}
  <2>1. c = Moved(b, r, "waiting", "other")
    BY <1>2 DEF Scheduled
  <2> HIDE DEF c
  <2>2. /\ c \in Tables /\ c.evals = b.evals /\ c.work = b.work
        /\ \A p \in Revision \ {r} : c.stage[p] = b.stage[p]
    BY <1>0, <2>1, MovedIs
  <2>3. c.stage[r] # NewEvidence
    <3>1. c.stage[r] = IF b.stage[r].state = "blocked" THEN b.stage[r]
                       ELSE [state |-> "waiting", reason |-> "other"]
      BY <1>0, <2>1, MovedIs
    <3> QED
      BY <3>1 DEF NewEvidence
  <2> QED
    BY <2>2, <2>3 DEF SameAt, Same, c
<1>3. CASE Reachable(b.stage[r]) /\ E # {}
  <2>0. k \in Key /\ k[1] = r /\ k \in KeysOf(r)
    BY <1>3, KeyOf
  <2> HIDE DEF k
  <2>1. CASE RuleDecided(b, r, E, {})
    <3>1. c = RecordUnanswerable(b, k)
      BY <1>3, <2>1 DEF Scheduled, k
    <3> HIDE DEF c
    <3>2. /\ c \in Tables
          /\ b.evals[k].state # "absent" => c = b
          /\ b.evals[k].state = "absent" => Decides(b.evals[k], b.work[k], c.evals[k], c.work[k])
          /\ \A j \in Key \ {k} : SameAt(j, b, c)
          /\ \A p \in Revision \ {r} : c.stage[p] = b.stage[p]
          /\ c.stage[r] = NewEvidence => c = b \/ ~NoneQueued(c, r)
      BY <2>0, <3>1, RecordUnanswerableIs
    <3>3. b.evals[k].state = "absent" => c # b
      BY <3>2 DEF Decides
    <3> QED
      BY <2>0, <3>2, <3>3 DEF SameAt, Same, k, c
  <2>2. CASE ~RuleDecided(b, r, E, {}) /\ b.evals[k].state = "absent"
    <3>1. c = Queued(b, k)
      BY <1>3, <2>2 DEF Scheduled, k
    <3> HIDE DEF c
    <3>2. /\ c \in Tables
          /\ Asks(b.evals[k], b.work[k], c.evals[k], c.work[k])
          /\ \A j \in Key \ {k} :
               \/ SameAt(j, b, c)
               \/ j[1] = r /\ GivesWay(b.evals[j], b.work[j], c.evals[j], c.work[j])
          /\ \A p \in Revision \ {r} : c.stage[p] = b.stage[p]
      BY <2>0, <2>2, <3>1, QueuedIs
    <3>3. ~NoneQueued(c, r)
      BY <2>0, <3>2 DEF NoneQueued, Asks
    <3> QED
      BY <3>2, <3>3 DEF k, c
  <2>3. CASE ~RuleDecided(b, r, E, {}) /\ b.evals[k].state # "absent" /\ resume /\ Resumable(b, k)
    <3>1. c = Resumed(b, k)
      BY <1>3, <2>3 DEF Scheduled, k
    <3> HIDE DEF c
    <3>2. /\ c \in Tables
          /\ Resumes(b.evals[k], b.work[k], c.evals[k], c.work[k])
          /\ \A j \in Key \ {k} : SameAt(j, b, c)
          /\ \A p \in Revision \ {r} : c.stage[p] = b.stage[p]
      BY <2>0, <2>3, <3>1, ResumedIs
    <3>3. ~NoneQueued(c, r)
      BY <2>0, <3>2 DEF NoneQueued, Resumes
    <3> QED
      BY <3>2, <3>3 DEF k, c
  <2>4. CASE /\ ~RuleDecided(b, r, E, {}) /\ b.evals[k].state # "absent"
             /\ resume /\ ~Resumable(b, k)
    <3>1. c = Moved(b, r, "waiting", "other")
      BY <1>3, <2>4 DEF Scheduled, k
    <3> HIDE DEF c
    <3>2. /\ c \in Tables /\ c.evals = b.evals /\ c.work = b.work
          /\ \A p \in Revision \ {r} : c.stage[p] = b.stage[p]
      BY <1>0, <3>1, MovedIs
    <3>3. c.stage[r] # NewEvidence
      <4>1. c.stage[r] = IF b.stage[r].state = "blocked" THEN b.stage[r]
                         ELSE [state |-> "waiting", reason |-> "other"]
        BY <1>0, <3>1, MovedIs
      <4> QED
        BY <4>1 DEF NewEvidence
    <3> QED
      BY <3>2, <3>3 DEF SameAt, Same, k, c
  <2>5. CASE ~RuleDecided(b, r, E, {}) /\ b.evals[k].state # "absent" /\ ~resume
    <3>1. c = b
      BY <1>3, <2>5 DEF Scheduled, k
    <3> QED
      BY <2>0, <2>5, <3>1 DEF SameAt, Same, k
  <2> QED
    BY <2>1, <2>2, <2>3, <2>4, <2>5
<1> QED
  BY <1>1, <1>2, <1>3

(* register: every other candidate's open questions are closed.               *)
LEMMA RegisteredIs ==
    ASSUME NEW b \in Tables, NEW r \in Revision, NEW fact \in {"proposed", "active", "retracted"},
           \A k \in Key : b.work[k].token < MaxToken
    PROVE  LET c == Registered(b, r, fact)
           IN  /\ c \in Tables
               /\ c.stage[r] = Standing(fact)
               /\ \A p \in Revision \ {r} : c.stage[p] = Superseded(b.stage[p])
               /\ \A k \in KeysOf(r) : SameAt(k, b, c)
               /\ \A k \in Key \ KeysOf(r) :
                    Fenced(b.evals[k], b.work[k], c.evals[k], c.work[k])
<1> DEFINE stages == [p \in Revision |-> IF p = r THEN Standing(fact) ELSE Superseded(b.stage[p])]
<1> DEFINE d == [b EXCEPT !.stage = stages]
<1> DEFINE c == Registered(b, r, fact)
<1>1. stages \in [Revision -> Stage]
  <2>1. Standing(fact) \in Stage
    BY DEF Standing, Stage
  <2>2. \A p \in Revision : Superseded(b.stage[p]) \in Stage
    BY TablesAre DEF Superseded, Stage
  <2> QED
    BY <2>1, <2>2
<1>2. stages[r] = Standing(fact) /\ \A p \in Revision \ {r} : stages[p] = Superseded(b.stage[p])
  OBVIOUS
<1>3. c = Retired(d, Key \ KeysOf(r), "obsolete", "refused")
  BY DEF Registered
<1> HIDE DEF stages
<1>4. d = [stage |-> stages, evals |-> b.evals, work |-> b.work]
  BY DEF Tables
<1> HIDE DEF d, c
<1>5. d \in Tables
  BY <1>1, <1>4, TablesAre DEF Tables
<1>6. /\ c \in Tables /\ c.stage = stages
      /\ \A k \in Key \ KeysOf(r) : Fenced(b.evals[k], b.work[k], c.evals[k], c.work[k])
      /\ \A k \in KeysOf(r) : SameAt(k, b, c)
  <2>1. d.evals = b.evals /\ d.work = b.work /\ d.stage = stages
    BY <1>4
  <2>2. "refused" \in Kind /\ KeysOf(r) \subseteq Key
    BY DEF Kind, KeysOf
  <2>3. /\ c \in Tables /\ c.stage = d.stage
        /\ \A k \in Key \ KeysOf(r) : Fenced(d.evals[k], d.work[k], c.evals[k], c.work[k])
        /\ \A k \in Key \ (Key \ KeysOf(r)) : SameAt(k, d, c)
    BY <1>3, <1>5, <2>1, <2>2, RetiredIs
  <2> QED
    BY <2>1, <2>2, <2>3 DEF SameAt
<1> QED
  BY <1>2, <1>6 DEF c

-----------------------------------------------------------------------------
(***************************************************************************)
(* What every step does, from which the invariant follows: each question   *)
(* takes a turn, ...                                                       *)
(***************************************************************************)
Claims(e, w, f, v) ==
    /\ f = e /\ w.state = "pending"
    /\ v.state = "leased" /\ v.attempt = w.attempt + 1 /\ v.token = w.token + 1

ClaimAt(k, b, c) == Claims(b.evals[k], b.work[k], c.evals[k], c.work[k])

Grants == {<<t.key, t.token>> : t \in tasks}

QuietStep == (\A k \in Key : TurnAt(k, Now, Then)) /\ Grants' \subseteq Grants

ReplyStep ==
    \E t \in tasks :
        /\ Holds(t) /\ tasks' = tasks \ {t}
        /\ ReplyAt(t.key, Now, Then)
        /\ \A k \in Key \ {t.key} : TurnAt(k, Now, Then)

ClaimStep ==
    \E k \in Key :
        /\ ClaimAt(k, Now, Then)
        /\ Grants' = Grants \cup {<<k, work'[k].token>>}
        /\ \A j \in Key \ {k} : SameAt(j, Now, Then)

Turns == QuietStep \/ ReplyStep \/ ClaimStep

(* ... nothing is asked of a revision to come or citing what nobody said, ... *)
AskedKnown ==
    /\ claim.head <= claim'.head /\ heard \subseteq heard'
    /\ \A k \in Key : evals'[k].state # "absent" =>
          \/ evals[k].state # "absent"
          \/ k[1] <= claim'.head /\ k[2] \subseteq heard'

(* ... a verdict's revision has its answer, ...                               *)
ParentAnswered ==
    \A r \in Revision : parent'[r] # {} =>
        \/ parent'[r] = parent[r]
        \/ evals'[<<r, parent'[r]>>].state = "answered"

(* ... and a candidate keeps the evidence it was woken for.                   *)
StaysNew(r, b, c) ==
    c.stage[r] = NewEvidence =>
        \/ ~NoneQueued(c, r)
        \/ /\ b.stage[r] = NewEvidence
           /\ \A k \in KeysOf(r) : c.evals[k].state = b.evals[k].state

EvidenceKept ==
    \A r \in Revision : stage'[r] = NewEvidence =>
        \/ ~NoneQueued(Then, r)
        \/ /\ stage[r] = NewEvidence
           /\ \A k \in KeysOf(r) : evals'[k].state = evals[k].state
           /\ Live(evidence[r]) \subseteq Live(evidence[r])'
        \/ \E s \in Live(evidence[r])' : Uncited(r, s)'

Step ==
    /\ TypeOK' /\ Turns /\ AskedKnown /\ ParentAnswered /\ EvidenceKept
    /\ TokensApart' /\ RequestsPaid'

LEMMA NowIsTables == TypeOK => Now \in Tables
BY DEF TypeOK, Now, Tables

LEMMA TurnKeeps ==
    ASSUME NEW e \in Evaluation, NEW w \in Row, NEW f \in Evaluation, NEW v \in Row,
           Turn(e, w, f, v) \/ Reply(e, w, f, v) \/ Claims(e, w, f, v)
    PROVE  /\ w.token <= v.token
           /\ w.attempt <= w.token => v.attempt <= v.token
           /\ e.state = "answered" => f.state = "answered"
           /\ (/\ w.state \in {"pending", "leased"} => e.state \in {"queued", "obsolete"}
               /\ w.state = "done" => e.state = "answered"
               /\ w.state = "failed" => e.state \notin {"absent", "answered"}
               /\ e.state = "queued" => w.state \in {"pending", "leased", "failed"}
               /\ e.state = "failed" => w.state = "failed")
              =>
              (/\ v.state \in {"pending", "leased"} => f.state \in {"queued", "obsolete"}
               /\ v.state = "done" => f.state = "answered"
               /\ v.state = "failed" => f.state \notin {"absent", "answered"}
               /\ f.state = "queued" => v.state \in {"pending", "leased", "failed"}
               /\ f.state = "failed" => v.state = "failed")
<1>1. /\ w.token \in Int /\ v.token \in Int /\ w.attempt \in Int /\ v.attempt \in Int
      /\ w.token >= 0 /\ v.token >= 0 /\ w.attempt >= 0 /\ v.attempt >= 0
  BY RowParts
<1>2. /\ e.state \in {"absent", "queued", "answered", "failed", "revoked", "obsolete"}
      /\ w.state \in {"absent", "pending", "leased", "done", "failed", "obsolete"}
      /\ [w EXCEPT !.state = "pending"].state = "pending"
      /\ [w EXCEPT !.state = "pending"].token = w.token
      /\ [w EXCEPT !.state = "pending"].attempt = w.attempt
      /\ [w EXCEPT !.state = "obsolete"].state = "obsolete"
      /\ [w EXCEPT !.state = "obsolete"].token = w.token
      /\ [w EXCEPT !.state = "obsolete"].attempt = w.attempt
  BY DEF Evaluation, Row
<1>3. CASE Turn(e, w, f, v)
  <2>1. CASE Same(e, w, f, v)
    BY <1>1, <2>1 DEF Same
  <2>2. CASE Asks(e, w, f, v) \/ Decides(e, w, f, v)
    <3>1. CASE Asks(e, w, f, v)
      BY <1>1, <1>2, <3>1 DEF Asks
    <3>2. CASE Decides(e, w, f, v)
      BY <1>1, <3>2 DEF Decides
    <3> QED
      BY <2>2, <3>1, <3>2
  <2>3. CASE GivesWay(e, w, f, v)
    <3>1. CASE w.state = "pending"
      BY <1>1, <1>2, <2>3, <3>1 DEF GivesWay
    <3>2. CASE w.state # "pending"
      BY <1>1, <1>2, <2>3, <3>2 DEF GivesWay
    <3> QED
      BY <3>1, <3>2
  <2>4. CASE Fenced(e, w, f, v)
    BY <1>1, <1>2, <2>4 DEF Fenced
  <2>5. CASE Resumes(e, w, f, v) \/ TimesOut(e, w, f, v)
    BY <1>1, <1>2, <2>5 DEF Resumes, TimesOut
  <2>6. CASE Reopens(e, w, f, v) \/ Reconciles(e, w, f, v) \/ Begins(e, w, f, v)
    BY <1>1, <1>2, <2>6 DEF Reopens, Reconciles, Begins
  <2> QED
    BY <1>3, <2>1, <2>2, <2>3, <2>4, <2>5, <2>6 DEF Turn
<1>4. CASE Reply(e, w, f, v)
  <2>1. v.token = w.token /\ v.attempt <= w.attempt /\ w.state = "leased"
    BY <1>1, <1>4 DEF Reply
  <2> QED
    BY <1>1, <1>2, <1>4, <2>1 DEF Reply, PutsBack, GivesUp, Finishes, Drops
<1>5. CASE Claims(e, w, f, v)
  BY <1>1, <1>2, <1>5 DEF Claims
<1> QED
  BY <1>3, <1>4, <1>5

(* Each question takes one of the turns.                                      *)
LEMMA EveryKeyTurns ==
    ASSUME Turns, NEW k \in Key
    PROVE  TurnAt(k, Now, Then) \/ ReplyAt(k, Now, Then) \/ ClaimAt(k, Now, Then)
BY DEF Turns, QuietStep, ReplyStep, ClaimStep, TurnAt, SameAt, Turn

LEMMA StepKeepsTables ==
    ASSUME Inv, TypeOK', Turns
    PROVE  /\ InStep' /\ AttemptsWithinTokens'
           /\ \A k \in Key : work[k].token <= work'[k].token
           /\ \A k \in Key : evals[k].state = "answered" => evals'[k].state = "answered"
<1>1. ASSUME NEW k \in Key
      PROVE  /\ evals[k] \in Evaluation /\ evals'[k] \in Evaluation
             /\ work[k] \in Row /\ work'[k] \in Row
             /\ \/ Turn(evals[k], work[k], evals'[k], work'[k])
                \/ Reply(evals[k], work[k], evals'[k], work'[k])
                \/ Claims(evals[k], work[k], evals'[k], work'[k])
  <2>1. /\ evals[k] \in Evaluation /\ evals'[k] \in Evaluation
        /\ work[k] \in Row /\ work'[k] \in Row
    BY DEF Inv, TypeOK
  <2> QED
    BY <2>1, EveryKeyTurns DEF TurnAt, ReplyAt, ClaimAt, Now, Then
<1>2. InStep' /\ AttemptsWithinTokens'
  BY <1>1, TurnKeeps DEF Inv, InStep, AttemptsWithinTokens
<1> QED
  BY <1>1, <1>2, TurnKeeps

LEMMA StepKeeps == ASSUME Inv, Step PROVE Inv'
<1>1. InStep' /\ AttemptsWithinTokens'
      /\ \A k \in Key : evals[k].state = "answered" => evals'[k].state = "answered"
  BY StepKeepsTables DEF Step
<1>2. AskedOfWhatIs'
  <2> SUFFICES ASSUME NEW k \in Key, evals'[k].state # "absent"
               PROVE  k[1] <= claim'.head /\ k[2] \subseteq heard'
    BY DEF AskedOfWhatIs
  <2>1. k[1] \in Int /\ claim.head \in Int /\ claim'.head \in Int
    BY KeyParts, EvaluationAssumption DEF Step, Inv, TypeOK, Revision
  <2> QED
    BY <2>1 DEF Step, AskedKnown, Inv, AskedOfWhatIs
<1>3. InheritedAnswered'
  <2> SUFFICES ASSUME NEW r \in Revision, parent'[r] # {}
               PROVE  evals'[<<r, parent'[r]>>].state = "answered"
    BY DEF InheritedAnswered
  <2>1. <<r, parent'[r]>> \in Key
    BY KeyOf DEF Step, TypeOK
  <2> QED
    BY <1>1, <2>1 DEF Step, ParentAnswered, Inv, InheritedAnswered
<1>4. NewEvidenceUncited'
  <2> SUFFICES ASSUME NEW r \in Revision, stage'[r] = NewEvidence, NoneQueued(Now, r)'
               PROVE  \E s \in Live(evidence[r])' : Uncited(r, s)'
    BY DEF NewEvidenceUncited, NewEvidence
  <2>1. NoneQueued(Then, r)
    BY DEF Then, NoneQueued, Now
  <2>2. CASE /\ stage[r] = NewEvidence
             /\ \A k \in KeysOf(r) : evals'[k].state = evals[k].state
             /\ Live(evidence[r]) \subseteq Live(evidence[r])'
    <3>1. NoneQueued(Now, r)
      BY <2>1, <2>2 DEF NoneQueued, Now, Then
    <3>2. PICK s \in Live(evidence[r]) : Uncited(r, s)
      BY <2>2, <3>1 DEF Inv, NewEvidenceUncited
    <3>3. Uncited(r, s)'
      BY <2>2, <3>2 DEF Uncited, KeysOf
    <3> QED
      BY <2>2, <3>3
  <2> QED
    BY <2>1, <2>2 DEF Step, EvidenceKept
<1> QED
  BY <1>1, <1>2, <1>3, <1>4 DEF Step, Inv

-----------------------------------------------------------------------------
(* Counting the attempts that have begun.                                     *)
LEMMA BegunCounted ==
    ASSUME IsFiniteSet(tasks), NEW k
    PROVE  /\ IsFiniteSet(Begun(k)) /\ Cardinality(Begun(k)) \in Nat
           /\ \A S \in SUBSET Begun(k) :
                IsFiniteSet(S) /\ Cardinality(S) \in Nat
                /\ Cardinality(S) <= Cardinality(Begun(k))
           /\ \A t \in Begun(k) : Cardinality(Begun(k) \ {t}) = Cardinality(Begun(k)) - 1
<1>1. Begun(k) \subseteq tasks
  BY DEF Begun
<1>2. IsFiniteSet(Begun(k))
  BY <1>1, FS_Subset
<1> QED
  BY <1>2, FS_CardinalityType, FS_Subset, FS_RemoveElement

MarksKept == \A k \in Key : evals[k].marked => evals'[k].marked

(* Tasks go, none is added, and no mark is taken back.                        *)
LEMMA PaidWithFewerTasks ==
    ASSUME TypeOK, TypeOK', RequestsPaid, tasks' \subseteq tasks, MarksKept, credit' = credit
    PROVE  RequestsPaid'
<1>1. IsFiniteSet(tasks')
  BY FS_Subset DEF RequestsPaid
<1>2. ASSUME NEW k \in Key
      PROVE  credit'[k] >= Cardinality(Begun(k)') + (IF evals'[k].marked THEN 0 ELSE 1)
  <2>1. Begun(k)' \subseteq Begun(k)
    BY DEF Begun
  <2>2. /\ Cardinality(Begun(k)) \in Nat /\ Cardinality(Begun(k)') \in Nat
        /\ Cardinality(Begun(k)') <= Cardinality(Begun(k))
    BY <2>1, BegunCounted DEF RequestsPaid
  <2>3. credit[k] \in Int /\ credit'[k] = credit[k]
    BY DEF TypeOK
  <2>4. credit[k] >= Cardinality(Begun(k)) + (IF evals[k].marked THEN 0 ELSE 1)
    BY DEF RequestsPaid
  <2>5. evals[k].marked => evals'[k].marked
    BY DEF MarksKept
  <2> QED
    BY <2>2, <2>3, <2>4, <2>5
<1> QED
  BY <1>1, <1>2 DEF RequestsPaid

(* A reply may take one mark back: it ends an attempt that had not asked, or  *)
(* the provider's answer allows another request.                              *)
LEMMA PaidAfterReply ==
    ASSUME TypeOK, TypeOK', RequestsPaid, NEW t \in tasks, tasks' = tasks \ {t},
           \A k \in Key \ {t.key} : evals[k].marked => evals'[k].marked,
           \/ t.step = "marked" /\ credit' = credit
           \/ credit' = [credit EXCEPT ![t.key] = @ + 1]
    PROVE  RequestsPaid'
<1>1. IsFiniteSet(tasks')
  BY FS_Subset DEF RequestsPaid
<1>2. ASSUME NEW k \in Key
      PROVE  credit'[k] >= Cardinality(Begun(k)') + (IF evals'[k].marked THEN 0 ELSE 1)
  <2>1. Begun(k)' \subseteq Begun(k)
    BY DEF Begun
  <2>2. /\ Cardinality(Begun(k)) \in Nat /\ Cardinality(Begun(k)') \in Nat
        /\ Cardinality(Begun(k)') <= Cardinality(Begun(k))
    BY <2>1, BegunCounted DEF RequestsPaid
  <2>3. credit[k] \in Int /\ credit \in [Key -> Int]
    BY DEF TypeOK
  <2>4. credit[k] >= Cardinality(Begun(k)) + (IF evals[k].marked THEN 0 ELSE 1)
    BY DEF RequestsPaid
  <2>5. CASE k # t.key
    <3>1. credit'[k] = credit[k] /\ (evals[k].marked => evals'[k].marked)
      BY <2>3, <2>5
    <3> QED
      BY <2>2, <2>3, <2>4, <3>1
  <2>6. CASE k = t.key /\ t.step = "marked" /\ credit' = credit
    <3>1. t \in Begun(k) /\ Begun(k)' = Begun(k) \ {t}
      BY <2>6 DEF Begun
    <3>2. Cardinality(Begun(k)') = Cardinality(Begun(k)) - 1
      BY <3>1, BegunCounted DEF RequestsPaid
    <3> QED
      BY <2>2, <2>3, <2>4, <2>6, <3>2
  <2>7. CASE k = t.key /\ credit' = [credit EXCEPT ![t.key] = @ + 1]
    <3>1. credit'[k] = credit[k] + 1
      BY <2>3, <2>7
    <3> QED
      BY <2>2, <2>3, <2>4, <3>1
  <2> QED
    BY <2>5, <2>6, <2>7
<1> QED
  BY <1>1, <1>2 DEF RequestsPaid

(* A grant pays for the mark it takes back.                                   *)
LEMMA PaidByGrant ==
    ASSUME TypeOK, TypeOK', RequestsPaid, NEW j \in Key, tasks' = tasks,
           \A k \in Key \ {j} : evals[k].marked => evals'[k].marked,
           credit' = [credit EXCEPT ![j] = @ + 1]
    PROVE  RequestsPaid'
<1>2. ASSUME NEW k \in Key
      PROVE  credit'[k] >= Cardinality(Begun(k)') + (IF evals'[k].marked THEN 0 ELSE 1)
  <2>1. Begun(k)' = Begun(k)
    BY DEF Begun
  <2>2. Cardinality(Begun(k)) \in Nat
    BY BegunCounted DEF RequestsPaid
  <2>3. credit[k] \in Int /\ credit'[k] = IF k = j THEN credit[k] + 1 ELSE credit[k]
    BY DEF TypeOK
  <2>4. credit[k] >= Cardinality(Begun(k)) + (IF evals[k].marked THEN 0 ELSE 1)
    BY DEF RequestsPaid
  <2> QED
    BY <2>1, <2>2, <2>3, <2>4
<1> QED
  BY <1>2 DEF RequestsPaid

(* Tasks learn of something: the same attempts have begun.                    *)
LEMMA PaidWhenTouched ==
    ASSUME TypeOK, TypeOK', RequestsPaid, NEW what, Touch(what), MarksKept, credit' = credit
    PROVE  RequestsPaid'
<1> DEFINE told(t) == IF t.step \in {"marked", "asked"}
                      THEN [t EXCEPT !.touched = @ \cup {what}] ELSE t
<1>0. ASSUME NEW t \in tasks PROVE told(t).key = t.key /\ told(t).step = t.step
  BY DEF TypeOK, Task
<1>1. tasks' = {told(t) : t \in tasks}
  BY DEF Touch
<1> HIDE DEF told
<1>2. IsFiniteSet(tasks')
  <2>1. [t \in tasks |-> told(t)] \in Surjection(tasks, tasks')
    BY <1>1 DEF Surjection
  <2> QED
    BY <2>1, FS_Surjection DEF RequestsPaid
<1>3. ASSUME NEW k \in Key
      PROVE  credit'[k] >= Cardinality(Begun(k)') + (IF evals'[k].marked THEN 0 ELSE 1)
  <2>1. [t \in Begun(k) |-> told(t)] \in Surjection(Begun(k), Begun(k)')
    <3>1. \A t \in Begun(k) : told(t) \in Begun(k)'
      BY <1>0, <1>1 DEF Begun
    <3>2. \A u \in Begun(k)' : \E t \in Begun(k) : told(t) = u
      BY <1>0, <1>1 DEF Begun
    <3> QED
      BY <3>1, <3>2 DEF Surjection
  <2>2. IsFiniteSet(Begun(k)) /\ Cardinality(Begun(k)) \in Nat
    BY BegunCounted DEF RequestsPaid
  <2>3. IsFiniteSet(Begun(k)') /\ Cardinality(Begun(k)') <= Cardinality(Begun(k))
    BY <2>1, <2>2, FS_Surjection
  <2>4. Cardinality(Begun(k)') \in Nat
    BY <2>3, FS_CardinalityType
  <2>5. credit[k] \in Int /\ credit'[k] = credit[k]
    BY DEF TypeOK
  <2>6. credit[k] >= Cardinality(Begun(k)) + (IF evals[k].marked THEN 0 ELSE 1)
    BY DEF RequestsPaid
  <2>7. evals[k].marked => evals'[k].marked
    BY DEF MarksKept
  <2> QED
    BY <2>2, <2>3, <2>4, <2>5, <2>6, <2>7
<1> QED
  BY <1>2, <1>3 DEF RequestsPaid

(* A claim adds a task that has not begun.                                    *)
LEMMA PaidWhenClaimed ==
    ASSUME TypeOK, TypeOK', RequestsPaid, NEW u, u.step = "claimed", tasks' = tasks \cup {u},
           MarksKept, credit' = credit
    PROVE  RequestsPaid'
<1>1. IsFiniteSet(tasks')
  BY FS_AddElement DEF RequestsPaid
<1>2. \A k \in Key : Begun(k)' = Begun(k)
  BY DEF Begun
<1>3. ASSUME NEW k \in Key
      PROVE  credit'[k] >= Cardinality(Begun(k)') + (IF evals'[k].marked THEN 0 ELSE 1)
  <2>1. credit[k] \in Int /\ Cardinality(Begun(k)) \in Nat
    BY BegunCounted DEF RequestsPaid, TypeOK
  <2> QED
    BY <1>2, <2>1 DEF RequestsPaid, MarksKept
<1> QED
  BY <1>1, <1>3 DEF RequestsPaid

(***************************************************************************)
(* A task goes on a step: finding out costs nothing, beginning uses the    *)
(* mark that was still to be had, asking the request that was set aside.   *)
(***************************************************************************)
LEMMA PaidWhenAdvanced ==
    ASSUME TypeOK, TypeOK', RequestsPaid, NEW t \in tasks, NEW step,
           tasks' = (tasks \ {t}) \cup {[t EXCEPT !.step = step]}, MarksKept,
           \/ step \in {"revoked", "interrupted"} /\ credit' = credit
           \/ /\ step = "marked" /\ credit' = credit
              /\ ~evals[t.key].marked /\ evals'[t.key].marked
           \/ /\ step = "asked" /\ t.step = "marked"
              /\ credit' = [credit EXCEPT ![t.key] = @ - 1]
    PROVE  RequestsPaid'
<1> DEFINE u == [t EXCEPT !.step = step]
<1>0. u.key = t.key /\ u.step = step
  BY DEF TypeOK, Task
<1> HIDE DEF u
<1>1. tasks' = (tasks \ {t}) \cup {u}
  BY DEF u
<1>2. IsFiniteSet(tasks')
  BY <1>1, FS_AddElement, FS_Subset DEF RequestsPaid
<1>3. ASSUME NEW k \in Key
      PROVE  credit'[k] >= Cardinality(Begun(k)') + (IF evals'[k].marked THEN 0 ELSE 1)
  <2>1. IsFiniteSet(Begun(k)) /\ Cardinality(Begun(k)) \in Nat
    BY BegunCounted DEF RequestsPaid
  <2>2. credit[k] \in Int /\ credit \in [Key -> Int]
    BY DEF TypeOK
  <2>3. credit[k] >= Cardinality(Begun(k)) + (IF evals[k].marked THEN 0 ELSE 1)
    BY DEF RequestsPaid
  <2>4. evals[k].marked => evals'[k].marked
    BY DEF MarksKept
  <2>5. CASE (k # t.key \/ step \in {"revoked", "interrupted"}) /\ credit'[k] = credit[k]
    <3>1. Begun(k)' \subseteq Begun(k)
      BY <1>0, <1>1, <2>5 DEF Begun
    <3>2. Cardinality(Begun(k)') \in Nat /\ Cardinality(Begun(k)') <= Cardinality(Begun(k))
      BY <3>1, BegunCounted DEF RequestsPaid
    <3> QED
      BY <2>1, <2>2, <2>3, <2>4, <2>5, <3>2
  <2>6. CASE k = t.key /\ step = "marked"
    <3>1. Begun(k)' \subseteq Begun(k) \cup {u}
      BY <1>0, <1>1 DEF Begun
    <3>2. /\ IsFiniteSet(Begun(k) \cup {u})
          /\ Cardinality(Begun(k) \cup {u}) \in {Cardinality(Begun(k)), Cardinality(Begun(k)) + 1}
      BY <2>1, FS_AddElement
    <3>3. Cardinality(Begun(k)') <= Cardinality(Begun(k) \cup {u}) /\ IsFiniteSet(Begun(k)')
      BY <3>1, <3>2, FS_Subset
    <3>4. Cardinality(Begun(k)') \in Nat
      BY <3>3, FS_CardinalityType
    <3>5. credit'[k] = credit[k] /\ ~evals[k].marked /\ evals'[k].marked
      BY <2>6
    <3> QED
      BY <2>1, <2>2, <2>3, <3>2, <3>3, <3>4, <3>5
  <2>7. CASE k = t.key /\ step = "asked"
    <3>1. t \in Begun(k) /\ Begun(k)' = Begun(k) \ {t}
      BY <1>0, <1>1, <2>7 DEF Begun
    <3>2. Cardinality(Begun(k)') = Cardinality(Begun(k)) - 1
      BY <3>1, BegunCounted DEF RequestsPaid
    <3>3. credit'[k] = credit[k] - 1
      BY <2>2, <2>7
    <3> QED
      BY <2>1, <2>2, <2>3, <2>4, <3>2, <3>3
  <2>8. k # t.key => credit'[k] = credit[k]
    BY <2>2
  <2>9. step \in {"revoked", "interrupted"} => credit'[k] = credit[k]
    BY <2>2
  <2> QED
    BY <2>5, <2>6, <2>7, <2>8, <2>9
<1> QED
  BY <1>2, <1>3 DEF RequestsPaid

-----------------------------------------------------------------------------
(* Tasks keep the generation they hold, whatever they learn or do.            *)
TokensOnward == \A k \in Key : work[k].token \in Int /\ work'[k].token \in Int
                               /\ work[k].token <= work'[k].token

LEMMA FewerTasks ==
    ASSUME TypeOK, TokensApart, TokensOnward, tasks' \subseteq tasks
    PROVE  tasks' \subseteq Task /\ TokensApart' /\ Grants' \subseteq Grants
<1>1. \A t \in tasks : t.key \in Key /\ t.token \in Int
  BY EvaluationAssumption DEF TypeOK, Task
<1> QED
  BY <1>1 DEF TypeOK, TokensApart, TokensOnward, Grants

LEMMA TasksAdvance ==
    ASSUME TypeOK, TokensApart, TokensOnward, NEW t \in tasks,
           NEW step \in {"revoked", "interrupted", "marked", "asked"},
           tasks' = (tasks \ {t}) \cup {[t EXCEPT !.step = step]}
    PROVE  tasks' \subseteq Task /\ TokensApart' /\ Grants' \subseteq Grants
<1> DEFINE u == [t EXCEPT !.step = step]
<1>1. \A x \in tasks : x.key \in Key /\ x.token \in Int
  BY EvaluationAssumption DEF TypeOK, Task
<1>2. u \in Task /\ u.key = t.key /\ u.token = t.token
  BY DEF TypeOK, Task
<1>3. tasks' = (tasks \ {t}) \cup {u}
  OBVIOUS
<1> HIDE DEF u
<1>4. TokensApart'
  <2>1. ASSUME NEW x \in tasks' PROVE x.token <= work'[x.key].token
    <3>1. CASE x \in tasks
      BY <1>1, <3>1 DEF TokensApart, TokensOnward
    <3>2. CASE x = u
      BY <1>1, <1>2, <3>2 DEF TokensApart, TokensOnward
    <3> QED
      BY <1>3, <3>1, <3>2
  <2>2. ASSUME NEW x \in tasks', NEW y \in tasks', x.key = y.key, x.token = y.token
        PROVE  x = y
    BY <1>2, <1>3, <2>2 DEF TokensApart
  <2> QED
    BY <2>1, <2>2 DEF TokensApart
<1> QED
  BY <1>2, <1>3, <1>4 DEF TypeOK, Grants

LEMMA TasksTouched ==
    ASSUME TypeOK, TokensApart, TokensOnward, NEW what \in {"retracted", "paused"}, Touch(what)
    PROVE  tasks' \subseteq Task /\ TokensApart' /\ Grants' \subseteq Grants
<1> DEFINE told(t) == IF t.step \in {"marked", "asked"}
                      THEN [t EXCEPT !.touched = @ \cup {what}] ELSE t
<1>1. \A x \in tasks : x.key \in Key /\ x.token \in Int
  BY EvaluationAssumption DEF TypeOK, Task
<1>2. ASSUME NEW t \in tasks
      PROVE  told(t) \in Task /\ told(t).key = t.key /\ told(t).token = t.token
  <2>1. t \in Task /\ t.touched \cup {what} \in SUBSET {"retracted", "paused"}
    BY DEF TypeOK, Task
  <2> QED
    BY <2>1 DEF Task
<1>3. tasks' = {told(t) : t \in tasks}
  BY DEF Touch
<1> HIDE DEF told
<1>4. TokensApart'
  <2>1. ASSUME NEW x \in tasks' PROVE x.token <= work'[x.key].token
    BY <1>1, <1>2, <1>3, <2>1 DEF TokensApart, TokensOnward
  <2>2. ASSUME NEW x \in tasks', NEW y \in tasks', x.key = y.key, x.token = y.token
        PROVE  x = y
    BY <1>2, <1>3, <2>2 DEF TokensApart
  <2> QED
    BY <2>1, <2>2 DEF TokensApart
<1>5. tasks' \subseteq Task
  BY <1>2, <1>3
<1> QED
  BY <1>2, <1>3, <1>4, <1>5 DEF Grants

LEMMA TaskClaimed ==
    ASSUME TypeOK, TokensApart, TokensOnward, NEW u \in Task, u.token > work[u.key].token,
           u.token <= work'[u.key].token, tasks' = tasks \cup {u}
    PROVE  tasks' \subseteq Task /\ TokensApart'
<1>1. \A x \in tasks : x.key \in Key /\ x.token \in Int
  BY EvaluationAssumption DEF TypeOK, Task
<1>2. u.key \in Key /\ u.token \in Int
  BY EvaluationAssumption DEF Task
<1>3. TokensApart'
  <2>1. ASSUME NEW x \in tasks' PROVE x.token <= work'[x.key].token
    BY <1>1, <1>2, <2>1 DEF TokensApart, TokensOnward
  <2>2. ASSUME NEW x \in tasks PROVE ~(x.key = u.key /\ x.token = u.token)
    BY <1>1, <1>2 DEF TokensApart, TokensOnward
  <2>3. ASSUME NEW x \in tasks', NEW y \in tasks', x.key = y.key, x.token = y.token
        PROVE  x = y
    BY <2>2, <2>3 DEF TokensApart
  <2> QED
    BY <2>1, <2>3 DEF TokensApart
<1> QED
  BY <1>3 DEF TypeOK

LEMMA TokensGoOnward ==
    ASSUME TypeOK, Then \in Tables,
           \A k \in Key : TurnAt(k, Now, Then) \/ ReplyAt(k, Now, Then) \/ ClaimAt(k, Now, Then)
    PROVE  TokensOnward
<1>1. ASSUME NEW k \in Key
      PROVE  work[k].token \in Int /\ work'[k].token \in Int /\ work[k].token <= work'[k].token
  <2>1. /\ evals[k] \in Evaluation /\ evals'[k] \in Evaluation
        /\ work[k] \in Row /\ work'[k] \in Row
    BY TablesAre DEF TypeOK, Then, Now
  <2>2. \/ Turn(evals[k], work[k], evals'[k], work'[k])
        \/ Reply(evals[k], work[k], evals'[k], work'[k])
        \/ Claims(evals[k], work[k], evals'[k], work'[k])
    BY DEF TurnAt, ReplyAt, ClaimAt, Now, Then
  <2> QED
    BY <2>1, <2>2, TurnKeeps, RowParts
<1> QED
  BY <1>1 DEF TokensOnward

LEMMA InitInv == Init => Inv
<1> SUFFICES ASSUME Init PROVE Inv
  OBVIOUS
<1>1. 0 \in 0 .. MaxToken /\ 0 \in 0 .. MaxRevision
  BY EvaluationAssumption
<1>2. NoHistory \in History
  BY DEF NoHistory, Bare, History, Kind
<1>3. TypeOK
  <2>1. [state |-> "absent", attempt |-> 0, token |-> 0, history |-> NoHistory] \in Row
    BY <1>1, <1>2 DEF Row
  <2>2. /\ [state |-> "absent", reason |-> "other"] \in Stage
        /\ [state |-> "absent", marked |-> FALSE] \in Evaluation
    BY DEF Stage, Evaluation
  <2>3. stage \in [Revision -> Stage] /\ evals \in [Key -> Evaluation] /\ work \in [Key -> Row]
    BY <2>1, <2>2 DEF Init
  <2>4. /\ source \in [Source -> Readable] /\ heard \subseteq Source
        /\ claim \in [head: 0 .. MaxRevision, fact: {"proposed", "active", "retracted"},
                     read: Readable]
    BY <1>1 DEF Init, Readable
  <2>5. basis \in [Revision -> SUBSET heard] /\ evidence \in [Revision -> SUBSET heard]
    BY DEF Init
  <2>6. tasks \subseteq Task /\ paused \in BOOLEAN
    BY DEF Init
  <2>7. parent \in [Revision -> SUBSET Source]
    BY DEF Init
  <2>8. credit \in [Key -> Int]
    BY DEF Init
  <2> QED
    BY <2>3, <2>4, <2>5, <2>6, <2>7, <2>8 DEF TypeOK
<1>4. RequestsPaid
  <2>1. ASSUME NEW k \in Key
        PROVE  Begun(k) = {} /\ credit[k] = 1 /\ evals[k].marked = FALSE
    BY DEF Init, Begun
  <2>3. tasks = {}
    BY DEF Init
  <2>2. IsFiniteSet({}) /\ Cardinality({}) = 0
    BY FS_EmptySet
  <2>4. ASSUME NEW k \in Key
        PROVE  credit[k] >= Cardinality(Begun(k)) + (IF evals[k].marked THEN 0 ELSE 1)
    <3>1. Cardinality(Begun(k)) = 0 /\ credit[k] = 1 /\ evals[k].marked = FALSE
      BY <2>1, <2>2
    <3> QED
      BY <3>1
  <2> QED
    BY <2>2, <2>3, <2>4 DEF RequestsPaid
<1>5. AttemptsWithinTokens /\ TokensApart /\ AskedOfWhatIs /\ InheritedAnswered /\ InStep
  BY DEF Init, AttemptsWithinTokens, TokensApart, AskedOfWhatIs, InheritedAnswered, InStep
<1>6. NewEvidenceUncited
  BY DEF Init, NewEvidenceUncited, NewEvidence
<1> QED
  BY <1>3, <1>4, <1>5, <1>6 DEF Inv

-----------------------------------------------------------------------------
(* A worker's reply, whatever it says.                                        *)
LEMMA ClosedIs ==
    ASSUME NEW b \in Tables, NEW k \in Key,
           NEW state \in {"answered", "failed", "revoked", "obsolete"}
    PROVE  LET c == Closed(b, k, state)
           IN  /\ c \in Tables /\ c.stage = b.stage /\ c.work = b.work
               /\ c.evals[k].state = IF b.evals[k].state = "queued" THEN state
                                     ELSE b.evals[k].state
               /\ c.evals[k].marked = b.evals[k].marked
               /\ \A j \in Key \ {k} : c.evals[j] = b.evals[j]
<1> DEFINE e == [b.evals[k] EXCEPT !.state = state]
<1>1. e \in Evaluation /\ e.state = state /\ e.marked = b.evals[k].marked
  BY TablesAre DEF Evaluation
<1>2. CASE b.evals[k].state = "queued"
  <2>1. Closed(b, k, state) = [b EXCEPT !.evals[k] = e]
    BY <1>2 DEF Closed
  <2> HIDE DEF e
  <2> QED
    BY <1>1, <1>2, <2>1, EvaluationSet
<1>3. CASE b.evals[k].state # "queued"
  BY <1>3 DEF Closed
<1> QED
  BY <1>2, <1>3

LEMMA AttemptReleasedIs ==
    ASSUME NEW b \in Tables, NEW k \in Key
    PROVE  LET c == AttemptReleased(b, k)
           IN  /\ c \in Tables /\ c.stage = b.stage /\ c.work = b.work
               /\ c.evals[k].state = b.evals[k].state
               /\ c.evals[k].marked => b.evals[k].marked
               /\ \A j \in Key \ {k} : c.evals[j] = b.evals[j]
<1> DEFINE e == [b.evals[k] EXCEPT !.marked = FALSE]
<1>0. b.evals[k] \in Evaluation
  BY TablesAre
<1>1. e \in Evaluation /\ e.state = b.evals[k].state /\ ~e.marked
  BY <1>0 DEF Evaluation
<1>2. CASE b.evals[k].state = "queued"
  <2>1. AttemptReleased(b, k) = [b EXCEPT !.evals[k] = e]
    BY <1>2 DEF AttemptReleased
  <2> HIDE DEF e
  <2> QED
    BY <1>1, <1>2, <2>1, EvaluationSet
<1>3. CASE b.evals[k].state # "queued"
  BY <1>3 DEF AttemptReleased
<1> QED
  BY <1>2, <1>3

(* The question is settled, its row rests, and its candidate waits.           *)
SettledTo(b, c, k, row, state) ==
    /\ c \in Tables
    /\ c.work[k] = row /\ c.evals[k].marked = b.evals[k].marked
    /\ c.evals[k].state = IF b.evals[k].state = "queued" THEN state ELSE b.evals[k].state
    /\ \A j \in Key \ {k} : SameAt(j, b, c)
    /\ c.stage[k[1]] # NewEvidence
    /\ \A p \in Revision \ {k[1]} : c.stage[p] = b.stage[p]

LEMMA SettledIs ==
    ASSUME NEW b \in Tables, NEW k \in Key, NEW row \in Row,
           NEW state \in {"answered", "failed", "revoked", "obsolete"},
           NEW to \in {"waiting", "resolved"}, NEW reason \in {"revoked", "other"}
    PROVE  SettledTo(b, Moved(Closed(WithRow(b, k, row), k, state), k[1], to, reason),
                     k, row, state)
<1> DEFINE d == WithRow(b, k, row)
<1> DEFINE g == Closed(d, k, state)
<1> DEFINE c == Moved(g, k[1], to, reason)
<1>1. d \in Tables /\ d.stage = b.stage /\ d.evals = b.evals /\ d.work[k] = row
      /\ \A j \in Key \ {k} : d.work[j] = b.work[j]
  BY RowSet
<1> HIDE DEF d
<1>2. /\ g \in Tables /\ g.stage = d.stage /\ g.work = d.work
      /\ g.evals[k].state = IF d.evals[k].state = "queued" THEN state ELSE d.evals[k].state
      /\ g.evals[k].marked = d.evals[k].marked
      /\ \A j \in Key \ {k} : g.evals[j] = d.evals[j]
  BY <1>1, ClosedIs
<1> HIDE DEF g
<1>3. k[1] \in Revision /\ [state |-> to, reason |-> reason] \in Stage
  BY KeyParts DEF Stage
<1>0. c = Moved(g, k[1], to, reason)
  OBVIOUS
<1> HIDE DEF c
<1>4. /\ c \in Tables /\ c.evals = g.evals /\ c.work = g.work
      /\ \A p \in Revision \ {k[1]} : c.stage[p] = g.stage[p]
      /\ c.stage[k[1]] = IF g.stage[k[1]].state = "blocked" THEN g.stage[k[1]]
                         ELSE [state |-> to, reason |-> reason]
  BY <1>0, <1>2, <1>3, MovedIs
<1>5. c.stage[k[1]] # NewEvidence
  BY <1>4 DEF NewEvidence
<1> QED
  BY <1>1, <1>2, <1>4, <1>5 DEF SettledTo, SameAt, Same, c, g, d

LEMMA HandedBackIs ==
    ASSUME TypeOK, NEW t \in tasks, NEW row \in Row
    PROVE  LET c == HandedBack(t, row)
           IN  /\ c \in Tables /\ c.stage = stage
               /\ c.work[t.key] = row
               /\ c.evals[t.key].state = evals[t.key].state
               /\ c.evals[t.key].marked => evals[t.key].marked
               /\ \A j \in Key \ {t.key} : SameAt(j, Now, c)
<1> DEFINE d == WithRow(Now, t.key, row)
<1>1. t.key \in Key
  BY DEF TypeOK, Task
<1>2. /\ d \in Tables /\ d.stage = Now.stage /\ d.evals = Now.evals /\ d.work[t.key] = row
      /\ \A j \in Key \ {t.key} : d.work[j] = Now.work[j]
  BY <1>1, NowIsTables, RowSet
<1> HIDE DEF d
<1> DEFINE c == AttemptReleased(d, t.key)
<1>3. /\ c \in Tables /\ c.stage = d.stage /\ c.work = d.work
      /\ c.evals[t.key].state = d.evals[t.key].state
      /\ c.evals[t.key].marked => d.evals[t.key].marked
      /\ \A j \in Key \ {t.key} : c.evals[j] = d.evals[j]
  BY <1>1, <1>2, AttemptReleasedIs
<1> HIDE DEF c
<1>4. Now.stage = stage /\ Now.evals = evals /\ Now.work = work
  BY DEF Now
<1> QED
  BY <1>2, <1>3, <1>4 DEF SameAt, Same, c, d, HandedBack

(***************************************************************************)
(* A reply is a step, if it says one of the four things of its row, leaves *)
(* its candidate's new evidence a question, and pays for a mark it takes   *)
(* back.                                                                   *)
(***************************************************************************)
LEMMA ReplySteps ==
    ASSUME Inv, NEW t \in tasks, NEW b \in Tables, Lands(t, b), UNCHANGED world,
           ReplyAt(t.key, Now, b),
           \A k \in Key \ {t.key} : SameAt(k, Now, b),
           \A r \in Revision : b.stage[r] = NewEvidence =>
               /\ stage[r] = NewEvidence
               /\ r = t.key[1] => b.evals[t.key].state = evals[t.key].state,
           \/ credit' = credit /\ (evals[t.key].marked => b.evals[t.key].marked)
           \/ credit' = credit /\ t.step = "marked"
           \/ credit' = [credit EXCEPT ![t.key] = @ + 1]
    PROVE  Step
<1>1. t.key \in Key /\ TypeOK
  BY DEF Inv, TypeOK, Task
<1>2. Then = b /\ stage' = b.stage /\ evals' = b.evals /\ work' = b.work
  BY TablesAre DEF Lands, Becomes, Then, Now
<1>3. tasks' = tasks \ {t} /\ Holds(t)
  BY DEF Lands
<1>4. \A k \in Key \ {t.key} : TurnAt(k, Now, Then)
  BY <1>2 DEF SameAt, TurnAt, Turn
<1>5. Turns
  BY <1>1, <1>2, <1>3, <1>4 DEF Turns, ReplyStep
<1>6. TokensOnward
  BY <1>1, <1>2, <1>5, EveryKeyTurns, TokensGoOnward
<1>7. tasks' \subseteq Task /\ TokensApart'
  BY <1>1, <1>3, <1>6, FewerTasks DEF Inv
<1>8. TypeOK'
  <2>1. credit' \in [Key -> Int]
    BY <1>1 DEF TypeOK
  <2>2. stage' \in [Revision -> Stage] /\ evals' \in [Key -> Evaluation] /\ work' \in [Key -> Row]
    BY <1>2, TablesAre
  <2> QED
    BY <1>1, <1>7, <2>1, <2>2 DEF TypeOK, world
<1>9. \A k \in Key \ {t.key} : evals'[k] = evals[k] /\ work'[k] = work[k]
  BY <1>2 DEF SameAt, Same, Now
<1>10. evals'[t.key].state # "absent" => evals[t.key].state # "absent"
  BY <1>2 DEF ReplyAt, Reply, PutsBack, GivesUp, Finishes, Drops, Now
<1>11. AskedKnown
  <2>1. claim.head \in Int /\ claim' = claim /\ heard' = heard
    BY <1>1, EvaluationAssumption DEF TypeOK, world
  <2> QED
    BY <1>9, <1>10, <2>1 DEF AskedKnown
<1>12. ParentAnswered
  BY DEF ParentAnswered, world
<1>13. EvidenceKept
  <2> SUFFICES ASSUME NEW r \in Revision, stage'[r] = NewEvidence
               PROVE  /\ stage[r] = NewEvidence
                      /\ \A k \in KeysOf(r) : evals'[k].state = evals[k].state
                      /\ Live(evidence[r]) \subseteq Live(evidence[r])'
    BY DEF EvidenceKept
  <2>1. stage[r] = NewEvidence /\ (r = t.key[1] => evals'[t.key].state = evals[t.key].state)
    BY <1>2
  <2>2. \A k \in KeysOf(r) : evals'[k].state = evals[k].state
    BY <1>9, <2>1 DEF KeysOf
  <2>3. Live(evidence[r]) \subseteq Live(evidence[r])'
    BY DEF Live, world
  <2> QED
    BY <2>1, <2>2, <2>3
<1>14. RequestsPaid'
  <2>1. \A k \in Key \ {t.key} : evals[k].marked => evals'[k].marked
    BY <1>9
  <2>2. CASE credit' = credit /\ (evals[t.key].marked => b.evals[t.key].marked)
    <3>1. MarksKept
      BY <1>2, <2>1, <2>2 DEF MarksKept
    <3> QED
      BY <1>1, <1>3, <1>8, <2>2, <3>1, PaidWithFewerTasks DEF Inv
  <2>3. CASE \/ credit' = credit /\ t.step = "marked"
             \/ credit' = [credit EXCEPT ![t.key] = @ + 1]
    BY <1>1, <1>3, <1>8, <2>1, <2>3, PaidAfterReply DEF Inv
  <2> QED
    BY <2>2, <2>3
<1> QED
  BY <1>5, <1>7, <1>8, <1>11, <1>12, <1>13, <1>14 DEF Step

LEMMA UnleasedIs ==
    ASSUME NEW w \in Row, NEW h \in History,
           NEW state \in {"pending", "done", "failed", "obsolete"}
    PROVE  LET v == Unleased(w, state, h)
           IN  v \in Row /\ v.state = state /\ v.token = w.token /\ v.attempt = w.attempt
BY DEF Unleased, Row

LEMMA RefundedIs ==
    ASSUME NEW w \in Row
    PROVE  LET v == Refunded(w)
           IN  v \in Row /\ v.state = w.state /\ v.token = w.token /\ v.attempt \in 0 .. w.attempt
<1> DEFINE n == IF w.attempt = 0 THEN 0 ELSE w.attempt - 1
<1>1. n \in 0 .. MaxToken /\ n \in 0 .. w.attempt
  BY RowParts
<1>2. Refunded(w) = [w EXCEPT !.attempt = n]
  BY DEF Refunded
<1> HIDE DEF n
<1> QED
  BY <1>1, <1>2 DEF Row

(* A reply that settles the question and sends its candidate to wait.         *)
LEMMA SettlingReply ==
    ASSUME Inv, NEW t \in tasks, NEW row \in Row,
           NEW state \in {"answered", "failed", "revoked", "obsolete"},
           NEW reason \in {"revoked", "other"},
           Lands(t, Moved(Closed(WithRow(Now, t.key, row), t.key, state), t.key[1], "waiting", reason)),
           UNCHANGED world, credit' = credit,
           row.token = work[t.key].token, row.attempt = work[t.key].attempt,
           \/ row.state = "failed" /\ state = "failed"
           \/ row.state = "done" /\ state = "answered" /\ evals[t.key].state = "queued"
           \/ row.state = "obsolete" /\ state \in {"revoked", "obsolete"}
    PROVE  Step
<1> DEFINE k == t.key
<1> DEFINE b == Moved(Closed(WithRow(Now, k, row), k, state), k[1], "waiting", reason)
<1>1. k \in Key /\ TypeOK /\ Now \in Tables /\ work[k] \in Row
  BY NowIsTables DEF Inv, TypeOK, Task
<1>2. Now.stage = stage /\ Now.evals = evals /\ Now.work = work
  BY DEF Now
<1>3. /\ b \in Tables
      /\ b.work[k] = row /\ b.evals[k].marked = evals[k].marked
      /\ b.evals[k].state = IF evals[k].state = "queued" THEN state ELSE evals[k].state
      /\ \A j \in Key \ {k} : SameAt(j, Now, b)
      /\ b.stage[k[1]] # NewEvidence
      /\ \A p \in Revision \ {k[1]} : b.stage[p] = stage[p]
  <2> HIDE DEF k
  <2>2. SettledTo(Now, b, k, row, state)
    BY <1>1, SettledIs
  <2> HIDE DEF b
  <2> QED
    BY <1>2, <2>2 DEF SettledTo
<1> HIDE DEF b
<1>4. Lands(t, b)
  BY DEF b
<1>5. work[k].state = "leased" /\ row.attempt \in 0 .. work[k].attempt
  BY <1>1, <1>4, RowParts DEF Lands, Holds
<1>6. Reply(evals[k], work[k], b.evals[k], row)
  BY <1>3, <1>5 DEF Reply, GivesUp, Finishes, Drops
<1>7. ReplyAt(k, Now, b)
  BY <1>2, <1>3, <1>6 DEF ReplyAt
<1> QED
  BY <1>3, <1>4, <1>7, ReplySteps

(* A reply that puts the question back, its attempt handed back or not.       *)
LEMMA DeferringReply ==
    ASSUME Inv, NEW t \in tasks, NEW row \in Row,
           \/ Lands(t, HandedBack(t, row))
           \/ Lands(t, Moved(HandedBack(t, row), t.key[1], "pending", "other")),
           UNCHANGED world,
           \/ credit' = credit /\ t.step = "marked"
           \/ credit' = [credit EXCEPT ![t.key] = @ + 1],
           row.state = "pending", row.token = work[t.key].token,
           row.attempt \in 0 .. work[t.key].attempt
    PROVE  Step
<1> DEFINE k == t.key
<1> DEFINE d == HandedBack(t, row)
<1>1. k \in Key /\ TypeOK /\ Now \in Tables /\ work[k] \in Row /\ k[1] \in Revision
  BY NowIsTables, KeyParts DEF Inv, TypeOK, Task
<1>2. Now.stage = stage /\ Now.evals = evals /\ Now.work = work
  BY DEF Now
<1>3. /\ d \in Tables /\ d.stage = stage
      /\ d.work[k] = row
      /\ d.evals[k].state = evals[k].state
      /\ d.evals[k].marked => evals[k].marked
      /\ \A j \in Key \ {k} : SameAt(j, Now, d)
  BY <1>1, HandedBackIs
<1> HIDE DEF d
<1>4. PICK b \in Tables :
          /\ Lands(t, b) /\ b.evals = d.evals /\ b.work = d.work
          /\ \A p \in Revision : b.stage[p] = NewEvidence => stage[p] = NewEvidence
  <2>1. CASE Lands(t, d)
    BY <1>3, <2>1
  <2>2. CASE Lands(t, Moved(d, k[1], "pending", "other"))
    <3> DEFINE m == Moved(d, k[1], "pending", "other")
    <3>1. [state |-> "pending", reason |-> "other"] \in Stage
      BY DEF Stage
    <3>2. /\ m \in Tables /\ m.evals = d.evals /\ m.work = d.work
          /\ \A p \in Revision \ {k[1]} : m.stage[p] = d.stage[p]
          /\ m.stage[k[1]] = IF d.stage[k[1]].state = "blocked" THEN d.stage[k[1]]
                             ELSE [state |-> "pending", reason |-> "other"]
      <4> HIDE DEF k
      <4> QED
        BY <1>1, <1>3, <3>1, MovedIs
    <3> HIDE DEF m
    <3>3. \A p \in Revision : m.stage[p] = NewEvidence => stage[p] = NewEvidence
      BY <1>1, <1>3, <3>2 DEF NewEvidence
    <3> QED
      BY <2>2, <3>2, <3>3 DEF m
  <2> QED
    BY <2>1, <2>2 DEF d
<1>5. work[k].state = "leased"
  BY <1>4 DEF Lands, Holds
<1>6. Reply(evals[k], work[k], d.evals[k], row)
  BY <1>3, <1>5 DEF Reply, PutsBack
<1>7. ReplyAt(k, Now, b)
  BY <1>2, <1>3, <1>4, <1>6 DEF ReplyAt
<1>8. \A j \in Key \ {k} : SameAt(j, Now, b)
  BY <1>3, <1>4 DEF SameAt
<1>9. b.evals[k].state = evals[k].state
  BY <1>3, <1>4
<1> QED
  BY <1>4, <1>7, <1>8, <1>9, ReplySteps

(* What a task is about, and what may be written into its row.                *)
LEMMA TaskParts ==
    ASSUME TypeOK, NEW t \in tasks
    PROVE  /\ t.key \in Key /\ t.token \in 1 .. MaxToken /\ t \in Task
           /\ work[t.key] \in Row /\ evals[t.key] \in Evaluation
           /\ work[t.key].history \in History
           /\ \A kind \in Kind : Recorded(work[t.key].history, kind) \in History
           /\ CapacityRefusal(work[t.key].history) \in History
           /\ \A m \in Mark : WithMark(work[t.key].history, m) \in History
<1>1. t \in Task /\ t.key \in Key /\ t.token \in 1 .. MaxToken
  BY DEF TypeOK, Task
<1>2. work[t.key] \in Row /\ evals[t.key] \in Evaluation
  BY <1>1 DEF TypeOK
<1>3. work[t.key].history \in History
  BY <1>2, RowParts
<1> QED
  BY <1>1, <1>2, <1>3, HistoryKept

(* The row put back for later, its attempt counted or given back.             *)
LEMMA RowPutBack ==
    ASSUME NEW w \in Row, NEW h \in History
    PROVE  /\ \A v \in {Unleased(Refunded(w), "pending", h), Unleased(w, "pending", h)} :
                v \in Row /\ v.state = "pending" /\ v.token = w.token
                /\ v.attempt \in 0 .. w.attempt
<1>1. Refunded(w) \in Row /\ Refunded(w).token = w.token /\ Refunded(w).attempt \in 0 .. w.attempt
  BY RefundedIs
<1>2. w.attempt \in 0 .. w.attempt
  BY RowParts
<1>3. LET v == Unleased(Refunded(w), "pending", h)
      IN  v \in Row /\ v.state = "pending" /\ v.token = w.token /\ v.attempt \in 0 .. w.attempt
  BY <1>1, UnleasedIs
<1>4. LET v == Unleased(w, "pending", h)
      IN  v \in Row /\ v.state = "pending" /\ v.token = w.token /\ v.attempt \in 0 .. w.attempt
  BY <1>2, UnleasedIs
<1> QED
  BY <1>3, <1>4

LEMMA DeferSteps == ASSUME Inv, NEW t \in tasks, Defer(t) PROVE Step
<1> DEFINE row == Unleased(Refunded(work[t.key]), "pending", Recorded(work[t.key].history, "held"))
<1> DEFINE b == WithRow(Now, t.key, row)
<1>1. TypeOK /\ t.key \in Key /\ work[t.key] \in Row /\ Now \in Tables
      /\ Recorded(work[t.key].history, "held") \in History
  BY TaskParts, NowIsTables DEF Inv, Kind
<1>2. row \in Row /\ row.state = "pending" /\ row.token = work[t.key].token
      /\ row.attempt \in 0 .. work[t.key].attempt
  BY <1>1, RowPutBack
<1>3. Lands(t, b) /\ UNCHANGED world /\ credit' = credit
  BY DEF Defer
<1> HIDE DEF row
<1>4. b \in Tables /\ b.stage = Now.stage /\ b.evals = Now.evals /\ b.work[t.key] = row
      /\ \A j \in Key \ {t.key} : b.work[j] = Now.work[j]
  BY <1>1, <1>2, RowSet
<1> HIDE DEF b
<1>5. Now.stage = stage /\ Now.evals = evals /\ Now.work = work
  BY DEF Now
<1>6. ReplyAt(t.key, Now, b)
  BY <1>2, <1>3, <1>4, <1>5 DEF ReplyAt, Reply, PutsBack, Lands, Holds
<1>7. \A j \in Key \ {t.key} : SameAt(j, Now, b)
  BY <1>4 DEF SameAt, Same
<1> QED
  BY <1>3, <1>4, <1>5, <1>6, <1>7, ReplySteps

LEMMA DeferEntrySteps == ASSUME Inv, NEW t \in tasks, DeferEntry(t) \/ DeferBudget(t) PROVE Step
<1> DEFINE row == Unleased(Refunded(work[t.key]), "pending", Recorded(work[t.key].history, "held"))
<1>1. TypeOK /\ work[t.key] \in Row /\ Recorded(work[t.key].history, "held") \in History
  BY TaskParts DEF Inv, Kind
<1>2. row \in Row /\ row.state = "pending" /\ row.token = work[t.key].token
      /\ row.attempt \in 0 .. work[t.key].attempt
  BY <1>1, RowPutBack
<1>3. /\ \/ Lands(t, HandedBack(t, row))
         \/ Lands(t, Moved(HandedBack(t, row), t.key[1], "pending", "other"))
      /\ UNCHANGED world
      /\ \/ credit' = credit /\ t.step = "marked"
         \/ credit' = [credit EXCEPT ![t.key] = @ + 1]
  BY DEF DeferEntry, DeferBudget, Allows
<1> HIDE DEF row
<1> QED
  BY <1>2, <1>3, DeferringReply

LEMMA RetrySteps ==
    ASSUME Inv, NEW t \in tasks, NEW h \in History,
           \/ Retry(t, Unleased(Refunded(work[t.key]), "pending", h))
           \/ Retry(t, Unleased(work[t.key], "pending", h))
    PROVE  Step
<1>1. work[t.key] \in Row
  BY TaskParts DEF Inv
<1>2. PICK row \in Row : /\ row.state = "pending" /\ row.token = work[t.key].token
                         /\ row.attempt \in 0 .. work[t.key].attempt
                         /\ Retry(t, row)
  BY <1>1, RowPutBack
<1>3. /\ Lands(t, Moved(HandedBack(t, row), t.key[1], "pending", "other"))
      /\ UNCHANGED world
      /\ credit' = [credit EXCEPT ![t.key] = @ + 1]
  BY <1>2 DEF Retry, Allows
<1> QED
  BY <1>2, <1>3, DeferringReply

LEMMA RefusedSteps ==
    ASSUME Inv, NEW t \in tasks, CapacityRefused(t) \/ Rejected(t) \/ InvalidAnswer(t)
    PROVE  Step
<1>1. CapacityRefusal(work[t.key].history) \in History
      /\ Recorded(work[t.key].history, "transient") \in History
  BY TaskParts DEF Inv, Kind
<1>2. Recorded(WithMark(work[t.key].history, "derivation_retry"), "invalid") \in History
  BY TaskParts, HistoryKept DEF Inv, Kind, Mark
<1> QED
  BY <1>1, <1>2, RetrySteps DEF CapacityRefused, Rejected, InvalidAnswer

LEMMA FailsSteps == ASSUME Inv, NEW t \in tasks, NEW kind \in Kind, Fails(t, kind) PROVE Step
<1> DEFINE row == Unleased(work[t.key], "failed", Recorded(work[t.key].history, kind))
<1>1. work[t.key] \in Row /\ Recorded(work[t.key].history, kind) \in History
  BY TaskParts DEF Inv
<1>2. row \in Row /\ row.state = "failed" /\ row.token = work[t.key].token
      /\ row.attempt = work[t.key].attempt
  BY <1>1, UnleasedIs
<1>3. /\ Lands(t, Moved(Closed(WithRow(Now, t.key, row), t.key, "failed"), t.key[1],
                        "waiting", "other"))
      /\ UNCHANGED world /\ credit' = credit
  BY DEF Fails, FailedFor
<1> HIDE DEF row
<1> QED
  BY <1>2, <1>3, SettlingReply

LEMMA GivenUpSteps ==
    ASSUME Inv, NEW t \in tasks, CloseInterrupted(t) \/ FailForGood(t)
    PROVE  Step
BY FailsSteps DEF CloseInterrupted, FailForGood, Kind

LEMMA ObsoletedSteps ==
    ASSUME Inv, NEW t \in tasks, NEW state \in {"revoked", "obsolete"},
           NEW reason \in {"revoked", "other"}, Obsoleted(t, state, reason)
    PROVE  Step
<1> DEFINE row == Unleased(work[t.key], "obsolete", Bare("revoked"))
<1>1. work[t.key] \in Row /\ Bare("revoked") \in History
  BY TaskParts, HistoryKept DEF Inv, Kind
<1>2. row \in Row /\ row.state = "obsolete" /\ row.token = work[t.key].token
      /\ row.attempt = work[t.key].attempt
  BY <1>1, UnleasedIs
<1>3. /\ Lands(t, Moved(Closed(WithRow(Now, t.key, row), t.key, state), t.key[1],
                        "waiting", reason))
      /\ UNCHANGED world /\ credit' = credit
  BY DEF Obsoleted
<1> HIDE DEF row
<1> QED
  BY <1>2, <1>3, SettlingReply

LEMMA CloseSteps ==
    ASSUME Inv, NEW t \in tasks, CloseRevoked(t) \/ CloseChanged(t)
    PROVE  Step
BY ObsoletedSteps DEF CloseRevoked, CloseChanged

(* The verdict "not enough", or a rule that needs no verdict.                 *)
LEMMA AnsweredSteps ==
    ASSUME Inv, NEW t \in tasks, SettleByRule(t) \/ Insufficient(t)
    PROVE  Step
<1> DEFINE row == Unleased(work[t.key], "done", NoHistory)
<1>1. work[t.key] \in Row /\ NoHistory \in History
  BY TaskParts, HistoryKept DEF Inv
<1>2. row \in Row /\ row.state = "done" /\ row.token = work[t.key].token
      /\ row.attempt = work[t.key].attempt
  BY <1>1, UnleasedIs
<1>3. /\ Lands(t, Moved(Closed(WithRow(Now, t.key, row), t.key, "answered"), t.key[1],
                        "waiting", "other"))
      /\ UNCHANGED world /\ credit' = credit
  BY DEF SettleByRule, Insufficient, Done
<1>4. evals[t.key].state = "queued"
  BY DEF SettleByRule, Insufficient, Judged, HasAuthority, MayJudge
<1> HIDE DEF row
<1> QED
  BY <1>2, <1>3, <1>4, SettlingReply

-----------------------------------------------------------------------------
(***************************************************************************)
(* A step that leaves the world alone: nothing is asked anew, and evidence *)
(* is where it was.                                                        *)
(***************************************************************************)
LEMMA WorldAlone ==
    ASSUME Inv, UNCHANGED world, Then \in Tables, tasks' \subseteq Task, credit' \in [Key -> Int],
           \A k \in Key : evals'[k].state # "absent" => evals[k].state # "absent",
           \A r \in Revision : StaysNew(r, Now, Then)
    PROVE  TypeOK' /\ AskedKnown /\ ParentAnswered /\ EvidenceKept
<1>1. Then.stage = stage' /\ Then.evals = evals' /\ Then.work = work'
      /\ Now.stage = stage /\ Now.evals = evals /\ Now.work = work
  BY DEF Then, Now
<1>2. TypeOK'
  <2>1. stage' \in [Revision -> Stage] /\ evals' \in [Key -> Evaluation] /\ work' \in [Key -> Row]
    BY <1>1, TablesAre
  <2> QED
    BY <2>1 DEF Inv, TypeOK, world
<1>3. AskedKnown
  <2>1. claim.head \in Int /\ claim' = claim /\ heard' = heard
    BY EvaluationAssumption DEF Inv, TypeOK, world
  <2> QED
    BY <2>1 DEF AskedKnown
<1>4. ParentAnswered
  BY DEF ParentAnswered, world
<1>5. EvidenceKept
  <2>1. \A r \in Revision : Live(evidence[r]) \subseteq Live(evidence[r])'
    BY DEF Live, world
  <2> QED
    BY <1>1, <2>1 DEF EvidenceKept, StaysNew
<1> QED
  BY <1>2, <1>3, <1>4, <1>5

(* A task that ends or goes on, its row and its candidate left alone.         *)
LEMMA TaskSteps ==
    ASSUME Inv, NEW t \in tasks, UNCHANGED <<world, stage, work>>,
           \/ tasks' = tasks \ {t} /\ UNCHANGED <<evals, credit>>
           \/ \E step \in {"revoked", "interrupted"} :
                Advances(t, step) /\ UNCHANGED <<evals, credit>>
           \/ /\ Advances(t, "marked") /\ UNCHANGED credit
              /\ evals[t.key].state = "queued" /\ ~evals[t.key].marked
              /\ evals' = [evals EXCEPT ![t.key].marked = TRUE]
           \/ /\ t.step = "marked" /\ Advances(t, "asked") /\ UNCHANGED evals
              /\ credit' = [credit EXCEPT ![t.key] = @ - 1]
    PROVE  Step
<1>1. TypeOK /\ t.key \in Key /\ TokensApart /\ RequestsPaid
  BY TaskParts DEF Inv
<1>2. /\ evals' \in [Key -> Evaluation]
      /\ \A k \in Key : evals'[k].state = evals[k].state
      /\ \A k \in Key : evals'[k] = evals[k] \/ Begins(evals[k], work[k], evals'[k], work'[k])
  <2>1. CASE evals' = evals
    BY <1>1, <2>1 DEF TypeOK
  <2>2. CASE /\ evals[t.key].state = "queued" /\ ~evals[t.key].marked
             /\ evals' = [evals EXCEPT ![t.key].marked = TRUE]
    <3>1. evals \in [Key -> Evaluation] /\ evals[t.key] \in Evaluation
      BY <1>1 DEF TypeOK
    <3> DEFINE e == [evals[t.key] EXCEPT !.marked = TRUE]
    <3>2. e \in Evaluation /\ e.state = evals[t.key].state /\ e.marked
      BY <3>1 DEF Evaluation
    <3>3. evals' = [evals EXCEPT ![t.key] = e]
      BY <2>2
    <3> HIDE DEF e
    <3>4. \A k \in Key : evals'[k] = IF k = t.key THEN e ELSE evals[k]
      BY <3>1, <3>3
    <3>5. Begins(evals[t.key], work[t.key], evals'[t.key], work'[t.key])
      BY <1>1, <2>2, <3>2, <3>4 DEF Begins
    <3> QED
      BY <1>1, <3>1, <3>2, <3>3, <3>4, <3>5
  <2> QED
    BY <2>1, <2>2
<1>3. MarksKept
  BY <1>2 DEF MarksKept, Begins
<1>4. Then \in Tables
  BY <1>1, <1>2 DEF TypeOK, Then, Now, Tables
<1>5. \A k \in Key : TurnAt(k, Now, Then)
  BY <1>2 DEF TurnAt, Turn, Same, Then, Now
<1>6. TokensOnward
  BY <1>1, <1>4, <1>5, TokensGoOnward
<1>7. tasks' \subseteq Task /\ TokensApart' /\ Grants' \subseteq Grants
  BY <1>1, <1>6, FewerTasks, TasksAdvance DEF Advances
<1>8. credit' \in [Key -> Int]
  BY <1>1 DEF TypeOK
<1>9. \A r \in Revision : StaysNew(r, Now, Then)
  BY <1>2 DEF StaysNew, Now, Then, KeysOf
<1>10. TypeOK' /\ AskedKnown /\ ParentAnswered /\ EvidenceKept
  BY <1>2, <1>4, <1>7, <1>8, <1>9, WorldAlone
<1>11. RequestsPaid'
  <2>1. CASE tasks' = tasks \ {t} /\ UNCHANGED <<evals, credit>>
    BY <1>1, <1>3, <1>10, <2>1, PaidWithFewerTasks
  <2>2. CASE \E step \in {"revoked", "interrupted"} :
                Advances(t, step) /\ UNCHANGED <<evals, credit>>
    BY <1>1, <1>3, <1>10, <2>2, PaidWhenAdvanced DEF Advances
  <2>3. CASE /\ Advances(t, "marked") /\ UNCHANGED credit
             /\ evals[t.key].state = "queued" /\ ~evals[t.key].marked
             /\ evals' = [evals EXCEPT ![t.key].marked = TRUE]
    <3>1. evals'[t.key].marked
      BY <1>1, <2>3 DEF TypeOK, Evaluation
    <3> QED
      BY <1>1, <1>3, <1>10, <2>3, <3>1, PaidWhenAdvanced DEF Advances
  <2>4. CASE /\ t.step = "marked" /\ Advances(t, "asked") /\ UNCHANGED evals
             /\ credit' = [credit EXCEPT ![t.key] = @ - 1]
    BY <1>1, <1>3, <1>10, <2>4, PaidWhenAdvanced DEF Advances
  <2> QED
    BY <2>1, <2>2, <2>3, <2>4
<1> QED
  BY <1>5, <1>7, <1>10, <1>11 DEF Step, Turns, QuietStep

LEMMA TaskGoesOn ==
    ASSUME Inv, NEW t \in tasks,
           Abandon(t) \/ FindRevoked(t) \/ FindInterrupted(t) \/ BeginModelAttempt(t) \/ Ask(t)
    PROVE  Step
<1>1. CASE Abandon(t)
  BY <1>1, TaskSteps DEF Abandon
<1>2. CASE FindRevoked(t) \/ FindInterrupted(t)
  BY <1>2, TaskSteps DEF FindRevoked, FindInterrupted, Advances
<1>3. CASE BeginModelAttempt(t)
  BY <1>3, TaskSteps DEF BeginModelAttempt, MayBegin, HasAuthority, MayJudge, Advances
<1>4. CASE Ask(t)
  BY <1>4, TaskSteps DEF Ask, Advances
<1> QED
  BY <1>1, <1>2, <1>3, <1>4

-----------------------------------------------------------------------------
(***************************************************************************)
(* A step no worker takes: each question takes a turn, and the tasks stay, *)
(* having learned of something at most.                                    *)
(***************************************************************************)
WorldTyped ==
    /\ source \in [Source -> Readable]
    /\ heard \subseteq Source
    /\ claim \in [head: 0 .. MaxRevision, fact: {"proposed", "active", "retracted"},
                  read: Readable]
    /\ basis \in [Revision -> SUBSET heard]
    /\ evidence \in [Revision -> SUBSET heard]
    /\ paused \in BOOLEAN
    /\ parent \in [Revision -> SUBSET Source]

TasksStay == tasks' = tasks \/ \E what \in {"retracted", "paused"} : Touch(what)

LEMMA TypesOf == TypeOK => WorldTyped
BY DEF TypeOK, WorldTyped

LEMMA QuietTypes ==
    ASSUME Inv, WorldTyped', Then \in Tables, \A k \in Key : TurnAt(k, Now, Then), TasksStay,
           credit' \in [Key -> Int]
    PROVE  TypeOK' /\ TokensApart' /\ Turns
<1>1. TypeOK /\ TokensApart
  BY DEF Inv
<1>2. TokensOnward
  BY <1>1, TokensGoOnward
<1>3. tasks' \subseteq Task /\ TokensApart' /\ Grants' \subseteq Grants
  BY <1>1, <1>2, FewerTasks, TasksTouched DEF TasksStay
<1>4. stage' \in [Revision -> Stage] /\ evals' \in [Key -> Evaluation] /\ work' \in [Key -> Row]
  <2>1. Then.stage = stage' /\ Then.evals = evals' /\ Then.work = work'
    BY DEF Then, Now
  <2> QED
    BY <2>1, TablesAre
<1>5. TypeOK'
  BY <1>3, <1>4 DEF WorldTyped, TypeOK
<1> QED
  BY <1>3, <1>5 DEF Turns, QuietStep

LEMMA QuietSteps ==
    ASSUME Inv, WorldTyped', Then \in Tables, \A k \in Key : TurnAt(k, Now, Then), TasksStay,
           MarksKept, credit' = credit, AskedKnown, ParentAnswered, EvidenceKept
    PROVE  Step
<1>1. TypeOK /\ RequestsPaid
  BY DEF Inv
<1>2. TypeOK' /\ TokensApart' /\ Turns
  BY <1>1, QuietTypes DEF TypeOK
<1>3. RequestsPaid'
  BY <1>1, <1>2, PaidWithFewerTasks, PaidWhenTouched DEF TasksStay
<1> QED
  BY <1>2, <1>3 DEF Step

(* One question takes a turn, the world and the workers as they were.         *)
LEMMA KeySteps ==
    ASSUME Inv, NEW k \in Key, UNCHANGED <<world, tasks>>, Then \in Tables,
           TurnAt(k, Now, Then),
           \A j \in Key \ {k} : SameAt(j, Now, Then),
           evals'[k].state # "absent" => evals[k].state # "absent",
           \A r \in Revision : stage'[r] = NewEvidence =>
               stage[r] = NewEvidence /\ (r = k[1] => evals'[k].state = evals[k].state),
           \/ credit' = credit /\ (evals[k].marked => evals'[k].marked)
           \/ credit' = [credit EXCEPT ![k] = @ + 1]
    PROVE  Step
<1>1. TypeOK /\ RequestsPaid
  BY DEF Inv
<1>2. \A j \in Key : TurnAt(j, Now, Then)
  BY DEF SameAt, TurnAt, Turn
<1>3. \A j \in Key \ {k} : evals'[j] = evals[j]
  BY DEF SameAt, Same, Now, Then
<1>4. credit' \in [Key -> Int]
  BY <1>1 DEF TypeOK
<1>5. \A r \in Revision : StaysNew(r, Now, Then)
  <2>1. Then.stage = stage' /\ Then.evals = evals' /\ Now.stage = stage /\ Now.evals = evals
    BY DEF Then, Now
  <2>2. SUFFICES ASSUME NEW r \in Revision, stage'[r] = NewEvidence
                 PROVE  stage[r] = NewEvidence
                        /\ \A j \in KeysOf(r) : evals'[j].state = evals[j].state
    BY <2>1 DEF StaysNew
  <2> QED
    BY <1>3, <2>2 DEF KeysOf
<1>6. TypeOK' /\ AskedKnown /\ ParentAnswered /\ EvidenceKept
  BY <1>1, <1>3, <1>4, <1>5, WorldAlone DEF TypeOK
<1>7. TokensApart' /\ Turns
  BY <1>2, <1>4, <1>6, QuietTypes, TypesOf DEF TasksStay, TypeOK, WorldTyped
<1>8. RequestsPaid'
  <2>1. CASE credit' = credit /\ (evals[k].marked => evals'[k].marked)
    <3>1. MarksKept
      BY <1>3, <2>1 DEF MarksKept
    <3> QED
      BY <1>1, <1>6, <2>1, <3>1, PaidWithFewerTasks
  <2>2. CASE credit' = [credit EXCEPT ![k] = @ + 1]
    BY <1>1, <1>3, <1>6, <2>2, PaidByGrant
  <2> QED
    BY <2>1, <2>2
<1> QED
  BY <1>6, <1>7, <1>8 DEF Step

LEMMA ExpireSteps == ASSUME Inv, NEW k \in Key, Expire(k) PROVE Step
<1>1. TypeOK /\ work[k] \in Row /\ work \in [Key -> Row]
  BY DEF Inv, TypeOK
<1> DEFINE v == IF work[k].attempt >= MAX_RECOVERABLE_ATTEMPTS
                THEN Unleased(work[k], "failed", Recorded(work[k].history, "transient"))
                ELSE Unleased(work[k], "pending", work[k].history)
<1>2. work[k].history \in History /\ Recorded(work[k].history, "transient") \in History
  BY <1>1, RowParts, HistoryKept DEF Kind
<1>3. /\ v \in Row /\ v.state \in {"pending", "failed"}
      /\ v.token = work[k].token /\ v.attempt = work[k].attempt
  BY <1>1, <1>2, UnleasedIs
<1>4. work' = [work EXCEPT ![k] = v] /\ work[k].state = "leased"
      /\ UNCHANGED <<world, stage, evals, tasks, credit>>
  BY DEF Expire
<1> HIDE DEF v
<1>5. work' \in [Key -> Row] /\ work'[k] = v /\ \A j \in Key \ {k} : work'[j] = work[j]
  BY <1>1, <1>3, <1>4
<1>6. Then \in Tables
  BY <1>1, <1>4, <1>5 DEF Tables, Then, Now, TypeOK
<1>7. TurnAt(k, Now, Then)
  BY <1>3, <1>4, <1>5 DEF TurnAt, Turn, TimesOut, Then, Now
<1>8. \A j \in Key \ {k} : SameAt(j, Now, Then)
  BY <1>4, <1>5 DEF SameAt, Same, Then, Now
<1> QED
  BY <1>4, <1>6, <1>7, <1>8, KeySteps

(* A question put back to be asked again, and one closed behind failed work.  *)
ReopenedTo(b, c, k, row) ==
    /\ c \in Tables
    /\ c.evals[k] = [state |-> "queued", marked |-> FALSE] /\ c.work[k] = row
    /\ \A j \in Key \ {k} : SameAt(j, b, c)
    /\ c.stage[k[1]] = NewEvidence => b.stage[k[1]] = NewEvidence /\ b.stage[k[1]].state = "blocked"
    /\ \A p \in Revision \ {k[1]} : c.stage[p] = b.stage[p]

LEMMA ReopenedIs ==
    ASSUME NEW b \in Tables, NEW k \in Key, NEW row \in Row
    PROVE  ReopenedTo(b, Reopened(b, k, row), k, row)
<1> DEFINE e == [state |-> "queued", marked |-> FALSE]
<1> DEFINE d == [b EXCEPT !.evals[k] = e]
<1> DEFINE g == WithRow(d, k, row)
<1> DEFINE c == Reopened(b, k, row)
<1>1. e \in Evaluation
  BY DEF Evaluation
<1>2. c = Moved(g, k[1], "pending", "other")
  BY DEF Reopened, WithRow, Tables
<1>3. k[1] \in Revision /\ [state |-> "pending", reason |-> "other"] \in Stage
  BY KeyParts DEF Stage
<1> HIDE DEF e
<1>4. d \in Tables /\ d.stage = b.stage /\ d.work = b.work /\ d.evals[k] = e
      /\ \A j \in Key \ {k} : d.evals[j] = b.evals[j]
  BY <1>1, EvaluationSet
<1> HIDE DEF d
<1>5. g \in Tables /\ g.stage = d.stage /\ g.evals = d.evals /\ g.work[k] = row
      /\ \A j \in Key \ {k} : g.work[j] = d.work[j]
  BY <1>4, RowSet
<1> HIDE DEF g, c
<1>6. /\ c \in Tables /\ c.evals = g.evals /\ c.work = g.work
      /\ \A p \in Revision \ {k[1]} : c.stage[p] = g.stage[p]
      /\ c.stage[k[1]] = IF g.stage[k[1]].state = "blocked" THEN g.stage[k[1]]
                         ELSE [state |-> "pending", reason |-> "other"]
  BY <1>2, <1>3, <1>5, MovedIs
<1>7. c.stage[k[1]] = NewEvidence => b.stage[k[1]] = NewEvidence /\ b.stage[k[1]].state = "blocked"
  BY <1>4, <1>5, <1>6 DEF NewEvidence
<1> QED
  BY <1>4, <1>5, <1>6, <1>7 DEF ReopenedTo, SameAt, Same, e, c

LEMMA ReconciledIs ==
    ASSUME NEW b \in Tables, NEW k \in Key
    PROVE  LET c == Reconciled(b, k)
           IN  /\ c \in Tables /\ c.work = b.work
               /\ c.evals[k].state = IF b.evals[k].state = "queued" THEN "failed"
                                     ELSE b.evals[k].state
               /\ c.evals[k].marked = b.evals[k].marked
               /\ \A j \in Key \ {k} : SameAt(j, b, c)
               /\ b.evals[k].state = "queued" => c.stage[k[1]] # NewEvidence
               /\ \A p \in Revision \ {k[1]} : c.stage[p] = b.stage[p]
<1> DEFINE d == Closed(b, k, "failed")
<1> DEFINE c == Reconciled(b, k)
<1>1. CASE b.evals[k].state = "queued"
  <2>1. d \in Tables /\ d.stage = b.stage /\ d.work = b.work
        /\ d.evals[k].state = "failed" /\ d.evals[k].marked = b.evals[k].marked
        /\ \A j \in Key \ {k} : d.evals[j] = b.evals[j]
    BY <1>1, ClosedIs
  <2>2. c = Moved(d, k[1], "waiting", "other")
    BY <1>1 DEF Reconciled
  <2>3. k[1] \in Revision /\ [state |-> "waiting", reason |-> "other"] \in Stage
    BY KeyParts DEF Stage
  <2> HIDE DEF d, c
  <2>4. /\ c \in Tables /\ c.evals = d.evals /\ c.work = d.work
        /\ \A p \in Revision \ {k[1]} : c.stage[p] = d.stage[p]
        /\ c.stage[k[1]] = IF d.stage[k[1]].state = "blocked" THEN d.stage[k[1]]
                           ELSE [state |-> "waiting", reason |-> "other"]
    BY <2>1, <2>2, <2>3, MovedIs
  <2>5. c.stage[k[1]] # NewEvidence
    BY <2>4 DEF NewEvidence
  <2> QED
    BY <1>1, <2>1, <2>4, <2>5 DEF SameAt, Same, c
<1>2. CASE b.evals[k].state # "queued"
  BY <1>2 DEF Reconciled, SameAt, Same
<1> QED
  BY <1>1, <1>2

LEMMA ReconcileSteps ==
    ASSUME Inv, NEW k \in Key, NEW release, Reconcile(k, release)
    PROVE  Step
<1> DEFINE b == Reconciled(Now, k)
<1>1. Now \in Tables /\ evals[k].state = "queued" /\ work[k].state = "failed"
  BY NowIsTables DEF Inv, Reconcile
<1>2. Now.stage = stage /\ Now.evals = evals /\ Now.work = work
  BY DEF Now
<1>3. /\ b \in Tables /\ b.work = work
      /\ b.evals[k].state = "failed" /\ b.evals[k].marked = evals[k].marked
      /\ \A j \in Key \ {k} : SameAt(j, Now, b)
      /\ b.stage[k[1]] # NewEvidence
      /\ \A p \in Revision \ {k[1]} : b.stage[p] = stage[p]
  BY <1>1, <1>2, ReconciledIs
<1>4. Becomes(b) /\ UNCHANGED <<world, tasks, credit>>
  BY DEF Reconcile
<1> HIDE DEF b
<1>5. Then = b /\ stage' = b.stage /\ evals' = b.evals /\ work' = b.work
  BY <1>3, <1>4, TablesAre DEF Becomes, Then, Now
<1>6. TurnAt(k, Now, b)
  BY <1>1, <1>2, <1>3 DEF TurnAt, Turn, Reconciles
<1> QED
  BY <1>1, <1>2, <1>3, <1>4, <1>5, <1>6, KeySteps

(* A failed question reopened, after whatever closed it first.                *)
LEMMA ReopeningSteps ==
    ASSUME Inv, NEW k \in Key, NEW row \in Row, NEW d \in Tables,
           work[k].state = "failed", evals[k].state \in {"failed", "queued"},
           \A j \in Key \ {k} : SameAt(j, Now, d),
           \A p \in Revision \ {k[1]} : d.stage[p] = stage[p],
           d.stage[k[1]] = NewEvidence => stage[k[1]] = NewEvidence,
           row.state = "pending", row.token = work[k].token, row.attempt \in {work[k].attempt, 0},
           Becomes(Reopened(d, k, row)), Allows(k, 1), UNCHANGED <<world, tasks>>
    PROVE  Step
<1> DEFINE b == Reopened(d, k, row)
<1>1. ReopenedTo(d, b, k, row)
  BY ReopenedIs
<1> HIDE DEF b
<1>2. Becomes(b) /\ credit' = [credit EXCEPT ![k] = @ + 1]
  BY DEF b, Allows
<1>3. Then = b /\ stage' = b.stage /\ evals' = b.evals /\ work' = b.work
  BY <1>1, <1>2, TablesAre DEF Becomes, Then, Now, ReopenedTo
<1>4. Now.stage = stage /\ Now.evals = evals /\ Now.work = work
  BY DEF Now
<1>5. TurnAt(k, Now, b)
  BY <1>1, <1>4 DEF ReopenedTo, TurnAt, Turn, Reopens
<1>6. \A j \in Key \ {k} : SameAt(j, Now, b)
  BY <1>1 DEF ReopenedTo, SameAt, Same
<1>7. \A r \in Revision : b.stage[r] = NewEvidence => stage[r] = NewEvidence /\ r # k[1]
  BY <1>1 DEF ReopenedTo, NewEvidence
<1>8. b \in Tables
  BY <1>1 DEF ReopenedTo
<1> QED
  BY <1>2, <1>3, <1>5, <1>6, <1>7, <1>8, KeySteps

LEMMA RecoverInterruptedSteps ==
    ASSUME Inv, NEW k \in Key, RecoverInterrupted(k)
    PROVE  Step
<1> DEFINE row == Unleased(work[k], "pending", WithMark(work[k].history, "interrupted_retry"))
<1>1. Now \in Tables /\ work[k] \in Row /\ Now.stage = stage
  BY NowIsTables DEF Inv, TypeOK, Now
<1>2. WithMark(work[k].history, "interrupted_retry") \in History
  BY <1>1, RowParts, HistoryKept DEF Mark
<1>3. row \in Row /\ row.state = "pending" /\ row.token = work[k].token
      /\ row.attempt = work[k].attempt
  BY <1>1, <1>2, UnleasedIs
<1>4. /\ Becomes(Reopened(Now, k, row)) /\ Allows(k, 1) /\ UNCHANGED <<world, tasks>>
      /\ work[k].state = "failed" /\ evals[k].state = "failed"
  BY DEF RecoverInterrupted
<1> HIDE DEF row
<1>5. \A j \in Key \ {k} : SameAt(j, Now, Now)
  BY DEF SameAt, Same
<1> QED
  BY <1>1, <1>3, <1>4, <1>5, ReopeningSteps

LEMMA RetryFailedSteps ==
    ASSUME Inv, NEW k \in Key, NEW release \in Release, RetryFailed(k, release)
    PROVE  Step
<1> DEFINE history == Marked(work[k].history, release)
<1> DEFINE half == Unleased(work[k], "pending", history)
<1> DEFINE row == [half EXCEPT !.attempt = 0]
<1> DEFINE d == Reconciled(Now, k)
<1>1. Now \in Tables /\ work[k] \in Row
      /\ Now.stage = stage /\ Now.evals = evals /\ Now.work = work
  BY NowIsTables DEF Inv, TypeOK, Now
<1>2. history \in History
  BY <1>1, RowParts, HistoryKept
<1>3. half \in Row /\ half.state = "pending" /\ half.token = work[k].token
  <2> HIDE DEF history
  <2> QED
    BY <1>1, <1>2, UnleasedIs
<1>4. row \in Row /\ row.state = "pending" /\ row.token = work[k].token /\ row.attempt = 0
  <2> HIDE DEF half
  <2>1. 0 \in 0 .. MaxToken
    BY EvaluationAssumption
  <2> QED
    BY <1>3, <2>1 DEF Row
<1>5. /\ d \in Tables
      /\ \A j \in Key \ {k} : SameAt(j, Now, d)
      /\ \A p \in Revision \ {k[1]} : d.stage[p] = stage[p]
      /\ evals[k].state = "queued" => d.stage[k[1]] # NewEvidence
  BY <1>1, ReconciledIs
<1>6. d.stage[k[1]] = NewEvidence => stage[k[1]] = NewEvidence
  <2>1. evals[k].state # "queued" => d = Now
    BY <1>1 DEF Reconciled
  <2> HIDE DEF d
  <2> QED
    BY <1>1, <1>5, <2>1
<1>7. /\ Becomes(Reopened(d, k, row)) /\ Allows(k, 1) /\ UNCHANGED <<world, tasks>>
      /\ work[k].state = "failed" /\ evals[k].state \in {"failed", "queued"}
  BY DEF RetryFailed
<1> HIDE DEF row, d
<1> QED
  BY <1>4, <1>5, <1>6, <1>7, ReopeningSteps

LEMMA ClaimSteps == ASSUME Inv, NEW k \in Key, Claim(k) PROVE Step
<1> DEFINE v == Leased(work[k])
<1> DEFINE u == [key |-> k, token |-> work[k].token + 1, step |-> "claimed", touched |-> {}]
<1>1. TypeOK /\ TokensApart /\ RequestsPaid /\ work[k] \in Row /\ work \in [Key -> Row]
      /\ work[k].attempt <= work[k].token
  BY DEF Inv, TypeOK, AttemptsWithinTokens
<1>2. /\ work[k].state = "pending" /\ work[k].token < MaxToken
      /\ work' = [work EXCEPT ![k] = v] /\ tasks' = tasks \cup {u}
      /\ UNCHANGED <<world, stage, evals, credit>>
  BY DEF Claim
<1>3. /\ work[k].token + 1 \in 1 .. MaxToken /\ work[k].token + 1 \in 0 .. MaxToken
      /\ work[k].attempt + 1 \in 0 .. MaxToken /\ work[k].token \in Int
  BY <1>1, <1>2, RowParts
<1>4. /\ v \in Row /\ v.state = "leased" /\ v.token = work[k].token + 1
      /\ v.attempt = work[k].attempt + 1
  BY <1>1, <1>3 DEF Row, Leased
<1>5. u \in Task /\ u.key = k /\ u.token = work[k].token + 1 /\ u.step = "claimed"
  BY <1>3 DEF Task
<1> HIDE DEF v, u
<1>6. work' \in [Key -> Row] /\ work'[k] = v /\ \A j \in Key \ {k} : work'[j] = work[j]
  BY <1>1, <1>2, <1>4
<1>7. Then \in Tables
  BY <1>1, <1>2, <1>6 DEF Tables, Then, Now, TypeOK
<1>8. ClaimAt(k, Now, Then)
  BY <1>2, <1>4, <1>6 DEF ClaimAt, Claims, Then, Now
<1>9. \A j \in Key \ {k} : SameAt(j, Now, Then)
  BY <1>2, <1>6 DEF SameAt, Same, Then, Now
<1>10. TokensOnward
  <2>1. \A j \in Key : TurnAt(j, Now, Then) \/ ReplyAt(j, Now, Then) \/ ClaimAt(j, Now, Then)
    BY <1>8, <1>9 DEF SameAt, TurnAt, Turn
  <2> QED
    BY <1>1, <1>7, <2>1, TokensGoOnward
<1>11. tasks' \subseteq Task /\ TokensApart'
  <2>1. u.token > work[u.key].token /\ u.token <= work'[u.key].token
    BY <1>3, <1>4, <1>5, <1>6
  <2> QED
    BY <1>1, <1>2, <1>5, <1>10, <2>1, TaskClaimed
<1>12. Turns
  <2>1. Grants' = Grants \cup {<<k, work'[k].token>>}
    BY <1>2, <1>4, <1>5, <1>6 DEF Grants
  <2> QED
    BY <1>8, <1>9, <2>1 DEF Turns, ClaimStep
<1>13. TypeOK' /\ AskedKnown /\ ParentAnswered /\ EvidenceKept
  <2>1. \A r \in Revision : StaysNew(r, Now, Then)
    BY <1>2 DEF StaysNew, Now, Then
  <2> QED
    BY <1>1, <1>2, <1>7, <1>11, <2>1, WorldAlone DEF TypeOK
<1>14. RequestsPaid'
  <2>1. MarksKept
    BY <1>2 DEF MarksKept
  <2> QED
    BY <1>1, <1>2, <1>5, <1>13, <2>1, PaidWhenClaimed
<1> QED
  BY <1>11, <1>12, <1>13, <1>14 DEF Step

LEMMA QueueSteps == ASSUME Inv, Queue PROVE Step
<1>1. ASSUME NEW k \in Key, Claim(k) \/ Expire(k) \/ RecoverInterrupted(k)
      PROVE  Step
  BY <1>1, ClaimSteps, ExpireSteps, RecoverInterruptedSteps
<1>2. ASSUME NEW k \in Key, NEW release \in Release, RetryFailed(k, release) \/ Reconcile(k, release)
      PROVE  Step
  BY <1>2, RetryFailedSteps, ReconcileSteps
<1> QED
  BY <1>1, <1>2 DEF Queue

-----------------------------------------------------------------------------
(* A person pauses and resumes, or withdraws something else.                  *)
LEMMA PausesSteps ==
    ASSUME Inv, Pause \/ Resume \/ WithdrawElsewhere
    PROVE  Step
<1>1. TypeOK /\ Now \in Tables
  BY NowIsTables DEF Inv
<1>2. /\ UNCHANGED <<source, heard, claim, basis, evidence, stage, evals, work, parent, credit>>
      /\ paused' \in BOOLEAN /\ TasksStay
  BY <1>1 DEF Pause, Resume, WithdrawElsewhere, TasksStay, world, TypeOK
<1>3. WorldTyped'
  BY <1>1, <1>2 DEF TypeOK, WorldTyped
<1>4. Then = Now
  BY <1>2 DEF Then, Now
<1>5. \A k \in Key : TurnAt(k, Now, Then)
  BY <1>4 DEF TurnAt, Turn, Same
<1>6. MarksKept /\ ParentAnswered
  BY <1>2 DEF MarksKept, ParentAnswered
<1>7. AskedKnown
  <2>1. claim.head \in Int
    BY <1>1, EvaluationAssumption DEF TypeOK
  <2> QED
    BY <1>2, <2>1 DEF AskedKnown
<1>8. EvidenceKept
  <2>1. \A r \in Revision : Live(evidence[r]) \subseteq Live(evidence[r])'
    BY <1>2 DEF Live
  <2> QED
    BY <1>2, <2>1 DEF EvidenceKept
<1> QED
  BY <1>1, <1>2, <1>3, <1>4, <1>5, <1>6, <1>7, <1>8, QuietSteps

(* A closure is of sources somebody has said.                                 *)
LEMMA ClosureParts ==
    ASSUME TypeOK, NEW c \in Closures
    PROVE  c.sources \subseteq heard /\ c.claim \in BOOLEAN
<1>1. \A r \in Revision : basis[r] \subseteq heard
  BY DEF TypeOK
<1>2. CASE \E s \in heard : c = [sources |-> {s}, claim |-> \E r \in Revision : s \in basis[r]]
  BY <1>2
<1>3. CASE c = [sources |-> UNION {basis[r] : r \in Revision}, claim |-> TRUE]
  BY <1>1, <1>3
<1> QED
  BY <1>2, <1>3 DEF Closures

LEMMA WithdrawSteps ==
    ASSUME Inv, NEW c \in Closures, NEW mode \in Acts \ {"paused"}, Withdraw(c, mode)
    PROVE  Step
<1> DEFINE hit == {r \in Revision : /\ stage[r].state # "absent"
                                    /\ c.claim \/ c.sources \cap evidence[r] # {}}
<1> DEFINE stages == [r \in Revision |->
                        IF r \in hit /\ stage[r].state # "blocked"
                        THEN [state |-> "blocked", reason |-> mode] ELSE stage[r]]
<1> DEFINE b == [Now EXCEPT !.stage = stages]
<1> DEFINE K == {k \in Key : k[1] \in hit}
<1> DEFINE d == Retired(b, K, "revoked", "revoked")
<1>1. /\ TypeOK /\ Now \in Tables /\ mode \in {"suppressed", "deleted"}
      /\ Now.stage = stage /\ Now.evals = evals /\ Now.work = work
  BY NowIsTables, EvaluationAssumption DEF Inv, Now
<1>2. /\ source' = [s \in Source |-> IF s \in c.sources THEN Lowered(source[s], mode) ELSE source[s]]
      /\ claim' = IF c.claim THEN [claim EXCEPT !.read = Lowered(@, mode)] ELSE claim
      /\ Touch("retracted") /\ MayFence
      /\ UNCHANGED <<heard, basis, evidence, paused, parent, credit>>
  BY DEF Withdraw
<1>3. Becomes(d)
  BY DEF Withdraw
<1>4. b.stage = stages /\ b.evals = evals /\ b.work = work
      /\ b = [stage |-> stages, evals |-> evals, work |-> work]
  <2> HIDE DEF stages
  <2> QED
    BY DEF Now
<1>5. stages \in [Revision -> Stage]
  <2>1. [state |-> "blocked", reason |-> mode] \in Stage
    BY <1>1 DEF Stage
  <2> QED
    BY <1>1, <2>1 DEF TypeOK
<1>6. ASSUME NEW r \in Revision, stages[r] = NewEvidence
      PROVE  r \notin hit /\ stage[r] = NewEvidence
  BY <1>6 DEF NewEvidence
<1> HIDE DEF stages
<1>7. b \in Tables
  BY <1>1, <1>4, <1>5 DEF Tables, TypeOK
<1> HIDE DEF b, d
<1>8. /\ d \in Tables /\ d.stage = stages
      /\ \A k \in K : Fenced(evals[k], work[k], d.evals[k], d.work[k])
      /\ \A k \in Key \ K : SameAt(k, b, d)
  <2>1. \A k \in Key : b.work[k].token < MaxToken
    BY <1>2, <1>4 DEF MayFence
  <2>2. "revoked" \in Kind /\ d = Retired(b, K, "revoked", "revoked")
    BY DEF Kind, d
  <2>3. K \in SUBSET Key
    OBVIOUS
  <2> HIDE DEF K
  <2> QED
    BY <1>4, <1>7, <2>1, <2>2, <2>3, RetiredIs
<1>9. Then = d /\ stage' = stages /\ evals' = d.evals /\ work' = d.work
  BY <1>3, <1>8, TablesAre DEF Becomes, Then, Now
<1>10. \A k \in Key \ K : evals'[k] = evals[k] /\ work'[k] = work[k]
  BY <1>4, <1>8, <1>9 DEF SameAt, Same
<1>11. \A k \in Key : TurnAt(k, Now, Then)
  <2>1. \A k \in K : TurnAt(k, Now, Then)
    BY <1>1, <1>8, <1>9 DEF TurnAt, Turn
  <2>2. \A k \in Key \ K : TurnAt(k, Now, Then)
    BY <1>1, <1>9, <1>10 DEF TurnAt, Turn, Same
  <2> QED
    BY <2>1, <2>2
<1>12. \A k \in Key : /\ evals'[k].marked = evals[k].marked
                      /\ evals'[k].state # "absent" => evals[k].state # "absent"
  <2>1. \A k \in K : /\ evals'[k].marked = evals[k].marked
                     /\ evals'[k].state # "absent" => evals[k].state # "absent"
    BY <1>8, <1>9 DEF Fenced
  <2> QED
    BY <1>10, <2>1
<1>13. WorldTyped'
  <2>1. source' \in [Source -> Readable]
    BY <1>1, <1>2 DEF TypeOK, Lowered, Readable
  <2>2. claim' \in [head: 0 .. MaxRevision, fact: {"proposed", "active", "retracted"},
                    read: Readable]
    BY <1>1, <1>2 DEF TypeOK, Lowered, Readable
  <2> QED
    BY <1>1, <1>2, <2>1, <2>2 DEF TypeOK, WorldTyped
<1>14. AskedKnown
  <2>1. claim.head \in Int /\ claim'.head = claim.head
    BY <1>1, <1>2, EvaluationAssumption DEF TypeOK
  <2> QED
    BY <1>2, <1>12, <2>1 DEF AskedKnown
<1>15. EvidenceKept
  <2> SUFFICES ASSUME NEW r \in Revision, stage'[r] = NewEvidence
               PROVE  /\ stage[r] = NewEvidence
                      /\ \A k \in KeysOf(r) : evals'[k].state = evals[k].state
                      /\ Live(evidence[r]) \subseteq Live(evidence[r])'
    BY DEF EvidenceKept
  <2>1. r \notin hit /\ stage[r] = NewEvidence
    BY <1>6, <1>9
  <2>2. c.sources \cap evidence[r] = {}
    BY <2>1 DEF NewEvidence
  <2>3. \A k \in KeysOf(r) : evals'[k].state = evals[k].state
    <3>1. \A k \in KeysOf(r) : k \in Key \ K
      BY <2>1 DEF KeysOf
    <3> QED
      BY <1>10, <3>1
  <2>4. evidence[r] \subseteq Source
    BY <1>1 DEF TypeOK
  <2>5. Live(evidence[r]) \subseteq Live(evidence[r])'
    BY <1>2, <2>2, <2>4 DEF Live
  <2> QED
    BY <2>1, <2>3, <2>5
<1>16. MarksKept /\ ParentAnswered /\ TasksStay /\ credit' = credit
  BY <1>2, <1>12 DEF MarksKept, ParentAnswered, TasksStay
<1>17. Then \in Tables
  BY <1>8, <1>9
<1> QED
  BY <1>11, <1>13, <1>14, <1>15, <1>16, <1>17, QuietSteps

-----------------------------------------------------------------------------
(***************************************************************************)
(* Intake schedules from the tables as they are, or as a registration left *)
(* them: one candidate's questions were not touched yet.                   *)
(***************************************************************************)
Untouched(b, r) ==
    /\ b \in Tables
    /\ \A k \in KeysOf(r) : SameAt(k, Now, b)
    /\ \A k \in Key : /\ TurnAt(k, Now, b)
                      /\ evals[k].marked => b.evals[k].marked
                      /\ b.evals[k].state # "absent" => evals[k].state # "absent"

AsksOnly(c, r, E) ==
    \A k \in Key : /\ TurnAt(k, Now, c)
                   /\ evals[k].marked => c.evals[k].marked
                   /\ c.evals[k].state # "absent" => evals[k].state # "absent" \/ k = <<r, E>>

ScheduledFrom(b, c, r, E) ==
    /\ c \in Tables
    /\ \A p \in Revision \ {r} : c.stage[p] = b.stage[p]
    /\ \A k \in Key \ KeysOf(r) : SameAt(k, b, c)
    /\ AsksOnly(c, r, E)
    /\ c.stage[r] = NewEvidence =>
         \/ ~NoneQueued(c, r)
         \/ c = b /\ <<r, E>> \in Key /\ evals[<<r, E>>].state # "absent"

LEMMA ScheduledTurns ==
    ASSUME NEW b, NEW r \in Revision, Untouched(b, r), NEW E \in SUBSET Source,
           NEW resume \in BOOLEAN,
           resume => \A j \in KeysOf(r) : b.work[j].token < MaxToken
    PROVE  ScheduledFrom(b, Scheduled(b, r, E, resume), r, E)
<1> DEFINE c == Scheduled(b, r, E, resume)
<1> DEFINE k == <<r, E>>
<1>1. b \in Tables
  BY DEF Untouched
<1>2. /\ c \in Tables
      /\ \A p \in Revision \ {r} : c.stage[p] = b.stage[p]
      /\ \A j \in Key \ {k} :
           \/ SameAt(j, b, c)
           \/ j[1] = r /\ GivesWay(b.evals[j], b.work[j], c.evals[j], c.work[j])
      /\ k \in Key =>
           \/ SameAt(k, b, c)
           \/ Asks(b.evals[k], b.work[k], c.evals[k], c.work[k])
           \/ Decides(b.evals[k], b.work[k], c.evals[k], c.work[k])
           \/ Resumes(b.evals[k], b.work[k], c.evals[k], c.work[k])
      /\ c.stage[r] = NewEvidence =>
           \/ ~NoneQueued(c, r)
           \/ c = b /\ k \in Key /\ b.evals[k].state # "absent"
  BY <1>1, ScheduledIs
<1>3. Now.evals = evals /\ Now.work = work
  BY DEF Now
<1>4. k[1] = r
  OBVIOUS
<1> HIDE DEF c, k
<1>5. ASSUME NEW j \in Key \ KeysOf(r) PROVE SameAt(j, b, c)
  BY <1>2, <1>4, <1>5 DEF KeysOf
<1>6. ASSUME NEW j \in Key
      PROVE  /\ TurnAt(j, Now, c)
             /\ evals[j].marked => c.evals[j].marked
             /\ c.evals[j].state # "absent" => evals[j].state # "absent" \/ j = k
  <2>1. CASE SameAt(j, b, c)
    <3>1. c.evals[j] = b.evals[j] /\ c.work[j] = b.work[j]
      BY <2>1 DEF SameAt, Same
    <3> QED
      BY <3>1 DEF Untouched, TurnAt
  <2>2. CASE ~SameAt(j, b, c)
    <3>1. j \in KeysOf(r) /\ b.evals[j] = evals[j] /\ b.work[j] = work[j]
      BY <1>3, <1>5, <2>2 DEF Untouched, SameAt, Same
    <3>2. CASE j = k
      <4>1. \/ Asks(evals[j], work[j], c.evals[j], c.work[j])
            \/ Decides(evals[j], work[j], c.evals[j], c.work[j])
            \/ Resumes(evals[j], work[j], c.evals[j], c.work[j])
        BY <1>2, <2>2, <3>1, <3>2
      <4>2. TurnAt(j, Now, c)
        BY <1>3, <4>1 DEF TurnAt, Turn
      <4>3. evals[j].marked => c.evals[j].marked
        BY <4>1 DEF Asks, Decides, Resumes
      <4> QED
        BY <3>2, <4>2, <4>3
    <3>3. CASE j # k
      <4>1. GivesWay(evals[j], work[j], c.evals[j], c.work[j])
        BY <1>2, <2>2, <3>1, <3>3
      <4> QED
        BY <1>3, <4>1 DEF TurnAt, Turn, GivesWay
    <3> QED
      BY <3>2, <3>3
  <2> QED
    BY <2>1, <2>2
<1>7. c.stage[r] = NewEvidence =>
        \/ ~NoneQueued(c, r)
        \/ c = b /\ k \in Key /\ evals[k].state # "absent"
  BY <1>2 DEF Untouched
<1> QED
  BY <1>2, <1>5, <1>6, <1>7 DEF ScheduledFrom, AsksOnly, c, k

(* Nothing scheduled: the tables are what the base made of them.              *)
LEMMA UntouchedFrom ==
    ASSUME NEW b, NEW r \in Revision, Untouched(b, r), NEW E, b.stage[r] # NewEvidence
    PROVE  ScheduledFrom(b, b, r, E)
BY DEF Untouched, ScheduledFrom, AsksOnly, SameAt, Same

LEMMA NowUntouched ==
    ASSUME TypeOK, NEW r \in Revision
    PROVE  Untouched(Now, r)
<1>1. Now.evals = evals /\ Now \in Tables
  BY NowIsTables DEF Now
<1> QED
  BY <1>1 DEF Untouched, SameAt, TurnAt, Turn, Same

LEMMA RegisteredUntouched ==
    ASSUME TypeOK, MayFence, NEW r \in Revision, NEW fact \in {"proposed", "active", "retracted"}
    PROVE  LET b == Registered(Now, r, fact)
           IN  /\ Untouched(b, r) /\ \A p \in Revision : b.stage[p] # NewEvidence
               /\ \A k \in KeysOf(r) : b.work[k].token < MaxToken
<1> DEFINE b == Registered(Now, r, fact)
<1>1. Now.evals = evals /\ Now.stage = stage /\ Now.work = work /\ Now \in Tables
  BY NowIsTables DEF Now
<1>2. /\ b \in Tables
      /\ b.stage[r] = Standing(fact)
      /\ \A p \in Revision \ {r} : b.stage[p] = Superseded(stage[p])
      /\ \A k \in KeysOf(r) : SameAt(k, Now, b)
      /\ \A k \in Key \ KeysOf(r) :
           Fenced(evals[k], work[k], b.evals[k], b.work[k])
  BY <1>1, RegisteredIs DEF MayFence
<1> HIDE DEF b
<1>3. ASSUME NEW k \in Key
      PROVE  /\ TurnAt(k, Now, b)
             /\ evals[k].marked => b.evals[k].marked
             /\ b.evals[k].state # "absent" => evals[k].state # "absent"
  <2>1. CASE k \in KeysOf(r)
    BY <1>1, <1>2, <2>1 DEF TurnAt, Turn, SameAt, Same
  <2>2. CASE k \notin KeysOf(r)
    BY <1>1, <1>2, <2>2 DEF TurnAt, Turn, Fenced
  <2> QED
    BY <2>1, <2>2
<1>4. \A p \in Revision : b.stage[p] # NewEvidence
  BY <1>2 DEF Standing, Superseded, NewEvidence
<1>5. \A k \in KeysOf(r) : b.work[k].token < MaxToken
  BY <1>1, <1>2 DEF SameAt, Same, MayFence, KeysOf
<1> QED
  BY <1>2, <1>3, <1>4, <1>5 DEF Untouched, b

(***************************************************************************)
(* Such a schedule is a step, if the world is typed, what it may ask is    *)
(* known, and its candidate's new evidence poses a question.               *)
(***************************************************************************)
LEMMA ScheduleSteps ==
    ASSUME Inv, NEW r \in Revision, NEW b, NEW E \in SUBSET Source,
           Then.evals = b.evals, Then.work = b.work, Then \in Tables,
           AsksOnly(b, r, E), WorldTyped', TasksStay, credit' = credit, parent' = parent,
           claim.head <= claim'.head, heard \subseteq heard',
           r <= claim'.head, E \subseteq heard',
           EvidenceKept
    PROVE  Step
<1>1. Then.evals = evals' /\ Then.work = work'
  BY DEF Then, Now
<1>2. \A k \in Key : TurnAt(k, Now, Then)
  BY DEF AsksOnly, TurnAt
<1>3. MarksKept /\ ParentAnswered
  BY <1>1 DEF AsksOnly, MarksKept, ParentAnswered
<1>4. AskedKnown
  BY <1>1 DEF AsksOnly, AskedKnown
<1> QED
  BY <1>2, <1>3, <1>4, QuietSteps

LEMMA HeadIs ==
    ASSUME TypeOK
    PROVE  /\ claim.head \in Int /\ claim.head >= 0 /\ claim.head <= MaxRevision
           /\ claim.fact \in {"proposed", "active", "retracted"}
           /\ MaxRevision \in Int /\ \A r \in Revision : r \in Int
           /\ claim.head # 0 => claim.head \in Revision
           /\ claim.head < MaxRevision => claim.head + 1 \in Revision
BY EvaluationAssumption DEF TypeOK, Revision

LEMMA ArchiveDormantSteps ==
    ASSUME Inv, NEW r \in Revision, ArchiveDormant(r)
    PROVE  Step
<1> DEFINE b == Moved(Now, r, "archived", "dormant")
<1>1. /\ TypeOK /\ Now \in Tables /\ Now.stage = stage /\ Now.evals = evals
      /\ [state |-> "archived", reason |-> "dormant"] \in Stage
  BY NowIsTables DEF Inv, Now, Stage
<1>2. Becomes(b) /\ UNCHANGED <<source, heard, claim, basis, evidence, tasks, paused, parent, credit>>
  BY DEF ArchiveDormant
<1>3. /\ b \in Tables /\ b.evals = Now.evals /\ b.work = Now.work
      /\ \A p \in Revision \ {r} : b.stage[p] = stage[p]
      /\ b.stage[r] = IF stage[r].state = "blocked" THEN stage[r]
                      ELSE [state |-> "archived", reason |-> "dormant"]
  BY <1>1, MovedIs
<1> HIDE DEF b
<1>4. Then = b /\ stage' = b.stage /\ evals' = b.evals
  BY <1>2, <1>3, TablesAre DEF Becomes, Then, Now
<1>5. \A k \in Key : TurnAt(k, Now, Then)
  BY <1>3, <1>4 DEF TurnAt, Turn, Same
<1>6. evals' = evals
  BY <1>1, <1>3, <1>4
<1>7. MarksKept /\ TasksStay
  BY <1>2, <1>6 DEF MarksKept, TasksStay
<1>8. \A p \in Revision : StaysNew(p, Now, Then)
  <2>1. \A p \in Revision : b.stage[p] = NewEvidence => stage[p] = NewEvidence
    BY <1>3 DEF NewEvidence
  <2> QED
    BY <1>1, <1>3, <1>4, <2>1 DEF StaysNew
<1>9. AskedKnown /\ ParentAnswered /\ EvidenceKept
  BY <1>1, <1>2, <1>3, <1>4, <1>6, <1>8, WorldAlone DEF world, TypeOK
<1>10. WorldTyped'
  BY <1>1, <1>2, TypesOf DEF WorldTyped
<1> QED
  BY <1>2, <1>3, <1>4, <1>5, <1>7, <1>9, <1>10, QuietSteps

LEMMA ScheduleSettledSteps ==
    ASSUME Inv, NEW r \in Revision, ScheduleSettled(r)
    PROVE  Step
<1> DEFINE E == Live(evidence[r])
<1> DEFINE b == Scheduled(Now, r, E, FALSE)
<1> DEFINE c == IF b.evals[<<r, E>>].state = "queued" THEN Moved(b, r, "pending", "other") ELSE b
<1>1. /\ TypeOK /\ Now \in Tables /\ Now.stage = stage /\ Now.evals = evals
      /\ [state |-> "pending", reason |-> "other"] \in Stage
  BY NowIsTables DEF Inv, Now, Stage
<1>2. E \subseteq heard /\ E \in SUBSET Source
  BY <1>1 DEF TypeOK, Live
<1>3. /\ Becomes(c) /\ evals[<<r, E>>].state = "absent" /\ r = claim.head
      /\ UNCHANGED <<source, heard, claim, basis, evidence, tasks, paused, parent, credit>>
  BY DEF ScheduleSettled
<1>4. ScheduledFrom(Now, b, r, E)
  <2> HIDE DEF E
  <2>1. FALSE => \A j \in KeysOf(r) : Now.work[j].token < MaxToken
    OBVIOUS
  <2> QED
    BY <1>1, <1>2, <2>1, NowUntouched, ScheduledTurns
<1> HIDE DEF E, b
<1>5. /\ c \in Tables /\ c.evals = b.evals /\ c.work = b.work
      /\ \A p \in Revision \ {r} : c.stage[p] = b.stage[p]
      /\ c.stage[r] = NewEvidence => b.stage[r] = NewEvidence
  <2>0. b \in Tables
    BY <1>4 DEF ScheduledFrom
  <2>1. CASE b.evals[<<r, E>>].state = "queued"
    <3> DEFINE d == Moved(b, r, "pending", "other")
    <3>1. /\ d \in Tables /\ d.evals = b.evals /\ d.work = b.work
          /\ \A p \in Revision \ {r} : d.stage[p] = b.stage[p]
          /\ d.stage[r] = IF b.stage[r].state = "blocked" THEN b.stage[r]
                          ELSE [state |-> "pending", reason |-> "other"]
      BY <1>1, <2>0, MovedIs
    <3> HIDE DEF d
    <3>2. d.stage[r] = NewEvidence => b.stage[r] = NewEvidence
      BY <3>1 DEF NewEvidence
    <3> QED
      BY <2>1, <3>1, <3>2 DEF d
  <2>2. CASE b.evals[<<r, E>>].state # "queued"
    BY <2>0, <2>2
  <2> QED
    BY <2>1, <2>2
<1> HIDE DEF c
<1>6. Then = c /\ stage' = c.stage /\ evals' = c.evals
  BY <1>3, <1>5, TablesAre DEF Becomes, Then, Now
<1>7. EvidenceKept
  <2> SUFFICES ASSUME NEW p \in Revision, stage'[p] = NewEvidence
               PROVE  \/ ~NoneQueued(Then, p)
                      \/ /\ stage[p] = NewEvidence
                         /\ \A k \in KeysOf(p) : evals'[k].state = evals[k].state
                         /\ Live(evidence[p]) \subseteq Live(evidence[p])'
    BY DEF EvidenceKept
  <2>1. CASE p = r
    <3>1. ~NoneQueued(b, r)
      BY <1>3, <1>4, <1>5, <1>6, <2>1 DEF ScheduledFrom
    <3> QED
      BY <1>5, <1>6, <2>1, <3>1 DEF NoneQueued
  <2>2. CASE p # r
    <3>1. \A k \in KeysOf(p) : k \in Key \ KeysOf(r)
      BY <2>2 DEF KeysOf
    <3>2. \A k \in KeysOf(p) : evals'[k] = evals[k]
      BY <1>1, <1>4, <1>5, <1>6, <3>1 DEF ScheduledFrom, SameAt, Same
    <3>3. stage[p] = NewEvidence
      BY <1>1, <1>4, <1>5, <1>6, <2>2 DEF ScheduledFrom
    <3>4. Live(evidence[p]) \subseteq Live(evidence[p])'
      BY <1>3 DEF Live
    <3> QED
      BY <3>2, <3>3, <3>4
  <2> QED
    BY <2>1, <2>2
<1>8. /\ WorldTyped' /\ TasksStay /\ credit' = credit /\ parent' = parent
      /\ heard \subseteq heard' /\ E \subseteq heard'
  BY <1>1, <1>2, <1>3, TypesOf DEF WorldTyped, TasksStay
<1>9. claim.head <= claim'.head /\ r <= claim'.head
  BY <1>1, <1>3, HeadIs
<1>10. AsksOnly(b, r, E)
  BY <1>4 DEF ScheduledFrom
<1> QED
  BY <1>2, <1>5, <1>6, <1>7, <1>8, <1>9, <1>10, ScheduleSteps DEF Then, Now

(* Collecting evidence moves one candidate and no question.                   *)
LEMMA CollectingIs ==
    ASSUME TypeOK, NEW r \in Revision
    PROVE  LET b == Collecting(r)
           IN  /\ Untouched(b, r) /\ b.evals = evals /\ b.work = work
               /\ \A p \in Revision \ {r} : b.stage[p] = stage[p]
<1> DEFINE b == Collecting(r)
<1>1. /\ Now \in Tables /\ Now.stage = stage /\ Now.evals = evals /\ Now.work = work
      /\ [state |-> "pending", reason |-> "new_evidence"] \in Stage
  BY NowIsTables DEF Now, Stage
<1>2. b = Moved(Now, r, "pending", "new_evidence")
  BY DEF Collecting
<1> HIDE DEF b
<1>3. /\ b \in Tables /\ b.evals = evals /\ b.work = work
      /\ \A p \in Revision \ {r} : b.stage[p] = stage[p]
  BY <1>1, <1>2, MovedIs
<1>4. Untouched(b, r)
  BY <1>1, <1>3 DEF Untouched, SameAt, TurnAt, Turn, Same
<1> QED
  BY <1>3, <1>4 DEF b

LEMMA ObserveSteps == ASSUME Inv, NEW s \in Source, Observe(s) PROVE Step
<1> DEFINE r == claim.head
<1> DEFINE speaks == r # 0 /\ claim.read = "live" /\ Reachable(stage[r])
<1>1. /\ TypeOK /\ Now \in Tables /\ Now.stage = stage /\ Now.evals = evals /\ Now.work = work
      /\ AskedOfWhatIs
  BY NowIsTables DEF Inv, Now
<1>2. /\ s \notin heard /\ source[s] = "live" /\ heard' = heard \cup {s}
      /\ UNCHANGED <<source, claim, basis, tasks, paused, parent, credit>>
  BY DEF Observe
<1>3. claim.head <= claim'.head /\ (r # 0 => r \in Revision)
  BY <1>1, <1>2, HeadIs
<1>4. \A k \in Key : evals[k].state # "absent" => s \notin k[2]
  BY <1>1, <1>2 DEF AskedOfWhatIs
<1>5. TasksStay /\ credit' = credit /\ parent' = parent /\ heard \subseteq heard'
  BY <1>2 DEF TasksStay
<1>6. CASE ~speaks /\ UNCHANGED <<evidence, stage, evals, work>>
  <2>1. Then = Now
    BY <1>6 DEF Then, Now
  <2>2. \A k \in Key : TurnAt(k, Now, Then)
    BY <2>1 DEF TurnAt, Turn, Same
  <2>3. WorldTyped'
    BY <1>1, <1>2, <1>6 DEF TypeOK, WorldTyped
  <2>4. MarksKept /\ ParentAnswered
    BY <1>2, <1>6 DEF MarksKept, ParentAnswered
  <2>5. AskedKnown
    BY <1>2, <1>3, <1>6 DEF AskedKnown
  <2>6. EvidenceKept
    <3>1. \A p \in Revision : Live(evidence[p]) \subseteq Live(evidence[p])'
      BY <1>2, <1>6 DEF Live
    <3> QED
      BY <1>6, <3>1 DEF EvidenceKept
  <2> QED
    BY <1>1, <1>5, <2>1, <2>2, <2>3, <2>4, <2>5, <2>6, QuietSteps
<1>7. CASE /\ speaks /\ evidence' = [evidence EXCEPT ![r] = @ \cup {s}]
           /\ \/ Becomes(Collecting(r))
              \/ Becomes(Scheduled(Collecting(r), r, Live(evidence'[r]), FALSE))
  <2> DEFINE E == Live(evidence'[r])
  <2> DEFINE b == Collecting(r)
  <2>1. r \in Revision /\ r <= claim'.head
    BY <1>1, <1>2, <1>3, <1>7, HeadIs
  <2>2. /\ Untouched(b, r) /\ b.evals = evals /\ b.work = work
        /\ \A p \in Revision \ {r} : b.stage[p] = stage[p]
    BY <1>1, <2>1, CollectingIs
  <2>3. /\ evidence' \in [Revision -> SUBSET heard'] /\ evidence'[r] = evidence[r] \cup {s}
        /\ \A p \in Revision \ {r} : evidence'[p] = evidence[p]
    BY <1>1, <1>2, <1>7, <2>1 DEF TypeOK
  <2>4. E \in SUBSET Source /\ E \subseteq heard' /\ s \in E
    BY <1>1, <1>2, <2>1, <2>3 DEF TypeOK, Live
  <2>5. WorldTyped'
    <3>1. basis' \in [Revision -> SUBSET heard'] /\ heard' \subseteq Source
      BY <1>1, <1>2 DEF TypeOK
    <3> QED
      BY <1>1, <1>2, <2>3, <3>1 DEF TypeOK, WorldTyped
  <2> HIDE DEF E, b
  <2>6. CASE Becomes(b)
    <3>1. /\ stage' = b.stage /\ evals' = evals /\ work' = work
          /\ Then = b /\ Then.evals = b.evals /\ Then.work = b.work /\ Then \in Tables
      BY <2>2, <2>6, TablesAre DEF Becomes, Then, Now, Untouched
    <3>2. EvidenceKept
      <4> SUFFICES ASSUME NEW p \in Revision, stage'[p] = NewEvidence
                   PROVE  \/ /\ stage[p] = NewEvidence
                             /\ \A k \in KeysOf(p) : evals'[k].state = evals[k].state
                             /\ Live(evidence[p]) \subseteq Live(evidence[p])'
                          \/ \E x \in Live(evidence[p])' : Uncited(p, x)'
        BY DEF EvidenceKept
      <4>1. CASE p = r
        <5>1. Uncited(p, s)'
          BY <1>4, <3>1 DEF Uncited, KeysOf
        <5>2. s \in Live(evidence[p])'
          BY <1>2, <2>3, <4>1 DEF Live
        <5> QED
          BY <5>1, <5>2
      <4>2. CASE p # r
        <5>1. stage[p] = NewEvidence /\ \A k \in KeysOf(p) : evals'[k].state = evals[k].state
          BY <2>2, <3>1, <4>2
        <5>2. Live(evidence[p]) \subseteq Live(evidence[p])'
          BY <1>2, <2>3, <4>2 DEF Live
        <5> QED
          BY <5>1, <5>2
      <4> QED
        BY <4>1, <4>2
    <3>3. AsksOnly(b, r, E)
      BY <2>2 DEF Untouched, AsksOnly
    <3> QED
      BY <1>3, <1>5, <2>1, <2>4, <2>5, <3>1, <3>2, <3>3, ScheduleSteps
  <2>7. CASE Becomes(Scheduled(b, r, E, FALSE))
    <3> DEFINE c == Scheduled(b, r, E, FALSE)
    <3>0. ScheduledFrom(b, c, r, E)
      <4>1. FALSE => \A j \in KeysOf(r) : b.work[j].token < MaxToken
        OBVIOUS
      <4> QED
        BY <2>1, <2>2, <2>4, <4>1, ScheduledTurns
    <3> HIDE DEF c
    <3>1. /\ stage' = c.stage /\ evals' = c.evals /\ work' = c.work
          /\ Then = c /\ Then.evals = c.evals /\ Then.work = c.work /\ Then \in Tables
      BY <2>7, <3>0, TablesAre DEF Becomes, Then, Now, ScheduledFrom, c
    <3>2. EvidenceKept
      <4> SUFFICES ASSUME NEW p \in Revision, stage'[p] = NewEvidence
                   PROVE  \/ ~NoneQueued(Then, p)
                          \/ /\ stage[p] = NewEvidence
                             /\ \A k \in KeysOf(p) : evals'[k].state = evals[k].state
                             /\ Live(evidence[p]) \subseteq Live(evidence[p])'
        BY DEF EvidenceKept
      <4>1. CASE p = r
        <5>1. <<r, E>> \in Key => evals[<<r, E>>].state = "absent"
          BY <1>4, <2>1, <2>4, KeyOf
        <5> QED
          BY <3>0, <3>1, <4>1, <5>1 DEF ScheduledFrom
      <4>2. CASE p # r
        <5>1. \A k \in KeysOf(p) : k \in Key \ KeysOf(r)
          BY <4>2 DEF KeysOf
        <5>2. \A k \in KeysOf(p) : evals'[k] = evals[k]
          BY <2>2, <3>0, <3>1, <5>1 DEF ScheduledFrom, SameAt, Same
        <5>3. stage[p] = NewEvidence
          BY <2>2, <3>0, <3>1, <4>2 DEF ScheduledFrom
        <5>4. Live(evidence[p]) \subseteq Live(evidence[p])'
          BY <1>2, <2>3, <4>2 DEF Live
        <5> QED
          BY <5>2, <5>3, <5>4
      <4> QED
        BY <4>1, <4>2
    <3>3. AsksOnly(c, r, E)
      BY <3>0 DEF ScheduledFrom
    <3> QED
      BY <1>3, <1>5, <2>1, <2>4, <2>5, <3>1, <3>2, <3>3, ScheduleSteps
  <2> QED
    BY <1>7, <2>6, <2>7 DEF E, b
<1> QED
  BY <1>6, <1>7 DEF Observe

(* A registration leaves no candidate pending for new evidence but the one    *)
(* whose question it queues.                                                  *)
LEMMA RegisteringSteps ==
    ASSUME Inv, MayFence, NEW r \in Revision, NEW fact \in {"proposed", "active", "retracted"},
           NEW E \in SUBSET Source, NEW resume \in BOOLEAN,
           \/ Becomes(Registered(Now, r, fact))
           \/ Becomes(Scheduled(Registered(Now, r, fact), r, E, resume)),
           WorldTyped', TasksStay, credit' = credit, parent' = parent,
           claim.head <= claim'.head, heard \subseteq heard',
           r <= claim'.head, E \subseteq heard'
    PROVE  Step
<1> DEFINE b == Registered(Now, r, fact)
<1> DEFINE c == Scheduled(b, r, E, resume)
<1>1. TypeOK
  BY DEF Inv
<1>2. /\ Untouched(b, r) /\ \A p \in Revision : b.stage[p] # NewEvidence
      /\ \A k \in KeysOf(r) : b.work[k].token < MaxToken
  BY <1>1, RegisteredUntouched
<1> HIDE DEF b
<1>3. ScheduledFrom(b, b, r, E) /\ ScheduledFrom(b, c, r, E)
  BY <1>2, UntouchedFrom, ScheduledTurns
<1>4. PICK d \in {b, c} : Becomes(d)
  BY DEF b
<1> HIDE DEF c
<1>5. ScheduledFrom(b, d, r, E)
  BY <1>3, <1>4
<1>6. /\ stage' = d.stage /\ evals' = d.evals
      /\ Then = d /\ Then.evals = d.evals /\ Then.work = d.work /\ Then \in Tables
  BY <1>4, <1>5, TablesAre DEF Becomes, Then, Now, ScheduledFrom
<1>7. EvidenceKept
  <2> SUFFICES ASSUME NEW p \in Revision, stage'[p] = NewEvidence PROVE ~NoneQueued(Then, p)
    BY DEF EvidenceKept
  <2> QED
    BY <1>2, <1>5, <1>6 DEF ScheduledFrom
<1>8. AsksOnly(d, r, E)
  BY <1>5 DEF ScheduledFrom
<1> QED
  BY <1>6, <1>7, <1>8, ScheduleSteps

LEMMA ReviseSteps ==
    ASSUME Inv, NEW E \in Question, NEW fact \in {"proposed", "active", "retracted"},
           Revise(E, fact)
    PROVE  Step
<1> DEFINE r == claim.head + 1
<1>1. TypeOK
  BY DEF Inv
<1>2. /\ claim.head < MaxRevision /\ E \subseteq Live(heard) /\ MayFence
      /\ claim' = [claim EXCEPT !.head = r, !.fact = fact]
      /\ basis' = [basis EXCEPT ![r] = E]
      /\ evidence' = [evidence EXCEPT ![r] = IF fact = "proposed" THEN E ELSE {}]
      /\ UNCHANGED <<source, heard, tasks, paused, parent, credit>>
  BY DEF Revise
<1>3. \/ Becomes(Registered(Now, r, fact))
      \/ Becomes(Scheduled(Registered(Now, r, fact), r, E, FALSE))
  BY DEF Revise
<1>4. /\ r \in Revision /\ claim.head <= claim'.head /\ r <= claim'.head
      /\ claim' = [head |-> r, fact |-> fact, read |-> claim.read] /\ r \in 0 .. MaxRevision
  <2>1. r \in Revision /\ r \in 0 .. MaxRevision /\ claim.head <= r /\ r <= r
    BY <1>1, <1>2, HeadIs DEF Revision
  <2> HIDE DEF r
  <2>2. claim' = [head |-> r, fact |-> fact, read |-> claim.read]
    BY <1>1, <1>2 DEF TypeOK
  <2> QED
    BY <2>1, <2>2
<1>5. E \in SUBSET Source /\ E \subseteq heard
  BY <1>2 DEF Question, Live
<1>6. WorldTyped'
  <2>1. claim' \in [head: 0 .. MaxRevision, fact: {"proposed", "active", "retracted"},
                    read: Readable]
    BY <1>1, <1>4 DEF TypeOK
  <2>2. basis' \in [Revision -> SUBSET heard] /\ evidence' \in [Revision -> SUBSET heard]
    BY <1>1, <1>2, <1>5 DEF TypeOK
  <2> QED
    BY <1>1, <1>2, <2>1, <2>2 DEF TypeOK, WorldTyped
<1>7. TasksStay /\ credit' = credit /\ parent' = parent /\ heard \subseteq heard'
      /\ E \subseteq heard'
  BY <1>2, <1>5 DEF TasksStay
<1> HIDE DEF r
<1> QED
  BY <1>2, <1>3, <1>4, <1>5, <1>6, <1>7, RegisteringSteps

LEMMA ReleaseSuppressedSteps ==
    ASSUME Inv, NEW c \in Closures, ReleaseSuppressed(c)
    PROVE  Step
<1> DEFINE r == claim.head
<1> DEFINE seeded == IF claim.fact = "proposed" THEN {s \in basis[r] : source'[s] = "live"} ELSE {}
<1> DEFINE E == {s \in evidence[r] \cup seeded : source'[s] = "live"}
<1> DEFINE released == /\ claim'.read = "live" /\ r # 0
                       /\ stage[r] = [state |-> "blocked", reason |-> "suppressed"]
<1>1. TypeOK /\ Now \in Tables
  BY NowIsTables DEF Inv
<1>2. /\ MayFence
      /\ source' = [s \in Source |-> IF s \in c.sources THEN "live" ELSE source[s]]
      /\ claim' = IF c.claim THEN [claim EXCEPT !.read = "live"] ELSE claim
      /\ UNCHANGED <<heard, basis, tasks, paused, parent, credit>>
  BY DEF ReleaseSuppressed
<1>3. \/ /\ released /\ evidence' = [evidence EXCEPT ![r] = @ \cup seeded]
         /\ \/ Becomes(Registered(Now, r, claim.fact))
            \/ Becomes(Scheduled(Registered(Now, r, claim.fact), r, E, TRUE))
      \/ UNCHANGED <<evidence, stage, evals, work>>
  BY DEF ReleaseSuppressed
<1>4. claim.head \in Int /\ claim'.head = claim.head /\ claim.head <= claim'.head
      /\ claim.fact \in {"proposed", "active", "retracted"}
      /\ (r # 0 => r \in Revision)
  BY <1>1, <1>2, HeadIs DEF TypeOK
<1>5. /\ source' \in [Source -> Readable]
      /\ claim' \in [head: 0 .. MaxRevision, fact: {"proposed", "active", "retracted"},
                     read: Readable]
  BY <1>1, <1>2 DEF TypeOK, Readable
<1>6. TasksStay /\ credit' = credit /\ parent' = parent /\ heard \subseteq heard'
  BY <1>2 DEF TasksStay
<1>7. CASE released /\ evidence' = [evidence EXCEPT ![r] = @ \cup seeded]
           /\ \/ Becomes(Registered(Now, r, claim.fact))
              \/ Becomes(Scheduled(Registered(Now, r, claim.fact), r, E, TRUE))
  <2>1. r \in Revision
    BY <1>4, <1>7
  <2>2. seeded \subseteq heard /\ E \subseteq heard /\ E \in SUBSET Source
    BY <1>1, <2>1 DEF TypeOK
  <2> HIDE DEF seeded, E
  <2>3. evidence' \in [Revision -> SUBSET heard]
    BY <1>1, <1>7, <2>1, <2>2 DEF TypeOK
  <2>4. WorldTyped'
    BY <1>1, <1>2, <1>5, <2>3 DEF TypeOK, WorldTyped
  <2>5. r <= claim'.head /\ E \subseteq heard'
    BY <1>2, <1>4, <2>2
  <2> HIDE DEF r
  <2> QED
    BY <1>2, <1>4, <1>6, <1>7, <2>1, <2>2, <2>4, <2>5, RegisteringSteps DEF r
<1>8. CASE UNCHANGED <<evidence, stage, evals, work>>
  <2>1. Then = Now
    BY <1>8 DEF Then, Now
  <2>2. \A k \in Key : TurnAt(k, Now, Then)
    BY <2>1 DEF TurnAt, Turn, Same
  <2>3. WorldTyped'
    BY <1>1, <1>2, <1>5, <1>8 DEF TypeOK, WorldTyped
  <2>4. MarksKept /\ ParentAnswered
    BY <1>2, <1>8 DEF MarksKept, ParentAnswered
  <2>5. AskedKnown
    BY <1>2, <1>4, <1>8 DEF AskedKnown
  <2>6. EvidenceKept
    <3>1. \A p \in Revision : evidence[p] \subseteq Source
      BY <1>1 DEF TypeOK
    <3>2. \A p \in Revision : Live(evidence[p]) \subseteq Live(evidence[p])'
      BY <1>2, <1>8, <3>1 DEF Live
    <3> QED
      BY <1>8, <3>2 DEF EvidenceKept
  <2> QED
    BY <1>1, <1>6, <2>1, <2>2, <2>3, <2>4, <2>5, <2>6, QuietSteps
<1> QED
  BY <1>3, <1>7, <1>8

LEMMA IntakeSteps == ASSUME Inv, Intake PROVE Step
BY ReviseSteps, ObserveSteps, ScheduleSettledSteps, ArchiveDormantSteps DEF Intake

LEMMA PersonSteps == ASSUME Inv, Person PROVE Step
BY ReleaseSuppressedSteps, WithdrawSteps, PausesSteps DEF Person

-----------------------------------------------------------------------------
(***************************************************************************)
(* A verdict that writes a revision: the question is answered, the others  *)
(* of older revisions are fenced, and the new revision's own is decided.   *)
(***************************************************************************)
LEMMA RegisteredUnscheduledIs ==
    ASSUME NEW b \in Tables, NEW r \in Revision, NEW fact \in {"proposed", "active"}, NEW E,
           \A k \in Key : b.work[k].token < MaxToken
    PROVE  LET c == RegisteredUnscheduled(b, r, fact, E)
           IN  /\ c \in Tables
               /\ \A p \in Revision : c.stage[p] # NewEvidence
               /\ \A k \in KeysOf(r) : SameAt(k, b, c)
               /\ \A k \in Key \ KeysOf(r) :
                    Fenced(b.evals[k], b.work[k], c.evals[k], c.work[k])
<1> DEFINE d == Registered(b, r, fact)
<1> DEFINE c == RegisteredUnscheduled(b, r, fact, E)
<1>1. /\ d \in Tables
      /\ d.stage[r] = Standing(fact)
      /\ \A p \in Revision \ {r} : d.stage[p] = Superseded(b.stage[p])
      /\ \A k \in KeysOf(r) : SameAt(k, b, d)
      /\ \A k \in Key \ KeysOf(r) :
           Fenced(b.evals[k], b.work[k], d.evals[k], d.work[k])
  BY RegisteredIs
<1>2. c = IF fact = "proposed" THEN Moved(d, r, "waiting", "other") ELSE d
  BY DEF RegisteredUnscheduled
<1> HIDE DEF d, c
<1>3. [state |-> "waiting", reason |-> "other"] \in Stage
  BY DEF Stage
<1>4. \A p \in Revision : d.stage[p] # NewEvidence
  BY <1>1 DEF Standing, Superseded, NewEvidence
<1>5. /\ c \in Tables /\ c.evals = d.evals /\ c.work = d.work
      /\ \A p \in Revision : c.stage[p] # NewEvidence
  <2>1. CASE fact = "proposed"
    <3>1. c = Moved(d, r, "waiting", "other")
      BY <1>2, <2>1
    <3>2. /\ c \in Tables /\ c.evals = d.evals /\ c.work = d.work
          /\ \A p \in Revision \ {r} : c.stage[p] = d.stage[p]
          /\ c.stage[r] = IF d.stage[r].state = "blocked" THEN d.stage[r]
                          ELSE [state |-> "waiting", reason |-> "other"]
      BY <1>1, <1>3, <3>1, MovedIs
    <3> QED
      BY <1>4, <3>2 DEF NewEvidence
  <2>2. CASE fact # "proposed"
    BY <1>1, <1>2, <1>4, <2>2
  <2> QED
    BY <2>1, <2>2
<1> QED
  BY <1>1, <1>5 DEF SameAt, c

LEMMA InheritedIs ==
    ASSUME NEW b \in Tables, NEW k \in Key
    PROVE  LET c == Inherited(b, k)
           IN  /\ c \in Tables /\ c.stage = b.stage /\ c.work = b.work
               /\ c.evals[k] = IF b.evals[k].state = "absent"
                               THEN [state |-> "answered", marked |-> TRUE] ELSE b.evals[k]
               /\ \A j \in Key \ {k} : c.evals[j] = b.evals[j]
<1> DEFINE e == [state |-> "answered", marked |-> TRUE]
<1>1. e \in Evaluation
  BY DEF Evaluation
<1>2. CASE b.evals[k].state = "absent"
  <2>1. Inherited(b, k) = [b EXCEPT !.evals[k] = e]
    BY <1>2 DEF Inherited
  <2> DEFINE c == Inherited(b, k)
  <2> HIDE DEF e, c
  <2>2. /\ c \in Tables /\ c.stage = b.stage /\ c.work = b.work
        /\ c.evals[k] = e
        /\ \A j \in Key \ {k} : c.evals[j] = b.evals[j]
    BY <1>1, <2>1, EvaluationSet DEF c
  <2> QED
    BY <1>2, <2>2 DEF e, c
<1>3. CASE b.evals[k].state # "absent"
  BY <1>3 DEF Inherited
<1> QED
  BY <1>2, <1>3

(* The tables a verdict leaves.                                               *)
AppliedTo(b, k, j) ==
    /\ b \in Tables
    /\ \A p \in Revision : b.stage[p] # NewEvidence
    /\ ReplyAt(k, Now, b)
    /\ \A i \in Key \ {k} : TurnAt(i, Now, b)
    /\ b.evals[j].state = "answered"
    /\ \A i \in Key : /\ evals[i].marked => b.evals[i].marked
                      /\ b.evals[i].state # "absent" => evals[i].state # "absent" \/ i = j

LEMMA AppliedIs ==
    ASSUME Inv, MayFence, NEW t \in tasks, NEW fact \in {"proposed", "active"},
           NEW to \in {"waiting", "resolved"},
           Holds(t), evals[t.key].state = "queued",
           NEW r \in Revision, r # t.key[1],
           <<r, t.key[2]>> \in Key, evals[<<r, t.key[2]>>].state = "absent"
    PROVE  LET answered == Moved(Closed(Done(t.key), t.key, "answered"), t.key[1], to, "other")
               j == <<r, t.key[2]>>
           IN  AppliedTo(Inherited(RegisteredUnscheduled(answered, r, fact, t.key[2]), j), t.key, j)
<1> DEFINE k == t.key
<1> DEFINE j == <<r, t.key[2]>>
<1> DEFINE row == Unleased(work[k], "done", NoHistory)
<1> DEFINE a == Moved(Closed(WithRow(Now, k, row), k, "answered"), k[1], to, "other")
<1> DEFINE c == RegisteredUnscheduled(a, r, fact, k[2])
<1> DEFINE d == Inherited(c, j)
<1>1. /\ TypeOK /\ k \in Key /\ Now \in Tables /\ work[k] \in Row
      /\ NoHistory \in History
  BY TaskParts, NowIsTables, HistoryKept DEF Inv
<1>2. Now.stage = stage /\ Now.evals = evals /\ Now.work = work
  BY DEF Now
<1>3. row \in Row /\ row.state = "done" /\ row.token = work[k].token
      /\ row.attempt = work[k].attempt
  BY <1>1, UnleasedIs
<1>4. j \in KeysOf(r) /\ k \notin KeysOf(r) /\ j # k /\ j \in Key
  BY DEF KeysOf
<1>5. work[k].state = "leased" /\ work[k].attempt \in 0 .. work[k].attempt
  BY <1>1, RowParts DEF Holds
<1> HIDE DEF row, k, j
<1>6. SettledTo(Now, a, k, row, "answered")
  BY <1>1, <1>3, SettledIs
<1> HIDE DEF a
<1>7. /\ a \in Tables /\ a.work[k] = row /\ a.evals[k].marked = evals[k].marked
      /\ a.evals[k].state = "answered"
      /\ \A i \in Key \ {k} : a.evals[i] = evals[i] /\ a.work[i] = work[i]
  BY <1>2, <1>6 DEF SettledTo, SameAt, Same, k
<1>8. \A i \in Key : a.work[i].token < MaxToken
  BY <1>3, <1>7 DEF MayFence
<1>9. /\ c \in Tables
      /\ \A p \in Revision : c.stage[p] # NewEvidence
      /\ \A i \in KeysOf(r) : SameAt(i, a, c)
      /\ \A i \in Key \ KeysOf(r) :
           Fenced(a.evals[i], a.work[i], c.evals[i], c.work[i])
  <2> DEFINE E == k[2]
  <2>1. c = RegisteredUnscheduled(a, r, fact, E)
    OBVIOUS
  <2> HIDE DEF E, c
  <2> QED
    BY <1>7, <1>8, <2>1, RegisteredUnscheduledIs
<1> HIDE DEF c
<1>10. /\ d \in Tables /\ d.stage = c.stage /\ d.work = c.work
       /\ d.evals[j] = IF c.evals[j].state = "absent"
                       THEN [state |-> "answered", marked |-> TRUE] ELSE c.evals[j]
       /\ \A i \in Key \ {j} : d.evals[i] = c.evals[i]
  BY <1>4, <1>9, InheritedIs
<1> HIDE DEF d
<1>11. /\ d.evals[j] = [state |-> "answered", marked |-> TRUE] /\ d.work[j] = work[j]
       /\ evals[j].state = "absent"
  <2>1. c.evals[j] = evals[j] /\ c.work[j] = work[j]
    BY <1>4, <1>7, <1>9 DEF SameAt, Same
  <2> QED
    BY <1>10, <2>1 DEF j
<1>12. d.evals[k].state = "answered" /\ d.evals[k].marked = evals[k].marked /\ d.work[k] = row
  <2>1. Fenced(a.evals[k], a.work[k], c.evals[k], c.work[k])
    BY <1>1, <1>4, <1>9
  <2>2. c.evals[k].state = "answered" /\ c.evals[k].marked = evals[k].marked /\ c.work[k] = row
    BY <1>3, <1>7, <2>1 DEF Fenced
  <2> QED
    BY <1>1, <1>4, <1>10, <2>2
<1>13. ReplyAt(k, Now, d)
  <2>1. Finishes(evals[k], work[k], d.evals[k], row)
    BY <1>3, <1>12 DEF Finishes, k
  <2> QED
    BY <1>2, <1>3, <1>5, <1>12, <2>1 DEF ReplyAt, Reply
<1>14. ASSUME NEW i \in Key \ {k}
       PROVE  /\ TurnAt(i, Now, d)
              /\ evals[i].marked => d.evals[i].marked
              /\ d.evals[i].state # "absent" => evals[i].state # "absent" \/ i = j
  <2>1. CASE i = j
    <3>1. Decides(evals[i], work[i], d.evals[i], d.work[i])
      BY <1>11, <2>1 DEF Decides
    <3> QED
      BY <1>2, <2>1, <3>1 DEF TurnAt, Turn, Decides
  <2>2. CASE i # j /\ i \in KeysOf(r)
    <3>1. d.evals[i] = evals[i] /\ d.work[i] = work[i]
      BY <1>7, <1>9, <1>10, <2>2 DEF SameAt, Same
    <3> QED
      BY <1>2, <3>1 DEF TurnAt, Turn, Same
  <2>3. CASE i # j /\ i \notin KeysOf(r)
    <3>1. Fenced(evals[i], work[i], d.evals[i], d.work[i])
      BY <1>7, <1>9, <1>10, <2>3
    <3> QED
      BY <1>2, <3>1 DEF TurnAt, Turn, Fenced
  <2> QED
    BY <2>1, <2>2, <2>3
<1>15. AppliedTo(d, k, j)
  <2>1. evals[k].state # "absent"
    BY DEF k
  <2> QED
    BY <1>9, <1>10, <1>11, <1>12, <1>13, <1>14, <2>1 DEF AppliedTo
<1> QED
  BY <1>15 DEF d, c, a, row, k, j, Done

LEMMA AppliedSteps ==
    ASSUME Inv, NEW t \in tasks, NEW fact \in {"proposed", "active"}, Applied(t, fact)
    PROVE  Step
<1> DEFINE k == t.key
<1> DEFINE r == claim.head + 1
<1> DEFINE j == <<r, k[2]>>
<1> DEFINE to == IF fact = "active" THEN "resolved" ELSE "waiting"
<1> DEFINE answered == Moved(Closed(Done(k), k, "answered"), k[1], to, "other")
<1> DEFINE b == Inherited(RegisteredUnscheduled(answered, r, fact, k[2]), j)
<1>1. TypeOK /\ TokensApart /\ RequestsPaid /\ AskedOfWhatIs /\ Now \in Tables
  BY NowIsTables DEF Inv
<1>2. k \in Key /\ k[1] \in Revision /\ k[2] \in SUBSET Source /\ k[2] # {}
  BY <1>1, TaskParts, KeyParts
<1>3. Judged(t) /\ claim.head < MaxRevision /\ MayFence
  BY DEF Applied
<1>4. evals[k].state = "queued" /\ k[1] = claim.head /\ Live(k[2]) = k[2]
  BY <1>3 DEF Judged, HasAuthority, MayJudge
<1>5. Lands(t, b)
  BY DEF Applied
<1>6. /\ claim' = [claim EXCEPT !.head = r, !.fact = fact]
      /\ basis' = [basis EXCEPT ![r] = k[2]]
      /\ evidence' = [evidence EXCEPT ![r] = evidence[k[1]]]
      /\ parent' = [parent EXCEPT ![r] = k[2]]
      /\ UNCHANGED <<source, heard, paused, credit>>
  BY DEF Applied
<1>7. /\ r \in Revision /\ r \in 0 .. MaxRevision /\ r # k[1] /\ claim.head <= r /\ r <= r
      /\ ~(r <= claim.head)
  BY <1>1, <1>3, <1>4, HeadIs DEF Revision
<1> HIDE DEF r
<1>8. j \in Key /\ evals[j].state = "absent" /\ k[2] \subseteq heard
  <2>1. j \in Key /\ j[1] = r
    BY <1>2, <1>7, KeyOf
  <2> QED
    BY <1>1, <1>2, <1>4, <1>7, <2>1 DEF AskedOfWhatIs
<1>9. Holds(t) /\ tasks' = tasks \ {t} /\ to \in {"waiting", "resolved"}
  BY <1>5 DEF Lands
<1>10. AppliedTo(b, k, j)
  <2> HIDE DEF to
  <2> QED
    BY <1>3, <1>4, <1>7, <1>8, <1>9, AppliedIs
<1> HIDE DEF b
<1>11. /\ Then = b /\ Then \in Tables
       /\ stage' = b.stage /\ evals' = b.evals /\ work' = b.work
  BY <1>5, <1>10, TablesAre DEF Lands, Becomes, Then, Now, AppliedTo
<1>12. Turns
  BY <1>9, <1>10, <1>11 DEF Turns, ReplyStep, AppliedTo
<1>13. tasks' \subseteq Task /\ TokensApart'
  <2>1. TokensOnward
    BY <1>1, <1>11, <1>12, EveryKeyTurns, TokensGoOnward
  <2> QED
    BY <1>1, <1>9, <2>1, FewerTasks
<1>14. claim' = [head |-> r, fact |-> fact, read |-> claim.read]
  BY <1>1, <1>6 DEF TypeOK
<1>15. TypeOK'
  <2>1. claim' \in [head: 0 .. MaxRevision, fact: {"proposed", "active", "retracted"},
                    read: Readable]
    BY <1>1, <1>7, <1>14 DEF TypeOK
  <2>2. basis' \in [Revision -> SUBSET heard] /\ evidence' \in [Revision -> SUBSET heard]
        /\ parent' \in [Revision -> SUBSET Source]
    BY <1>1, <1>2, <1>6, <1>8 DEF TypeOK
  <2>3. stage' \in [Revision -> Stage] /\ evals' \in [Key -> Evaluation] /\ work' \in [Key -> Row]
    BY <1>10, <1>11, TablesAre DEF AppliedTo
  <2> QED
    BY <1>1, <1>6, <1>13, <2>1, <2>2, <2>3 DEF TypeOK
<1>16. AskedKnown
  <2>1. claim'.head = r /\ heard' = heard /\ j[1] = r /\ j[2] = k[2]
    BY <1>6, <1>14
  <2>2. claim.head <= claim'.head /\ j[1] <= claim'.head /\ j[2] \subseteq heard'
    BY <1>7, <1>8, <2>1
  <2> HIDE DEF j
  <2> QED
    BY <1>10, <1>11, <2>1, <2>2 DEF AskedKnown, AppliedTo
<1>17. ParentAnswered
  <2> SUFFICES ASSUME NEW p \in Revision
               PROVE  parent'[p] = parent[p] \/ evals'[<<p, parent'[p]>>].state = "answered"
    BY DEF ParentAnswered
  <2>1. CASE p = r
    BY <1>1, <1>6, <1>7, <1>10, <1>11, <2>1 DEF TypeOK, AppliedTo
  <2>2. CASE p # r
    BY <1>1, <1>6, <2>2 DEF TypeOK
  <2> QED
    BY <2>1, <2>2
<1>18. EvidenceKept
  BY <1>10, <1>11 DEF EvidenceKept, AppliedTo
<1>19. RequestsPaid'
  <2>1. MarksKept
    BY <1>10, <1>11 DEF MarksKept, AppliedTo
  <2> QED
    BY <1>1, <1>6, <1>9, <1>15, <2>1, PaidWithFewerTasks
<1> QED
  BY <1>12, <1>13, <1>15, <1>16, <1>17, <1>18, <1>19 DEF Step

LEMMA WorkSteps == ASSUME Inv, NEW t \in tasks, Work(t) PROVE Step
<1>1. CASE \/ Abandon(t) \/ FindRevoked(t) \/ FindInterrupted(t) \/ BeginModelAttempt(t) \/ Ask(t)
  BY <1>1, TaskGoesOn
<1>2. CASE Defer(t) \/ DeferEntry(t) \/ DeferBudget(t)
  BY <1>2, DeferSteps, DeferEntrySteps
<1>3. CASE CapacityRefused(t) \/ Rejected(t) \/ InvalidAnswer(t)
  BY <1>3, RefusedSteps
<1>4. CASE CloseInterrupted(t) \/ FailForGood(t) \/ CloseRevoked(t) \/ CloseChanged(t)
  BY <1>4, GivenUpSteps, CloseSteps
<1>5. CASE SettleByRule(t) \/ Insufficient(t)
  BY <1>5, AnsweredSteps
<1>6. CASE \E fact \in {"proposed", "active"} : Applied(t, fact)
  BY <1>6, AppliedSteps
<1> QED
  BY <1>1, <1>2, <1>3, <1>4, <1>5, <1>6 DEF Work

LEMMA NextSteps == ASSUME Inv, Next PROVE Step
BY IntakeSteps, PersonSteps, QueueSteps, WorkSteps DEF Next

LEMMA StutterKeeps == ASSUME Inv, UNCHANGED vars PROVE Inv'
<1>1. TypeOK' /\ AttemptsWithinTokens' /\ TokensApart' /\ InStep' /\ AskedOfWhatIs'
      /\ InheritedAnswered'
  BY DEF Inv, vars, TypeOK, AttemptsWithinTokens, TokensApart, InStep, AskedOfWhatIs,
         InheritedAnswered
<1>2. NewEvidenceUncited'
  BY DEF Inv, vars, NewEvidenceUncited, NoneQueued, Now, Live, Uncited
<1>3. RequestsPaid'
  BY DEF Inv, vars, RequestsPaid, Begun
<1> QED
  BY <1>1, <1>2, <1>3 DEF Inv

-----------------------------------------------------------------------------
(* The invariant the properties below are read off from.                      *)
THEOREM InvHolds == Spec => []Inv
<1>1. Inv /\ [Next]_vars => Inv'
  BY NextSteps, StepKeeps, StutterKeeps
<1> QED
  BY <1>1, InitInv, PTL DEF Spec

(***************************************************************************)
(* The state of every table stays of its type, through intake, blocks,     *)
(* verdicts and repairs; no attempt counter or generation overruns.        *)
(***************************************************************************)
THEOREM TypeCorrect == Spec => []TypeOK
BY InvHolds, PTL DEF Inv

(***************************************************************************)
(* A question costs a request only when one is allowed, whatever crashes,  *)
(* dead leases and late answers do: the committed mark pays for it.        *)
(***************************************************************************)
THEOREM RequestsWithinGrantsHolds == Spec => []RequestsWithinGrants
<1>1. Inv => RequestsWithinGrants
  <2> SUFFICES ASSUME Inv, NEW k \in Key PROVE credit[k] >= 0
    BY DEF RequestsWithinGrants
  <2>1. credit[k] \in Int /\ Cardinality(Begun(k)) \in Nat
    BY BegunCounted DEF Inv, TypeOK, RequestsPaid
  <2>2. credit[k] >= Cardinality(Begun(k)) + (IF evals[k].marked THEN 0 ELSE 1)
    BY DEF Inv, RequestsPaid
  <2> QED
    BY <2>1, <2>2
<1> QED
  BY <1>1, InvHolds, PTL

(* The evaluations, their work and the answers stay in step.                  *)
THEOREM InStepHolds == Spec => []InStep
BY InvHolds, PTL DEF Inv

(* A revision a verdict wrote has the answer of the question that wrote it,   *)
(* so that a version change alone asks nothing again.                         *)
THEOREM InheritedAnsweredHolds == Spec => []InheritedAnswered
BY InvHolds, PTL DEF Inv

(***************************************************************************)
(* A candidate woken by new evidence has a question queued, or one to put  *)
(* that was never asked: the sweep over stale rows finds nothing there.    *)
(***************************************************************************)
THEOREM NewEvidencePosesAQuestionHolds == Spec => []NewEvidencePosesAQuestion
<1>1. Inv => NewEvidencePosesAQuestion
  <2> SUFFICES ASSUME Inv, NEW r \in Revision, stage[r] = NewEvidence, NoneQueued(Now, r)
               PROVE  Live(evidence[r]) # {} /\ evals[<<r, Live(evidence[r])>>].state = "absent"
    BY DEF NewEvidencePosesAQuestion, PosesAQuestion, NewEvidence
  <2> DEFINE E == Live(evidence[r])
  <2>1. PICK s \in E : Uncited(r, s)
    BY DEF Inv, NewEvidenceUncited
  <2>2. E \in SUBSET Source /\ E # {}
    BY <2>1 DEF Inv, TypeOK, Live
  <2> HIDE DEF E
  <2>3. <<r, E>> \in KeysOf(r) /\ <<r, E>>[2] = E
    BY <2>2, KeyOf
  <2>4. evals[<<r, E>>].state = "absent"
    BY <2>1, <2>3 DEF Uncited
  <2> QED
    BY <2>2, <2>4 DEF E
<1> QED
  BY <1>1, InvHolds, PTL

-----------------------------------------------------------------------------
(* The work of the evaluations implements WorkLifecycle.                      *)
LEMMA TurnMoves ==
    ASSUME Inv, TypeOK', NEW k \in Key, TurnAt(k, Now, Then)
    PROVE  Lifecycle!Moves(k) \/ Lifecycle!Stays(k)
<1> DEFINE e == evals[k]
<1> DEFINE w == work[k]
<1> DEFINE f == evals'[k]
<1> DEFINE v == work'[k]
<1>1. /\ e \in Evaluation /\ w \in Row /\ f \in Evaluation /\ v \in Row
      /\ Turn(e, w, f, v)
  BY DEF Inv, TypeOK, TurnAt, Now, Then
<1>2. e.state = "absent" => w.state \in {"absent", "obsolete"}
  <2>1. w.state \in {"absent", "pending", "leased", "done", "failed", "obsolete"}
    BY <1>1 DEF Row
  <2> QED
    BY <2>1 DEF Inv, InStep
<1>3. /\ [j \in Key |-> work[j].state][k] = w.state
      /\ [j \in Key |-> work[j].token][k] = w.token
      /\ [j \in Key |-> work[j].state]'[k] = v.state
      /\ [j \in Key |-> work[j].token]'[k] = v.token
  OBVIOUS
<1>4. /\ [w EXCEPT !.state = "pending"].state = "pending"
      /\ [w EXCEPT !.state = "pending"].token = w.token
      /\ [w EXCEPT !.state = "obsolete"].state = "obsolete"
      /\ [w EXCEPT !.state = "obsolete"].token = w.token
  BY <1>1 DEF Row
<1> HIDE DEF e, w, f, v
<1>5. \/ v.state = w.state /\ v.token = w.token
      \/ w.state = "absent" /\ v.state = "pending" /\ v.token = w.token
      \/ w.state = "leased" /\ v.state \in {"pending", "failed"} /\ v.token = w.token
      \/ /\ w.state \in {"pending", "leased"} /\ v.state = "obsolete"
         /\ v.token \in {w.token, w.token + 1}
      \/ /\ w.state \in {"obsolete", "failed"} /\ v.state = "pending"
         /\ v.token \in {w.token, w.token + 1}
  <2>1. CASE Same(e, w, f, v) \/ Decides(e, w, f, v) \/ Reconciles(e, w, f, v) \/ Begins(e, w, f, v)
    BY <2>1 DEF Same, Decides, Reconciles, Begins
  <2>2. CASE Asks(e, w, f, v)
    BY <1>2, <1>4, <2>2 DEF Asks
  <2>3. CASE GivesWay(e, w, f, v)
    BY <1>4, <2>3 DEF GivesWay
  <2>4. CASE Fenced(e, w, f, v)
    BY <2>4 DEF Fenced
  <2>5. CASE Resumes(e, w, f, v) \/ TimesOut(e, w, f, v) \/ Reopens(e, w, f, v)
    BY <2>5 DEF Resumes, TimesOut, Reopens
  <2> QED
    BY <1>1, <2>1, <2>2, <2>3, <2>4, <2>5 DEF Turn
<1> QED
  BY <1>3, <1>5 DEF Lifecycle!Moves, Lifecycle!Stays, Lifecycle!Queued, Lifecycle!TakenBack,
       Lifecycle!Withdrawn, Lifecycle!Reopened, Lifecycle!Becomes, Lifecycle!Stopped

LEMMA ReplyLands ==
    ASSUME Inv, TypeOK', NEW t \in tasks, Holds(t), tasks' = tasks \ {t},
           ReplyAt(t.key, Now, Then)
    PROVE  Lifecycle!Landed(t.key)
<1> DEFINE k == t.key
<1>1. k \in Key /\ work[k].state = "leased" /\ work[k].token = t.token
  BY TaskParts DEF Inv, Holds
<1>2. /\ work'[k].token = work[k].token
      /\ work'[k].state \in {"done", "failed", "obsolete", "pending"}
  BY DEF ReplyAt, Reply, PutsBack, GivesUp, Finishes, Drops, Now, Then
<1>3. <<k, t.token>> \in Grants /\ Grants' = Grants \ {<<k, t.token>>}
  <2>1. \A u \in tasks : u.key = t.key /\ u.token = t.token => u = t
    BY DEF Inv, TokensApart
  <2> QED
    BY <2>1 DEF Grants
<1>4. /\ [j \in Key |-> work[j].state][k] = work[k].state
      /\ [j \in Key |-> work[j].token][k] = work[k].token
      /\ [j \in Key |-> work[j].state]'[k] = work'[k].state
      /\ [j \in Key |-> work[j].token]'[k] = work'[k].token
  BY <1>1
<1> HIDE DEF k
<1> QED
  BY <1>1, <1>2, <1>3, <1>4
     DEF Lifecycle!Landed, Lifecycle!Newest, Lifecycle!Becomes, Lifecycle!Stopped, Grants, k

LEMMA ClaimGranted ==
    ASSUME Inv, TypeOK', NEW k \in Key, ClaimAt(k, Now, Then),
           Grants' = Grants \cup {<<k, work'[k].token>>}
    PROVE  Lifecycle!Granted(k)
<1>1. /\ work[k].state = "pending" /\ work'[k].state = "leased"
      /\ work'[k].token = work[k].token + 1
  BY DEF ClaimAt, Claims, Now, Then
<1>2. /\ [j \in Key |-> work[j].state][k] = work[k].state
      /\ [j \in Key |-> work[j].token][k] = work[k].token
      /\ [j \in Key |-> work[j].state]'[k] = work'[k].state
      /\ [j \in Key |-> work[j].token]'[k] = work'[k].token
  OBVIOUS
<1> QED
  BY <1>1, <1>2 DEF Lifecycle!Granted, Grants

LEMMA StepMoves == ASSUME Inv, Step PROVE Lifecycle!Next
<1>1. TypeOK'
  BY DEF Step
<1>2. CASE QuietStep
  <2>1. \A k \in Key : Lifecycle!Moves(k) \/ Lifecycle!Stays(k)
    BY <1>1, <1>2, TurnMoves DEF QuietStep
  <2>2. {<<t.key, t.token>> : t \in tasks}' \subseteq {<<t.key, t.token>> : t \in tasks}
    BY <1>2 DEF QuietStep, Grants
  <2> QED
    BY <2>1, <2>2 DEF Lifecycle!Next
<1>3. CASE ReplyStep
  <2>1. PICK t \in tasks : /\ Holds(t) /\ tasks' = tasks \ {t}
                           /\ ReplyAt(t.key, Now, Then)
                           /\ \A k \in Key \ {t.key} : TurnAt(k, Now, Then)
    BY <1>3 DEF ReplyStep
  <2>2. Lifecycle!Landed(t.key)
    BY <1>1, <2>1, ReplyLands
  <2>3. \A k \in Key : Lifecycle!Moves(k) \/ Lifecycle!Stays(k)
    BY <1>1, <2>1, <2>2, TurnMoves DEF Lifecycle!Moves
  <2>4. {<<u.key, u.token>> : u \in tasks}' \subseteq {<<u.key, u.token>> : u \in tasks}
    BY <2>1
  <2> QED
    BY <2>3, <2>4 DEF Lifecycle!Next
<1>4. CASE ClaimStep
  <2>1. PICK k \in Key : /\ ClaimAt(k, Now, Then)
                         /\ Grants' = Grants \cup {<<k, work'[k].token>>}
                         /\ \A j \in Key \ {k} : SameAt(j, Now, Then)
    BY <1>4 DEF ClaimStep
  <2>2. Lifecycle!Granted(k)
    BY <1>1, <2>1, ClaimGranted
  <2>3. \A j \in Key : Lifecycle!Moves(j) \/ Lifecycle!Stays(j)
    BY <1>1, <2>1, <2>2, TurnMoves DEF Lifecycle!Moves, SameAt, TurnAt, Turn
  <2> QED
    BY <2>2, <2>3 DEF Lifecycle!Next
<1> QED
  BY <1>2, <1>3, <1>4 DEF Step, Turns

LEMMA AbstractInit == Init => Lifecycle!Init
<1> SUFFICES ASSUME Init PROVE Lifecycle!Init
  OBVIOUS
<1>1. [k \in Key |-> work[k].state] \in [Key -> {"absent", "failed"}]
  BY DEF Init
<1>2. [k \in Key |-> work[k].token] \in [Key -> Nat]
  BY DEF Init
<1>3. {<<t.key, t.token>> : t \in tasks} = {}
  BY DEF Init
<1> QED
  BY <1>1, <1>2, <1>3 DEF Lifecycle!Init

(***************************************************************************)
(* The work of the evaluations implements WorkLifecycle, for every value   *)
(* of the constants: a question is done only because the worker of its     *)
(* newest generation said so, whatever intake, blocks and verdicts of      *)
(* other questions do to its row.                                          *)
(***************************************************************************)
THEOREM ImplementsLifecycle == Spec => LifecycleSpec
<1>1. Init => Lifecycle!Init
  BY AbstractInit
<1>2. Inv /\ Next => Lifecycle!Next
  BY NextSteps, StepMoves
<1>3. UNCHANGED vars =>
        UNCHANGED <<[k \in Key |-> work[k].state], [k \in Key |-> work[k].token],
                    {<<t.key, t.token>> : t \in tasks}, [k \in Key |-> {}]>>
  BY DEF vars
<1> QED
  BY <1>1, <1>2, <1>3, InvHolds, PTL DEF Spec, LifecycleSpec, Lifecycle!Spec
=============================================================================
