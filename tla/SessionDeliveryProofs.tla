------------------------ MODULE SessionDeliveryProofs ------------------------
(* Proofs about what one session is told: nothing barred is shown, what is    *)
(* recorded stays within the session's ceiling, what is counted as delivered  *)
(* was delivered to this context, and a counted fact that changed is          *)
(* announced or was told.                                                     *)
EXTENDS SessionDelivery, FiniteSetTheorems, TLAPS

Open(r) == request[r].pc \in {"begun", "prepared", "checked"}

(* What a request carries: finitely many lines and notices, lines of          *)
(* revisions there are, prepared while the entry was not paused.              *)
SoundRequest(q) ==
    /\ IsFiniteSet(q.lines) /\ IsFiniteSet(q.notices)
    /\ \A l \in q.lines : l.rev <= Revision(l.fact)
    /\ ~q.stale
    /\ q.pc \in {"begun", "prepared", "checked"} => ~q.entry.paused

RequestsSound == \A r \in Request : request[r] # NoRequest => SoundRequest(request[r])

(* Deliveries older than the last compaction that was applied are forgotten.  *)
MarksAreCurrent == \A m \in marks : m.seq = row.seq

(* The briefing and the recalled lines are a part of what the session spent.  *)
WithinBudget == row.ordinary <= row.spent /\ row.ordinary <= SessionCap

Inv == TypeOK /\ RequestsSound /\ MarksAreCurrent /\ WithinBudget

-----------------------------------------------------------------------------
(* While no request of a lost counter was carried across a compaction.        *)

(* Where the client's counter stands in the session's own sequence.           *)
Horizon ==
    (IF epochs[counter.epoch].known THEN epochs[counter.epoch].base ELSE row.seq)
        + counter.ordinal

(* A mark is of the counter's epoch once it counted, of the one before until  *)
(* then.                                                                      *)
OfItsEpoch(mark) ==
    mark # NoMark =>
        IF counter.ordinal > 0
        THEN mark.epoch = counter.epoch /\ mark.ordinal <= counter.ordinal
        ELSE mark.epoch = counter.epoch - 1

ClientInStep ==
    /\ row.seq <= Horizon
    /\ \A e \in 1..Counters : e > counter.epoch => ~epochs[e].known
    /\ counter.ordinal = 0 => ~epochs[counter.epoch].known
    /\ OfItsEpoch(pending)
    /\ \A r \in Request : request[r] # NoRequest => OfItsEpoch(request[r].mark)

(* What the mark of a request says was looked at when it began; a compaction  *)
(* since then lies beyond it.                                                 *)
CutoffsBehind ==
    \A r \in Request : Open(r) =>
        LET q == request[r]
        IN  /\ q.mark = NoMark => q.cutoff <= row.seq
            /\ q.mark # NoMark /\ q.mark.epoch = counter.epoch => q.cutoff <= Horizon
            /\ q.compacted <= compacted
            /\ q.compacted < compacted => q.cutoff < Cutoff(pending)

(* What is counted was recorded since the last compaction.                    *)
CountedHere == \A m \in Counted(pending) : m.compacted = compacted

(* The server knows the mark of an answer that will clear it.                 *)
ClearsWhatIsKnown ==
    \A r \in Request :
        LET q == request[r]
        IN  q.pc \in {"recorded", "synced"} /\ q.mark # NoMark =>
                epochs[q.mark.epoch].known /\ q.mark.ordinal <= epochs[q.mark.epoch].local

InStepInv == ClientInStep /\ CutoffsBehind /\ ClearsWhatIsKnown /\ CountedHere

-----------------------------------------------------------------------------
(* The one request the host waits for was begun on what the client says now.  *)
OneHeard ==
    /\ \A r, s \in Request :
          (/\ request[r] # NoRequest /\ request[r].heard
           /\ request[s] # NoRequest /\ request[s].heard) => r = s
    /\ \A r \in Request :
          (request[r] # NoRequest /\ request[r].heard) => request[r].mark = pending
    /\ \A r \in Request : request[r].pc = "recorded" => request[r].heard

(* What its lines will tell is newer than anything counted as told, unless    *)
(* a request the host gave up on told it meanwhile.                           *)
LinesAreNews ==
    \A r \in Request : Open(r) /\ request[r].heard =>
        \A l \in request[r].lines, m \in Counted(pending) :
            l.fact = m.fact /\ l.fact \notin unsettled => m.rev < l.rev

(* A request tells one revision of a fact.                                    *)
OneLineEach ==
    \A r \in Request : Open(r) =>
        \A l, k \in request[r].lines : l.fact = k.fact => l.rev = k.rev

(* What the session was last told of a fact by a delivery and its notices.    *)
LastTold(m) == IF m.ack = NotTold THEN said[m.fact][m.rev] ELSE m.ack

ContextKnown ==
    \A m \in DeliveryRows(pending) : Settled(m.fact) => context[m.fact] = LastTold(m)

(* The same of a recorded answer that has not reached the host yet.           *)
AnswerWillTell ==
    \A r \in Request : request[r].pc = "recorded" =>
        \A m \in DeliveryRows(pending) :
            m.fact \notin unsettled => Told(request[r])[m.fact] = LastTold(m)

ToldInv == OneHeard /\ LinesAreNews /\ OneLineEach /\ ContextKnown /\ AnswerWillTell

-----------------------------------------------------------------------------
(* The larger and the smaller of two numbers.                                 *)
LEMMA TwoNumbers ==
    ASSUME NEW a \in Nat, NEW b \in Nat
    PROVE  /\ Max({a, b}) = IF a <= b THEN b ELSE a
           /\ Min({a, b}) = IF a <= b THEN a ELSE b
<1>1. Max({a, b}) = IF a <= b THEN b ELSE a
  <2> DEFINE top == IF a <= b THEN b ELSE a
  <2>1. top \in {a, b} /\ \A y \in {a, b} : top >= y
    OBVIOUS
  <2>2. \A x \in {a, b} : (\A y \in {a, b} : x >= y) => x = top
    OBVIOUS
  <2>3. Max({a, b}) \in {a, b} /\ \A y \in {a, b} : Max({a, b}) >= y
    BY <2>1, Zenon DEF Max
  <2>. QED  BY <2>2, <2>3
<1>2. Min({a, b}) = IF a <= b THEN a ELSE b
  <2> DEFINE low == IF a <= b THEN a ELSE b
  <2>1. low \in {a, b} /\ \A y \in {a, b} : low =< y
    OBVIOUS
  <2>2. \A x \in {a, b} : (\A y \in {a, b} : x =< y) => x = low
    OBVIOUS
  <2>3. Min({a, b}) \in {a, b} /\ \A y \in {a, b} : Min({a, b}) =< y
    BY <2>1, Zenon DEF Min
  <2>. QED  BY <2>2, <2>3
<1>. QED  BY <1>1, <1>2

(* What a function makes of a finite set is a finite set.                     *)
LEMMA FiniteImage ==
    ASSUME NEW S, IsFiniteSet(S), NEW g
    PROVE  IsFiniteSet({g[x] : x \in S})
<1> DEFINE h == [x \in S |-> g[x]]
<1>1. h \in Surjection(S, {g[x] : x \in S})
  BY DEF Surjection
<1>. QED  BY <1>1, FS_Surjection

(* Finitely many lines for finitely many facts.                               *)
LEMMA FiniteLines ==
    ASSUME NEW S, IsFiniteSet(S), NEW brief
    PROVE  IsFiniteSet(Lines(S, brief))
<1> DEFINE g == [f \in S |-> [fact |-> f, rev |-> Revision(f), brief |-> brief]]
<1>1. Lines(S, brief) = {g[f] : f \in S}
  BY DEF Lines
<1>2. IsFiniteSet({g[f] : f \in S})
  <2> HIDE DEF g
  <2>. QED  BY FiniteImage
<1>. QED  BY <1>1, <1>2

(* Finitely many notices for finitely many deliveries.                        *)
LEMMA FiniteNotices ==
    ASSUME NEW mark, IsFiniteSet(marks)
    PROVE  IsFiniteSet(Notices(mark))
<1> DEFINE S == {m \in DeliveryRows(mark) : Offered(m)}
<1> DEFINE g == [m \in S |-> [fact |-> m.fact, rev |-> m.rev, value |-> Now(m.fact)]]
<1>1. S \in SUBSET marks
  BY DEF DeliveryRows, Counted
<1>2. IsFiniteSet(S)
  BY <1>1, FS_Subset
<1>3. Notices(mark) = {g[m] : m \in S}
  BY DEF Notices
<1>4. IsFiniteSet({g[m] : m \in S})
  <2> HIDE DEF g, S
  <2>. QED  BY <1>2, FiniteImage
<1>. QED  BY <1>3, <1>4

-----------------------------------------------------------------------------
(* A mark of the client's names an epoch and counts from one.                 *)
LEMMA MarkIs ==
    ASSUME NEW mark \in ClientMark
    PROVE  /\ mark # NoMark => mark.epoch \in 1..Counters /\ mark.ordinal \in Nat \ {0}
           /\ mark = NoMark => mark.epoch = 0 /\ mark.ordinal = 0
           /\ mark.epoch = 0 => mark = NoMark
  BY DEF ClientMark, NoMark

(* A request is open, decided, or none.                                       *)
LEMMA RequestIs ==
    ASSUME TypeOK, NEW r \in Request
    PROVE  /\ request[r] = NoRequest <=> request[r].pc = "idle"
           /\ Open(r) <=> request[r] \in Undecided
           /\ request[r] # NoRequest /\ ~Open(r) <=> request[r] \in DecidedRequest
           /\ request[r] # NoRequest =>
                 /\ request[r].mark \in ClientMark
                 /\ request[r].heard \in BOOLEAN
                 /\ request[r].lines \subseteq Line
                 /\ request[r].notices \subseteq Notice
<1>1. request[r] \in {NoRequest} \cup Undecided \cup DecidedRequest
  BY DEF TypeOK
<1>2. NoRequest.pc = "idle"
  BY DEF NoRequest
<1>. QED  BY <1>1, <1>2 DEF Undecided, DecidedRequest, Open

(* The point a mark stands for, in a sequence and with the epochs known.      *)
Point(seq, es, mark) ==
    IF mark = NoMark THEN seq
    ELSE Max({seq, (IF es[mark.epoch].known THEN es[mark.epoch].base ELSE seq) + mark.ordinal})

Epochs == [1..Counters -> [base : Nat, local : Nat, known : BOOLEAN]]

LEMMA PointIs ==
    ASSUME NEW seq \in Nat, NEW es \in Epochs, NEW mark \in ClientMark
    PROVE  /\ Point(seq, es, mark) \in Nat /\ seq <= Point(seq, es, mark)
           /\ mark = NoMark => Point(seq, es, mark) = seq
           /\ mark # NoMark /\ es[mark.epoch].known =>
                 Point(seq, es, mark) = IF seq <= es[mark.epoch].base + mark.ordinal
                                        THEN es[mark.epoch].base + mark.ordinal ELSE seq
           /\ mark # NoMark /\ ~es[mark.epoch].known =>
                 Point(seq, es, mark) = seq + mark.ordinal
<1>2. CASE mark = NoMark
  BY <1>2 DEF Point
<1>3. CASE mark # NoMark
  <2>1. mark.epoch \in 1..Counters /\ mark.ordinal \in Nat \ {0}
    BY <1>3, MarkIs
  <2>2. es[mark.epoch].base \in Nat /\ es[mark.epoch].known \in BOOLEAN
    BY <2>1 DEF Epochs
  <2> DEFINE there == (IF es[mark.epoch].known THEN es[mark.epoch].base ELSE seq) + mark.ordinal
  <2>3. there \in Nat
    BY <2>1, <2>2
  <2>4. Point(seq, es, mark) = Max({seq, there})
    BY <1>3 DEF Point
  <2>5. Point(seq, es, mark) = IF seq <= there THEN there ELSE seq
    <3> HIDE DEF there
    <3>. QED  BY <2>3, <2>4, TwoNumbers
  <2>. QED  BY <1>3, <2>1, <2>2, <2>3, <2>5
<1>. QED  BY <1>2, <1>3

(* The point a mark stands for never lies behind the session's sequence.      *)
LEMMA CutoffIs ==
    ASSUME TypeOK, NEW mark \in ClientMark
    PROVE  /\ Cutoff(mark) \in Nat /\ row.seq \in Nat /\ row.seq <= Cutoff(mark)
           /\ mark = NoMark => Cutoff(mark) = row.seq
           /\ mark # NoMark /\ epochs[mark.epoch].known =>
                 Cutoff(mark) = IF row.seq <= epochs[mark.epoch].base + mark.ordinal
                                THEN epochs[mark.epoch].base + mark.ordinal ELSE row.seq
           /\ mark # NoMark /\ ~epochs[mark.epoch].known =>
                 Cutoff(mark) = row.seq + mark.ordinal
<1>1. row.seq \in Nat /\ epochs \in Epochs
  BY DEF TypeOK, Epochs
<1>2. Cutoff(mark) = Point(row.seq, epochs, mark)
  BY DEF Cutoff, Point
<1>. QED  BY <1>1, <1>2, PointIs

(* Every delivery is counted before the point of a mark that lies ahead of    *)
(* none, and none is once it does.                                            *)
LEMMA CountedIs ==
    ASSUME TypeOK, MarksAreCurrent, NEW mark \in ClientMark
    PROVE  Counted(mark) = IF row.seq = Cutoff(mark) THEN marks ELSE {}
<1>1. Cutoff(mark) \in Nat /\ row.seq \in Nat /\ row.seq <= Cutoff(mark)
  BY CutoffIs
<1>2. \A m \in marks : m.seq = row.seq
  BY DEF MarksAreCurrent
<1>3. CASE row.seq = Cutoff(mark)
  BY <1>1, <1>2, <1>3 DEF Counted
<1>4. CASE row.seq # Cutoff(mark)
  BY <1>1, <1>2, <1>4 DEF Counted
<1>. QED  BY <1>3, <1>4

-----------------------------------------------------------------------------
(* What applying a mark leaves: the session's sequence at the mark's point,   *)
(* its deliveries and its usage as they were or none, the mark known.         *)
LEMMA AppliedIs ==
    ASSUME TypeOK, MarksAreCurrent, NEW mark \in ClientMark
    PROVE  LET a == Applied(mark)
           IN  /\ a.row.seq = Cutoff(mark)
               /\ row.seq = Cutoff(mark) => a.row = row /\ a.marks = marks
               /\ row.seq # Cutoff(mark) =>
                     /\ a.row = [seq |-> Cutoff(mark), spent |-> 0, ordinary |-> 0,
                                 started |-> FALSE]
                     /\ a.marks = {}
               /\ a.epochs \in [1..Counters -> [base : Nat, local : Nat, known : BOOLEAN]]
               /\ \A e \in 1..Counters : a.epochs[e].base + a.epochs[e].local <= a.row.seq
               /\ \A e \in 1..Counters :
                     /\ e # mark.epoch => a.epochs[e] = epochs[e]
                     /\ epochs[e].known => a.epochs[e].known /\ a.epochs[e].base = epochs[e].base
                                              /\ epochs[e].local <= a.epochs[e].local
                     /\ a.epochs[e].known /\ ~epochs[e].known =>
                           a.epochs[e].base = row.seq /\ a.epochs[e].local = mark.ordinal
               /\ mark # NoMark =>
                     a.epochs[mark.epoch].known /\ mark.ordinal <= a.epochs[mark.epoch].local
<1> DEFINE a == Applied(mark)
<1>1. /\ row.seq \in Nat /\ row \in [seq : Nat, spent : Nat, ordinary : Nat, started : BOOLEAN]
      /\ epochs \in [1..Counters -> [base : Nat, local : Nat, known : BOOLEAN]]
      /\ \A e \in 1..Counters : epochs[e].base + epochs[e].local <= row.seq
  BY DEF TypeOK
<1>2. \A e \in 1..Counters : epochs[e].base \in Nat /\ epochs[e].local \in Nat
                             /\ epochs[e].known \in BOOLEAN
  BY <1>1
<1>3. /\ Cutoff(mark) \in Nat /\ row.seq <= Cutoff(mark)
      /\ mark = NoMark => Cutoff(mark) = row.seq
      /\ mark # NoMark /\ epochs[mark.epoch].known =>
                 Cutoff(mark) = IF row.seq <= epochs[mark.epoch].base + mark.ordinal
                                THEN epochs[mark.epoch].base + mark.ordinal ELSE row.seq
      /\ mark # NoMark /\ ~epochs[mark.epoch].known => Cutoff(mark) = row.seq + mark.ordinal
  BY CutoffIs
<1>4. CASE mark = NoMark
  <2>1. a.row = row /\ a.epochs = epochs /\ a.marks = marks
    BY <1>4 DEF Applied
  <2>2. \A e \in 1..Counters : e # mark.epoch
    BY <1>4, MarkIs
  <2>. QED  BY <1>1, <1>2, <1>3, <1>4, <2>1
<1>5. CASE mark # NoMark /\ epochs[mark.epoch].known /\ mark.ordinal <= epochs[mark.epoch].local
  <2>1. a.row = row /\ a.epochs = epochs /\ a.marks = marks
    BY <1>5 DEF Applied
  <2>2. mark.epoch \in 1..Counters /\ mark.ordinal \in Nat
    BY <1>5, MarkIs
  <2>3. Cutoff(mark) = row.seq
    BY <1>1, <1>2, <1>3, <1>5, <2>2
  <2>. QED  BY <1>1, <1>2, <1>3, <1>5, <2>1, <2>2, <2>3
<1>6. CASE mark # NoMark
           /\ ~(epochs[mark.epoch].known /\ mark.ordinal <= epochs[mark.epoch].local)
  <2> DEFINE c == Cutoff(mark)
  <2> DEFINE base == IF epochs[mark.epoch].known THEN epochs[mark.epoch].base
                     ELSE c - mark.ordinal
  <2> DEFINE new == [base |-> base, local |-> mark.ordinal, known |-> TRUE]
  <2>1. /\ a.row = IF row.seq < c
                   THEN [seq |-> c, spent |-> 0, ordinary |-> 0, started |-> FALSE]
                   ELSE row
        /\ a.epochs = [epochs EXCEPT ![mark.epoch] = new]
        /\ a.marks = {m \in marks : m.seq >= c}
    BY <1>6 DEF Applied
  <2>2. mark.epoch \in 1..Counters /\ mark.ordinal \in Nat
    BY <1>6, MarkIs
  <2>3. /\ base \in Nat /\ base + mark.ordinal <= c
        /\ epochs[mark.epoch].known => base = epochs[mark.epoch].base
                                       /\ epochs[mark.epoch].local <= mark.ordinal
        /\ ~epochs[mark.epoch].known => base = row.seq
    BY <1>1, <1>2, <1>3, <1>6, <2>2
  <2>4. a.row.seq = c
    BY <1>1, <1>3, <2>1
  <2>5. \A e \in 1..Counters : a.epochs[e] = IF e = mark.epoch THEN new ELSE epochs[e]
    BY <1>1, <2>1
  <2>6. new \in [base : Nat, local : Nat, known : BOOLEAN]
    BY <2>2, <2>3
  <2>7. a.epochs \in [1..Counters -> [base : Nat, local : Nat, known : BOOLEAN]]
    <3> HIDE DEF new, a
    <3>. QED  BY <1>1, <2>1, <2>2, <2>6
  <2>8. ASSUME NEW e \in 1..Counters
        PROVE  /\ a.epochs[e].base + a.epochs[e].local <= c
               /\ epochs[e].known => a.epochs[e].known /\ a.epochs[e].base = epochs[e].base
                                              /\ epochs[e].local <= a.epochs[e].local
               /\ a.epochs[e].known /\ ~epochs[e].known =>
                           a.epochs[e].base = row.seq /\ a.epochs[e].local = mark.ordinal
    <3>1. CASE e = mark.epoch
      <4>1. a.epochs[e] = new
        BY <2>5, <3>1
      <4>2. new.base = base /\ new.local = mark.ordinal /\ new.known = TRUE
        OBVIOUS
      <4> HIDE DEF new, base
      <4>. QED  BY <2>3, <3>1, <4>1, <4>2
    <3>2. CASE e # mark.epoch
      <4>1. a.epochs[e] = epochs[e]
        BY <2>5, <3>2
      <4> HIDE DEF new, base, a
      <4>. QED  BY <1>1, <1>2, <1>3, <4>1
    <3>. QED  BY <3>1, <3>2
  <2>9. /\ row.seq = c => a.row = row /\ a.marks = marks
        /\ row.seq # c => /\ a.row = [seq |-> c, spent |-> 0, ordinary |-> 0, started |-> FALSE]
                          /\ a.marks = {}
    <3>1. \A m \in marks : m.seq = row.seq
      BY DEF MarksAreCurrent
    <3> HIDE DEF c
    <3>2. c \in Nat /\ row.seq <= c
      BY <1>3 DEF c
    <3>. QED  BY <1>1, <2>1, <3>1, <3>2
  <2>10. a.epochs[mark.epoch].known /\ mark.ordinal <= a.epochs[mark.epoch].local
    <3>1. a.epochs[mark.epoch] = new
      BY <2>2, <2>5
    <3>. QED  BY <2>2, <3>1
  <2> HIDE DEF new
  <2>. QED  BY <2>2, <2>4, <2>5, <2>7, <2>8, <2>9, <2>10
<1>. QED  BY <1>4, <1>5, <1>6

-----------------------------------------------------------------------------
(* One row for each delivered revision.                                       *)
OneRowEach(S) == \A m, n \in S : m.fact = n.fact /\ m.rev = n.rev => m = n

OfRevisions(S) == \A m \in S : m.rev <= Revision(m.fact)

Same(m, n) == m.fact = n.fact /\ m.rev = n.rev

(* What recording the lines of a request makes of the deliveries: one row for *)
(* each line, which keeps the acknowledgement it had, and the other rows.     *)
LEMMA DeliveredIs ==
    ASSUME NEW old, old \subseteq Delivery, IsFiniteSet(old), OneRowEach(old), OfRevisions(old),
           NEW q, q.lines \subseteq Line, IsFiniteSet(q.lines),
           \A l \in q.lines : l.rev <= Revision(l.fact),
           q.compacted \in Nat, NEW seq \in Nat
    PROVE  LET D == Delivered(old, q, seq)
           IN  /\ D \subseteq Delivery /\ IsFiniteSet(D) /\ OneRowEach(D) /\ OfRevisions(D)
               /\ \A m \in D :
                     \/ m \in old /\ ~\E l \in q.lines : Same(l, m)
                     \/ /\ \E l \in q.lines : Same(l, m)
                        /\ m.seq = seq /\ m.compacted = q.compacted
                        /\ \A o \in old : Same(o, m) => m.ack = o.ack
                        /\ (~\E o \in old : Same(o, m)) => m.ack = NotTold
               /\ \A o \in old : \E m \in D : Same(o, m)
               /\ \A l \in q.lines : \E m \in D : Same(l, m)
<1> DEFINE told == {<<l.fact, l.rev>> : l \in q.lines}
<1> DEFINE ackOf(p) == IF \E m \in old : <<m.fact, m.rev>> = p
                       THEN (CHOOSE m \in old : <<m.fact, m.rev>> = p).ack
                       ELSE NotTold
<1> DEFINE new(p) == [fact |-> p[1], rev |-> p[2], seq |-> seq, ack |-> ackOf(p),
                      compacted |-> q.compacted]
<1> DEFINE kept == {m \in old : <<m.fact, m.rev>> \notin told}
<1> DEFINE added == {new(p) : p \in told}
<1>1. Delivered(old, q, seq) = kept \cup added
  BY DEF Delivered
<1>2. \A l \in q.lines : l.fact \in Fact /\ l.rev \in Nat \ {0} /\ l.rev <= Revision(l.fact)
  BY DEF Line
<1>3. told \subseteq Fact \X (Nat \ {0})
  BY <1>2
<1>4. \A m \in old : /\ m.fact \in Fact /\ m.rev \in Nat \ {0}
                     /\ m.ack \in Value \cup {NotTold, Withdrawn}
                     /\ m.rev <= Revision(m.fact)
  BY DEF Delivery, OfRevisions
<1>5. ASSUME NEW p \in told
      PROVE  /\ ackOf(p) \in Value \cup {NotTold, Withdrawn}
             /\ \A o \in old : o.fact = p[1] /\ o.rev = p[2] => ackOf(p) = o.ack
             /\ (~\E o \in old : o.fact = p[1] /\ o.rev = p[2]) => ackOf(p) = NotTold
  <2>1. p = <<p[1], p[2]>>
    BY <1>3
  <2>2. \A m \in old : <<m.fact, m.rev>> = p <=> m.fact = p[1] /\ m.rev = p[2]
    BY <2>1
  <2>3. CASE \E m \in old : <<m.fact, m.rev>> = p
    <3> DEFINE c == CHOOSE m \in old : <<m.fact, m.rev>> = p
    <3>1. c \in old /\ <<c.fact, c.rev>> = p
      BY <2>3, Zenon
    <3>2. c.fact = p[1] /\ c.rev = p[2]
      BY <2>2, <3>1
    <3>3. ackOf(p) = c.ack
      BY <2>3
    <3> HIDE DEF c, ackOf
    <3>4. \A o \in old : o.fact = p[1] /\ o.rev = p[2] => o = c
      BY <3>1, <3>2 DEF OneRowEach
    <3>. QED  BY <1>4, <2>2, <2>3, <3>1, <3>2, <3>3, <3>4
  <2>4. CASE ~\E m \in old : <<m.fact, m.rev>> = p
    <3>1. ackOf(p) = NotTold
      BY <2>4
    <3> HIDE DEF ackOf
    <3>. QED  BY <2>2, <2>4, <3>1
  <2>. QED  BY <2>3, <2>4
<1> HIDE DEF ackOf
<1>6. \A p \in told : /\ new(p).fact = p[1] /\ new(p).rev = p[2] /\ new(p).seq = seq
                      /\ new(p).ack = ackOf(p) /\ new(p).compacted = q.compacted
  OBVIOUS
<1>7. \A p \in told : new(p) \in Delivery
  <2> SUFFICES ASSUME NEW p \in told  PROVE new(p) \in Delivery
    OBVIOUS
  <2>1. p[1] \in Fact /\ p[2] \in Nat \ {0}
    BY <1>3
  <2> HIDE DEF told
  <2>. QED  BY <1>5, <2>1 DEF Delivery
<1>8. IsFiniteSet(kept)
  BY FS_Subset
<1>9. IsFiniteSet(added)
  <2> DEFINE g == [l \in q.lines |-> new(<<l.fact, l.rev>>)]
  <2>1. added = {g[l] : l \in q.lines}
    BY Zenon
  <2>2. IsFiniteSet({g[l] : l \in q.lines})
    <3> HIDE DEF g
    <3>. QED  BY FiniteImage
  <2>. QED  BY <2>1, <2>2
<1>10. IsFiniteSet(Delivered(old, q, seq))
  <2> HIDE DEF kept, added
  <2>. QED  BY <1>1, <1>8, <1>9, FS_Union
<1>11. \A m \in added : \E p \in told : m = new(p)
  BY Zenon
<1>12. \A p \in told : new(p) \in added
  BY Zenon
<1>13. \A l \in q.lines : <<l.fact, l.rev>> \in told
  OBVIOUS
<1>14. \A p \in told : \E l \in q.lines : l.fact = p[1] /\ l.rev = p[2]
  OBVIOUS
<1>15. \A m \in old : m \in kept <=> ~\E l \in q.lines : Same(l, m)
  BY DEF Same
<1>16. \A p \in told : p = <<p[1], p[2]>>
  BY <1>3
<1> HIDE DEF told, new, added
<1>17. \A m \in added : /\ m \in Delivery /\ m.seq = seq /\ m.compacted = q.compacted
                        /\ \E l \in q.lines : Same(l, m)
                        /\ \A o \in old : Same(o, m) => m.ack = o.ack
                        /\ (~\E o \in old : Same(o, m)) => m.ack = NotTold
                        /\ m.rev <= Revision(m.fact)
  <2> SUFFICES ASSUME NEW p \in told
               PROVE  LET m == new(p) IN
                        /\ m \in Delivery /\ m.seq = seq /\ m.compacted = q.compacted
                        /\ \E l \in q.lines : Same(l, m)
                        /\ \A o \in old : Same(o, m) => m.ack = o.ack
                        /\ (~\E o \in old : Same(o, m)) => m.ack = NotTold
                        /\ m.rev <= Revision(m.fact)
    BY <1>11
  <2>1. PICK l \in q.lines : l.fact = p[1] /\ l.rev = p[2]
    BY <1>14
  <2>2. Same(l, new(p)) /\ new(p).rev <= Revision(new(p).fact)
    BY <1>2, <1>6, <2>1 DEF Same
  <2>. QED  BY <1>5, <1>6, <1>7, <2>2 DEF Same
<1>18. \A l \in q.lines : \E m \in added : Same(l, m)
  <2> SUFFICES ASSUME NEW l \in q.lines  PROVE \E m \in added : Same(l, m)
    OBVIOUS
  <2> DEFINE p == <<l.fact, l.rev>>
  <2>1. p \in told /\ new(p) \in added /\ new(p).fact = p[1] /\ new(p).rev = p[2]
    BY <1>6, <1>12, <1>13
  <2>. QED  BY <2>1 DEF Same
<1>19. \A m, n \in added : Same(m, n) => m = n
  <2> SUFFICES ASSUME NEW p \in told, NEW s \in told, Same(new(p), new(s))
               PROVE  new(p) = new(s)
    BY <1>11
  <2>1. p = s
    BY <1>6, <1>16 DEF Same
  <2>. QED  BY <2>1
<1>20. \A o \in old : \E m \in kept \cup added : Same(o, m)
  <2> SUFFICES ASSUME NEW o \in old  PROVE \E m \in kept \cup added : Same(o, m)
    OBVIOUS
  <2>1. CASE o \in kept
    BY <2>1 DEF Same
  <2>2. CASE \E l \in q.lines : Same(l, o)
    BY <2>2, <1>18 DEF Same
  <2>. QED  BY <1>15, <2>1, <2>2
<1>21. OneRowEach(kept \cup added)
  <2> SUFFICES ASSUME NEW m \in kept \cup added, NEW n \in kept \cup added, Same(m, n)
               PROVE  m = n
    BY DEF OneRowEach, Same
  <2>1. CASE m \in kept /\ n \in kept
    BY <2>1 DEF OneRowEach, Same
  <2>2. CASE m \in added /\ n \in added
    BY <2>2, <1>19
  <2>3. CASE m \in kept /\ n \in added
    BY <2>3, <1>15, <1>17 DEF Same
  <2>4. CASE m \in added /\ n \in kept
    BY <2>4, <1>15, <1>17 DEF Same
  <2>. QED  BY <2>1, <2>2, <2>3, <2>4
<1>22. kept \subseteq old
  OBVIOUS
<1> HIDE DEF kept
<1>. QED  BY <1>1, <1>4, <1>10, <1>15, <1>17, <1>18, <1>20, <1>21, <1>22 DEF OfRevisions

(* Acknowledging the notices of a request changes nothing else of a row.      *)
LEMMA AcknowledgedIs ==
    ASSUME NEW old, old \subseteq Delivery, IsFiniteSet(old), OneRowEach(old), OfRevisions(old),
           NEW q, q.notices \subseteq Notice
    PROVE  LET A == Acknowledged(old, q)
           IN  /\ A \subseteq Delivery /\ IsFiniteSet(A) /\ OneRowEach(A) /\ OfRevisions(A)
               /\ \A m \in A : \E o \in old :
                     /\ Same(o, m) /\ m.seq = o.seq /\ m.compacted = o.compacted
                     /\ \/ m = o /\ ~\E n \in q.notices : Same(n, o)
                        \/ \E n \in q.notices : Same(n, o) /\ m.ack = n.value
               /\ \A o \in old : \E m \in A : Same(o, m)
<1> DEFINE hit(m) == \E n \in q.notices : n.fact = m.fact /\ n.rev = m.rev
<1> DEFINE notice(m) == CHOOSE n \in q.notices : n.fact = m.fact /\ n.rev = m.rev
<1> DEFINE g == [m \in old |-> IF hit(m) THEN [m EXCEPT !.ack = notice(m).value] ELSE m]
<1>1. Acknowledged(old, q) = {g[m] : m \in old}
  <2>1. Acknowledged(old, q) =
           {IF hit(m) THEN [m EXCEPT !.ack = notice(m).value] ELSE m : m \in old}
    BY Zenon DEF Acknowledged
  <2>2. \A m \in old : g[m] = IF hit(m) THEN [m EXCEPT !.ack = notice(m).value] ELSE m
    BY Zenon
  <2> HIDE DEF g, hit, notice
  <2>. QED  BY <2>1, <2>2
<1>2. \A m \in old : hit(m) => notice(m) \in q.notices /\ Same(notice(m), m)
  <2> SUFFICES ASSUME NEW m \in old, hit(m)
               PROVE  notice(m) \in q.notices /\ Same(notice(m), m)
    OBVIOUS
  <2>. QED  BY Zenon DEF Same
<1>3. \A m \in old : g[m] = IF hit(m) THEN [m EXCEPT !.ack = notice(m).value] ELSE m
  BY Zenon
<1>4. \A m \in old : hit(m) <=> \E n \in q.notices : Same(n, m)
  BY DEF Same
<1>5. IsFiniteSet({g[m] : m \in old})
  <2> HIDE DEF g
  <2>. QED  BY FiniteImage
<1> HIDE DEF g, notice, hit
<1>6. ASSUME NEW o \in old
      PROVE  /\ g[o] \in Delivery /\ Same(o, g[o]) /\ g[o].seq = o.seq
             /\ g[o].compacted = o.compacted /\ g[o].rev <= Revision(g[o].fact)
             /\ \/ g[o] = o /\ ~\E n \in q.notices : Same(n, o)
                \/ \E n \in q.notices : Same(n, o) /\ g[o].ack = n.value
  <2>1. o \in Delivery /\ o.rev <= Revision(o.fact)
    BY DEF OfRevisions
  <2>2. CASE hit(o)
    <3>1. g[o] = [o EXCEPT !.ack = notice(o).value]
      BY <1>3, <2>2
    <3>2. notice(o) \in q.notices /\ Same(notice(o), o) /\ notice(o).value \in Value \cup {Withdrawn}
      BY <1>2, <2>2 DEF Notice
    <3>3. /\ g[o] \in Delivery /\ g[o].fact = o.fact /\ g[o].rev = o.rev /\ g[o].seq = o.seq
          /\ g[o].compacted = o.compacted /\ g[o].ack = notice(o).value
      BY <2>1, <3>1, <3>2 DEF Delivery
    <3>. QED  BY <2>1, <3>2, <3>3 DEF Same
  <2>3. CASE ~hit(o)
    BY <1>3, <1>4, <2>1, <2>3 DEF Same
  <2>. QED  BY <2>2, <2>3
<1>7. \A m \in Acknowledged(old, q) : \E o \in old : m = g[o]
  BY <1>1
<1>8. \A o \in old : g[o] \in Acknowledged(old, q)
  BY <1>1
<1>9. OneRowEach(Acknowledged(old, q))
  <2> SUFFICES ASSUME NEW o \in old, NEW p \in old, Same(g[o], g[p])
               PROVE  g[o] = g[p]
    BY <1>7 DEF OneRowEach, Same
  <2>1. Same(o, p)
    BY <1>6 DEF Same
  <2>. QED  BY <2>1 DEF OneRowEach, Same
<1>10. IsFiniteSet(Acknowledged(old, q))
  BY <1>1, <1>5
<1>11. \A m \in Acknowledged(old, q) : \E o \in old :
                     /\ Same(o, m) /\ m.seq = o.seq /\ m.compacted = o.compacted
                     /\ \/ m = o /\ ~\E n \in q.notices : Same(n, o)
                        \/ \E n \in q.notices : Same(n, o) /\ m.ack = n.value
  BY <1>6, <1>7, Zenon
<1>. QED  BY <1>6, <1>7, <1>8, <1>9, <1>10, <1>11 DEF OfRevisions

-----------------------------------------------------------------------------
(* A decided request keeps what it told; one nobody waits for is over.        *)
LEMMA DecidedIs ==
    ASSUME TypeOK, RequestsSound, NEW r \in Request, Open(r) \/ request[r].pc = "invalid",
           NEW pc \in {"recorded", "unconfirmed", "invalid", "refused", "synced"}
    PROVE  \E x \in {NoRequest} \cup DecidedRequest :
              /\ Decided(r, pc) = [request EXCEPT ![r] = x]
              /\ x # NoRequest =>
                    /\ SoundRequest(x) /\ x.pc = pc
                    /\ x.heard = request[r].heard /\ x.mark = request[r].mark
                    /\ x.lines = request[r].lines /\ x.notices = request[r].notices
              /\ x = NoRequest <=> ~(request[r].heard \/ pc = "invalid")
<1> DEFINE q == request[r]
<1> DEFINE done == [pc |-> pc, heard |-> q.heard, mark |-> q.mark, stale |-> q.stale,
                    lines |-> q.lines, notices |-> q.notices]
<1>1. q # NoRequest /\ (q \in Undecided \/ q \in DecidedRequest)
  BY RequestIs DEF Open, NoRequest
<1>2. SoundRequest(q)
  BY <1>1 DEF RequestsSound
<1>3. done \in DecidedRequest
  BY <1>1 DEF Undecided, DecidedRequest
<1>4. SoundRequest(done)
  BY <1>2 DEF SoundRequest
<1>5. done.pc = pc /\ done.heard = q.heard /\ done.mark = q.mark /\ done.lines = q.lines
      /\ done.notices = q.notices
  OBVIOUS
<1>6. done # NoRequest
  BY <1>5 DEF NoRequest
<1>7. request \in [Request -> {NoRequest} \cup Undecided \cup DecidedRequest]
  BY DEF TypeOK
<1>8. CASE q.heard \/ pc = "invalid"
  <2>1. Decided(r, pc) = [request EXCEPT ![r] = done]
    BY <1>7, <1>8 DEF Decided
  <2> HIDE DEF done
  <2>2. q.heard \/ pc = "invalid"
    BY <1>8
  <2>. QED  BY <1>3, <1>4, <1>5, <1>6, <2>1, <2>2, Zenon
<1>9. CASE ~(q.heard \/ pc = "invalid")
  <2>1. Decided(r, pc) = [request EXCEPT ![r] = NoRequest]
    BY <1>7, <1>9 DEF Decided
  <2>. QED  BY <1>9, <2>1
<1>. QED  BY <1>8, <1>9

(* A step that changes one request, and neither the truth nor the ledger.     *)
LEMMA RequestStep ==
    ASSUME Inv, NEW r \in Request, NEW x \in {NoRequest} \cup Undecided \cup DecidedRequest,
           x # NoRequest => SoundRequest(x),
           request' = [request EXCEPT ![r] = x],
           UNCHANGED <<truth, ledger>>,
           counter' = counter, pending' \in ClientMark, compacted' = compacted,
           context' \in [Fact -> Value \cup {NotTold, Withdrawn}], unsettled' \subseteq Fact,
           crossed' \in BOOLEAN
    PROVE  Inv'
<1>1. request' \in [Request -> {NoRequest} \cup Undecided \cup DecidedRequest]
  BY DEF Inv, TypeOK
<1>2. TypeOK'
  BY <1>1 DEF Inv, TypeOK, truth, ledger, Revision
<1>3. RequestsSound'
  <2> SUFFICES ASSUME NEW s \in Request, request'[s] # NoRequest
               PROVE  SoundRequest(request[s])'
    BY DEF RequestsSound
  <2>1. request'[s] = IF s = r THEN x ELSE request[s]
    BY DEF Inv, TypeOK
  <2>2. SoundRequest(request'[s])
    BY <2>1 DEF Inv, RequestsSound
  <2>. QED  BY <2>2 DEF SoundRequest, Revision, truth
<1>4. MarksAreCurrent' /\ WithinBudget'
  BY DEF Inv, MarksAreCurrent, WithinBudget, ledger
<1>. QED  BY <1>2, <1>3, <1>4 DEF Inv

(* A step that decides a request and changes nothing but the requests.        *)
LEMMA DecideStep ==
    ASSUME Inv, NEW r \in Request, Open(r) \/ request[r].pc = "invalid",
           NEW pc \in {"recorded", "unconfirmed", "invalid", "refused", "synced"},
           request' = Decided(r, pc), UNCHANGED <<truth, ledger, client, host>>
    PROVE  Inv'
<1>1. PICK x \in {NoRequest} \cup DecidedRequest :
              /\ Decided(r, pc) = [request EXCEPT ![r] = x]
              /\ x # NoRequest => SoundRequest(x)
  BY DecidedIs DEF Inv
<1>2. /\ counter' = counter /\ pending' \in ClientMark /\ compacted' = compacted
      /\ context' \in [Fact -> Value \cup {NotTold, Withdrawn}] /\ unsettled' \subseteq Fact
      /\ crossed' \in BOOLEAN
  BY DEF client, host, Inv, TypeOK
<1>. QED  BY <1>1, <1>2, RequestStep

-----------------------------------------------------------------------------
(* A fact has a first statement, and each of its revisions is one.            *)
LEMMA StatementsAre ==
    ASSUME TypeOK, NEW f \in Fact
    PROVE  /\ Revision(f) \in Nat \ {0}
           /\ \A n \in Nat \ {0} : n <= Revision(f) => said[f][n] \in Value
           /\ Now(f) \in Value \cup {Withdrawn}
<1>1. said[f] \in Seq(Value) /\ Revision(f) > 0
  BY DEF TypeOK
<1>2. Revision(f) \in Nat \ {0}
  BY <1>1 DEF Revision
<1>3. \A n \in Nat \ {0} : n <= Revision(f) => said[f][n] \in Value
  BY <1>1 DEF Revision
<1>. QED  BY <1>2, <1>3 DEF Now

(* What `_delivery_rows` and `_make_notice` offer.                            *)
LEMMA NoticesAre ==
    ASSUME TypeOK, NEW mark
    PROVE  /\ Notices(mark) \subseteq Notice
           /\ IsFiniteSet(Notices(mark))
<1>1. ASSUME NEW m \in marks
      PROVE  [fact |-> m.fact, rev |-> m.rev, value |-> Now(m.fact)] \in Notice
  <2>1. m.fact \in Fact /\ m.rev \in Nat \ {0}
    BY DEF TypeOK, Delivery
  <2>. QED  BY <2>1, StatementsAre DEF Notice
<1>2. Notices(mark) \subseteq Notice
  BY <1>1 DEF Notices, DeliveryRows, Counted
<1>. QED  BY <1>2, FiniteNotices DEF TypeOK

LEMMA InitInv == Init => Inv
<1> SUFFICES ASSUME Init  PROVE Inv
  OBVIOUS
<1> USE DeliveryAssumption DEF Init
<1>1. /\ \A f \in Fact : said[f] = <<First>> /\ Revision(f) = 1
      /\ said \in [Fact -> Seq(Value)]
  <2>1. <<First>> \in Seq(Value) /\ Len(<<First>>) = 1
    OBVIOUS
  <2>. QED  BY <2>1 DEF Revision
<1>2. 0 \in Nat /\ 1 \in 1..Counters
  OBVIOUS
<1>3. /\ counter \in [epoch : 1..Counters, ordinal : Nat]
      /\ row \in [seq : Nat, spent : Nat, ordinary : Nat, started : BOOLEAN]
      /\ entry \in Entry /\ hidden \in BOOLEAN /\ live \subseteq Fact
      /\ {changes, compacted} \subseteq Nat
  BY <1>2 DEF Entry
<1>4. /\ epochs \in [1..Counters -> [base : Nat, local : Nat, known : BOOLEAN]]
      /\ \A e \in 1..Counters : epochs[e].base + epochs[e].local <= row.seq
  BY DEF Unregistered
<1>5. marks = {} /\ IsFiniteSet(marks) /\ unsettled \subseteq Fact /\ crossed \in BOOLEAN
  BY FS_EmptySet
<1>6. /\ pending \in ClientMark
      /\ request \in [Request -> {NoRequest} \cup Undecided \cup DecidedRequest]
      /\ context \in [Fact -> Value \cup {NotTold, Withdrawn}]
  BY DEF ClientMark
<1>7. TypeOK
  <2>1. \A f \in Fact : Revision(f) > 0
    BY <1>1
  <2>2. /\ \A m \in marks : m.rev <= Revision(m.fact)
        /\ \A m, n \in marks : m.fact = n.fact /\ m.rev = n.rev => m = n
        /\ marks \subseteq Delivery
    BY <1>5
  <2>. QED  BY ONLY <1>1, <1>3, <1>4, <1>5, <1>6, <2>1, <2>2 DEF TypeOK
<1>8. RequestsSound
  BY DEF RequestsSound
<1>9. MarksAreCurrent /\ WithinBudget
  BY <1>5 DEF MarksAreCurrent, WithinBudget
<1>. QED  BY <1>7, <1>8, <1>9 DEF Inv

LEMMA ChangeInv == Inv /\ Change => Inv'
<1> SUFFICES ASSUME Inv, Change  PROVE Inv'
  OBVIOUS
<1>1. /\ UNCHANGED <<ledger, client, request, host>>
      /\ changes' = changes + 1
  BY DEF Change
<1>2. /\ said' \in [Fact -> Seq(Value)]
      /\ \A f \in Fact : Revision(f)' \in Nat /\ Revision(f) <= Revision(f)'
  <2>1. \A f \in Fact : said[f] \in Seq(Value) /\ Revision(f) \in Nat
    BY DEF Inv, TypeOK, Revision
  <2>2. CASE said' = said
    BY <2>1, <2>2 DEF Inv, TypeOK, Revision
  <2>3. CASE \E f \in live, v \in Value : said' = [said EXCEPT ![f] = Append(@, v)]
    <3>1. PICK f \in live, v \in Value : said' = [said EXCEPT ![f] = Append(@, v)]
      BY <2>3
    <3>2. /\ Append(said[f], v) \in Seq(Value)
          /\ Len(Append(said[f], v)) = Len(said[f]) + 1
      BY <2>1 DEF Inv, TypeOK
    <3>3. \A g \in Fact : said'[g] = IF g = f THEN Append(said[f], v) ELSE said[g]
      BY <3>1 DEF Inv, TypeOK
    <3>4. said' \in [Fact -> Seq(Value)]
      BY <2>1, <3>1, <3>2, <3>3 DEF Inv, TypeOK
    <3>. QED  BY <2>1, <3>2, <3>3, <3>4 DEF Revision
  <2>. QED  BY <2>2, <2>3 DEF Change
<1>3. live' \subseteq Fact /\ hidden' \in BOOLEAN /\ entry' \in Entry
  <2>1. live \subseteq Fact /\ hidden \in BOOLEAN /\ entry \in Entry
    BY DEF Inv, TypeOK
  <2>2. entry' = entry \/ entry' = [paused |-> ~entry.paused, version |-> entry.version + 1]
    BY DEF Change
  <2>3. live' \subseteq Fact /\ hidden' \in BOOLEAN
    BY <2>1 DEF Change
  <2>4. [paused |-> ~entry.paused, version |-> entry.version + 1] \in Entry
    BY <2>1 DEF Entry
  <2>. QED  BY <2>1, <2>2, <2>3, <2>4
<1>4. TypeOK'
  <2>1. \A f \in Fact : Revision(f) \in Nat \ {0}
    BY StatementsAre DEF Inv
  <2>2. \A m \in marks : m.rev \in Nat /\ m.fact \in Fact
    BY DEF Inv, TypeOK, Delivery
  <2>3. \A m \in marks' : m.rev <= Revision(m.fact)'
    <3> SUFFICES ASSUME NEW m \in marks  PROVE m.rev <= Revision(m.fact)'
      BY <1>1 DEF ledger
    <3>1. m.rev <= Revision(m.fact)
      BY DEF Inv, TypeOK
    <3>. QED  BY <1>2, <2>1, <2>2, <3>1
  <2>4. \A f \in Fact : Revision(f)' > 0
    BY <1>2, <2>1
  <2>5. changes' \in Nat
    BY <1>1 DEF Inv, TypeOK
  <2>. QED  BY <1>1, <1>2, <1>3, <2>3, <2>4, <2>5
            DEF Inv, TypeOK, ledger, client, host
<1>5. RequestsSound'
  <2> SUFFICES ASSUME NEW r \in Request, request[r] # NoRequest
               PROVE  SoundRequest(request[r])'
    BY <1>1 DEF RequestsSound
  <2>1. SoundRequest(request[r]) /\ request[r].lines \subseteq Line
    BY RequestIs DEF Inv, RequestsSound
  <2>2. \A l \in request[r].lines : l.rev <= Revision(l.fact)'
    <3> SUFFICES ASSUME NEW l \in request[r].lines  PROVE l.rev <= Revision(l.fact)'
      OBVIOUS
    <3>1. l.rev \in Nat /\ l.fact \in Fact /\ l.rev <= Revision(l.fact)
      BY <2>1 DEF Line, SoundRequest
    <3>. QED  BY <1>2, <3>1, StatementsAre DEF Inv
  <2>3. request'[r] = request[r]
    BY <1>1
  <2>. QED  BY <2>1, <2>2, <2>3 DEF SoundRequest
<1>6. MarksAreCurrent' /\ WithinBudget'
  BY <1>1 DEF Inv, MarksAreCurrent, WithinBudget, ledger
<1>. QED  BY <1>4, <1>5, <1>6 DEF Inv

(* The client's own steps leave the server's state alone.                     *)
LEMMA ClientInv == Inv /\ (Compact \/ CounterLost) => Inv'
<1> SUFFICES ASSUME Inv, Compact \/ CounterLost  PROVE Inv'
  OBVIOUS
<1>1. /\ UNCHANGED <<truth, ledger, request>> /\ unsettled' \subseteq Fact
      /\ context' \in [Fact -> Value \cup {NotTold, Withdrawn}] /\ compacted' \in Nat
  BY DEF Compact, CounterLost, host, Inv, TypeOK
<1>6. crossed' \in BOOLEAN
  <2>1. CASE Compact
    BY <2>1 DEF Compact
  <2>2. CASE CounterLost
    BY <2>2 DEF CounterLost, host, Inv, TypeOK
  <2>. QED  BY <2>1, <2>2
<1>2. counter' \in [epoch : 1..Counters, ordinal : Nat] /\ pending' \in ClientMark
  <2>1. /\ counter \in [epoch : 1..Counters, ordinal : Nat] /\ pending \in ClientMark
        /\ counter.epoch \in 1..Counters /\ counter.ordinal \in Nat
    BY DEF Inv, TypeOK
  <2>2. CASE Compact
    <3>1. /\ counter' = [counter EXCEPT !.ordinal = @ + 1]
          /\ pending' = [epoch |-> counter.epoch, ordinal |-> counter.ordinal + 1]
      BY <2>2 DEF Compact
    <3>2. counter' = [epoch |-> counter.epoch, ordinal |-> counter.ordinal + 1]
      BY <2>1, <3>1
    <3>. QED  BY <2>1, <3>1, <3>2 DEF ClientMark
  <2>3. CASE CounterLost
    <3>1. counter' = [epoch |-> counter.epoch + 1, ordinal |-> 0] /\ pending' = pending
          /\ counter.epoch < Counters
      BY <2>3 DEF CounterLost, client
    <3>. QED  BY <2>1, <3>1, DeliveryAssumption
  <2>. QED  BY <2>2, <2>3
<1>3. TypeOK'
  BY <1>1, <1>2, <1>6 DEF Inv, TypeOK, truth, ledger, Revision
<1>4. RequestsSound'
  BY <1>1 DEF Inv, RequestsSound, SoundRequest, Revision, truth
<1>5. MarksAreCurrent' /\ WithinBudget'
  BY <1>1 DEF Inv, MarksAreCurrent, WithinBudget, ledger
<1>. QED  BY <1>3, <1>4, <1>5 DEF Inv

-----------------------------------------------------------------------------
LEMMA BeginInv == ASSUME Inv, NEW r \in Request, Begin(r)  PROVE Inv'
<1> DEFINE fresh == Cutoff(pending) > row.seq
<1> DEFINE may == {f \in live : ~hidden /\ (fresh \/ ~AlreadyInjected(pending, f, Revision(f)))}
<1> DEFINE x(brief, question) ==
        [pc |-> "begun", heard |-> TRUE, mark |-> pending, cutoff |-> Cutoff(pending),
         compact |-> fresh, deliver |-> ~hidden /\ (fresh \/ ~Started(pending)),
         lines |-> Lines(brief, TRUE) \cup Lines(question, FALSE),
         notices |-> {}, entry |-> entry, stale |-> FALSE, compacted |-> compacted]
<1>1. PICK brief \in SUBSET may, question \in SUBSET may :
         request' = [request EXCEPT ![r] = x(brief, question)]
  BY DEF Begin
<1>2. brief \in SUBSET Fact /\ question \in SUBSET Fact
  BY DEF Inv, TypeOK
<1>3. ASSUME NEW F \in SUBSET Fact, NEW b \in BOOLEAN
      PROVE  /\ Lines(F, b) \subseteq Line /\ IsFiniteSet(Lines(F, b))
             /\ \A l \in Lines(F, b) : l.rev <= Revision(l.fact)
  <2>1. \A f \in F : Revision(f) \in Nat \ {0}
    BY StatementsAre DEF Inv
  <2>2. IsFiniteSet(F)
    BY FS_Subset, DeliveryAssumption
  <2>3. IsFiniteSet(Lines(F, b))
    BY <2>2, FiniteLines
  <2>4. \A l \in Lines(F, b) : \E f \in F : l = [fact |-> f, rev |-> Revision(f), brief |-> b]
    BY DEF Lines
  <2>5. \A l \in Lines(F, b) : l \in Line /\ l.rev <= Revision(l.fact)
    <3> SUFFICES ASSUME NEW f \in F, NEW l, l = [fact |-> f, rev |-> Revision(f), brief |-> b]
                 PROVE  l \in Line /\ l.rev <= Revision(l.fact)
      BY <2>4
    <3>. QED  BY <2>1 DEF Line
  <2>. QED  BY <2>3, <2>5
<1> DEFINE lines == Lines(brief, TRUE) \cup Lines(question, FALSE)
<1>4. /\ lines \subseteq Line /\ IsFiniteSet(lines)
      /\ \A l \in lines : l.rev <= Revision(l.fact)
  BY <1>2, <1>3, FS_Union
<1>5. /\ pending \in ClientMark /\ Cutoff(pending) \in Nat /\ entry \in Entry
      /\ compacted \in Nat /\ Started(pending) \in BOOLEAN /\ hidden \in BOOLEAN
      /\ fresh \in BOOLEAN
  BY CutoffIs DEF Inv, TypeOK, Started
<1>6. x(brief, question) \in Undecided
  <2> HIDE DEF lines, fresh
  <2>. QED  BY <1>4, <1>5 DEF Undecided, lines
<1>7. SoundRequest(x(brief, question))
  <2>1. ~entry.paused
    BY DEF Begin
  <2>. QED  BY <1>4, <2>1, FS_EmptySet DEF SoundRequest
<1>8. UNCHANGED <<truth, ledger, client, host>>
  BY DEF Begin
<1>9. /\ counter' = counter /\ pending' \in ClientMark /\ compacted' = compacted
      /\ context' \in [Fact -> Value \cup {NotTold, Withdrawn}] /\ unsettled' \subseteq Fact
      /\ crossed' \in BOOLEAN
  BY <1>8 DEF client, host, Inv, TypeOK
<1> HIDE DEF x
<1>. QED  BY <1>1, <1>6, <1>7, <1>8, <1>9, RequestStep

LEMMA PrepareInv == ASSUME Inv, NEW r \in Request, Prepare(r)  PROVE Inv'
<1> DEFINE q == request[r]
<1>1. q \in Undecided /\ Open(r) /\ SoundRequest(q) /\ q # NoRequest
  BY RequestIs DEF Prepare, Open, Inv, RequestsSound, NoRequest
<1>2. UNCHANGED <<truth, ledger, client, host>>
  BY DEF Prepare
<1>3. CASE entry # q.entry
  BY <1>1, <1>2, <1>3, DecideStep DEF Prepare
<1>4. CASE entry = q.entry
  <2> DEFINE kept == IF hidden THEN {} ELSE {l \in q.lines : l.brief \/ LineLive(l)}
  <2> DEFINE offered == IF q.compact THEN {} ELSE Notices(q.mark)
  <2>1. PICK notices \in SUBSET offered, lines \in SUBSET kept :
           request' = [request EXCEPT ![r].pc = "prepared", ![r].lines = lines,
                                      ![r].notices = notices, ![r].deliver = @ /\ ~hidden]
    BY <1>4 DEF Prepare, Fitting
  <2>2. lines \subseteq q.lines
    OBVIOUS
  <2>3. notices \subseteq Notice /\ IsFiniteSet(notices)
    <3>1. offered \subseteq Notice /\ IsFiniteSet(offered)
      BY NoticesAre, FS_EmptySet DEF Inv
    <3> HIDE DEF offered
    <3>. QED  BY <3>1, FS_Subset
  <2> DEFINE x == [q EXCEPT !.pc = "prepared", !.lines = lines, !.notices = notices,
                            !.deliver = @ /\ ~hidden]
  <2>4. request' = [request EXCEPT ![r] = x]
    BY <2>1 DEF Inv, TypeOK
  <2> HIDE DEF kept, offered
  <2>5. hidden \in BOOLEAN /\ lines \subseteq Line
    BY <1>1, <2>2 DEF Inv, TypeOK, Undecided
  <2>6. x \in Undecided /\ x.lines = lines /\ x.notices = notices /\ x.stale = q.stale
        /\ x.entry = q.entry
    BY <1>1, <2>3, <2>5 DEF Undecided
  <2>7. SoundRequest(x)
    <3>1. IsFiniteSet(lines)
      BY <1>1, <2>2, FS_Subset DEF SoundRequest
    <3>2. ~q.entry.paused
      BY <1>1 DEF SoundRequest, Prepare
    <3> HIDE DEF x
    <3>. QED  BY <1>1, <2>2, <2>3, <2>6, <3>1, <3>2 DEF SoundRequest
  <2>8. /\ counter' = counter /\ pending' \in ClientMark /\ compacted' = compacted
        /\ context' \in [Fact -> Value \cup {NotTold, Withdrawn}] /\ unsettled' \subseteq Fact
      /\ crossed' \in BOOLEAN
    BY <1>2 DEF client, host, Inv, TypeOK
  <2> HIDE DEF x
  <2>. QED  BY <1>2, <2>4, <2>6, <2>7, <2>8, RequestStep
<1>. QED  BY <1>3, <1>4

LEMMA ConfirmReadInv == ASSUME Inv, NEW r \in Request, ConfirmRead(r)  PROVE Inv'
<1> DEFINE q == request[r]
<1>1. q \in Undecided /\ Open(r) /\ SoundRequest(q) /\ q # NoRequest
  BY RequestIs DEF ConfirmRead, Open, Inv, RequestsSound, NoRequest
<1>2. UNCHANGED <<truth, ledger, client, host>>
  BY DEF ConfirmRead
<1>3. CASE ~Releasable(q)
  <2> DEFINE pc == IF entry = q.entry THEN "invalid" ELSE "refused"
  <2>1. request' = Decided(r, pc) /\ pc \in {"invalid", "refused"}
    BY <1>3 DEF ConfirmRead, Refused
  <2> HIDE DEF pc
  <2>. QED  BY <1>1, <1>2, <2>1, DecideStep
<1>4. CASE Releasable(q)
  <2> DEFINE x == [q EXCEPT !.pc = "checked", !.stale = FALSE]
  <2>1. (entry.paused \/ ~LinesOnly(q)) = FALSE
    <3>1. ~q.entry.paused
      BY <1>1 DEF SoundRequest, ConfirmRead
    <3>. QED  BY <1>4, <3>1 DEF Releasable
  <2>2. request' = [request EXCEPT ![r] = x]
    BY <1>4, <2>1 DEF ConfirmRead, Inv, TypeOK
  <2>3. x \in Undecided /\ x.lines = q.lines /\ x.notices = q.notices /\ x.stale = FALSE
        /\ x.entry = q.entry
    BY <1>1 DEF Undecided
  <2>4. SoundRequest(x)
    <3>1. ~q.entry.paused
      BY <1>1 DEF SoundRequest, ConfirmRead
    <3> HIDE DEF x
    <3>. QED  BY <1>1, <2>3, <3>1 DEF SoundRequest
  <2>5. /\ counter' = counter /\ pending' \in ClientMark /\ compacted' = compacted
        /\ context' \in [Fact -> Value \cup {NotTold, Withdrawn}] /\ unsettled' \subseteq Fact
      /\ crossed' \in BOOLEAN
    BY <1>2 DEF client, host, Inv, TypeOK
  <2> HIDE DEF x
  <2>. QED  BY <1>2, <2>2, <2>3, <2>4, <2>5, RequestStep
<1>. QED  BY <1>3, <1>4

LEMMA ConfirmBusyInv == ASSUME Inv, NEW r \in Request, ConfirmBusy(r)  PROVE Inv'
  BY DecideStep DEF ConfirmBusy, Open

(* What a request names are facts.                                            *)
LEMMA NamedAre ==
    ASSUME TypeOK, NEW r \in Request, request[r] # NoRequest
    PROVE  Named(request[r]) \subseteq Fact
  BY RequestIs DEF Named, Line, Notice

(* What the host is told of a fact is a statement or its withdrawal.          *)
LEMMA ToldIs ==
    ASSUME TypeOK, NEW q, q.lines \subseteq Line, q.notices \subseteq Notice,
           \A l \in q.lines : l.rev <= Revision(l.fact)
    PROVE  /\ Told(q) \in [Fact -> Value \cup {NotTold, Withdrawn}]
           /\ \A f \in Fact :
                 \/ \E l \in q.lines : l.fact = f /\ Told(q)[f] = said[f][l.rev]
                 \/ /\ ~\E l \in q.lines : l.fact = f
                    /\ \E n \in q.notices : n.fact = f /\ Told(q)[f] = n.value
                 \/ /\ ~\E l \in q.lines : l.fact = f
                    /\ ~\E n \in q.notices : n.fact = f
                    /\ Told(q)[f] = context[f]
<1> DEFINE told(f) ==
        IF \E l \in q.lines : l.fact = f
        THEN LET l == CHOOSE l \in q.lines : l.fact = f IN said[f][l.rev]
        ELSE IF \E n \in q.notices : n.fact = f
        THEN (CHOOSE n \in q.notices : n.fact = f).value
        ELSE context[f]
<1>1. Told(q) = [f \in Fact |-> told(f)]
  BY DEF Told
<1>2. ASSUME NEW f \in Fact
      PROVE  /\ told(f) \in Value \cup {NotTold, Withdrawn}
             /\ \/ \E l \in q.lines : l.fact = f /\ told(f) = said[f][l.rev]
                \/ /\ ~\E l \in q.lines : l.fact = f
                   /\ \E n \in q.notices : n.fact = f /\ told(f) = n.value
                \/ /\ ~\E l \in q.lines : l.fact = f
                   /\ ~\E n \in q.notices : n.fact = f
                   /\ told(f) = context[f]
  <2>1. CASE \E l \in q.lines : l.fact = f
    <3> DEFINE c == CHOOSE l \in q.lines : l.fact = f
    <3>1. c \in q.lines /\ c.fact = f
      BY <2>1, Zenon
    <3>2. told(f) = said[f][c.rev]
      BY <2>1
    <3>3. c.rev \in Nat \ {0} /\ c.rev <= Revision(f)
      BY <3>1 DEF Line
    <3> HIDE DEF c, told
    <3>. QED  BY <3>1, <3>2, <3>3, StatementsAre
  <2>2. CASE ~(\E l \in q.lines : l.fact = f) /\ \E n \in q.notices : n.fact = f
    <3> DEFINE c == CHOOSE n \in q.notices : n.fact = f
    <3>1. c \in q.notices /\ c.fact = f
      BY <2>2, Zenon
    <3>2. told(f) = c.value
      BY <2>2
    <3>3. c.value \in Value \cup {Withdrawn}
      BY <3>1 DEF Notice
    <3> HIDE DEF c, told
    <3>. QED  BY <2>2, <3>1, <3>2, <3>3
  <2>3. CASE ~(\E l \in q.lines : l.fact = f) /\ ~(\E n \in q.notices : n.fact = f)
    <3>1. told(f) = context[f]
      BY <2>3
    <3> HIDE DEF told
    <3>. QED  BY <2>3, <3>1 DEF TypeOK
  <2>. QED  BY <2>1, <2>2, <2>3
<1> HIDE DEF told
<1>. QED  BY <1>1, <1>2

LEMMA AnswerInv == ASSUME Inv, NEW r \in Request, Answer(r)  PROVE Inv'
<1>1. /\ request' = [request EXCEPT ![r] = NoRequest]
      /\ UNCHANGED <<truth, ledger>> /\ counter' = counter /\ compacted' = compacted
      /\ crossed' \in BOOLEAN
  BY DEF Answer, Inv, TypeOK
<1>2. request[r] # NoRequest
  BY DEF Answer, Final, NoRequest
<1>3. context' \in [Fact -> Value \cup {NotTold, Withdrawn}]
  <2>1. Told(request[r]) \in [Fact -> Value \cup {NotTold, Withdrawn}]
    BY <1>2, ToldIs, RequestIs DEF Inv, RequestsSound, SoundRequest
  <2>. QED  BY <2>1 DEF Answer, Inv, TypeOK
<1>4. pending' \in ClientMark
  BY DEF Answer, Cleared, Inv, TypeOK, ClientMark
<1>5. unsettled' \subseteq Fact
  BY <1>2, NamedAre DEF Answer, Inv, TypeOK
<1>. QED  BY <1>1, <1>3, <1>4, <1>5, RequestStep

LEMMA GiveUpInv == ASSUME Inv, NEW r \in Request, GiveUp(r)  PROVE Inv'
<1> DEFINE q == request[r]
<1>1. q # NoRequest /\ q \in Undecided \cup DecidedRequest /\ SoundRequest(q)
  BY RequestIs DEF GiveUp, NoRequest, Inv, RequestsSound
<1>2. /\ UNCHANGED <<truth, ledger>> /\ counter' = counter /\ compacted' = compacted
      /\ pending' \in ClientMark
      /\ context' \in [Fact -> Value \cup {NotTold, Withdrawn}] /\ crossed' \in BOOLEAN
  BY DEF GiveUp, client, Inv, TypeOK
<1>3. unsettled' \subseteq Fact
  BY <1>1, NamedAre DEF GiveUp, Inv, TypeOK
<1>4. CASE request' = [request EXCEPT ![r] = NoRequest]
  BY <1>2, <1>3, <1>4, RequestStep
<1>5. CASE request' = [request EXCEPT ![r].heard = FALSE]
  <2> DEFINE x == [q EXCEPT !.heard = FALSE]
  <2>1. request' = [request EXCEPT ![r] = x]
    BY <1>5 DEF Inv, TypeOK
  <2>2. x \in Undecided \cup DecidedRequest
    BY <1>1 DEF Undecided, DecidedRequest
  <2>3. /\ x.lines = q.lines /\ x.notices = q.notices /\ x.stale = q.stale /\ x.pc = q.pc
        /\ q.pc \in {"begun", "prepared", "checked"} => x.entry = q.entry
    BY <1>1 DEF Undecided, DecidedRequest
  <2>4. SoundRequest(x)
    <3> HIDE DEF x
    <3>. QED  BY <1>1, <2>3 DEF SoundRequest
  <2> HIDE DEF x
  <2>. QED  BY <1>2, <1>3, <2>1, <2>2, <2>4, RequestStep
<1>. QED  BY <1>4, <1>5 DEF GiveUp

LEMMA DroppedInv == ASSUME Inv, NEW r \in Request, Dropped(r)  PROVE Inv'
<1>1. /\ request' = [request EXCEPT ![r] = NoRequest]
      /\ UNCHANGED <<truth, ledger, client, host>>
  BY DEF Dropped
<1>2. /\ counter' = counter /\ pending' \in ClientMark /\ compacted' = compacted
      /\ context' \in [Fact -> Value \cup {NotTold, Withdrawn}] /\ unsettled' \subseteq Fact
      /\ crossed' \in BOOLEAN
  BY <1>1 DEF client, host, Inv, TypeOK
<1>. QED  BY <1>1, <1>2, RequestStep

-----------------------------------------------------------------------------
(* What the write transaction of a confirmation makes of the deliveries.      *)
Recording(q) ==
    Acknowledged(Delivered(Applied(q.mark).marks, q, Applied(q.mark).row.seq), q)

LEMMA RecordingIs ==
    ASSUME Inv, NEW r \in Request, Open(r)
    PROVE  LET q == request[r]
               old == Applied(q.mark).marks
               M == Recording(q)
           IN  /\ M \subseteq Delivery /\ IsFiniteSet(M) /\ OneRowEach(M) /\ OfRevisions(M)
               /\ \A m \in M : m.seq = Cutoff(q.mark)
               /\ \A m \in M :
                     \/ \E l \in q.lines : Same(l, m) /\ m.compacted = q.compacted
                     \/ /\ ~\E l \in q.lines : Same(l, m)
                        /\ \E o \in old : Same(o, m) /\ m.compacted = o.compacted
               /\ \A m \in M :
                     \/ \E n \in q.notices : Same(n, m) /\ m.ack = n.value
                     \/ /\ ~\E n \in q.notices : Same(n, m)
                        /\ \A o \in old : Same(o, m) => m.ack = o.ack
                        /\ (~\E o \in old : Same(o, m)) => m.ack = NotTold
               /\ \A o \in old : \E m \in M : Same(o, m)
               /\ \A l \in q.lines : \E m \in M : Same(l, m)
<1> DEFINE q == request[r]
<1> DEFINE old == Applied(q.mark).marks
<1> DEFINE seq == Applied(q.mark).row.seq
<1> DEFINE D == Delivered(old, q, seq)
<1> DEFINE M == Acknowledged(D, q)
<1>1. q \in Undecided /\ q # NoRequest
  BY RequestIs DEF Inv, Open, NoRequest
<1>2. /\ q.mark \in ClientMark /\ q.lines \subseteq Line /\ q.notices \subseteq Notice
      /\ q.compacted \in Nat /\ IsFiniteSet(q.lines)
      /\ \A l \in q.lines : l.rev <= Revision(l.fact)
  BY <1>1 DEF Undecided, Inv, RequestsSound, SoundRequest
<1>3. /\ seq = Cutoff(q.mark) /\ seq \in Nat /\ old \subseteq marks
      /\ row.seq = Cutoff(q.mark) => old = marks
      /\ row.seq # Cutoff(q.mark) => old = {}
  BY <1>2, AppliedIs, CutoffIs DEF Inv
<1>4. /\ marks \subseteq Delivery /\ IsFiniteSet(marks) /\ OneRowEach(marks) /\ OfRevisions(marks)
  BY DEF Inv, TypeOK, OneRowEach, OfRevisions
<1>5. \A m \in old : m.seq = seq
  BY <1>3 DEF Inv, MarksAreCurrent
<1>6. /\ old \subseteq Delivery /\ IsFiniteSet(old) /\ OneRowEach(old) /\ OfRevisions(old)
  BY <1>3, <1>4, FS_Subset DEF OneRowEach, OfRevisions
<1> HIDE DEF old, seq, q
<1>7. /\ D \subseteq Delivery /\ IsFiniteSet(D) /\ OneRowEach(D) /\ OfRevisions(D)
      /\ \A m \in D :
            \/ m \in old /\ ~\E l \in q.lines : Same(l, m)
            \/ /\ \E l \in q.lines : Same(l, m)
               /\ m.seq = seq /\ m.compacted = q.compacted
               /\ \A o \in old : Same(o, m) => m.ack = o.ack
               /\ (~\E o \in old : Same(o, m)) => m.ack = NotTold
      /\ \A o \in old : \E m \in D : Same(o, m)
      /\ \A l \in q.lines : \E m \in D : Same(l, m)
  BY <1>2, <1>3, <1>6, DeliveredIs
<1> HIDE DEF D
<1>8. /\ M \subseteq Delivery /\ IsFiniteSet(M) /\ OneRowEach(M) /\ OfRevisions(M)
      /\ \A m \in M : \E o \in D :
            /\ Same(o, m) /\ m.seq = o.seq /\ m.compacted = o.compacted
            /\ \/ m = o /\ ~\E n \in q.notices : Same(n, o)
               \/ \E n \in q.notices : Same(n, o) /\ m.ack = n.value
      /\ \A o \in D : \E m \in M : Same(o, m)
  BY <1>2, <1>7, AcknowledgedIs
<1> HIDE DEF M
<1>9. ASSUME NEW m \in M
      PROVE  /\ m.seq = seq
             /\ \/ \E l \in q.lines : Same(l, m) /\ m.compacted = q.compacted
                \/ /\ ~\E l \in q.lines : Same(l, m)
                   /\ \E o \in old : Same(o, m) /\ m.compacted = o.compacted
             /\ \/ \E n \in q.notices : Same(n, m) /\ m.ack = n.value
                \/ /\ ~\E n \in q.notices : Same(n, m)
                   /\ \A o \in old : Same(o, m) => m.ack = o.ack
                   /\ (~\E o \in old : Same(o, m)) => m.ack = NotTold
  <2>1. PICK d \in D :
            /\ Same(d, m) /\ m.seq = d.seq /\ m.compacted = d.compacted
            /\ \/ m = d /\ ~\E n \in q.notices : Same(n, d)
               \/ \E n \in q.notices : Same(n, d) /\ m.ack = n.value
    BY <1>8
  <2>2. CASE d \in old /\ ~\E l \in q.lines : Same(l, d)
    <3>1. \A o \in old : Same(o, d) => o = d
      BY <1>6, <2>2 DEF OneRowEach, Same
    <3>. QED  BY <1>5, <2>1, <2>2, <3>1 DEF Same
  <2>3. CASE /\ \E l \in q.lines : Same(l, d)
             /\ d.seq = seq /\ d.compacted = q.compacted
             /\ \A o \in old : Same(o, d) => d.ack = o.ack
             /\ (~\E o \in old : Same(o, d)) => d.ack = NotTold
    BY <2>1, <2>3 DEF Same
  <2>. QED  BY <1>7, <2>2, <2>3
<1>10. /\ \A o \in old : \E m \in M : Same(o, m)
       /\ \A l \in q.lines : \E m \in M : Same(l, m)
  BY <1>7, <1>8 DEF Same
<1>11. M = Recording(q)
  BY DEF M, D, old, seq, Recording
<1>. QED  BY <1>3, <1>8, <1>9, <1>10, <1>11 DEF q, old

(* A step that changes the ledger and one request.                            *)
LEMMA LedgerStep ==
    ASSUME Inv, NEW r \in Request, NEW x \in {NoRequest} \cup DecidedRequest,
           x # NoRequest => SoundRequest(x),
           request' = [request EXCEPT ![r] = x],
           UNCHANGED <<truth, client, context, compacted, crossed>>, unsettled' \subseteq Fact,
           row' \in [seq : Nat, spent : Nat, ordinary : Nat, started : BOOLEAN],
           row'.ordinary <= row'.spent, row'.ordinary <= SessionCap,
           epochs' \in [1..Counters -> [base : Nat, local : Nat, known : BOOLEAN]],
           \A e \in 1..Counters : epochs'[e].base + epochs'[e].local <= row'.seq,
           marks' \subseteq Delivery, IsFiniteSet(marks'), OneRowEach(marks'), OfRevisions(marks'),
           \A m \in marks' : m.seq = row'.seq
    PROVE  Inv'
<1>1. request' \in [Request -> {NoRequest} \cup Undecided \cup DecidedRequest]
  BY DEF Inv, TypeOK
<1>2. /\ \A m \in marks' : m.rev <= Revision(m.fact)'
      /\ \A m, n \in marks' : m.fact = n.fact /\ m.rev = n.rev => m = n
  BY DEF OneRowEach, OfRevisions, Revision, truth
<1>3. TypeOK'
  BY <1>1, <1>2 DEF Inv, TypeOK, truth, client, Revision
<1>4. RequestsSound'
  <2> SUFFICES ASSUME NEW s \in Request, request'[s] # NoRequest
               PROVE  SoundRequest(request[s])'
    BY DEF RequestsSound
  <2>1. request'[s] = IF s = r THEN x ELSE request[s]
    BY DEF Inv, TypeOK
  <2>2. SoundRequest(request'[s])
    BY <2>1 DEF Inv, RequestsSound
  <2>. QED  BY <2>2 DEF SoundRequest, Revision, truth
<1>5. MarksAreCurrent' /\ WithinBudget'
  BY DEF MarksAreCurrent, WithinBudget
<1>. QED  BY <1>3, <1>4, <1>5 DEF Inv

LEMMA ConfirmWriteInv == ASSUME Inv, NEW r \in Request, ConfirmWrite(r)  PROVE Inv'
<1> DEFINE q == request[r]
<1> DEFINE a == Applied(q.mark)
<1>1. q \in Undecided /\ Open(r) /\ SoundRequest(q) /\ q # NoRequest /\ q.mark \in ClientMark
  BY RequestIs DEF ConfirmWrite, Open, Inv, RequestsSound, NoRequest
<1>2. CASE ~Releasable(q)
  <2> DEFINE pc == IF entry = q.entry THEN "invalid" ELSE "refused"
  <2>1. request' = Decided(r, pc) /\ pc \in {"invalid", "refused"}
        /\ UNCHANGED <<truth, ledger, client, host>>
    BY <1>2 DEF ConfirmWrite, Refused, host
  <2> HIDE DEF pc
  <2>. QED  BY <1>1, <2>1, DecideStep
<1>3. CASE Releasable(q)
  <2> DEFINE nlines == Cardinality(q.lines)
  <2> DEFINE nnotices == Cardinality(q.notices)
  <2>1. /\ epochs' = a.epochs
        /\ row' = [a.row EXCEPT !.spent = @ + (nlines + nnotices),
                                !.ordinary = @ + nlines,
                                !.started = @ \/ q.deliver]
        /\ marks' = Recording(q)
        /\ request' = Decided(r, "recorded")
        /\ unsettled' = IF q.heard THEN unsettled ELSE unsettled \cup Named(q)
        /\ UNCHANGED <<truth, client, context, compacted, crossed>>
    BY <1>3 DEF ConfirmWrite, Recording
  <2>2. PICK x \in {NoRequest} \cup DecidedRequest :
              /\ Decided(r, "recorded") = [request EXCEPT ![r] = x]
              /\ x # NoRequest => SoundRequest(x)
    BY <1>1, DecidedIs DEF Inv
  <2>3. unsettled' \subseteq Fact
    BY <1>1, <2>1, NamedAre DEF Inv, TypeOK
  <2>4. /\ nlines \in Nat /\ nnotices \in Nat /\ SessionCap \in Nat
    BY <1>1, FS_CardinalityType, DeliveryAssumption DEF SoundRequest
  <2>5. /\ row \in [seq : Nat, spent : Nat, ordinary : Nat, started : BOOLEAN]
        /\ row.ordinary <= row.spent /\ row.ordinary <= SessionCap
    BY DEF Inv, TypeOK, WithinBudget
  <2>6. /\ a.row.seq = Cutoff(q.mark) /\ row.seq <= Cutoff(q.mark)
        /\ Cutoff(q.mark) \in Nat /\ row.seq \in Nat
        /\ row.seq = Cutoff(q.mark) => a.row = row
        /\ row.seq # Cutoff(q.mark) =>
              a.row = [seq |-> Cutoff(q.mark), spent |-> 0, ordinary |-> 0, started |-> FALSE]
        /\ a.epochs \in [1..Counters -> [base : Nat, local : Nat, known : BOOLEAN]]
        /\ \A e \in 1..Counters : a.epochs[e].base + a.epochs[e].local <= a.row.seq
    BY <1>1, AppliedIs, CutoffIs DEF Inv
  <2> DEFINE used == Usage(q.mark)
  <2>7. used \in Nat /\ nlines <= SessionCap - Min({SessionCap, used})
    <3>1. used \in Nat
      BY <2>5 DEF Usage
    <3>. QED  BY <1>3, <3>1 DEF Releasable
  <2>8. nlines <= SessionCap - (IF SessionCap <= used THEN SessionCap ELSE used)
    <3> HIDE DEF used
    <3>. QED  BY <2>4, <2>7, TwoNumbers
  <2>9. /\ a.row \in [seq : Nat, spent : Nat, ordinary : Nat, started : BOOLEAN]
        /\ a.row.ordinary <= a.row.spent /\ a.row.ordinary + nlines <= SessionCap
    <3>1. CASE row.seq = Cutoff(q.mark)
      <4>1. a.row = row /\ used = row.spent
        BY <2>6, <3>1 DEF Usage
      <4> HIDE DEF a, used, nlines
      <4>2. row.ordinary + nlines <= SessionCap
        BY <2>4, <2>5, <2>8, <4>1
      <4>. QED  BY <2>5, <4>1, <4>2
    <3>2. CASE row.seq # Cutoff(q.mark)
      <4>1. /\ a.row = [seq |-> Cutoff(q.mark), spent |-> 0, ordinary |-> 0, started |-> FALSE]
            /\ used = 0
        BY <2>6, <3>2 DEF Usage
      <4> HIDE DEF a, used, nlines
      <4>2. nlines <= SessionCap
        BY <2>4, <2>8, <4>1
      <4>. QED  BY <2>4, <2>6, <4>1, <4>2
    <3>. QED  BY <3>1, <3>2
  <2>10. /\ row' \in [seq : Nat, spent : Nat, ordinary : Nat, started : BOOLEAN]
         /\ row'.seq = Cutoff(q.mark)
         /\ row'.ordinary <= row'.spent /\ row'.ordinary <= SessionCap
    <3>1. q.deliver \in BOOLEAN
      BY <1>1 DEF Undecided
    <3> HIDE DEF a, nlines, nnotices
    <3>2. row' = [seq |-> a.row.seq, spent |-> a.row.spent + (nlines + nnotices),
                  ordinary |-> a.row.ordinary + nlines, started |-> a.row.started \/ q.deliver]
      BY <2>1, <2>9
    <3>. QED  BY <2>4, <2>6, <2>9, <3>1, <3>2
  <2>11. /\ marks' \subseteq Delivery /\ IsFiniteSet(marks') /\ OneRowEach(marks')
         /\ OfRevisions(marks') /\ \A m \in marks' : m.seq = row'.seq
    BY <1>1, <2>1, <2>10, RecordingIs
  <2>12. /\ epochs' \in [1..Counters -> [base : Nat, local : Nat, known : BOOLEAN]]
         /\ \A e \in 1..Counters : epochs'[e].base + epochs'[e].local <= row'.seq
    BY <2>1, <2>6, <2>10
  <2>. QED  BY <2>1, <2>2, <2>3, <2>10, <2>11, <2>12, LedgerStep
<1>. QED  BY <1>2, <1>3

LEMMA SyncCompactionInv == ASSUME Inv, NEW r \in Request, SyncCompaction(r)  PROVE Inv'
<1> DEFINE q == request[r]
<1> DEFINE a == Applied(q.mark)
<1>1. q # NoRequest /\ q.mark \in ClientMark /\ q.pc = "invalid"
  BY RequestIs DEF SyncCompaction, Inv, NoRequest
<1>2. /\ epochs' = a.epochs /\ row' = a.row /\ marks' = a.marks
      /\ request' = Decided(r, "synced") /\ UNCHANGED <<truth, client, host>>
  BY DEF SyncCompaction
<1>3. PICK x \in {NoRequest} \cup DecidedRequest :
              /\ Decided(r, "synced") = [request EXCEPT ![r] = x]
              /\ x # NoRequest => SoundRequest(x)
  BY <1>1, DecidedIs DEF Inv
<1>4. unsettled' \subseteq Fact /\ UNCHANGED <<truth, client, context, compacted, crossed>>
  BY <1>2 DEF Inv, TypeOK, host
<1>5. /\ a.row.seq = Cutoff(q.mark) /\ Cutoff(q.mark) \in Nat
      /\ row.seq = Cutoff(q.mark) => a.row = row /\ a.marks = marks
      /\ row.seq # Cutoff(q.mark) =>
            /\ a.row = [seq |-> Cutoff(q.mark), spent |-> 0, ordinary |-> 0, started |-> FALSE]
            /\ a.marks = {}
      /\ a.epochs \in [1..Counters -> [base : Nat, local : Nat, known : BOOLEAN]]
      /\ \A e \in 1..Counters : a.epochs[e].base + a.epochs[e].local <= a.row.seq
  BY <1>1, AppliedIs, CutoffIs DEF Inv
<1>6. /\ row \in [seq : Nat, spent : Nat, ordinary : Nat, started : BOOLEAN]
      /\ row.ordinary <= row.spent /\ row.ordinary <= SessionCap /\ SessionCap \in Nat
      /\ \A m \in marks : m.seq = row.seq
      /\ marks \subseteq Delivery /\ IsFiniteSet(marks) /\ OneRowEach(marks) /\ OfRevisions(marks)
  BY DeliveryAssumption DEF Inv, TypeOK, WithinBudget, MarksAreCurrent, OneRowEach, OfRevisions
<1>7. /\ a.row \in [seq : Nat, spent : Nat, ordinary : Nat, started : BOOLEAN]
      /\ a.row.ordinary <= a.row.spent /\ a.row.ordinary <= SessionCap
      /\ a.marks \subseteq Delivery /\ IsFiniteSet(a.marks)
      /\ OneRowEach(a.marks) /\ OfRevisions(a.marks)
      /\ \A m \in a.marks : m.seq = a.row.seq
  <2> HIDE DEF a
  <2>1. CASE row.seq = Cutoff(q.mark)
    BY <1>5, <1>6, <2>1
  <2>2. CASE row.seq # Cutoff(q.mark)
    <3>1. a.marks = {}
      BY <1>5, <2>2
    <3>2. /\ a.marks \subseteq Delivery /\ IsFiniteSet(a.marks)
          /\ OneRowEach(a.marks) /\ OfRevisions(a.marks)
          /\ \A m \in a.marks : m.seq = a.row.seq
      BY <3>1, FS_EmptySet DEF OneRowEach, OfRevisions
    <3>3. /\ a.row \in [seq : Nat, spent : Nat, ordinary : Nat, started : BOOLEAN]
          /\ a.row.ordinary <= a.row.spent /\ a.row.ordinary <= SessionCap
      <4>1. a.row = [seq |-> Cutoff(q.mark), spent |-> 0, ordinary |-> 0, started |-> FALSE]
            /\ Cutoff(q.mark) \in Nat /\ SessionCap \in Nat
        BY <1>5, <1>6, <2>2
      <4>. QED  BY <4>1
    <3>. QED  BY <3>2, <3>3
  <2>. QED  BY <2>1, <2>2
<1> HIDE DEF a
<1>. QED  BY <1>2, <1>3, <1>4, <1>5, <1>7, LedgerStep

-----------------------------------------------------------------------------
LEMMA StepInv == Inv /\ [Next]_vars => Inv'
<1> SUFFICES ASSUME Inv, [Next]_vars  PROVE Inv'
  OBVIOUS
<1>1. CASE UNCHANGED vars
  BY <1>1 DEF vars, Inv, TypeOK, RequestsSound, SoundRequest, MarksAreCurrent, WithinBudget,
              Revision
<1>2. CASE Next
  BY <1>2, ChangeInv, ClientInv, BeginInv, PrepareInv, ConfirmReadInv, ConfirmWriteInv,
     ConfirmBusyInv, SyncCompactionInv, AnswerInv, GiveUpInv, DroppedInv, Zenon DEF Next
<1>. QED  BY <1>1, <1>2

(* The inductive invariant: every request is sound, deliveries are all of the *)
(* current sequence, and the ceiling holds for what was recorded since.       *)
THEOREM InvHolds == Spec => []Inv
  BY InitInv, StepInv, PTL DEF Spec

(* The session's tables, the client's counters and the requests have their    *)
(* types, and each delivered revision has one row.                            *)
THEOREM TypeCorrect == Spec => []TypeOK
<1>1. Inv => TypeOK
  BY DEF Inv
<1>. QED  BY <1>1, InvHolds, PTL

(* Nothing barred is shown: what `_release_refusal` let pass at the read was  *)
(* live then, whatever had been prepared before.                              *)
THEOREM NothingBarredShownHolds == Spec => []NothingBarredShown
<1>1. Inv => NothingBarredShown
  BY DEF Inv, NothingBarredShown, Released, RequestsSound, SoundRequest, NoRequest
<1>. QED  BY <1>1, InvHolds, PTL

(* The session's token ceiling holds for what was recorded, however many      *)
(* requests were prepared at once.                                            *)
THEOREM RecordedWithinCapHolds == Spec => []RecordedWithinCap
<1>1. Inv => RecordedWithinCap
  BY DEF Inv, WithinBudget, RecordedWithinCap
<1>. QED  BY <1>1, InvHolds, PTL

-----------------------------------------------------------------------------
(* The client's mark never slips back: what an applied mark leaves of the     *)
(* session puts every mark at the point it had or further on.                 *)
LEMMA PointGrows ==
    ASSUME TypeOK, MarksAreCurrent, NEW mark \in ClientMark, NEW p \in ClientMark
    PROVE  Point(row.seq, epochs, p)
              <= Point(Applied(mark).row.seq, Applied(mark).epochs, p)
<1> DEFINE a == Applied(mark)
<1>1. row.seq \in Nat /\ epochs \in Epochs /\ a.row.seq \in Nat /\ a.epochs \in Epochs
      /\ row.seq <= a.row.seq
  <2>1. row.seq \in Nat /\ epochs \in Epochs
    BY DEF TypeOK, Epochs
  <2>2. Cutoff(mark) \in Nat /\ row.seq <= Cutoff(mark)
    BY CutoffIs
  <2>3. a.row.seq = Cutoff(mark) /\ a.epochs \in Epochs
    BY AppliedIs DEF Epochs
  <2>. QED  BY <2>1, <2>2, <2>3
<1>2. CASE p = NoMark
  BY <1>1, <1>2, PointIs
<1>3. CASE p # NoMark
  <2>1. p.epoch \in 1..Counters /\ p.ordinal \in Nat
    BY <1>3, MarkIs
  <2> DEFINE e == epochs[p.epoch]
  <2> DEFINE f == a.epochs[p.epoch]
  <2>2. /\ e.base \in Nat /\ e.known \in BOOLEAN /\ f.base \in Nat /\ f.known \in BOOLEAN
    BY <1>1, <2>1 DEF Epochs
  <2>3. /\ e.known => f.known /\ f.base = e.base
        /\ f.known /\ ~e.known => f.base = row.seq
    <3>1. \A i \in 1..Counters :
             /\ i # mark.epoch => a.epochs[i] = epochs[i]
             /\ epochs[i].known => a.epochs[i].known /\ a.epochs[i].base = epochs[i].base
                                  /\ epochs[i].local <= a.epochs[i].local
             /\ a.epochs[i].known /\ ~epochs[i].known =>
                   a.epochs[i].base = row.seq /\ a.epochs[i].local = mark.ordinal
      BY AppliedIs, Zenon
    <3> HIDE DEF a
    <3>. QED  BY <2>1, <3>1
  <2> DEFINE before == Point(row.seq, epochs, p)
  <2> DEFINE after == Point(a.row.seq, a.epochs, p)
  <2>4. /\ e.known => before = IF row.seq <= e.base + p.ordinal THEN e.base + p.ordinal ELSE row.seq
        /\ ~e.known => before = row.seq + p.ordinal
    BY <1>1, <1>3, PointIs
  <2>5. /\ f.known => after = IF a.row.seq <= f.base + p.ordinal THEN f.base + p.ordinal ELSE a.row.seq
        /\ ~f.known => after = a.row.seq + p.ordinal
    <3> HIDE DEF a
    <3>. QED  BY <1>1, <1>3, PointIs
  <2> HIDE DEF before, after, a, e, f
  <2>. QED  BY <1>1, <2>1, <2>2, <2>3, <2>4, <2>5 DEF before, after, a
<1>. QED  BY <1>2, <1>3

(* A step that leaves the ledger, or applies a mark to it.                    *)
Applies(mark) == row'.seq = Applied(mark).row.seq /\ epochs' = Applied(mark).epochs

LEMMA CutoffGrows ==
    ASSUME Inv, NEW mark \in ClientMark, Applies(mark), pending' = pending
    PROVE  Cutoff(pending) <= Cutoff(pending)' /\ row'.seq = Cutoff(mark) /\ row.seq <= row'.seq
<1>1. Cutoff(pending) = Point(row.seq, epochs, pending)
  BY DEF Cutoff, Point
<1>2. Cutoff(pending)' = Point(row'.seq, epochs', pending')
  BY DEF Cutoff, Point
<1>3. TypeOK /\ MarksAreCurrent /\ pending \in ClientMark
  BY DEF Inv, TypeOK
<1>4. Applied(mark).row.seq = Cutoff(mark)
  BY <1>3, AppliedIs
<1>5. Cutoff(pending) <= Cutoff(pending)'
  BY <1>1, <1>2, <1>3, PointGrows DEF Applies
<1>. QED  BY <1>3, <1>4, <1>5, CutoffIs DEF Applies

(* A mark whose counter the server knows lies at the session's sequence.      *)
LEMMA KnownMarkIsPassed ==
    ASSUME Inv, NEW mark \in ClientMark, mark # NoMark, epochs[mark.epoch].known,
           mark.ordinal <= epochs[mark.epoch].local
    PROVE  Cutoff(mark) = row.seq
<1>1. mark.epoch \in 1..Counters /\ mark.ordinal \in Nat
  BY MarkIs
<1>2. /\ epochs[mark.epoch].base \in Nat /\ epochs[mark.epoch].local \in Nat /\ row.seq \in Nat
      /\ epochs[mark.epoch].base + epochs[mark.epoch].local <= row.seq
  BY <1>1 DEF Inv, TypeOK
<1>3. Cutoff(mark) = IF row.seq <= epochs[mark.epoch].base + mark.ordinal
                     THEN epochs[mark.epoch].base + mark.ordinal ELSE row.seq
  BY CutoffIs DEF Inv
<1>. QED  BY <1>1, <1>2, <1>3

(* Retiring a confirmed mark leaves its point where it was.                   *)
LEMMA ClearedIs ==
    ASSUME Inv, ClearsWhatIsKnown, NEW r \in Request, request[r].pc \in {"recorded", "synced"}
    PROVE  /\ Cutoff(Cleared(request[r])) = Cutoff(pending)
           /\ Cleared(request[r]) \in {NoMark, pending}
<1> DEFINE q == request[r]
<1>1. pending \in ClientMark /\ q.mark \in ClientMark
  BY RequestIs DEF Inv, TypeOK, NoRequest
<1>2. CASE ~(q.mark # NoMark /\ pending.epoch = q.mark.epoch /\ pending.ordinal <= q.mark.ordinal)
  BY <1>2 DEF Cleared
<1>3. CASE q.mark # NoMark /\ pending.epoch = q.mark.epoch /\ pending.ordinal <= q.mark.ordinal
  <2>1. Cleared(q) = NoMark
    BY <1>3 DEF Cleared
  <2>2. epochs[q.mark.epoch].known /\ q.mark.ordinal <= epochs[q.mark.epoch].local
    BY <1>3 DEF ClearsWhatIsKnown
  <2>3. /\ q.mark.epoch \in 1..Counters /\ q.mark.ordinal \in Nat
        /\ epochs[q.mark.epoch].local \in Nat
    BY <1>1, <1>3, MarkIs DEF Inv, TypeOK
  <2>4. CASE pending = NoMark
    BY <2>1, <2>4
  <2>5. CASE pending # NoMark
    <3>1. pending.ordinal \in Nat
      BY <1>1, <2>5, MarkIs
    <3>2. epochs[pending.epoch].known /\ pending.ordinal <= epochs[pending.epoch].local
      BY <1>3, <2>2, <2>3, <3>1
    <3>3. Cutoff(pending) = row.seq
      BY <1>1, <2>5, <3>2, KnownMarkIsPassed
    <3>. QED  BY <2>1, <3>3 DEF Cutoff
  <2>. QED  BY <2>4, <2>5
<1>. QED  BY <1>2, <1>3

-----------------------------------------------------------------------------
(* What becomes of a request in a step other than its beginning: it keeps its *)
(* mark and what it looked at, and it is recorded or synced by an application *)
(* of its mark.                                                               *)
Goes(q, x) ==
    x # NoRequest =>
        /\ q # NoRequest /\ x.mark = q.mark /\ x.lines \subseteq q.lines
        /\ x.heard => q.heard
        /\ x.pc \in {"begun", "prepared", "checked"} =>
              /\ q.pc \in {"begun", "prepared", "checked"}
              /\ x.cutoff = q.cutoff /\ x.compacted = q.compacted
        /\ x.pc \in {"recorded", "synced"} => x.pc = q.pc \/ Applies(q.mark)

LEMMA DecidedGoes ==
    ASSUME Inv, NEW r \in Request, Open(r) \/ request[r].pc = "invalid",
           NEW pc \in {"recorded", "unconfirmed", "invalid", "refused", "synced"},
           pc \in {"recorded", "synced"} => Applies(request[r].mark),
           request' = Decided(r, pc)
    PROVE  \E x : request' = [request EXCEPT ![r] = x] /\ Goes(request[r], x)
<1>1. PICK x \in {NoRequest} \cup DecidedRequest :
              /\ Decided(r, pc) = [request EXCEPT ![r] = x]
              /\ x # NoRequest =>
                    /\ SoundRequest(x) /\ x.pc = pc
                    /\ x.heard = request[r].heard /\ x.mark = request[r].mark
                    /\ x.lines = request[r].lines /\ x.notices = request[r].notices
              /\ x = NoRequest <=> ~(request[r].heard \/ pc = "invalid")
  <2>1. TypeOK /\ RequestsSound
    BY DEF Inv
  <2>. QED  BY <2>1, DecidedIs, Zenon
<1>2. request[r] # NoRequest
  BY DEF Open, NoRequest
<1>. QED  BY <1>1, <1>2 DEF Goes

(* Recording a request applies its mark.                                      *)
LEMMA RecordApplies ==
    ASSUME Inv, NEW r \in Request, ConfirmWrite(r), Releasable(request[r])
    PROVE  Applies(request[r].mark)
<1> DEFINE q == request[r]
<1>1. epochs' = Applied(q.mark).epochs
  BY DEF ConfirmWrite
<1>2. Applied(q.mark).row \in [seq : Nat, spent : Nat, ordinary : Nat, started : BOOLEAN]
  <2>1. q.mark \in ClientMark /\ row \in [seq : Nat, spent : Nat, ordinary : Nat, started : BOOLEAN]
    BY RequestIs DEF ConfirmWrite, Inv, TypeOK, NoRequest
  <2>2. /\ row.seq = Cutoff(q.mark) => Applied(q.mark).row = row
        /\ row.seq # Cutoff(q.mark) =>
             Applied(q.mark).row = [seq |-> Cutoff(q.mark), spent |-> 0, ordinary |-> 0,
                                    started |-> FALSE]
        /\ Cutoff(q.mark) \in Nat
    BY <2>1, AppliedIs, CutoffIs DEF Inv
  <2>3. [seq |-> Cutoff(q.mark), spent |-> 0, ordinary |-> 0, started |-> FALSE]
           \in [seq : Nat, spent : Nat, ordinary : Nat, started : BOOLEAN]
    BY <2>2
  <2>. QED  BY <2>1, <2>2, <2>3, Zenon
<1>3. row'.seq = Applied(q.mark).row.seq
  <2>1. row' = [Applied(q.mark).row EXCEPT
                   !.spent = @ + (Cardinality(q.lines) + Cardinality(q.notices)),
                   !.ordinary = @ + Cardinality(q.lines), !.started = @ \/ q.deliver]
    BY DEF ConfirmWrite
  <2>. QED  BY <1>2, <2>1
<1>. QED  BY <1>1, <1>3 DEF Applies

LEMMA StepGoes ==
    ASSUME Inv, NEW r \in Request,
           \/ Prepare(r) \/ ConfirmRead(r) \/ ConfirmWrite(r) \/ ConfirmBusy(r)
           \/ SyncCompaction(r) \/ Answer(r) \/ GiveUp(r) \/ Dropped(r)
    PROVE  \E x : request' = [request EXCEPT ![r] = x] /\ Goes(request[r], x)
<1> DEFINE q == request[r]
<1>1. CASE Open(r) /\ \/ Prepare(r) /\ entry # q.entry
                      \/ (ConfirmRead(r) \/ ConfirmWrite(r)) /\ ~Releasable(q)
                      \/ ConfirmBusy(r)
  <2>1. \E pc \in {"unconfirmed", "invalid", "refused"} : request' = Decided(r, pc)
    BY <1>1 DEF Prepare, ConfirmRead, ConfirmWrite, ConfirmBusy, Refused
  <2>. QED  BY <1>1, <2>1, DecidedGoes
<1>2. CASE Prepare(r) /\ entry = q.entry
  <2>1. q \in Undecided /\ q # NoRequest
    BY <1>2, RequestIs DEF Prepare, Open, Inv, NoRequest
  <2> DEFINE kept == IF hidden THEN {} ELSE {l \in q.lines : l.brief \/ LineLive(l)}
  <2>2. PICK lines \in SUBSET kept, notices \in SUBSET Notices(q.mark) :
           request' = [request EXCEPT ![r].pc = "prepared", ![r].lines = lines,
                                      ![r].notices = notices, ![r].deliver = @ /\ ~hidden]
    BY <1>2 DEF Prepare, Fitting
  <2> DEFINE x == [q EXCEPT !.pc = "prepared", !.lines = lines, !.notices = notices,
                            !.deliver = @ /\ ~hidden]
  <2>3. request' = [request EXCEPT ![r] = x]
    BY <2>2 DEF Inv, TypeOK
  <2>4. lines \subseteq q.lines
    OBVIOUS
  <2>5. /\ x.pc = "prepared" /\ x.lines = lines /\ x.mark = q.mark /\ x.heard = q.heard
        /\ x.cutoff = q.cutoff /\ x.compacted = q.compacted
    BY <2>1 DEF Undecided
  <2>6. q.pc \in {"begun", "prepared", "checked"}
    BY <1>2 DEF Prepare
  <2> HIDE DEF x, kept
  <2>7. Goes(q, x)
    BY <2>1, <2>4, <2>5, <2>6 DEF Goes
  <2>. QED  BY <2>3, <2>7
<1>3. CASE ConfirmRead(r) /\ Releasable(q)
  <2>1. q \in Undecided /\ q # NoRequest
    BY <1>3, RequestIs DEF ConfirmRead, Open, Inv, NoRequest
  <2> DEFINE x == [q EXCEPT !.pc = "checked", !.stale = entry.paused \/ ~LinesOnly(q)]
  <2>3. request' = [request EXCEPT ![r] = x]
    BY <1>3 DEF Inv, TypeOK, ConfirmRead
  <2>5. /\ x.pc = "checked" /\ x.lines = q.lines /\ x.mark = q.mark /\ x.heard = q.heard
        /\ x.cutoff = q.cutoff /\ x.compacted = q.compacted
    BY <2>1 DEF Undecided
  <2>6. q.pc \in {"begun", "prepared", "checked"}
    BY <1>3 DEF ConfirmRead
  <2> HIDE DEF x
  <2>7. Goes(q, x)
    BY <2>1, <2>5, <2>6 DEF Goes
  <2>. QED  BY <2>3, <2>7
<1>4. CASE ConfirmWrite(r) /\ Releasable(q)
  <2>1. request' = Decided(r, "recorded") /\ Open(r)
    BY <1>4 DEF ConfirmWrite, Open
  <2>2. Applies(q.mark)
    BY <1>4, RecordApplies
  <2>. QED  BY <2>1, <2>2, DecidedGoes
<1>5. CASE SyncCompaction(r)
  <2>1. request' = Decided(r, "synced") /\ q.pc = "invalid" /\ Applies(q.mark)
    BY <1>5 DEF SyncCompaction, Applies
  <2>. QED  BY <2>1, DecidedGoes
<1>6. CASE request' = [request EXCEPT ![r] = NoRequest]
  BY <1>6 DEF Goes
<1>7. CASE GiveUp(r) /\ request' = [request EXCEPT ![r].heard = FALSE]
  <2>1. q \in Undecided \cup DecidedRequest /\ q # NoRequest
    BY <1>7, RequestIs DEF GiveUp, Inv, NoRequest
  <2> DEFINE x == [q EXCEPT !.heard = FALSE]
  <2>3. request' = [request EXCEPT ![r] = x]
    BY <1>7 DEF Inv, TypeOK
  <2>5. /\ x.pc = q.pc /\ x.lines = q.lines /\ x.mark = q.mark /\ x.heard = FALSE
        /\ q.pc \in {"begun", "prepared", "checked"} =>
              x.cutoff = q.cutoff /\ x.compacted = q.compacted
    BY <2>1 DEF Undecided, DecidedRequest
  <2> HIDE DEF x
  <2>7. Goes(q, x)
    BY <2>1, <2>5 DEF Goes
  <2>. QED  BY <2>3, <2>7
<1>8. Prepare(r) \/ ConfirmRead(r) \/ ConfirmWrite(r) \/ ConfirmBusy(r) => Open(r)
  BY DEF Prepare, ConfirmRead, ConfirmWrite, ConfirmBusy, Open
<1>9. Answer(r) \/ Dropped(r) => request' = [request EXCEPT ![r] = NoRequest]
  BY DEF Answer, Dropped
<1>10. GiveUp(r) => \/ request' = [request EXCEPT ![r] = NoRequest]
                    \/ request' = [request EXCEPT ![r].heard = FALSE]
  BY DEF GiveUp
<1>. QED  BY <1>1, <1>2, <1>3, <1>4, <1>5, <1>6, <1>7, <1>8, <1>9, <1>10

(* So it is with every request in such a step.                                *)
Onward == \A s \in Request : Goes(request[s], request'[s])

LEMMA StepOnward ==
    ASSUME Inv, NEW r \in Request,
           \/ Prepare(r) \/ ConfirmRead(r) \/ ConfirmWrite(r) \/ ConfirmBusy(r)
           \/ SyncCompaction(r) \/ Answer(r) \/ GiveUp(r) \/ Dropped(r)
    PROVE  Onward
<1>1. PICK x : request' = [request EXCEPT ![r] = x] /\ Goes(request[r], x)
  BY StepGoes
<1>2. \A s \in Request : request'[s] = IF s = r THEN x ELSE request[s]
  BY <1>1 DEF Inv, TypeOK
<1>3. \A s \in Request : Goes(request[s], request[s])
  BY DEF Goes
<1>. QED  BY <1>1, <1>2, <1>3 DEF Onward

LEMMA OutsideOnward == Change \/ Compact \/ CounterLost => Onward
  BY DEF Change, Compact, CounterLost, Onward, Goes

-----------------------------------------------------------------------------
(* Applying a mark of the client's leaves the session's sequence within its   *)
(* reach, and its reach no shorter.                                           *)
LEMMA HorizonGrows ==
    ASSUME Inv, ClientInStep, NEW mark \in ClientMark, OfItsEpoch(mark), Applies(mark),
           counter' = counter
    PROVE  /\ row'.seq <= Horizon' /\ Horizon <= Horizon' /\ Horizon \in Nat /\ Horizon' \in Nat
           /\ \A e \in 1..Counters : e > counter.epoch => ~epochs'[e].known
           /\ counter.ordinal = 0 => ~epochs'[counter.epoch].known
<1> DEFINE c == counter.epoch
<1> DEFINE n == counter.ordinal
<1> DEFINE e == epochs[c]
<1> DEFINE f == epochs'[c]
<1>1. c \in 1..Counters /\ n \in Nat /\ Counters \in Nat
  BY DeliveryAssumption DEF Inv, TypeOK
<1>2. /\ epochs \in Epochs /\ row.seq \in Nat /\ TypeOK /\ MarksAreCurrent
  BY DEF Inv, TypeOK, Epochs
<1>3. /\ Applied(mark).row.seq = Cutoff(mark) /\ Applied(mark).epochs \in Epochs
      /\ \A i \in 1..Counters :
            /\ i # mark.epoch => Applied(mark).epochs[i] = epochs[i]
            /\ epochs[i].known => /\ Applied(mark).epochs[i].known
                                  /\ Applied(mark).epochs[i].base = epochs[i].base
                                  /\ epochs[i].local <= Applied(mark).epochs[i].local
            /\ Applied(mark).epochs[i].known /\ ~epochs[i].known =>
                  /\ Applied(mark).epochs[i].base = row.seq
                  /\ Applied(mark).epochs[i].local = mark.ordinal
      /\ mark # NoMark => /\ Applied(mark).epochs[mark.epoch].known
                          /\ mark.ordinal <= Applied(mark).epochs[mark.epoch].local
  BY <1>2, AppliedIs, Zenon DEF Epochs
<1>4. /\ row'.seq = Cutoff(mark) /\ epochs' \in Epochs
      /\ \A i \in 1..Counters :
            /\ i # mark.epoch => epochs'[i] = epochs[i]
            /\ epochs[i].known => epochs'[i].known /\ epochs'[i].base = epochs[i].base
            /\ epochs'[i].known /\ ~epochs[i].known => epochs'[i].base = row.seq
      /\ mark # NoMark => epochs'[mark.epoch].known
  BY <1>3 DEF Applies
<1>5. /\ e.base \in Nat /\ e.known \in BOOLEAN /\ f.base \in Nat /\ f.known \in BOOLEAN
  BY <1>1, <1>2, <1>4 DEF Epochs
<1>6. /\ Horizon = (IF e.known THEN e.base ELSE row.seq) + n
      /\ Horizon' = (IF f.known THEN f.base ELSE row'.seq) + n
  BY DEF Horizon
<1>7. /\ Cutoff(mark) \in Nat /\ row.seq <= Cutoff(mark)
      /\ mark = NoMark => Cutoff(mark) = row.seq
      /\ mark # NoMark /\ epochs[mark.epoch].known =>
           Cutoff(mark) = IF row.seq <= epochs[mark.epoch].base + mark.ordinal
                          THEN epochs[mark.epoch].base + mark.ordinal ELSE row.seq
      /\ mark # NoMark /\ ~epochs[mark.epoch].known => Cutoff(mark) = row.seq + mark.ordinal
  BY <1>2, CutoffIs
<1>8. /\ row.seq <= Horizon
      /\ \A i \in 1..Counters : i > c => ~epochs[i].known
      /\ n = 0 => ~e.known
  BY DEF ClientInStep
<1>9. CASE mark = NoMark
  <2>1. \A i \in 1..Counters : epochs'[i] = epochs[i]
    BY <1>4, <1>9, MarkIs
  <2>2. f = e /\ row'.seq = row.seq
    BY <1>1, <1>4, <1>7, <1>9, <2>1
  <2> HIDE DEF f, e
  <2>3. /\ row'.seq <= Horizon' /\ Horizon <= Horizon' /\ Horizon \in Nat /\ Horizon' \in Nat
    BY <1>1, <1>2, <1>5, <1>6, <1>8, <2>2
  <2>4. n = 0 => ~epochs'[c].known
    BY <1>8, <2>2 DEF f
  <2>. QED  BY <1>8, <2>1, <2>3, <2>4
<1>10. CASE mark # NoMark /\ n > 0
  <2>1. mark.epoch = c /\ mark.ordinal <= n /\ mark.ordinal \in Nat
    BY <1>10, MarkIs DEF OfItsEpoch
  <2>2. /\ f.known /\ e.known => f.base = e.base
        /\ ~e.known => f.base = row.seq
        /\ f.known
    BY <1>1, <1>4, <1>10, <2>1
  <2>3. /\ e.known => row'.seq = IF row.seq <= e.base + mark.ordinal
                                 THEN e.base + mark.ordinal ELSE row.seq
        /\ ~e.known => row'.seq = row.seq + mark.ordinal
    BY <1>4, <1>7, <1>10, <2>1
  <2>4. \A i \in 1..Counters : i > c => ~epochs'[i].known
    BY <1>1, <1>4, <1>8, <2>1
  <2> HIDE DEF f, e
  <2>5. /\ row'.seq <= Horizon' /\ Horizon <= Horizon' /\ Horizon \in Nat /\ Horizon' \in Nat
    BY <1>1, <1>2, <1>5, <1>6, <1>8, <2>1, <2>2, <2>3
  <2>. QED  BY <1>10, <2>4, <2>5
<1>11. CASE mark # NoMark /\ n = 0
  <2>1. mark.epoch = c - 1
    BY <1>11 DEF OfItsEpoch
  <2>2. f = e
    BY <1>1, <1>4, <2>1
  <2>3. \A i \in 1..Counters : i > c => ~epochs'[i].known
    BY <1>1, <1>4, <1>8, <2>1
  <2>4. n = 0 => ~epochs'[c].known
    BY <1>8, <2>2
  <2> HIDE DEF f, e
  <2>5. /\ row'.seq <= Horizon' /\ Horizon <= Horizon' /\ Horizon \in Nat /\ Horizon' \in Nat
    BY <1>1, <1>2, <1>4, <1>5, <1>6, <1>7, <1>8, <1>11, <2>2
  <2>. QED  BY <2>3, <2>4, <2>5
<1>. QED  BY <1>1, <1>9, <1>10, <1>11

(* The mark of an answer that clears it stays known.                          *)
LEMMA ClearsStep ==
    ASSUME Inv, ClearsWhatIsKnown, Onward,
           \/ epochs' = epochs
           \/ \E mark \in ClientMark : epochs' = Applied(mark).epochs
    PROVE  ClearsWhatIsKnown'
<1> SUFFICES ASSUME NEW s \in Request, request'[s].pc \in {"recorded", "synced"},
                    request'[s].mark # NoMark
             PROVE  /\ epochs'[request'[s].mark.epoch].known
                    /\ request'[s].mark.ordinal <= epochs'[request'[s].mark.epoch].local
  BY DEF ClearsWhatIsKnown
<1> DEFINE q == request[s]
<1> DEFINE k == q.mark
<1>1. /\ q # NoRequest /\ request'[s].mark = k
      /\ request'[s].pc = q.pc \/ Applies(k)
  BY DEF Onward, Goes, NoRequest
<1>2. k \in ClientMark /\ k # NoMark /\ TypeOK /\ MarksAreCurrent
  BY <1>1, RequestIs DEF Inv
<1>3. k.epoch \in 1..Counters /\ k.ordinal \in Nat
  BY <1>2, MarkIs
<1>4. CASE Applies(k)
  BY <1>1, <1>2, <1>4, AppliedIs DEF Applies
<1>5. CASE request'[s].pc = q.pc
  <2>1. epochs[k.epoch].known /\ k.ordinal <= epochs[k.epoch].local
        /\ epochs[k.epoch].local \in Nat
    BY <1>2, <1>3, <1>5 DEF ClearsWhatIsKnown, TypeOK
  <2>2. CASE epochs' = epochs
    BY <1>1, <2>1, <2>2
  <2>3. CASE \E mark \in ClientMark : epochs' = Applied(mark).epochs
    <3>1. PICK mark \in ClientMark : epochs' = Applied(mark).epochs
      BY <2>3
    <3>2. /\ Applied(mark).epochs \in Epochs
          /\ \A i \in 1..Counters : epochs[i].known =>
                /\ Applied(mark).epochs[i].known
                /\ epochs[i].local <= Applied(mark).epochs[i].local
      BY <1>2, AppliedIs, Zenon DEF Epochs
    <3>3. epochs'[k.epoch].local \in Nat
      BY <1>3, <3>1, <3>2 DEF Epochs
    <3>. QED  BY <1>1, <1>3, <2>1, <3>1, <3>2, <3>3
  <2>. QED  BY <2>2, <2>3, <1>2 DEF Inv
<1>. QED  BY <1>1, <1>4, <1>5

(* A step that leaves the ledger applies no mark to it.                       *)
LEMMA LeavesApplies ==
    ASSUME row' = row, epochs' = epochs
    PROVE  /\ Applies(NoMark) /\ OfItsEpoch(NoMark) /\ NoMark \in ClientMark
           /\ Applied(NoMark).marks = marks
  BY DEF Applies, Applied, OfItsEpoch, ClientMark

(* The client and the server stay in step when a mark is applied.             *)
LEMMA AppliedInStep ==
    ASSUME Inv, InStepInv, Onward, counter' = counter, pending' = pending, compacted' = compacted,
           NEW mark \in ClientMark, OfItsEpoch(mark), Applies(mark)
    PROVE  ClientInStep' /\ CutoffsBehind' /\ ClearsWhatIsKnown'
<1>1. /\ row'.seq <= Horizon' /\ Horizon <= Horizon' /\ Horizon \in Nat /\ Horizon' \in Nat
      /\ \A e \in 1..Counters : e > counter.epoch => ~epochs'[e].known
      /\ counter.ordinal = 0 => ~epochs'[counter.epoch].known
  BY HorizonGrows DEF InStepInv
<1>2. Cutoff(pending) <= Cutoff(pending)' /\ row'.seq = Cutoff(mark) /\ row.seq <= row'.seq
  BY CutoffGrows
<1>3. ASSUME NEW s \in Request, request'[s] # NoRequest
      PROVE  OfItsEpoch(request[s].mark)'
  <2>1. request[s] # NoRequest /\ request'[s].mark = request[s].mark
    BY <1>3 DEF Onward, Goes
  <2>2. OfItsEpoch(request[s].mark)
    BY <2>1 DEF InStepInv, ClientInStep
  <2>. QED  BY <2>1, <2>2 DEF OfItsEpoch
<1>4. ClientInStep'
  <2>1. OfItsEpoch(pending)'
    BY DEF InStepInv, ClientInStep, OfItsEpoch
  <2>. QED  BY <1>1, <1>3, <2>1 DEF ClientInStep
<1>5. CutoffsBehind'
  <2> SUFFICES ASSUME NEW s \in Request, Open(s)'
               PROVE  LET q == request'[s]
                      IN  /\ q.mark = NoMark => q.cutoff <= row'.seq
                          /\ q.mark # NoMark /\ q.mark.epoch = counter'.epoch =>
                                q.cutoff <= Horizon'
                          /\ q.compacted <= compacted'
                          /\ q.compacted < compacted' => q.cutoff < Cutoff(pending)'
    BY DEF CutoffsBehind
  <2> DEFINE q == request[s]
  <2>1. Open(s) /\ request'[s].mark = q.mark /\ request'[s].cutoff = q.cutoff
        /\ request'[s].compacted = q.compacted
    BY DEF Open, Onward, Goes, NoRequest
  <2>2. /\ q.mark = NoMark => q.cutoff <= row.seq
        /\ q.mark # NoMark /\ q.mark.epoch = counter.epoch => q.cutoff <= Horizon
        /\ q.compacted <= compacted
        /\ q.compacted < compacted => q.cutoff < Cutoff(pending)
    BY <2>1 DEF InStepInv, CutoffsBehind
  <2>3. /\ q.cutoff \in Nat /\ row.seq \in Nat /\ row'.seq \in Nat /\ Cutoff(pending) \in Nat
        /\ Cutoff(pending)' \in Nat
    <3>1. q.cutoff \in Nat /\ pending \in ClientMark /\ TypeOK
      BY <2>1, RequestIs DEF Undecided, Inv, TypeOK
    <3>2. row.seq \in Nat /\ Cutoff(mark) \in Nat /\ Cutoff(pending) \in Nat
      BY <3>1, CutoffIs
    <3>3. Cutoff(pending)' \in Nat
      <4>1. Applied(mark).epochs \in Epochs
        BY <3>1, AppliedIs, Zenon DEF Epochs, Inv
      <4>2. Cutoff(pending)' = Point(row'.seq, epochs', pending)
        BY DEF Cutoff, Point
      <4>. QED  BY <1>2, <3>1, <3>2, <4>1, <4>2, PointIs DEF Applies
    <3>. QED  BY <1>2, <3>1, <3>2, <3>3
  <2> HIDE DEF q
  <2>. QED  BY <1>1, <1>2, <2>1, <2>2, <2>3
<1>6. ClearsWhatIsKnown'
  BY ClearsStep DEF InStepInv, Applies
<1>. QED  BY <1>4, <1>5, <1>6

(* A delivery that applying a mark leaves was counted, if any is counted      *)
(* after the step.                                                            *)
LEMMA OldCounted ==
    ASSUME Inv, Inv', pending' = pending, NEW mark \in ClientMark, Applies(mark),
           NEW m \in Counted(pending)'
    PROVE  /\ Cutoff(pending) <= Cutoff(mark)
           /\ \A o \in Applied(mark).marks :
                 o \in Counted(pending) /\ Applied(mark).marks = marks
<1>1. Cutoff(pending) <= Cutoff(pending)' /\ row'.seq = Cutoff(mark) /\ row.seq <= row'.seq
  BY CutoffGrows
<1>2. m \in marks' /\ m.seq >= Cutoff(pending)' /\ m.seq = row'.seq
  BY DEF Counted, Inv, MarksAreCurrent
<1>3. Cutoff(pending) \in Nat /\ Cutoff(mark) \in Nat /\ row.seq \in Nat
      /\ row.seq <= Cutoff(pending)
  BY CutoffIs DEF Inv, TypeOK
<1>4. Cutoff(pending)' \in Nat
  <2>1. Applied(mark).epochs \in Epochs
    BY AppliedIs, Zenon DEF Epochs, Inv
  <2>2. Cutoff(pending)' = Point(row'.seq, epochs', pending)
    BY DEF Cutoff, Point
  <2>3. pending \in ClientMark
    BY DEF Inv, TypeOK
  <2>. QED  BY <1>1, <1>3, <2>1, <2>2, <2>3, PointIs DEF Applies
<1>5. Cutoff(pending) <= Cutoff(mark)
  BY <1>1, <1>2, <1>3, <1>4
<1>6. ASSUME NEW o \in Applied(mark).marks
      PROVE  o \in Counted(pending) /\ Applied(mark).marks = marks
  <2>1. row.seq = Cutoff(mark) /\ o \in marks /\ Applied(mark).marks = marks
    <3>1. /\ row.seq = Cutoff(mark) => Applied(mark).marks = marks
          /\ row.seq # Cutoff(mark) => Applied(mark).marks = {}
      BY AppliedIs, Zenon DEF Inv
    <3>. QED  BY <1>6, <3>1
  <2>2. o.seq = row.seq
    BY <2>1 DEF Inv, MarksAreCurrent
  <2>. QED  BY <1>3, <1>5, <2>1, <2>2 DEF Counted
<1>. QED  BY <1>5, <1>6

(* What a step leaves counted was recorded for this context, when what it     *)
(* records was, or lies behind the client's mark.                             *)
LEMMA CountedStep ==
    ASSUME Inv, Inv', CountedHere, pending' = pending, compacted' = compacted,
           NEW mark \in ClientMark, Applies(mark),
           \A m \in marks' :
              \/ \E o \in Applied(mark).marks : m.compacted = o.compacted
              \/ m.compacted = compacted
              \/ Cutoff(mark) < Cutoff(pending)
    PROVE  CountedHere'
<1> SUFFICES ASSUME NEW m \in Counted(pending)'
             PROVE  m.compacted = compacted
  BY DEF CountedHere
<1>1. /\ Cutoff(pending) <= Cutoff(mark)
      /\ \A o \in Applied(mark).marks : o \in Counted(pending)
  BY OldCounted
<1>2. Cutoff(pending) \in Nat /\ Cutoff(mark) \in Nat /\ m \in marks'
  BY CutoffIs DEF Inv, TypeOK, Counted
<1>. QED  BY <1>1, <1>2 DEF CountedHere

-----------------------------------------------------------------------------
(* Steps that leave the ledger and what the client counts.                    *)
LEMMA QuietInStep ==
    ASSUME Inv, Inv', InStepInv, Onward, UNCHANGED <<ledger, client, compacted>>
    PROVE  InStepInv'
<1>1. /\ Applies(NoMark) /\ OfItsEpoch(NoMark) /\ NoMark \in ClientMark
      /\ Applied(NoMark).marks = marks
  BY LeavesApplies DEF ledger
<1>2. counter' = counter /\ pending' = pending /\ compacted' = compacted /\ marks' = marks
  BY DEF ledger, client
<1>3. ClientInStep' /\ CutoffsBehind' /\ ClearsWhatIsKnown'
  BY <1>1, <1>2, AppliedInStep
<1>4. CountedHere'
  BY <1>1, <1>2, CountedStep DEF InStepInv
<1>. QED  BY <1>3, <1>4 DEF InStepInv

LEMMA RecordInStep ==
    ASSUME Inv, Inv', InStepInv, NEW r \in Request, ConfirmWrite(r)
    PROVE  InStepInv'
<1> DEFINE q == request[r]
<1>1. Onward
  BY StepOnward
<1>2. Open(r) /\ q # NoRequest /\ q \in Undecided /\ q.mark \in ClientMark /\ OfItsEpoch(q.mark)
  <2>1. Open(r) /\ q # NoRequest
    BY DEF ConfirmWrite, Open, NoRequest
  <2>. QED  BY <2>1, RequestIs DEF Inv, InStepInv, ClientInStep
<1>3. CASE ~Releasable(q)
  <2>1. UNCHANGED <<ledger, client, compacted>>
    BY <1>3 DEF ConfirmWrite
  <2>. QED  BY <1>1, <2>1, QuietInStep
<1>4. CASE Releasable(q)
  <2>1. UNCHANGED <<client, compacted>> /\ marks' = Recording(q)
    BY <1>4 DEF ConfirmWrite, Recording
  <2>2. counter' = counter /\ pending' = pending /\ compacted' = compacted
    BY <2>1 DEF client
  <2>3. Applies(q.mark)
    BY <1>4, RecordApplies
  <2>4. ClientInStep' /\ CutoffsBehind' /\ ClearsWhatIsKnown'
    BY <1>1, <1>2, <2>2, <2>3, AppliedInStep
  <2>5. ASSUME NEW m \in marks'
        PROVE  \/ \E o \in Applied(q.mark).marks : m.compacted = o.compacted
               \/ m.compacted = compacted
               \/ Cutoff(q.mark) < Cutoff(pending)
    <3>1. \/ m.compacted = q.compacted
          \/ \E o \in Applied(q.mark).marks : m.compacted = o.compacted
      BY <1>2, <2>1, RecordingIs
    <3>2. CASE q.compacted < compacted
      <4>1. q.cutoff < Cutoff(pending)
        BY <1>2, <3>2 DEF InStepInv, CutoffsBehind
      <4>2. Cutoff(q.mark) <= q.cutoff
        BY <1>4 DEF Releasable
      <4>3. q.cutoff \in Nat /\ Cutoff(q.mark) \in Nat /\ Cutoff(pending) \in Nat
        BY <1>2, CutoffIs DEF Inv, TypeOK, Undecided
      <4>. QED  BY <4>1, <4>2, <4>3
    <3>3. q.compacted <= compacted /\ q.compacted \in Nat /\ compacted \in Nat
      BY <1>2 DEF InStepInv, CutoffsBehind, Undecided, Inv, TypeOK
    <3>. QED  BY <3>1, <3>2, <3>3
  <2>6. CountedHere'
    BY <1>2, <2>2, <2>3, <2>5, CountedStep DEF InStepInv
  <2>. QED  BY <2>4, <2>6 DEF InStepInv
<1>. QED  BY <1>3, <1>4

LEMMA SyncInStep ==
    ASSUME Inv, Inv', InStepInv, NEW r \in Request, SyncCompaction(r)
    PROVE  InStepInv'
<1> DEFINE q == request[r]
<1>1. Onward
  BY StepOnward
<1>2. q # NoRequest /\ q.mark \in ClientMark /\ OfItsEpoch(q.mark)
  <2>1. q # NoRequest
    BY DEF SyncCompaction, NoRequest
  <2>. QED  BY <2>1, RequestIs DEF Inv, InStepInv, ClientInStep
<1>3. /\ counter' = counter /\ pending' = pending /\ compacted' = compacted
      /\ marks' = Applied(q.mark).marks /\ Applies(q.mark)
  BY DEF SyncCompaction, client, host, Applies
<1>4. ClientInStep' /\ CutoffsBehind' /\ ClearsWhatIsKnown'
  BY <1>1, <1>2, <1>3, AppliedInStep
<1>5. CountedHere'
  BY <1>2, <1>3, CountedStep DEF InStepInv
<1>. QED  BY <1>4, <1>5 DEF InStepInv

(* An answer that retires the client's mark leaves its point.                 *)
LEMMA AnswerClears ==
    ASSUME Inv, ClearsWhatIsKnown, NEW r \in Request, Answer(r)
    PROVE  /\ pending' \in {NoMark, pending}
           /\ Cutoff(pending)' = Cutoff(pending)
           /\ Counted(pending)' = Counted(pending)
<1>1. row' = row /\ epochs' = epochs /\ marks' = marks
  BY DEF Answer, ledger
<1>2. /\ pending' \in {NoMark, pending}
      /\ Point(row.seq, epochs, pending') = Point(row.seq, epochs, pending)
  <2>1. CASE request[r].pc \in {"recorded", "synced"}
    <3>1. pending' = Cleared(request[r])
      BY <2>1 DEF Answer
    <3>2. Cutoff(Cleared(request[r])) = Cutoff(pending) /\ Cleared(request[r]) \in {NoMark, pending}
      BY <2>1, ClearedIs
    <3>. QED  BY <3>1, <3>2 DEF Cutoff, Point
  <2>2. CASE ~(request[r].pc \in {"recorded", "synced"})
    BY <2>2 DEF Answer
  <2>. QED  BY <2>1, <2>2
<1>3. Cutoff(pending)' = Cutoff(pending)
  BY <1>1, <1>2 DEF Cutoff, Point
<1>. QED  BY <1>1, <1>2, <1>3 DEF Counted

LEMMA AnswerInStep ==
    ASSUME Inv, Inv', InStepInv, NEW r \in Request, Answer(r)
    PROVE  InStepInv'
<1>1. Onward
  BY StepOnward
<1>2. /\ UNCHANGED <<ledger, counter, compacted>>
      /\ row' = row /\ epochs' = epochs /\ marks' = marks
  BY DEF Answer, ledger
<1>3. /\ pending' \in {NoMark, pending}
      /\ Cutoff(pending)' = Cutoff(pending) /\ Counted(pending)' = Counted(pending)
  BY AnswerClears DEF InStepInv
<1>4. Horizon' = Horizon
  BY <1>2 DEF Horizon
<1>5. ClientInStep'
  <2>1. OfItsEpoch(pending)'
    BY <1>2, <1>3 DEF OfItsEpoch, InStepInv, ClientInStep
  <2>2. ASSUME NEW s \in Request, request'[s] # NoRequest
        PROVE  OfItsEpoch(request[s].mark)'
    <3>1. request[s] # NoRequest /\ request'[s].mark = request[s].mark
      BY <1>1, <2>2 DEF Onward, Goes
    <3>. QED  BY <1>2, <3>1 DEF OfItsEpoch, InStepInv, ClientInStep
  <2>. QED  BY <1>2, <1>4, <2>1, <2>2 DEF InStepInv, ClientInStep
<1>6. CutoffsBehind'
  <2> SUFFICES ASSUME NEW s \in Request, Open(s)'
               PROVE  LET q == request'[s]
                      IN  /\ q.mark = NoMark => q.cutoff <= row'.seq
                          /\ q.mark # NoMark /\ q.mark.epoch = counter'.epoch =>
                                q.cutoff <= Horizon'
                          /\ q.compacted <= compacted'
                          /\ q.compacted < compacted' => q.cutoff < Cutoff(pending)'
    BY DEF CutoffsBehind
  <2>1. Open(s) /\ request'[s].mark = request[s].mark /\ request'[s].cutoff = request[s].cutoff
        /\ request'[s].compacted = request[s].compacted
    BY <1>1 DEF Open, Onward, Goes, NoRequest
  <2>. QED  BY <1>2, <1>3, <1>4, <2>1 DEF InStepInv, CutoffsBehind
<1>7. ClearsWhatIsKnown'
  BY <1>1, <1>2, ClearsStep DEF InStepInv
<1>8. CountedHere'
  BY <1>2, <1>3 DEF InStepInv, CountedHere
<1>. QED  BY <1>5, <1>6, <1>7, <1>8 DEF InStepInv

LEMMA BeginInStep ==
    ASSUME Inv, Inv', InStepInv, NEW r \in Request, Begin(r)
    PROVE  InStepInv'
<1>1. /\ UNCHANGED <<ledger, client, compacted>>
      /\ row' = row /\ epochs' = epochs /\ marks' = marks /\ counter' = counter
      /\ pending' = pending /\ compacted' = compacted
  BY DEF Begin, ledger, client, host
<1>2. PICK x : /\ request' = [request EXCEPT ![r] = x]
               /\ x.pc = "begun" /\ x.mark = pending /\ x.cutoff = Cutoff(pending)
               /\ x.compacted = compacted
  <2> DEFINE fresh == Cutoff(pending) > row.seq
  <2> DEFINE x(brief, question) ==
        [pc |-> "begun", heard |-> TRUE, mark |-> pending, cutoff |-> Cutoff(pending),
         compact |-> fresh, deliver |-> ~hidden /\ (fresh \/ ~Started(pending)),
         lines |-> Lines(brief, TRUE) \cup Lines(question, FALSE),
         notices |-> {}, entry |-> entry, stale |-> FALSE, compacted |-> compacted]
  <2>1. PICK brief, question : request' = [request EXCEPT ![r] = x(brief, question)]
    BY DEF Begin
  <2>2. /\ x(brief, question).pc = "begun" /\ x(brief, question).mark = pending
        /\ x(brief, question).cutoff = Cutoff(pending)
        /\ x(brief, question).compacted = compacted
    OBVIOUS
  <2> HIDE DEF x
  <2>. QED  BY <2>1, <2>2
<1>3. \A s \in Request : request'[s] = IF s = r THEN x ELSE request[s]
  BY <1>2 DEF Inv, TypeOK
<1>4. /\ Cutoff(pending)' = Cutoff(pending) /\ Counted(pending)' = Counted(pending)
      /\ Horizon' = Horizon
  BY <1>1 DEF Cutoff, Counted, Horizon
<1>5. OfItsEpoch(pending)
  BY DEF InStepInv, ClientInStep
<1>6. ClientInStep'
  <2>1. ASSUME NEW s \in Request, request'[s] # NoRequest
        PROVE  OfItsEpoch(request[s].mark)'
    <3>1. OfItsEpoch(request'[s].mark)
      BY <1>2, <1>3, <1>5, <2>1 DEF InStepInv, ClientInStep
    <3>. QED  BY <1>1, <3>1 DEF OfItsEpoch
  <2>2. OfItsEpoch(pending)'
    BY <1>1, <1>5 DEF OfItsEpoch
  <2>. QED  BY <1>1, <1>4, <2>1, <2>2 DEF InStepInv, ClientInStep
<1>7. pending # NoMark /\ pending.epoch = counter.epoch => Cutoff(pending) <= Horizon
  <2> SUFFICES ASSUME pending # NoMark, pending.epoch = counter.epoch
               PROVE  Cutoff(pending) <= Horizon
    OBVIOUS
  <2>1. /\ pending.epoch \in 1..Counters /\ pending.ordinal \in Nat /\ counter.ordinal \in Nat
        /\ epochs[pending.epoch].base \in Nat /\ row.seq \in Nat /\ pending \in ClientMark
    BY MarkIs DEF Inv, TypeOK
  <2>2. pending.ordinal <= counter.ordinal
    BY <1>5, <2>1 DEF OfItsEpoch
  <2>3. row.seq <= Horizon
    BY DEF InStepInv, ClientInStep
  <2>4. Horizon = (IF epochs[pending.epoch].known THEN epochs[pending.epoch].base ELSE row.seq)
                     + counter.ordinal
    BY DEF Horizon
  <2>5. /\ epochs[pending.epoch].known =>
              Cutoff(pending) = IF row.seq <= epochs[pending.epoch].base + pending.ordinal
                                THEN epochs[pending.epoch].base + pending.ordinal ELSE row.seq
        /\ ~epochs[pending.epoch].known => Cutoff(pending) = row.seq + pending.ordinal
    BY <2>1, CutoffIs DEF Inv
  <2>. QED  BY <2>1, <2>2, <2>3, <2>4, <2>5
<1>8. CutoffsBehind'
  <2> SUFFICES ASSUME NEW s \in Request, Open(s)'
               PROVE  LET q == request'[s]
                      IN  /\ q.mark = NoMark => q.cutoff <= row'.seq
                          /\ q.mark # NoMark /\ q.mark.epoch = counter'.epoch =>
                                q.cutoff <= Horizon'
                          /\ q.compacted <= compacted'
                          /\ q.compacted < compacted' => q.cutoff < Cutoff(pending)'
    BY DEF CutoffsBehind
  <2>1. CASE s = r
    <3>1. pending = NoMark => Cutoff(pending) = row.seq
      BY DEF Cutoff
    <3>2. compacted \in Nat /\ row.seq \in Nat
      BY DEF Inv, TypeOK
    <3>. QED  BY <1>1, <1>2, <1>3, <1>4, <1>7, <2>1, <3>1, <3>2
  <2>2. CASE s # r
    <3>1. Open(s) /\ request'[s] = request[s]
      BY <1>3, <2>2 DEF Open
    <3>. QED  BY <1>1, <1>4, <3>1 DEF InStepInv, CutoffsBehind
  <2>. QED  BY <2>1, <2>2
<1>9. ClearsWhatIsKnown'
  BY <1>1, <1>2, <1>3 DEF InStepInv, ClearsWhatIsKnown
<1>10. CountedHere'
  BY <1>1, <1>4 DEF InStepInv, CountedHere
<1>. QED  BY <1>6, <1>8, <1>9, <1>10 DEF InStepInv

(* A compaction puts the client's mark past everything there is.              *)
LEMMA CompactInStep ==
    ASSUME ~crossed', Inv, Inv', InStepInv, Compact
    PROVE  InStepInv' /\ Counted(pending)' = {}
<1>1. /\ row' = row /\ epochs' = epochs /\ marks' = marks /\ request' = request
      /\ compacted' = compacted + 1
      /\ counter' = [counter EXCEPT !.ordinal = @ + 1]
      /\ pending' = [epoch |-> counter.epoch, ordinal |-> counter.ordinal + 1]
  BY DEF Compact, ledger
<1>2. /\ counter.epoch \in 1..Counters /\ counter.ordinal \in Nat /\ compacted \in Nat
      /\ row.seq \in Nat /\ epochs \in Epochs /\ epochs[counter.epoch].base \in Nat
  BY DEF Inv, TypeOK, Epochs
<1>3. counter'.epoch = counter.epoch /\ counter'.ordinal = counter.ordinal + 1
  BY <1>1 DEF Inv, TypeOK
<1>4. /\ pending' \in ClientMark /\ pending' # NoMark
      /\ pending'.epoch = counter.epoch /\ pending'.ordinal = counter.ordinal + 1
  BY <1>1, <1>2 DEF Inv, TypeOK, NoMark
<1>5. Horizon = (IF epochs[counter.epoch].known THEN epochs[counter.epoch].base ELSE row.seq)
                   + counter.ordinal
  BY DEF Horizon
<1>6. Horizon' = Horizon + 1
  <2>1. Horizon' = (IF epochs[counter.epoch].known THEN epochs[counter.epoch].base ELSE row.seq)
                      + (counter.ordinal + 1)
    BY <1>1, <1>3 DEF Horizon
  <2>. QED  BY <1>2, <1>5, <2>1
<1>7. Horizon \in Nat /\ row.seq <= Horizon
  BY <1>2, <1>5 DEF InStepInv, ClientInStep
<1>8. Cutoff(pending)' = Horizon + 1
  <2>1. Cutoff(pending)' = Point(row.seq, epochs, pending')
    BY <1>1 DEF Cutoff, Point
  <2> DEFINE p == pending'
  <2>2. /\ epochs[p.epoch].known =>
              Point(row.seq, epochs, p) = IF row.seq <= epochs[p.epoch].base + p.ordinal
                                          THEN epochs[p.epoch].base + p.ordinal ELSE row.seq
        /\ ~epochs[p.epoch].known => Point(row.seq, epochs, p) = row.seq + p.ordinal
    BY <1>2, <1>4, PointIs
  <2>. QED  BY <1>2, <1>4, <1>5, <1>7, <2>1, <2>2
<1>9. \A s \in Request : request[s] # NoRequest =>
         \/ request[s].mark = NoMark
         \/ /\ request[s].mark.epoch = counter.epoch
            /\ request[s].mark.ordinal <= counter.ordinal
            /\ request[s].mark.ordinal \in Nat
  <2> SUFFICES ASSUME NEW s \in Request, request[s] # NoRequest, request[s].mark # NoMark
               PROVE  /\ request[s].mark.epoch = counter.epoch
                      /\ request[s].mark.ordinal <= counter.ordinal
                      /\ request[s].mark.ordinal \in Nat
    OBVIOUS
  <2> DEFINE k == request[s].mark
  <2>1. request[s].pc # "idle" /\ k \in ClientMark
    BY RequestIs DEF Inv
  <2>2. k.epoch \in 1..Counters /\ k.ordinal \in Nat
    BY <2>1, MarkIs
  <2>3. k.epoch \in {0, counter.epoch}
    BY <2>1 DEF Compact
  <2>4. OfItsEpoch(k)
    BY DEF InStepInv, ClientInStep
  <2>5. k.epoch = counter.epoch
    BY <2>2, <2>3
  <2>6. counter.ordinal > 0
    BY <1>2, <2>4, <2>5 DEF OfItsEpoch
  <2>. QED  BY <2>2, <2>4, <2>5, <2>6 DEF OfItsEpoch
<1>10. ClientInStep'
  <2>1. OfItsEpoch(pending)'
    BY <1>2, <1>3, <1>4 DEF OfItsEpoch
  <2>2. ASSUME NEW s \in Request, request'[s] # NoRequest
        PROVE  OfItsEpoch(request[s].mark)'
    BY <1>1, <1>2, <1>3, <1>9, <2>2 DEF OfItsEpoch
  <2>3. row'.seq <= Horizon'
    BY <1>1, <1>2, <1>6, <1>7
  <2>4. \A e \in 1..Counters : e > counter'.epoch => ~epochs'[e].known
    BY <1>1, <1>3 DEF InStepInv, ClientInStep
  <2>5. counter'.ordinal # 0
    BY <1>2, <1>3
  <2>. QED  BY <2>1, <2>2, <2>3, <2>4, <2>5 DEF ClientInStep
<1>11. CutoffsBehind'
  <2> SUFFICES ASSUME NEW s \in Request, Open(s)'
               PROVE  LET q == request[s]
                      IN  /\ q.mark = NoMark => q.cutoff <= row.seq
                          /\ q.mark # NoMark /\ q.mark.epoch = counter'.epoch =>
                                q.cutoff <= Horizon'
                          /\ q.compacted <= compacted'
                          /\ q.compacted < compacted' => q.cutoff < Cutoff(pending)'
    BY <1>1 DEF CutoffsBehind
  <2> DEFINE q == request[s]
  <2>1. Open(s) /\ q # NoRequest /\ q \in Undecided
    BY <1>1, RequestIs DEF Open, Inv, NoRequest
  <2>2. /\ q.mark = NoMark => q.cutoff <= row.seq
        /\ q.mark # NoMark /\ q.mark.epoch = counter.epoch => q.cutoff <= Horizon
        /\ q.compacted <= compacted
    BY <2>1 DEF InStepInv, CutoffsBehind
  <2>3. q.cutoff \in Nat /\ q.compacted \in Nat
    BY <2>1 DEF Undecided
  <2>4. q.cutoff <= Horizon
    BY <1>2, <1>7, <1>9, <2>1, <2>2, <2>3
  <2> HIDE DEF q
  <2>. QED  BY <1>1, <1>2, <1>3, <1>6, <1>7, <1>8, <2>2, <2>3, <2>4 DEF q
<1>12. ClearsWhatIsKnown'
  BY <1>1 DEF InStepInv, ClearsWhatIsKnown
<1>13. Counted(pending)' = {}
  <2>1. \A m \in marks : m.seq = row.seq
    BY DEF Inv, MarksAreCurrent
  <2>. QED  BY <1>1, <1>2, <1>7, <1>8, <2>1 DEF Counted
<1>14. CountedHere'
  BY <1>13 DEF CountedHere
<1>. QED  BY <1>10, <1>11, <1>12, <1>13, <1>14 DEF InStepInv

LEMMA CounterLostInStep ==
    ASSUME Inv, Inv', InStepInv, CounterLost
    PROVE  InStepInv'
<1>1. /\ row' = row /\ epochs' = epochs /\ marks' = marks /\ request' = request
      /\ compacted' = compacted /\ pending' = pending
      /\ counter' = [epoch |-> counter.epoch + 1, ordinal |-> 0]
      /\ counter.epoch < Counters /\ counter.ordinal > 0
  BY DEF CounterLost, ledger, host
<1>2. /\ counter.epoch \in 1..Counters /\ counter.ordinal \in Nat /\ row.seq \in Nat
      /\ counter.epoch + 1 \in 1..Counters /\ Counters \in Nat
  BY <1>1, DeliveryAssumption DEF Inv, TypeOK
<1>3. counter'.epoch = counter.epoch + 1 /\ counter'.ordinal = 0
  BY <1>1
<1>4. ~epochs[counter.epoch + 1].known
  BY <1>2 DEF InStepInv, ClientInStep
<1>5. Horizon' = row.seq
  <2>1. Horizon' = (IF epochs[counter.epoch + 1].known THEN epochs[counter.epoch + 1].base ELSE row.seq)
                      + 0
    BY <1>1, <1>3 DEF Horizon
  <2>. QED  BY <1>2, <1>4, <2>1
<1>6. ASSUME NEW k \in ClientMark, OfItsEpoch(k)
      PROVE  /\ k # NoMark => k.epoch = counter.epoch
             /\ OfItsEpoch(k)'
  BY <1>1, <1>2, <1>3, <1>6 DEF OfItsEpoch
<1>7. ClientInStep'
  <2>1. OfItsEpoch(pending)'
    <3>1. pending \in ClientMark /\ OfItsEpoch(pending)
      BY DEF Inv, TypeOK, InStepInv, ClientInStep
    <3>. QED  BY <1>1, <1>2, <1>3, <3>1 DEF OfItsEpoch
  <2>2. ASSUME NEW s \in Request, request'[s] # NoRequest
        PROVE  OfItsEpoch(request[s].mark)'
    <3>1. OfItsEpoch(request[s].mark)
      BY <1>1, <2>2 DEF InStepInv, ClientInStep
    <3>. QED  BY <1>1, <1>2, <1>3, <3>1 DEF OfItsEpoch
  <2>3. row'.seq <= Horizon'
    BY <1>1, <1>2, <1>5
  <2>4. \A e \in 1..Counters : e > counter'.epoch => ~epochs'[e].known
    BY <1>1, <1>2, <1>3 DEF InStepInv, ClientInStep
  <2>5. ~epochs'[counter'.epoch].known
    BY <1>1, <1>3, <1>4
  <2>. QED  BY <2>1, <2>2, <2>3, <2>4, <2>5 DEF ClientInStep
<1>8. Cutoff(pending)' = Cutoff(pending) /\ Counted(pending)' = Counted(pending)
  BY <1>1 DEF Cutoff, Counted
<1>9. CutoffsBehind'
  <2> SUFFICES ASSUME NEW s \in Request, Open(s)'
               PROVE  LET q == request[s]
                      IN  /\ q.mark = NoMark => q.cutoff <= row.seq
                          /\ ~(q.mark # NoMark /\ q.mark.epoch = counter'.epoch)
                          /\ q.compacted <= compacted
                          /\ q.compacted < compacted => q.cutoff < Cutoff(pending)
    BY <1>1, <1>8 DEF CutoffsBehind
  <2>1. Open(s) /\ request[s] # NoRequest
    BY <1>1 DEF Open, NoRequest
  <2>2. request[s].mark \in ClientMark /\ OfItsEpoch(request[s].mark)
    BY <2>1, RequestIs DEF Inv, InStepInv, ClientInStep
  <2>3. ~(request[s].mark # NoMark /\ request[s].mark.epoch = counter'.epoch)
    BY <1>1, <1>2, <1>3, <2>2 DEF OfItsEpoch
  <2>. QED  BY <2>1, <2>3 DEF InStepInv, CutoffsBehind
<1>10. ClearsWhatIsKnown'
  BY <1>1 DEF InStepInv, ClearsWhatIsKnown
<1>11. CountedHere'
  BY <1>1, <1>8 DEF InStepInv, CountedHere
<1>. QED  BY <1>7, <1>9, <1>10, <1>11 DEF InStepInv

-----------------------------------------------------------------------------
LEMMA InitInStep == Init => InStepInv
<1> SUFFICES ASSUME Init  PROVE InStepInv
  OBVIOUS
<1>1. /\ marks = {} /\ pending = NoMark /\ counter = [epoch |-> 1, ordinal |-> 0]
      /\ row.seq = 0 /\ request = [r \in Request |-> NoRequest]
      /\ epochs = [e \in 1..Counters |-> Unregistered]
  BY DEF Init
<1>2. \A e \in 1..Counters : ~epochs[e].known
  BY <1>1 DEF Unregistered
<1>3. 1 \in 1..Counters
  BY DeliveryAssumption
<1>4. Horizon = 0
  BY <1>1, <1>2, <1>3 DEF Horizon
<1>5. ClientInStep
  BY <1>1, <1>2, <1>3, <1>4 DEF ClientInStep, OfItsEpoch
<1>6. CutoffsBehind /\ ClearsWhatIsKnown /\ CountedHere
  BY <1>1 DEF CutoffsBehind, ClearsWhatIsKnown, CountedHere, Counted, Open, NoRequest
<1>. QED  BY <1>5, <1>6 DEF InStepInv

(* A request that was carried across a loss and a compaction stays so.        *)
LEMMA CrossedStays == [Next]_vars /\ ~crossed' => ~crossed
<1>1. ASSUME UNCHANGED vars \/ Change \/ CounterLost, ~crossed'  PROVE ~crossed
  BY <1>1 DEF vars, Change, CounterLost, host
<1>2. ASSUME Compact, ~crossed'  PROVE ~crossed
  BY <1>2 DEF Compact
<1>3. ASSUME NEW r \in Request, ~crossed',
             \/ Begin(r) \/ Prepare(r) \/ ConfirmRead(r) \/ ConfirmWrite(r) \/ ConfirmBusy(r)
             \/ SyncCompaction(r) \/ Answer(r) \/ GiveUp(r) \/ Dropped(r)
      PROVE  ~crossed
  BY <1>3 DEF Begin, Prepare, ConfirmRead, ConfirmWrite, ConfirmBusy, SyncCompaction, Answer,
              GiveUp, Dropped, host
<1>. QED  BY <1>1, <1>2, <1>3 DEF Next

LEMMA StepInStep ==
    Inv /\ Inv' /\ (~crossed => InStepInv) /\ [Next]_vars => (~crossed' => InStepInv')
<1> SUFFICES ASSUME Inv, Inv', ~crossed => InStepInv, [Next]_vars, ~crossed'  PROVE InStepInv'
  OBVIOUS
<1>0. InStepInv
  BY CrossedStays
<1>1. CASE UNCHANGED vars
  <2>1. UNCHANGED <<ledger, client, compacted>>
    BY <1>1 DEF vars, ledger, client
  <2>2. Onward
    BY <1>1 DEF vars, Onward, Goes
  <2>. QED  BY <1>0, <2>1, <2>2, QuietInStep
<1>2. CASE Change
  <2>1. UNCHANGED <<ledger, client, compacted>>
    BY <1>2 DEF Change, host
  <2>. QED  BY <1>0, <1>2, <2>1, OutsideOnward, QuietInStep
<1>3. CASE Compact
  BY <1>0, <1>3, CompactInStep
<1>4. CASE CounterLost
  BY <1>0, <1>4, CounterLostInStep
<1>5. ASSUME NEW r \in Request,
             Prepare(r) \/ ConfirmRead(r) \/ ConfirmBusy(r) \/ GiveUp(r) \/ Dropped(r)
      PROVE  InStepInv'
  <2>1. UNCHANGED <<ledger, client, compacted>>
    BY <1>5 DEF Prepare, ConfirmRead, ConfirmBusy, GiveUp, Dropped, host
  <2>2. Onward
    BY <1>5, StepOnward
  <2>. QED  BY <1>0, <2>1, <2>2, QuietInStep
<1>6. ASSUME NEW r \in Request,
             Begin(r) \/ ConfirmWrite(r) \/ SyncCompaction(r) \/ Answer(r)
      PROVE  InStepInv'
  BY <1>0, <1>6, BeginInStep, RecordInStep, SyncInStep, AnswerInStep
<1>. QED  BY <1>1, <1>2, <1>3, <1>4, <1>5, <1>6 DEF Next

(* Unless a request of a lost counter was still under way at the compaction   *)
(* after the loss, the client's counters, the marks under way and the         *)
(* server's sequence stay in step.                                            *)
THEOREM InStepHolds == Spec => [](~crossed => InStepInv)
<1>1. Init => (~crossed => InStepInv)
  BY InitInStep
<1>2. Inv /\ Inv' /\ (~crossed => InStepInv) /\ [Next]_vars => (~crossed => InStepInv)'
  BY StepInStep
<1>. QED  BY <1>1, <1>2, InvHolds, PTL DEF Spec

(* What is counted as delivered was recorded for this context: a compaction   *)
(* forgets what came before it, although the mark is resent, the counter is   *)
(* lost and an earlier prompt is recorded late.  The one case it leaves out,  *)
(* a request of a lost counter still under way at the compaction after the    *)
(* loss, is an antecedent of the property, not an assumption on the runs.     *)
THEOREM CountedForThisContextHolds == Spec => []CountedForThisContext
<1>1. (~crossed => InStepInv) => CountedForThisContext
  BY DEF InStepInv, CountedHere, CountedForThisContext
<1>. QED  BY <1>1, InStepHolds, PTL

-----------------------------------------------------------------------------
(* Statements are only appended: what a delivery told stays what it said.     *)
SaidKept == \A f \in Fact : \A n \in Nat \ {0} : n <= Revision(f) => said'[f][n] = said[f][n]

(* What is counted of a fact after a step was counted before it.              *)
RowsKept(f) ==
    \A m \in Counted(pending)' : m.fact = f =>
        \E o \in Counted(pending) :
            /\ Same(o, m) /\ o.ack = m.ack
            /\ m \in DeliveryRows(pending)' => o \in DeliveryRows(pending)

(* A recorded answer is told as it was recorded, or its facts are unsettled.  *)
RecordedKept ==
    /\ \A s \in Request : request'[s].pc = "recorded" => request'[s] = request[s]
    /\ \A s \in Request : request[s].pc = "recorded" =>
          request'[s] = request[s] \/ Named(request[s]) \subseteq unsettled'

(* Rows that are told again or not at all tell what they told.                *)
LEMMA LastToldKept ==
    ASSUME TypeOK, SaidKept, NEW o \in marks, NEW m, Same(o, m), o.ack = m.ack
    PROVE  LastTold(m)' = LastTold(o)
<1>1. o.fact \in Fact /\ o.rev \in Nat \ {0} /\ o.rev <= Revision(o.fact)
  BY DEF TypeOK, Delivery
<1>2. said'[m.fact][m.rev] = said[o.fact][o.rev]
  BY <1>1 DEF SaidKept, Same
<1>. QED  BY <1>2 DEF LastTold

(* What an answer tells does not change while it is on its way.               *)
Tell(statements, known, q) ==
    [f \in Fact |->
        IF \E l \in q.lines : l.fact = f
        THEN LET l == CHOOSE l \in q.lines : l.fact = f IN statements[f][l.rev]
        ELSE IF \E n \in q.notices : n.fact = f
        THEN (CHOOSE n \in q.notices : n.fact = f).value
        ELSE known[f]]

LEMMA ToldKept ==
    ASSUME TypeOK, SaidKept, context' = context, NEW f \in Fact, NEW s \in Request,
           request[s] # NoRequest, request'[s] = request[s],
           \A l \in request[s].lines : l.rev <= Revision(l.fact)
    PROVE  Told(request[s])'[f] = Told(request[s])[f]
<1> DEFINE q == request[s]
<1>1. Told(request[s]) = Tell(said, context, q) /\ Told(request[s])' = Tell(said', context, q)
  BY DEF Told, Tell
<1>2. Tell(said, context, q)[f] = Tell(said', context, q)[f]
  <2>1. CASE \E l \in q.lines : l.fact = f
    <3> DEFINE c == CHOOSE l \in q.lines : l.fact = f
    <3>1. c \in q.lines /\ c.fact = f
      BY <2>1, Zenon
    <3>2. Tell(said, context, q)[f] = said[f][c.rev] /\ Tell(said', context, q)[f] = said'[f][c.rev]
      BY <2>1 DEF Tell
    <3>3. c.rev \in Nat \ {0} /\ c.rev <= Revision(f)
      BY <3>1, RequestIs DEF Line
    <3> HIDE DEF c
    <3>. QED  BY <3>2, <3>3 DEF SaidKept
  <2>2. CASE ~\E l \in q.lines : l.fact = f
    BY <2>2 DEF Tell
  <2>. QED  BY <2>1, <2>2
<1>. QED  BY <1>1, <1>2

-----------------------------------------------------------------------------
(* The context knows what it knew of a fact whose rows a step keeps.          *)
LEMMA ContextKeeps ==
    ASSUME Inv, ContextKnown, SaidKept, context' = context, NEW f \in Fact, RowsKept(f),
           Settled(f)' => Settled(f), Settled(f)',
           NEW m \in DeliveryRows(pending)', m.fact = f
    PROVE  context'[f] = LastTold(m)'
<1>1. m \in Counted(pending)'
  BY DEF DeliveryRows
<1>2. PICK o \in Counted(pending) : /\ Same(o, m) /\ o.ack = m.ack
                                    /\ o \in DeliveryRows(pending)
  BY <1>1 DEF RowsKept
<1>3. o \in marks /\ o.fact = f
  BY <1>2 DEF Counted, Same
<1>4. LastTold(m)' = LastTold(o)
  BY <1>2, <1>3, LastToldKept DEF Inv
<1>5. context[f] = LastTold(o)
  BY <1>2, <1>3 DEF ContextKnown
<1>. QED  BY <1>4, <1>5

(* A recorded answer tells what the rows say of a fact that a step keeps.     *)
LEMMA AnswerKeeps ==
    ASSUME Inv, AnswerWillTell, SaidKept, context' = context, NEW f \in Fact, RowsKept(f),
           f \notin unsettled, NEW s \in Request, request[s].pc = "recorded",
           request'[s] = request[s], NEW m \in DeliveryRows(pending)', m.fact = f
    PROVE  Told(request[s])'[f] = LastTold(m)'
<1>1. m \in Counted(pending)'
  BY DEF DeliveryRows
<1>2. PICK o \in Counted(pending) : /\ Same(o, m) /\ o.ack = m.ack
                                    /\ o \in DeliveryRows(pending)
  BY <1>1 DEF RowsKept
<1>3. o \in marks /\ o.fact = f
  BY <1>2 DEF Counted, Same
<1>4. LastTold(m)' = LastTold(o)
  BY <1>2, <1>3, LastToldKept DEF Inv
<1>5. Told(request[s])[f] = LastTold(o)
  BY <1>2, <1>3 DEF AnswerWillTell
<1>6. request[s] # NoRequest /\ \A l \in request[s].lines : l.rev <= Revision(l.fact)
  <2>1. request[s] # NoRequest
    BY DEF NoRequest
  <2>. QED  BY <2>1 DEF Inv, RequestsSound, SoundRequest
<1>7. Told(request[s])'[f] = Told(request[s])[f]
  BY <1>6, ToldKept DEF Inv
<1>. QED  BY <1>4, <1>5, <1>7

(* A step that keeps the rows of every fact it does not unsettle keeps what   *)
(* is known of what was told.                                                 *)
LEMMA KeptTold ==
    ASSUME Inv, Inv', ToldInv, Onward, RecordedKept, SaidKept,
           pending' = pending, context' = context, unsettled \subseteq unsettled',
           \A f \in Fact : f \in unsettled' \/ RowsKept(f)
    PROVE  ToldInv'
<1>1. \A s \in Request : request'[s] # NoRequest =>
         /\ request[s] # NoRequest /\ request'[s].mark = request[s].mark
         /\ request'[s].lines \subseteq request[s].lines
         /\ request'[s].heard => request[s].heard
  BY DEF Onward, Goes
<1>2. \A s \in Request : Open(s)' => Open(s) /\ request'[s] # NoRequest
  BY DEF Open, Onward, Goes, NoRequest
<1>3. OneHeard'
  <2>1. ASSUME NEW r \in Request, NEW s \in Request,
               request'[r] # NoRequest, request'[r].heard, request'[s] # NoRequest, request'[s].heard
        PROVE  r = s
    BY <1>1, <2>1 DEF ToldInv, OneHeard
  <2>2. ASSUME NEW r \in Request, request'[r] # NoRequest, request'[r].heard
        PROVE  request'[r].mark = pending'
    BY <1>1, <2>2 DEF ToldInv, OneHeard
  <2>3. ASSUME NEW r \in Request, request'[r].pc = "recorded"
        PROVE  request'[r].heard
    BY <2>3 DEF ToldInv, OneHeard, RecordedKept
  <2>. QED  BY <2>1, <2>2, <2>3 DEF OneHeard
<1>4. LinesAreNews'
  <2> SUFFICES ASSUME NEW s \in Request, Open(s)', request'[s].heard,
                      NEW l \in request'[s].lines, NEW m \in Counted(pending)',
                      l.fact = m.fact, l.fact \notin unsettled'
               PROVE  m.rev < l.rev
    BY DEF LinesAreNews
  <2>1. Open(s) /\ request[s].heard /\ l \in request[s].lines /\ request[s] # NoRequest
    BY <1>1, <1>2
  <2>2. l.fact \in Fact
    BY <2>1, RequestIs DEF Inv, Line
  <2>3. RowsKept(l.fact) /\ l.fact \notin unsettled
    BY <2>2
  <2>4. PICK o \in Counted(pending) : Same(o, m)
    BY <2>3 DEF RowsKept
  <2>5. o.rev < l.rev
    BY <2>1, <2>3, <2>4 DEF ToldInv, LinesAreNews, Same
  <2>. QED  BY <2>4, <2>5 DEF Same
<1>5. OneLineEach'
  <2> SUFFICES ASSUME NEW s \in Request, Open(s)', NEW l \in request'[s].lines,
                      NEW k \in request'[s].lines, l.fact = k.fact
               PROVE  l.rev = k.rev
    BY DEF OneLineEach
  <2>. QED  BY <1>1, <1>2 DEF ToldInv, OneLineEach
<1>6. \A m \in DeliveryRows(pending)' : m.fact \in Fact
  BY DEF DeliveryRows, Counted, Inv, TypeOK, Delivery
<1>7. ContextKnown'
  <2> SUFFICES ASSUME NEW m \in DeliveryRows(pending)', Settled(m.fact)'
               PROVE  context'[m.fact] = LastTold(m)'
    BY DEF ContextKnown
  <2> DEFINE f == m.fact
  <2>1. f \in Fact /\ f \notin unsettled' /\ ~UnderWay(f)'
    BY <1>6 DEF Settled
  <2>2. ~UnderWay(f)
    <3> SUFFICES ASSUME NEW s \in Request, request[s].pc = "recorded", f \in Named(request[s])
                 PROVE  FALSE
      BY DEF UnderWay
    <3>1. request'[s] = request[s]
      BY <2>1 DEF RecordedKept
    <3>2. UnderWay(f)'
      BY <3>1 DEF UnderWay, Named
    <3>. QED  BY <2>1, <3>2
  <2>3. Settled(f) /\ RowsKept(f)
    BY <2>1, <2>2 DEF Settled
  <2>. QED  BY <2>1, <2>3, ContextKeeps DEF ToldInv
<1>8. AnswerWillTell'
  <2> SUFFICES ASSUME NEW s \in Request, request'[s].pc = "recorded",
                      NEW m \in DeliveryRows(pending)', m.fact \notin unsettled'
               PROVE  Told(request[s])'[m.fact] = LastTold(m)'
    BY DEF AnswerWillTell
  <2>1. request'[s] = request[s] /\ request[s].pc = "recorded"
    BY DEF RecordedKept
  <2>2. m.fact \in Fact /\ m.fact \notin unsettled /\ RowsKept(m.fact)
    BY <1>6
  <2>. QED  BY <2>1, <2>2, AnswerKeeps DEF ToldInv
<1>. QED  BY <1>3, <1>4, <1>5, <1>7, <1>8 DEF ToldInv

(* Rows stay when the ledger does.                                            *)
LEMMA QuietRows ==
    ASSUME UNCHANGED <<ledger, pending>>
    PROVE  \A f \in Fact : RowsKept(f)
<1>1. /\ Counted(pending)' = Counted(pending) /\ DeliveryRows(pending)' = DeliveryRows(pending)
  BY DEF ledger, Counted, Cutoff, DeliveryRows
<1>. QED  BY <1>1 DEF RowsKept, Same

(* Rows that applying a mark leaves are kept.                                 *)
LEMMA AppliedRows ==
    ASSUME Inv, Inv', pending' = pending, NEW mark \in ClientMark, Applies(mark), NEW f \in Fact,
           \A o \in Applied(mark).marks : \E m \in marks' : Same(o, m),
           \A m \in marks' : m.fact = f =>
              \E o \in Applied(mark).marks : Same(o, m) /\ o.ack = m.ack
    PROVE  RowsKept(f)
<1> SUFFICES ASSUME NEW m \in Counted(pending)', m.fact = f
             PROVE  \E o \in Counted(pending) :
                       /\ Same(o, m) /\ o.ack = m.ack
                       /\ m \in DeliveryRows(pending)' => o \in DeliveryRows(pending)
  BY DEF RowsKept
<1>1. m \in marks'
  BY DEF Counted
<1>2. PICK o \in Applied(mark).marks : Same(o, m) /\ o.ack = m.ack
  BY <1>1
<1>3. o \in Counted(pending) /\ Applied(mark).marks = marks
  BY OldCounted
<1>4. m \in DeliveryRows(pending)' => o \in DeliveryRows(pending)
  <2> SUFFICES ASSUME m \in DeliveryRows(pending)', NEW n \in marks, n.fact = o.fact
               PROVE  n.rev <= o.rev
    BY <1>3 DEF DeliveryRows
  <2>1. PICK k \in marks' : Same(n, k)
    BY <1>3
  <2>2. k.rev <= m.rev
    BY <1>2, <2>1 DEF DeliveryRows, Same
  <2>. QED  BY <1>2, <2>1, <2>2 DEF Same
<1>. QED  BY <1>2, <1>3, <1>4

(* No other step records a request, and giving a recorded one up unsettles    *)
(* what it names.                                                             *)
LEMMA RecordedStays ==
    ASSUME Inv, OneHeard, NEW r \in Request,
           \/ Prepare(r) \/ ConfirmRead(r) \/ ConfirmBusy(r) \/ SyncCompaction(r)
           \/ GiveUp(r) \/ Dropped(r)
           \/ ConfirmWrite(r) /\ ~Releasable(request[r])
    PROVE  RecordedKept
<1> DEFINE q == request[r]
<1>1. ASSUME NEW x, request' = [request EXCEPT ![r] = x], x.pc # "recorded",
             q.pc = "recorded" => Named(q) \subseteq unsettled'
      PROVE  RecordedKept
  <2>1. \A s \in Request : request'[s] = IF s = r THEN x ELSE request[s]
    BY <1>1 DEF Inv, TypeOK
  <2>. QED  BY <1>1, <2>1 DEF RecordedKept
<1>2. ASSUME NEW pc \in {"unconfirmed", "invalid", "refused", "synced"},
             request' = Decided(r, pc), Open(r) \/ q.pc = "invalid"
      PROVE  RecordedKept
  <2>1. PICK x \in {NoRequest} \cup DecidedRequest :
              /\ Decided(r, pc) = [request EXCEPT ![r] = x]
              /\ x # NoRequest =>
                    /\ SoundRequest(x) /\ x.pc = pc
                    /\ x.heard = request[r].heard /\ x.mark = request[r].mark
                    /\ x.lines = request[r].lines /\ x.notices = request[r].notices
              /\ x = NoRequest <=> ~(request[r].heard \/ pc = "invalid")
    <3>1. TypeOK /\ RequestsSound
      BY DEF Inv
    <3>2. pc \in {"recorded", "unconfirmed", "invalid", "refused", "synced"}
      OBVIOUS
    <3>3. Open(r) \/ request[r].pc = "invalid"
      BY <1>2
    <3>. QED  BY <3>1, <3>2, <3>3, DecidedIs, Zenon
  <2>2. x.pc # "recorded"
    BY <2>1 DEF NoRequest
  <2>3. q.pc # "recorded"
    BY <1>2 DEF Open
  <2>. QED  BY <1>1, <1>2, <2>1, <2>2, <2>3
<1>3. CASE Prepare(r) /\ entry # q.entry
  BY <1>2, <1>3 DEF Prepare, Open
<1>4. CASE Prepare(r) /\ entry = q.entry
  <2>1. PICK lines, notices :
           request' = [request EXCEPT ![r].pc = "prepared", ![r].lines = lines,
                                      ![r].notices = notices, ![r].deliver = @ /\ ~hidden]
    BY <1>4 DEF Prepare
  <2> DEFINE x == [q EXCEPT !.pc = "prepared", !.lines = lines, !.notices = notices,
                            !.deliver = @ /\ ~hidden]
  <2>2. request' = [request EXCEPT ![r] = x]
    BY <2>1 DEF Inv, TypeOK
  <2>3. q \in Undecided /\ q.pc # "recorded"
    BY <1>4, RequestIs DEF Prepare, Open, Inv
  <2>4. x.pc # "recorded"
    BY <2>3 DEF Undecided
  <2> HIDE DEF x
  <2>. QED  BY <1>1, <2>2, <2>3, <2>4
<1>5. CASE ConfirmRead(r) /\ Releasable(q)
  <2> DEFINE x == [q EXCEPT !.pc = "checked", !.stale = entry.paused \/ ~LinesOnly(q)]
  <2>2. request' = [request EXCEPT ![r] = x]
    BY <1>5 DEF ConfirmRead, Inv, TypeOK
  <2>3. q \in Undecided /\ q.pc # "recorded"
    BY <1>5, RequestIs DEF ConfirmRead, Open, Inv
  <2>4. x.pc # "recorded"
    BY <2>3 DEF Undecided
  <2> HIDE DEF x
  <2>. QED  BY <1>1, <2>2, <2>3, <2>4
<1>6. CASE (ConfirmRead(r) \/ ConfirmWrite(r)) /\ ~Releasable(q)
  <2>1. \E pc \in {"invalid", "refused"} : request' = Decided(r, pc)
    BY <1>6 DEF ConfirmRead, ConfirmWrite, Refused
  <2>2. Open(r)
    BY <1>6 DEF ConfirmRead, ConfirmWrite, Open
  <2>. QED  BY <1>2, <2>1, <2>2
<1>7. CASE ConfirmBusy(r)
  BY <1>2, <1>7 DEF ConfirmBusy, Open
<1>8. CASE SyncCompaction(r)
  BY <1>2, <1>8 DEF SyncCompaction
<1>9. CASE GiveUp(r)
  <2>1. q.pc = "recorded" => Named(q) \subseteq unsettled'
    BY <1>9 DEF GiveUp
  <2>2. CASE Final(r) /\ q.pc # "invalid"
    <3>1. NoRequest.pc # "recorded"
      BY DEF NoRequest
    <3>2. request' = [request EXCEPT ![r] = NoRequest]
      BY <1>9, <2>2 DEF GiveUp
    <3>. QED  BY <1>1, <2>1, <3>1, <3>2, Zenon
  <2>3. CASE ~(Final(r) /\ q.pc # "invalid")
    <3> DEFINE x == [q EXCEPT !.heard = FALSE]
    <3>1. request' = [request EXCEPT ![r] = x] /\ q.pc # "recorded"
      BY <1>9, <2>3 DEF GiveUp, Final, Inv, TypeOK
    <3>2. q \in Undecided \cup DecidedRequest
      BY <1>9, RequestIs DEF GiveUp, Inv, NoRequest
    <3>3. x.pc # "recorded"
      BY <3>1, <3>2 DEF Undecided, DecidedRequest
    <3> HIDE DEF x
    <3>. QED  BY <1>1, <2>1, <3>1, <3>3
  <2>. QED  BY <2>2, <2>3
<1>10. CASE Dropped(r)
  <2>1. q.pc # "recorded"
    BY <1>10 DEF Dropped, OneHeard
  <2>2. request' = [request EXCEPT ![r] = NoRequest]
    BY <1>10 DEF Dropped
  <2>3. NoRequest.pc # "recorded"
    BY DEF NoRequest
  <2>. QED  BY <1>1, <2>1, <2>2, <2>3, Zenon
<1>. QED  BY <1>3, <1>4, <1>5, <1>6, <1>7, <1>8, <1>9, <1>10

(* Nothing said changes where the truth does not.                             *)
LEMMA TruthSaid == UNCHANGED truth => SaidKept
  BY DEF truth, SaidKept

LEMMA ChangeSaid == ASSUME TypeOK, Change  PROVE SaidKept
<1> SUFFICES ASSUME NEW f \in Fact, NEW n \in Nat \ {0}, n <= Revision(f)
             PROVE  said'[f][n] = said[f][n]
  BY DEF SaidKept
<1>1. CASE said' = said
  BY <1>1
<1>2. CASE \E g \in live, v \in Value : said' = [said EXCEPT ![g] = Append(@, v)]
  <2>1. PICK g \in live, v \in Value : said' = [said EXCEPT ![g] = Append(@, v)]
    BY <1>2
  <2>2. said[f] \in Seq(Value) /\ said \in [Fact -> Seq(Value)] /\ n \in 1..Len(said[f])
    BY DEF TypeOK, Revision
  <2>3. CASE f = g
    BY <2>1, <2>2, <2>3
  <2>4. CASE f # g
    BY <2>1, <2>2, <2>4
  <2>. QED  BY <2>3, <2>4
<1>. QED  BY <1>1, <1>2 DEF Change

-----------------------------------------------------------------------------
LEMMA OutsideTold ==
    ASSUME Inv, Inv', ToldInv, Change \/ CounterLost
    PROVE  ToldInv'
<1>1. UNCHANGED <<ledger, pending, request, context, unsettled>>
  BY DEF Change, CounterLost, client, host
<1>2. SaidKept
  BY TruthSaid, ChangeSaid DEF CounterLost, Inv
<1>3. Onward /\ RecordedKept
  BY <1>1 DEF Onward, Goes, RecordedKept
<1>. QED  BY <1>1, <1>2, <1>3, QuietRows, KeptTold

LEMMA QuietTold ==
    ASSUME Inv, Inv', ToldInv, NEW r \in Request,
           \/ Prepare(r) \/ ConfirmRead(r) \/ ConfirmBusy(r) \/ GiveUp(r) \/ Dropped(r)
           \/ ConfirmWrite(r) /\ ~Releasable(request[r])
    PROVE  ToldInv'
<1>1. UNCHANGED <<truth, ledger, pending, context>> /\ unsettled \subseteq unsettled'
  BY DEF Prepare, ConfirmRead, ConfirmBusy, GiveUp, Dropped, ConfirmWrite, client, host
<1>2. Onward /\ RecordedKept
  BY StepOnward, RecordedStays DEF ToldInv
<1>. QED  BY <1>1, <1>2, TruthSaid, QuietRows, KeptTold

LEMMA SyncTold ==
    ASSUME Inv, Inv', ToldInv, NEW r \in Request, SyncCompaction(r)
    PROVE  ToldInv'
<1> DEFINE q == request[r]
<1>1. /\ UNCHANGED <<truth, pending, context, unsettled>>
      /\ Applies(q.mark) /\ marks' = Applied(q.mark).marks
  BY DEF SyncCompaction, client, host, Applies
<1>2. Onward /\ RecordedKept
  BY StepOnward, RecordedStays DEF ToldInv
<1>3. q.mark \in ClientMark
  BY RequestIs DEF SyncCompaction, Inv, NoRequest
<1>4. \A f \in Fact : RowsKept(f)
  BY <1>1, <1>3, AppliedRows DEF Same
<1>. QED  BY <1>1, <1>2, <1>4, TruthSaid, KeptTold

-----------------------------------------------------------------------------
(* Recording a request leaves the rows of the facts it does not name.         *)
LEMMA RecordRows ==
    ASSUME Inv, Inv', NEW r \in Request, ConfirmWrite(r), Releasable(request[r])
    PROVE  \A f \in Fact : f \notin Named(request[r]) => RowsKept(f)
<1> DEFINE q == request[r]
<1>1. /\ Open(r) /\ q.mark \in ClientMark /\ Applies(q.mark) /\ pending' = pending
      /\ marks' = Recording(q)
  BY RecordApplies, RequestIs DEF ConfirmWrite, Open, Inv, NoRequest, client, Recording
<1> SUFFICES ASSUME NEW f \in Fact, f \notin Named(q)
             PROVE  RowsKept(f)
  OBVIOUS
<1>2. /\ \A l \in q.lines : l.fact # f
      /\ \A n \in q.notices : n.fact # f
  BY DEF Named
<1>3. /\ \A m \in marks' :
            \/ \E l \in q.lines : Same(l, m) /\ m.compacted = q.compacted
            \/ /\ ~\E l \in q.lines : Same(l, m)
               /\ \E o \in Applied(q.mark).marks : Same(o, m) /\ m.compacted = o.compacted
      /\ \A m \in marks' :
            \/ \E n \in q.notices : Same(n, m) /\ m.ack = n.value
            \/ /\ ~\E n \in q.notices : Same(n, m)
               /\ \A o \in Applied(q.mark).marks : Same(o, m) => m.ack = o.ack
               /\ (~\E o \in Applied(q.mark).marks : Same(o, m)) => m.ack = NotTold
      /\ \A o \in Applied(q.mark).marks : \E m \in marks' : Same(o, m)
  BY <1>1, RecordingIs
<1>4. \A m \in marks' : m.fact = f =>
         \E o \in Applied(q.mark).marks : Same(o, m) /\ o.ack = m.ack
  <2> SUFFICES ASSUME NEW m \in marks', m.fact = f
               PROVE  \E o \in Applied(q.mark).marks : Same(o, m) /\ o.ack = m.ack
    OBVIOUS
  <2>1. ~(\E l \in q.lines : Same(l, m)) /\ ~(\E n \in q.notices : Same(n, m))
    BY <1>2 DEF Same
  <2>. QED  BY <1>3, <2>1
<1>. QED  BY <1>1, <1>3, <1>4, AppliedRows

(* A request the host gave up is recorded: what it names is unsettled.        *)
LEMMA RecordUnheardTold ==
    ASSUME Inv, Inv', ToldInv, NEW r \in Request, ConfirmWrite(r), Releasable(request[r]),
           ~request[r].heard
    PROVE  ToldInv'
<1> DEFINE q == request[r]
<1>1. /\ request' = Decided(r, "recorded") /\ unsettled' = unsettled \cup Named(q)
      /\ UNCHANGED <<truth, pending, context>> /\ q.pc = "checked"
  BY DEF ConfirmWrite, client
<1>2. request' = [request EXCEPT ![r] = NoRequest]
  BY <1>1 DEF Decided, Inv, TypeOK
<1>3. RecordedKept
  <2>1. \A s \in Request : request'[s] = IF s = r THEN NoRequest ELSE request[s]
    BY <1>2 DEF Inv, TypeOK
  <2>2. NoRequest.pc # "recorded" /\ q.pc # "recorded"
    BY <1>1 DEF NoRequest
  <2>. QED  BY <2>1, <2>2 DEF RecordedKept
<1>4. Onward
  BY StepOnward
<1>5. \A f \in Fact : f \in unsettled' \/ RowsKept(f)
  BY <1>1, RecordRows
<1>. QED  BY <1>1, <1>3, <1>4, <1>5, TruthSaid, KeptTold

(* What the host is about to be told of a fact is what its newest delivery    *)
(* says then: the line's statement, the notice's, or what it knew.            *)
LEMMA RecordedTells ==
    ASSUME Inv, Inv', ToldInv, NEW r \in Request, ConfirmWrite(r), Releasable(request[r]),
           request[r].heard, NEW m \in DeliveryRows(pending)', m.fact \notin unsettled
    PROVE  Told(request[r])[m.fact] = LastTold(m)'
<1> DEFINE q == request[r]
<1> DEFINE f == m.fact
<1> DEFINE old == Applied(q.mark).marks
<1>1. /\ Open(r) /\ q # NoRequest /\ q.mark \in ClientMark /\ Applies(q.mark)
      /\ pending' = pending /\ marks' = Recording(q) /\ said' = said
      /\ live' = live /\ hidden' = hidden
  BY RecordApplies, RequestIs DEF ConfirmWrite, Open, Inv, NoRequest, client, truth, Recording
<1>2. q.mark = pending
  BY <1>1 DEF ToldInv, OneHeard
<1>3. /\ \A n \in marks' :
            \/ \E l \in q.lines : Same(l, n) /\ n.compacted = q.compacted
            \/ /\ ~\E l \in q.lines : Same(l, n)
               /\ \E o \in old : Same(o, n) /\ n.compacted = o.compacted
      /\ \A n \in marks' :
            \/ \E k \in q.notices : Same(k, n) /\ n.ack = k.value
            \/ /\ ~\E k \in q.notices : Same(k, n)
               /\ \A o \in old : Same(o, n) => n.ack = o.ack
               /\ (~\E o \in old : Same(o, n)) => n.ack = NotTold
      /\ \A o \in old : \E n \in marks' : Same(o, n)
      /\ \A l \in q.lines : \E n \in marks' : Same(l, n)
  BY <1>1, RecordingIs
<1>4. m \in marks' /\ m \in Counted(pending)' /\ \A n \in marks' : n.fact = f => n.rev <= m.rev
  BY DEF DeliveryRows, Counted
<1>5. \A o \in old : o \in Counted(pending) /\ old = marks
  BY <1>1, <1>4, OldCounted
<1>6. /\ m.fact \in Fact /\ m.rev \in Nat
      /\ q.lines \subseteq Line /\ q.notices \subseteq Notice
      /\ \A l \in q.lines : l.rev \in Nat /\ l.rev <= Revision(l.fact)
      /\ \A o \in marks : o.rev \in Nat
  <2>1. m \in Delivery /\ marks \subseteq Delivery
    BY <1>4 DEF Inv, TypeOK
  <2>2. q.lines \subseteq Line /\ q.notices \subseteq Notice
    BY <1>1, RequestIs DEF Inv
  <2>3. SoundRequest(q)
    BY <1>1 DEF Inv, RequestsSound
  <2>. QED  BY <2>1, <2>2, <2>3 DEF Delivery, Line, SoundRequest
<1>7. LastTold(m)' = IF m.ack = NotTold THEN said[f][m.rev] ELSE m.ack
  BY <1>1 DEF LastTold
<1>8. \A n \in q.notices : /\ n.value = Now(n.fact)
                           /\ \E o \in DeliveryRows(pending) : Same(n, o)
  BY <1>1, <1>2 DEF Releasable, Notices, Same
<1>9. \A l \in q.lines : \A o \in old : l.fact = f /\ o.fact = f => o.rev < l.rev
  BY <1>1, <1>5 DEF ToldInv, LinesAreNews
<1>10. \/ \E l \in q.lines : l.fact = f /\ Told(q)[f] = said[f][l.rev]
       \/ /\ ~\E l \in q.lines : l.fact = f
          /\ \E n \in q.notices : n.fact = f /\ Told(q)[f] = n.value
       \/ /\ ~\E l \in q.lines : l.fact = f
          /\ ~\E n \in q.notices : n.fact = f
          /\ Told(q)[f] = context[f]
  BY <1>6, ToldIs DEF Inv
<1>11. CASE \E l \in q.lines : l.fact = f /\ Told(q)[f] = said[f][l.rev]
  <2>1. PICK l \in q.lines : l.fact = f /\ Told(q)[f] = said[f][l.rev]
    BY <1>11
  <2>2. l.rev <= m.rev
    BY <1>3, <1>4, <2>1 DEF Same
  <2>3. ~\E o \in old : Same(o, m)
    BY <1>5, <1>6, <1>9, <2>1, <2>2 DEF Same
  <2>4. PICK k \in q.lines : Same(k, m)
    BY <1>3, <1>4, <2>3
  <2>5. k.rev = l.rev
    BY <1>1, <2>1, <2>4 DEF ToldInv, OneLineEach, Same
  <2>6. ~\E n \in q.notices : Same(n, m)
    <3> SUFFICES ASSUME NEW n \in q.notices, Same(n, m)  PROVE FALSE
      OBVIOUS
    <3>1. PICK o \in DeliveryRows(pending) : Same(n, o)
      BY <1>8
    <3>2. o \in Counted(pending) /\ o \in marks /\ o.fact = f /\ o.rev = m.rev
      BY <3>1 DEF DeliveryRows, Counted, Same
    <3>3. o.rev < k.rev
      BY <1>1, <2>4, <3>2 DEF ToldInv, LinesAreNews, Same
    <3>. QED  BY <1>6, <2>4, <3>2, <3>3 DEF Same
  <2>7. m.ack = NotTold
    BY <1>3, <1>4, <2>3, <2>6
  <2>. QED  BY <1>7, <2>1, <2>4, <2>5, <2>7 DEF Same
<1>12. CASE /\ ~\E l \in q.lines : l.fact = f
            /\ \E n \in q.notices : n.fact = f /\ Told(q)[f] = n.value
  <2>1. PICK n \in q.notices : n.fact = f /\ Told(q)[f] = n.value
    BY <1>12
  <2>2. PICK o \in DeliveryRows(pending) : Same(n, o)
    BY <1>8
  <2>3. PICK p \in old : Same(p, m)
    BY <1>3, <1>4, <1>12 DEF Same
  <2>4. old = marks /\ p \in marks /\ o \in marks
    BY <1>5, <2>2, <2>3 DEF DeliveryRows, Counted
  <2>5. p.rev <= o.rev
    BY <2>1, <2>2, <2>3, <2>4 DEF DeliveryRows, Same
  <2>6. o.rev <= m.rev
    <3>1. PICK k \in marks' : Same(o, k)
      BY <1>3, <2>4
    <3>. QED  BY <1>4, <2>1, <2>2, <3>1 DEF Same
  <2>7. Same(n, m)
    BY <1>6, <2>1, <2>2, <2>3, <2>4, <2>5, <2>6 DEF Same
  <2>8. PICK k \in q.notices : Same(k, m) /\ m.ack = k.value
    BY <1>3, <1>4, <2>7
  <2>9. m.ack = Now(f) /\ n.value = Now(f)
    BY <1>8, <2>1, <2>8 DEF Same
  <2>10. Now(f) # NotTold
    BY <1>6, StatementsAre, StatementAssumption DEF Inv, NotTold, Withdrawn
  <2>. QED  BY <1>7, <2>1, <2>9, <2>10
<1>13. CASE /\ ~\E l \in q.lines : l.fact = f
            /\ ~\E n \in q.notices : n.fact = f
            /\ Told(q)[f] = context[f]
  <2>1. RowsKept(f)
    BY <1>6, <1>13, RecordRows DEF Named
  <2>2. PICK o \in DeliveryRows(pending) : Same(o, m) /\ o.ack = m.ack
    BY <1>4, <2>1 DEF RowsKept
  <2>3. ~UnderWay(f)
    <3> SUFFICES ASSUME NEW s \in Request, request[s].pc = "recorded"  PROVE FALSE
      BY DEF UnderWay
    <3>1. request[s].heard /\ request[s] # NoRequest
      BY DEF ToldInv, OneHeard, NoRequest
    <3>2. s = r
      BY <1>1, <3>1 DEF ToldInv, OneHeard
    <3>. QED  BY <3>2 DEF ConfirmWrite
  <2>4. context[f] = LastTold(o)
    BY <2>2, <2>3 DEF ToldInv, ContextKnown, Settled, Same
  <2>. QED  BY <1>7, <1>13, <2>2, <2>4 DEF LastTold, Same
<1>. QED  BY <1>10, <1>11, <1>12, <1>13

(* A request the host waits for is recorded: what it tells is on its way.     *)
LEMMA RecordHeardTold ==
    ASSUME Inv, Inv', ToldInv, NEW r \in Request, ConfirmWrite(r), Releasable(request[r]),
           request[r].heard
    PROVE  ToldInv'
<1> DEFINE q == request[r]
<1>1. /\ Open(r) /\ q # NoRequest /\ q.pc = "checked" /\ request' = Decided(r, "recorded")
      /\ UNCHANGED <<truth, pending, context, unsettled>>
  BY DEF ConfirmWrite, client, Open, NoRequest
<1>2. PICK x : /\ request' = [request EXCEPT ![r] = x]
               /\ x # NoRequest /\ x.pc = "recorded" /\ x.heard /\ x.mark = q.mark
               /\ x.lines = q.lines /\ x.notices = q.notices
  <2>1. TypeOK /\ RequestsSound
    BY DEF Inv
  <2>2. PICK x \in {NoRequest} \cup DecidedRequest :
              /\ Decided(r, "recorded") = [request EXCEPT ![r] = x]
              /\ x # NoRequest =>
                    /\ SoundRequest(x) /\ x.pc = "recorded"
                    /\ x.heard = request[r].heard /\ x.mark = request[r].mark
                    /\ x.lines = request[r].lines /\ x.notices = request[r].notices
              /\ x = NoRequest <=> ~(request[r].heard \/ "recorded" = "invalid")
    BY <1>1, <2>1, DecidedIs, Zenon
  <2>. QED  BY <1>1, <2>2
<1>3. \A s \in Request : request'[s] = IF s = r THEN x ELSE request[s]
  BY <1>2 DEF Inv, TypeOK
<1>4. \A s \in Request : request[s] # NoRequest /\ request[s].heard => s = r
  BY <1>1 DEF ToldInv, OneHeard
<1>5. \A s \in Request : request[s].pc # "recorded"
  <2> SUFFICES ASSUME NEW s \in Request, request[s].pc = "recorded"  PROVE FALSE
    OBVIOUS
  <2>1. request[s] # NoRequest /\ request[s].heard
    BY DEF ToldInv, OneHeard, NoRequest
  <2>. QED  BY <1>1, <1>4, <2>1
<1>6. \A s \in Request : request'[s] # NoRequest /\ request'[s].heard => s = r
  BY <1>3, <1>4
<1>7. OneHeard'
  <2>1. q.mark = pending
    BY <1>1 DEF ToldInv, OneHeard
  <2>2. \A s \in Request : request'[s].pc = "recorded" => request'[s].heard
    BY <1>2, <1>3, <1>5
  <2>3. \A s \in Request : request'[s] # NoRequest /\ request'[s].heard => request'[s].mark = pending'
    BY <1>1, <1>2, <1>3, <1>6, <2>1
  <2>. QED  BY <1>6, <2>2, <2>3 DEF OneHeard
<1>8. \A s \in Request : Open(s)' => s # r /\ Open(s) /\ request'[s] = request[s]
  BY <1>2, <1>3 DEF Open
<1>9. LinesAreNews'
  <2>1. \A s \in Request : Open(s)' => ~request'[s].heard
    <3> SUFFICES ASSUME NEW s \in Request, Open(s)', request'[s].heard  PROVE FALSE
      OBVIOUS
    <3>1. s # r /\ request'[s] = request[s] /\ request[s] # NoRequest
      BY <1>8 DEF Open, NoRequest
    <3>. QED  BY <1>4, <3>1
  <2>. QED  BY <2>1 DEF LinesAreNews
<1>10. OneLineEach'
  BY <1>8 DEF ToldInv, OneLineEach
<1>11. SaidKept
  BY <1>1, TruthSaid
<1>12. ContextKnown'
  <2> SUFFICES ASSUME NEW m \in DeliveryRows(pending)', Settled(m.fact)'
               PROVE  context'[m.fact] = LastTold(m)'
    BY DEF ContextKnown
  <2>1. m.fact \in Fact
    BY DEF DeliveryRows, Counted, Inv, TypeOK, Delivery
  <2>2. m.fact \notin Named(q)
    <3> SUFFICES ASSUME m.fact \in Named(q)  PROVE FALSE
      OBVIOUS
    <3>1. request'[r] = x /\ m.fact \in Named(x)
      BY <1>2, <1>3 DEF Named
    <3>2. UnderWay(m.fact)'
      BY <1>2, <3>1 DEF UnderWay, Named
    <3>. QED  BY <3>2 DEF Settled
  <2>3. Settled(m.fact)
    BY <1>1, <1>5 DEF Settled, UnderWay
  <2>4. RowsKept(m.fact)
    BY <2>1, <2>2, RecordRows
  <2>. QED  BY <1>1, <1>11, <2>1, <2>3, <2>4, ContextKeeps DEF ToldInv
<1>13. AnswerWillTell'
  <2> SUFFICES ASSUME NEW s \in Request, request'[s].pc = "recorded",
                      NEW m \in DeliveryRows(pending)', m.fact \notin unsettled'
               PROVE  Told(request[s])'[m.fact] = LastTold(m)'
    BY DEF AnswerWillTell
  <2>1. s = r /\ request'[s] = x
    BY <1>3, <1>5
  <2>2. said' = said /\ context' = context
    BY <1>1 DEF truth
  <2>3. Told(request[s])' = Tell(said, context, x) /\ Told(q) = Tell(said, context, q)
    BY <2>1, <2>2 DEF Told, Tell
  <2>4. Tell(said, context, x) = Tell(said, context, q)
    BY <1>2 DEF Tell
  <2>5. Told(q)[m.fact] = LastTold(m)'
    BY <1>1, RecordedTells
  <2>. QED  BY <2>3, <2>4, <2>5
<1>. QED  BY <1>7, <1>9, <1>10, <1>12, <1>13 DEF ToldInv

(* The host is answered: what it is told becomes what it knows.               *)
LEMMA AnswerTold ==
    ASSUME Inv, Inv', ClearsWhatIsKnown, ToldInv, NEW r \in Request, Answer(r)
    PROVE  ToldInv'
<1> DEFINE q == request[r]
<1>1. /\ request' = [request EXCEPT ![r] = NoRequest]
      /\ UNCHANGED <<truth, ledger>> /\ q.heard /\ q # NoRequest
      /\ context' = IF Released(r) THEN Told(q) ELSE context
      /\ unsettled' = IF q.pc = "unconfirmed" THEN unsettled \cup Named(q) ELSE unsettled
  BY DEF Answer, Final, NoRequest
<1>2. \A s \in Request : request'[s] = IF s = r THEN NoRequest ELSE request[s]
  BY <1>1 DEF Inv, TypeOK
<1>3. \A s \in Request : request'[s] # NoRequest => ~request'[s].heard
  BY <1>1, <1>2 DEF ToldInv, OneHeard
<1>4. \A s \in Request : request'[s].pc # "recorded"
  <2> SUFFICES ASSUME NEW s \in Request, request'[s].pc = "recorded"  PROVE FALSE
    OBVIOUS
  <2>1. request'[s] # NoRequest /\ request'[s] = request[s]
    BY <1>2 DEF NoRequest
  <2>. QED  BY <1>3, <2>1 DEF ToldInv, OneHeard
<1>5. OneHeard' /\ AnswerWillTell'
  BY <1>3, <1>4 DEF OneHeard, AnswerWillTell
<1>6. \A s \in Request : Open(s)' => Open(s) /\ request'[s] = request[s] /\ request'[s] # NoRequest
  <2>1. NoRequest.pc \notin {"begun", "prepared", "checked"}
    BY DEF NoRequest
  <2>. QED  BY <1>2, <2>1 DEF Open
<1>7. LinesAreNews' /\ OneLineEach'
  BY <1>3, <1>6 DEF LinesAreNews, ToldInv, OneLineEach
<1>8. Counted(pending)' = Counted(pending) /\ marks' = marks /\ said' = said
  BY <1>1, AnswerClears DEF ledger, truth
<1>9. DeliveryRows(pending)' = DeliveryRows(pending)
  BY <1>8 DEF DeliveryRows
<1>10. ContextKnown'
  <2> SUFFICES ASSUME NEW m \in DeliveryRows(pending), Settled(m.fact)'
               PROVE  context'[m.fact] = LastTold(m)
    BY <1>8, <1>9 DEF ContextKnown, LastTold
  <2>1. m.fact \in Fact /\ m.fact \notin unsettled' /\ m.fact \notin unsettled
    BY <1>1 DEF DeliveryRows, Counted, Inv, TypeOK, Delivery, Settled
  <2>2. CASE q.pc = "recorded"
    <3>1. Told(q)[m.fact] = LastTold(m)
      BY <2>1, <2>2 DEF ToldInv, AnswerWillTell
    <3>. QED  BY <1>1, <2>2, <3>1 DEF Released
  <2>3. CASE q.pc # "recorded"
    <3>1. ~UnderWay(m.fact)
      <4> SUFFICES ASSUME NEW s \in Request, request[s].pc = "recorded"  PROVE FALSE
        BY DEF UnderWay
      <4>1. request[s].heard /\ request[s] # NoRequest
        BY DEF ToldInv, OneHeard, NoRequest
      <4>2. s = r
        BY <1>1, <4>1 DEF ToldInv, OneHeard
      <4>. QED  BY <2>3, <4>2
    <3>2. context[m.fact] = LastTold(m)
      BY <2>1, <3>1 DEF ToldInv, ContextKnown, Settled
    <3>3. CASE q.pc = "unconfirmed"
      <4>1. /\ q.lines \subseteq Line /\ q.notices \subseteq Notice
            /\ \A l \in q.lines : l.rev <= Revision(l.fact)
        BY <1>1, RequestIs DEF Inv, RequestsSound, SoundRequest
      <4>2. m.fact \notin Named(q)
        BY <1>1, <2>1, <3>3
      <4>3. Told(q)[m.fact] = context[m.fact]
        BY <2>1, <4>1, <4>2, ToldIs DEF Inv, Named
      <4>. QED  BY <1>1, <3>2, <3>3, <4>3 DEF Released
    <3>4. CASE q.pc # "unconfirmed"
      BY <1>1, <2>3, <3>2, <3>4 DEF Released
    <3>. QED  BY <3>3, <3>4
  <2>. QED  BY <2>2, <2>3
<1>. QED  BY <1>5, <1>7, <1>10 DEF ToldInv

(* A prompt is begun on facts the session was not told in this revision.      *)
LEMMA BeginTold ==
    ASSUME Inv, Inv', ToldInv, NEW r \in Request, Begin(r)
    PROVE  ToldInv'
<1> DEFINE fresh == Cutoff(pending) > row.seq
<1> DEFINE may == {f \in live : ~hidden /\ (fresh \/ ~AlreadyInjected(pending, f, Revision(f)))}
<1> DEFINE begun(brief, question) ==
        [pc |-> "begun", heard |-> TRUE, mark |-> pending, cutoff |-> Cutoff(pending),
         compact |-> fresh, deliver |-> ~hidden /\ (fresh \/ ~Started(pending)),
         lines |-> Lines(brief, TRUE) \cup Lines(question, FALSE),
         notices |-> {}, entry |-> entry, stale |-> FALSE, compacted |-> compacted]
<1>1. PICK brief \in SUBSET may, question \in SUBSET may :
         request' = [request EXCEPT ![r] = begun(brief, question)]
  BY DEF Begin
<1> DEFINE x == begun(brief, question)
<1>2. /\ x.pc = "begun" /\ x.heard /\ x.mark = pending
      /\ \A l \in x.lines : l.fact \in may /\ l.rev = Revision(l.fact)
  BY DEF Lines
<1>3. \A s \in Request : request'[s] = IF s = r THEN x ELSE request[s]
  BY <1>1 DEF Inv, TypeOK
<1>4. /\ UNCHANGED <<truth, ledger, client, host>>
      /\ said' = said /\ context' = context /\ unsettled' = unsettled /\ pending' = pending
  BY DEF Begin, truth, client, host
<1>5. \A s \in Request : request[s] # NoRequest => ~request[s].heard
  BY RequestIs DEF Begin, Inv
<1>6. \A s \in Request : request[s].pc # "recorded"
  <2> SUFFICES ASSUME NEW s \in Request, request[s].pc = "recorded"  PROVE FALSE
    OBVIOUS
  <2>1. request[s] # NoRequest /\ request[s].heard
    BY DEF ToldInv, OneHeard, NoRequest
  <2>. QED  BY <1>5, <2>1
<1>7. Counted(pending)' = Counted(pending) /\ DeliveryRows(pending)' = DeliveryRows(pending)
  BY <1>4 DEF ledger, Counted, Cutoff, DeliveryRows
<1>8. \A l \in x.lines, m \in Counted(pending) : l.fact = m.fact => m.rev < l.rev
  <2> SUFFICES ASSUME NEW l \in x.lines, NEW m \in Counted(pending), l.fact = m.fact
               PROVE  m.rev < l.rev
    OBVIOUS
  <2>1. m \in marks /\ m.rev \in Nat /\ m.rev <= Revision(m.fact) /\ m.fact \in Fact
    BY DEF Counted, Inv, TypeOK, Delivery
  <2>2. ~fresh
    <3>1. row.seq = Cutoff(pending) /\ row.seq \in Nat
      BY CountedIs DEF Inv, TypeOK
    <3>. QED  BY <3>1
  <2>3. ~AlreadyInjected(pending, l.fact, Revision(l.fact)) /\ l.rev = Revision(l.fact)
    BY <1>2, <2>2
  <2>4. m.rev # Revision(m.fact)
    BY <2>3 DEF AlreadyInjected
  <2>5. Revision(m.fact) \in Nat
    BY <2>1, StatementsAre DEF Inv
  <2>. QED  BY <2>1, <2>3, <2>4, <2>5
<1> HIDE DEF x
<1>9. OneHeard'
  BY <1>2, <1>3, <1>4, <1>5, <1>6 DEF OneHeard
<1>10. LinesAreNews'
  <2> SUFFICES ASSUME NEW s \in Request, Open(s)', request'[s].heard,
                      NEW l \in request'[s].lines, NEW m \in Counted(pending)', l.fact = m.fact
               PROVE  m.rev < l.rev
    BY DEF LinesAreNews
  <2>1. s = r
    BY <1>3, <1>5 DEF Open, NoRequest
  <2>. QED  BY <1>3, <1>7, <1>8, <2>1
<1>11. OneLineEach'
  <2> SUFFICES ASSUME NEW s \in Request, Open(s)', NEW l \in request'[s].lines,
                      NEW k \in request'[s].lines, l.fact = k.fact
               PROVE  l.rev = k.rev
    BY DEF OneLineEach
  <2>1. CASE s = r
    BY <1>2, <1>3, <2>1
  <2>2. CASE s # r
    <3>1. request'[s] = request[s] /\ Open(s)
      BY <1>3, <2>2 DEF Open
    <3>. QED  BY <3>1 DEF ToldInv, OneLineEach
  <2>. QED  BY <2>1, <2>2
<1>12. \A s \in Request : request'[s].pc # "recorded"
  BY <1>2, <1>3, <1>6
<1>13. ContextKnown'
  <2>1. \A m \in DeliveryRows(pending) :
           m.fact \notin unsettled => Settled(m.fact) /\ LastTold(m)' = LastTold(m)
    BY <1>4, <1>6 DEF Settled, UnderWay, LastTold
  <2>. QED  BY <1>4, <1>7, <2>1 DEF ToldInv, ContextKnown, Settled
<1>14. AnswerWillTell'
  BY <1>12 DEF AnswerWillTell
<1>. QED  BY <1>9, <1>10, <1>11, <1>13, <1>14 DEF ToldInv

(* A compacted context was told nothing, and nothing is counted for it.       *)
LEMMA CompactTold ==
    ASSUME ~crossed', Inv, Inv', InStepInv, ToldInv, Compact
    PROVE  ToldInv'
<1>1. Counted(pending)' = {} /\ request' = request
  BY CompactInStep DEF Compact
<1>2. DeliveryRows(pending)' = {}
  BY <1>1 DEF DeliveryRows
<1>3. \A s \in Request : request[s] # NoRequest => ~request[s].heard
  BY RequestIs DEF Compact, Inv
<1>4. \A s \in Request : request[s].pc # "recorded"
  <2> SUFFICES ASSUME NEW s \in Request, request[s].pc = "recorded"  PROVE FALSE
    OBVIOUS
  <2>1. request[s] # NoRequest /\ request[s].heard
    BY DEF ToldInv, OneHeard, NoRequest
  <2>. QED  BY <1>3, <2>1
<1>5. OneHeard'
  BY <1>1, <1>3, <1>4 DEF OneHeard
<1>6. LinesAreNews' /\ ContextKnown' /\ AnswerWillTell'
  BY <1>1, <1>2 DEF LinesAreNews, ContextKnown, AnswerWillTell
<1>7. OneLineEach'
  BY <1>1 DEF ToldInv, OneLineEach, Open
<1>. QED  BY <1>5, <1>6, <1>7 DEF ToldInv

-----------------------------------------------------------------------------
LEMMA InitTold == Init => ToldInv
<1> SUFFICES ASSUME Init  PROVE ToldInv
  OBVIOUS
<1>1. marks = {} /\ \A r \in Request : request[r] = NoRequest
  BY DEF Init
<1>2. Counted(pending) = {} /\ DeliveryRows(pending) = {}
  BY <1>1 DEF Counted, DeliveryRows
<1>3. \A r \in Request : ~Open(r) /\ request[r].pc # "recorded"
  BY <1>1 DEF Open, NoRequest
<1>. QED  BY <1>1, <1>2, <1>3
          DEF ToldInv, OneHeard, LinesAreNews, OneLineEach, ContextKnown, AnswerWillTell

LEMMA StepTold ==
    Inv /\ Inv' /\ (~crossed => InStepInv) /\ (~crossed => ToldInv) /\ [Next]_vars
        => (~crossed' => ToldInv')
<1> SUFFICES ASSUME Inv, Inv', ~crossed => InStepInv, ~crossed => ToldInv, [Next]_vars, ~crossed'
             PROVE  ToldInv'
  OBVIOUS
<1>0. InStepInv /\ ToldInv
  BY CrossedStays
<1>1. CASE UNCHANGED vars
  <2>1. UNCHANGED <<truth, ledger, pending, request, context, unsettled>>
    BY <1>1 DEF vars, truth, ledger
  <2>2. Onward /\ RecordedKept
    BY <2>1 DEF Onward, Goes, RecordedKept
  <2>. QED  BY <1>0, <2>1, <2>2, TruthSaid, QuietRows, KeptTold
<1>2. CASE Change \/ CounterLost
  BY <1>0, <1>2, OutsideTold
<1>3. CASE Compact
  BY <1>0, <1>3, CompactTold
<1>4. ASSUME NEW r \in Request,
             Prepare(r) \/ ConfirmRead(r) \/ ConfirmBusy(r) \/ GiveUp(r) \/ Dropped(r)
      PROVE  ToldInv'
  BY <1>0, <1>4, QuietTold
<1>5. ASSUME NEW r \in Request, ConfirmWrite(r)
      PROVE  ToldInv'
  BY <1>0, <1>5, QuietTold, RecordHeardTold, RecordUnheardTold
<1>6. ASSUME NEW r \in Request, Begin(r) \/ SyncCompaction(r) \/ Answer(r)
      PROVE  ToldInv'
  BY <1>0, <1>6, BeginTold, SyncTold, AnswerTold DEF InStepInv
<1>. QED  BY <1>1, <1>2, <1>3, <1>4, <1>5, <1>6 DEF Next

(* What the session was last told of every counted fact is what its newest    *)
(* delivery says or acknowledges, once no answer that names it is under way,  *)
(* unless a request of a lost counter was carried across a compaction.        *)
THEOREM ToldHolds == Spec => [](~crossed => ToldInv)
<1>1. Init => (~crossed => ToldInv)
  BY InitTold
<1>2. /\ Inv /\ Inv' /\ (~crossed => InStepInv) /\ (~crossed => ToldInv) /\ [Next]_vars
      => (~crossed => ToldInv)'
  BY StepTold
<1>. QED  BY <1>1, <1>2, InvHolds, InStepHolds, PTL DEF Spec

(* A counted fact whose statement is not the delivered one has a notice due   *)
(* until the session was told its present statement or its withdrawal:        *)
(* `_make_notice` leaves out only what the row acknowledges, and what it      *)
(* acknowledges was told.                                                     *)
THEOREM CorrectionDueOrToldHolds == Spec => []CorrectionDueOrTold
<1>1. Inv /\ (~crossed => ToldInv) => CorrectionDueOrTold
  <2> SUFFICES ASSUME Inv, ToldInv, NEW m \in DeliveryRows(pending),
                      Settled(m.fact), ChangedRow(m), ~Offered(m)
               PROVE  context[m.fact] = Now(m.fact)
    BY DEF CorrectionDueOrTold
  <2>1. m.ack = Now(m.fact) /\ m.fact \in Fact
    BY DEF Offered, DeliveryRows, Counted, Inv, TypeOK, Delivery
  <2>2. Now(m.fact) # NotTold
    BY <2>1, StatementsAre, StatementAssumption DEF Inv, NotTold, Withdrawn
  <2>3. context[m.fact] = LastTold(m)
    BY DEF ToldInv, ContextKnown
  <2>. QED  BY <2>1, <2>2, <2>3 DEF LastTold
<1>. QED  BY <1>1, InvHolds, ToldHolds, PTL
=============================================================================
