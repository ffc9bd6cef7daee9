------------------------ MODULE DeletionMirrorProofs ------------------------
(* What a recovery opens with, for every set of sources and claims and every  *)
(* bound: nothing that a finished pass had in the journal it was given.       *)
EXTENDS DeletionMirror, FiniteSetTheorems, TLAPS

-----------------------------------------------------------------------------
(***************************************************************************)
(* What holds of the content of a store, whoever keeps it.                 *)
(***************************************************************************)
Members(ops) == UNION {op.members : op \in ops}

(* What tells two mute operations apart is their request key.                 *)
SameKey(m, n) == m.target = n.target /\ m.generation = n.generation

(* Words are of rows, and what was derived has its source.                    *)
SoundRows(t) ==
    /\ t.words \subseteq Rows(t)
    /\ \A o \in Rows(t) : Root(o) \in Rows(t)

(* What is blocked is what the delete operations block, each with members of  *)
(* its own.                                                                   *)
SoundDeletes(t) ==
    /\ t.blocked = Members(t.ops)
    /\ \A op, other \in t.ops : op.members = other.members => op = other

(* Mute operations were asked in generations up to this one, and one of this  *)
(* generation still holds for everything derived from its target.             *)
SoundMutes(t) ==
    /\ t.generation <= t.epoch
    /\ \A m \in t.mutes : m.generation <= t.generation
    /\ \A m, n \in t.mutes : SameKey(m, n) => m = n
    /\ \A m \in t.mutes : m.generation = t.generation =>
          m.target \in Rows(t) /\ Closure(t, m.target) \subseteq t.muted

Sound(t) == t \in TruthStates /\ SoundRows(t) /\ SoundDeletes(t) /\ SoundMutes(t)

(* An acknowledged vector layer leaves the rows the file holds fenced.        *)
Fenced(t, fences) == \A op \in t.ops : op.vector => op.members \cap Rows(t) \subseteq fences

(* A ledger names each delete, each mute and each withdrawn claim once.       *)
SoundLedger(ledger) ==
    /\ ledger \in Ledgers
    /\ \A op, other \in ledger.ops : op.members = other.members => op = other
    /\ \A m \in ledger.mutes : m.generation <= ledger.epoch
    /\ \A m, n \in ledger.mutes : SameKey(m, n) => m = n
    /\ \A v, w \in ledger.withdrawals : v[1] = w[1] => v = w

-----------------------------------------------------------------------------
(* The larger of two numbers.                                                 *)
LEMMA LargerOf ==
    ASSUME NEW a \in Nat, NEW b \in Nat
    PROVE  Max({a, b}) = IF a <= b THEN b ELSE a
<1> DEFINE m == IF a <= b THEN b ELSE a
<1>1. m \in {a, b} /\ \A n \in {a, b} : m >= n
  OBVIOUS
<1>2. \A x \in {a, b} : (\A n \in {a, b} : x >= n) => x = m
  OBVIOUS
<1> HIDE DEF m
<1>3. Max({a, b}) = CHOOSE x \in {a, b} : \A n \in {a, b} : x >= n
  BY Zenon DEF Max
<1>. QED  BY <1>1, <1>2, <1>3, Zenon DEF m

LEMMA RootIs ==
    ASSUME NEW o \in Object
    PROVE  Root(o) \in Source /\ Root(o) \in Object /\ Root(Root(o)) = Root(o)
  BY ObjectAssumption DEF Root, Object

LEMMA EmptyIs == Sound(EmptyStore) /\ Rows(EmptyStore) = {} /\ \A F : Fenced(EmptyStore, F)
<1>1. EmptyStore \in TruthStates
  BY DEF EmptyStore, TruthStates, Heads
<1>2. Rows(EmptyStore) = {}
  BY DEF EmptyStore, Rows
<1>3. /\ EmptyStore.words = {} /\ EmptyStore.blocked = {} /\ EmptyStore.ops = {}
      /\ EmptyStore.mutes = {} /\ EmptyStore.generation = 0 /\ EmptyStore.epoch = 0
  BY DEF EmptyStore
<1>4. SoundRows(EmptyStore)
  BY <1>2, <1>3 DEF SoundRows
<1>5. SoundDeletes(EmptyStore)
  BY <1>3 DEF SoundDeletes, Members
<1>6. SoundMutes(EmptyStore)
  BY <1>3 DEF SoundMutes
<1>7. \A F : Fenced(EmptyStore, F)
  BY <1>3 DEF Fenced
<1>. QED  BY <1>1, <1>2, <1>4, <1>5, <1>6, <1>7 DEF Sound

-----------------------------------------------------------------------------
(* The parts of a content, each in its type.                                  *)
Parts(t) ==
    /\ t.epoch \in Nat /\ t.head \in [Object -> Heads] /\ t.words \in SUBSET Object
    /\ t.blocked \in SUBSET Object /\ t.muted \in SUBSET Object /\ t.absent \in SUBSET Object
    /\ t.ops \in SUBSET Operations /\ t.mutes \in SUBSET Mutes /\ t.generation \in Nat

LEMMA PartsOf == ASSUME NEW t \in TruthStates PROVE Parts(t)
  BY DEF TruthStates, Parts

LEMMA BumpedIs ==
    ASSUME NEW t \in TruthStates
    PROVE  LET b == Bumped(t)
           IN  /\ b \in TruthStates /\ b.epoch = t.epoch + 1 /\ b.head = t.head /\ b.words = t.words
               /\ b.blocked = t.blocked /\ b.muted = t.muted /\ b.absent = t.absent /\ b.ops = t.ops
               /\ b.mutes = t.mutes /\ b.generation = t.generation
<1>1. t.epoch + 1 \in Nat
  BY PartsOf DEF Parts
<1>2. Bumped(t) \in TruthStates
  BY <1>1, Zenon DEF TruthStates, Bumped
<1>. QED  BY <1>2 DEF TruthStates, Bumped

(* What each transaction of the owner makes of the content.                   *)
LEMMA CapturedIs ==
    ASSUME NEW t \in TruthStates, NEW o \in Object
    PROVE  LET u == Captured(t, o)
           IN  /\ u \in TruthStates /\ Rows(u) = Rows(t) \cup {o}
               /\ u.epoch = t.epoch + 1 /\ u.words = t.words \cup {o}
               /\ u.muted = IF Root(o) \in t.muted THEN t.muted \cup {o} ELSE t.muted
               /\ u.blocked = t.blocked /\ u.absent = t.absent /\ u.ops = t.ops
               /\ u.mutes = t.mutes /\ u.generation = t.generation
               /\ \A p \in Object : p # o => u.head[p] = t.head[p]
<1> DEFINE u == Captured(t, o)
<1> DEFINE h == [t.head EXCEPT ![o].rev = 1]
<1>1. h \in [Object -> Heads] /\ h[o].rev = 1 /\ \A p \in Object : p # o => h[p] = t.head[p]
  BY DEF TruthStates, Heads
<1>2. /\ u.epoch = t.epoch + 1 /\ u.words = t.words \cup {o} /\ u.head = h
      /\ u.muted = IF Root(o) \in t.muted THEN t.muted \cup {o} ELSE t.muted
      /\ u.blocked = t.blocked /\ u.absent = t.absent /\ u.ops = t.ops
      /\ u.mutes = t.mutes /\ u.generation = t.generation
  BY DEF TruthStates, Captured, Bumped
<1>3. u \in TruthStates
  <2> DEFINE b == Bumped(t)
  <2> DEFINE m == IF Root(o) \in t.muted THEN b.muted \cup {o} ELSE b.muted
  <2>1. b \in TruthStates /\ h \in [Object -> Heads] /\ b.words \cup {o} \in SUBSET Object
        /\ m \in SUBSET Object
    BY <1>1, BumpedIs, PartsOf DEF Parts
  <2>2. u = [b EXCEPT !.head = h, !.words = b.words \cup {o}, !.muted = m]
    BY BumpedIs DEF Captured
  <2> HIDE DEF b, m, h
  <2>. QED  BY <2>1, <2>2, Zenon DEF TruthStates
<1> HIDE DEF h, u
<1>4. Rows(u) = Rows(t) \cup {o}
  BY <1>1, <1>2 DEF Rows
<1>. QED  BY <1>1, <1>2, <1>3, <1>4 DEF u

LEMMA DeletedIs ==
    ASSUME NEW t \in TruthStates, NEW o \in Object
    PROVE  LET u == Deleted(t, o)
           IN  /\ u \in TruthStates /\ Rows(u) = Rows(t) /\ u.head = t.head
               /\ u.epoch = t.epoch + 1 /\ u.words = t.words
               /\ u.blocked = t.blocked \cup Closure(t, o)
               /\ u.muted = t.muted \cup Closure(t, o)
               /\ u.absent = t.absent /\ u.mutes = t.mutes /\ u.generation = t.generation
               /\ \E op \in Operations :
                     /\ op.members = Closure(t, o) /\ ~op.vector /\ ~op.history
                     /\ u.ops = t.ops \cup {op}
<1> DEFINE u == Deleted(t, o)
<1> DEFINE k == Closure(t, o)
<1> DEFINE op == [members |-> k, epoch |-> t.epoch + 1, scrubbed |-> FALSE,
                  vector |-> FALSE, history |-> FALSE, queued |-> TRUE]
<1>1. k \subseteq Object
  BY DEF Closure, Rows
<1> HIDE DEF k
<1>2. op \in Operations
  BY <1>1 DEF Operations, TruthStates
<1>3. /\ u.epoch = t.epoch + 1 /\ u.words = t.words /\ u.head = t.head
      /\ u.blocked = t.blocked \cup k /\ u.muted = t.muted \cup k
      /\ u.absent = t.absent /\ u.ops = t.ops \cup {op}
      /\ u.mutes = t.mutes /\ u.generation = t.generation
  BY DEF TruthStates, Deleted, Bumped, k
<1>4. u = [Bumped(t) EXCEPT !.blocked = @ \cup k, !.muted = @ \cup k, !.ops = @ \cup {op}]
  BY Zenon DEF Deleted, k
<1>5. op.members = k /\ ~op.vector /\ ~op.history
  OBVIOUS
<1> HIDE DEF op, u
<1>6. u \in TruthStates
  <2>1. Bumped(t) \in TruthStates /\ Bumped(t).blocked \cup k \in SUBSET Object
        /\ Bumped(t).muted \cup k \in SUBSET Object /\ Bumped(t).ops \cup {op} \in SUBSET Operations
    BY <1>1, <1>2, BumpedIs, PartsOf DEF Parts
  <2>. QED  BY <1>4, <2>1, Zenon DEF TruthStates
<1>7. Rows(u) = Rows(t)
  BY <1>3 DEF Rows
<1>. QED  BY <1>2, <1>3, <1>5, <1>6, <1>7, Zenon DEF u, k

-----------------------------------------------------------------------------
(* Every transaction leaves a sound content sound.                            *)
LEMMA CapturedSound ==
    ASSUME NEW t, Sound(t), NEW o \in Object, MayCapture(t, o), NEW F, Fenced(t, F)
    PROVE  Sound(Captured(t, o)) /\ Fenced(Captured(t, o), F)
<1> DEFINE u == Captured(t, o)
<1>0. t \in TruthStates /\ SoundRows(t) /\ SoundDeletes(t) /\ SoundMutes(t)
  BY DEF Sound
<1>1. /\ u \in TruthStates /\ Rows(u) = Rows(t) \cup {o}
      /\ u.epoch = t.epoch + 1 /\ u.words = t.words \cup {o}
      /\ u.muted = IF Root(o) \in t.muted THEN t.muted \cup {o} ELSE t.muted
      /\ u.blocked = t.blocked /\ u.absent = t.absent /\ u.ops = t.ops
      /\ u.mutes = t.mutes /\ u.generation = t.generation
  BY <1>0, CapturedIs, Zenon
<1>2. t.epoch \in Nat /\ t.generation \in Nat /\ Rows(t) \subseteq Object
  BY <1>0, PartsOf DEF Parts, Rows
<1>3. Root(o) \in Rows(u)
  BY <1>1 DEF MayCapture, Visible, Root
<1> HIDE DEF u
<1>4. SoundRows(u)
  BY <1>0, <1>1, <1>3 DEF SoundRows
<1>5. SoundDeletes(u)
  BY <1>0, <1>1, Zenon DEF SoundDeletes
<1>6. SoundMutes(u)
  <2>1. u.generation <= u.epoch
    BY <1>0, <1>1, <1>2 DEF SoundMutes
  <2>2. ASSUME NEW m \in t.mutes, m.generation = t.generation
        PROVE  m.target \in Rows(u) /\ Closure(u, m.target) \subseteq u.muted
    <3>1. m.target \in Rows(t) /\ Closure(t, m.target) \subseteq t.muted
      BY <1>0, <2>2 DEF SoundMutes
    <3>2. m.target \in Object /\ Root(m.target) \in Rows(t) /\ Root(Root(m.target)) = Root(m.target)
      BY <1>0, <1>2, <3>1, RootIs DEF SoundRows
    <3>3. Root(m.target) \in t.muted
      BY <3>1, <3>2 DEF Closure
    <3>. QED  BY <1>1, <3>1, <3>3 DEF Closure
  <2>. QED  BY <1>0, <1>1, <2>1, <2>2 DEF SoundMutes
<1>7. Fenced(u, F)
  <2>1. \A op \in t.ops : o \notin op.members
    BY <1>0 DEF MayCapture, SoundDeletes, Members
  <2>. QED  BY <1>1, <2>1 DEF Fenced
<1>. QED  BY <1>1, <1>4, <1>5, <1>6, <1>7 DEF Sound, u

LEMMA DeletedSound ==
    ASSUME NEW t, Sound(t), NEW o \in Visible(t), NEW F, Fenced(t, F)
    PROVE  Sound(Deleted(t, o)) /\ Fenced(Deleted(t, o), F)
<1> DEFINE u == Deleted(t, o)
<1>0. t \in TruthStates /\ SoundRows(t) /\ SoundDeletes(t) /\ SoundMutes(t)
  BY DEF Sound
<1>1. o \in Object /\ o \in Rows(t) /\ o \notin t.blocked /\ o \in Closure(t, o)
  BY DEF Visible, Rows, Closure
<1>2. /\ u \in TruthStates /\ Rows(u) = Rows(t)
      /\ u.epoch = t.epoch + 1 /\ u.words = t.words
      /\ u.blocked = t.blocked \cup Closure(t, o)
      /\ u.muted = t.muted \cup Closure(t, o)
      /\ u.mutes = t.mutes /\ u.generation = t.generation
  BY <1>0, <1>1, DeletedIs, Zenon
<1>3. PICK op \in Operations : /\ op.members = Closure(t, o) /\ ~op.vector /\ ~op.history
                               /\ u.ops = t.ops \cup {op}
  BY <1>0, <1>1, DeletedIs, Zenon
<1>4. t.epoch \in Nat /\ t.generation \in Nat
  BY <1>0, PartsOf DEF Parts
<1> HIDE DEF u
<1>5. SoundRows(u) /\ Fenced(u, F)
  BY <1>0, <1>2, <1>3 DEF SoundRows, Fenced
<1>6. SoundDeletes(u)
  <2>1. \A other \in t.ops : other.members # op.members
    BY <1>0, <1>1, <1>3 DEF SoundDeletes, Members
  <2>. QED  BY <1>0, <1>2, <1>3, <2>1 DEF SoundDeletes, Members
<1>7. SoundMutes(u)
  <2>1. u.generation <= u.epoch
    BY <1>0, <1>2, <1>4 DEF SoundMutes
  <2>. QED  BY <1>0, <1>2, <2>1 DEF SoundMutes, Closure
<1>. QED  BY <1>2, <1>5, <1>6, <1>7 DEF Sound, u

-----------------------------------------------------------------------------
(* The parts of the ledger a sound content exports.                           *)
LEMMA LedgerIs ==
    ASSUME NEW t, Sound(t), NEW f \in {"full", "legacy"}
    PROVE  LET L == LedgerOf(t, f)
           IN  /\ SoundLedger(L) /\ L.format = f /\ L.epoch = t.epoch /\ L.ops = t.ops
               /\ L.mutes = {[m EXCEPT !.members = @ \cap t.muted] : m \in t.mutes}
               /\ L.absent = t.absent
               /\ f = "full" => L.muted = t.muted \ t.blocked
               /\ \A c \in Claim \cap Rows(t) : t.head[c].withdrawn /\ c \notin t.blocked =>
                     <<c, t.head[c].rev>> \in L.withdrawals
<1> DEFINE L == LedgerOf(t, f)
<1> DEFINE ms == {[m EXCEPT !.members = @ \cap t.muted] : m \in t.mutes}
<1> DEFINE ws == {<<c, t.head[c].rev>> :
                     c \in {b \in Claim \cap Rows(t) : t.head[b].withdrawn /\ b \notin t.blocked}}
<1> DEFINE mu == IF f = "full" THEN t.muted \ t.blocked ELSE {}
<1>0. /\ t \in TruthStates /\ Parts(t) /\ SoundDeletes(t) /\ SoundMutes(t)
      /\ \A c \in Claim : c \in Object /\ t.head[c].rev \in Nat
  BY PartsOf DEF Sound, Parts, Heads, Object
<1>1. L = [format |-> f, epoch |-> t.epoch, ops |-> t.ops, mutes |-> ms, withdrawals |-> ws,
           absent |-> t.absent, muted |-> mu]
  BY DEF LedgerOf
<1>2. ASSUME NEW m \in t.mutes
      PROVE  LET k == [m EXCEPT !.members = @ \cap t.muted]
             IN  k \in Mutes /\ k.target = m.target /\ k.generation = m.generation
                 /\ k.members = m.members \cap t.muted
  BY <1>0, <1>2 DEF Parts, Mutes
<1>3. ms \subseteq Mutes
  BY <1>2, Zenon
<1>4. ws \subseteq Claim \X Nat
  BY <1>0
<1>5. \A v, w \in ws : v[1] = w[1] => v = w
  OBVIOUS
<1>6. \A c \in Claim \cap Rows(t) : t.head[c].withdrawn /\ c \notin t.blocked => <<c, t.head[c].rev>> \in ws
  OBVIOUS
<1>7. \A m \in ms : m.generation <= t.epoch
  <2>1. ASSUME NEW m \in t.mutes PROVE m.generation <= t.epoch
    <3>1. m.generation <= t.generation /\ t.generation <= t.epoch
      BY <1>0, <2>1 DEF SoundMutes
    <3>2. m.generation \in Nat /\ t.generation \in Nat /\ t.epoch \in Nat
      BY <1>0, <2>1 DEF Parts, Mutes
    <3>. QED  BY <3>1, <3>2
  <2>2. ASSUME NEW k \in ms PROVE \E m \in t.mutes : k.generation = m.generation
    <3>1. PICK m \in t.mutes : k = [m EXCEPT !.members = @ \cap t.muted]
      OBVIOUS
    <3>. QED  BY <1>2, <3>1
  <2>. QED  BY <2>1, <2>2
<1>8. \A m, n \in ms : SameKey(m, n) => m = n
  <2>1. ASSUME NEW j \in ms, NEW k \in ms, SameKey(j, k) PROVE j = k
    <3>1. PICK m \in t.mutes : j = [m EXCEPT !.members = @ \cap t.muted]
      OBVIOUS
    <3>2. PICK n \in t.mutes : k = [n EXCEPT !.members = @ \cap t.muted]
      OBVIOUS
    <3>3. SameKey(m, n)
      BY <1>2, <2>1, <3>1, <3>2 DEF SameKey
    <3>. QED  BY <1>0, <3>1, <3>2, <3>3 DEF SoundMutes
  <2>. QED  BY <2>1
<1>9. mu \subseteq Object
  BY <1>0 DEF Parts
<1> HIDE DEF ms, ws, mu
<1>10. L \in Ledgers
  BY <1>0, <1>1, <1>3, <1>4, <1>9 DEF Ledgers, Parts
<1>11. /\ L.format = f /\ L.epoch = t.epoch /\ L.ops = t.ops /\ L.mutes = ms
       /\ L.withdrawals = ws /\ L.absent = t.absent /\ L.muted = mu
  BY <1>1
<1> HIDE DEF L
<1>12. SoundLedger(L)
  BY <1>0, <1>5, <1>7, <1>8, <1>10, <1>11 DEF SoundLedger, SoundDeletes
<1>. QED  BY <1>6, <1>11, <1>12 DEF L, ms, mu

-----------------------------------------------------------------------------
(* The replay of a ledger, one part after the other.                          *)
MutedAfter(t, ledger) ==
    (IF ledger.format = "full" THEN (t.muted \cap t.blocked) \cup ledger.muted ELSE t.muted)
        \cup Members(ledger.mutes)

MutesAfter(t, ledger) ==
    t.mutes \cup {m \in ledger.mutes :
                    \A own \in t.mutes : own.target # m.target \/ own.generation # m.generation}

LEMMA MutesReplayedIs ==
    ASSUME NEW t \in TruthStates, NEW L \in Ledgers
    PROVE  LET a == MutesReplayed(t, L)
           IN  /\ a \in TruthStates /\ a.muted = MutedAfter(t, L) /\ a.mutes = MutesAfter(t, L)
               /\ a.epoch = t.epoch /\ a.head = t.head /\ a.words = t.words /\ a.blocked = t.blocked
               /\ a.absent = t.absent /\ a.ops = t.ops /\ a.generation = t.generation
<1> DEFINE a == MutesReplayed(t, L)
<1>1. MutedAfter(t, L) \in SUBSET Object /\ MutesAfter(t, L) \in SUBSET Mutes
  BY PartsOf DEF Parts, Ledgers, MutedAfter, MutesAfter, Members, Mutes
<1>2. a = [t EXCEPT !.muted = MutedAfter(t, L), !.mutes = MutesAfter(t, L)]
  BY DEF MutesReplayed, MutedAfter, MutesAfter, Members
<1> HIDE DEF a
<1>3. a \in TruthStates
  BY <1>1, <1>2, Zenon DEF TruthStates
<1>. QED  BY <1>2, <1>3 DEF TruthStates, a

OpsAfter(t, ledger) ==
    {op \in t.ops : \A other \in ledger.ops : other.members # op.members}
        \cup {RequeuedOperation(op) : op \in ledger.ops}

LEMMA RequeuedIs ==
    ASSUME NEW op \in Operations
    PROVE  LET q == RequeuedOperation(op)
           IN  q \in Operations /\ q.members = op.members /\ q.vector = FALSE /\ q.history = FALSE
  BY DEF RequeuedOperation, Operations

LEMMA OperationsReplayedIs ==
    ASSUME NEW t \in TruthStates, NEW L \in Ledgers
    PROVE  LET a == OperationsReplayed(t, L)
           IN  /\ a \in TruthStates /\ a.blocked = t.blocked \cup Members(L.ops)
               /\ a.muted = t.muted \cup Members(L.ops) /\ a.words = t.words \ Members(L.ops)
               /\ a.ops = OpsAfter(t, L)
               /\ a.epoch = t.epoch /\ a.head = t.head
               /\ a.absent = t.absent /\ a.mutes = t.mutes /\ a.generation = t.generation
<1> DEFINE a == OperationsReplayed(t, L)
<1> DEFINE ms == Members(L.ops)
<1>1. ms \in SUBSET Object
  BY DEF Ledgers, Members, Operations
<1>2. OpsAfter(t, L) \in SUBSET Operations
  BY PartsOf, RequeuedIs DEF Parts, Ledgers, OpsAfter
<1>3. a = [t EXCEPT !.blocked = @ \cup ms, !.muted = @ \cup ms, !.words = @ \ ms, !.ops = OpsAfter(t, L)]
  BY DEF OperationsReplayed, OpsAfter, Members
<1> HIDE DEF a, ms
<1>4. t.blocked \cup ms \in SUBSET Object /\ t.muted \cup ms \in SUBSET Object
      /\ t.words \ ms \in SUBSET Object
  BY <1>1, PartsOf DEF Parts
<1>5. a \in TruthStates
  BY <1>2, <1>3, <1>4, Zenon DEF TruthStates
<1>. QED  BY <1>3, <1>5 DEF TruthStates, a, ms

(* The claims a ledger withdraws and what a content holds of them unblocked.  *)
Withdrawn(t, ledger, o) ==
    \E w \in ledger.withdrawals : w[1] = o /\ o \in Rows(t) \ t.blocked /\ t.head[o].rev < w[2]

AbsentAfter(t, ledger) ==
    t.absent \cup ledger.absent
        \cup {w[1] : w \in {v \in ledger.withdrawals : v[1] \notin Rows(t) \ t.blocked}}

LEMMA WithdrawalsReplayedIs ==
    ASSUME NEW t \in TruthStates, NEW L, SoundLedger(L)
    PROVE  LET a == WithdrawalsReplayed(t, L)
           IN  /\ a \in TruthStates /\ a.absent = AbsentAfter(t, L) /\ Rows(a) = Rows(t)
               /\ \A w \in L.withdrawals : w[1] \in Rows(t) \ t.blocked /\ t.head[w[1]].rev < w[2] =>
                     a.head[w[1]] = [rev |-> w[2], withdrawn |-> TRUE]
               /\ \A o \in Object : ~Withdrawn(t, L, o) => a.head[o] = t.head[o]
               /\ a.epoch = t.epoch /\ a.words = t.words /\ a.blocked = t.blocked /\ a.muted = t.muted
               /\ a.ops = t.ops /\ a.mutes = t.mutes /\ a.generation = t.generation
<1> DEFINE a == WithdrawalsReplayed(t, L)
<1> DEFINE h == [o \in Object |->
                   IF \E w \in L.withdrawals : w[1] = o /\ o \in Rows(t) \ t.blocked /\ t.head[o].rev < w[2]
                   THEN [rev |-> (CHOOSE w \in L.withdrawals : w[1] = o)[2], withdrawn |-> TRUE]
                   ELSE t.head[o]]
<1>0. /\ Parts(t) /\ L.withdrawals \subseteq Claim \X Nat /\ L.absent \subseteq Object
      /\ \A v, w \in L.withdrawals : v[1] = w[1] => v = w
  BY PartsOf DEF SoundLedger, Ledgers
<1>1. a = [t EXCEPT !.head = h, !.absent = AbsentAfter(t, L)]
  BY DEF WithdrawalsReplayed, AbsentAfter
<1>2. ASSUME NEW w \in L.withdrawals
      PROVE  (CHOOSE v \in L.withdrawals : v[1] = w[1]) = w
  BY <1>0, <1>2
<1>3. ASSUME NEW w \in L.withdrawals, w[1] \in Rows(t) \ t.blocked, t.head[w[1]].rev < w[2]
      PROVE  h[w[1]] = [rev |-> w[2], withdrawn |-> TRUE]
  <2>1. w[1] \in Object
    BY <1>0, <1>3 DEF Object
  <2>2. \E v \in L.withdrawals : v[1] = w[1] /\ w[1] \in Rows(t) \ t.blocked /\ t.head[w[1]].rev < v[2]
    BY <1>3
  <2>. QED  BY <1>2, <2>1, <2>2
<1>4. ASSUME NEW o \in Object, ~Withdrawn(t, L, o)
      PROVE  h[o] = t.head[o]
  BY <1>4 DEF Withdrawn
<1>5. ASSUME NEW o \in Object
      PROVE  h[o] \in Heads /\ (h[o].rev > 0 <=> t.head[o].rev > 0)
  <2>1. t.head[o] \in Heads
    BY <1>0 DEF Parts
  <2>2. CASE Withdrawn(t, L, o)
    <3>1. PICK w \in L.withdrawals : w[1] = o /\ o \in Rows(t) \ t.blocked /\ t.head[o].rev < w[2]
      BY <2>2 DEF Withdrawn
    <3>2. h[o] = [rev |-> w[2], withdrawn |-> TRUE]
      BY <1>3, <3>1
    <3>3. w[2] \in Nat /\ t.head[o].rev \in Nat /\ t.head[o].rev > 0
      BY <1>0, <2>1, <3>1 DEF Heads, Rows
    <3> HIDE DEF h
    <3>. QED  BY <3>1, <3>2, <3>3 DEF Heads
  <2>3. CASE ~Withdrawn(t, L, o)
    <3> HIDE DEF h
    <3>. QED  BY <1>4, <2>1, <2>3
  <2>. QED  BY <2>2, <2>3
<1>6. h = [o \in Object |-> h[o]]
  OBVIOUS
<1> HIDE DEF h
<1>7. h \in [Object -> Heads]
  BY <1>5, <1>6
<1>8. AbsentAfter(t, L) \in SUBSET Object
  BY <1>0 DEF AbsentAfter, Parts, Object
<1> HIDE DEF a
<1>9. a \in TruthStates
  BY <1>1, <1>7, <1>8, Zenon DEF TruthStates
<1>10. /\ a.head = h /\ a.absent = AbsentAfter(t, L)
       /\ a.epoch = t.epoch /\ a.words = t.words /\ a.blocked = t.blocked /\ a.muted = t.muted
       /\ a.ops = t.ops /\ a.mutes = t.mutes /\ a.generation = t.generation
  BY <1>1 DEF TruthStates
<1>11. Rows(a) = Rows(t)
  BY <1>5, <1>10 DEF Rows
<1>. QED  BY <1>3, <1>4, <1>9, <1>10, <1>11, Zenon DEF a

LEMMA EpochsReplayedIs ==
    ASSUME NEW t \in TruthStates, NEW L, SoundLedger(L)
    PROVE  LET a == EpochsReplayed(t, L)
           IN  /\ a \in TruthStates /\ a.epoch > t.epoch /\ a.epoch > L.epoch
               /\ a.generation > L.epoch
               /\ t.generation <= t.epoch => a.generation <= a.epoch
               /\ a.head = t.head /\ a.words = t.words /\ a.blocked = t.blocked /\ a.muted = t.muted
               /\ a.absent = t.absent /\ a.ops = t.ops /\ a.mutes = t.mutes
<1> DEFINE a == EpochsReplayed(t, L)
<1> DEFINE e == Max({t.epoch, L.epoch})
<1> DEFINE g == Max({t.generation, L.epoch + 1})
<1>1. t.epoch \in Nat /\ t.generation \in Nat /\ L.epoch \in Nat /\ L.epoch + 1 \in Nat
  BY PartsOf DEF Parts, SoundLedger, Ledgers
<1>2. /\ e = IF t.epoch <= L.epoch THEN L.epoch ELSE t.epoch
      /\ g = IF t.generation <= L.epoch + 1 THEN L.epoch + 1 ELSE t.generation
  BY <1>1, LargerOf, Zenon
<1>3. a = [t EXCEPT !.epoch = e + 1, !.generation = g]
  BY DEF EpochsReplayed
<1> HIDE DEF e, g, a
<1>4. e + 1 \in Nat /\ g \in Nat
  BY <1>1, <1>2
<1>5. a \in TruthStates
  BY <1>3, <1>4, Zenon DEF TruthStates
<1>6. /\ a.epoch = e + 1 /\ a.generation = g
      /\ a.head = t.head /\ a.words = t.words /\ a.blocked = t.blocked /\ a.muted = t.muted
      /\ a.absent = t.absent /\ a.ops = t.ops /\ a.mutes = t.mutes
  BY <1>3 DEF TruthStates
<1>7. /\ a.epoch > t.epoch /\ a.epoch > L.epoch /\ a.generation > L.epoch
      /\ t.generation <= t.epoch => a.generation <= a.epoch
  BY <1>1, <1>2, <1>6
<1>. QED  BY <1>5, <1>6, <1>7 DEF a

(* The rows of a content that its own blocks and a ledger's leave readable.   *)
Held(t, ledger) == Rows(t) \ (t.blocked \cup Members(ledger.ops))

LEMMA ReplayedIs ==
    ASSUME NEW t \in TruthStates, t.generation <= t.epoch, NEW L, SoundLedger(L)
    PROVE  LET u == Replayed(t, L)
           IN  /\ u \in TruthStates /\ Rows(u) = Rows(t)
               /\ u.epoch > t.epoch /\ u.epoch > L.epoch
               /\ u.generation > L.epoch /\ u.generation <= u.epoch
               /\ u.words = t.words \ Members(L.ops)
               /\ u.blocked = t.blocked \cup Members(L.ops)
               /\ u.muted = MutedAfter(t, L) \cup Members(L.ops)
               /\ u.mutes = MutesAfter(t, L) /\ u.ops = OpsAfter(t, L)
               /\ t.absent \cup L.absent \subseteq u.absent
               /\ \A w \in L.withdrawals :
                     /\ w[1] \notin Held(t, L) => w[1] \in u.absent
                     /\ w[1] \in Held(t, L) /\ t.head[w[1]].rev < w[2] =>
                           u.head[w[1]] = [rev |-> w[2], withdrawn |-> TRUE]
<1> DEFINE a == MutesReplayed(t, L)
<1> DEFINE b == OperationsReplayed(a, L)
<1> DEFINE c == WithdrawalsReplayed(b, L)
<1> DEFINE u == EpochsReplayed(c, L)
<1>0. L \in Ledgers
  BY DEF SoundLedger
<1>1. /\ a \in TruthStates /\ a.muted = MutedAfter(t, L) /\ a.mutes = MutesAfter(t, L)
      /\ a.epoch = t.epoch /\ a.head = t.head /\ a.words = t.words /\ a.blocked = t.blocked
      /\ a.absent = t.absent /\ a.ops = t.ops /\ a.generation = t.generation
  BY <1>0, MutesReplayedIs, Zenon
<1> HIDE DEF a
<1>2. /\ b \in TruthStates /\ b.blocked = a.blocked \cup Members(L.ops)
      /\ b.muted = a.muted \cup Members(L.ops) /\ b.words = a.words \ Members(L.ops)
      /\ b.ops = OpsAfter(a, L)
      /\ b.epoch = a.epoch /\ b.head = a.head
      /\ b.absent = a.absent /\ b.mutes = a.mutes /\ b.generation = a.generation
  BY <1>0, <1>1, OperationsReplayedIs, Zenon
<1> HIDE DEF b
<1>3. /\ c \in TruthStates /\ c.absent = AbsentAfter(b, L) /\ Rows(c) = Rows(b)
      /\ \A w \in L.withdrawals : w[1] \in Rows(b) \ b.blocked /\ b.head[w[1]].rev < w[2] =>
            c.head[w[1]] = [rev |-> w[2], withdrawn |-> TRUE]
      /\ \A o \in Object : ~Withdrawn(b, L, o) => c.head[o] = b.head[o]
      /\ c.epoch = b.epoch /\ c.words = b.words /\ c.blocked = b.blocked /\ c.muted = b.muted
      /\ c.ops = b.ops /\ c.mutes = b.mutes /\ c.generation = b.generation
  BY <1>2, WithdrawalsReplayedIs, Zenon
<1> HIDE DEF c
<1>4. /\ u \in TruthStates /\ u.epoch > c.epoch /\ u.epoch > L.epoch
      /\ u.generation > L.epoch
      /\ c.generation <= c.epoch => u.generation <= u.epoch
      /\ u.head = c.head /\ u.words = c.words /\ u.blocked = c.blocked /\ u.muted = c.muted
      /\ u.absent = c.absent /\ u.ops = c.ops /\ u.mutes = c.mutes
  BY <1>3, EpochsReplayedIs, Zenon
<1> HIDE DEF u
<1>5. u = Replayed(t, L)
  BY Zenon DEF Replayed, u, c, b, a
<1>6. Rows(u) = Rows(t) /\ Rows(b) = Rows(t) /\ Rows(b) \ b.blocked = Held(t, L)
  BY <1>1, <1>2, <1>3, <1>4 DEF Rows, Held
<1>7. OpsAfter(a, L) = OpsAfter(t, L)
  BY <1>1 DEF OpsAfter
<1>8. t.absent \cup L.absent \subseteq u.absent
  BY <1>1, <1>2, <1>3, <1>4 DEF AbsentAfter
<1>9. ASSUME NEW w \in L.withdrawals
      PROVE  /\ w[1] \notin Held(t, L) => w[1] \in u.absent
             /\ w[1] \in Held(t, L) /\ t.head[w[1]].rev < w[2] =>
                   u.head[w[1]] = [rev |-> w[2], withdrawn |-> TRUE]
  <2>1. w[1] \notin Held(t, L) => w[1] \in u.absent
    BY <1>3, <1>4, <1>6, <1>9 DEF AbsentAfter
  <2>2. b.head = t.head
    BY <1>1, <1>2
  <2>. QED  BY <1>3, <1>4, <1>6, <1>9, <2>1, <2>2, Zenon
<1>10. c.generation = t.generation /\ c.epoch = t.epoch /\ c.words = t.words \ Members(L.ops)
       /\ c.blocked = t.blocked \cup Members(L.ops) /\ c.muted = MutedAfter(t, L) \cup Members(L.ops)
  BY <1>1, <1>2, <1>3, Zenon
<1>11. /\ u.epoch > t.epoch /\ u.generation <= u.epoch /\ u.words = t.words \ Members(L.ops)
       /\ u.blocked = t.blocked \cup Members(L.ops) /\ u.muted = MutedAfter(t, L) \cup Members(L.ops)
       /\ u.mutes = MutesAfter(t, L) /\ u.ops = OpsAfter(t, L)
  BY <1>1, <1>2, <1>3, <1>4, <1>7, <1>10, Zenon
<1>. QED  BY <1>4, <1>5, <1>6, <1>8, <1>9, <1>11, Zenon

-----------------------------------------------------------------------------
(* Operations carry the epoch they were committed in.                         *)
Dated(t) == \A op \in t.ops : op.epoch <= t.epoch

(* The store and its bundles: a bundle is the store of an earlier moment, and *)
(* nothing forgotten is taken back in between.                                *)
StoreOnward ==
    /\ Sound(truth) /\ Dated(truth)
    /\ \A b \in bundles : Sound(b) /\ Dated(b) /\ b.ops \subseteq truth.ops /\ b.epoch <= truth.epoch

(* Nothing is in a journal that the store did not commit.                     *)
JournalsOfTheStore == \A f \in File : files[f].records \subseteq Wanted(truth)

(* The checkpoint knows only what is in the journal it was saved beside; a    *)
(* pass under the lock has them both before it.                               *)
CheckpointVouches == cache.known \subseteq cache.at.records

PassInOrder ==
    \A p \in Pass :
        /\ pass[p].pc \in {"scanned", "appending"} => cache.known \subseteq files["journal"].records
        /\ IF pass[p].pc = "appending"
           THEN /\ pass[p].sees \subseteq Wanted(truth)
                /\ pass[p].todo \subseteq pass[p].sees
                /\ pass[p].sees \ pass[p].todo \subseteq files["journal"].records
           ELSE pass[p].sees = {} /\ pass[p].todo = {}

Holds(p) == pass[p].pc \in {"scanned", "appending", "misplaced"}
OneHolds == \A p, q \in Pass : Holds(p) /\ Holds(q) => p = q

(* What a destination holds that was replayed.                                *)
KeepsForgotten(r) ==
    /\ (r.owed \cup r.bundle.blocked) \cap (Visible(r.truth) \cup r.truth.words) = {}
    /\ r.bundle.muted \subseteq r.truth.muted
    /\ \A op \in r.truth.ops : op.epoch < r.truth.epoch

RecoveryInOrder ==
    /\ recovery.pc = "fenced" =>
          /\ recovery.bundle \in bundles /\ recovery.truth = recovery.bundle
          /\ recovery.records \subseteq Wanted(truth)
          /\ recovery.owed \subseteq Deleting(recovery.records)
    /\ recovery.pc \in {"replayed", "open"} => KeepsForgotten(recovery)

Inv ==
    TypeOK /\ StoreOnward /\ JournalsOfTheStore /\ CheckpointVouches /\ PassInOrder /\ OneHolds
    /\ RecoveryInOrder
-----------------------------------------------------------------------------
(* Numbers below a bound have a largest one.                                  *)
LEMMA Largest ==
    ASSUME NEW T \in SUBSET Nat, T # {}, NEW b \in Nat, \A x \in T : x <= b
    PROVE  Max(T) \in T /\ \A x \in T : x <= Max(T)
<1> DEFINE Bounds == {u \in Nat : \A x \in T : x <= u}
           Below == {0 .. u : u \in Bounds}
           R == StrictSubsetOrdering(Nat)
<1>1. Below \subseteq FiniteSubsetsOf(Nat) /\ Below # {}
  <2>1. \A u \in Nat : 0 .. u \in FiniteSubsetsOf(Nat)
    BY FS_Interval DEF FiniteSubsetsOf
  <2>2. b \in Bounds
    OBVIOUS
  <2>. QED  BY <2>1, <2>2
<1>2. \E D \in Below : \A E \in Below : ~ (<<E, D>> \in R)
  <2> HIDE DEF Below, R
  <2>1. IsWellFoundedOn(R, FiniteSubsetsOf(Nat))
    BY FS_StrictSubsetOrderingWellFounded DEF R
  <2>. QED  BY <1>1, <2>1, WFMin
<1>3. PICK m \in Bounds : \A E \in Below : ~ (<<E, 0 .. m>> \in R)
  BY <1>2
<1>4. \A u \in Bounds : m <= u
  <2> SUFFICES ASSUME NEW u \in Bounds, u < m PROVE FALSE
    OBVIOUS
  <2>1. 0 .. u \in Below /\ 0 .. u \subseteq 0 .. m /\ 0 .. u \subseteq Nat /\ 0 .. m \subseteq Nat
    OBVIOUS
  <2>2. m \in 0 .. m /\ m \notin 0 .. u
    OBVIOUS
  <2>3. <<0 .. u, 0 .. m>> \in R
    BY <2>1, <2>2 DEF StrictSubsetOrdering
  <2>. QED  BY <1>3, <2>1, <2>3
<1>5. m \in T
  <2> SUFFICES ASSUME m \notin T PROVE FALSE
    OBVIOUS
  <2>1. PICK x \in T : TRUE
    OBVIOUS
  <2>2. \A y \in T : y <= m - 1
    OBVIOUS
  <2>3. x <= m - 1 /\ x \in Nat
    BY <2>2
  <2>4. m - 1 \in Bounds
    BY <2>2, <2>3
  <2>. QED  BY <1>4, <2>4
<1>6. m \in T /\ \A y \in T : m >= y
  BY <1>5
<1>7. Max(T) \in T /\ \A y \in T : Max(T) >= y
  <2>1. Max(T) = CHOOSE x \in T : \A y \in T : x >= y
    BY Zenon DEF Max
  <2>. QED  BY <1>6, <2>1
<1>. QED  BY <1>7

LEMMA AtMostOne ==
    ASSUME NEW S, \A p, q \in Pass : p \in S /\ q \in S => p = q
    PROVE  Cardinality({p \in Pass : p \in S}) <= 1
<1> DEFINE T == {p \in Pass : p \in S}
<1>1. CASE T = {}
  BY <1>1, FS_EmptySet
<1>2. CASE T # {}
  <2>1. PICK p \in T : T = {p}
    BY <1>2
  <2>. QED  BY <2>1, FS_Singleton
<1>. QED  BY <1>1, <1>2

-----------------------------------------------------------------------------
(* Records and the operations they stand for.                                 *)
LEMMA WantedIs ==
    ASSUME NEW t \in TruthStates
    PROVE  /\ Wanted(t) \subseteq Lines
           /\ \A r \in Operative(Wanted(t)) : \E op \in t.ops : r = Record(op)
           /\ Deleting(Wanted(t)) = Members(t.ops)
<1>1. t.ops \subseteq Operations
  BY PartsOf DEF Parts
<1>2. \A op \in t.ops : Record(op) \in Lines /\ Record(op).kind = "operation" /\ Record(op).members = op.members
  BY <1>1 DEF Record, Lines, Operations
<1>3. Identity \in Lines /\ Identity.kind # "operation"
  BY DEF Identity, Lines
<1>4. Wanted(t) \subseteq Lines
  BY <1>2, <1>3 DEF Wanted
<1>5. Operative(Wanted(t)) = {Record(op) : op \in t.ops}
  BY <1>2, <1>3 DEF Operative, Wanted
<1>6. Deleting(Wanted(t)) = Members(t.ops)
  BY <1>2, <1>5 DEF Deleting, Members
<1>. QED  BY <1>4, <1>5, <1>6

LEMMA OfFewer ==
    ASSUME NEW S, NEW T, S \subseteq T
    PROVE  Operative(S) \subseteq Operative(T) /\ Deleting(S) \subseteq Deleting(T)
<1>1. Operative(S) \subseteq Operative(T)
  BY DEF Operative
<1>. QED  BY <1>1 DEF Deleting

(* The ledger a destination replays: the bundle's own, with the journal's     *)
(* operations in place of those it has too.  Both are the store's, so each is *)
(* there once.                                                                *)
LEMMA RecoveryLedgerIs ==
    ASSUME NEW t, Sound(t), Dated(t), NEW T, Sound(T), Dated(T), t.ops \subseteq T.ops,
           t.epoch <= T.epoch, NEW R, R \subseteq Wanted(T)
    PROVE  LET L == RecoveryLedger(t, R)
           IN  /\ SoundLedger(L) /\ L.format = "full" /\ L.muted = t.muted \ t.blocked
               /\ t.blocked \cup Deleting(R) \subseteq Members(L.ops)
               /\ \A op \in L.ops : op.epoch <= L.epoch /\ Record(op) \in Wanted(T)
<1> DEFINE own == LedgerOf(t, "full")
           ops == Operative(R)
           all == {op \in own.ops : Record(op) \notin ops} \cup {Replaying(r) : r \in ops}
           epochs == {own.epoch} \cup {r.epoch : r \in ops}
           top == Max(epochs)
           L == RecoveryLedger(t, R)
<1>1. /\ SoundLedger(own) /\ own.format = "full" /\ own.epoch = t.epoch /\ own.ops = t.ops
      /\ own.muted = t.muted \ t.blocked
  BY LedgerIs, Zenon
<1>2. t \in TruthStates /\ T \in TruthStates /\ t.epoch \in Nat /\ T.epoch \in Nat /\ T.ops \subseteq Operations
  BY PartsOf DEF Sound, Parts
<1>3. \A r \in ops : \E op \in T.ops : r = Record(op)
  BY <1>2, WantedIs, OfFewer
<1>4. \A op \in Operations :
          /\ Record(op).members = op.members /\ Record(op).epoch = op.epoch
          /\ Record(op) = [kind |-> "operation", members |-> op.members, epoch |-> op.epoch]
          /\ Replaying(Record(op)) \in Operations
          /\ Replaying(Record(op)).members = op.members /\ Replaying(Record(op)).epoch = op.epoch
          /\ Record(Replaying(Record(op))) = Record(op)
  BY DEF Record, Replaying, Operations
<1>5. epochs \in SUBSET Nat /\ epochs # {} /\ \A x \in epochs : x <= T.epoch
  BY <1>1, <1>2, <1>3, <1>4 DEF Dated, Operations
<1>6. top \in Nat /\ t.epoch <= top /\ \A r \in ops : r.epoch <= top
  <2>1. top \in epochs /\ \A x \in epochs : x <= top
    BY <1>2, <1>5, Largest
  <2>. QED  BY <1>1, <1>5, <2>1
<1>7. L = [own EXCEPT !.ops = all, !.epoch = top]
  BY <1>1, Zenon DEF RecoveryLedger
<1>8. all \in SUBSET Operations
  BY <1>1, <1>2, <1>3, <1>4
<1>9. own \in Ledgers
  BY <1>1 DEF SoundLedger
<1> HIDE DEF own, all, top, L
<1>10. /\ L \in Ledgers /\ L.ops = all /\ L.epoch = top /\ L.format = own.format /\ L.muted = own.muted
       /\ L.mutes = own.mutes /\ L.withdrawals = own.withdrawals
  BY <1>6, <1>7, <1>8, <1>9 DEF Ledgers
<1>11. \A op \in T.ops : op \in Operations /\ op.epoch <= T.epoch /\ Record(op) \in Wanted(T)
  BY <1>2 DEF Dated, Wanted
<1>12. ASSUME NEW op \in all
       PROVE  op.epoch <= top /\ Record(op) \in Wanted(T)
  <2>1. CASE op \in own.ops
    BY <1>1, <1>2, <1>6, <1>11, <2>1 DEF Dated, Operations
  <2>2. CASE \E r \in ops : op = Replaying(r)
    <3>1. PICK r \in ops : op = Replaying(r)
      BY <2>2
    <3>2. PICK source \in T.ops : r = Record(source)
      BY <1>3
    <3>. QED  BY <1>4, <1>6, <1>11, <3>1, <3>2
  <2>. QED  BY <2>1, <2>2 DEF all
<1>13. \A o, p \in all : o.members = p.members => o = p
  <2>1. \A o, p \in T.ops : o.members = p.members => Record(o) = Record(p)
    BY <1>2 DEF Sound, SoundDeletes
  <2>2. ASSUME NEW o \in own.ops, Record(o) \notin ops, NEW r \in ops
        PROVE  o.members # Replaying(r).members
    <3>1. PICK source \in T.ops : r = Record(source)
      BY <1>3
    <3>2. o \in T.ops /\ Replaying(r).members = source.members
      BY <1>1, <1>2, <1>4, <3>1
    <3>. QED  BY <2>1, <2>2, <3>1, <3>2
  <2>3. ASSUME NEW r \in ops, NEW q \in ops, Replaying(r).members = Replaying(q).members
        PROVE  r = q
    <3>1. PICK o \in T.ops : r = Record(o)
      BY <1>3
    <3>2. PICK p \in T.ops : q = Record(p)
      BY <1>3
    <3>. QED  BY <1>2, <1>4, <2>1, <2>3, <3>1, <3>2
  <2>4. \A o, p \in own.ops : o.members = p.members => o = p
    BY <1>1 DEF Sound, SoundDeletes
  <2>. QED  BY <2>2, <2>3, <2>4, Zenon DEF all
<1>14. t.blocked \cup Deleting(R) \subseteq Members(all)
  <2>1. t.blocked = Members(own.ops)
    BY <1>1 DEF Sound, SoundDeletes
  <2>2. \A r \in ops : Replaying(r) \in all /\ Replaying(r).members = r.members
    BY <1>2, <1>3, <1>4 DEF all
  <2>3. ASSUME NEW o \in own.ops
        PROVE  \E p \in all : p.members = o.members
    <3>1. CASE Record(o) \in ops
      BY <1>1, <1>2, <1>4, <2>2, <3>1
    <3>2. CASE Record(o) \notin ops
      BY <3>2 DEF all
    <3>. QED  BY <3>1, <3>2
  <2>4. Deleting(R) \subseteq Members(all)
    BY <2>2 DEF Deleting, Members
  <2>. QED  BY <2>1, <2>3, <2>4 DEF Members
<1>15. SoundLedger(L)
  <2>1. own.mutes \subseteq Mutes /\ own.epoch \in Nat
    BY <1>9 DEF Ledgers
  <2>2. \A m \in L.mutes : m.generation <= L.epoch
    BY <1>1, <1>6, <1>10, <2>1 DEF SoundLedger, Mutes
  <2>. QED  BY <1>1, <1>10, <1>13, <2>2, Zenon DEF SoundLedger
<1>. QED  BY <1>1, <1>10, <1>12, <1>14, <1>15 DEF L

(* What that replay makes of the bundle.                                      *)
LEMMA DestinationIs ==
    ASSUME NEW t, Sound(t), Dated(t), NEW T, Sound(T), Dated(T), t.ops \subseteq T.ops,
           t.epoch <= T.epoch, NEW R, R \subseteq Wanted(T)
    PROVE  LET u == Replayed(t, RecoveryLedger(t, R))
           IN  /\ u \in TruthStates /\ Wanted(u) \subseteq Wanted(T) /\ Dated(u)
               /\ (Deleting(R) \cup t.blocked) \cap (Visible(u) \cup u.words) = {}
               /\ t.muted \subseteq u.muted
               /\ \A op \in u.ops : op.epoch < u.epoch
<1> DEFINE L == RecoveryLedger(t, R)
           u == Replayed(t, L)
<1>1. /\ SoundLedger(L) /\ L.format = "full" /\ L.muted = t.muted \ t.blocked
      /\ t.blocked \cup Deleting(R) \subseteq Members(L.ops)
      /\ \A op \in L.ops : op.epoch <= L.epoch /\ Record(op) \in Wanted(T)
  BY RecoveryLedgerIs, Zenon
<1>2. t \in TruthStates /\ t.generation <= t.epoch
  BY DEF Sound, SoundMutes
<1> HIDE DEF L
<1>3. /\ u \in TruthStates /\ u.epoch > t.epoch /\ u.epoch > L.epoch
      /\ u.words = t.words \ Members(L.ops) /\ u.blocked = t.blocked \cup Members(L.ops)
      /\ u.muted = MutedAfter(t, L) \cup Members(L.ops) /\ u.ops = OpsAfter(t, L)
  BY <1>1, <1>2, ReplayedIs, Zenon
<1> HIDE DEF u
<1>4. t.muted \subseteq u.muted
  BY <1>1, <1>3 DEF MutedAfter
<1>5. (Deleting(R) \cup t.blocked) \cap (Visible(u) \cup u.words) = {}
  BY <1>1, <1>3 DEF Visible
<1>6. L.ops \subseteq Operations /\ t.ops \subseteq Operations /\ L.epoch \in Nat /\ t.epoch \in Nat /\ u.epoch \in Nat
  BY <1>1, <1>2, <1>3, PartsOf DEF Parts, SoundLedger, Ledgers
<1>7. ASSUME NEW op \in u.ops
      PROVE  op.epoch < u.epoch /\ Record(op) \in Wanted(T)
  <2>1. CASE op \in t.ops
    <3>1. op.epoch \in Nat /\ op.epoch <= t.epoch
      BY <1>6, <2>1 DEF Dated, Operations
    <3>2. Record(op) \in Wanted(T)
      BY <2>1 DEF Wanted
    <3>. QED  BY <1>3, <1>6, <3>1, <3>2
  <2>2. CASE \E own \in L.ops : op = RequeuedOperation(own)
    <3>1. PICK own \in L.ops : op = RequeuedOperation(own)
      BY <2>2
    <3>2. op.epoch = own.epoch /\ Record(op) = Record(own) /\ own.epoch \in Nat
      BY <1>6, <3>1 DEF RequeuedOperation, Operations, Record
    <3>. QED  BY <1>1, <1>3, <1>6, <3>2
  <2>. QED  BY <1>3, <2>1, <2>2 DEF OpsAfter
<1>8. Wanted(u) \subseteq Wanted(T)
  BY <1>7 DEF Wanted
<1>9. Dated(u)
  <2>1. u.ops \subseteq Operations
    BY <1>3, PartsOf DEF Parts
  <2>. QED  BY <1>6, <1>7, <2>1 DEF Dated, Operations
<1>. QED  BY <1>3, <1>4, <1>5, <1>7, <1>8, <1>9 DEF u, L

-----------------------------------------------------------------------------
(* What a step keeps of the invariant by what it leaves alone.                *)
PassStates == [pc : {"idle", "due", "scanned", "appending", "misplaced", "staging"},
               sees : SUBSET Lines, todo : SUBSET Lines]

Resting == {[pc |-> x, sees |-> {}, todo |-> {}] : x \in {"idle", "due", "staging"}}

LEMMA IdleRests == Idle \in Resting /\ Resting \subseteq PassStates
  BY DEF Idle, Resting, PassStates

LEMMA LockTyped ==
    OneHolds' => Cardinality({p \in Pass : pass'[p].pc \in {"scanned", "appending", "misplaced"}}) <= 1
<1> SUFFICES ASSUME OneHolds'
             PROVE  Cardinality({p \in Pass : pass'[p].pc \in {"scanned", "appending", "misplaced"}}) <= 1
  OBVIOUS
<1> DEFINE S == {p \in Pass : pass'[p].pc \in {"scanned", "appending", "misplaced"}}
<1>1. \A p, q \in Pass : p \in S /\ q \in S => p = q
  BY DEF OneHolds, Holds
<1>2. S = {p \in Pass : p \in S}
  OBVIOUS
<1> HIDE DEF S
<1>3. Cardinality({p \in Pass : p \in S}) <= 1
  BY <1>1, AtMostOne
<1>. QED  BY <1>2, <1>3 DEF S

(* Nothing but the passes moves, and no line is added or lost.                *)
LEMMA PassesMove ==
    ASSUME Inv, UNCHANGED <<truth, bundles, cache, recovery, promised>>,
           files' \in [File -> Journals], \A f \in File : files'[f].records = files[f].records,
           {lost', configured', lag'} \subseteq BOOLEAN, faults' \in Nat,
           pass' \in [Pass -> PassStates], OneHolds', PassInOrder'
    PROVE  Inv'
<1>1. TypeOK'
  <2>1. \A f \in File : promised'[f] \subseteq Deleting(files'[f].records)
    BY DEF Inv, TypeOK
  <2>2. Cardinality({p \in Pass : pass'[p].pc \in {"scanned", "appending", "misplaced"}}) <= 1
    BY LockTyped
  <2>. QED  BY <2>1, <2>2 DEF Inv, TypeOK, PassStates
<1>2. StoreOnward' /\ JournalsOfTheStore' /\ CheckpointVouches'
  BY DEF Inv, StoreOnward, JournalsOfTheStore, CheckpointVouches, Dated
<1>3. RecoveryInOrder'
  BY DEF Inv, RecoveryInOrder
<1>. QED  BY <1>1, <1>2, <1>3 DEF Inv

(* One pass comes to rest, or starts from rest.                               *)
LEMMA PassRests ==
    ASSUME Inv, NEW p \in Pass, NEW v \in Resting, pass' = [pass EXCEPT ![p] = v],
           UNCHANGED <<truth, bundles, cache, recovery, promised>>,
           files' \in [File -> Journals], \A f \in File : files'[f].records = files[f].records,
           {lost', configured', lag'} \subseteq BOOLEAN, faults' \in Nat
    PROVE  Inv'
<1>1. pass \in [Pass -> PassStates]
  BY DEF Inv, TypeOK, PassStates
<1>2. v \in PassStates /\ v.pc \in {"idle", "due", "staging"} /\ v.sees = {} /\ v.todo = {}
  BY IdleRests DEF Resting
<1>3. pass' \in [Pass -> PassStates] /\ pass'[p] = v /\ \A q \in Pass : q # p => pass'[q] = pass[q]
  BY <1>1, <1>2
<1>4. OneHolds'
  BY <1>2, <1>3 DEF Inv, OneHolds, Holds
<1>5. PassInOrder'
  <2>1. "journal" \in File
    BY DEF File
  <2>. QED  BY <1>2, <1>3, <2>1 DEF Inv, PassInOrder
<1>. QED  BY <1>3, <1>4, <1>5, PassesMove

(* Who is not appending has nothing in hand.                                  *)
LEMMA AtRest ==
    ASSUME Inv, NEW p \in Pass, pass[p].pc \in {"idle", "due", "staging"}, NEW x \in {"idle", "due", "staging"}
    PROVE  [pass EXCEPT ![p].pc = x] = [pass EXCEPT ![p] = [pc |-> x, sees |-> {}, todo |-> {}]]
<1>1. pass[p] \in PassStates /\ pass[p].sees = {} /\ pass[p].todo = {}
  BY DEF Inv, TypeOK, PassInOrder, PassStates
<1>2. [pass[p] EXCEPT !.pc = x] = [pc |-> x, sees |-> {}, todo |-> {}]
  BY <1>1 DEF PassStates
<1>3. [pass EXCEPT ![p].pc = x] = [pass EXCEPT ![p] = [pass[p] EXCEPT !.pc = x]]
  BY DEF Inv, TypeOK
<1>. QED  BY <1>2, <1>3

-----------------------------------------------------------------------------
LEMMA InitInv == Init => Inv
<1> SUFFICES ASSUME Init PROVE Inv
  OBVIOUS
<1> USE DEF Init
<1>1. Sound(EmptyStore) /\ EmptyStore \in TruthStates /\ EmptyStore.ops = {}
  BY EmptyIs DEF Sound, EmptyStore
<1>2. \A p \in Pass : pass[p] = [pc |-> "idle", sees |-> {}, todo |-> {}]
  BY DEF Idle
<1>3. Idle \in PassStates
  BY IdleRests
<1>4. TypeOK
  <2>1. \A f \in File : files[f] = [records |-> {}, torn |-> FALSE] /\ promised[f] = {}
    BY DEF NoFile
  <2>2. files \in [File -> Journals] /\ promised \in [File -> SUBSET Object]
    BY DEF File, NoFile, Journals
  <2>3. \A f \in File : promised[f] \subseteq Deleting(files[f].records)
    BY <2>1
  <2>4. cache \in [at : Journals, known : SUBSET Lines]
    BY DEF NoFile, Journals
  <2>5. {p \in Pass : pass[p].pc \in {"scanned", "appending", "misplaced"}} = {}
    BY <1>2
  <2>6. Cardinality({p \in Pass : pass[p].pc \in {"scanned", "appending", "misplaced"}}) <= 1
    <3> DEFINE S == {p \in Pass : pass[p].pc \in {"scanned", "appending", "misplaced"}}
    <3> HIDE DEF S
    <3>1. S = {}
      BY <2>5 DEF S
    <3>2. Cardinality(S) <= 1
      BY <3>1, FS_EmptySet
    <3>. QED  BY <3>2 DEF S
  <2>7. recovery \in [pc : {"none", "fenced", "replayed", "open"}, file : File,
                      bundle : TruthStates, truth : TruthStates,
                      records : SUBSET Lines, owed : SUBSET Object]
    BY <1>1 DEF NoRecovery, File
  <2>. QED  BY <1>1, <1>3, <2>2, <2>3, <2>4, <2>6, <2>7 DEF TypeOK, PassStates
<1>5. StoreOnward
  BY <1>1 DEF StoreOnward, Dated
<1>6. JournalsOfTheStore /\ CheckpointVouches
  BY DEF JournalsOfTheStore, CheckpointVouches, File, NoFile
<1>7. PassInOrder /\ OneHolds
  BY <1>2 DEF PassInOrder, OneHolds, Holds
<1>8. RecoveryInOrder
  BY DEF RecoveryInOrder, NoRecovery
<1>. QED  BY <1>4, <1>5, <1>6, <1>7, <1>8 DEF Inv

-----------------------------------------------------------------------------
(* The owner.  What the store commits is wanted from then on.                 *)
LEMMA OwnerInv == ASSUME Inv, NEW o \in Object, Capture(o) \/ Forget(o) PROVE Inv'
<1>1. Sound(truth) /\ Dated(truth) /\ truth \in TruthStates /\ truth.epoch \in Nat /\ truth.ops \subseteq Operations
  BY PartsOf DEF Inv, StoreOnward, Sound, Parts
<1>2. Fenced(truth, Object)
  BY <1>1 DEF Fenced, Operations
<1>3. /\ truth' \in TruthStates /\ Sound(truth') /\ Dated(truth')
      /\ truth.ops \subseteq truth'.ops /\ truth.epoch <= truth'.epoch
  <2>1. CASE Capture(o)
    <3>1. MayCapture(truth, o) /\ truth' = Captured(truth, o)
      BY <2>1 DEF Capture
    <3>2. Sound(truth')
      BY <1>1, <1>2, <3>1, CapturedSound, Zenon
    <3>3. truth'.epoch = truth.epoch + 1 /\ truth'.ops = truth.ops
      BY <1>1, <3>1, CapturedIs, Zenon
    <3>4. Dated(truth')
      BY <1>1, <3>3 DEF Dated, Operations
    <3>. QED  BY <1>1, <3>2, <3>3, <3>4 DEF Sound
  <2>2. CASE Forget(o)
    <3>1. o \in Visible(truth) /\ truth' = Deleted(truth, o)
      BY <2>2 DEF Forget
    <3>2. Sound(truth')
      BY <1>1, <1>2, <3>1, DeletedSound, Zenon
    <3>3. truth'.epoch = truth.epoch + 1
      BY <1>1, <3>1, DeletedIs, Zenon
    <3>4. truth'.ops = truth.ops \cup {[members |-> Closure(truth, o), epoch |-> truth.epoch + 1,
                                        scrubbed |-> FALSE, vector |-> FALSE, history |-> FALSE, queued |-> TRUE]}
      BY <1>1, <3>1 DEF Deleted, Bumped, TruthStates
    <3>5. Dated(truth')
      BY <1>1, <3>3, <3>4 DEF Dated, Operations
    <3>. QED  BY <1>1, <3>2, <3>3, <3>4, <3>5 DEF Sound
  <2>. QED  BY <2>1, <2>2
<1>4. Wanted(truth) \subseteq Wanted(truth')
  BY <1>3 DEF Wanted
<1>5. UNCHANGED <<lost, configured, files, cache, lag, promised, bundles, recovery, faults>>
  BY DEF Capture, Forget, mirror
<1>6. /\ pass' \in [Pass -> PassStates]
      /\ \A p \in Pass : pass'[p] = pass[p] \/ (pass[p].pc = "idle" /\ pass'[p] \in Resting)
  <2>1. pass \in [Pass -> PassStates] /\ "hook" \in Pass
    BY DEF Inv, TypeOK, PassStates, Pass
  <2>2. CASE Capture(o)
    BY <2>1, <2>2 DEF Capture, mirror
  <2>3. CASE Forget(o)
    <3> DEFINE v == [pc |-> "due", sees |-> {}, todo |-> {}]
    <3>1. pass["hook"].pc = "idle" /\ pass' = [pass EXCEPT !["hook"].pc = "due"]
      BY <2>3 DEF Forget
    <3>2. pass' = [pass EXCEPT !["hook"] = v]
      BY <2>1, <3>1, AtRest
    <3>3. v \in Resting /\ v \in PassStates
      BY IdleRests DEF Resting
    <3>. QED  BY <2>1, <3>1, <3>2, <3>3
  <2>. QED  BY <2>2, <2>3
<1>7. OneHolds' /\ PassInOrder'
  <2>1. \A v \in Resting : v.pc \in {"idle", "due", "staging"} /\ v.sees = {} /\ v.todo = {}
    BY DEF Resting
  <2>2. OneHolds'
    BY <1>6, <2>1 DEF Inv, OneHolds, Holds
  <2>. QED  BY <1>4, <1>5, <1>6, <2>1, <2>2 DEF Inv, PassInOrder
<1>8. StoreOnward'
  <2>1. \A b \in bundles : b.epoch \in Nat /\ truth'.epoch \in Nat
    BY <1>3, PartsOf DEF Inv, TypeOK, Parts
  <2>. QED  BY <1>1, <1>3, <1>5, <2>1 DEF Inv, StoreOnward
<1>9. JournalsOfTheStore' /\ CheckpointVouches' /\ RecoveryInOrder'
  BY <1>4, <1>5 DEF Inv, JournalsOfTheStore, CheckpointVouches, RecoveryInOrder
<1>10. TypeOK'
  <2>1. Cardinality({p \in Pass : pass'[p].pc \in {"scanned", "appending", "misplaced"}}) <= 1
    BY <1>7, LockTyped
  <2>. QED  BY <1>3, <1>5, <1>6, <2>1 DEF Inv, TypeOK, PassStates
<1>. QED  BY <1>7, <1>8, <1>9, <1>10 DEF Inv

(* A pass that starts, is refused, gives up or dies leaves every line.        *)
LEMMA StartsInv == ASSUME Inv, WorkerStarts \/ BackupStarts PROVE Inv'
<1> DEFINE v == [pc |-> "due", sees |-> {}, todo |-> {}]
<1>1. v \in Resting /\ {"worker", "backup"} \subseteq Pass
  BY DEF Resting, Pass
<1>2. PICK p \in {"worker", "backup"} : pass[p].pc = "idle" /\ pass' = [pass EXCEPT ![p].pc = "due"]
  BY DEF WorkerStarts, BackupStarts
<1>3. pass' = [pass EXCEPT ![p] = v]
  BY <1>1, <1>2, AtRest
<1>4. /\ UNCHANGED <<truth, bundles, cache, recovery, promised, files, lost, lag, faults>>
      /\ configured' \in {configured, TRUE}
  BY DEF WorkerStarts, BackupStarts
<1>. QED  BY <1>1, <1>3, <1>4, PassRests DEF Inv, TypeOK

LEMMA EndsInv ==
    ASSUME Inv, NEW p \in Pass, PassUnconfigured(p) \/ PassBlocked(p) \/ PassMisplaced(p) \/ PassDies(p)
    PROVE  Inv'
<1>1. /\ UNCHANGED <<truth, bundles, cache, recovery, promised, lost, configured>>
      /\ pass' = [pass EXCEPT ![p] = Idle] /\ lag' \in {lag, Told(p)} /\ faults' \in {faults, faults + 1}
      /\ UNCHANGED files \/ files' = [files EXCEPT !.journal.torn = TRUE]
  BY DEF PassUnconfigured, PassBlocked, PassMisplaced, PassDies, Fault
<1>2. files' \in [File -> Journals] /\ \A f \in File : files'[f].records = files[f].records
  <2>1. CASE UNCHANGED files
    BY <2>1 DEF Inv, TypeOK
  <2>2. CASE files' = [files EXCEPT !.journal.torn = TRUE]
    <3>1. files \in [File -> Journals] /\ "journal" \in File
      BY DEF Inv, TypeOK, File
    <3>2. files' = [files EXCEPT !["journal"] = [files["journal"] EXCEPT !.torn = TRUE]]
      BY <2>2
    <3>3. LET j == [files["journal"] EXCEPT !.torn = TRUE]
          IN  j \in Journals /\ j.records = files["journal"].records
      BY <3>1 DEF Journals
    <3>. QED  BY <3>1, <3>2, <3>3
  <2>. QED  BY <1>1, <2>1, <2>2
<1>3. Idle \in Resting /\ Told(p) \in BOOLEAN
  BY IdleRests DEF Told, Inv, TypeOK
<1>4. {lost', configured', lag'} \subseteq BOOLEAN /\ faults' \in Nat
  BY <1>1, <1>3 DEF Inv, TypeOK
<1>. QED  BY <1>1, <1>2, <1>3, <1>4, PassRests

LEMMA StoreLostInv == ASSUME Inv, StoreLost PROVE Inv'
<1>1. /\ pass' = [q \in Pass |-> Idle] /\ lost' = TRUE
      /\ UNCHANGED <<truth, bundles, cache, recovery, promised, files, configured, lag, faults>>
  BY DEF StoreLost
<1>2. Idle \in PassStates /\ Idle.pc = "idle" /\ Idle.sees = {} /\ Idle.todo = {}
  BY IdleRests DEF Idle
<1>3. pass' \in [Pass -> PassStates] /\ OneHolds' /\ PassInOrder'
  BY <1>1, <1>2 DEF OneHolds, Holds, PassInOrder
<1>. QED  BY <1>1, <1>3, PassesMove DEF Inv, TypeOK

LEMMA BundleInv == ASSUME Inv, BackupStages PROVE Inv'
<1> DEFINE bundled == bundles \cup {truth}
<1>1. /\ pass' = [pass EXCEPT !["backup"] = Idle] /\ bundles' = bundled
      /\ UNCHANGED <<truth, cache, recovery, promised, files, lost, configured, lag, faults>>
  BY DEF BackupStages
<1>2. pass \in [Pass -> PassStates] /\ "backup" \in Pass
  BY DEF Inv, TypeOK, PassStates, Pass
<1>3. Idle \in PassStates /\ Idle.pc = "idle" /\ Idle.sees = {} /\ Idle.todo = {}
  BY IdleRests DEF Idle
<1>4. pass' \in [Pass -> PassStates] /\ \A q \in Pass : pass'[q] \in {pass[q], Idle}
  BY <1>1, <1>2, <1>3
<1>5. OneHolds' /\ PassInOrder'
  <2>1. OneHolds'
    BY <1>3, <1>4 DEF Inv, OneHolds, Holds
  <2>. QED  BY <1>1, <1>3, <1>4, <2>1 DEF Inv, PassInOrder
<1>6. StoreOnward'
  <2>1. truth.epoch \in Nat
    BY PartsOf DEF Inv, TypeOK, Parts
  <2>. QED  BY <1>1, <2>1 DEF Inv, StoreOnward
<1>7. JournalsOfTheStore' /\ CheckpointVouches' /\ RecoveryInOrder'
  BY <1>1 DEF Inv, JournalsOfTheStore, CheckpointVouches, RecoveryInOrder
<1>8. TypeOK'
  <2>1. Cardinality({p \in Pass : pass'[p].pc \in {"scanned", "appending", "misplaced"}}) <= 1
    BY <1>5, LockTyped
  <2>. QED  BY <1>1, <1>4, <2>1 DEF Inv, TypeOK, PassStates
<1>. QED  BY <1>5, <1>6, <1>7, <1>8 DEF Inv

-----------------------------------------------------------------------------
(* The passes that hold the lock.  A scan gives the checkpoint of the very    *)
(* journal, an append puts the line there first, and what is saved is known   *)
(* from the one or the other.                                                 *)
LEMMA Unheld == ASSUME ~Locked, NEW q \in Pass PROVE pass[q].pc \notin {"scanned", "appending", "misplaced"}
  BY DEF Locked

LEMMA ScansInv == ASSUME Inv, NEW p \in Pass, PassScans(p) PROVE Inv'
<1> DEFINE journal == [files["journal"] EXCEPT !.torn = FALSE]
           saved == [at |-> journal, known |-> Inventory]
<1>1. /\ ~Locked /\ pass[p].pc = "due" /\ pass' = [pass EXCEPT ![p].pc = "scanned"]
      /\ files' = [files EXCEPT !["journal"] = journal] /\ cache' = saved
      /\ UNCHANGED <<truth, lost, configured, lag, promised, bundles, recovery, faults>>
  BY DEF PassScans
<1>2. /\ pass \in [Pass -> PassStates] /\ files \in [File -> Journals] /\ "journal" \in File
      /\ cache \in [at : Journals, known : SUBSET Lines]
  BY DEF Inv, TypeOK, PassStates, File
<1>3. journal \in Journals /\ journal.records = files["journal"].records
  BY <1>2 DEF Journals
<1>4. Inventory \in SUBSET Lines /\ Inventory \subseteq files["journal"].records
  <2>1. CASE cache.at = files.journal
    BY <1>2, <2>1 DEF Inventory, Inv, CheckpointVouches
  <2>2. CASE cache.at # files.journal
    BY <1>2, <2>2 DEF Inventory, Journals
  <2>. QED  BY <2>1, <2>2
<1>5. cache' \in [at : Journals, known : SUBSET Lines] /\ cache'.known \subseteq files["journal"].records
      /\ cache'.at.records = files["journal"].records
  BY <1>1, <1>3, <1>4
<1> HIDE DEF journal, saved
<1>6. files' \in [File -> Journals] /\ \A f \in File : files'[f].records = files[f].records
  BY <1>1, <1>2, <1>3
<1>7. pass[p].sees = {} /\ pass[p].todo = {}
  BY <1>1 DEF Inv, PassInOrder
<1>8. /\ pass' \in [Pass -> PassStates] /\ \A q \in Pass : q # p => pass'[q] = pass[q]
      /\ pass'[p].pc = "scanned" /\ pass'[p].sees = {} /\ pass'[p].todo = {}
  BY <1>1, <1>2, <1>7 DEF PassStates
<1>9. OneHolds'
  BY <1>1, <1>8, Unheld DEF OneHolds, Holds
<1>10. PassInOrder'
  <2>1. ASSUME NEW q \in Pass, q # p
        PROVE  pass'[q].sees = {} /\ pass'[q].todo = {} /\ pass'[q].pc \notin {"scanned", "appending"}
    BY <1>1, <1>8, <2>1, Unheld DEF Inv, PassInOrder
  <2>. QED  BY <1>2, <1>5, <1>6, <1>8, <2>1 DEF PassInOrder
<1>11. StoreOnward' /\ RecoveryInOrder'
  BY <1>1 DEF Inv, StoreOnward, RecoveryInOrder
<1>12. JournalsOfTheStore' /\ CheckpointVouches'
  BY <1>1, <1>5, <1>6 DEF Inv, JournalsOfTheStore, CheckpointVouches
<1>13. TypeOK'
  <2>1. Cardinality({q \in Pass : pass'[q].pc \in {"scanned", "appending", "misplaced"}}) <= 1
    BY <1>9, LockTyped
  <2>2. \A f \in File : promised'[f] \subseteq Deleting(files'[f].records)
    BY <1>1, <1>6 DEF Inv, TypeOK
  <2>. QED  BY <1>1, <1>5, <1>6, <1>8, <2>1, <2>2 DEF Inv, TypeOK, PassStates
<1>. QED  BY <1>9, <1>10, <1>11, <1>12, <1>13 DEF Inv

LEMMA BeginsInv == ASSUME Inv, NEW p \in Pass, PassBegins(p) PROVE Inv'
<1> DEFINE v == [pc |-> "appending", sees |-> Wanted(truth), todo |-> Wanted(truth) \ cache.known]
<1>1. /\ pass[p].pc = "scanned" /\ pass' = [pass EXCEPT ![p] = v]
      /\ UNCHANGED <<truth, lost, configured, files, cache, lag, promised, bundles, recovery, faults>>
  BY DEF PassBegins
<1>2. pass \in [Pass -> PassStates] /\ Wanted(truth) \subseteq Lines
  BY WantedIs DEF Inv, TypeOK, PassStates
<1>3. v \in PassStates /\ v.pc = "appending" /\ v.sees = Wanted(truth) /\ v.todo = Wanted(truth) \ cache.known
  BY <1>2 DEF PassStates
<1> HIDE DEF v
<1>4. pass' \in [Pass -> PassStates] /\ pass'[p] = v /\ \A q \in Pass : q # p => pass'[q] = pass[q]
  BY <1>1, <1>2, <1>3
<1>5. OneHolds'
  BY <1>1, <1>3, <1>4 DEF Inv, OneHolds, Holds
<1>6. PassInOrder'
  <2>1. cache.known \subseteq files["journal"].records
    BY <1>1 DEF Inv, PassInOrder
  <2>. QED  BY <1>1, <1>3, <1>4, <2>1 DEF Inv, PassInOrder
<1>. QED  BY <1>1, <1>4, <1>5, <1>6, PassesMove DEF Inv, TypeOK

LEMMA AppendsInv ==
    ASSUME Inv, NEW p \in Pass, NEW record \in pass[p].todo, PassAppends(p, record)
    PROVE  Inv'
<1> DEFINE v == [pass[p] EXCEPT !.todo = @ \ {record}]
           journal == [files["journal"] EXCEPT !.records = @ \cup {record}]
<1>1. /\ pass[p].pc = "appending" /\ pass' = [pass EXCEPT ![p] = v]
      /\ files' = [files EXCEPT !["journal"] = journal]
      /\ UNCHANGED <<truth, lost, configured, cache, lag, promised, bundles, recovery, faults>>
  BY DEF PassAppends
<1>2. /\ pass \in [Pass -> PassStates] /\ files \in [File -> Journals] /\ "journal" \in File
      /\ pass[p].sees \subseteq Wanted(truth) /\ pass[p].todo \subseteq pass[p].sees
      /\ pass[p].sees \ pass[p].todo \subseteq files["journal"].records
      /\ record \in Wanted(truth) /\ Wanted(truth) \subseteq Lines
      /\ cache.known \subseteq files["journal"].records
  <2>1. Wanted(truth) \subseteq Lines
    BY WantedIs DEF Inv, TypeOK
  <2>. QED  BY <1>1, <2>1 DEF Inv, TypeOK, PassStates, PassInOrder, File
<1>3. journal \in Journals /\ journal.records = files["journal"].records \cup {record}
  BY <1>2 DEF Journals
<1>4. /\ v \in PassStates /\ v.pc = "appending" /\ v.sees = pass[p].sees
      /\ v.todo = pass[p].todo \ {record}
  BY <1>1, <1>2 DEF PassStates
<1> HIDE DEF v, journal
<1>5. /\ pass' \in [Pass -> PassStates] /\ pass'[p] = v /\ \A q \in Pass : q # p => pass'[q] = pass[q]
      /\ files' \in [File -> Journals] /\ files'["journal"] = journal
      /\ \A f \in File : f # "journal" => files'[f] = files[f]
  BY <1>1, <1>2, <1>3, <1>4
<1>6. \A f \in File : files[f].records \subseteq files'[f].records
  BY <1>3, <1>5
<1>7. OneHolds'
  BY <1>1, <1>4, <1>5 DEF Inv, OneHolds, Holds
<1>8. PassInOrder'
  <2>1. ASSUME NEW q \in Pass, q # p
        PROVE  pass'[q].sees = {} /\ pass'[q].todo = {} /\ pass'[q].pc \notin {"scanned", "appending"}
    BY <1>1, <1>5, <2>1 DEF Inv, PassInOrder, OneHolds, Holds
  <2>. QED  BY <1>1, <1>2, <1>3, <1>4, <1>5, <2>1 DEF PassInOrder
<1>9. StoreOnward' /\ RecoveryInOrder' /\ CheckpointVouches'
  BY <1>1 DEF Inv, StoreOnward, RecoveryInOrder, CheckpointVouches
<1>10. JournalsOfTheStore'
  BY <1>1, <1>2, <1>3, <1>5 DEF Inv, JournalsOfTheStore
<1>11. TypeOK'
  <2>1. Cardinality({q \in Pass : pass'[q].pc \in {"scanned", "appending", "misplaced"}}) <= 1
    BY <1>7, LockTyped
  <2>2. \A f \in File : promised'[f] \subseteq Deleting(files'[f].records)
    BY <1>1, <1>6, OfFewer DEF Inv, TypeOK
  <2>. QED  BY <1>1, <1>5, <2>1, <2>2 DEF Inv, TypeOK, PassStates
<1>. QED  BY <1>7, <1>8, <1>9, <1>10, <1>11 DEF Inv

LEMMA SavesInv ==
    ASSUME Inv, NEW p \in Pass, PassFinishes(p) \/ PassStops(p)
    PROVE  Inv'
<1>1. /\ pass[p].pc \in {"scanned", "appending"} /\ cache' = Saved(p)
      /\ UNCHANGED <<truth, lost, configured, files, bundles, recovery>>
      /\ lag' \in {FALSE, Told(p)} /\ faults' \in {faults, faults + 1}
  BY DEF PassFinishes, PassStops, Fault
<1>2. /\ pass \in [Pass -> PassStates] /\ files \in [File -> Journals] /\ "journal" \in File
      /\ cache \in [at : Journals, known : SUBSET Lines] /\ faults \in Nat /\ Told(p) \in BOOLEAN
  BY DEF Inv, TypeOK, PassStates, File, Told
<1>3. pass[p].sees \ pass[p].todo \subseteq files["journal"].records /\ cache.known \subseteq files["journal"].records
  BY <1>1 DEF Inv, PassInOrder
<1>4. cache' \in [at : Journals, known : SUBSET Lines] /\ cache'.known \subseteq cache'.at.records
  BY <1>1, <1>2, <1>3 DEF Saved, Journals
<1>5. \E v \in Resting : pass' = [pass EXCEPT ![p] = v]
  <2>1. CASE PassFinishes(p)
    <3>1. [Idle EXCEPT !.pc = "staging"] = [pc |-> "staging", sees |-> {}, todo |-> {}]
      BY DEF Idle
    <3>2. [Idle EXCEPT !.pc = "staging"] \in Resting
      BY <3>1 DEF Resting
    <3>. QED  BY <2>1, <3>2, IdleRests DEF PassFinishes
  <2>2. CASE PassStops(p)
    BY <2>2, IdleRests DEF PassStops
  <2>. QED  BY <2>1, <2>2
<1>6. PICK v \in Resting : pass' = [pass EXCEPT ![p] = v]
  BY <1>5
<1>7. v \in PassStates /\ v.pc \in {"idle", "due", "staging"} /\ v.sees = {} /\ v.todo = {}
  BY IdleRests DEF Resting
<1>8. pass' \in [Pass -> PassStates] /\ pass'[p] = v /\ \A q \in Pass : q # p => pass'[q] = pass[q]
  BY <1>2, <1>6, <1>7
<1>9. OneHolds'
  BY <1>7, <1>8 DEF Inv, OneHolds, Holds
<1>10. PassInOrder'
  <2>1. \A q \in Pass : pass'[q].sees = {} /\ pass'[q].todo = {} /\ pass'[q].pc \notin {"scanned", "appending"}
    BY <1>1, <1>7, <1>8 DEF Inv, PassInOrder, OneHolds, Holds
  <2>. QED  BY <2>1 DEF PassInOrder
<1>11. /\ promised' \in [File -> SUBSET Object]
       /\ \A f \in File : promised'[f] \subseteq Deleting(files[f].records)
  <2>1. CASE PassFinishes(p)
    <3>1. pass[p].pc = "appending" /\ pass[p].todo = {}
          /\ promised' = [promised EXCEPT !["journal"] = @ \cup Deleting(pass[p].sees)]
      BY <2>1 DEF PassFinishes
    <3>2. pass[p].sees \subseteq files["journal"].records
      BY <1>3, <3>1
    <3>3. Deleting(pass[p].sees) \subseteq Deleting(files["journal"].records)
      BY <3>2, OfFewer
    <3>4. pass[p].sees \subseteq Wanted(truth) /\ truth \in TruthStates
      BY <3>1 DEF Inv, PassInOrder, TypeOK
    <3>5. Deleting(pass[p].sees) \subseteq Members(truth.ops) /\ truth.ops \subseteq Operations
      <4>1. Deleting(Wanted(truth)) = Members(truth.ops)
        BY <3>4, WantedIs
      <4>2. Deleting(pass[p].sees) \subseteq Deleting(Wanted(truth))
        BY <3>4, OfFewer
      <4>. QED  BY <3>4, <4>1, <4>2, PartsOf DEF Parts
    <3>6. Deleting(pass[p].sees) \subseteq Object
      BY <3>5 DEF Members, Operations
    <3>. QED  BY <1>2, <3>1, <3>3, <3>6 DEF Inv, TypeOK
  <2>2. CASE PassStops(p)
    BY <2>2 DEF PassStops, Inv, TypeOK
  <2>. QED  BY <2>1, <2>2
<1>12. StoreOnward' /\ RecoveryInOrder' /\ CheckpointVouches' /\ JournalsOfTheStore'
  BY <1>1, <1>4 DEF Inv, StoreOnward, RecoveryInOrder, CheckpointVouches, JournalsOfTheStore
<1>13. TypeOK'
  <2>1. Cardinality({q \in Pass : pass'[q].pc \in {"scanned", "appending", "misplaced"}}) <= 1
    BY <1>9, LockTyped
  <2>2. {lost', configured', lag'} \subseteq BOOLEAN /\ faults' \in Nat
    <3>1. lag' \in BOOLEAN
      BY <1>1, <1>2, Zenon
    <3>2. {lost', configured'} \subseteq BOOLEAN
      BY <1>1 DEF Inv, TypeOK
    <3>3. faults' \in Nat
      BY <1>1, <1>2
    <3>. QED  BY <3>1, <3>2, <3>3
  <2>3. \A f \in File : promised'[f] \subseteq Deleting(files'[f].records)
    BY <1>1, <1>11
  <2>. QED  BY <1>1, <1>4, <1>8, <1>11, <2>1, <2>2, <2>3 DEF Inv, TypeOK, PassStates
<1>. QED  BY <1>9, <1>10, <1>12, <1>13 DEF Inv

-----------------------------------------------------------------------------
(* The operator's copy, kept and put back under whoever holds the lock.       *)
LEMMA CopiedInv == ASSUME Inv, JournalCopied PROVE Inv'
<1>1. /\ files' = [files EXCEPT !["copy"] = files["journal"]]
      /\ promised' = [promised EXCEPT !["copy"] = promised["journal"]]
      /\ UNCHANGED <<truth, lost, configured, cache, lag, pass, bundles, recovery, faults>>
  BY DEF JournalCopied
<1>2. /\ files \in [File -> Journals] /\ promised \in [File -> SUBSET Object] /\ File = {"journal", "copy"}
      /\ \A f \in File : promised[f] \subseteq Deleting(files[f].records)
  BY DEF Inv, TypeOK, File
<1>3. /\ files' \in [File -> Journals] /\ promised' \in [File -> SUBSET Object]
      /\ files'["journal"] = files["journal"] /\ files'["copy"] = files["journal"]
      /\ promised'["journal"] = promised["journal"] /\ promised'["copy"] = promised["journal"]
  BY <1>1, <1>2
<1>4. TypeOK'
  <2>1. \A f \in File : promised'[f] \subseteq Deleting(files'[f].records)
    BY <1>2, <1>3
  <2>. QED  BY <1>1, <1>3, <2>1 DEF Inv, TypeOK
<1>5. JournalsOfTheStore'
  BY <1>1, <1>2, <1>3 DEF Inv, JournalsOfTheStore
<1>6. PassInOrder' /\ OneHolds'
  BY <1>1, <1>3 DEF Inv, PassInOrder, OneHolds, Holds
<1>7. StoreOnward' /\ RecoveryInOrder' /\ CheckpointVouches'
  BY <1>1 DEF Inv, StoreOnward, RecoveryInOrder, CheckpointVouches
<1>. QED  BY <1>4, <1>5, <1>6, <1>7 DEF Inv

LEMMA PutBackInv == ASSUME Inv, JournalPutBack PROVE Inv'
<1> DEFINE misplaced == [Idle EXCEPT !.pc = "misplaced"]
<1>1. /\ files' = [files EXCEPT !["journal"] = files["copy"]]
      /\ promised' = [promised EXCEPT !["journal"] = promised["copy"]]
      /\ pass' = [q \in Pass |-> IF pass[q].pc \in {"scanned", "appending"} THEN misplaced ELSE pass[q]]
      /\ UNCHANGED <<truth, lost, configured, cache, lag, bundles, recovery>> /\ faults' = faults + 1
  BY DEF JournalPutBack, Fault
<1>2. /\ files \in [File -> Journals] /\ promised \in [File -> SUBSET Object] /\ File = {"journal", "copy"}
      /\ \A f \in File : promised[f] \subseteq Deleting(files[f].records)
      /\ pass \in [Pass -> PassStates] /\ faults \in Nat
  BY DEF Inv, TypeOK, File, PassStates
<1>3. misplaced = [pc |-> "misplaced", sees |-> {}, todo |-> {}]
  BY DEF Idle
<1>4. misplaced \in PassStates /\ misplaced.pc = "misplaced" /\ misplaced.sees = {} /\ misplaced.todo = {}
  BY <1>3 DEF PassStates
<1> HIDE DEF misplaced
<1>5. /\ files' \in [File -> Journals] /\ promised' \in [File -> SUBSET Object]
      /\ files'["copy"] = files["copy"] /\ files'["journal"] = files["copy"]
      /\ promised'["copy"] = promised["copy"] /\ promised'["journal"] = promised["copy"]
  BY <1>1, <1>2
<1>6. pass' \in [Pass -> PassStates]
  BY <1>1, <1>2, <1>4
<1>7. OneHolds'
  BY <1>1, <1>4 DEF Inv, OneHolds, Holds
<1>8. PassInOrder'
  <2>1. \A q \in Pass : pass'[q].sees = {} /\ pass'[q].todo = {} /\ pass'[q].pc \notin {"scanned", "appending"}
    BY <1>1, <1>4 DEF Inv, PassInOrder
  <2>. QED  BY <2>1 DEF PassInOrder
<1>9. TypeOK'
  <2>1. \A f \in File : promised'[f] \subseteq Deleting(files'[f].records)
    BY <1>2, <1>5
  <2>2. Cardinality({q \in Pass : pass'[q].pc \in {"scanned", "appending", "misplaced"}}) <= 1
    BY <1>7, LockTyped
  <2>. QED  BY <1>1, <1>2, <1>5, <1>6, <2>1, <2>2 DEF Inv, TypeOK, PassStates
<1>10. JournalsOfTheStore'
  BY <1>1, <1>2, <1>5 DEF Inv, JournalsOfTheStore
<1>11. StoreOnward' /\ RecoveryInOrder' /\ CheckpointVouches'
  BY <1>1 DEF Inv, StoreOnward, RecoveryInOrder, CheckpointVouches
<1>. QED  BY <1>7, <1>8, <1>9, <1>10, <1>11 DEF Inv

-----------------------------------------------------------------------------
(* The recovery.  It is given what was promised of its file when it read it,  *)
(* and a bundle the store has gone on from.                                   *)
Recoveries == [pc : {"none", "fenced", "replayed", "open"}, file : File,
               bundle : TruthStates, truth : TruthStates,
               records : SUBSET Lines, owed : SUBSET Object]

LEMMA RecoveryAlone ==
    ASSUME Inv, UNCHANGED <<truth, lost, configured, files, cache, lag, pass, promised, bundles>>,
           faults' \in Nat, recovery' \in Recoveries, RecoveryInOrder'
    PROVE  Inv'
<1>1. TypeOK'
  BY DEF Inv, TypeOK, Recoveries
<1>2. StoreOnward' /\ JournalsOfTheStore' /\ CheckpointVouches'
  BY DEF Inv, StoreOnward, JournalsOfTheStore, CheckpointVouches, Dated
<1>3. PassInOrder' /\ OneHolds'
  BY DEF Inv, PassInOrder, OneHolds, Holds
<1>. QED  BY <1>1, <1>2, <1>3 DEF Inv

LEMMA FencesInv ==
    ASSUME Inv, NEW bundle \in bundles, NEW file \in File, RecoveryFences(bundle, file)
    PROVE  Inv'
<1> DEFINE r == [pc |-> "fenced", bundle |-> bundle, file |-> file, truth |-> bundle,
                 records |-> files[file].records, owed |-> promised[file]]
<1>1. recovery' = r /\ UNCHANGED <<truth, lost, configured, files, cache, lag, pass, promised, bundles, faults>>
  BY DEF RecoveryFences, mirror
<1>2. /\ bundle \in TruthStates /\ files[file] \in Journals /\ promised[file] \in SUBSET Object
      /\ promised[file] \subseteq Deleting(files[file].records) /\ faults \in Nat
  BY DEF Inv, TypeOK
<1>3. files[file].records \in SUBSET Lines /\ files[file].records \subseteq Wanted(truth)
  BY <1>2 DEF Journals, Inv, JournalsOfTheStore
<1>4. r \in Recoveries
  BY <1>2, <1>3 DEF Recoveries
<1>5. RecoveryInOrder'
  BY <1>1, <1>2, <1>3 DEF RecoveryInOrder
<1>. QED  BY <1>1, <1>2, <1>4, <1>5, RecoveryAlone

(* A journal that was mended and written to.                                  *)
Mended(j, more) == [[j EXCEPT !.torn = FALSE] EXCEPT !.records = j.records \cup more]

LEMMA MendedIs ==
    ASSUME NEW j \in Journals, NEW more \in SUBSET Lines
    PROVE  Mended(j, more) \in Journals /\ Mended(j, more).records = j.records \cup more
<1>1. [j EXCEPT !.torn = FALSE] \in Journals
  BY DEF Journals
<1>. QED  BY <1>1 DEF Mended, Journals

LEMMA ReplaysInv == ASSUME Inv, RecoveryReplays PROVE Inv'
<1> DEFINE b == recovery.bundle
           u == Replayed(recovery.truth, RecoveryLedger(recovery.truth, recovery.records))
<1>1. /\ recovery.pc = "fenced"
      /\ recovery' = [recovery EXCEPT !.pc = "replayed", !.truth = u, !.records = {}]
      /\ UNCHANGED <<truth, lost, configured, cache, lag, pass, promised, bundles, faults>>
      /\ \/ UNCHANGED files
         \/ /\ recovery.file = "journal" => ~Locked
            /\ files' = [files EXCEPT ![recovery.file].torn = FALSE,
                                      ![recovery.file].records = @ \cup Wanted(u)]
  BY Zenon DEF RecoveryReplays
<1>2. /\ recovery \in Recoveries /\ b \in bundles /\ recovery.truth = b
      /\ recovery.records \subseteq Wanted(truth) /\ recovery.owed \subseteq Deleting(recovery.records)
      /\ recovery.file \in File
  BY <1>1 DEF Inv, TypeOK, RecoveryInOrder, Recoveries
<1>3. /\ Sound(b) /\ Dated(b) /\ Sound(truth) /\ Dated(truth)
      /\ b.ops \subseteq truth.ops /\ b.epoch <= truth.epoch
  BY <1>2 DEF Inv, StoreOnward
<1>4. /\ u \in TruthStates /\ Wanted(u) \subseteq Wanted(truth)
      /\ (Deleting(recovery.records) \cup b.blocked) \cap (Visible(u) \cup u.words) = {}
      /\ b.muted \subseteq u.muted
      /\ \A op \in u.ops : op.epoch < u.epoch
  BY <1>2, <1>3, DestinationIs, Zenon
<1> HIDE DEF u
<1>5. /\ recovery' \in Recoveries /\ recovery'.pc = "replayed" /\ recovery'.truth = u
      /\ recovery'.bundle = b /\ recovery'.owed = recovery.owed
  <2>1. {} \in SUBSET Lines /\ "replayed" \in {"none", "fenced", "replayed", "open"}
    OBVIOUS
  <2>2. recovery' \in Recoveries
    BY <1>1, <1>2, <1>4, <2>1, Zenon DEF Recoveries
  <2>. QED  BY <1>1, <1>2, <2>2 DEF Recoveries
<1>6. RecoveryInOrder'
  <2>1. KeepsForgotten(recovery')
    BY <1>2, <1>4, <1>5 DEF KeepsForgotten
  <2>. QED  BY <1>5, <2>1 DEF RecoveryInOrder
<1>7. CASE UNCHANGED files
  BY <1>1, <1>5, <1>6, <1>7, RecoveryAlone DEF Inv, TypeOK
<1>8. CASE ~ UNCHANGED files
  <2> DEFINE f == recovery.file
             journal == Mended(files[f], Wanted(u))
  <2>1. files \in [File -> Journals] /\ Wanted(u) \subseteq Lines /\ f \in File
    BY <1>2, <1>4, WantedIs DEF Inv, TypeOK
  <2>2. (f = "journal" => ~Locked) /\ files' = [files EXCEPT ![f] = journal]
    <3>1. /\ f = "journal" => ~Locked
          /\ files' = [files EXCEPT ![f].torn = FALSE, ![f].records = @ \cup Wanted(u)]
      BY <1>1, <1>8
    <3>2. files[f] \in Journals
      BY <2>1
    <3>3. [files EXCEPT ![f].torn = FALSE, ![f].records = @ \cup Wanted(u)] = [files EXCEPT ![f] = journal]
      BY <2>1, <3>2 DEF Journals, Mended
    <3>. QED  BY <3>1, <3>3
  <2>3. journal \in Journals /\ journal.records = files[f].records \cup Wanted(u)
    BY <2>1, MendedIs
  <2> HIDE DEF journal
  <2>4. /\ files' \in [File -> Journals] /\ files'[f] = journal
        /\ \A g \in File : g # f => files'[g] = files[g]
    BY <2>1, <2>2, <2>3
  <2>5. \A g \in File : files[g].records \subseteq files'[g].records
    BY <2>3, <2>4
  <2>6. JournalsOfTheStore'
    BY <1>1, <1>4, <2>3, <2>4 DEF Inv, JournalsOfTheStore
  <2>7. PassInOrder' /\ OneHolds'
    <3>1. \A q \in Pass : pass[q].pc \in {"scanned", "appending"} => files'["journal"] = files["journal"]
      BY <2>1, <2>2, <2>4, Unheld DEF File
    <3>. QED  BY <1>1, <3>1 DEF Inv, PassInOrder, OneHolds, Holds
  <2>8. StoreOnward' /\ CheckpointVouches'
    BY <1>1 DEF Inv, StoreOnward, CheckpointVouches
  <2>9. TypeOK'
    <3>1. \A g \in File : promised'[g] \subseteq Deleting(files'[g].records)
      BY <1>1, <2>5, OfFewer DEF Inv, TypeOK
    <3>. QED  BY <1>1, <1>5, <2>4, <3>1 DEF Inv, TypeOK, Recoveries
  <2>. QED  BY <1>6, <2>6, <2>7, <2>8, <2>9 DEF Inv
<1>. QED  BY <1>7, <1>8

LEMMA ReopensInv == ASSUME Inv, RecoveryReopens PROVE Inv'
<1>1. /\ recovery.pc = "replayed" /\ recovery' = [recovery EXCEPT !.pc = "open"]
      /\ UNCHANGED <<truth, lost, configured, files, cache, lag, pass, promised, bundles, faults>>
  BY DEF RecoveryReopens, mirror
<1>2. recovery \in Recoveries /\ faults \in Nat /\ KeepsForgotten(recovery)
  BY <1>1 DEF Inv, TypeOK, Recoveries, RecoveryInOrder
<1>3. /\ recovery' \in Recoveries /\ recovery'.pc = "open" /\ recovery'.truth = recovery.truth
      /\ recovery'.bundle = recovery.bundle /\ recovery'.owed = recovery.owed
  BY <1>1, <1>2 DEF Recoveries
<1>4. RecoveryInOrder'
  BY <1>2, <1>3 DEF RecoveryInOrder, KeepsForgotten
<1>. QED  BY <1>1, <1>2, <1>3, <1>4, RecoveryAlone

LEMMA RecoveryStopsInv == ASSUME Inv, RecoveryStops PROVE Inv'
<1>1. /\ recovery' = NoRecovery /\ faults' = faults + 1
      /\ UNCHANGED <<truth, lost, configured, files, cache, lag, pass, promised, bundles>>
  BY DEF RecoveryStops, mirror, Fault
<1>2. NoRecovery \in Recoveries /\ NoRecovery.pc = "none"
  <2>1. EmptyStore \in TruthStates
    BY EmptyIs DEF Sound
  <2>. QED  BY <2>1 DEF NoRecovery, Recoveries, File
<1>3. RecoveryInOrder' /\ faults' \in Nat
  BY <1>1, <1>2 DEF RecoveryInOrder, Inv, TypeOK
<1>. QED  BY <1>1, <1>2, <1>3, RecoveryAlone

-----------------------------------------------------------------------------
LEMMA NextInv == Inv /\ [Next]_vars => Inv'
<1> SUFFICES ASSUME Inv, [Next]_vars PROVE Inv'
  OBVIOUS
<1>1. CASE Owner
  BY <1>1, OwnerInv DEF Owner
<1>2. CASE WorkerStarts \/ BackupStarts
  BY <1>2, StartsInv
<1>3. ASSUME NEW p \in Pass, CatchUp(p)
      PROVE  Inv'
  BY <1>3, EndsInv, ScansInv, BeginsInv, AppendsInv, SavesInv, BundleInv DEF CatchUp
<1>4. CASE Disturb
  BY <1>4, SavesInv, EndsInv, CopiedInv, PutBackInv, StoreLostInv DEF Disturb
<1>5. CASE Recover
  BY <1>5, FencesInv, ReplaysInv, ReopensInv, RecoveryStopsInv DEF Recover
<1>6. CASE UNCHANGED vars
  <2>1. /\ UNCHANGED <<truth, lost, configured, files, cache, lag, pass, promised, bundles, recovery, faults>>
    BY <1>6 DEF vars
  <2>2. recovery' \in Recoveries /\ faults' \in Nat /\ RecoveryInOrder'
    BY <2>1 DEF Inv, TypeOK, Recoveries, RecoveryInOrder
  <2>. QED  BY <2>1, <2>2, RecoveryAlone
<1>. QED  BY <1>1, <1>2, <1>3, <1>4, <1>5, <1>6 DEF Next

(* The inductive invariant: the journals hold what the store committed and no *)
(* more, the checkpoint knows what they hold, and a destination is replayed   *)
(* from both.                                                                 *)
THEOREM InvHolds == Spec => []Inv
  BY InitInv, NextInv, PTL DEF Spec

(* Files, checkpoint, passes and recoveries keep their types, one pass holds  *)
(* the journal's lock, and what a finished pass promised stays in its file    *)
(* (core/deletion_mirror.py `_catchup`).                                      *)
THEOREM TypeCorrect == Spec => []TypeOK
<1>1. Inv => TypeOK
  BY DEF Inv
<1>. QED  BY <1>1, InvHolds, PTL

(* No journal, and no copy of one, holds a deletion the store did not commit. *)
THEOREM JournalsOfTheStoreHolds == Spec => []JournalsOfTheStore
<1>1. Inv => JournalsOfTheStore
  BY DEF Inv
<1>. QED  BY <1>1, InvHolds, PTL

(* A recovery opens with nothing a finished pass had mirrored in its file     *)
(* (maintenance/disaster_restore.py), whatever passes died, whatever older    *)
(* journal was put back and however old the bundle.                           *)
THEOREM RecoveredKeepsForgottenHolds == Spec => []RecoveredKeepsForgotten
<1>1. Inv => RecoveredKeepsForgotten
  BY DEF Inv, RecoveryInOrder, KeepsForgotten, RecoveredKeepsForgotten
<1>. QED  BY <1>1, InvHolds, PTL
=============================================================================
