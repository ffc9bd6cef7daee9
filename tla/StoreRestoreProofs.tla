------------------------- MODULE StoreRestoreProofs -------------------------
(* What StoreRestore keeps, for every set of sources and claims and every     *)
(* bound: the decisions through every restore, the receipts, the readers.     *)
EXTENDS StoreRestore, TLAPS

-----------------------------------------------------------------------------
(***************************************************************************)
(* What holds of the content of a store, whoever keeps it.                 *)
(***************************************************************************)
Members(ops) == UNION {op.members : op \in ops}

(* What tells two mute operations apart is their request key.                 *)
SameKey(m, n) == m.target = n.target /\ m.generation = n.generation

(* Words are of rows, and what was derived has its source.                    *)
SoundRows(t) ==
    /\ t.words \subseteq Rows(t)
    /\ \A o \in Rows(t) : Root(o) \in Rows(t)

(* What is blocked is what the delete operations block, each with members of  *)
(* its own.                                                                   *)
SoundDeletes(t) ==
    /\ t.blocked = Members(t.ops)
    /\ \A op, other \in t.ops : op.members = other.members => op = other

(* Mute operations were asked in generations up to this one, and one of this  *)
(* generation still holds for everything derived from its target.             *)
SoundMutes(t) ==
    /\ t.generation <= t.epoch
    /\ \A m \in t.mutes : m.generation <= t.generation
    /\ \A m, n \in t.mutes : SameKey(m, n) => m = n
    /\ \A m \in t.mutes : m.generation = t.generation =>
          m.target \in Rows(t) /\ Closure(t, m.target) \subseteq t.muted

Sound(t) == t \in TruthStates /\ SoundRows(t) /\ SoundDeletes(t) /\ SoundMutes(t)

(* An acknowledged vector layer leaves the rows the file holds fenced.        *)
Fenced(t, barred) == \A op \in t.ops : op.vector => op.members \cap Rows(t) \subseteq barred

(* A ledger names each delete, each mute and each withdrawn claim once.       *)
SoundLedger(ledger) ==
    /\ ledger \in Ledgers
    /\ \A op, other \in ledger.ops : op.members = other.members => op = other
    /\ \A m \in ledger.mutes : m.generation <= ledger.epoch
    /\ \A m, n \in ledger.mutes : SameKey(m, n) => m = n
    /\ \A v, w \in ledger.withdrawals : v[1] = w[1] => v = w

(* What the owner decided and still stands: what is forgotten, what is muted, *)
(* what a mute operation lists, and which retraction of which claim stands.   *)
Decisions == [forgotten : SUBSET Object, muted : SUBSET Object, listed : SUBSET Object,
              withdrawn : SUBSET (Claim \X (Nat \ {0}))]

(* Every object a mute lists is a member of some mute operation, and of every *)
(* one with its key that a snapshot holds, which a replay keeps instead.      *)
Lists(mutes, listed, snaps) ==
    \A n \in listed : \E m \in mutes :
        /\ n \in m.members
        /\ \A s \in snaps : \A other \in s.mutes : SameKey(other, m) => n \in other.members

(* Every delete a snapshot holds is still among these.                        *)
Carries(ops, snaps) == \A s \in snaps : \A op \in s.ops : \E own \in ops : own.members = op.members

(* No snapshot holds the retraction w or what came after it.                  *)
LaterThanAll(w, snaps) == \A s \in snaps : s.head[w[1]].rev < w[2]

(* A content that holds to the decisions d beside the snapshots taken of it   *)
(* and of its predecessors.                                                   *)
Keeps(t, d, snaps) ==
    /\ d.forgotten \subseteq Members(t.ops)
    /\ d.listed \subseteq d.muted /\ d.muted \subseteq t.muted
    /\ Lists(t.mutes, d.listed, snaps)
    /\ Carries(t.ops, snaps)
    /\ \A s \in snaps :
          /\ s.epoch <= t.epoch
          /\ \A m \in s.mutes : m.generation = t.generation => m \in t.mutes
    /\ \A w \in d.withdrawn : LaterThanAll(w, snaps) =>
          \/ w[1] \in t.absent \cup t.blocked
          \/ t.head[w[1]] = [rev |-> w[2], withdrawn |-> TRUE]

(* A ledger whose replay over any of the snapshots holds to the decisions.    *)
Tells(ledger, d, snaps) ==
    /\ SoundLedger(ledger)
    /\ d.forgotten \subseteq Members(ledger.ops)
    /\ d.listed \subseteq d.muted
    /\ ledger.format = "full" => d.muted \subseteq ledger.muted \cup Members(ledger.ops)
    /\ Lists(ledger.mutes, d.listed, snaps)
    /\ Carries(ledger.ops, snaps)
    /\ \A s \in snaps : s.epoch <= ledger.epoch
    /\ \A w \in d.withdrawn : LaterThanAll(w, snaps) =>
          \/ w[1] \in ledger.absent \cup Members(ledger.ops)
          \/ w \in ledger.withdrawals

-----------------------------------------------------------------------------
(* The larger of two numbers.                                                 *)
LEMMA LargerOf ==
    ASSUME NEW a \in Nat, NEW b \in Nat
    PROVE  Max({a, b}) = IF a <= b THEN b ELSE a
<1> DEFINE m == IF a <= b THEN b ELSE a
<1>1. m \in {a, b} /\ \A n \in {a, b} : m >= n
  OBVIOUS
<1>2. \A x \in {a, b} : (\A n \in {a, b} : x >= n) => x = m
  OBVIOUS
<1> HIDE DEF m
<1>3. Max({a, b}) = CHOOSE x \in {a, b} : \A n \in {a, b} : x >= n
  BY Zenon DEF Max
<1>. QED  BY <1>1, <1>2, <1>3, Zenon DEF m

LEMMA RootIs ==
    ASSUME NEW o \in Object
    PROVE  Root(o) \in Source /\ Root(o) \in Object /\ Root(Root(o)) = Root(o)
  BY ObjectAssumption DEF Root, Object

LEMMA EmptyIs == Sound(EmptyStore) /\ Rows(EmptyStore) = {} /\ \A F : Fenced(EmptyStore, F)
<1>1. EmptyStore \in TruthStates
  BY DEF EmptyStore, TruthStates, Heads
<1>2. Rows(EmptyStore) = {}
  BY DEF EmptyStore, Rows
<1>3. /\ EmptyStore.words = {} /\ EmptyStore.blocked = {} /\ EmptyStore.ops = {}
      /\ EmptyStore.mutes = {} /\ EmptyStore.generation = 0 /\ EmptyStore.epoch = 0
  BY DEF EmptyStore
<1>4. SoundRows(EmptyStore)
  BY <1>2, <1>3 DEF SoundRows
<1>5. SoundDeletes(EmptyStore)
  BY <1>3 DEF SoundDeletes, Members
<1>6. SoundMutes(EmptyStore)
  BY <1>3 DEF SoundMutes
<1>7. \A F : Fenced(EmptyStore, F)
  BY <1>3 DEF Fenced
<1>. QED  BY <1>1, <1>2, <1>4, <1>5, <1>6, <1>7 DEF Sound

-----------------------------------------------------------------------------
(* The parts of a content, each in its type.                                  *)
Parts(t) ==
    /\ t.epoch \in Nat /\ t.head \in [Object -> Heads] /\ t.words \in SUBSET Object
    /\ t.blocked \in SUBSET Object /\ t.muted \in SUBSET Object /\ t.absent \in SUBSET Object
    /\ t.ops \in SUBSET Operations /\ t.mutes \in SUBSET Mutes /\ t.generation \in Nat

LEMMA PartsOf == ASSUME NEW t \in TruthStates PROVE Parts(t)
  BY DEF TruthStates, Parts

LEMMA BumpedIs ==
    ASSUME NEW t \in TruthStates
    PROVE  LET b == Bumped(t)
           IN  /\ b \in TruthStates /\ b.epoch = t.epoch + 1 /\ b.head = t.head /\ b.words = t.words
               /\ b.blocked = t.blocked /\ b.muted = t.muted /\ b.absent = t.absent /\ b.ops = t.ops
               /\ b.mutes = t.mutes /\ b.generation = t.generation
<1>1. t.epoch + 1 \in Nat
  BY PartsOf DEF Parts
<1>2. Bumped(t) \in TruthStates
  BY <1>1, Zenon DEF TruthStates, Bumped
<1>. QED  BY <1>2 DEF TruthStates, Bumped

(* What each transaction of the owner makes of the content.                   *)
LEMMA CapturedIs ==
    ASSUME NEW t \in TruthStates, NEW o \in Object
    PROVE  LET u == Captured(t, o)
           IN  /\ u \in TruthStates /\ Rows(u) = Rows(t) \cup {o}
               /\ u.epoch = t.epoch + 1 /\ u.words = t.words \cup {o}
               /\ u.muted = IF Root(o) \in t.muted THEN t.muted \cup {o} ELSE t.muted
               /\ u.blocked = t.blocked /\ u.absent = t.absent /\ u.ops = t.ops
               /\ u.mutes = t.mutes /\ u.generation = t.generation
               /\ \A p \in Object : p # o => u.head[p] = t.head[p]
<1> DEFINE u == Captured(t, o)
<1> DEFINE h == [t.head EXCEPT ![o].rev = 1]
<1>1. h \in [Object -> Heads] /\ h[o].rev = 1 /\ \A p \in Object : p # o => h[p] = t.head[p]
  BY DEF TruthStates, Heads
<1>2. /\ u.epoch = t.epoch + 1 /\ u.words = t.words \cup {o} /\ u.head = h
      /\ u.muted = IF Root(o) \in t.muted THEN t.muted \cup {o} ELSE t.muted
      /\ u.blocked = t.blocked /\ u.absent = t.absent /\ u.ops = t.ops
      /\ u.mutes = t.mutes /\ u.generation = t.generation
  BY DEF TruthStates, Captured, Bumped
<1>3. u \in TruthStates
  <2> DEFINE b == Bumped(t)
  <2> DEFINE m == IF Root(o) \in t.muted THEN b.muted \cup {o} ELSE b.muted
  <2>1. b \in TruthStates /\ h \in [Object -> Heads] /\ b.words \cup {o} \in SUBSET Object
        /\ m \in SUBSET Object
    BY <1>1, BumpedIs, PartsOf DEF Parts
  <2>2. u = [b EXCEPT !.head = h, !.words = b.words \cup {o}, !.muted = m]
    BY BumpedIs DEF Captured
  <2> HIDE DEF b, m, h
  <2>. QED  BY <2>1, <2>2, Zenon DEF TruthStates
<1> HIDE DEF h, u
<1>4. Rows(u) = Rows(t) \cup {o}
  BY <1>1, <1>2 DEF Rows
<1>. QED  BY <1>1, <1>2, <1>3, <1>4 DEF u

LEMMA AppendedIs ==
    ASSUME NEW t \in TruthStates, NEW c \in Rows(t), NEW w \in BOOLEAN
    PROVE  LET u == Appended(t, c, w)
           IN  /\ u \in TruthStates /\ Rows(u) = Rows(t)
               /\ u.epoch = t.epoch + 1 /\ u.words = t.words /\ u.muted = t.muted
               /\ u.blocked = t.blocked /\ u.absent = t.absent /\ u.ops = t.ops
               /\ u.mutes = t.mutes /\ u.generation = t.generation
               /\ u.head[c] = [rev |-> t.head[c].rev + 1, withdrawn |-> w]
               /\ \A p \in Object : p # c => u.head[p] = t.head[p]
<1> DEFINE u == Appended(t, c, w)
<1> DEFINE g == [rev |-> t.head[c].rev + 1, withdrawn |-> w]
<1> DEFINE h == [t.head EXCEPT ![c] = g]
<1>0. c \in Object /\ t.head[c].rev > 0 /\ t.head[c].rev \in Nat /\ g \in Heads /\ g.rev > 0
  BY DEF TruthStates, Heads, Rows
<1>1. h \in [Object -> Heads] /\ h[c] = g /\ \A p \in Object : p # c => h[p] = t.head[p]
  BY <1>0 DEF TruthStates
<1>2. /\ u.epoch = t.epoch + 1 /\ u.words = t.words /\ u.muted = t.muted /\ u.head = h
      /\ u.blocked = t.blocked /\ u.absent = t.absent /\ u.ops = t.ops
      /\ u.mutes = t.mutes /\ u.generation = t.generation
  BY DEF TruthStates, Appended, Bumped
<1>3. u \in TruthStates
  <2>1. Bumped(t) \in TruthStates /\ u = [Bumped(t) EXCEPT !.head = h]
    BY BumpedIs DEF Appended
  <2> HIDE DEF h
  <2>. QED  BY <1>1, <2>1, Zenon DEF TruthStates
<1> HIDE DEF h, u
<1>4. Rows(u) = Rows(t)
  BY <1>0, <1>1, <1>2 DEF Rows
<1>. QED  BY <1>1, <1>2, <1>3, <1>4 DEF u, g

LEMMA DeletedIs ==
    ASSUME NEW t \in TruthStates, NEW o \in Object
    PROVE  LET u == Deleted(t, o)
           IN  /\ u \in TruthStates /\ Rows(u) = Rows(t) /\ u.head = t.head
               /\ u.epoch = t.epoch + 1 /\ u.words = t.words
               /\ u.blocked = t.blocked \cup Closure(t, o)
               /\ u.muted = t.muted \cup Closure(t, o)
               /\ u.absent = t.absent /\ u.mutes = t.mutes /\ u.generation = t.generation
               /\ \E op \in Operations :
                     /\ op.members = Closure(t, o) /\ ~op.vector /\ ~op.history
                     /\ u.ops = t.ops \cup {op}
<1> DEFINE u == Deleted(t, o)
<1> DEFINE k == Closure(t, o)
<1> DEFINE op == [members |-> k, epoch |-> t.epoch + 1, scrubbed |-> FALSE,
                  vector |-> FALSE, history |-> FALSE, queued |-> TRUE]
<1>1. k \subseteq Object
  BY DEF Closure, Rows
<1> HIDE DEF k
<1>2. op \in Operations
  BY <1>1 DEF Operations, TruthStates
<1>3. /\ u.epoch = t.epoch + 1 /\ u.words = t.words /\ u.head = t.head
      /\ u.blocked = t.blocked \cup k /\ u.muted = t.muted \cup k
      /\ u.absent = t.absent /\ u.ops = t.ops \cup {op}
      /\ u.mutes = t.mutes /\ u.generation = t.generation
  BY DEF TruthStates, Deleted, Bumped, k
<1>4. u = [Bumped(t) EXCEPT !.blocked = @ \cup k, !.muted = @ \cup k, !.ops = @ \cup {op}]
  BY Zenon DEF Deleted, k
<1>5. op.members = k /\ ~op.vector /\ ~op.history
  OBVIOUS
<1> HIDE DEF op, u
<1>6. u \in TruthStates
  <2>1. Bumped(t) \in TruthStates /\ Bumped(t).blocked \cup k \in SUBSET Object
        /\ Bumped(t).muted \cup k \in SUBSET Object /\ Bumped(t).ops \cup {op} \in SUBSET Operations
    BY <1>1, <1>2, BumpedIs, PartsOf DEF Parts
  <2>. QED  BY <1>4, <2>1, Zenon DEF TruthStates
<1>7. Rows(u) = Rows(t)
  BY <1>3 DEF Rows
<1>. QED  BY <1>2, <1>3, <1>5, <1>6, <1>7, Zenon DEF u, k

(* The request key of this mute is recorded already.                          *)
Asked(t, o) == \E m \in t.mutes : m.target = o /\ m.generation = t.generation

LEMMA MutedAgain == ASSUME NEW t, NEW o, Asked(t, o) PROVE Muted(t, o) = t
  BY DEF Muted, Asked

LEMMA MutedIs ==
    ASSUME NEW t \in TruthStates, NEW o \in Object, ~Asked(t, o)
    PROVE  LET u == Muted(t, o)
           IN  /\ u \in TruthStates /\ Rows(u) = Rows(t) /\ u.head = t.head
               /\ u.epoch = t.epoch + 1 /\ u # t /\ u.words = t.words
               /\ u.blocked = t.blocked /\ u.muted = t.muted \cup Closure(t, o)
               /\ u.absent = t.absent /\ u.ops = t.ops /\ u.generation = t.generation
               /\ \E m \in Mutes :
                     /\ m.target = o /\ m.generation = t.generation
                     /\ m.members = Closure(t, o) /\ u.mutes = t.mutes \cup {m}
<1> DEFINE u == Muted(t, o)
<1> DEFINE k == Closure(t, o)
<1> DEFINE n == [target |-> o, generation |-> t.generation, members |-> k]
<1>1. k \subseteq Object
  BY DEF Closure, Rows
<1> HIDE DEF k
<1>2. n \in Mutes
  BY <1>1 DEF Mutes, TruthStates
<1>3. u = [Bumped(t) EXCEPT !.muted = @ \cup k, !.mutes = @ \cup {n}]
  BY Zenon DEF Muted, Asked, k
<1>4. n.target = o /\ n.generation = t.generation /\ n.members = k
  OBVIOUS
<1> HIDE DEF n, u
<1>5. /\ u.epoch = t.epoch + 1 /\ u.words = t.words /\ u.head = t.head
      /\ u.blocked = t.blocked /\ u.muted = t.muted \cup k
      /\ u.absent = t.absent /\ u.ops = t.ops
      /\ u.mutes = t.mutes \cup {n} /\ u.generation = t.generation
  BY <1>3 DEF TruthStates, Bumped
<1>6. u \in TruthStates
  <2>1. Bumped(t) \in TruthStates /\ Bumped(t).muted \cup k \in SUBSET Object
        /\ Bumped(t).mutes \cup {n} \in SUBSET Mutes
    BY <1>1, <1>2, BumpedIs, PartsOf DEF Parts
  <2>. QED  BY <1>3, <2>1, Zenon DEF TruthStates
<1>7. Rows(u) = Rows(t) /\ u # t
  BY <1>5 DEF Rows, TruthStates
<1>. QED  BY <1>2, <1>4, <1>5, <1>6, <1>7, Zenon DEF u, k

LEMMA UnmutedIs ==
    ASSUME NEW t \in TruthStates, NEW o \in Object
    PROVE  LET u == Unmuted(t, o)
           IN  /\ u \in TruthStates /\ Rows(u) = Rows(t) /\ u.head = t.head
               /\ u.epoch = t.epoch + 1 /\ u.words = t.words
               /\ u.muted = t.muted \ Closure(t, o)
               /\ u.blocked = t.blocked /\ u.absent = t.absent /\ u.ops = t.ops
               /\ u.mutes = t.mutes /\ u.generation = t.epoch + 1
<1> DEFINE u == Unmuted(t, o)
<1>1. /\ u.epoch = t.epoch + 1 /\ u.words = t.words /\ u.head = t.head
      /\ u.muted = t.muted \ Closure(t, o)
      /\ u.blocked = t.blocked /\ u.absent = t.absent /\ u.ops = t.ops
      /\ u.mutes = t.mutes /\ u.generation = t.epoch + 1
  BY DEF TruthStates, Unmuted, Bumped
<1>2. u \in TruthStates
  <2>1. Bumped(t) \in TruthStates /\ Bumped(t).muted \ Closure(t, o) \in SUBSET Object
        /\ t.epoch + 1 \in Nat
    BY BumpedIs, PartsOf DEF Parts
  <2>. QED  BY <2>1, Zenon DEF TruthStates, Unmuted
<1> HIDE DEF u
<1>3. Rows(u) = Rows(t)
  BY <1>1 DEF Rows
<1>. QED  BY <1>1, <1>2, <1>3 DEF u

-----------------------------------------------------------------------------
(* Every transaction leaves a sound content sound.                            *)
LEMMA CapturedSound ==
    ASSUME NEW t, Sound(t), NEW o \in Object, MayCapture(t, o), NEW F, Fenced(t, F)
    PROVE  Sound(Captured(t, o)) /\ Fenced(Captured(t, o), F)
<1> DEFINE u == Captured(t, o)
<1>0. t \in TruthStates /\ SoundRows(t) /\ SoundDeletes(t) /\ SoundMutes(t)
  BY DEF Sound
<1>1. /\ u \in TruthStates /\ Rows(u) = Rows(t) \cup {o}
      /\ u.epoch = t.epoch + 1 /\ u.words = t.words \cup {o}
      /\ u.muted = IF Root(o) \in t.muted THEN t.muted \cup {o} ELSE t.muted
      /\ u.blocked = t.blocked /\ u.absent = t.absent /\ u.ops = t.ops
      /\ u.mutes = t.mutes /\ u.generation = t.generation
  BY <1>0, CapturedIs, Zenon
<1>2. t.epoch \in Nat /\ t.generation \in Nat /\ Rows(t) \subseteq Object
  BY <1>0, PartsOf DEF Parts, Rows
<1>3. Root(o) \in Rows(u)
  BY <1>1 DEF MayCapture, Visible, Root
<1> HIDE DEF u
<1>4. SoundRows(u)
  BY <1>0, <1>1, <1>3 DEF SoundRows
<1>5. SoundDeletes(u)
  BY <1>0, <1>1, Zenon DEF SoundDeletes
<1>6. SoundMutes(u)
  <2>1. u.generation <= u.epoch
    BY <1>0, <1>1, <1>2 DEF SoundMutes
  <2>2. ASSUME NEW m \in t.mutes, m.generation = t.generation
        PROVE  m.target \in Rows(u) /\ Closure(u, m.target) \subseteq u.muted
    <3>1. m.target \in Rows(t) /\ Closure(t, m.target) \subseteq t.muted
      BY <1>0, <2>2 DEF SoundMutes
    <3>2. m.target \in Object /\ Root(m.target) \in Rows(t) /\ Root(Root(m.target)) = Root(m.target)
      BY <1>0, <1>2, <3>1, RootIs DEF SoundRows
    <3>3. Root(m.target) \in t.muted
      BY <3>1, <3>2 DEF Closure
    <3>. QED  BY <1>1, <3>1, <3>3 DEF Closure
  <2>. QED  BY <1>0, <1>1, <2>1, <2>2 DEF SoundMutes
<1>7. Fenced(u, F)
  <2>1. \A op \in t.ops : o \notin op.members
    BY <1>0 DEF MayCapture, SoundDeletes, Members
  <2>. QED  BY <1>1, <2>1 DEF Fenced
<1>. QED  BY <1>1, <1>4, <1>5, <1>6, <1>7 DEF Sound, u

LEMMA AppendedSound ==
    ASSUME NEW t, Sound(t), NEW c \in Rows(t), NEW w \in BOOLEAN, NEW F, Fenced(t, F)
    PROVE  Sound(Appended(t, c, w)) /\ Fenced(Appended(t, c, w), F)
<1> DEFINE u == Appended(t, c, w)
<1>0. t \in TruthStates /\ SoundRows(t) /\ SoundDeletes(t) /\ SoundMutes(t)
  BY DEF Sound
<1>1. /\ u \in TruthStates /\ Rows(u) = Rows(t)
      /\ u.epoch = t.epoch + 1 /\ u.words = t.words /\ u.muted = t.muted
      /\ u.blocked = t.blocked /\ u.ops = t.ops
      /\ u.mutes = t.mutes /\ u.generation = t.generation
  BY <1>0, AppendedIs, Zenon
<1>2. t.epoch \in Nat /\ t.generation \in Nat
  BY <1>0, PartsOf DEF Parts
<1> HIDE DEF u
<1>3. SoundRows(u) /\ SoundDeletes(u) /\ Fenced(u, F)
  BY <1>0, <1>1 DEF SoundRows, SoundDeletes, Fenced
<1>4. SoundMutes(u)
  <2>1. u.generation <= u.epoch
    BY <1>0, <1>1, <1>2 DEF SoundMutes
  <2>. QED  BY <1>0, <1>1, <2>1 DEF SoundMutes, Closure
<1>. QED  BY <1>1, <1>3, <1>4 DEF Sound, u

LEMMA DeletedSound ==
    ASSUME NEW t, Sound(t), NEW o \in Visible(t), NEW F, Fenced(t, F)
    PROVE  Sound(Deleted(t, o)) /\ Fenced(Deleted(t, o), F)
<1> DEFINE u == Deleted(t, o)
<1>0. t \in TruthStates /\ SoundRows(t) /\ SoundDeletes(t) /\ SoundMutes(t)
  BY DEF Sound
<1>1. o \in Object /\ o \in Rows(t) /\ o \notin t.blocked /\ o \in Closure(t, o)
  BY DEF Visible, Rows, Closure
<1>2. /\ u \in TruthStates /\ Rows(u) = Rows(t)
      /\ u.epoch = t.epoch + 1 /\ u.words = t.words
      /\ u.blocked = t.blocked \cup Closure(t, o)
      /\ u.muted = t.muted \cup Closure(t, o)
      /\ u.mutes = t.mutes /\ u.generation = t.generation
  BY <1>0, <1>1, DeletedIs, Zenon
<1>3. PICK op \in Operations : /\ op.members = Closure(t, o) /\ ~op.vector /\ ~op.history
                               /\ u.ops = t.ops \cup {op}
  BY <1>0, <1>1, DeletedIs, Zenon
<1>4. t.epoch \in Nat /\ t.generation \in Nat
  BY <1>0, PartsOf DEF Parts
<1> HIDE DEF u
<1>5. SoundRows(u) /\ Fenced(u, F)
  BY <1>0, <1>2, <1>3 DEF SoundRows, Fenced
<1>6. SoundDeletes(u)
  <2>1. \A other \in t.ops : other.members # op.members
    BY <1>0, <1>1, <1>3 DEF SoundDeletes, Members
  <2>. QED  BY <1>0, <1>2, <1>3, <2>1 DEF SoundDeletes, Members
<1>7. SoundMutes(u)
  <2>1. u.generation <= u.epoch
    BY <1>0, <1>2, <1>4 DEF SoundMutes
  <2>. QED  BY <1>0, <1>2, <2>1 DEF SoundMutes, Closure
<1>. QED  BY <1>2, <1>5, <1>6, <1>7 DEF Sound, u

LEMMA MutedSound ==
    ASSUME NEW t, Sound(t), NEW o \in Rows(t), NEW F, Fenced(t, F)
    PROVE  Sound(Muted(t, o)) /\ Fenced(Muted(t, o), F)
<1> DEFINE u == Muted(t, o)
<1>0. t \in TruthStates /\ SoundRows(t) /\ SoundDeletes(t) /\ SoundMutes(t) /\ o \in Object
  BY DEF Sound, Rows
<1>1. CASE Asked(t, o)
  BY <1>1, MutedAgain
<1>2. CASE ~Asked(t, o)
  <2>1. /\ u \in TruthStates /\ Rows(u) = Rows(t)
        /\ u.epoch = t.epoch + 1 /\ u.words = t.words
        /\ u.blocked = t.blocked /\ u.muted = t.muted \cup Closure(t, o)
        /\ u.ops = t.ops /\ u.generation = t.generation
    BY <1>0, <1>2, MutedIs, Zenon
  <2>2. PICK n \in Mutes : /\ n.target = o /\ n.generation = t.generation
                           /\ n.members = Closure(t, o) /\ u.mutes = t.mutes \cup {n}
    BY <1>0, <1>2, MutedIs, Zenon
  <2>3. t.epoch \in Nat /\ t.generation \in Nat
    BY <1>0, PartsOf DEF Parts
  <2> HIDE DEF u
  <2>4. SoundRows(u) /\ SoundDeletes(u) /\ Fenced(u, F)
    BY <1>0, <2>1 DEF SoundRows, SoundDeletes, Fenced
  <2>5. SoundMutes(u)
    <3>1. u.generation <= u.epoch
      BY <1>0, <2>1, <2>3 DEF SoundMutes
    <3>2. \A m \in u.mutes : m.generation <= u.generation
      BY <1>0, <2>1, <2>2, <2>3 DEF SoundMutes
    <3>3. \A m, k \in u.mutes : SameKey(m, k) => m = k
      BY <1>0, <1>2, <2>1, <2>2 DEF SoundMutes, SameKey, Asked
    <3>4. \A m \in u.mutes : m.generation = u.generation =>
             m.target \in Rows(u) /\ Closure(u, m.target) \subseteq u.muted
      BY <1>0, <2>1, <2>2 DEF SoundMutes, Closure
    <3>. QED  BY <3>1, <3>2, <3>3, <3>4 DEF SoundMutes
  <2>. QED  BY <2>1, <2>4, <2>5 DEF Sound, u
<1>. QED  BY <1>1, <1>2

LEMMA UnmutedSound ==
    ASSUME NEW t, Sound(t), NEW o \in Object, NEW F, Fenced(t, F)
    PROVE  Sound(Unmuted(t, o)) /\ Fenced(Unmuted(t, o), F)
<1> DEFINE u == Unmuted(t, o)
<1>0. t \in TruthStates /\ SoundRows(t) /\ SoundDeletes(t) /\ SoundMutes(t)
  BY DEF Sound
<1>1. /\ u \in TruthStates /\ Rows(u) = Rows(t)
      /\ u.epoch = t.epoch + 1 /\ u.words = t.words
      /\ u.blocked = t.blocked /\ u.ops = t.ops
      /\ u.mutes = t.mutes /\ u.generation = t.epoch + 1
  BY <1>0, UnmutedIs, Zenon
<1>2. /\ t.epoch \in Nat /\ t.generation \in Nat /\ t.mutes \subseteq Mutes
  BY <1>0, PartsOf DEF Parts
<1> HIDE DEF u
<1>3. SoundRows(u) /\ SoundDeletes(u) /\ Fenced(u, F)
  BY <1>0, <1>1 DEF SoundRows, SoundDeletes, Fenced
<1>4. SoundMutes(u)
  <2>1. \A m \in t.mutes : m.generation \in Nat /\ m.generation < t.epoch + 1
    BY <1>0, <1>2 DEF SoundMutes, Mutes
  <2>2. u.generation <= u.epoch /\ \A m \in u.mutes : m.generation <= u.generation /\ m.generation # u.generation
    BY <1>1, <1>2, <2>1
  <2>. QED  BY <1>0, <1>1, <2>2 DEF SoundMutes
<1>. QED  BY <1>1, <1>3, <1>4 DEF Sound, u

(* A purge's transaction: one delete operation's record is renewed, and words *)
(* may go.                                                                    *)
Renews(t, u, op, new) ==
    /\ new.members = op.members /\ u.ops = (t.ops \ {op}) \cup {new} /\ u.words \subseteq t.words
    /\ u.head = t.head /\ u.epoch = t.epoch /\ u.blocked = t.blocked /\ u.muted = t.muted
    /\ u.absent = t.absent /\ u.mutes = t.mutes /\ u.generation = t.generation

LEMMA RenewedSound ==
    ASSUME NEW t, Sound(t), NEW u \in TruthStates, NEW op \in t.ops, NEW new,
           NEW F, Fenced(t, F), Renews(t, u, op, new),
           new.vector => op.members \cap Rows(t) \subseteq F
    PROVE  Sound(u) /\ Fenced(u, F) /\ Rows(u) = Rows(t) /\ Members(u.ops) = Members(t.ops)
<1> USE DEF Renews
<1>0. t \in TruthStates /\ SoundRows(t) /\ SoundDeletes(t) /\ SoundMutes(t)
  BY DEF Sound
<1>1. Rows(u) = Rows(t)
  BY DEF Rows
<1>2. Members(u.ops) = Members(t.ops)
  BY DEF Members
<1>3. SoundRows(u)
  BY <1>0, <1>1 DEF SoundRows
<1>4. SoundDeletes(u)
  BY <1>0, <1>2 DEF SoundDeletes
<1>5. SoundMutes(u)
  BY <1>0, <1>1 DEF SoundMutes, Closure
<1>6. Fenced(u, F)
  BY <1>1 DEF Fenced
<1>. QED  BY <1>1, <1>2, <1>3, <1>4, <1>5, <1>6 DEF Sound

-----------------------------------------------------------------------------
(* A content that holds to the decisions still does after each transaction of *)
(* the owner, and to the decision it makes.                                   *)
LEMMA CapturedKeeps ==
    ASSUME NEW t, Sound(t), NEW o \in Object, NEW d \in Decisions, NEW e,
           NEW S \in SUBSET TruthStates, Keeps(t, d, S), e.forgotten = d.forgotten,
           e.muted = IF Root(o) \in d.muted THEN d.muted \cup {o} ELSE d.muted \ {o},
           e.listed = IF Root(o) \in d.muted THEN d.listed ELSE d.listed \ {o},
           e.withdrawn = {w \in d.withdrawn : w[1] # o}
    PROVE  Keeps(Captured(t, o), e, S)
<1> DEFINE u == Captured(t, o)
<1>0. t \in TruthStates /\ t.epoch \in Nat /\ \A s \in S : s.epoch \in Nat
  BY PartsOf DEF Sound, Parts
<1>1. /\ u.epoch = t.epoch + 1
      /\ u.muted = IF Root(o) \in t.muted THEN t.muted \cup {o} ELSE t.muted
      /\ u.blocked = t.blocked /\ u.absent = t.absent /\ u.ops = t.ops
      /\ u.mutes = t.mutes /\ u.generation = t.generation
      /\ \A p \in Object : p # o => u.head[p] = t.head[p]
  BY <1>0, CapturedIs, Zenon
<1> HIDE DEF u
<1>2. e.listed \subseteq e.muted /\ e.muted \subseteq u.muted /\ e.listed \subseteq d.listed
  BY <1>1 DEF Keeps
<1>3. Lists(u.mutes, e.listed, S)
  BY <1>1, <1>2 DEF Keeps, Lists
<1>4. \A s \in S : s.epoch <= u.epoch
  BY <1>0, <1>1 DEF Keeps
<1>5. \A w \in e.withdrawn : w \in d.withdrawn /\ w[1] \in Object /\ w[1] # o
  BY DEF Decisions, Object
<1>6. \A w \in e.withdrawn : LaterThanAll(w, S) =>
        \/ w[1] \in u.absent \cup u.blocked
        \/ u.head[w[1]] = [rev |-> w[2], withdrawn |-> TRUE]
  BY <1>1, <1>5, Zenon DEF Keeps
<1>. QED  BY <1>1, <1>2, <1>3, <1>4, <1>6 DEF Keeps, u

LEMMA AppendedKeeps ==
    ASSUME NEW t, Sound(t), NEW c \in Rows(t), NEW b \in BOOLEAN, NEW d \in Decisions, NEW e,
           NEW S \in SUBSET TruthStates, Keeps(t, d, S),
           e.forgotten = d.forgotten, e.muted = d.muted, e.listed = d.listed,
           \A w \in e.withdrawn : (w \in d.withdrawn /\ w[1] # c) \/ (b /\ w = <<c, t.head[c].rev + 1>>)
    PROVE  Keeps(Appended(t, c, b), e, S)
<1> DEFINE u == Appended(t, c, b)
<1>0. t \in TruthStates /\ t.epoch \in Nat /\ \A s \in S : s.epoch \in Nat
  BY PartsOf DEF Sound, Parts
<1>1. /\ u.epoch = t.epoch + 1 /\ u.muted = t.muted
      /\ u.blocked = t.blocked /\ u.absent = t.absent /\ u.ops = t.ops
      /\ u.mutes = t.mutes /\ u.generation = t.generation
      /\ u.head[c] = [rev |-> t.head[c].rev + 1, withdrawn |-> b]
      /\ \A p \in Object : p # c => u.head[p] = t.head[p]
  BY <1>0, AppendedIs, Zenon
<1> HIDE DEF u
<1>2. \A s \in S : s.epoch <= u.epoch
  BY <1>0, <1>1 DEF Keeps
<1>3. ASSUME NEW w \in e.withdrawn, LaterThanAll(w, S)
      PROVE  \/ w[1] \in u.absent \cup u.blocked
             \/ u.head[w[1]] = [rev |-> w[2], withdrawn |-> TRUE]
  <2>1. CASE w \in d.withdrawn /\ w[1] # c
    <3>1. w[1] \in Object
      BY <2>1 DEF Decisions, Object
    <3>. QED  BY <1>1, <1>3, <2>1, <3>1, Zenon DEF Keeps
  <2>2. CASE b /\ w = <<c, t.head[c].rev + 1>>
    <3>1. w[1] = c /\ w[2] = t.head[c].rev + 1 /\ b = TRUE
      BY <2>2
    <3>. QED  BY <1>1, <3>1, Zenon
  <2>. QED  BY <2>1, <2>2
<1>. QED  BY <1>1, <1>2, <1>3, Zenon DEF Keeps, u

LEMMA DeletedKeeps ==
    ASSUME NEW t, Sound(t), NEW o \in Object, NEW d \in Decisions, NEW e,
           NEW S \in SUBSET TruthStates, Keeps(t, d, S),
           e.forgotten = d.forgotten \cup Closure(t, o), e.muted = d.muted,
           e.listed = d.listed, e.withdrawn = d.withdrawn
    PROVE  Keeps(Deleted(t, o), e, S)
<1> DEFINE u == Deleted(t, o)
<1>0. t \in TruthStates /\ t.epoch \in Nat /\ \A s \in S : s.epoch \in Nat
  BY PartsOf DEF Sound, Parts
<1>1. /\ u.head = t.head /\ u.epoch = t.epoch + 1
      /\ u.blocked = t.blocked \cup Closure(t, o) /\ u.muted = t.muted \cup Closure(t, o)
      /\ u.absent = t.absent /\ u.mutes = t.mutes /\ u.generation = t.generation
  BY <1>0, DeletedIs, Zenon
<1>2. PICK op \in Operations : /\ op.members = Closure(t, o) /\ ~op.vector /\ ~op.history
                               /\ u.ops = t.ops \cup {op}
  BY <1>0, DeletedIs, Zenon
<1> HIDE DEF u
<1>3. \A s \in S : s.epoch <= u.epoch
  BY <1>0, <1>1 DEF Keeps
<1>4. e.forgotten \subseteq Members(u.ops) /\ Carries(u.ops, S)
  BY <1>2 DEF Keeps, Members, Carries
<1>5. e.listed \subseteq e.muted /\ e.muted \subseteq u.muted /\ Lists(u.mutes, e.listed, S)
  BY <1>1 DEF Keeps
<1>6. \A w \in e.withdrawn : LaterThanAll(w, S) =>
        \/ w[1] \in u.absent \cup u.blocked
        \/ u.head[w[1]] = [rev |-> w[2], withdrawn |-> TRUE]
  BY <1>1 DEF Keeps
<1>. QED  BY <1>1, <1>3, <1>4, <1>5, <1>6, Zenon DEF Keeps, u

LEMMA MutedKeeps ==
    ASSUME NEW t, Sound(t), NEW o \in Object, NEW d \in Decisions, NEW e,
           NEW S \in SUBSET TruthStates, Keeps(t, d, S), e.forgotten = d.forgotten,
           e.muted = d.muted \cup Closure(t, o),
           e.listed = IF Muted(t, o) = t THEN d.listed ELSE d.listed \cup Closure(t, o),
           e.withdrawn = d.withdrawn
    PROVE  Keeps(Muted(t, o), e, S)
<1> DEFINE u == Muted(t, o)
<1>0. t \in TruthStates /\ t.epoch \in Nat /\ \A s \in S : s.epoch \in Nat
  BY PartsOf DEF Sound, Parts
<1>1. CASE Asked(t, o)
  <2>1. u = t /\ e.listed = d.listed
    BY <1>1, MutedAgain
  <2>2. Closure(t, o) \subseteq t.muted
    BY <1>1 DEF Sound, SoundMutes, Asked
  <2> HIDE DEF u
  <2>3. e.listed \subseteq e.muted /\ e.muted \subseteq t.muted
    BY <2>1, <2>2 DEF Keeps
  <2>4. Keeps(t, e, S)
    BY <2>1, <2>3, Zenon DEF Keeps
  <2>. QED  BY <2>1, <2>4 DEF u
<1>2. CASE ~Asked(t, o)
  <2>1. /\ u.head = t.head /\ u.epoch = t.epoch + 1 /\ u # t
        /\ u.blocked = t.blocked /\ u.muted = t.muted \cup Closure(t, o)
        /\ u.absent = t.absent /\ u.ops = t.ops /\ u.generation = t.generation
    BY <1>0, <1>2, MutedIs, Zenon
  <2>2. PICK n \in Mutes : /\ n.target = o /\ n.generation = t.generation
                           /\ n.members = Closure(t, o) /\ u.mutes = t.mutes \cup {n}
    BY <1>0, <1>2, MutedIs, Zenon
  <2> HIDE DEF u
  <2>3. \A s \in S : s.epoch <= u.epoch
    BY <1>0, <2>1 DEF Keeps
  <2>4. e.listed = d.listed \cup Closure(t, o)
    BY <2>1, Zenon DEF u
  <2>5. e.listed \subseteq e.muted /\ e.muted \subseteq u.muted
    BY <2>1, <2>4 DEF Keeps
  <2>6. \A s \in S : \A other \in s.mutes : ~SameKey(other, n)
    BY <1>2, <2>2 DEF Keeps, SameKey, Asked
  <2>7. Lists(u.mutes, e.listed, S)
    BY <2>2, <2>4, <2>6 DEF Keeps, Lists
  <2>8. \A s \in S : \A m \in s.mutes : m.generation = u.generation => m \in u.mutes
    BY <2>1, <2>2 DEF Keeps
  <2>9. \A w \in e.withdrawn : LaterThanAll(w, S) =>
          \/ w[1] \in u.absent \cup u.blocked
          \/ u.head[w[1]] = [rev |-> w[2], withdrawn |-> TRUE]
    BY <2>1 DEF Keeps
  <2>10. e.forgotten \subseteq Members(u.ops) /\ Carries(u.ops, S)
    BY <2>1 DEF Keeps
  <2>. QED  BY <2>3, <2>5, <2>7, <2>8, <2>9, <2>10, Zenon DEF Keeps, u
<1>. QED  BY <1>1, <1>2

LEMMA UnmutedKeeps ==
    ASSUME NEW t, Sound(t), NEW o \in Object, NEW d \in Decisions, NEW e,
           NEW S, \A s \in S : Sound(s), Keeps(t, d, S), e.forgotten = d.forgotten,
           e.muted = d.muted \ Closure(t, o), e.listed = d.listed \ Closure(t, o),
           e.withdrawn = d.withdrawn
    PROVE  Keeps(Unmuted(t, o), e, S)
<1> DEFINE u == Unmuted(t, o)
<1>0. /\ t \in TruthStates /\ t.epoch \in Nat
      /\ \A s \in S : s.epoch \in Nat /\ s.generation \in Nat /\ s.mutes \subseteq Mutes
  BY PartsOf DEF Sound, Parts
<1>1. /\ u.head = t.head /\ u.epoch = t.epoch + 1 /\ u.muted = t.muted \ Closure(t, o)
      /\ u.blocked = t.blocked /\ u.absent = t.absent /\ u.ops = t.ops
      /\ u.mutes = t.mutes /\ u.generation = t.epoch + 1
  BY <1>0, UnmutedIs, Zenon
<1> HIDE DEF u
<1>2. \A s \in S : s.epoch <= u.epoch
  BY <1>0, <1>1 DEF Keeps
<1>3. ASSUME NEW s \in S, NEW m \in s.mutes PROVE m.generation # u.generation
  <2>1. m.generation <= s.generation /\ s.generation <= s.epoch /\ s.epoch <= t.epoch
    BY <1>3 DEF Keeps, Sound, SoundMutes
  <2>2. m.generation \in Nat
    BY <1>0, <1>3 DEF Mutes
  <2>. QED  BY <1>0, <1>1, <2>1, <2>2
<1>4. e.listed \subseteq e.muted /\ e.muted \subseteq u.muted /\ e.listed \subseteq d.listed
  BY <1>1 DEF Keeps
<1>5. Lists(u.mutes, e.listed, S)
  BY <1>1, <1>4 DEF Keeps, Lists
<1>6. \A w \in e.withdrawn : LaterThanAll(w, S) =>
        \/ w[1] \in u.absent \cup u.blocked
        \/ u.head[w[1]] = [rev |-> w[2], withdrawn |-> TRUE]
  BY <1>1 DEF Keeps
<1>7. e.forgotten \subseteq Members(u.ops) /\ Carries(u.ops, S)
  BY <1>1 DEF Keeps
<1>. QED  BY <1>2, <1>3, <1>4, <1>5, <1>6, <1>7, Zenon DEF Keeps, u

(* What a purge writes into the operations' records decides nothing.          *)
LEMMA RenewedKeeps ==
    ASSUME NEW t, NEW u, NEW op \in t.ops, NEW new, NEW d, NEW S, Keeps(t, d, S), Renews(t, u, op, new)
    PROVE  Keeps(u, d, S)
<1> USE DEF Renews
<1>1. Members(u.ops) = Members(t.ops)
  BY DEF Members
<1>2. Carries(u.ops, S)
  BY DEF Keeps, Carries
<1>. QED  BY <1>1, <1>2, Zenon DEF Keeps

-----------------------------------------------------------------------------
(* A backup of a content that holds to the decisions changes nothing of that. *)
LEMMA BackupKeeps ==
    ASSUME NEW t, Sound(t), NEW d \in Decisions, NEW S, Keeps(t, d, S)
    PROVE  Keeps(t, d, S \cup {t})
<1>0. t \in TruthStates /\ t.epoch \in Nat
  BY PartsOf DEF Sound, Parts
<1>1. Lists(t.mutes, d.listed, S \cup {t})
  <2>1. \A m, n \in t.mutes : SameKey(m, n) => m = n
    BY DEF Sound, SoundMutes
  <2>2. ASSUME NEW n \in d.listed
        PROVE  \E m \in t.mutes :
                  /\ n \in m.members
                  /\ \A s \in S \cup {t} : \A other \in s.mutes : SameKey(other, m) => n \in other.members
    <3>1. PICK m \in t.mutes :
                  /\ n \in m.members
                  /\ \A s \in S : \A other \in s.mutes : SameKey(other, m) => n \in other.members
      BY <2>2 DEF Keeps, Lists
    <3>2. \A other \in t.mutes : SameKey(other, m) => n \in other.members
      BY <2>1, <3>1
    <3>. QED  BY <3>1, <3>2
  <2>. QED  BY <2>2 DEF Lists
<1>2. Carries(t.ops, S \cup {t})
  BY DEF Keeps, Carries
<1>3. \A s \in S \cup {t} : /\ s.epoch <= t.epoch
                            /\ \A m \in s.mutes : m.generation = t.generation => m \in t.mutes
  BY <1>0 DEF Keeps
<1>4. \A w \in d.withdrawn : LaterThanAll(w, S \cup {t}) => LaterThanAll(w, S)
  BY DEF LaterThanAll
<1>. QED  BY <1>1, <1>2, <1>3, <1>4, Zenon DEF Keeps

-----------------------------------------------------------------------------
(* The parts of the ledger a sound content exports.                           *)
LEMMA LedgerIs ==
    ASSUME NEW t, Sound(t), NEW f \in {"full", "legacy"}
    PROVE  LET L == LedgerOf(t, f)
           IN  /\ SoundLedger(L) /\ L.format = f /\ L.epoch = t.epoch /\ L.ops = t.ops
               /\ L.mutes = {[m EXCEPT !.members = @ \cap t.muted] : m \in t.mutes}
               /\ L.absent = t.absent
               /\ f = "full" => L.muted = t.muted \ t.blocked
               /\ \A c \in Claim \cap Rows(t) : t.head[c].withdrawn /\ c \notin t.blocked =>
                     <<c, t.head[c].rev>> \in L.withdrawals
<1> DEFINE L == LedgerOf(t, f)
<1> DEFINE ms == {[m EXCEPT !.members = @ \cap t.muted] : m \in t.mutes}
<1> DEFINE ws == {<<c, t.head[c].rev>> :
                     c \in {b \in Claim \cap Rows(t) : t.head[b].withdrawn /\ b \notin t.blocked}}
<1> DEFINE mu == IF f = "full" THEN t.muted \ t.blocked ELSE {}
<1>0. /\ t \in TruthStates /\ Parts(t) /\ SoundDeletes(t) /\ SoundMutes(t)
      /\ \A c \in Claim : c \in Object /\ t.head[c].rev \in Nat
  BY PartsOf DEF Sound, Parts, Heads, Object
<1>1. L = [format |-> f, epoch |-> t.epoch, ops |-> t.ops, mutes |-> ms, withdrawals |-> ws,
           absent |-> t.absent, muted |-> mu]
  BY DEF LedgerOf
<1>2. ASSUME NEW m \in t.mutes
      PROVE  LET k == [m EXCEPT !.members = @ \cap t.muted]
             IN  k \in Mutes /\ k.target = m.target /\ k.generation = m.generation
                 /\ k.members = m.members \cap t.muted
  BY <1>0, <1>2 DEF Parts, Mutes
<1>3. ms \subseteq Mutes
  BY <1>2, Zenon
<1>4. ws \subseteq Claim \X Nat
  BY <1>0
<1>5. \A v, w \in ws : v[1] = w[1] => v = w
  OBVIOUS
<1>6. \A c \in Claim \cap Rows(t) : t.head[c].withdrawn /\ c \notin t.blocked => <<c, t.head[c].rev>> \in ws
  OBVIOUS
<1>7. \A m \in ms : m.generation <= t.epoch
  <2>1. ASSUME NEW m \in t.mutes PROVE m.generation <= t.epoch
    <3>1. m.generation <= t.generation /\ t.generation <= t.epoch
      BY <1>0, <2>1 DEF SoundMutes
    <3>2. m.generation \in Nat /\ t.generation \in Nat /\ t.epoch \in Nat
      BY <1>0, <2>1 DEF Parts, Mutes
    <3>. QED  BY <3>1, <3>2
  <2>2. ASSUME NEW k \in ms PROVE \E m \in t.mutes : k.generation = m.generation
    <3>1. PICK m \in t.mutes : k = [m EXCEPT !.members = @ \cap t.muted]
      OBVIOUS
    <3>. QED  BY <1>2, <3>1
  <2>. QED  BY <2>1, <2>2
<1>8. \A m, n \in ms : SameKey(m, n) => m = n
  <2>1. ASSUME NEW j \in ms, NEW k \in ms, SameKey(j, k) PROVE j = k
    <3>1. PICK m \in t.mutes : j = [m EXCEPT !.members = @ \cap t.muted]
      OBVIOUS
    <3>2. PICK n \in t.mutes : k = [n EXCEPT !.members = @ \cap t.muted]
      OBVIOUS
    <3>3. SameKey(m, n)
      BY <1>2, <2>1, <3>1, <3>2 DEF SameKey
    <3>. QED  BY <1>0, <3>1, <3>2, <3>3 DEF SoundMutes
  <2>. QED  BY <2>1
<1>9. mu \subseteq Object
  BY <1>0 DEF Parts
<1> HIDE DEF ms, ws, mu
<1>10. L \in Ledgers
  BY <1>0, <1>1, <1>3, <1>4, <1>9 DEF Ledgers, Parts
<1>11. /\ L.format = f /\ L.epoch = t.epoch /\ L.ops = t.ops /\ L.mutes = ms
       /\ L.withdrawals = ws /\ L.absent = t.absent /\ L.muted = mu
  BY <1>1
<1> HIDE DEF L
<1>12. SoundLedger(L)
  BY <1>0, <1>5, <1>7, <1>8, <1>10, <1>11 DEF SoundLedger, SoundDeletes
<1>. QED  BY <1>6, <1>11, <1>12 DEF L, ms, mu

(* The ledger of a content that holds to the decisions tells them.            *)
LEMMA LedgerTells ==
    ASSUME NEW t, Sound(t), NEW f \in {"full", "legacy"}, NEW d \in Decisions, NEW S, Keeps(t, d, S)
    PROVE  Tells(LedgerOf(t, f), d, S)
<1> DEFINE L == LedgerOf(t, f)
<1>0. SoundDeletes(t) /\ t \in TruthStates
  BY DEF Sound
<1>1. /\ SoundLedger(L) /\ L.format = f /\ L.epoch = t.epoch /\ L.ops = t.ops
      /\ L.mutes = {[m EXCEPT !.members = @ \cap t.muted] : m \in t.mutes}
      /\ L.absent = t.absent
      /\ f = "full" => L.muted = t.muted \ t.blocked
      /\ \A c \in Claim \cap Rows(t) : t.head[c].withdrawn /\ c \notin t.blocked =>
            <<c, t.head[c].rev>> \in L.withdrawals
  BY LedgerIs, Zenon
<1> HIDE DEF L
<1>2. d.forgotten \subseteq Members(L.ops) /\ Carries(L.ops, S) /\ d.listed \subseteq d.muted
  BY <1>1 DEF Keeps
<1>3. L.format = "full" => d.muted \subseteq L.muted \cup Members(L.ops)
  BY <1>0, <1>1 DEF Keeps, SoundDeletes
<1>4. Lists(L.mutes, d.listed, S)
  <2>1. ASSUME NEW n \in d.listed
        PROVE  \E k \in L.mutes :
                  /\ n \in k.members
                  /\ \A s \in S : \A other \in s.mutes : SameKey(other, k) => n \in other.members
    <3>1. PICK m \in t.mutes :
                  /\ n \in m.members
                  /\ \A s \in S : \A other \in s.mutes : SameKey(other, m) => n \in other.members
      BY <2>1 DEF Keeps, Lists
    <3> DEFINE k == [m EXCEPT !.members = @ \cap t.muted]
    <3>2. m \in Mutes /\ n \in t.muted
      BY <1>0, <2>1, PartsOf DEF Keeps, Parts
    <3>3. k \in L.mutes /\ n \in k.members /\ k.target = m.target /\ k.generation = m.generation
      BY <1>1, <3>1, <3>2 DEF Mutes
    <3> HIDE DEF k
    <3>4. \A other : SameKey(other, k) => SameKey(other, m)
      BY <3>3 DEF SameKey
    <3>. QED  BY <3>1, <3>3, <3>4, Zenon
  <2>. QED  BY <2>1 DEF Lists
<1>5. \A s \in S : s.epoch <= L.epoch
  BY <1>1 DEF Keeps
<1>6. ASSUME NEW w \in d.withdrawn, LaterThanAll(w, S)
      PROVE  w[1] \in L.absent \cup Members(L.ops) \/ w \in L.withdrawals
  <2>1. w \in Claim \X Nat /\ w[2] > 0
    BY <1>6 DEF Decisions
  <2>2. CASE w[1] \in t.absent \cup t.blocked
    BY <1>0, <1>1, <2>2 DEF SoundDeletes
  <2>3. CASE w[1] \notin t.absent \cup t.blocked
    <3>1. t.head[w[1]] = [rev |-> w[2], withdrawn |-> TRUE]
      BY <1>6, <2>3 DEF Keeps
    <3>2. w[1] \in Claim \cap Rows(t)
      BY <2>1, <3>1 DEF Rows, Object
    <3>3. t.head[w[1]].withdrawn /\ t.head[w[1]].rev = w[2]
      BY <3>1
    <3>4. <<w[1], w[2]>> \in L.withdrawals
      BY <1>1, <2>3, <3>2, <3>3, Zenon
    <3>. QED  BY <2>1, <3>4
  <2>. QED  BY <2>2, <2>3
<1>. QED  BY <1>1, <1>2, <1>3, <1>4, <1>5, <1>6 DEF Tells, L

(* It tells them still when the content it was exported from is backed up.    *)
LEMMA BackupTells ==
    ASSUME NEW t, Sound(t), NEW f \in {"full", "legacy"}, NEW d \in Decisions, NEW S,
           Tells(LedgerOf(t, f), d, S)
    PROVE  Tells(LedgerOf(t, f), d, S \cup {t})
<1> DEFINE L == LedgerOf(t, f)
<1>0. t \in TruthStates /\ t.epoch \in Nat /\ t.mutes \subseteq Mutes /\ SoundMutes(t)
  BY PartsOf DEF Sound, Parts
<1>1. /\ L.epoch = t.epoch /\ L.ops = t.ops
      /\ L.mutes = {[m EXCEPT !.members = @ \cap t.muted] : m \in t.mutes}
  BY LedgerIs, Zenon
<1> HIDE DEF L
<1>2. Lists(L.mutes, d.listed, S \cup {t})
  <2>1. ASSUME NEW n \in d.listed
        PROVE  \E k \in L.mutes :
                  /\ n \in k.members
                  /\ \A s \in S \cup {t} : \A other \in s.mutes : SameKey(other, k) => n \in other.members
    <3>1. PICK k \in L.mutes :
                  /\ n \in k.members
                  /\ \A s \in S : \A other \in s.mutes : SameKey(other, k) => n \in other.members
      BY <2>1 DEF Tells, Lists, L
    <3>2. PICK m \in t.mutes : k = [m EXCEPT !.members = @ \cap t.muted]
      BY <1>1, <3>1
    <3>3. k.target = m.target /\ k.generation = m.generation /\ k.members = m.members \cap t.muted
      BY <1>0, <3>2 DEF Mutes
    <3>4. \A other \in t.mutes : SameKey(other, k) => other = m
      BY <1>0, <3>3 DEF SameKey, SoundMutes
    <3>. QED  BY <3>1, <3>3, <3>4
  <2>. QED  BY <2>1 DEF Lists
<1>3. Carries(L.ops, S \cup {t})
  BY <1>1 DEF Tells, Carries, L
<1>4. \A s \in S \cup {t} : s.epoch <= L.epoch
  BY <1>0, <1>1 DEF Tells, L
<1>5. \A w \in d.withdrawn : LaterThanAll(w, S \cup {t}) => LaterThanAll(w, S)
  BY DEF LaterThanAll
<1>. QED  BY <1>2, <1>3, <1>4, <1>5, Zenon DEF Tells, L

-----------------------------------------------------------------------------
(* The replay of a ledger, one part after the other.                          *)
MutedAfter(t, ledger) ==
    (IF ledger.format = "full" THEN (t.muted \cap t.blocked) \cup ledger.muted ELSE t.muted)
        \cup Members(ledger.mutes)

MutesAfter(t, ledger) ==
    t.mutes \cup {m \in ledger.mutes :
                    \A own \in t.mutes : own.target # m.target \/ own.generation # m.generation}

LEMMA MutesReplayedIs ==
    ASSUME NEW t \in TruthStates, NEW L \in Ledgers
    PROVE  LET a == MutesReplayed(t, L)
           IN  /\ a \in TruthStates /\ a.muted = MutedAfter(t, L) /\ a.mutes = MutesAfter(t, L)
               /\ a.epoch = t.epoch /\ a.head = t.head /\ a.words = t.words /\ a.blocked = t.blocked
               /\ a.absent = t.absent /\ a.ops = t.ops /\ a.generation = t.generation
<1> DEFINE a == MutesReplayed(t, L)
<1>1. MutedAfter(t, L) \in SUBSET Object /\ MutesAfter(t, L) \in SUBSET Mutes
  BY PartsOf DEF Parts, Ledgers, MutedAfter, MutesAfter, Members, Mutes
<1>2. a = [t EXCEPT !.muted = MutedAfter(t, L), !.mutes = MutesAfter(t, L)]
  BY DEF MutesReplayed, MutedAfter, MutesAfter, Members
<1> HIDE DEF a
<1>3. a \in TruthStates
  BY <1>1, <1>2, Zenon DEF TruthStates
<1>. QED  BY <1>2, <1>3 DEF TruthStates, a

OpsAfter(t, ledger) ==
    {op \in t.ops : \A other \in ledger.ops : other.members # op.members}
        \cup {RequeuedOperation(op) : op \in ledger.ops}

LEMMA RequeuedIs ==
    ASSUME NEW op \in Operations
    PROVE  LET q == RequeuedOperation(op)
           IN  q \in Operations /\ q.members = op.members /\ q.vector = FALSE /\ q.history = FALSE
  BY DEF RequeuedOperation, Operations

LEMMA OperationsReplayedIs ==
    ASSUME NEW t \in TruthStates, NEW L \in Ledgers
    PROVE  LET a == OperationsReplayed(t, L)
           IN  /\ a \in TruthStates /\ a.blocked = t.blocked \cup Members(L.ops)
               /\ a.muted = t.muted \cup Members(L.ops) /\ a.words = t.words \ Members(L.ops)
               /\ a.ops = OpsAfter(t, L)
               /\ a.epoch = t.epoch /\ a.head = t.head
               /\ a.absent = t.absent /\ a.mutes = t.mutes /\ a.generation = t.generation
<1> DEFINE a == OperationsReplayed(t, L)
<1> DEFINE ms == Members(L.ops)
<1>1. ms \in SUBSET Object
  BY DEF Ledgers, Members, Operations
<1>2. OpsAfter(t, L) \in SUBSET Operations
  BY PartsOf, RequeuedIs DEF Parts, Ledgers, OpsAfter
<1>3. a = [t EXCEPT !.blocked = @ \cup ms, !.muted = @ \cup ms, !.words = @ \ ms, !.ops = OpsAfter(t, L)]
  BY DEF OperationsReplayed, OpsAfter, Members
<1> HIDE DEF a, ms
<1>4. t.blocked \cup ms \in SUBSET Object /\ t.muted \cup ms \in SUBSET Object
      /\ t.words \ ms \in SUBSET Object
  BY <1>1, PartsOf DEF Parts
<1>5. a \in TruthStates
  BY <1>2, <1>3, <1>4, Zenon DEF TruthStates
<1>. QED  BY <1>3, <1>5 DEF TruthStates, a, ms

(* The claims a ledger withdraws and what a content holds of them unblocked.  *)
Withdrawn(t, ledger, o) ==
    \E w \in ledger.withdrawals : w[1] = o /\ o \in Rows(t) \ t.blocked /\ t.head[o].rev < w[2]

AbsentAfter(t, ledger) ==
    t.absent \cup ledger.absent
        \cup {w[1] : w \in {v \in ledger.withdrawals : v[1] \notin Rows(t) \ t.blocked}}

LEMMA WithdrawalsReplayedIs ==
    ASSUME NEW t \in TruthStates, NEW L, SoundLedger(L)
    PROVE  LET a == WithdrawalsReplayed(t, L)
           IN  /\ a \in TruthStates /\ a.absent = AbsentAfter(t, L) /\ Rows(a) = Rows(t)
               /\ \A w \in L.withdrawals : w[1] \in Rows(t) \ t.blocked /\ t.head[w[1]].rev < w[2] =>
                     a.head[w[1]] = [rev |-> w[2], withdrawn |-> TRUE]
               /\ \A o \in Object : ~Withdrawn(t, L, o) => a.head[o] = t.head[o]
               /\ a.epoch = t.epoch /\ a.words = t.words /\ a.blocked = t.blocked /\ a.muted = t.muted
               /\ a.ops = t.ops /\ a.mutes = t.mutes /\ a.generation = t.generation
<1> DEFINE a == WithdrawalsReplayed(t, L)
<1> DEFINE h == [o \in Object |->
                   IF \E w \in L.withdrawals : w[1] = o /\ o \in Rows(t) \ t.blocked /\ t.head[o].rev < w[2]
                   THEN [rev |-> (CHOOSE w \in L.withdrawals : w[1] = o)[2], withdrawn |-> TRUE]
                   ELSE t.head[o]]
<1>0. /\ Parts(t) /\ L.withdrawals \subseteq Claim \X Nat /\ L.absent \subseteq Object
      /\ \A v, w \in L.withdrawals : v[1] = w[1] => v = w
  BY PartsOf DEF SoundLedger, Ledgers
<1>1. a = [t EXCEPT !.head = h, !.absent = AbsentAfter(t, L)]
  BY DEF WithdrawalsReplayed, AbsentAfter
<1>2. ASSUME NEW w \in L.withdrawals
      PROVE  (CHOOSE v \in L.withdrawals : v[1] = w[1]) = w
  BY <1>0, <1>2
<1>3. ASSUME NEW w \in L.withdrawals, w[1] \in Rows(t) \ t.blocked, t.head[w[1]].rev < w[2]
      PROVE  h[w[1]] = [rev |-> w[2], withdrawn |-> TRUE]
  <2>1. w[1] \in Object
    BY <1>0, <1>3 DEF Object
  <2>2. \E v \in L.withdrawals : v[1] = w[1] /\ w[1] \in Rows(t) \ t.blocked /\ t.head[w[1]].rev < v[2]
    BY <1>3
  <2>. QED  BY <1>2, <2>1, <2>2
<1>4. ASSUME NEW o \in Object, ~Withdrawn(t, L, o)
      PROVE  h[o] = t.head[o]
  BY <1>4 DEF Withdrawn
<1>5. ASSUME NEW o \in Object
      PROVE  h[o] \in Heads /\ (h[o].rev > 0 <=> t.head[o].rev > 0)
  <2>1. t.head[o] \in Heads
    BY <1>0 DEF Parts
  <2>2. CASE Withdrawn(t, L, o)
    <3>1. PICK w \in L.withdrawals : w[1] = o /\ o \in Rows(t) \ t.blocked /\ t.head[o].rev < w[2]
      BY <2>2 DEF Withdrawn
    <3>2. h[o] = [rev |-> w[2], withdrawn |-> TRUE]
      BY <1>3, <3>1
    <3>3. w[2] \in Nat /\ t.head[o].rev \in Nat /\ t.head[o].rev > 0
      BY <1>0, <2>1, <3>1 DEF Heads, Rows
    <3> HIDE DEF h
    <3>. QED  BY <3>1, <3>2, <3>3 DEF Heads
  <2>3. CASE ~Withdrawn(t, L, o)
    <3> HIDE DEF h
    <3>. QED  BY <1>4, <2>1, <2>3
  <2>. QED  BY <2>2, <2>3
<1>6. h = [o \in Object |-> h[o]]
  OBVIOUS
<1> HIDE DEF h
<1>7. h \in [Object -> Heads]
  BY <1>5, <1>6
<1>8. AbsentAfter(t, L) \in SUBSET Object
  BY <1>0 DEF AbsentAfter, Parts, Object
<1> HIDE DEF a
<1>9. a \in TruthStates
  BY <1>1, <1>7, <1>8, Zenon DEF TruthStates
<1>10. /\ a.head = h /\ a.absent = AbsentAfter(t, L)
       /\ a.epoch = t.epoch /\ a.words = t.words /\ a.blocked = t.blocked /\ a.muted = t.muted
       /\ a.ops = t.ops /\ a.mutes = t.mutes /\ a.generation = t.generation
  BY <1>1 DEF TruthStates
<1>11. Rows(a) = Rows(t)
  BY <1>5, <1>10 DEF Rows
<1>. QED  BY <1>3, <1>4, <1>9, <1>10, <1>11, Zenon DEF a

LEMMA EpochsReplayedIs ==
    ASSUME NEW t \in TruthStates, NEW L, SoundLedger(L)
    PROVE  LET a == EpochsReplayed(t, L)
           IN  /\ a \in TruthStates /\ a.epoch > t.epoch /\ a.epoch > L.epoch
               /\ a.generation > L.epoch
               /\ t.generation <= t.epoch => a.generation <= a.epoch
               /\ a.head = t.head /\ a.words = t.words /\ a.blocked = t.blocked /\ a.muted = t.muted
               /\ a.absent = t.absent /\ a.ops = t.ops /\ a.mutes = t.mutes
<1> DEFINE a == EpochsReplayed(t, L)
<1> DEFINE e == Max({t.epoch, L.epoch})
<1> DEFINE g == Max({t.generation, L.epoch + 1})
<1>1. t.epoch \in Nat /\ t.generation \in Nat /\ L.epoch \in Nat /\ L.epoch + 1 \in Nat
  BY PartsOf DEF Parts, SoundLedger, Ledgers
<1>2. /\ e = IF t.epoch <= L.epoch THEN L.epoch ELSE t.epoch
      /\ g = IF t.generation <= L.epoch + 1 THEN L.epoch + 1 ELSE t.generation
  BY <1>1, LargerOf, Zenon
<1>3. a = [t EXCEPT !.epoch = e + 1, !.generation = g]
  BY DEF EpochsReplayed
<1> HIDE DEF e, g, a
<1>4. e + 1 \in Nat /\ g \in Nat
  BY <1>1, <1>2
<1>5. a \in TruthStates
  BY <1>3, <1>4, Zenon DEF TruthStates
<1>6. /\ a.epoch = e + 1 /\ a.generation = g
      /\ a.head = t.head /\ a.words = t.words /\ a.blocked = t.blocked /\ a.muted = t.muted
      /\ a.absent = t.absent /\ a.ops = t.ops /\ a.mutes = t.mutes
  BY <1>3 DEF TruthStates
<1>7. /\ a.epoch > t.epoch /\ a.epoch > L.epoch /\ a.generation > L.epoch
      /\ t.generation <= t.epoch => a.generation <= a.epoch
  BY <1>1, <1>2, <1>6
<1>. QED  BY <1>5, <1>6, <1>7 DEF a

(* The rows of a content that its own blocks and a ledger's leave readable.   *)
Held(t, ledger) == Rows(t) \ (t.blocked \cup Members(ledger.ops))

LEMMA ReplayedIs ==
    ASSUME NEW t \in TruthStates, t.generation <= t.epoch, NEW L, SoundLedger(L)
    PROVE  LET u == Replayed(t, L)
           IN  /\ u \in TruthStates /\ Rows(u) = Rows(t)
               /\ u.epoch > t.epoch /\ u.epoch > L.epoch
               /\ u.generation > L.epoch /\ u.generation <= u.epoch
               /\ u.words = t.words \ Members(L.ops)
               /\ u.blocked = t.blocked \cup Members(L.ops)
               /\ u.muted = MutedAfter(t, L) \cup Members(L.ops)
               /\ u.mutes = MutesAfter(t, L) /\ u.ops = OpsAfter(t, L)
               /\ t.absent \cup L.absent \subseteq u.absent
               /\ \A w \in L.withdrawals :
                     /\ w[1] \notin Held(t, L) => w[1] \in u.absent
                     /\ w[1] \in Held(t, L) /\ t.head[w[1]].rev < w[2] =>
                           u.head[w[1]] = [rev |-> w[2], withdrawn |-> TRUE]
<1> DEFINE a == MutesReplayed(t, L)
<1> DEFINE b == OperationsReplayed(a, L)
<1> DEFINE c == WithdrawalsReplayed(b, L)
<1> DEFINE u == EpochsReplayed(c, L)
<1>0. L \in Ledgers
  BY DEF SoundLedger
<1>1. /\ a \in TruthStates /\ a.muted = MutedAfter(t, L) /\ a.mutes = MutesAfter(t, L)
      /\ a.epoch = t.epoch /\ a.head = t.head /\ a.words = t.words /\ a.blocked = t.blocked
      /\ a.absent = t.absent /\ a.ops = t.ops /\ a.generation = t.generation
  BY <1>0, MutesReplayedIs, Zenon
<1> HIDE DEF a
<1>2. /\ b \in TruthStates /\ b.blocked = a.blocked \cup Members(L.ops)
      /\ b.muted = a.muted \cup Members(L.ops) /\ b.words = a.words \ Members(L.ops)
      /\ b.ops = OpsAfter(a, L)
      /\ b.epoch = a.epoch /\ b.head = a.head
      /\ b.absent = a.absent /\ b.mutes = a.mutes /\ b.generation = a.generation
  BY <1>0, <1>1, OperationsReplayedIs, Zenon
<1> HIDE DEF b
<1>3. /\ c \in TruthStates /\ c.absent = AbsentAfter(b, L) /\ Rows(c) = Rows(b)
      /\ \A w \in L.withdrawals : w[1] \in Rows(b) \ b.blocked /\ b.head[w[1]].rev < w[2] =>
            c.head[w[1]] = [rev |-> w[2], withdrawn |-> TRUE]
      /\ \A o \in Object : ~Withdrawn(b, L, o) => c.head[o] = b.head[o]
      /\ c.epoch = b.epoch /\ c.words = b.words /\ c.blocked = b.blocked /\ c.muted = b.muted
      /\ c.ops = b.ops /\ c.mutes = b.mutes /\ c.generation = b.generation
  BY <1>2, WithdrawalsReplayedIs, Zenon
<1> HIDE DEF c
<1>4. /\ u \in TruthStates /\ u.epoch > c.epoch /\ u.epoch > L.epoch
      /\ u.generation > L.epoch
      /\ c.generation <= c.epoch => u.generation <= u.epoch
      /\ u.head = c.head /\ u.words = c.words /\ u.blocked = c.blocked /\ u.muted = c.muted
      /\ u.absent = c.absent /\ u.ops = c.ops /\ u.mutes = c.mutes
  BY <1>3, EpochsReplayedIs, Zenon
<1> HIDE DEF u
<1>5. u = Replayed(t, L)
  BY Zenon DEF Replayed, u, c, b, a
<1>6. Rows(u) = Rows(t) /\ Rows(b) = Rows(t) /\ Rows(b) \ b.blocked = Held(t, L)
  BY <1>1, <1>2, <1>3, <1>4 DEF Rows, Held
<1>7. OpsAfter(a, L) = OpsAfter(t, L)
  BY <1>1 DEF OpsAfter
<1>8. t.absent \cup L.absent \subseteq u.absent
  BY <1>1, <1>2, <1>3, <1>4 DEF AbsentAfter
<1>9. ASSUME NEW w \in L.withdrawals
      PROVE  /\ w[1] \notin Held(t, L) => w[1] \in u.absent
             /\ w[1] \in Held(t, L) /\ t.head[w[1]].rev < w[2] =>
                   u.head[w[1]] = [rev |-> w[2], withdrawn |-> TRUE]
  <2>1. w[1] \notin Held(t, L) => w[1] \in u.absent
    BY <1>3, <1>4, <1>6, <1>9 DEF AbsentAfter
  <2>2. b.head = t.head
    BY <1>1, <1>2
  <2>. QED  BY <1>3, <1>4, <1>6, <1>9, <2>1, <2>2, Zenon
<1>10. c.generation = t.generation /\ c.epoch = t.epoch /\ c.words = t.words \ Members(L.ops)
       /\ c.blocked = t.blocked \cup Members(L.ops) /\ c.muted = MutedAfter(t, L) \cup Members(L.ops)
  BY <1>1, <1>2, <1>3, Zenon
<1>11. /\ u.epoch > t.epoch /\ u.generation <= u.epoch /\ u.words = t.words \ Members(L.ops)
       /\ u.blocked = t.blocked \cup Members(L.ops) /\ u.muted = MutedAfter(t, L) \cup Members(L.ops)
       /\ u.mutes = MutesAfter(t, L) /\ u.ops = OpsAfter(t, L)
  BY <1>1, <1>2, <1>3, <1>4, <1>7, <1>10, Zenon
<1>. QED  BY <1>4, <1>5, <1>6, <1>8, <1>9, <1>11, Zenon

(* What a replay leaves is sound, with no layer of a delete acknowledged.     *)
LEMMA ReplayedSound ==
    ASSUME NEW t, Sound(t), NEW L, SoundLedger(L), NEW d, NEW S, t \in S, Tells(L, d, S)
    PROVE  LET u == Replayed(t, L)
           IN  /\ Sound(u) /\ u.epoch > L.epoch
               /\ \A op \in u.ops : ~op.vector /\ ~op.history
<1> DEFINE u == Replayed(t, L)
<1>0. /\ t \in TruthStates /\ SoundRows(t) /\ SoundDeletes(t) /\ SoundMutes(t)
      /\ t.generation <= t.epoch /\ L \in Ledgers
  BY DEF Sound, SoundMutes, SoundLedger
<1>1. /\ u \in TruthStates /\ Rows(u) = Rows(t)
      /\ u.epoch > t.epoch /\ u.epoch > L.epoch
      /\ u.generation > L.epoch /\ u.generation <= u.epoch
      /\ u.words = t.words \ Members(L.ops)
      /\ u.blocked = t.blocked \cup Members(L.ops)
      /\ u.mutes = MutesAfter(t, L) /\ u.ops = OpsAfter(t, L)
  BY <1>0, ReplayedIs, Zenon
<1>2. \A op \in L.ops : op \in Operations
  BY <1>0 DEF Ledgers
<1> HIDE DEF u
<1>3. \A op \in t.ops : \E own \in L.ops : own.members = op.members
  BY DEF Tells, Carries
<1>4. u.ops = {RequeuedOperation(op) : op \in L.ops}
  BY <1>1, <1>3 DEF OpsAfter
<1>5. ASSUME NEW q \in u.ops
      PROVE  \E op \in L.ops : q = RequeuedOperation(op) /\ q.members = op.members /\ ~q.vector /\ ~q.history
  <2>1. PICK op \in L.ops : q = RequeuedOperation(op)
    BY <1>4
  <2>2. q.members = op.members /\ q.vector = FALSE /\ q.history = FALSE
    BY <1>2, <2>1, RequeuedIs
  <2>. QED  BY <2>1, <2>2
<1>6. Members(u.ops) = Members(L.ops)
  <2>1. \A op \in L.ops : \E q \in u.ops : q.members = op.members
    BY <1>2, <1>4, RequeuedIs
  <2>. QED  BY <1>5, <2>1 DEF Members
<1>7. SoundDeletes(u)
  <2>1. t.blocked \subseteq Members(L.ops)
    BY <1>0, <1>3 DEF SoundDeletes, Members
  <2>2. ASSUME NEW p \in u.ops, NEW q \in u.ops, p.members = q.members PROVE p = q
    <3>1. PICK op \in L.ops : p = RequeuedOperation(op) /\ p.members = op.members
      BY <1>5
    <3>2. PICK other \in L.ops : q = RequeuedOperation(other) /\ q.members = other.members
      BY <1>5
    <3>. QED  BY <2>2, <3>1, <3>2 DEF SoundLedger
  <2>. QED  BY <1>1, <1>6, <2>1, <2>2 DEF SoundDeletes
<1>8. SoundRows(u)
  BY <1>0, <1>1 DEF SoundRows
<1>9. SoundMutes(u)
  <2>0. /\ t.epoch \in Nat /\ t.generation \in Nat /\ t.mutes \subseteq Mutes /\ L.epoch \in Nat
        /\ L.mutes \subseteq Mutes /\ u.generation \in Nat
    BY <1>0, <1>1, PartsOf DEF Parts, Ledgers
  <2>1. ASSUME NEW m \in u.mutes PROVE m.generation < u.generation
    <3>1. CASE m \in t.mutes
      <4>1. m.generation <= t.generation /\ t.epoch <= L.epoch /\ m.generation \in Nat
        BY <1>0, <2>0, <3>1 DEF SoundMutes, Tells, Mutes
      <4>. QED  BY <1>0, <1>1, <2>0, <4>1
    <3>2. CASE m \in L.mutes
      <4>1. m.generation <= L.epoch /\ m.generation \in Nat
        BY <2>0, <3>2 DEF SoundLedger, Mutes
      <4>. QED  BY <1>1, <2>0, <4>1
    <3>. QED  BY <1>1, <2>1, <3>1, <3>2 DEF MutesAfter
  <2>2. \A m, n \in u.mutes : SameKey(m, n) => m = n
    BY <1>0, <1>1 DEF MutesAfter, SoundMutes, SoundLedger, SameKey
  <2>3. \A m \in u.mutes : m.generation <= u.generation /\ m.generation # u.generation
    <3>1. u.mutes \subseteq Mutes
      BY <1>1, PartsOf DEF Parts
    <3>2. \A m \in u.mutes : m.generation \in Nat
      BY <3>1 DEF Mutes
    <3>. QED  BY <2>0, <2>1, <3>2
  <2>. QED  BY <1>1, <2>2, <2>3 DEF SoundMutes
<1>. QED  BY <1>1, <1>5, <1>7, <1>8, <1>9 DEF Sound, u

(* A replay of a ledger that tells the decisions, over any snapshot, holds to *)
(* them; after a legacy ledger, to what mute operations list.                 *)
LEMMA ReplayedKeeps ==
    ASSUME NEW t, Sound(t), NEW L, NEW d \in Decisions, NEW S, t \in S, \A s \in S : Sound(s),
           Tells(L, d, S), NEW e, e.forgotten = d.forgotten, e.listed = d.listed,
           e.withdrawn = d.withdrawn,
           e.muted = IF L.format = "legacy" THEN d.listed ELSE d.muted
    PROVE  Keeps(Replayed(t, L), e, S)
<1> DEFINE u == Replayed(t, L)
<1>0. /\ t \in TruthStates /\ SoundRows(t) /\ SoundDeletes(t) /\ SoundMutes(t)
      /\ t.generation <= t.epoch /\ SoundLedger(L) /\ L \in Ledgers /\ L.epoch \in Nat
      /\ \A s \in S : s \in TruthStates
  BY DEF Sound, SoundMutes, Tells, SoundLedger, Ledgers
<1>1. /\ u \in TruthStates /\ Rows(u) = Rows(t)
      /\ u.epoch > t.epoch /\ u.epoch > L.epoch
      /\ u.generation > L.epoch
      /\ u.blocked = t.blocked \cup Members(L.ops)
      /\ u.muted = MutedAfter(t, L) \cup Members(L.ops)
      /\ u.mutes = MutesAfter(t, L) /\ u.ops = OpsAfter(t, L)
      /\ t.absent \cup L.absent \subseteq u.absent
      /\ \A w \in L.withdrawals :
            /\ w[1] \notin Held(t, L) => w[1] \in u.absent
            /\ w[1] \in Held(t, L) /\ t.head[w[1]].rev < w[2] =>
                  u.head[w[1]] = [rev |-> w[2], withdrawn |-> TRUE]
  BY <1>0, ReplayedIs, Zenon
<1> HIDE DEF u
<1>2. \A op \in L.ops : \E q \in u.ops : q.members = op.members
  BY <1>0, <1>1, RequeuedIs DEF OpsAfter, Ledgers
<1>3. e.forgotten \subseteq Members(u.ops) /\ Carries(u.ops, S)
  BY <1>2 DEF Tells, Members, Carries
<1>4. Lists(u.mutes, e.listed, S)
  <2>1. ASSUME NEW n \in d.listed
        PROVE  \E m \in u.mutes :
                  /\ n \in m.members
                  /\ \A s \in S : \A other \in s.mutes : SameKey(other, m) => n \in other.members
    <3>1. PICK m \in L.mutes :
                  /\ n \in m.members
                  /\ \A s \in S : \A other \in s.mutes : SameKey(other, m) => n \in other.members
      BY <2>1 DEF Tells, Lists
    <3>2. CASE m \in u.mutes
      BY <3>1, <3>2
    <3>3. CASE m \notin u.mutes
      <4>1. PICK own \in t.mutes : SameKey(own, m)
        BY <1>1, <3>1, <3>3 DEF MutesAfter, SameKey
      <4>2. own \in u.mutes /\ n \in own.members
        BY <1>1, <3>1, <4>1 DEF MutesAfter
      <4>3. \A other : SameKey(other, own) => SameKey(other, m)
        BY <4>1 DEF SameKey
      <4>. QED  BY <3>1, <4>2, <4>3, Zenon
    <3>. QED  BY <3>2, <3>3
  <2>. QED  BY <2>1 DEF Lists
<1>5. d.listed \subseteq Members(L.mutes)
  BY DEF Tells, Lists, Members
<1>6. e.listed \subseteq e.muted /\ e.muted \subseteq u.muted
  <2>1. CASE L.format = "legacy"
    BY <1>1, <1>5, <2>1 DEF MutedAfter
  <2>2. CASE L.format = "full"
    BY <1>1, <2>2 DEF MutedAfter, Tells
  <2>. QED  BY <1>0, <2>1, <2>2 DEF Ledgers
<1>7. ASSUME NEW s \in S
      PROVE  /\ s.epoch <= u.epoch
             /\ \A m \in s.mutes : m.generation # u.generation
  <2>1. /\ s.epoch \in Nat /\ s.generation \in Nat /\ s.mutes \subseteq Mutes
        /\ u.epoch \in Nat /\ u.generation \in Nat
    BY <1>0, <1>1, PartsOf DEF Parts
  <2>2. s.epoch <= L.epoch /\ s.generation <= s.epoch
    BY <1>7 DEF Tells, Sound, SoundMutes
  <2>3. \A m \in s.mutes : m.generation \in Nat /\ m.generation <= s.generation
    BY <1>7, <2>1 DEF Sound, SoundMutes, Mutes
  <2>. QED  BY <1>0, <1>1, <2>1, <2>2, <2>3
<1>8. ASSUME NEW w \in e.withdrawn, LaterThanAll(w, S)
      PROVE  \/ w[1] \in u.absent \cup u.blocked
             \/ u.head[w[1]] = [rev |-> w[2], withdrawn |-> TRUE]
  <2>1. CASE w[1] \in L.absent \cup Members(L.ops)
    BY <1>1, <2>1
  <2>2. CASE w \in L.withdrawals
    <3>1. t.head[w[1]].rev < w[2]
      BY <1>8 DEF LaterThanAll
    <3>. QED  BY <1>1, <2>2, <3>1
  <2>. QED  BY <1>8, <2>1, <2>2 DEF Tells
<1>. QED  BY <1>3, <1>4, <1>6, <1>7, <1>8 DEF Keeps, u

(* A delete operation is found by its members.                                *)
LEMMA TheOperation ==
    ASSUME NEW t, SoundDeletes(t), NEW op \in t.ops
    PROVE  (CHOOSE other \in t.ops : other.members = op.members) = op
  BY DEF SoundDeletes

-----------------------------------------------------------------------------
(* The contents: the store and every snapshot of it are sound, and no row an  *)
(* acknowledged vector layer covers has a vector.                             *)
Contents ==
    /\ Sound(truth) /\ Fenced(truth, fences)
    /\ \A s \in snapshots : Sound(s) /\ Fenced(s, fences)
    /\ fences \cap vectors = {}

(* The run: admission is closed on the ledger it replays, which is kept.      *)
RunInOrder ==
    /\ marker.state = "whole" => marker.ledger = kept
    /\ run.pc # "idle" => run.snapshot \in snapshots /\ Idle
    /\ run.pc \in {"checked", "kept"} =>
          marker.state # "whole" /\ run.ledger = LedgerOf(truth, run.ledger.format)
    /\ run.pc \notin {"idle", "checked"} => kept = run.ledger
    /\ run.pc \in {"closed", "copied", "replayed", "truncated"} => marker.state = "whole"
    /\ run.pc = "copied" => truth = run.snapshot
    /\ run.pc \in {"replayed", "truncated"} => truth.epoch > kept.epoch
    /\ run.pc = "truncated" => history = {}
    /\ ~Idle => ~Pending

(* The decisions: an open store holds to them; behind a marker the kept       *)
(* ledger does, and so does the store once it was replayed.                   *)
DecisionsCarried ==
    /\ decided \in Decisions
    /\ ~Pending => run.pc \in {"idle", "checked", "kept"} /\ Keeps(truth, decided, snapshots)
    /\ Pending => Tells(kept, decided, snapshots)
    /\ Pending /\ truth.epoch > kept.epoch => Keeps(truth, decided, snapshots)
    /\ run.pc # "idle" => Tells(run.ledger, decided, snapshots)

(* A purge under way: its operation is still there, its rows are scrubbed,    *)
(* and what it says of its layers is what it did.                             *)
PurgeInOrder ==
    purge.pc # "idle" =>
        /\ \E op \in truth.ops : op.members = purge.op
        /\ purge.members = purge.op \cap Rows(truth)
        /\ purge.op \cap truth.words = {}
        /\ purge.pc \in {"vectors", "truncated"} /\ ~Purged(purge.op).vector => purge.members \subseteq fences
        /\ purge.pc = "truncated" /\ purge.truncated => purge.op \cap history = {}

(* A reader that may answer began on a content that held to the decisions.    *)
ReaderInOrder ==
    reader.pc = "begun" =>
        /\ reader.forgotten \subseteq decided.forgotten
        /\ ~reader.stale => reader.sees = Visible(truth)
        /\ ~Pending \/ run.pc = "truncated" => reader.sees \cap reader.forgotten = {}

Inv == TypeOK /\ Contents /\ RunInOrder /\ DecisionsCarried /\ HistoryHonest /\ PurgeInOrder /\ ReaderInOrder

-----------------------------------------------------------------------------
LEMMA InitInv == Init => Inv
<1> SUFFICES ASSUME Init PROVE Inv
  OBVIOUS
<1> USE DEF Init
<1>1. Sound(EmptyStore) /\ Rows(EmptyStore) = {} /\ \A F : Fenced(EmptyStore, F)
  BY EmptyIs
<1>2. EmptyStore \in TruthStates /\ EmptyStore.words \subseteq Rows(EmptyStore) /\ EmptyStore.ops = {}
      /\ EmptyStore.mutes = {}
  BY <1>1 DEF Sound, SoundRows, EmptyStore
<1>3. TypeOK
  <2>1. /\ truth \in TruthStates /\ truth.words \subseteq Rows(truth)
        /\ \A op, other \in truth.ops : op.members = other.members => op = other
        /\ {history, vectors, fences} \subseteq SUBSET Object
        /\ snapshots \subseteq TruthStates /\ restores \in Nat /\ opened \in BOOLEAN
    BY <1>2
  <2>2. marker \in [state : {"none", "whole", "damaged"}, ledger : {NoLedger} \cup Ledgers]
    BY DEF NoMarker
  <2>3. run \in [pc : {"idle", "checked", "kept", "closed", "copied", "replayed", "truncated"},
                 snapshot : TruthStates, ledger : {NoLedger} \cup Ledgers]
    BY <1>2 DEF NoRun
  <2>4. reader \in [pc : {"idle", "open", "begun"}, sees : SUBSET Object,
                    forgotten : SUBSET Object, stale : BOOLEAN]
    BY DEF NoReader
  <2>5. embed \in [pc : {"idle", "prepared", "guarded"}, subject : SUBSET Object]
    BY DEF NoEmbed
  <2>6. purge \in [pc : {"idle", "scrubbed", "vectors", "truncated"}, op : SUBSET Object,
                   members : SUBSET Object, truncated : BOOLEAN]
    BY DEF NoPurge
  <2>. QED  BY <2>1, <2>2, <2>3, <2>4, <2>5, <2>6 DEF TypeOK
<1>4. Contents
  BY <1>1 DEF Contents
<1>5. RunInOrder
  BY DEF RunInOrder, NoRun, NoMarker, Idle, NoEmbed, NoPurge
<1>6. DecisionsCarried
  <2>1. decided \in Decisions
    BY DEF Decisions
  <2>2. run.pc = "idle" /\ ~Pending
    BY DEF NoRun, Pending, NoMarker
  <2>3. Keeps(truth, decided, snapshots)
    BY DEF Keeps, Lists, Carries
  <2>. QED  BY <2>1, <2>2, <2>3 DEF DecisionsCarried
<1>7. HistoryHonest
  BY <1>2 DEF HistoryHonest
<1>8. PurgeInOrder /\ ReaderInOrder
  BY DEF PurgeInOrder, NoPurge, ReaderInOrder, NoReader
<1>. QED  BY <1>3, <1>4, <1>5, <1>6, <1>7, <1>8 DEF Inv

LEMMA StutterInv == Inv /\ UNCHANGED vars => Inv'
<1> SUFFICES ASSUME Inv, UNCHANGED vars PROVE Inv'
  OBVIOUS
<1> USE DEF vars
<1>1. TypeOK' /\ Contents' /\ RunInOrder'
  BY DEF Inv, TypeOK, Contents, RunInOrder, Idle, Pending
<1>2. DecisionsCarried' /\ HistoryHonest'
  BY DEF Inv, DecisionsCarried, HistoryHonest, Pending
<1>3. PurgeInOrder' /\ ReaderInOrder'
  BY DEF Inv, PurgeInOrder, Purged, ReaderInOrder, Pending
<1>. QED  BY <1>1, <1>2, <1>3 DEF Inv

-----------------------------------------------------------------------------
(* What an owner's transaction has to show of the content u it leaves: it is  *)
(* sound, it holds to the decisions with the one it makes, and nothing that   *)
(* is blocked comes back.                                                     *)
LEMMA OwnerStep ==
    ASSUME Inv, NEW u, OwnerWrites(u), Sound(u), Fenced(u, fences),
           decided' \in Decisions, decided.forgotten \subseteq decided'.forgotten,
           Keeps(u, decided', snapshots),
           truth.words \subseteq u.words, u.words \cap truth.blocked \subseteq truth.words,
           Rows(truth) \subseteq Rows(u), Rows(u) \cap truth.blocked \subseteq Rows(truth),
           truth.ops \subseteq u.ops, \A op \in u.ops : op \in truth.ops \/ ~op.history
    PROVE  Inv'
<1>1. /\ run.pc = "idle" /\ ~Pending /\ truth' = u
      /\ history' = history \cup (truth.words \ u.words)
      /\ reader' = IF reader.pc = "begun" THEN [reader EXCEPT !.stale = TRUE] ELSE reader
      /\ opened' = FALSE
      /\ UNCHANGED <<snapshots, marker, kept, run, restores, embed, purge, vectors, fences>>
  BY DEF OwnerWrites, Recheck, Commit, restoring, working
<1>2. ~Pending'
  BY <1>1 DEF Pending
<1>3. history' = history
  BY <1>1
<1>4. Contents'
  BY <1>1 DEF Inv, Contents
<1>5. TypeOK'
  <2>1. u \in TruthStates /\ u.words \subseteq Rows(u)
        /\ \A op, other \in u.ops : op.members = other.members => op = other
    BY DEF Sound, SoundRows, SoundDeletes
  <2>2. decided' \in [forgotten : SUBSET Object, muted : SUBSET Object, listed : SUBSET Object,
                      withdrawn : SUBSET (Claim \X Nat)]
    BY DEF Decisions
  <2>3. reader' \in [pc : {"idle", "open", "begun"}, sees : SUBSET Object,
                     forgotten : SUBSET Object, stale : BOOLEAN]
    BY <1>1 DEF Inv, TypeOK
  <2>4. /\ truth' \in TruthStates /\ truth'.words \subseteq Rows(truth')
        /\ \A op, other \in truth'.ops : op.members = other.members => op = other
        /\ opened' \in BOOLEAN /\ {history', vectors', fences'} \subseteq SUBSET Object
    BY <1>1, <1>3, <2>1 DEF Inv, TypeOK
  <2>5. TypeOK
    BY DEF Inv
  <2>. QED  BY <1>1, <2>2, <2>3, <2>4, <2>5 DEF TypeOK
<1>6. RunInOrder'
  BY <1>1, <1>2 DEF Inv, RunInOrder, Idle
<1>7. DecisionsCarried'
  BY <1>1, <1>2 DEF DecisionsCarried
<1>8. SoundDeletes(truth) /\ SoundDeletes(u) /\ \A op \in truth.ops : op.members \subseteq truth.blocked
  BY DEF Inv, Contents, Sound, SoundDeletes, Members
<1>9. HistoryHonest'
  BY <1>1, <1>2, <1>3, <1>8 DEF Inv, HistoryHonest
<1>10. PurgeInOrder'
  <2> SUFFICES ASSUME purge.pc # "idle" PROVE PurgeInOrder'
    BY <1>1 DEF PurgeInOrder
  <2>1. PICK op \in truth.ops : op.members = purge.op
    BY DEF Inv, PurgeInOrder
  <2>2. Purged(purge.op) = op /\ Purged(purge.op)' = op
    BY <1>1, <1>8, <2>1, TheOperation DEF Purged
  <2>3. purge.op \subseteq truth.blocked
    BY <1>8, <2>1
  <2>. QED  BY <1>1, <1>3, <2>1, <2>2, <2>3 DEF Inv, PurgeInOrder
<1>11. ReaderInOrder'
  <2>1. CASE reader.pc = "begun"
    <3>1. reader'.forgotten = reader.forgotten /\ reader'.sees = reader.sees /\ reader'.stale
      BY <1>1, <2>1 DEF Inv, TypeOK
    <3>. QED  BY <1>1, <2>1, <3>1 DEF Inv, ReaderInOrder
  <2>2. CASE reader.pc # "begun"
    BY <1>1, <2>2 DEF ReaderInOrder
  <2>. QED  BY <2>1, <2>2
<1>. QED  BY <1>4, <1>5, <1>6, <1>7, <1>9, <1>10, <1>11 DEF Inv

(* What an ordinary transaction starts from.                                  *)
LEMMA OwnerStarts ==
    ASSUME Inv, NEW u, OwnerWrites(u)
    PROVE  /\ Sound(truth) /\ truth \in TruthStates /\ Fenced(truth, fences)
           /\ Keeps(truth, decided, snapshots) /\ decided \in Decisions
           /\ snapshots \in SUBSET TruthStates /\ \A s \in snapshots : Sound(s)
           /\ truth.blocked = Members(truth.ops)
<1>1. ~Pending
  BY DEF OwnerWrites, Recheck
<1>. QED  BY <1>1 DEF Inv, Contents, Sound, SoundDeletes, DecisionsCarried, TypeOK

LEMMA CaptureInv ==
    ASSUME Inv, NEW o \in Object, Capture(o)
    PROVE  Inv'
<1> DEFINE u == Captured(truth, o)
<1>1. /\ Sound(truth) /\ truth \in TruthStates /\ Fenced(truth, fences)
      /\ Keeps(truth, decided, snapshots) /\ decided \in Decisions
      /\ snapshots \in SUBSET TruthStates
  BY OwnerStarts, Zenon DEF Capture
<1>2. MayCapture(truth, o) /\ OwnerWrites(u) /\ o \notin truth.blocked
  BY DEF Capture, MayCapture
<1>3. /\ u.words = truth.words \cup {o} /\ Rows(u) = Rows(truth) \cup {o} /\ u.ops = truth.ops
  BY <1>1, CapturedIs, Zenon
<1>4. /\ decided'.forgotten = decided.forgotten
      /\ decided'.muted = IF Root(o) \in decided.muted THEN decided.muted \cup {o} ELSE decided.muted \ {o}
      /\ decided'.listed = IF Root(o) \in decided.muted THEN decided.listed ELSE decided.listed \ {o}
      /\ decided'.withdrawn = {w \in decided.withdrawn : w[1] # o}
  BY <1>1 DEF Capture, Decisions
<1>5. decided' \in Decisions
  BY <1>1 DEF Capture, Decisions
<1>6. Sound(u) /\ Fenced(u, fences)
  BY <1>1, <1>2, CapturedSound, Zenon
<1>7. Keeps(u, decided', snapshots)
  BY <1>1, <1>4, CapturedKeeps, Zenon
<1> HIDE DEF u
<1>8. /\ decided.forgotten \subseteq decided'.forgotten
      /\ truth.words \subseteq u.words /\ u.words \cap truth.blocked \subseteq truth.words
      /\ Rows(truth) \subseteq Rows(u) /\ Rows(u) \cap truth.blocked \subseteq Rows(truth)
      /\ truth.ops \subseteq u.ops /\ \A op \in u.ops : op \in truth.ops \/ ~op.history
  BY <1>2, <1>3, <1>4
<1>. QED  BY <1>2, <1>5, <1>6, <1>7, <1>8, OwnerStep, Zenon

LEMMA AppendInv ==
    ASSUME Inv, NEW c \in Claim, Revise(c) \/ Retract(c)
    PROVE  Inv'
<1>1. PICK b \in BOOLEAN :
        /\ OwnerWrites(Appended(truth, c, b)) /\ c \in Visible(truth)
        /\ decided' = [decided EXCEPT !.withdrawn =
                         IF b THEN {w \in @ : w[1] # c} \cup {<<c, truth.head[c].rev + 1>>}
                         ELSE {w \in @ : w[1] # c}]
  BY DEF Revise, Retract
<1> DEFINE u == Appended(truth, c, b)
<1>2. /\ Sound(truth) /\ truth \in TruthStates /\ Fenced(truth, fences)
      /\ Keeps(truth, decided, snapshots) /\ decided \in Decisions
      /\ snapshots \in SUBSET TruthStates
  BY <1>1, OwnerStarts, Zenon
<1>3. c \in Rows(truth) /\ truth.head[c].rev \in Nat
  BY <1>1, <1>2, PartsOf DEF Visible, Rows, Parts, Heads
<1>4. u.words = truth.words /\ Rows(u) = Rows(truth) /\ u.ops = truth.ops
  BY <1>2, <1>3, AppendedIs, Zenon
<1>5. /\ decided'.forgotten = decided.forgotten /\ decided'.muted = decided.muted
      /\ decided'.listed = decided.listed
      /\ decided'.withdrawn = IF b THEN {w \in decided.withdrawn : w[1] # c} \cup {<<c, truth.head[c].rev + 1>>}
                              ELSE {w \in decided.withdrawn : w[1] # c}
  BY <1>1, <1>2 DEF Decisions
<1>6. decided' \in Decisions
  BY <1>1, <1>2, <1>3 DEF Decisions
<1>7. \A w \in decided'.withdrawn :
        (w \in decided.withdrawn /\ w[1] # c) \/ (b /\ w = <<c, truth.head[c].rev + 1>>)
  BY <1>5
<1>8. Sound(u) /\ Fenced(u, fences)
  BY <1>2, <1>3, AppendedSound, Zenon
<1>9. Keeps(u, decided', snapshots)
  BY <1>2, <1>3, <1>5, <1>7, AppendedKeeps, Zenon
<1> HIDE DEF u
<1>10. /\ decided.forgotten \subseteq decided'.forgotten
       /\ truth.words \subseteq u.words /\ u.words \cap truth.blocked \subseteq truth.words
       /\ Rows(truth) \subseteq Rows(u) /\ Rows(u) \cap truth.blocked \subseteq Rows(truth)
       /\ truth.ops \subseteq u.ops /\ \A op \in u.ops : op \in truth.ops \/ ~op.history
  BY <1>4, <1>5
<1>. QED  BY <1>1, <1>6, <1>8, <1>9, <1>10, OwnerStep, Zenon DEF u

LEMMA ForgetInv ==
    ASSUME Inv, NEW o \in Object, Forget(o)
    PROVE  Inv'
<1> DEFINE u == Deleted(truth, o)
<1>1. /\ Sound(truth) /\ truth \in TruthStates /\ Fenced(truth, fences)
      /\ Keeps(truth, decided, snapshots) /\ decided \in Decisions
      /\ snapshots \in SUBSET TruthStates
  BY OwnerStarts, Zenon DEF Forget
<1>2. o \in Visible(truth) /\ OwnerWrites(u)
  BY DEF Forget
<1>3. u.words = truth.words /\ Rows(u) = Rows(truth)
  BY <1>1, DeletedIs, Zenon
<1>4. PICK op \in Operations : /\ op.members = Closure(truth, o) /\ ~op.vector /\ ~op.history
                               /\ u.ops = truth.ops \cup {op}
  BY <1>1, DeletedIs, Zenon
<1>5. /\ decided'.forgotten = decided.forgotten \cup Closure(truth, o)
      /\ decided'.muted = decided.muted /\ decided'.listed = decided.listed
      /\ decided'.withdrawn = decided.withdrawn
  BY <1>1 DEF Forget, Decisions
<1>6. Closure(truth, o) \subseteq Object
  BY DEF Closure, Rows
<1>7. decided' \in Decisions
  BY <1>1, <1>6 DEF Forget, Decisions
<1>8. Sound(u) /\ Fenced(u, fences)
  BY <1>1, <1>2, DeletedSound, Zenon
<1>9. Keeps(u, decided', snapshots)
  BY <1>1, <1>5, DeletedKeeps, Zenon
<1> HIDE DEF u
<1>10. /\ decided.forgotten \subseteq decided'.forgotten
       /\ truth.words \subseteq u.words /\ u.words \cap truth.blocked \subseteq truth.words
       /\ Rows(truth) \subseteq Rows(u) /\ Rows(u) \cap truth.blocked \subseteq Rows(truth)
       /\ truth.ops \subseteq u.ops /\ \A q \in u.ops : q \in truth.ops \/ ~q.history
  BY <1>3, <1>4, <1>5
<1>. QED  BY <1>2, <1>7, <1>8, <1>9, <1>10, OwnerStep, Zenon

LEMMA MuteInv ==
    ASSUME Inv, NEW o \in Object, Mute(o)
    PROVE  Inv'
<1> DEFINE u == Muted(truth, o)
<1>1. /\ Sound(truth) /\ truth \in TruthStates /\ Fenced(truth, fences)
      /\ Keeps(truth, decided, snapshots) /\ decided \in Decisions
      /\ snapshots \in SUBSET TruthStates
  BY OwnerStarts, Zenon DEF Mute
<1>2. o \in Visible(truth) /\ OwnerWrites(u) /\ o \in Rows(truth)
  BY DEF Mute, Visible
<1>3. u.words = truth.words /\ Rows(u) = Rows(truth) /\ u.ops = truth.ops
  <2>1. CASE Asked(truth, o)
    BY <2>1, MutedAgain
  <2>2. CASE ~Asked(truth, o)
    BY <1>1, <2>2, MutedIs, Zenon
  <2>. QED  BY <2>1, <2>2
<1>4. Closure(truth, o) \subseteq Object
  BY DEF Closure, Rows
<1>5. /\ decided'.forgotten = decided.forgotten
      /\ decided'.muted = decided.muted \cup Closure(truth, o)
      /\ decided'.listed = IF u = truth THEN decided.listed ELSE decided.listed \cup Closure(truth, o)
      /\ decided'.withdrawn = decided.withdrawn
  BY <1>1 DEF Mute, Decisions
<1>6. decided' \in Decisions
  BY <1>1, <1>4 DEF Mute, Decisions
<1>7. Sound(u) /\ Fenced(u, fences)
  BY <1>1, <1>2, MutedSound, Zenon
<1>8. Keeps(u, decided', snapshots)
  BY <1>1, <1>5, MutedKeeps, Zenon
<1> HIDE DEF u
<1>9. /\ decided.forgotten \subseteq decided'.forgotten
      /\ truth.words \subseteq u.words /\ u.words \cap truth.blocked \subseteq truth.words
      /\ Rows(truth) \subseteq Rows(u) /\ Rows(u) \cap truth.blocked \subseteq Rows(truth)
      /\ truth.ops \subseteq u.ops /\ \A op \in u.ops : op \in truth.ops \/ ~op.history
  BY <1>3, <1>5
<1>. QED  BY <1>2, <1>6, <1>7, <1>8, <1>9, OwnerStep, Zenon

LEMMA UnmuteInv ==
    ASSUME Inv, NEW o \in Object, Unmute(o)
    PROVE  Inv'
<1> DEFINE u == Unmuted(truth, o)
<1>1. /\ Sound(truth) /\ truth \in TruthStates /\ Fenced(truth, fences)
      /\ Keeps(truth, decided, snapshots) /\ decided \in Decisions
      /\ \A s \in snapshots : Sound(s)
  BY OwnerStarts, Zenon DEF Unmute
<1>2. OwnerWrites(u)
  BY DEF Unmute
<1>3. u.words = truth.words /\ Rows(u) = Rows(truth) /\ u.ops = truth.ops
  BY <1>1, UnmutedIs, Zenon
<1>4. /\ decided'.forgotten = decided.forgotten
      /\ decided'.muted = decided.muted \ Closure(truth, o)
      /\ decided'.listed = decided.listed \ Closure(truth, o)
      /\ decided'.withdrawn = decided.withdrawn
  BY <1>1 DEF Unmute, Decisions
<1>5. decided' \in Decisions
  BY <1>1 DEF Unmute, Decisions
<1>6. Sound(u) /\ Fenced(u, fences)
  BY <1>1, UnmutedSound, Zenon
<1>7. Keeps(u, decided', snapshots)
  BY <1>1, <1>4, UnmutedKeeps, Zenon
<1> HIDE DEF u
<1>8. /\ decided.forgotten \subseteq decided'.forgotten
      /\ truth.words \subseteq u.words /\ u.words \cap truth.blocked \subseteq truth.words
      /\ Rows(truth) \subseteq Rows(u) /\ Rows(u) \cap truth.blocked \subseteq Rows(truth)
      /\ truth.ops \subseteq u.ops /\ \A op \in u.ops : op \in truth.ops \/ ~op.history
  BY <1>3, <1>4
<1>. QED  BY <1>2, <1>5, <1>6, <1>7, <1>8, OwnerStep, Zenon

-----------------------------------------------------------------------------
(* The writer's admission and the reader.                                     *)
LEMMA AdmissionInv == Inv /\ (OpenWriter \/ WriterRefused) => Inv'
<1> SUFFICES ASSUME Inv, OpenWriter \/ WriterRefused PROVE Inv'
  OBVIOUS
<1>1. /\ opened' \in BOOLEAN
      /\ UNCHANGED <<truth, history, snapshots, reader, decided, restoring, working>>
  BY DEF OpenWriter, WriterRefused
<1> USE <1>1 DEF restoring, working
<1>2. TypeOK' /\ Contents' /\ RunInOrder'
  BY DEF Inv, TypeOK, Contents, RunInOrder, Idle, Pending
<1>3. DecisionsCarried' /\ HistoryHonest'
  BY DEF Inv, DecisionsCarried, HistoryHonest, Pending
<1>4. PurgeInOrder' /\ ReaderInOrder'
  BY DEF Inv, PurgeInOrder, Purged, ReaderInOrder, Pending
<1>. QED  BY <1>2, <1>3, <1>4 DEF Inv

(* Nothing that is visible is forgotten in a content that holds to decisions. *)
LEMMA VisibleKept ==
    ASSUME NEW t, Sound(t), NEW d, NEW S, Keeps(t, d, S)
    PROVE  d.forgotten \cap Visible(t) = {} /\ d.muted \subseteq t.muted
  BY DEF Keeps, Sound, SoundDeletes, Visible

LEMMA ReaderInv == Inv /\ ReaderNext => Inv'
<1> SUFFICES ASSUME Inv, ReaderNext PROVE Inv'
  OBVIOUS
<1>1. UNCHANGED <<truth, history, snapshots, opened, decided, restoring, working>>
  BY DEF ReaderNext, ReaderOpens, ReaderBegins, ReaderEnds
<1>2. \/ reader' \in {[NoReader EXCEPT !.pc = "open"], NoReader}
      \/ reader' = [pc |-> "begun", sees |-> Visible(truth), forgotten |-> decided.forgotten,
                    stale |-> FALSE]
  BY DEF ReaderNext, ReaderOpens, ReaderBegins, ReaderEnds
<1>3. reader' \in [pc : {"idle", "open", "begun"}, sees : SUBSET Object,
                   forgotten : SUBSET Object, stale : BOOLEAN]
  <2>1. Visible(truth) \in SUBSET Object /\ decided.forgotten \in SUBSET Object
    BY DEF Visible, Rows, Inv, DecisionsCarried, Decisions
  <2>2. CASE reader' = [NoReader EXCEPT !.pc = "open"]
    BY <2>2 DEF NoReader
  <2>3. CASE reader' = NoReader
    BY <2>3 DEF NoReader
  <2>4. CASE reader' = [pc |-> "begun", sees |-> Visible(truth), forgotten |-> decided.forgotten,
                        stale |-> FALSE]
    BY <2>1, <2>4
  <2>. QED  BY <1>2, <2>2, <2>3, <2>4
<1> USE <1>1 DEF restoring, working
<1>4. TypeOK' /\ Contents' /\ RunInOrder'
  BY <1>3 DEF Inv, TypeOK, Contents, RunInOrder, Idle, Pending
<1>5. DecisionsCarried' /\ HistoryHonest' /\ PurgeInOrder'
  BY DEF Inv, DecisionsCarried, HistoryHonest, Pending, PurgeInOrder, Purged
<1>6. ReaderInOrder'
  <2>1. CASE reader' \in {[NoReader EXCEPT !.pc = "open"], NoReader}
    BY <2>1 DEF ReaderInOrder, NoReader
  <2>2. CASE reader' = [pc |-> "begun", sees |-> Visible(truth), forgotten |-> decided.forgotten,
                        stale |-> FALSE]
    <3>1. reader'.sees = Visible(truth) /\ reader'.forgotten = decided.forgotten
      BY <2>2
    <3>2. ~Pending \/ run.pc = "truncated" => Keeps(truth, decided, snapshots)
      BY DEF Inv, DecisionsCarried, RunInOrder
    <3>3. ~Pending \/ run.pc = "truncated" => decided.forgotten \cap Visible(truth) = {}
      BY <3>2, VisibleKept DEF Inv, Contents
    <3>4. Pending' = Pending /\ Visible(truth)' = Visible(truth)
      BY DEF Pending
    <3>. QED  BY <3>1, <3>3, <3>4 DEF ReaderInOrder
  <2>. QED  BY <1>2, <2>1, <2>2
<1>. QED  BY <1>4, <1>5, <1>6 DEF Inv

-----------------------------------------------------------------------------
(* The worker's embedding.                                                    *)
LEMMA EmbedInv == ASSUME Inv, (\E o \in Object : EmbedReads(o)) \/ EmbedGuarded \/ EmbedPublished
                  PROVE  Inv'
<1>1. /\ UNCHANGED <<truth, history, fences, purge, snapshots, opened, reader, decided, restoring>>
      /\ vectors' \subseteq vectors \cup (embed.subject \ fences)
      /\ embed' \in [pc : {"idle", "prepared", "guarded"}, subject : SUBSET Object]
      /\ run.pc = "idle" /\ ~Pending
  <2>1. CASE \E o \in Object : EmbedReads(o)
    BY <2>1 DEF EmbedReads, WorkerMay
  <2>2. CASE EmbedGuarded \/ EmbedPublished
    <3>1. embed.pc # "idle"
      BY <2>2 DEF EmbedGuarded, EmbedPublished
    <3>2. run.pc = "idle" /\ ~Pending
      BY <3>1 DEF Inv, RunInOrder, Idle
    <3>3. embed' \in [pc : {"idle", "prepared", "guarded"}, subject : SUBSET Object]
      BY <2>2 DEF EmbedGuarded, EmbedPublished, NoEmbed, Inv, TypeOK
    <3>. QED  BY <2>2, <3>2, <3>3 DEF EmbedGuarded, EmbedPublished
  <2>. QED  BY <2>1, <2>2
<1> USE <1>1 DEF restoring
<1>2. embed.subject \subseteq Object
  BY DEF Inv, TypeOK
<1>3. TypeOK'
  BY <1>2 DEF Inv, TypeOK
<1>4. Contents'
  BY DEF Inv, Contents
<1>5. RunInOrder'
  BY DEF Inv, RunInOrder, Pending
<1>6. DecisionsCarried' /\ HistoryHonest'
  BY DEF Inv, DecisionsCarried, HistoryHonest, Pending
<1>7. PurgeInOrder' /\ ReaderInOrder'
  BY DEF Inv, PurgeInOrder, Purged, ReaderInOrder, Pending
<1>. QED  BY <1>3, <1>4, <1>5, <1>6, <1>7 DEF Inv

LEMMA CrashInv == ASSUME Inv, WorkerCrashes PROVE Inv'
<1>1. /\ embed' = NoEmbed /\ purge' = NoPurge
      /\ UNCHANGED <<truth, history, vectors, fences, snapshots, opened, reader, decided, restoring>>
  BY DEF WorkerCrashes
<1>2. purge' \in [pc : {"idle", "scrubbed", "vectors", "truncated"}, op : SUBSET Object,
                  members : SUBSET Object, truncated : BOOLEAN] /\ purge'.pc = "idle"
  BY <1>1 DEF NoPurge
<1>3. embed' \in [pc : {"idle", "prepared", "guarded"}, subject : SUBSET Object] /\ embed'.pc = "idle"
  BY <1>1 DEF NoEmbed
<1> USE <1>1, <1>2, <1>3 DEF restoring
<1>4. TypeOK' /\ Contents' /\ RunInOrder'
  BY DEF Inv, TypeOK, Contents, RunInOrder, Idle, Pending
<1>5. DecisionsCarried' /\ HistoryHonest'
  BY DEF Inv, DecisionsCarried, HistoryHonest, Pending
<1>6. PurgeInOrder' /\ ReaderInOrder'
  BY DEF Inv, PurgeInOrder, ReaderInOrder, Pending
<1>. QED  BY <1>4, <1>5, <1>6 DEF Inv

-----------------------------------------------------------------------------
(* The worker's purge.  A transaction of it commits u, which renews one       *)
(* operation's record and may take words away.                                *)
LEMMA PurgeCommit ==
    ASSUME Inv, NEW u \in TruthStates, Commit(u), run.pc = "idle", ~Pending,
           UNCHANGED <<vectors, fences, embed, snapshots, opened, decided, restoring>>,
           purge' \in [pc : {"idle", "scrubbed", "vectors", "truncated"}, op : SUBSET Object,
                       members : SUBSET Object, truncated : BOOLEAN],
           NEW op \in truth.ops, NEW new, Renews(truth, u, op, new),
           \A o \in truth.words \ u.words : o \in op.members,
           new.vector => op.members \cap Rows(truth) \subseteq fences,
           new.history => op.members \cap (truth.words \cup history) = {},
           PurgeInOrder'
    PROVE  Inv'
<1>1. /\ truth' = u /\ history' = history \cup (truth.words \ u.words)
      /\ reader' = IF reader.pc = "begun" THEN [reader EXCEPT !.stale = TRUE] ELSE reader
  BY DEF Commit
<1>2. /\ UNCHANGED <<vectors, fences, embed, snapshots, opened, decided, marker, kept, run, restores>>
      /\ ~Pending'
  BY DEF restoring, Pending
<1>3. Sound(truth) /\ Fenced(truth, fences) /\ Keeps(truth, decided, snapshots) /\ truth.words \subseteq Object
  BY PartsOf DEF Inv, Contents, DecisionsCarried, Sound, Parts
<1>4. Sound(u) /\ Fenced(u, fences) /\ Rows(u) = Rows(truth) /\ Members(u.ops) = Members(truth.ops)
  BY <1>3, RenewedSound, Zenon
<1>5. Keeps(u, decided, snapshots)
  BY <1>3, RenewedKeeps, Zenon
<1>6. TypeOK'
  <2>1. u.words \subseteq Rows(u) /\ \A p, q \in u.ops : p.members = q.members => p = q
    BY <1>4 DEF Sound, SoundRows, SoundDeletes
  <2>2. reader' \in [pc : {"idle", "open", "begun"}, sees : SUBSET Object,
                     forgotten : SUBSET Object, stale : BOOLEAN]
    BY <1>1 DEF Inv, TypeOK
  <2>3. /\ truth' \in TruthStates /\ truth'.words \subseteq Rows(truth')
        /\ \A p, q \in truth'.ops : p.members = q.members => p = q
        /\ {history', vectors', fences'} \subseteq SUBSET Object
    BY <1>1, <1>2, <1>3, <2>1 DEF Inv, TypeOK
  <2>4. TypeOK
    BY DEF Inv
  <2>. QED  BY <1>2, <2>2, <2>3, <2>4 DEF TypeOK
<1>7. Contents'
  BY <1>1, <1>2, <1>4 DEF Inv, Contents
<1>8. RunInOrder'
  BY <1>2 DEF Inv, RunInOrder
<1>9. DecisionsCarried'
  BY <1>1, <1>2, <1>5 DEF Inv, DecisionsCarried
<1>10. HistoryHonest'
  <2>1. ASSUME NEW q \in u.ops, q.history PROVE q.members \cap (u.words \cup history') = {}
    <3>1. u.words \cup history' \subseteq truth.words \cup history
      BY <1>1 DEF Renews
    <3>2. CASE q = new
      BY <2>1, <3>1, <3>2 DEF Renews
    <3>3. CASE q \in truth.ops
      BY <2>1, <3>1, <3>3 DEF Inv, HistoryHonest
    <3>. QED  BY <3>2, <3>3 DEF Renews
  <2>. QED  BY <1>1, <2>1 DEF HistoryHonest
<1>11. ReaderInOrder'
  <2>1. CASE reader.pc = "begun"
    <3>1. reader'.forgotten = reader.forgotten /\ reader'.sees = reader.sees /\ reader'.stale
      BY <1>1, <2>1 DEF Inv, TypeOK
    <3>. QED  BY <1>2, <2>1, <3>1 DEF Inv, ReaderInOrder
  <2>2. CASE reader.pc # "begun"
    BY <1>1, <2>2 DEF ReaderInOrder
  <2>. QED  BY <2>1, <2>2
<1>. QED  BY <1>6, <1>7, <1>8, <1>9, <1>10, <1>11 DEF Inv

LEMMA ScrubsInv == ASSUME Inv, NEW op \in truth.ops, PurgeScrubs(op) PROVE Inv'
<1> DEFINE new == [op EXCEPT !.scrubbed = TRUE]
<1> DEFINE u == [truth EXCEPT !.words = @ \ op.members, !.ops = (@ \ {op}) \cup {new}]
<1>1. /\ run.pc = "idle" /\ ~Pending /\ Commit(u)
      /\ purge' = [pc |-> "scrubbed", op |-> op.members,
                   members |-> op.members \cap Rows(truth), truncated |-> FALSE]
      /\ UNCHANGED <<vectors, fences, embed, snapshots, opened, decided, restoring>>
  BY DEF PurgeScrubs, WorkerMay
<1>2. truth \in TruthStates /\ Fenced(truth, fences) /\ op \in Operations
  BY PartsOf DEF Inv, TypeOK, Contents, Parts
<1>3. /\ new \in Operations /\ new.members = op.members /\ new.vector = op.vector
      /\ new.history = op.history
  BY <1>2 DEF Operations
<1>4. new.vector => op.members \cap Rows(truth) \subseteq fences
  BY <1>2, <1>3 DEF Fenced
<1>5. new.history => op.members \cap (truth.words \cup history) = {}
  BY <1>1, <1>3 DEF Inv, HistoryHonest
<1>6. truth.words \ op.members \in SUBSET Object /\ (truth.ops \ {op}) \cup {new} \in SUBSET Operations
  BY <1>2, <1>3, PartsOf DEF Parts
<1>7. u \in TruthStates
  <2> HIDE DEF new
  <2>. QED  BY <1>2, <1>6, Zenon DEF TruthStates
<1>8. /\ u.ops = (truth.ops \ {op}) \cup {new} /\ u.words = truth.words \ op.members
      /\ u.head = truth.head /\ u.epoch = truth.epoch /\ u.blocked = truth.blocked
      /\ u.muted = truth.muted /\ u.absent = truth.absent /\ u.mutes = truth.mutes
      /\ u.generation = truth.generation
  BY <1>2 DEF TruthStates
<1>9. purge' \in [pc : {"idle", "scrubbed", "vectors", "truncated"}, op : SUBSET Object,
                  members : SUBSET Object, truncated : BOOLEAN]
  BY <1>1, <1>2 DEF Operations
<1> HIDE DEF u, new
<1>10. PurgeInOrder'
  <2>1. truth' = u
    BY <1>1 DEF Commit
  <2>2. Rows(u) = Rows(truth)
    BY <1>8 DEF Rows
  <2>3. purge'.pc = "scrubbed" /\ purge'.op = op.members /\ purge'.members = op.members \cap Rows(truth)
    BY <1>1
  <2>4. new \in u.ops
    BY <1>8
  <2>. QED  BY <1>3, <1>8, <2>1, <2>2, <2>3, <2>4 DEF PurgeInOrder
<1>11. Renews(truth, u, op, new) /\ \A o \in truth.words \ u.words : o \in op.members
  BY <1>3, <1>8 DEF Renews
<1>. QED  BY <1>1, <1>4, <1>5, <1>7, <1>9, <1>10, <1>11, PurgeCommit, Zenon

(* What a purge under way finds.                                              *)
LEMMA PurgeFinds ==
    ASSUME Inv, purge.pc # "idle"
    PROVE  /\ run.pc = "idle" /\ ~Pending
           /\ Purged(purge.op) \in truth.ops /\ Purged(purge.op).members = purge.op
<1>1. PICK op \in truth.ops : op.members = purge.op
  BY DEF Inv, PurgeInOrder
<1>2. Purged(purge.op) = op
  BY <1>1, TheOperation DEF Purged, Inv, Contents, Sound
<1>. QED  BY <1>1, <1>2 DEF Inv, RunInOrder, Idle

LEMMA LayersInv == ASSUME Inv, PurgeVectors \/ PurgeRefused PROVE Inv'
<1>1. purge.pc = "scrubbed" /\ UNCHANGED <<truth, history, embed, snapshots, opened, reader, decided, restoring>>
  BY DEF PurgeVectors, PurgeRefused
<1>2. /\ run.pc = "idle" /\ ~Pending
      /\ Purged(purge.op) \in truth.ops /\ Purged(purge.op).members = purge.op
  BY <1>1, PurgeFinds
<1>3. \/ purge' \in {NoPurge, [purge EXCEPT !.pc = "vectors"]} /\ UNCHANGED <<vectors, fences>>
         /\ (purge' # NoPurge => Purged(purge.op).vector)
      \/ /\ purge' = [purge EXCEPT !.pc = "vectors"]
         /\ vectors' = vectors \ purge.members /\ fences' = fences \cup purge.members
  BY DEF PurgeVectors, PurgeRefused
<1> USE <1>1 DEF restoring
<1>4. purge' \in [pc : {"idle", "scrubbed", "vectors", "truncated"}, op : SUBSET Object,
                  members : SUBSET Object, truncated : BOOLEAN]
      /\ {vectors', fences'} \subseteq SUBSET Object
      /\ fences \subseteq fences' /\ fences' \cap vectors' = {}
  <2>1. purge' \in [pc : {"idle", "scrubbed", "vectors", "truncated"}, op : SUBSET Object,
                    members : SUBSET Object, truncated : BOOLEAN]
    <3>1. CASE purge' = NoPurge
      BY <3>1 DEF NoPurge
    <3>2. CASE purge' = [purge EXCEPT !.pc = "vectors"]
      BY <3>2 DEF Inv, TypeOK
    <3>. QED  BY <1>3, <3>1, <3>2
  <2>2. purge.members \subseteq Object /\ {vectors, fences} \subseteq SUBSET Object /\ fences \cap vectors = {}
    BY DEF Inv, TypeOK, Contents
  <2>3. {vectors', fences'} \subseteq SUBSET Object /\ fences \subseteq fences' /\ fences' \cap vectors' = {}
    BY <1>3, <2>2
  <2>. QED  BY <2>1, <2>3
<1>5. TypeOK'
  BY <1>4 DEF Inv, TypeOK
<1>6. Contents'
  BY <1>4 DEF Inv, Contents, Fenced
<1>7. RunInOrder'
  BY <1>2 DEF Inv, RunInOrder, Pending
<1>8. DecisionsCarried' /\ HistoryHonest' /\ ReaderInOrder'
  BY DEF Inv, DecisionsCarried, HistoryHonest, ReaderInOrder, Pending
<1>9. PurgeInOrder'
  <2>1. CASE purge' = NoPurge
    BY <2>1 DEF PurgeInOrder, NoPurge
  <2>2. CASE purge' = [purge EXCEPT !.pc = "vectors"]
    <3>1. /\ purge'.pc = "vectors" /\ purge'.op = purge.op /\ purge'.members = purge.members
          /\ purge' # NoPurge
      BY <2>2 DEF Inv, TypeOK, NoPurge
    <3>2. ~Purged(purge.op).vector => purge.members \subseteq fences'
      BY <1>3, <3>1
    <3>3. Purged(purge.op)' = Purged(purge.op)
      BY <3>1 DEF Purged
    <3>. QED  BY <1>1, <1>2, <3>1, <3>2, <3>3 DEF Inv, PurgeInOrder
  <2>. QED  BY <1>3, <2>1, <2>2
<1>. QED  BY <1>5, <1>6, <1>7, <1>8, <1>9 DEF Inv

LEMMA TruncatesInv == ASSUME Inv, PurgeTruncates PROVE Inv'
<1>1. /\ purge.pc = "vectors" /\ history' = IF ~reader.stale THEN {} ELSE history
      /\ purge' = [purge EXCEPT !.pc = "truncated", !.truncated = ~reader.stale]
      /\ UNCHANGED <<truth, vectors, fences, embed, snapshots, opened, reader, decided, restoring>>
  BY DEF PurgeTruncates, Truncates
<1>2. run.pc = "idle" /\ ~Pending
  BY <1>1, PurgeFinds
<1>3. /\ purge'.pc = "truncated" /\ purge'.op = purge.op /\ purge'.members = purge.members
      /\ purge'.truncated = ~reader.stale
      /\ purge' \in [pc : {"idle", "scrubbed", "vectors", "truncated"}, op : SUBSET Object,
                     members : SUBSET Object, truncated : BOOLEAN]
  BY <1>1 DEF Inv, TypeOK
<1>4. history' \subseteq history /\ (~reader.stale => history' = {})
  BY <1>1
<1>5. UNCHANGED <<truth, vectors, fences, embed, snapshots, opened, reader, decided, marker, kept, run, restores>>
  BY <1>1 DEF restoring
<1>6. TypeOK'
  BY <1>3, <1>4, <1>5 DEF Inv, TypeOK
<1>7. Contents' /\ DecisionsCarried' /\ ReaderInOrder'
  BY <1>5 DEF Inv, Contents, DecisionsCarried, ReaderInOrder, Pending
<1>8. RunInOrder'
  BY <1>2, <1>5 DEF Inv, RunInOrder, Pending
<1>9. HistoryHonest'
  BY <1>4, <1>5 DEF Inv, HistoryHonest, Pending
<1>10. PurgeInOrder'
  BY <1>1, <1>3, <1>4, <1>5 DEF Inv, PurgeInOrder, Purged
<1>. QED  BY <1>6, <1>7, <1>8, <1>9, <1>10 DEF Inv

LEMMA AcknowledgesInv == ASSUME Inv, PurgeAcknowledges PROVE Inv'
<1> DEFINE op == Purged(purge.op)
<1> DEFINE gone == op.history \/ purge.truncated
<1> DEFINE new == [op EXCEPT !.vector = TRUE, !.history = gone, !.queued = ~gone]
<1> DEFINE u == [truth EXCEPT !.ops = (@ \ {op}) \cup {new}]
<1>1. /\ purge.pc = "truncated" /\ Commit(u) /\ purge' = NoPurge
      /\ UNCHANGED <<vectors, fences, embed, snapshots, opened, decided, restoring>>
  BY DEF PurgeAcknowledges
<1>2. run.pc = "idle" /\ ~Pending /\ op \in truth.ops /\ op.members = purge.op
  BY <1>1, PurgeFinds
<1>3. /\ truth \in TruthStates /\ op \in Operations /\ Fenced(truth, fences)
      /\ purge.truncated \in BOOLEAN
  BY <1>2, PartsOf DEF Inv, TypeOK, Contents, Parts
<1> HIDE DEF op
<1>4. gone \in BOOLEAN
  BY <1>3 DEF Operations
<1>5. new \in Operations /\ new.members = op.members /\ new.history = gone
  <2> HIDE DEF gone
  <2>. QED  BY <1>3, <1>4 DEF Operations
<1>6. op.members \cap Rows(truth) \subseteq fences
  BY <1>1, <1>2, <1>3 DEF Inv, PurgeInOrder, Fenced, op
<1>7. new.history => op.members \cap (truth.words \cup history) = {}
  <2>1. ASSUME op.history PROVE op.members \cap (truth.words \cup history) = {}
    BY <1>2, <2>1 DEF Inv, HistoryHonest
  <2>2. ASSUME purge.truncated PROVE op.members \cap (truth.words \cup history) = {}
    BY <1>1, <1>2, <2>2 DEF Inv, PurgeInOrder
  <2>. QED  BY <1>5, <2>1, <2>2
<1>8. (truth.ops \ {op}) \cup {new} \in SUBSET Operations
  BY <1>3, <1>5, PartsOf DEF Parts
<1>9. u \in TruthStates
  <2> HIDE DEF new
  <2>. QED  BY <1>3, <1>8, Zenon DEF TruthStates
<1>10. Renews(truth, u, op, new) /\ u.words = truth.words
  BY <1>3, <1>5 DEF TruthStates, Renews
<1>11. purge' \in [pc : {"idle", "scrubbed", "vectors", "truncated"}, op : SUBSET Object,
                   members : SUBSET Object, truncated : BOOLEAN] /\ PurgeInOrder'
  BY <1>1 DEF NoPurge, PurgeInOrder
<1> HIDE DEF u, new
<1>12. \A o \in truth.words \ u.words : o \in op.members
  BY <1>10
<1>. QED  BY <1>1, <1>2, <1>6, <1>7, <1>9, <1>10, <1>11, <1>12, PurgeCommit, Zenon

-----------------------------------------------------------------------------
(* The operator's commands.                                                   *)
LEMMA BackupInv == ASSUME Inv, Backup PROVE Inv'
<1>1. /\ ~Pending /\ run.pc = "idle" /\ snapshots' = snapshots \cup {truth}
      /\ UNCHANGED <<truth, history, opened, reader, decided, restoring, working>>
  BY DEF Backup
<1> USE <1>1 DEF restoring, working
<1>2. TypeOK' /\ RunInOrder'
  BY DEF Inv, TypeOK, RunInOrder, Idle, Pending
<1>3. Contents'
  BY DEF Inv, Contents
<1>4. DecisionsCarried'
  <2>1. Sound(truth) /\ decided \in Decisions /\ Keeps(truth, decided, snapshots)
    BY DEF Inv, Contents, DecisionsCarried
  <2>2. Keeps(truth, decided, snapshots \cup {truth})
    BY <2>1, BackupKeeps, Zenon
  <2>. QED  BY <2>1, <2>2 DEF DecisionsCarried, Pending
<1>5. HistoryHonest' /\ PurgeInOrder' /\ ReaderInOrder'
  BY DEF Inv, HistoryHonest, PurgeInOrder, Purged, ReaderInOrder, Pending
<1>. QED  BY <1>2, <1>3, <1>4, <1>5 DEF Inv

(* The ledger a run starts on tells the decisions: the kept one when the      *)
(* marker names it, else the store's own, on which it may be closed.          *)
LEMMA StartsInv ==
    ASSUME Inv, NEW snapshot \in snapshots, NEW format \in {"full", "legacy"},
           RestoreStarts(snapshot, format)
    PROVE  Inv'
<1> DEFINE whole == marker.state = "whole" /\ kept = marker.ledger
<1> DEFINE f == IF Pending THEN "full" ELSE format
<1> DEFINE L == IF whole THEN kept ELSE LedgerOf(truth, f)
<1>1. /\ run.pc = "idle" /\ Idle /\ restores' = restores + 1
      /\ whole \/ Closable(LedgerOf(truth, f))
      /\ run' = [pc |-> IF whole THEN "closed" ELSE "checked", snapshot |-> snapshot, ledger |-> L]
      /\ UNCHANGED <<truth, history, marker, kept, snapshots, opened, reader, decided, working>>
  BY DEF RestoreStarts
<1>2. /\ Sound(truth) /\ decided \in Decisions /\ f \in {"full", "legacy"}
      /\ (Pending => Tells(kept, decided, snapshots)) /\ snapshots \subseteq TruthStates
      /\ marker.state \in {"none", "whole", "damaged"} /\ restores \in Nat
  BY DEF Inv, TypeOK, Contents, DecisionsCarried
<1>3. Tells(L, decided, snapshots)
  <2>1. CASE whole
    BY <1>2, <2>1 DEF Pending
  <2>2. CASE ~whole
    <3>1. marker.state # "whole"
      BY <2>2 DEF Inv, RunInOrder
    <3>2. CASE Keeps(truth, decided, snapshots)
      <4>1. Tells(LedgerOf(truth, f), decided, snapshots)
        BY <1>2, <3>2, LedgerTells, Zenon
      <4>. QED  BY <2>2, <4>1
    <3>3. CASE ~Keeps(truth, decided, snapshots)
      <4>1. Pending /\ marker.state = "damaged"
        BY <1>2, <3>1, <3>3 DEF Inv, DecisionsCarried, Pending
      <4>2. ~(truth.epoch > kept.epoch)
        BY <3>3, <4>1 DEF Inv, DecisionsCarried
      <4>3. LedgerOf(truth, f).epoch = truth.epoch
        BY DEF LedgerOf
      <4>4. kept # NoLedger /\ kept.epoch \in Nat /\ truth.epoch \in Nat
        <5>1. kept \in Ledgers
          BY <1>2, <4>1 DEF Tells, SoundLedger
        <5>2. kept.format \in {"full", "legacy"} /\ kept.epoch \in Nat
          BY <5>1 DEF Ledgers
        <5>. QED  BY <1>2, <5>2, PartsOf DEF NoLedger, Sound, Parts
      <4>5. kept = LedgerOf(truth, f) \/ kept.epoch < truth.epoch
        BY <1>1, <2>2, <4>1, <4>3, <4>4 DEF Closable
      <4>. QED  BY <1>2, <2>2, <4>1, <4>2, <4>4, <4>5
    <3>. QED  BY <3>2, <3>3
  <2>. QED  BY <2>1, <2>2
<1>4. L \in Ledgers
  BY <1>3 DEF Tells, SoundLedger
<1>5. ~whole => L = LedgerOf(truth, L.format)
  BY DEF LedgerOf
<1> HIDE DEF L
<1>6. run'.pc = (IF whole THEN "closed" ELSE "checked") /\ run'.snapshot = snapshot /\ run'.ledger = L
  BY <1>1
<1>7. run' \in [pc : {"idle", "checked", "kept", "closed", "copied", "replayed", "truncated"},
                snapshot : TruthStates, ledger : {NoLedger} \cup Ledgers]
  BY <1>1, <1>2, <1>4
<1> USE DEF working
<1>8. TypeOK'
  BY <1>1, <1>2, <1>7 DEF Inv, TypeOK
<1>9. Contents'
  BY <1>1 DEF Inv, Contents
<1>10. RunInOrder'
  BY <1>1, <1>5, <1>6 DEF Inv, RunInOrder, Idle, Pending, L
<1>11. DecisionsCarried'
  BY <1>1, <1>3, <1>6 DEF Inv, DecisionsCarried, Pending
<1>12. HistoryHonest'
  BY <1>1, <1>6 DEF Inv, HistoryHonest, Pending
<1>13. PurgeInOrder' /\ ReaderInOrder'
  BY <1>1, <1>6 DEF Inv, PurgeInOrder, Purged, ReaderInOrder, Pending
<1>. QED  BY <1>8, <1>9, <1>10, <1>11, <1>12, <1>13 DEF Inv

(* Changes of the run, its marker and its ledger alone.                       *)
LEMMA RunStep ==
    ASSUME Inv,
           UNCHANGED <<truth, reader, decided, embed, purge, vectors, fences>>,
           history' \subseteq history, opened' \in BOOLEAN, restores' \in Nat,
           snapshots' = snapshots \/ snapshots' = snapshots \cup {truth},
           marker' \in [state : {"none", "whole", "damaged"}, ledger : {NoLedger} \cup Ledgers],
           kept' \in {NoLedger} \cup Ledgers,
           run' \in [pc : {"idle", "checked", "kept", "closed", "copied", "replayed", "truncated"},
                     snapshot : TruthStates, ledger : {NoLedger} \cup Ledgers],
           RunInOrder', DecisionsCarried',
           ~Pending' => ~Pending \/ run.pc \in {"replayed", "truncated"},
           run'.pc \in {"replayed", "truncated"} => run.pc \in {"replayed", "truncated"},
           ~Pending' \/ run'.pc = "truncated" => ~Pending \/ run.pc = "truncated" \/ ~reader.stale,
           run'.pc = "truncated" => Keeps(truth, decided, snapshots)
    PROVE  Inv'
<1>1. TypeOK'
  <2>1. snapshots' \subseteq TruthStates /\ history' \subseteq Object
    BY DEF Inv, TypeOK
  <2>. QED  BY <2>1 DEF Inv, TypeOK
<1>2. Contents'
  BY DEF Inv, Contents
<1>3. HistoryHonest'
  BY DEF Inv, HistoryHonest
<1>4. PurgeInOrder'
  BY DEF Inv, PurgeInOrder, Purged
<1>5. ReaderInOrder'
  <2> SUFFICES ASSUME reader.pc = "begun", ~Pending' \/ run'.pc = "truncated",
                      ~(~Pending \/ run.pc = "truncated")
               PROVE  reader.sees \cap reader.forgotten = {}
    BY DEF Inv, ReaderInOrder
  <2>1. ~reader.stale
    OBVIOUS
  <2>2. reader.sees = Visible(truth) /\ reader.forgotten \subseteq decided.forgotten
    BY <2>1 DEF Inv, ReaderInOrder
  <2>3. \E S : Keeps(truth, decided, S)
    BY DEF DecisionsCarried
  <2>. QED  BY <2>2, <2>3, VisibleKept DEF Inv, Contents
<1>. QED  BY <1>1, <1>2, <1>3, <1>4, <1>5 DEF Inv

LEMMA KeepsLedgerInv == ASSUME Inv, RestoreKeepsLedger PROVE Inv'
<1>1. /\ run.pc = "checked" /\ kept' = run.ledger /\ run' = [run EXCEPT !.pc = "kept"]
      /\ snapshots' = snapshots \/ snapshots' = snapshots \cup {truth}
      /\ UNCHANGED <<truth, history, marker, restores, opened, reader, decided, working>>
  BY DEF RestoreKeepsLedger
<1>2. /\ run'.pc = "kept" /\ run'.snapshot = run.snapshot /\ run'.ledger = run.ledger
      /\ run' \in [pc : {"idle", "checked", "kept", "closed", "copied", "replayed", "truncated"},
                   snapshot : TruthStates, ledger : {NoLedger} \cup Ledgers]
      /\ run.ledger \in {NoLedger} \cup Ledgers
  BY <1>1 DEF Inv, TypeOK
<1>3. /\ Tells(run.ledger, decided, snapshots) /\ run.ledger = LedgerOf(truth, run.ledger.format)
      /\ marker.state # "whole" /\ run.snapshot \in snapshots /\ Idle
      /\ Sound(truth) /\ decided \in Decisions
      /\ (~Pending => Keeps(truth, decided, snapshots))
  BY <1>1 DEF Inv, DecisionsCarried, RunInOrder, Contents
<1>4. run.ledger.format \in {"full", "legacy"} /\ run.ledger.epoch = truth.epoch /\ truth.epoch \in Nat
  BY <1>3, PartsOf DEF Tells, SoundLedger, Ledgers, LedgerOf, Sound, Parts
<1>5. Tells(run.ledger, decided, snapshots')
  <2>1. Tells(run.ledger, decided, snapshots \cup {truth})
    BY <1>3, <1>4, BackupTells, Zenon
  <2>. QED  BY <1>1, <1>3, <2>1
<1>6. ~Pending => Keeps(truth, decided, snapshots')
  <2>1. ~Pending => Keeps(truth, decided, snapshots \cup {truth})
    BY <1>3, BackupKeeps, Zenon
  <2>. QED  BY <1>1, <1>3, <2>1
<1> USE DEF working
<1>7. RunInOrder'
  BY <1>1, <1>2, <1>3, <1>4 DEF RunInOrder, Idle, Pending, Inv
<1>8. DecisionsCarried'
  BY <1>1, <1>2, <1>3, <1>4, <1>5, <1>6 DEF DecisionsCarried, Pending
<1>9. /\ UNCHANGED <<truth, reader, decided, embed, purge, vectors, fences>>
      /\ history' \subseteq history /\ opened' \in BOOLEAN /\ restores' \in Nat
      /\ marker' \in [state : {"none", "whole", "damaged"}, ledger : {NoLedger} \cup Ledgers]
      /\ kept' \in {NoLedger} \cup Ledgers
      /\ (Pending' <=> Pending)
  BY <1>1, <1>2 DEF Inv, TypeOK, Pending
<1>. QED  BY <1>1, <1>2, <1>7, <1>8, <1>9, RunStep

LEMMA ClosesInv == ASSUME Inv, RestoreCloses PROVE Inv'
<1>1. /\ run.pc = "kept" /\ marker' = [state |-> "whole", ledger |-> run.ledger]
      /\ run' = IF run.ledger.format = "legacy" THEN NoRun ELSE [run EXCEPT !.pc = "closed"]
      /\ UNCHANGED <<truth, history, kept, snapshots, restores, opened, reader, decided, working>>
  BY DEF RestoreCloses
<1>2. /\ run'.pc = "idle" \/ (run'.pc = "closed" /\ run'.snapshot = run.snapshot /\ run'.ledger = run.ledger)
      /\ run' \in [pc : {"idle", "checked", "kept", "closed", "copied", "replayed", "truncated"},
                   snapshot : TruthStates, ledger : {NoLedger} \cup Ledgers]
      /\ run.ledger \in {NoLedger} \cup Ledgers
  <2>1. NoRun.pc = "idle" /\ NoRun \in [pc : {"idle"}, snapshot : TruthStates, ledger : {NoLedger} \cup Ledgers]
    BY EmptyIs DEF NoRun, Sound
  <2>2. [run EXCEPT !.pc = "closed"].pc = "closed" /\ [run EXCEPT !.pc = "closed"].snapshot = run.snapshot
        /\ [run EXCEPT !.pc = "closed"].ledger = run.ledger
        /\ [run EXCEPT !.pc = "closed"] \in
             [pc : {"idle", "checked", "kept", "closed", "copied", "replayed", "truncated"},
                   snapshot : TruthStates, ledger : {NoLedger} \cup Ledgers]
        /\ run.ledger \in {NoLedger} \cup Ledgers
    BY DEF Inv, TypeOK
  <2>. QED  BY <1>1, <2>1, <2>2
<1>3. /\ Tells(run.ledger, decided, snapshots) /\ run.ledger = LedgerOf(truth, run.ledger.format)
      /\ run.snapshot \in snapshots /\ Idle /\ kept = run.ledger
      /\ Sound(truth) /\ decided \in Decisions
  BY <1>1 DEF Inv, DecisionsCarried, RunInOrder, Contents
<1>4. run.ledger.epoch = truth.epoch /\ truth.epoch \in Nat
  BY <1>3, PartsOf DEF LedgerOf, Sound, Parts
<1>5. marker'.state = "whole" /\ marker'.ledger = run.ledger /\ Pending'
  BY <1>1 DEF Pending
<1> USE DEF working
<1>6. RunInOrder'
  BY <1>1, <1>2, <1>3, <1>5 DEF RunInOrder, Idle, Inv
<1>7. DecisionsCarried'
  BY <1>1, <1>2, <1>3, <1>4, <1>5 DEF DecisionsCarried
<1>8. /\ UNCHANGED <<truth, reader, decided, embed, purge, vectors, fences>>
      /\ history' \subseteq history /\ opened' \in BOOLEAN /\ restores' \in Nat
      /\ marker' \in [state : {"none", "whole", "damaged"}, ledger : {NoLedger} \cup Ledgers]
      /\ kept' \in {NoLedger} \cup Ledgers /\ snapshots' = snapshots
  BY <1>1, <1>2 DEF Inv, TypeOK
<1>. QED  BY <1>2, <1>5, <1>6, <1>7, <1>8, RunStep

LEMMA StopsInv == ASSUME Inv, RestoreStops \/ MarkerDamaged PROVE Inv'
<1>1. /\ run' = NoRun \/ (run' = run /\ run.pc = "idle")
      /\ marker' = marker \/ (marker.state = "whole" /\ marker' = [state |-> "damaged", ledger |-> NoLedger])
      /\ UNCHANGED <<truth, history, kept, snapshots, restores, opened, reader, decided, working>>
  BY DEF RestoreStops, MarkerDamaged
<1>2. run'.pc = "idle" /\ run' \in [pc : {"idle", "checked", "kept", "closed", "copied", "replayed", "truncated"},
                   snapshot : TruthStates, ledger : {NoLedger} \cup Ledgers]
  <2>1. NoRun.pc = "idle" /\ NoRun \in [pc : {"idle"}, snapshot : TruthStates, ledger : {NoLedger} \cup Ledgers]
    BY EmptyIs DEF NoRun, Sound
  <2>. QED  BY <1>1, <2>1 DEF Inv, TypeOK
<1>3. /\ marker'.state = "whole" => marker' = marker
      /\ (Pending' <=> Pending)
      /\ marker' \in [state : {"none", "whole", "damaged"}, ledger : {NoLedger} \cup Ledgers]
  BY <1>1 DEF Pending, Inv, TypeOK
<1> USE DEF working
<1>4. RunInOrder'
  BY <1>1, <1>2, <1>3 DEF Inv, RunInOrder, Idle
<1>5. DecisionsCarried'
  BY <1>1, <1>2, <1>3 DEF Inv, DecisionsCarried
<1>6. /\ UNCHANGED <<truth, reader, decided, embed, purge, vectors, fences>>
      /\ history' \subseteq history /\ opened' \in BOOLEAN /\ restores' \in Nat
      /\ kept' \in {NoLedger} \cup Ledgers /\ snapshots' = snapshots
  BY <1>1 DEF Inv, TypeOK
<1>. QED  BY <1>2, <1>3, <1>4, <1>5, <1>6, RunStep

LEMMA TruncatesLogInv == ASSUME Inv, RestoreTruncates PROVE Inv'
<1>1. /\ run.pc = "replayed"
      /\ UNCHANGED <<truth, marker, kept, snapshots, restores, opened, reader, decided, working>>
      /\ \/ ~reader.stale /\ history' = {} /\ run' = [run EXCEPT !.pc = "truncated"]
         \/ run' = NoRun /\ history' = history
  BY DEF RestoreTruncates, Truncates
<1>2. /\ \/ run'.pc = "truncated" /\ run'.snapshot = run.snapshot /\ run'.ledger = run.ledger
            /\ ~reader.stale /\ history' = {}
         \/ run'.pc = "idle" /\ history' = history
      /\ run' \in [pc : {"idle", "checked", "kept", "closed", "copied", "replayed", "truncated"},
                   snapshot : TruthStates, ledger : {NoLedger} \cup Ledgers]
  <2>1. NoRun.pc = "idle" /\ NoRun \in [pc : {"idle"}, snapshot : TruthStates, ledger : {NoLedger} \cup Ledgers]
    BY EmptyIs DEF NoRun, Sound
  <2>2. [run EXCEPT !.pc = "truncated"].pc = "truncated"
        /\ [run EXCEPT !.pc = "truncated"].snapshot = run.snapshot
        /\ [run EXCEPT !.pc = "truncated"].ledger = run.ledger
        /\ [run EXCEPT !.pc = "truncated"] \in
             [pc : {"idle", "checked", "kept", "closed", "copied", "replayed", "truncated"},
                   snapshot : TruthStates, ledger : {NoLedger} \cup Ledgers]
    BY DEF Inv, TypeOK
  <2>. QED  BY <1>1, <2>1, <2>2
<1>3. marker.state = "whole" /\ Pending /\ Pending' /\ truth.epoch > kept.epoch
  BY <1>1 DEF Inv, RunInOrder, Pending
<1>4. Keeps(truth, decided, snapshots)
  BY <1>3 DEF Inv, DecisionsCarried
<1> USE DEF working
<1>5. RunInOrder'
  BY <1>1, <1>2, <1>3 DEF Inv, RunInOrder, Idle
<1>6. DecisionsCarried'
  BY <1>1, <1>2, <1>3 DEF Inv, DecisionsCarried
<1>7. /\ UNCHANGED <<truth, reader, decided, embed, purge, vectors, fences>>
      /\ history' \subseteq history /\ opened' \in BOOLEAN /\ restores' \in Nat
      /\ marker' \in [state : {"none", "whole", "damaged"}, ledger : {NoLedger} \cup Ledgers]
      /\ kept' \in {NoLedger} \cup Ledgers /\ snapshots' = snapshots
  BY <1>1, <1>2 DEF Inv, TypeOK
<1>. QED  BY <1>1, <1>2, <1>3, <1>4, <1>5, <1>6, <1>7, RunStep

LEMMA ReopensInv == ASSUME Inv, RestoreReopens PROVE Inv'
<1>1. /\ run.pc = "truncated" /\ marker' = NoMarker /\ run' = NoRun
      /\ UNCHANGED <<truth, history, kept, snapshots, restores, opened, reader, decided, working>>
  BY DEF RestoreReopens
<1>2. run'.pc = "idle" /\ run' \in [pc : {"idle", "checked", "kept", "closed", "copied", "replayed", "truncated"},
                   snapshot : TruthStates, ledger : {NoLedger} \cup Ledgers]
  BY <1>1, EmptyIs DEF NoRun, Sound
<1>3. /\ marker'.state = "none" /\ ~Pending'
      /\ marker' \in [state : {"none", "whole", "damaged"}, ledger : {NoLedger} \cup Ledgers]
  BY <1>1 DEF NoMarker, Pending
<1>4. Keeps(truth, decided, snapshots)
  BY <1>1 DEF Inv, RunInOrder, DecisionsCarried, Pending
<1> USE DEF working
<1>5. RunInOrder'
  BY <1>1, <1>2, <1>3 DEF RunInOrder
<1>6. DecisionsCarried'
  BY <1>1, <1>2, <1>3, <1>4 DEF Inv, DecisionsCarried
<1>7. /\ UNCHANGED <<truth, reader, decided, embed, purge, vectors, fences>>
      /\ history' \subseteq history /\ opened' \in BOOLEAN /\ restores' \in Nat
      /\ kept' \in {NoLedger} \cup Ledgers /\ snapshots' = snapshots
  BY <1>1 DEF Inv, TypeOK
<1>. QED  BY <1>1, <1>2, <1>3, <1>5, <1>6, <1>7, RunStep

(* A transaction of the run itself, under the marker.                         *)
LEMMA RunCommits ==
    ASSUME Inv, NEW u, Commit(u), Sound(u), Fenced(u, fences),
           run.pc \in {"closed", "copied"}, run'.pc \in {"copied", "replayed"},
           run' \in [pc : {"idle", "checked", "kept", "closed", "copied", "replayed", "truncated"},
                     snapshot : TruthStates, ledger : {NoLedger} \cup Ledgers],
           UNCHANGED <<marker, kept, snapshots, restores, opened, working>>,
           decided' \in Decisions, decided'.forgotten = decided.forgotten,
           RunInOrder', DecisionsCarried',
           run'.pc = "replayed" => \A op \in u.ops : ~op.history
    PROVE  Inv'
<1>1. /\ truth' = u /\ history' = history \cup (truth.words \ u.words)
      /\ reader' = IF reader.pc = "begun" THEN [reader EXCEPT !.stale = TRUE] ELSE reader
  BY DEF Commit
<1>2. Pending /\ Pending' /\ purge.pc = "idle" /\ purge'.pc = "idle"
  BY DEF Inv, RunInOrder, Pending, Idle, working
<1>3. TypeOK'
  <2>1. truth.words \subseteq Object /\ u \in TruthStates /\ u.words \subseteq Rows(u)
        /\ \A p, q \in u.ops : p.members = q.members => p = q
    BY PartsOf DEF Inv, TypeOK, Parts, Sound, SoundRows, SoundDeletes
  <2>2. reader' \in [pc : {"idle", "open", "begun"}, sees : SUBSET Object,
                     forgotten : SUBSET Object, stale : BOOLEAN]
    BY <1>1 DEF Inv, TypeOK
  <2>3. /\ truth' \in TruthStates /\ truth'.words \subseteq Rows(truth')
        /\ \A p, q \in truth'.ops : p.members = q.members => p = q
        /\ {history', vectors', fences'} \subseteq SUBSET Object
    BY <1>1, <2>1 DEF Inv, TypeOK, working
  <2>4. decided' \in [forgotten : SUBSET Object, muted : SUBSET Object, listed : SUBSET Object,
                      withdrawn : SUBSET (Claim \X Nat)]
    BY DEF Decisions
  <2>5. TypeOK
    BY DEF Inv
  <2>. QED  BY <2>2, <2>3, <2>4, <2>5 DEF TypeOK, working
<1>4. Contents'
  BY <1>1 DEF Inv, Contents, working
<1>5. HistoryHonest'
  BY <1>1, <1>2 DEF HistoryHonest
<1>6. PurgeInOrder'
  BY <1>2 DEF PurgeInOrder
<1>7. ReaderInOrder'
  <2>1. CASE reader.pc = "begun"
    <3>1. reader'.forgotten = reader.forgotten /\ reader'.stale
      BY <1>1, <2>1 DEF Inv, TypeOK
    <3>. QED  BY <1>2, <2>1, <3>1 DEF Inv, ReaderInOrder
  <2>2. CASE reader.pc # "begun"
    BY <1>1, <2>2 DEF ReaderInOrder
  <2>. QED  BY <2>1, <2>2
<1>. QED  BY <1>3, <1>4, <1>5, <1>6, <1>7 DEF Inv

LEMMA CopiesInv == ASSUME Inv, RestoreCopies PROVE Inv'
<1>1. /\ run.pc = "closed" /\ Commit(run.snapshot) /\ run' = [run EXCEPT !.pc = "copied"]
      /\ UNCHANGED <<marker, kept, snapshots, restores, opened, decided, working>>
  BY DEF RestoreCopies
<1>2. /\ run'.pc = "copied" /\ run'.snapshot = run.snapshot /\ run'.ledger = run.ledger
      /\ run' \in [pc : {"idle", "checked", "kept", "closed", "copied", "replayed", "truncated"},
                   snapshot : TruthStates, ledger : {NoLedger} \cup Ledgers]
  BY <1>1 DEF Inv, TypeOK
<1>3. /\ run.snapshot \in snapshots /\ Idle /\ kept = run.ledger /\ marker.state = "whole"
      /\ Tells(run.ledger, decided, snapshots) /\ decided \in Decisions
      /\ Sound(run.snapshot) /\ Fenced(run.snapshot, fences)
  BY <1>1 DEF Inv, RunInOrder, DecisionsCarried, Contents
<1>4. run.snapshot.epoch \in Nat /\ kept.epoch \in Nat /\ run.snapshot.epoch <= kept.epoch
  BY <1>3, PartsOf DEF Tells, SoundLedger, Ledgers, Sound, Parts
<1>5. truth' = run.snapshot /\ Pending /\ Pending'
  BY <1>1, <1>3 DEF Commit, Pending
<1>6. RunInOrder'
  BY <1>1, <1>2, <1>3, <1>5 DEF Inv, RunInOrder, Idle, working
<1>7. DecisionsCarried'
  BY <1>1, <1>2, <1>3, <1>4, <1>5 DEF Inv, DecisionsCarried
<1>. QED  BY <1>1, <1>2, <1>3, <1>6, <1>7, RunCommits

LEMMA ReplaysInv == ASSUME Inv, RestoreReplays PROVE Inv'
<1> DEFINE u == Replayed(truth, run.ledger)
<1>1. /\ run.pc = "copied" /\ Commit(u) /\ run' = [run EXCEPT !.pc = "replayed"]
      /\ decided' = IF run.ledger.format = "legacy" THEN [decided EXCEPT !.muted = decided.listed]
                    ELSE decided
      /\ UNCHANGED <<marker, kept, snapshots, restores, opened, working>>
  BY DEF RestoreReplays
<1>2. /\ run'.pc = "replayed" /\ run'.snapshot = run.snapshot /\ run'.ledger = run.ledger
      /\ run' \in [pc : {"idle", "checked", "kept", "closed", "copied", "replayed", "truncated"},
                   snapshot : TruthStates, ledger : {NoLedger} \cup Ledgers]
  BY <1>1 DEF Inv, TypeOK
<1>3. /\ truth = run.snapshot /\ truth \in snapshots /\ Idle /\ kept = run.ledger
      /\ marker.state = "whole" /\ run.snapshot \in snapshots
      /\ Tells(run.ledger, decided, snapshots) /\ decided \in Decisions
      /\ Sound(truth) /\ \A s \in snapshots : Sound(s)
  BY <1>1 DEF Inv, RunInOrder, DecisionsCarried, Contents
<1>4. SoundLedger(run.ledger) /\ decided.listed \subseteq decided.muted
  BY <1>3 DEF Tells
<1>5. /\ decided'.forgotten = decided.forgotten /\ decided'.listed = decided.listed
      /\ decided'.withdrawn = decided.withdrawn
      /\ decided'.muted = IF run.ledger.format = "legacy" THEN decided.listed ELSE decided.muted
      /\ decided' \in Decisions
  BY <1>1, <1>3 DEF Decisions
<1>6. /\ Sound(u) /\ u.epoch > run.ledger.epoch
      /\ \A op \in u.ops : ~op.vector /\ ~op.history
  BY <1>3, <1>4, ReplayedSound, Zenon
<1>7. Keeps(u, decided', snapshots)
  BY <1>3, <1>5, ReplayedKeeps, Zenon
<1> HIDE DEF u
<1>8. Fenced(u, fences)
  BY <1>6 DEF Fenced
<1>9. truth' = u /\ Pending'
  BY <1>1, <1>3 DEF Commit, Pending
<1>10. Tells(run.ledger, decided', snapshots)
  <2>1. /\ decided'.listed \subseteq decided'.muted
        /\ run.ledger.format = "full" => decided'.muted = decided.muted
    BY <1>4, <1>5
  <2>. QED  BY <1>3, <1>5, <2>1, Zenon DEF Tells
<1>11. RunInOrder'
  BY <1>1, <1>2, <1>3, <1>6, <1>9 DEF Inv, RunInOrder, Idle, working
<1>12. DecisionsCarried'
  BY <1>1, <1>2, <1>3, <1>5, <1>7, <1>9, <1>10 DEF DecisionsCarried
<1>. QED  BY <1>1, <1>2, <1>5, <1>6, <1>8, <1>11, <1>12, RunCommits

-----------------------------------------------------------------------------
LEMMA NextInv == Inv /\ [Next]_vars => Inv'
<1> SUFFICES ASSUME Inv, [Next]_vars PROVE Inv'
  OBVIOUS
<1>1. CASE OwnerNext
  <2>1. CASE OpenWriter \/ WriterRefused
    BY <2>1, AdmissionInv
  <2>2. ASSUME NEW o \in Object, Capture(o) \/ Forget(o) \/ Mute(o) \/ Unmute(o) PROVE Inv'
    BY <2>2, CaptureInv, ForgetInv, MuteInv, UnmuteInv
  <2>3. ASSUME NEW c \in Claim, Revise(c) \/ Retract(c) PROVE Inv'
    BY <2>3, AppendInv
  <2>. QED  BY <1>1, <2>1, <2>2, <2>3 DEF OwnerNext
<1>2. CASE ReaderNext
  BY <1>2, ReaderInv
<1>3. CASE WorkerNext
  <2>1. CASE (\E o \in Object : EmbedReads(o)) \/ EmbedGuarded \/ EmbedPublished
    BY <2>1, EmbedInv
  <2>2. ASSUME NEW op \in truth.ops, PurgeScrubs(op) PROVE Inv'
    BY <2>2, ScrubsInv
  <2>3. CASE PurgeVectors \/ PurgeRefused
    BY <2>3, LayersInv
  <2>4. CASE PurgeTruncates \/ PurgeAcknowledges \/ WorkerCrashes
    BY <2>4, TruncatesInv, AcknowledgesInv, CrashInv
  <2>. QED  BY <1>3, <2>1, <2>2, <2>3, <2>4 DEF WorkerNext
<1>4. CASE RestoreNext
  <2>1. ASSUME NEW s \in snapshots, NEW format \in {"full", "legacy"}, RestoreStarts(s, format) PROVE Inv'
    BY <2>1, StartsInv
  <2>2. CASE Backup \/ RestoreKeepsLedger \/ RestoreCloses
    BY <2>2, BackupInv, KeepsLedgerInv, ClosesInv
  <2>3. CASE RestoreCopies \/ RestoreReplays \/ RestoreTruncates \/ RestoreReopens
    BY <2>3, CopiesInv, ReplaysInv, TruncatesLogInv, ReopensInv
  <2>4. CASE RestoreStops \/ MarkerDamaged
    BY <2>4, StopsInv
  <2>. QED  BY <1>4, <2>1, <2>2, <2>3, <2>4 DEF RestoreNext
<1>5. CASE UNCHANGED vars
  BY <1>5, StutterInv
<1>. QED  BY <1>1, <1>2, <1>3, <1>4, <1>5 DEF Next

(* The inductive invariant: sound contents, the run in order, the decisions   *)
(* in the store or in the kept ledger, and the purge and the reader with what *)
(* they go by.                                                                *)
THEOREM InvHolds == Spec => []Inv
  BY InitInv, NextInv, PTL DEF Spec

(* The store, its companions and every run keep their types.                  *)
THEOREM TypeCorrect == Spec => []TypeOK
<1>1. Inv => TypeOK
  BY DEF Inv
<1>. QED  BY <1>1, InvHolds, PTL

(* No reading transaction that may answer saw what was forgotten before it    *)
(* began (core/storage.py looks for the marker before and after the read).    *)
THEOREM ForgottenNeverAnsweredHolds == Spec => []ForgottenNeverAnswered
<1>1. Inv => ForgottenNeverAnswered
  BY DEF Inv, ReaderInOrder, ForgottenNeverAnswered
<1>. QED  BY <1>1, InvHolds, PTL

(* An open store holds to every delete and every mute, however many snapshots *)
(* were put back and wherever the runs stopped (maintenance/restore.py).      *)
THEOREM DecisionsKeptHolds == Spec => []DecisionsKept
<1>1. Inv => DecisionsKept
  BY VisibleKept DEF Inv, Contents, DecisionsCarried, DecisionsKept
<1>. QED  BY <1>1, InvHolds, PTL

(* A receipt that says the SQLite history was removed is honest, about the    *)
(* rows and about the write-ahead log.                                        *)
THEOREM HistoryHonestHolds == Spec => []HistoryHonest
<1>1. Inv => HistoryHonest
  BY DEF Inv
<1>. QED  BY <1>1, InvHolds, PTL

(* An acknowledged vector layer leaves no vector of a row the file holds.     *)
THEOREM VectorsHonestHolds == Spec => []VectorsHonest
<1>1. Inv => VectorsHonest
  BY DEF Inv, Contents, Fenced, VectorsHonest
<1>. QED  BY <1>1, InvHolds, PTL

(* A retraction outlives the restore of any snapshot from before it.          *)
THEOREM WithdrawalsKeptHolds == Spec => []WithdrawalsKept
<1>1. Inv => WithdrawalsKept
  <2> SUFFICES ASSUME Inv, ~Pending, NEW w \in decided.withdrawn, w[1] \in Visible(truth),
                      \A s \in snapshots : s.head[w[1]].rev < w[2]
               PROVE  truth.head[w[1]].withdrawn
    BY DEF WithdrawalsKept
  <2>1. LaterThanAll(w, snapshots) /\ Keeps(truth, decided, snapshots)
    BY DEF Inv, DecisionsCarried, LaterThanAll
  <2>2. truth.head[w[1]] = [rev |-> w[2], withdrawn |-> TRUE]
    BY <2>1 DEF Keeps, Visible
  <2>. QED  BY <2>2
<1>. QED  BY <1>1, InvHolds, PTL

(* A store reopens on an epoch beyond the one it was closed at and beyond     *)
(* every snapshot's, and without a forgotten word in its older page images.   *)
THEOREM ReopensAfreshHolds == Spec => ReopensAfresh
<1> DEFINE Afresh == Pending /\ ~Pending' => /\ history' \cap decided.forgotten = {}
                                             /\ truth'.epoch > marker.ledger.epoch
                                             /\ \A s \in snapshots : truth'.epoch > s.epoch
<1>1. Inv /\ [Next]_vars => [Afresh]_vars
  <2> SUFFICES ASSUME Inv, Next, Pending, ~Pending' PROVE Afresh
    BY DEF vars, Pending
  <2>1. marker' # marker
    BY DEF Pending
  <2>2. RestoreReopens
    <3>1. ~OwnerNext
      BY <2>1 DEF OwnerNext, OpenWriter, WriterRefused, Capture, Forget, Mute, Unmute, Revise,
                  Retract, OwnerWrites, restoring
    <3>2. ~ReaderNext
      BY <2>1 DEF ReaderNext, ReaderOpens, ReaderBegins, ReaderEnds, restoring
    <3>3. ~WorkerNext
      BY <2>1 DEF WorkerNext, EmbedReads, EmbedGuarded, EmbedPublished, PurgeScrubs, PurgeVectors,
                  PurgeRefused, PurgeTruncates, PurgeAcknowledges, WorkerCrashes, restoring
    <3>4. RestoreNext
      BY <3>1, <3>2, <3>3 DEF Next
    <3>5. ~RestoreCloses /\ ~MarkerDamaged
      BY DEF RestoreCloses, MarkerDamaged, Pending
    <3>6. ~Backup /\ ~RestoreKeepsLedger /\ ~RestoreCopies /\ ~RestoreReplays /\ ~RestoreTruncates
          /\ ~RestoreStops /\ ~\E s \in snapshots, format \in {"full", "legacy"} : RestoreStarts(s, format)
      BY <2>1 DEF Backup, RestoreKeepsLedger, RestoreCopies, RestoreReplays, RestoreTruncates,
                  RestoreStops, RestoreStarts, restoring
    <3>. QED  BY <3>4, <3>5, <3>6 DEF RestoreNext
  <2>3. /\ run.pc = "truncated" /\ truth' = truth /\ history' = history
        /\ history = {} /\ marker.ledger = kept /\ truth.epoch > kept.epoch
        /\ Tells(kept, decided, snapshots) /\ Sound(truth) /\ \A s \in snapshots : Sound(s)
    BY <2>2 DEF RestoreReopens, Inv, RunInOrder, DecisionsCarried, Contents
  <2>4. kept.epoch \in Nat /\ truth.epoch \in Nat /\ \A s \in snapshots : s.epoch \in Nat /\ s.epoch <= kept.epoch
    BY <2>3, PartsOf DEF Tells, SoundLedger, Ledgers, Sound, Parts
  <2>. QED  BY <2>3, <2>4
<1>2. ReopensAfresh <=> [][Afresh]_vars
  BY DEF ReopensAfresh
<1> HIDE DEF Afresh
<1>. QED  BY <1>1, <1>2, InvHolds, PTL DEF Spec
=============================================================================
