----------------------------- MODULE TruthStore -----------------------------
(* The content of one memory.sqlite3 as far as forgetting is concerned, as a  *)
(* value: a backup snapshot is such a value, and so is the store itself.  The *)
(* operators are what one transaction of the code makes of it: a capture, a   *)
(* claim's new revision, the owner's delete, mute and unmute                  *)
(* (core/delete_storage.py, core/suppression.py), the export of the deletion  *)
(* ledger and its replay over an older content (core/restore.py).             *)
(*                                                                            *)
(* An object is a source or a claim derived from one source.  Scopes,         *)
(* projects, segments and lexical rows are left out: every object is in the   *)
(* one scope.  Words are only told apart by the object they belong to.        *)
EXTENDS Naturals, FiniteSets, FiniteSetsExt

CONSTANTS
    Source,      \* captured messages
    Claim,       \* facts derived from them
    Of           \* the source each claim is derived from

ASSUME ObjectAssumption == /\ Source \cap Claim = {}
                           /\ Of \in [Claim -> Source]

Object == Source \cup Claim
Heads == [rev : Nat, withdrawn : BOOLEAN]

(* What one delete operation has recorded of its physical layers.  An entry   *)
(* stays queued until `purge_finished`.                                       *)
Operations == [members : SUBSET Object, epoch : Nat, scrubbed : BOOLEAN, vector : BOOLEAN,
               history : BOOLEAN, queued : BOOLEAN]

(* A suppress operation: its request key is made of its target and of the     *)
(* generation of releases it was asked in.                                    *)
Mutes == [target : Object, generation : Nat, members : SUBSET Object]

TruthStates ==
    [epoch : Nat,                      \* instance_meta.memory_epoch
     head : [Object -> Heads],         \* rev = 0: the file holds no such row
     words : SUBSET Object,            \* rows still holding their words
     blocked : SUBSET Object,          \* object_blocks with read_blocked
     muted : SUBSET Object,            \* suppressed, deleted and kept suppressions
     absent : SUBSET Object,           \* restored_absence_blocks
     ops : SUBSET Operations,          \* deletion_operations, mode delete
     mutes : SUBSET Mutes,             \* deletion_operations, mode suppress
     generation : Nat]                 \* newest unmute or restore in management_actions

EmptyStore ==
    [epoch |-> 0, head |-> [o \in Object |-> [rev |-> 0, withdrawn |-> FALSE]],
     words |-> {}, blocked |-> {}, muted |-> {}, absent |-> {},
     ops |-> {}, mutes |-> {}, generation |-> 0]

Rows(t) == {o \in Object : t.head[o].rev > 0}

(* What `visibility.deletion_allows` admits for an explicit read.             *)
Visible(t) == Rows(t) \ (t.blocked \cup t.absent)

Root(o) == IF o \in Claim THEN Of[o] ELSE o

(* `Deletions.closure`: the source, and what the file holds that was derived  *)
(* from it.                                                                   *)
Closure(t, o) == {p \in Rows(t) : Root(p) = Root(o)}

Bumped(t) == [t EXCEPT !.epoch = @ + 1]

-----------------------------------------------------------------------------
(* A source is captured, or a claim's first revision is derived from a        *)
(* visible source; a claim of a suppressed source is suppressed.              *)
MayCapture(t, o) ==
    /\ o \notin Rows(t) \cup t.blocked \cup t.absent
    /\ o \in Claim => Of[o] \in Visible(t)

Captured(t, o) ==
    [Bumped(t) EXCEPT
        !.head[o].rev = 1,
        !.words = @ \cup {o},
        !.muted = IF Root(o) \in t.muted THEN @ \cup {o} ELSE @]

(* `ClaimStorage.append`: the next revision, a correction or a retraction.    *)
Appended(t, c, withdrawn) ==
    [Bumped(t) EXCEPT !.head[c] = [rev |-> @.rev + 1, withdrawn |-> withdrawn]]

(* `Deletions.block` with mode delete.                                        *)
Deleted(t, o) ==
    LET members == Closure(t, o)
    IN [Bumped(t) EXCEPT
            !.blocked = @ \cup members,
            !.muted = @ \cup members,
            !.ops = @ \cup {[members |-> members, epoch |-> t.epoch + 1, scrubbed |-> FALSE,
                             vector |-> FALSE, history |-> FALSE, queued |-> TRUE]}]

(* `Deletions.block` with mode suppress: a request key already recorded is    *)
(* answered from its receipt and changes nothing.                             *)
Muted(t, o) ==
    IF \E m \in t.mutes : m.target = o /\ m.generation = t.generation
    THEN t
    ELSE LET members == Closure(t, o)
         IN [Bumped(t) EXCEPT
                !.muted = @ \cup members,
                !.mutes = @ \cup {[target |-> o, generation |-> t.generation, members |-> members]}]

(* `suppression.release` and the audit row `MemoryManagement.apply` writes.   *)
MayUnmute(t, o) == Closure(t, o) \cap (t.blocked \cup t.absent) = {}

Unmuted(t, o) ==
    [Bumped(t) EXCEPT !.muted = @ \ Closure(t, o), !.generation = t.epoch + 1]

-----------------------------------------------------------------------------
Ledgers ==
    [format : {"full", "legacy"},
     epoch : Nat,
     ops : SUBSET Operations,
     mutes : SUBSET Mutes,
     withdrawals : SUBSET (Claim \X Nat),
     absent : SUBSET Object,
     muted : SUBSET Object]

(* `_ledger_in_transaction`.  The legacy format, exported for a snapshot from *)
(* before mutes could be released, does not enumerate suppressed objects.     *)
LedgerOf(t, format) ==
    [format |-> format,
     epoch |-> t.epoch,
     ops |-> t.ops,
     mutes |-> {[m EXCEPT !.members = @ \cap t.muted] : m \in t.mutes},
     withdrawals |-> {<<c, t.head[c].rev>> :
                         c \in {d \in Claim \cap Rows(t) : t.head[d].withdrawn /\ d \notin t.blocked}},
     absent |-> t.absent,
     muted |-> IF format = "full" THEN t.muted \ t.blocked ELSE {}]

(* `_replay_operation` of the deletes: members are blocked whether the file   *)
(* holds them or not, their rows are scrubbed, and the physical layers start  *)
(* again from pending under a purge that is queued again.                     *)
RequeuedAsRecorded(op) == [op EXCEPT !.scrubbed = TRUE, !.queued = TRUE]

RequeuedOperation(op) ==
    [op EXCEPT !.scrubbed = TRUE, !.vector = FALSE, !.history = FALSE, !.queued = TRUE]

OperationsReplayed(t, ledger) ==
    LET members == UNION {op.members : op \in ledger.ops}
    IN [t EXCEPT
            !.blocked = @ \cup members,
            !.muted = @ \cup members,
            !.words = @ \ members,
            !.ops = {op \in @ : \A other \in ledger.ops : other.members # op.members}
                        \cup {RequeuedOperation(op) : op \in ledger.ops}]

(* `reset_snapshot_suppression`, then the suppress operations' members.       *)
MutesReplayed(t, ledger) ==
    LET reset == IF ledger.format = "full"
                 THEN (t.muted \cap t.blocked) \cup ledger.muted
                 ELSE t.muted
    IN [t EXCEPT
            !.muted = reset \cup UNION {m.members : m \in ledger.mutes},
            !.mutes = @ \cup {m \in ledger.mutes :
                                \A own \in @ : own.target # m.target \/ own.generation # m.generation}]

WithdrawalsFenced(t, ledger) ==
    [t EXCEPT !.absent = @ \cup ledger.absent \cup
        {w[1] : w \in {v \in ledger.withdrawals : v[1] \notin Rows(t) \ t.blocked}}]

(* `_replay_withdrawal`: the later revision where the file holds an earlier   *)
(* one, else, where it holds none that may be read, a block on the absent     *)
(* claim; `_replay_absence`.                                                  *)
WithdrawalsReplayed(t, ledger) ==
    LET held == Rows(t) \ t.blocked
    IN [t EXCEPT
            !.head = [o \in Object |->
                        IF \E w \in ledger.withdrawals :
                              /\ w[1] = o
                              /\ o \in held
                              /\ t.head[o].rev < w[2]
                        THEN [rev |-> (CHOOSE w \in ledger.withdrawals : w[1] = o)[2], withdrawn |-> TRUE]
                        ELSE @[o]],
            !.absent = @ \cup ledger.absent \cup {w[1] : w \in {v \in ledger.withdrawals : v[1] \notin held}}]

EpochOfTheSnapshot(t, ledger) ==
    [t EXCEPT !.epoch = @ + 1, !.generation = Max({@, ledger.epoch + 1})]

(* The floor of the epoch, and the row in management_actions that keeps an    *)
(* older request key from answering the next mute.                            *)
EpochsReplayed(t, ledger) ==
    [t EXCEPT !.epoch = Max({@, ledger.epoch}) + 1,
              !.generation = Max({@, ledger.epoch + 1})]

(* `replay_deletion_ledger`, the one transaction.                             *)
Replayed(t, ledger) ==
    EpochsReplayed(WithdrawalsReplayed(OperationsReplayed(MutesReplayed(t, ledger), ledger), ledger), ledger)
=============================================================================
