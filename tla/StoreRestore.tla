---------------------------- MODULE StoreRestore ----------------------------
(* One store, what its owner decides, a worker that embeds and purges, a      *)
(* reader, and the operator's `restore`: going back to a backup snapshot      *)
(* while keeping every decision made since (maintenance/restore.py,           *)
(* core/restore.py).  Each writing transaction is one step, as the writer     *)
(* lease makes it; a restore run holds the lease and the worker's lock for    *)
(* all of its steps (`exclusive_store`) and may stop between any two.         *)
(*                                                                            *)
(* Beside memory.sqlite3 stand its older page images (the write-ahead log),   *)
(* the restore marker, the kept ledger and the vector companion, none of      *)
(* which a snapshot holds.                                                    *)
EXTENDS TruthStore

CONSTANTS
    MaxEpoch,       \* bound: owner decisions end here
    MaxSnapshots,   \* bound: snapshots the operator keeps
    MaxRestores,    \* bound: runs that may start
    Acts            \* what this instance considers, of Considered

Considered == {"forget", "mute", "revise", "retract", "embed", "legacy", "damage"}

ASSUME BoundsAssumption == /\ {MaxEpoch, MaxSnapshots, MaxRestores} \subseteq Nat
                           /\ Acts \subseteq Considered

VARIABLES
    truth,      \* memory.sqlite3, as the next transaction reads it
    history,    \* objects whose words older page images still hold
    vectors,    \* objects with a vector in the companion
    fences,     \* its purge_fences
    marker,     \* restore-required.json: "none", "whole", "damaged"; the ledger it names
    kept,       \* restore-ledger.json
    snapshots,  \* what `scope-recall backup` left
    run,        \* the restore command: its step, snapshot and ledger
    restores,   \* runs started
    opened,     \* a host passed the marker check of `_open` and waits for the lease
    reader,     \* a reading transaction
    embed,      \* the worker's embedding
    purge,      \* the worker's purge pass
    decided     \* the owner's decisions: what is forgotten, muted (and listed by an
                \* operation that mutes it), withdrawn

vars == <<truth, history, vectors, fences, marker, kept, snapshots, run, restores,
          opened, reader, embed, purge, decided>>
restoring == <<marker, kept, run, restores>>
working == <<embed, purge, vectors, fences>>

NoLedger == [format |-> "none"]
NoMarker == [state |-> "none", ledger |-> NoLedger]
NoRun == [pc |-> "idle", snapshot |-> EmptyStore, ledger |-> NoLedger]
NoReader == [pc |-> "idle", sees |-> {}, forgotten |-> {}, stale |-> FALSE]
NoEmbed == [pc |-> "idle", subject |-> {}]
NoPurge == [pc |-> "idle", op |-> {}, members |-> {}, truncated |-> FALSE]

Init ==
    /\ truth = EmptyStore /\ history = {}
    /\ vectors = {} /\ fences = {}
    /\ marker = NoMarker /\ kept = NoLedger
    /\ snapshots = {}
    /\ run = NoRun /\ restores = 0
    /\ opened = FALSE
    /\ reader = NoReader
    /\ embed = NoEmbed /\ purge = NoPurge
    /\ decided = [forgotten |-> {}, muted |-> {}, listed |-> {}, withdrawn |-> {}]

Pending == marker.state # "none"

(* A commit leaves the pages it replaces in the log, and a reading            *)
(* transaction that began before it on an older snapshot.                     *)
Commit(t) ==
    /\ truth' = t
    /\ history' = history \cup (truth.words \ t.words)
    /\ reader' = IF reader.pc = "begun" THEN [reader EXCEPT !.stale = TRUE] ELSE reader

-----------------------------------------------------------------------------
(* `SQLiteStorage._open` looks for the marker before it waits for the lease,  *)
(* and `_transaction` looks again once it has it.                             *)
OpenWriter ==
    /\ ~opened /\ ~Pending
    /\ opened' = TRUE
    /\ UNCHANGED <<truth, history, snapshots, reader, decided, restoring, working>>

NoRecheck == TRUE
Recheck == ~Pending

(* An ordinary writing transaction: the lease is free and nothing is pending. *)
OwnerWrites(t) ==
    /\ opened /\ run.pc = "idle"
    /\ Recheck
    /\ Commit(t)
    /\ opened' = FALSE
    /\ UNCHANGED <<snapshots, restoring, working>>

WriterRefused ==
    /\ opened /\ run.pc = "idle" /\ ~Recheck
    /\ opened' = FALSE
    /\ UNCHANGED <<truth, history, snapshots, reader, decided, restoring, working>>

InBounds == truth.epoch < MaxEpoch

Capture(o) ==
    /\ InBounds /\ MayCapture(truth, o)
    /\ OwnerWrites(Captured(truth, o))
    /\ decided' = [decided EXCEPT
                    !.muted = IF Root(o) \in @ THEN @ \cup {o} ELSE @ \ {o},
                    !.listed = IF Root(o) \in decided.muted THEN @ ELSE @ \ {o},
                    !.withdrawn = {w \in @ : w[1] # o}]

Revise(c) ==
    /\ "revise" \in Acts /\ InBounds /\ c \in Visible(truth)
    /\ OwnerWrites(Appended(truth, c, FALSE))
    /\ decided' = [decided EXCEPT !.withdrawn = {w \in @ : w[1] # c}]

Retract(c) ==
    /\ "retract" \in Acts /\ InBounds /\ c \in Visible(truth) /\ ~truth.head[c].withdrawn
    /\ OwnerWrites(Appended(truth, c, TRUE))
    /\ decided' = [decided EXCEPT !.withdrawn = {w \in @ : w[1] # c} \cup {<<c, truth.head[c].rev + 1>>}]

Forget(o) ==
    /\ "forget" \in Acts /\ InBounds /\ o \in Visible(truth)
    /\ OwnerWrites(Deleted(truth, o))
    /\ decided' = [decided EXCEPT !.forgotten = @ \cup Closure(truth, o)]

Mute(o) ==
    /\ "mute" \in Acts /\ InBounds /\ o \in Visible(truth)
    /\ OwnerWrites(Muted(truth, o))
    /\ decided' = [decided EXCEPT
                    !.muted = @ \cup Closure(truth, o),
                    !.listed = IF Muted(truth, o) = truth THEN @ ELSE @ \cup Closure(truth, o)]

Unmute(o) ==
    /\ InBounds /\ o \in Visible(truth) /\ MayUnmute(truth, o)
    /\ OwnerWrites(Unmuted(truth, o))
    /\ decided' = [decided EXCEPT !.muted = @ \ Closure(truth, o), !.listed = @ \ Closure(truth, o)]

-----------------------------------------------------------------------------
(* A reader takes no lease: it looks for the marker, begins and reads, which  *)
(* fixes its snapshot, and looks for the marker again before it answers.      *)
ReaderOpens ==
    /\ reader.pc = "idle" /\ ~Pending
    /\ reader' = [NoReader EXCEPT !.pc = "open"]
    /\ UNCHANGED <<truth, history, snapshots, opened, decided, restoring, working>>

ReaderBegins ==
    /\ reader.pc = "open"
    /\ reader' = [pc |-> "begun", sees |-> Visible(truth), forgotten |-> decided.forgotten,
                  stale |-> FALSE]
    /\ UNCHANGED <<truth, history, snapshots, opened, decided, restoring, working>>

ReaderEnds ==
    /\ reader.pc = "begun"
    /\ reader' = NoReader
    /\ UNCHANGED <<truth, history, snapshots, opened, decided, restoring, working>>

-----------------------------------------------------------------------------
(* The worker.  A restore run holds its lock, so a pass and a run exclude     *)
(* each other; within a pass an embedding and a purge may interleave.         *)
WorkerMay == run.pc = "idle" /\ ~Pending
Idle == embed.pc = "idle" /\ purge.pc = "idle"

EmbedReads(o) ==
    /\ "embed" \in Acts /\ WorkerMay /\ embed.pc = "idle"
    /\ o \in Visible(truth) \ vectors
    /\ embed' = [pc |-> "prepared", subject |-> {o}]
    /\ UNCHANGED <<truth, history, vectors, fences, purge, snapshots, opened, reader, decided, restoring>>

(* `_EmbedFence`, asked under the vector store's lock (`fenced_upsert_records`). *)
EmbedGuarded ==
    /\ embed.pc = "prepared"
    /\ embed' = IF embed.subject \subseteq Visible(truth) THEN [embed EXCEPT !.pc = "guarded"] ELSE NoEmbed
    /\ UNCHANGED <<truth, history, vectors, fences, purge, snapshots, opened, reader, decided, restoring>>

(* `_write_rows` skips a fenced identity; the commit ends the lock.           *)
EmbedPublished ==
    /\ embed.pc = "guarded"
    /\ vectors' = vectors \cup (embed.subject \ fences)
    /\ embed' = NoEmbed
    /\ UNCHANGED <<truth, history, fences, purge, snapshots, opened, reader, decided, restoring>>

(* `_purge_layers`, first transaction: the physical members are the rows the  *)
(* file holds of the operation's members, and the SQLite rows are scrubbed.   *)
PurgeScrubs(op) ==
    /\ WorkerMay /\ purge.pc = "idle" /\ op.queued
    /\ Commit([truth EXCEPT !.words = @ \ op.members,
                            !.ops = (@ \ {op}) \cup {[op EXCEPT !.scrubbed = TRUE]}])
    /\ purge' = [pc |-> "scrubbed", op |-> op.members,
                 members |-> op.members \cap Rows(truth), truncated |-> FALSE]
    /\ UNCHANGED <<vectors, fences, embed, snapshots, opened, decided, restoring>>

Purged(members) == CHOOSE op \in truth.ops : op.members = members

(* `purge_governed_members` under the vector store's lock, unless the layer   *)
(* is acknowledged already; without members it acknowledges nothing and the   *)
(* work is retried.                                                           *)
PurgeVectors ==
    /\ purge.pc = "scrubbed"
    /\ \/ /\ Purged(purge.op).vector
          /\ purge' = [purge EXCEPT !.pc = "vectors"]
          /\ UNCHANGED <<vectors, fences>>
       \/ /\ ~Purged(purge.op).vector
          /\ purge.members # {} /\ embed.pc # "guarded"
          /\ vectors' = vectors \ purge.members
          /\ fences' = fences \cup purge.members
          /\ purge' = [purge EXCEPT !.pc = "vectors"]
    /\ UNCHANGED <<truth, history, embed, snapshots, opened, reader, decided, restoring>>

RefusalTaken ==
    /\ purge.pc = "scrubbed"
    /\ ~Purged(purge.op).vector
    /\ purge' = [purge EXCEPT !.pc = "vectors"]
    /\ UNCHANGED <<truth, history, vectors, fences, embed, snapshots, opened, reader, decided, restoring>>

(* The port is missing, refuses, or has no members to acknowledge: retried.   *)
PurgeRefused ==
    /\ purge.pc = "scrubbed"
    /\ ~Purged(purge.op).vector
    /\ purge' = NoPurge
    /\ UNCHANGED <<truth, history, vectors, fences, embed, snapshots, opened, reader, decided, restoring>>

(* `truncate_wal`: a reader on an older snapshot holds it back.               *)
TruncatesAnyway == TRUE
Truncates == ~reader.stale

PurgeTruncates ==
    /\ purge.pc = "vectors"
    /\ history' = IF ~reader.stale THEN {} ELSE history
    /\ purge' = [purge EXCEPT !.pc = "truncated", !.truncated = Truncates]
    /\ UNCHANGED <<truth, vectors, fences, embed, snapshots, opened, reader, decided, restoring>>

(* The final transaction: done when the history went too, else queued.        *)
PurgeAcknowledges ==
    /\ purge.pc = "truncated"
    /\ LET op == Purged(purge.op)
           gone == op.history \/ purge.truncated
       IN Commit([truth EXCEPT !.ops = (@ \ {op}) \cup
                    {[op EXCEPT !.vector = TRUE, !.history = gone, !.queued = ~gone]}])
    /\ purge' = NoPurge
    /\ UNCHANGED <<vectors, fences, embed, snapshots, opened, decided, restoring>>

WorkerCrashes ==
    /\ ~Idle
    /\ embed' = NoEmbed /\ purge' = NoPurge
    /\ UNCHANGED <<truth, history, vectors, fences, snapshots, opened, reader, decided, restoring>>
-----------------------------------------------------------------------------
(* `scope-recall backup`.                                                     *)
Backup ==
    /\ ~Pending /\ run.pc = "idle"
    /\ Cardinality(snapshots) < MaxSnapshots
    /\ snapshots' = snapshots \cup {truth}
    /\ UNCHANGED <<truth, history, opened, reader, decided, restoring, working>>

(* `_closable`: whether admission may be closed on the store's own ledger.    *)
Closable(ledger) ==
    CASE marker.state = "none" -> TRUE
      [] marker.state = "damaged" -> kept = NoLedger \/ kept = ledger \/ kept.epoch < ledger.epoch
      [] marker.state = "whole" -> marker.ledger = ledger

(* `apply_restore` up to its checks: with nothing pending the ledger is the   *)
(* store's; else the kept one the marker names, or the store's when it may be *)
(* closed on it (`pending_restore_ledger`).                                   *)
RestoreStarts(snapshot, format) ==
    /\ run.pc = "idle" /\ Idle
    /\ restores < MaxRestores
    /\ format = "legacy" => "legacy" \in Acts
    /\ LET whole == marker.state = "whole" /\ kept = marker.ledger
           ledger == IF whole THEN kept ELSE LedgerOf(truth, IF Pending THEN "full" ELSE format)
       IN /\ whole \/ Closable(ledger)
          /\ run' = [pc |-> IF whole THEN "closed" ELSE "checked",
                     snapshot |-> snapshot, ledger |-> ledger]
    /\ restores' = restores + 1
    /\ UNCHANGED <<truth, history, marker, kept, snapshots, opened, reader, decided, working>>

(* `_backed_up`, then `begin_restore`: the ledger is written first and whole. *)
RestoreKeepsLedger ==
    /\ run.pc = "checked"
    /\ \/ snapshots' = snapshots \cup {truth} /\ Cardinality(snapshots') <= MaxSnapshots
       \/ UNCHANGED snapshots
    /\ kept' = run.ledger
    /\ run' = [run EXCEPT !.pc = "kept"]
    /\ UNCHANGED <<truth, history, marker, restores, opened, reader, decided, working>>

(* The marker after it; a snapshot of an older schema is left there for the   *)
(* release that reads it (`prepared`), with the legacy ledger.                *)
RestoreCloses ==
    /\ run.pc = "kept"
    /\ marker' = [state |-> "whole", ledger |-> run.ledger]
    /\ run' = IF run.ledger.format = "legacy" THEN NoRun ELSE [run EXCEPT !.pc = "closed"]
    /\ UNCHANGED <<truth, history, kept, snapshots, restores, opened, reader, decided, working>>

(* One transaction of the store's own copies the snapshot over it.            *)
RestoreCopies ==
    /\ run.pc = "closed"
    /\ Commit(run.snapshot)
    /\ run' = [run EXCEPT !.pc = "copied"]
    /\ UNCHANGED <<marker, kept, snapshots, restores, opened, decided, working>>

(* The ledger is replayed in another.  A legacy ledger lists what a mute      *)
(* operation covered, and gives up what became muted by being derived from it.*)
RestoreReplays ==
    /\ run.pc = "copied"
    /\ Commit(Replayed(truth, run.ledger))
    /\ run' = [run EXCEPT !.pc = "replayed"]
    /\ decided' = IF run.ledger.format = "legacy" THEN [decided EXCEPT !.muted = decided.listed]
                  ELSE decided
    /\ UNCHANGED <<marker, kept, snapshots, restores, opened, working>>

(* The log is truncated before admission reopens; held back by a reader, the  *)
(* run ends and the store stays closed (`wal_busy`).                          *)
RestoreTruncates ==
    /\ run.pc = "replayed"
    /\ IF Truncates
       THEN /\ history' = IF reader.stale THEN history ELSE {}
            /\ run' = [run EXCEPT !.pc = "truncated"]
       ELSE /\ run' = NoRun
            /\ UNCHANGED history
    /\ UNCHANGED <<truth, marker, kept, snapshots, restores, opened, reader, decided, working>>

RestoreReopens ==
    /\ run.pc = "truncated"
    /\ marker' = NoMarker
    /\ run' = NoRun
    /\ UNCHANGED <<truth, history, kept, snapshots, restores, opened, reader, decided, working>>

RestoreStops ==
    /\ run.pc # "idle"
    /\ run' = NoRun
    /\ UNCHANGED <<truth, history, marker, kept, snapshots, restores, opened, reader, decided, working>>

(* A marker left cut short, as an earlier release or a failing disk leaves it. *)
MarkerDamaged ==
    /\ "damage" \in Acts /\ run.pc = "idle" /\ marker.state = "whole"
    /\ marker' = [state |-> "damaged", ledger |-> NoLedger]
    /\ UNCHANGED <<truth, history, kept, snapshots, run, restores, opened, reader, decided, working>>
-----------------------------------------------------------------------------
OwnerNext ==
    \/ OpenWriter \/ WriterRefused
    \/ \E o \in Object : Capture(o) \/ Forget(o) \/ Mute(o) \/ Unmute(o)
    \/ \E c \in Claim : Revise(c) \/ Retract(c)

ReaderNext == ReaderOpens \/ ReaderBegins \/ ReaderEnds

WorkerNext ==
    \/ \E o \in Object : EmbedReads(o)
    \/ EmbedGuarded \/ EmbedPublished
    \/ \E op \in truth.ops : PurgeScrubs(op)
    \/ PurgeVectors \/ PurgeRefused \/ PurgeTruncates \/ PurgeAcknowledges
    \/ WorkerCrashes

RestoreNext ==
    \/ Backup
    \/ \E s \in snapshots, format \in {"full", "legacy"} : RestoreStarts(s, format)
    \/ RestoreKeepsLedger \/ RestoreCloses \/ RestoreCopies \/ RestoreReplays
    \/ RestoreTruncates \/ RestoreReopens \/ RestoreStops \/ MarkerDamaged

Next == OwnerNext \/ ReaderNext \/ WorkerNext \/ RestoreNext

Spec == Init /\ [][Next]_vars
-----------------------------------------------------------------------------
(* The store, its companions and every run have their types; rows keep words  *)
(* only while they exist, and no two delete operations share their members.   *)
TypeOK ==
    /\ truth \in TruthStates /\ truth.words \subseteq Rows(truth)
    /\ \A op, other \in truth.ops : op.members = other.members => op = other
    /\ {history, vectors, fences} \subseteq SUBSET Object
    /\ marker \in [state : {"none", "whole", "damaged"}, ledger : {NoLedger} \cup Ledgers]
    /\ kept \in {NoLedger} \cup Ledgers
    /\ snapshots \subseteq TruthStates /\ restores \in Nat /\ opened \in BOOLEAN
    /\ run \in [pc : {"idle", "checked", "kept", "closed", "copied", "replayed", "truncated"},
                snapshot : TruthStates, ledger : {NoLedger} \cup Ledgers]
    /\ reader \in [pc : {"idle", "open", "begun"}, sees : SUBSET Object,
                   forgotten : SUBSET Object, stale : BOOLEAN]
    /\ embed \in [pc : {"idle", "prepared", "guarded"}, subject : SUBSET Object]
    /\ purge \in [pc : {"idle", "scrubbed", "vectors", "truncated"}, op : SUBSET Object,
                  members : SUBSET Object, truncated : BOOLEAN]
    /\ decided \in [forgotten : SUBSET Object, muted : SUBSET Object, listed : SUBSET Object,
                    withdrawn : SUBSET (Claim \X Nat)]

(* Whatever a reading transaction that may answer has seen, nothing of it was *)
(* forgotten before it began: not from a snapshot copied back and not yet     *)
(* replayed, however the reader's two looks at the marker fall around a run.  *)
ForgottenNeverAnswered ==
    reader.pc = "begun" /\ ~Pending => reader.sees \cap reader.forgotten = {}

(* While the store admits ordinary transactions everything the owner forgot   *)
(* is blocked and everything muted is muted, whatever snapshots were put back *)
(* in between and wherever the runs stopped.                                  *)
DecisionsKept ==
    ~Pending /\ run.pc \notin {"copied", "replayed"}
        => /\ decided.forgotten \cap Visible(truth) = {}
           /\ (decided.muted \cap Rows(truth)) \subseteq truth.muted

(* Receipts are honest about the files: while the store is open, and once a   *)
(* snapshot was replayed, words whose SQLite history is said to be removed    *)
(* are in no row and in no older page image, whatever snapshots were copied   *)
(* and abandoned in between.                                                  *)
HistoryHonest ==
    (Pending => run.pc \in {"replayed", "truncated"}) =>
        \A op \in truth.ops : op.history => op.members \cap (truth.words \cup history) = {}

(* An acknowledged vector layer leaves no vector of a row the file holds, and *)
(* no publication that was under way brings one back.                         *)
VectorsHonest ==
    \A op \in truth.ops : op.vector => op.members \cap Rows(truth) \cap vectors = {}

(* A replayed store's epoch is beyond the one it was closed at and beyond     *)
(* every snapshot's, so what was cached under one is never taken for the      *)
(* other's; and its older page images hold no word that was forgotten.        *)
ReopensAfresh ==
    [][Pending /\ ~Pending' => /\ history' \cap decided.forgotten = {}
                               /\ truth'.epoch > marker.ledger.epoch
                               /\ \A s \in snapshots : truth'.epoch > s.epoch]_vars

(* A retraction outlives every restore of a snapshot that holds an earlier    *)
(* revision of the claim.                                                     *)
WithdrawalsKept ==
    ~Pending /\ run.pc \notin {"copied", "replayed"}
        => \A w \in decided.withdrawn :
              w[1] \in Visible(truth) /\ (\A s \in snapshots : s.head[w[1]].rev < w[2])
                  => truth.head[w[1]].withdrawn

(* What docs/deletion-contract.md says of withdrawals: a replay reinstates    *)
(* them before the store reopens.                                             *)
WithdrawalsReinstated ==
    ~Pending /\ run.pc \notin {"copied", "replayed"}
        => \A w \in decided.withdrawn : w[1] \in Visible(truth) => truth.head[w[1]].withdrawn

(* What the restore command says of the replayed deletes: once their purge is *)
(* acknowledged the vectors are gone.                                         *)
AcknowledgedLeavesNoVector ==
    \A op \in truth.ops : op.vector => op.members \cap vectors = {}
=============================================================================
