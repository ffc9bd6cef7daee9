--------------------------- MODULE DeletionMirror ---------------------------
(* The deletion mirror: a journal beside the backups, on a disk of its own,   *)
(* that holds every deletion's intent so that a recovery from an older bundle *)
(* does not bring the deleted words back (core/deletion_mirror.py, its        *)
(* checkpoint, runtime/backup_upkeep.py, maintenance/disaster_restore.py).    *)
(*                                                                            *)
(* A deletion is committed in memory.sqlite3 first and mirrored after, by the *)
(* process that made it, by the worker's upkeep or before a bundle is made;   *)
(* one journal lock orders the passes, and any of them may die or be refused  *)
(* at any step.  The store may be lost at any time; a recovery goes to a      *)
(* fresh directory, whether the store is lost or not (a rehearsal).           *)
EXTENDS TruthStore

CONSTANTS
    MaxEpoch,     \* bound: owner decisions end here
    MaxBundles,   \* bound: bundles kept
    MaxFaults     \* bound: passes cut short, journals put back, recoveries stopped

ASSUME MirrorAssumption == {MaxEpoch, MaxBundles, MaxFaults} \subseteq Nat

Pass == {"hook", "worker", "backup"}

VARIABLES
    truth,       \* memory.sqlite3 of the store
    lost,        \* its disk is gone
    configured,  \* backup-config.json names the mirror's directory
    files,       \* the journal, and an older copy the operator kept
    cache,       \* deletion-mirror-checkpoint.sqlite3: what it knows, of which journal
    lag,         \* deletion-mirror-lag.json exists
    pass,        \* the catch-up of each process
    bundles,     \* backup bundles
    recovery,    \* one disaster restore and its destination
    faults,
    promised     \* ghost: objects whose deletion a finished pass found in each file

vars == <<truth, lost, configured, files, cache, lag, pass, bundles, recovery, faults, promised>>
mirror == <<files, cache, lag, pass, promised>>

Identity == [kind |-> "identity"]
Record(op) == [kind |-> "operation", members |-> op.members, epoch |-> op.epoch]
Lines == {Identity} \cup [kind : {"operation"}, members : SUBSET Object, epoch : Nat]

(* `_truth_records`: the intent alone, whatever has been purged since.  The    *)
(* blocks of source groups and restored absences, mirrored likewise, are left *)
(* out.                                                                       *)
Wanted(t) == {Identity} \cup {Record(op) : op \in t.ops}

Operative(records) == {r \in records : r.kind = "operation"}
Deleting(records) == UNION {r.members : r \in Operative(records)}

File == {"journal", "copy"}
Journals == [records : SUBSET Lines, torn : BOOLEAN]
NoFile == [records |-> {}, torn |-> FALSE]
Idle == [pc |-> "idle", sees |-> {}, todo |-> {}]
NoRecovery == [pc |-> "none", bundle |-> EmptyStore, file |-> "journal", records |-> {},
               truth |-> EmptyStore, owed |-> {}]

Init ==
    /\ truth = EmptyStore /\ lost = FALSE /\ configured = FALSE
    /\ files = [f \in File |-> NoFile]
    /\ cache = [at |-> NoFile, known |-> {}]
    /\ lag = FALSE
    /\ pass = [p \in Pass |-> Idle]
    /\ bundles = {}
    /\ recovery = NoRecovery
    /\ faults = 0
    /\ promised = [f \in File |-> {}]

Fault == faults < MaxFaults /\ faults' = faults + 1

-----------------------------------------------------------------------------
(* The owner.  A bundle is made under the store's exclusive lock, so no       *)
(* deletion falls between its mirror pass and its copy of the database.       *)
OwnerMay == ~lost /\ pass["backup"].pc = "idle" /\ truth.epoch < MaxEpoch

(* Messages are alike until they are captured, so their order is fixed.       *)
Capture(o) ==
    /\ OwnerMay /\ MayCapture(truth, o)
    /\ o \in Source => o = CHOOSE source \in Source : MayCapture(truth, source)
    /\ truth' = Captured(truth, o)
    /\ UNCHANGED <<lost, configured, mirror, bundles, recovery, faults>>

(* The transaction touched deletion_operations, so its process tries to       *)
(* mirror it once the lease is free again.                                    *)
Forget(o) ==
    /\ OwnerMay /\ o \in Visible(truth) /\ pass["hook"].pc = "idle"
    /\ truth' = Deleted(truth, o)
    /\ pass' = [pass EXCEPT !["hook"].pc = "due"]
    /\ UNCHANGED <<lost, configured, files, cache, lag, promised, bundles, recovery, faults>>

-----------------------------------------------------------------------------
(* One catch-up pass (`_catchup`), holding the journal's lock from its scan   *)
(* to its end.                                                                *)
Locked == \E p \in Pass : pass[p].pc \in {"scanned", "appending", "misplaced"}

\* Mutant: the worker is woken for the mirror only when a marker says it lags.
WakesOnLag == configured /\ ~lost /\ lag
Wakes == configured /\ ~lost

(* `mirror_if_due` every five minutes; a backup job's own catch-up is such a  *)
(* pass too.  The worker lock keeps it and a bundle apart.                    *)
WorkerStarts ==
    /\ Wakes
    /\ pass["worker"].pc = "idle" /\ pass["backup"].pc = "idle"
    /\ pass' = [pass EXCEPT !["worker"].pc = "due"]
    /\ UNCHANGED <<truth, lost, configured, files, cache, lag, promised, bundles, recovery, faults>>

(* `create_backup_bundle`: the first one names the directory.                 *)
BackupStarts ==
    /\ ~lost /\ Cardinality(bundles) < MaxBundles
    /\ pass["backup"].pc = "idle" /\ pass["worker"].pc = "idle"
    /\ configured' = TRUE
    /\ pass' = [pass EXCEPT !["backup"].pc = "due"]
    /\ UNCHANGED <<truth, lost, files, cache, lag, promised, bundles, recovery, faults>>

(* Without a directory there is no mirror to fall behind.                     *)
PassUnconfigured(p) ==
    /\ pass[p].pc = "due" /\ ~configured
    /\ pass' = [pass EXCEPT ![p] = Idle]
    /\ UNCHANGED <<truth, lost, configured, files, cache, lag, promised, bundles, recovery, faults>>

(* An error ends the pass; the bundle's own pass raises instead of telling.   *)
Told(p) == IF p = "backup" THEN lag ELSE TRUE

(* The lock is held elsewhere: a hook does not wait, the others only briefly. *)
PassBlocked(p) ==
    /\ pass[p].pc = "due" /\ configured /\ Locked
    /\ pass' = [pass EXCEPT ![p] = Idle]
    /\ lag' = Told(p)
    /\ UNCHANGED <<truth, lost, configured, files, cache, promised, bundles, recovery, faults>>

(* `scan_inventory`: the checkpoint counts only for the very journal it was   *)
(* saved beside; of any other it is forgotten and every line is read again.   *)
(* A scan cut short saves how far it came and is resumed there, so only a     *)
(* whole one is told apart.  A torn last line is cut off.                     *)
\* Mutant: what was known of another journal is not forgotten.
InventoryKept == cache.known \cup files.journal.records
Inventory == IF cache.at = files.journal THEN cache.known ELSE files.journal.records

PassScans(p) ==
    /\ pass[p].pc = "due" /\ configured /\ ~Locked
    /\ LET journal == [files.journal EXCEPT !.torn = FALSE]
       IN /\ files' = [files EXCEPT !.journal = journal]
          /\ cache' = [at |-> journal, known |-> Inventory]
    /\ pass' = [pass EXCEPT ![p].pc = "scanned"]
    /\ UNCHANGED <<truth, lost, configured, lag, promised, bundles, recovery, faults>>

(* One read transaction fixes what this pass will mirror; later deletions are *)
(* not of it.                                                                 *)
PassBegins(p) ==
    /\ pass[p].pc = "scanned"
    /\ pass' = [pass EXCEPT ![p] = [pc |-> "appending", sees |-> Wanted(truth),
                                    todo |-> Wanted(truth) \ cache.known]]
    /\ UNCHANGED <<truth, lost, configured, files, cache, lag, promised, bundles, recovery, faults>>

PassAppends(p, record) ==
    /\ pass[p].pc = "appending" /\ record \in pass[p].todo
    /\ files' = [files EXCEPT !.journal.records = @ \cup {record}]
    /\ pass' = [pass EXCEPT ![p].todo = @ \ {record}]
    /\ UNCHANGED <<truth, lost, configured, cache, lag, promised, bundles, recovery, faults>>

(* `save_inventory`: fsync of the journal, then the checkpoint beside it.     *)
Saved(p) == [at |-> files.journal, known |-> cache.known \cup (pass[p].sees \ pass[p].todo)]

PassFinishes(p) ==
    /\ pass[p].pc = "appending" /\ pass[p].todo = {}
    /\ cache' = Saved(p)
    /\ lag' = FALSE
    /\ pass' = [pass EXCEPT ![p] = IF p = "backup" THEN [Idle EXCEPT !.pc = "staging"] ELSE Idle]
    /\ promised' = [promised EXCEPT !.journal = @ \cup Deleting(pass[p].sees)]
    /\ UNCHANGED <<truth, lost, configured, files, bundles, recovery, faults>>

(* The hook's tenth of a second, a deadline, a refusal: what was appended is  *)
(* saved.                                                                     *)
PassStops(p) ==
    /\ pass[p].pc \in {"scanned", "appending"} /\ Fault
    /\ cache' = Saved(p)
    /\ lag' = Told(p)
    /\ pass' = [pass EXCEPT ![p] = Idle]
    /\ UNCHANGED <<truth, lost, configured, files, promised, bundles, recovery>>

(* `validate_mutable_file`: the file under this pass is not the journal now.  *)
PassMisplaced(p) ==
    /\ pass[p].pc = "misplaced"
    /\ lag' = Told(p)
    /\ pass' = [pass EXCEPT ![p] = Idle]
    /\ UNCHANGED <<truth, lost, configured, files, cache, promised, bundles, recovery, faults>>

(* The process dies, or the disk fills in the middle of a line: the operating *)
(* system frees the lock and the checkpoint stays as the scan saved it.       *)
PassDies(p) ==
    /\ pass[p].pc # "idle" /\ Fault
    /\ \/ UNCHANGED files
       \/ pass[p].todo # {} /\ files' = [files EXCEPT !.journal.torn = TRUE]
    /\ lag' \in {lag, Told(p)}
    /\ pass' = [pass EXCEPT ![p] = Idle]
    /\ UNCHANGED <<truth, lost, configured, cache, promised, bundles, recovery>>

(* `_stage_database`, after the pass of the same command.                     *)
BackupStages ==
    /\ pass["backup"].pc = "staging"
    /\ bundles' = bundles \cup {truth}
    /\ pass' = [pass EXCEPT !["backup"] = Idle]
    /\ UNCHANGED <<truth, lost, configured, files, cache, lag, promised, recovery, faults>>

-----------------------------------------------------------------------------
(* What happens to the disks.  An operator may keep a copy of the journal and *)
(* put it back by renaming it into place, also under a pass; the store may be *)
(* lost at any moment, and with it every process.                             *)
JournalCopied ==
    /\ files.copy # files.journal
    /\ files' = [files EXCEPT !.copy = files.journal]
    /\ promised' = [promised EXCEPT !.copy = promised.journal]
    /\ UNCHANGED <<truth, lost, configured, cache, lag, pass, bundles, recovery, faults>>

JournalPutBack ==
    /\ files.copy \notin {NoFile, files.journal} /\ Fault
    /\ files' = [files EXCEPT !.journal = files.copy]
    /\ promised' = [promised EXCEPT !.journal = promised.copy]
    /\ pass' = [p \in Pass |-> IF pass[p].pc \in {"scanned", "appending"}
                               THEN [Idle EXCEPT !.pc = "misplaced"] ELSE pass[p]]
    /\ UNCHANGED <<truth, lost, configured, cache, lag, bundles, recovery>>

StoreLost ==
    /\ ~lost
    /\ lost' = TRUE
    /\ pass' = [p \in Pass |-> Idle]
    /\ UNCHANGED <<truth, configured, files, cache, lag, promised, bundles, recovery, faults>>

-----------------------------------------------------------------------------
(* `apply_disaster_restore` into an empty directory.  The journal, or the     *)
(* copy given with --mirror, is read whole under its lock before anything is  *)
(* written: a torn or a foreign one refuses.  Then the destination is fenced  *)
(* and the bundle is extracted; one left half done stays fenced.              *)
RecoveryFences(bundle, file) ==
    /\ recovery.pc = "none"
    /\ file = "journal" => ~Locked
    /\ ~files[file].torn /\ Identity \in files[file].records
    /\ recovery' = [pc |-> "fenced", bundle |-> bundle, file |-> file, truth |-> bundle,
                    records |-> files[file].records, owed |-> promised[file]]
    /\ UNCHANGED <<truth, lost, configured, mirror, bundles, faults>>

(* `replay_deletion_mirror`: the destination's own ledger, with the journal's *)
(* operations in place of its own and its epoch no earlier than theirs.       *)
Replaying(op) ==
    [members |-> op.members, epoch |-> op.epoch, scrubbed |-> FALSE, vector |-> FALSE,
     history |-> FALSE, queued |-> TRUE]

RecoveryLedger(t, records) ==
    LET own == LedgerOf(t, "full")
        ops == Operative(records)
    IN [own EXCEPT
            !.ops = {op \in @ : Record(op) \notin ops} \cup {Replaying(r) : r \in ops},
            !.epoch = Max({@} \cup {r.epoch : r \in ops})]

(* The ledger is staged and replayed without reopening.  Nobody reads the     *)
(* destination, so its log is truncated.  It mirrors to the file it was       *)
(* recovered with, unless that is locked or fails.                            *)
RecoveryReplays ==
    /\ recovery.pc = "fenced"
    /\ LET replayed == Replayed(recovery.truth, RecoveryLedger(recovery.truth, recovery.records))
       IN /\ recovery' = [recovery EXCEPT !.pc = "replayed", !.truth = replayed, !.records = {}]
          /\ \/ UNCHANGED files
             \/ /\ recovery.file = "journal" => ~Locked
                /\ files' = [files EXCEPT ![recovery.file].torn = FALSE,
                                          ![recovery.file].records = @ \cup Wanted(replayed)]
    /\ UNCHANGED <<truth, lost, configured, cache, lag, pass, promised, bundles, faults>>

RecoveryReopens ==
    /\ recovery.pc = "replayed"
    /\ recovery' = [recovery EXCEPT !.pc = "open"]
    /\ UNCHANGED <<truth, lost, configured, mirror, bundles, faults>>

(* A destination left half done stays fenced; the next run needs an empty one.*)
RecoveryStops ==
    /\ recovery.pc \notin {"none", "open"} /\ Fault
    /\ recovery' = NoRecovery
    /\ UNCHANGED <<truth, lost, configured, mirror, bundles>>

-----------------------------------------------------------------------------
Owner == \E o \in Object : Capture(o) \/ Forget(o)

CatchUp(p) ==
    \/ PassUnconfigured(p) \/ PassBlocked(p) \/ PassScans(p) \/ PassBegins(p)
    \/ \E record \in pass[p].todo : PassAppends(p, record)
    \/ PassFinishes(p) \/ PassMisplaced(p)
    \/ p = "backup" /\ BackupStages

Disturb ==
    \/ \E p \in Pass : PassStops(p) \/ PassDies(p)
    \/ JournalCopied \/ JournalPutBack \/ StoreLost

Recover ==
    \/ \E bundle \in bundles, file \in File : RecoveryFences(bundle, file)
    \/ RecoveryReplays \/ RecoveryReopens \/ RecoveryStops

Next ==
    \/ Owner \/ WorkerStarts \/ BackupStarts
    \/ \E p \in Pass : CatchUp(p)
    \/ Disturb \/ Recover

Spec == Init /\ [][Next]_vars

(* A process that runs goes on to its next step or dies, and the worker is    *)
(* woken for the mirror whether or not there is other work.                   *)
Fairness == WF_vars(WorkerStarts) /\ \A p \in Pass : WF_vars(CatchUp(p))

FairSpec == Spec /\ Fairness

-----------------------------------------------------------------------------
(* Every file, pass and recovery has its type, one pass at most holds the     *)
(* journal's lock, and what a finished pass promised is in the file.          *)
TypeOK ==
    /\ truth \in TruthStates /\ bundles \subseteq TruthStates /\ faults \in Nat
    /\ {lost, configured, lag} \subseteq BOOLEAN
    /\ files \in [File -> Journals]
    /\ promised \in [File -> SUBSET Object]
    /\ \A f \in File : promised[f] \subseteq Deleting(files[f].records)
    /\ cache \in [at : Journals, known : SUBSET Lines]
    /\ pass \in [Pass -> [pc : {"idle", "due", "scanned", "appending", "misplaced", "staging"},
                         sees : SUBSET Lines, todo : SUBSET Lines]]
    /\ Cardinality({p \in Pass : pass[p].pc \in {"scanned", "appending", "misplaced"}}) <= 1
    /\ recovery \in [pc : {"none", "fenced", "replayed", "open"}, file : File,
                     bundle : TruthStates, truth : TruthStates,
                     records : SUBSET Lines, owed : SUBSET Object]

(* What the destination of a disaster restore opens with: everything that any *)
(* finished pass found mirrored in the file it was given is blocked and its   *)
(* words are gone, however old the bundle; what the bundle had forgotten or   *)
(* muted stays so; and its epoch is beyond that of every deletion it holds.   *)
RecoveredKeepsForgotten ==
    recovery.pc = "open" =>
        LET t == recovery.truth
        IN /\ (recovery.owed \cup recovery.bundle.blocked) \cap (Visible(t) \cup t.words) = {}
           /\ recovery.bundle.muted \subseteq t.muted
           /\ \A op \in t.ops : op.epoch < t.epoch

(* A committed deletion reaches the journal, whichever passes died, were      *)
(* refused or found an older journal put back, unless the store is lost first.*)
CommittedIsMirrored ==
    \A o \in Object :
        configured /\ o \in truth.blocked ~> lost \/ o \in Deleting(files.journal.records)

(* docs/background-work.md: the lag marker is cleared only after all current  *)
(* records have been appended.  The code does not hold to it: a pass that     *)
(* read the store before a deletion clears the marker the deletion's own      *)
(* attempt, finding the lock held, left.                                      *)
LagClearedWhenMirrored ==
    [][lag /\ ~lag' => Wanted(truth) \subseteq files.journal.records]_vars
=============================================================================
