----------------------------- MODULE Supervisor -----------------------------
(* One finite owner drains the store's work, and everyone else's wake is      *)
(* coalesced onto it (runtime/scheduling.py, runtime/resume_entry.py,         *)
(* runtime/worker_watchdog.py).  A wake is a process of its own: it raises    *)
(* the wake revision in the control file, tries the owner lock, and goes home *)
(* when a live owner accepts wakes.  An owner that finds nothing to do closes *)
(* only if no wake came since it last looked.  The control file and the two   *)
(* locks outlive a killed process; the locks are the system's and are freed.  *)
(*                                                                            *)
(* Work is an item that is due, or will be later; what a pass does with it is *)
(* left to the queue's own modules.                                           *)
EXTENDS Naturals, FiniteSets

CONSTANTS
    Process,          \* processes that may be launched
    Nobody,
    Item,             \* work and backup jobs that will come up
    Backup,           \* those that are backup jobs
    MaxDrains,        \* supervisor_max_drains
    MaxFailures,      \* MAX_CONSECUTIVE_WORKER_FAILURES
    MaxFaults         \* bound: crashes, failed, busy and timed out steps, and pauses

ASSUME SupervisorAssumption ==
    /\ Nobody \notin Process
    /\ Backup \subseteq Item
    /\ {MaxDrains, MaxFailures} \subseteq Nat \ {0}
    /\ MaxFaults \in Nat

VARIABLES
    file,        \* the control file: accepting, whether wake_revision was raised since
                 \* the owner last read it, and the reason it closed for
    owner,       \* who holds the owner lock
    proc,        \* the processes
    work,        \* the items
    paused,      \* the operator's autostart switch
    faults,
    owed         \* ghost: items announced by a wake that a live owner, or the
                 \* process that announced it, still has to look at

vars == <<file, owner, proc, work, paused, faults, owed>>

Off == [pc |-> "off"]
Starting == [pc |-> "request"]
Loop == {"begin", "top", "read", "plan", "close", "drain", "backup", "sleep", "closed"}
Owner == [pc : Loop, count : 0 .. MaxDrains, failures : 0 .. MaxFailures,
          planned : BOOLEAN, progress : BOOLEAN, busy : BOOLEAN, over : BOOLEAN, raised : BOOLEAN]
Outside == [pc : {"off", "request", "try", "look", "wait", "direct"}]
Fresh == [pc |-> "begin", count |-> 0, failures |-> 0, planned |-> FALSE,
          progress |-> FALSE, busy |-> FALSE, over |-> FALSE, raised |-> FALSE]

Due == {i \in Item : work[i] = "due"}
Queued == Due \ Backup

Init ==
    /\ file = [accepting |-> FALSE, raised |-> FALSE, reason |-> "none"]
    /\ owner = Nobody
    /\ proc = [p \in Process |-> Off]
    /\ work = [i \in Item |-> "to come"]
    /\ paused = FALSE /\ faults = 0 /\ owed = {}

At(p, step) == proc[p].pc = step
Go(p, step) == proc' = [proc EXCEPT ![p].pc = step]
Fault == faults < MaxFaults /\ faults' = faults + 1

-----------------------------------------------------------------------------
(* A host stores something to do, now or for later; later comes.              *)
Arrive(i) ==
    /\ work[i] = "to come"
    /\ \E w \in {"due", "later"} : work' = [work EXCEPT ![i] = w]
    /\ UNCHANGED <<file, owner, proc, paused, faults, owed>>

Ripen(i) ==
    /\ work[i] = "later"
    /\ work' = [work EXCEPT ![i] = "due"]
    /\ UNCHANGED <<file, owner, proc, paused, faults, owed>>

(* A hook launches a worker, or the system's scheduler does (`resume_once`).  *)
Launch(p) ==
    /\ proc[p] = Off
    /\ proc' = [proc EXCEPT ![p] = Starting]
    /\ UNCHANGED <<file, owner, work, paused, faults, owed>>

(* Trusting the control file instead of the lock.                             *)
ResumeUnlessAccepting(p) ==
    /\ Due # {} /\ ~paused /\ ~file.accepting
    /\ Launch(p)

ResumeOnce(p) ==
    /\ Due # {} /\ ~paused /\ owner = Nobody
    /\ Launch(p)

SetPaused ==
    /\ Fault
    /\ paused' = ~paused
    /\ UNCHANGED <<file, owner, proc, work, owed>>

-----------------------------------------------------------------------------
(* `SupervisorControl.request`.                                               *)
Request(p) ==
    /\ At(p, "request")
    /\ file' = [file EXCEPT !.raised = TRUE]
    /\ owed' = {i \in Item : work[i] \in {"due", "later"}}
    /\ Go(p, "try")
    /\ UNCHANGED <<owner, work, paused, faults>>

(* `_acquire_ownership`: the lock, else an owner that accepts wakes, else the *)
(* lock within two seconds, else what an owner begun since then says.         *)
Acquire(p) ==
    /\ At(p, "try") \/ At(p, "wait")
    /\ owner = Nobody
    /\ owner' = p
    /\ proc' = [proc EXCEPT ![p] = Fresh]
    /\ UNCHANGED <<file, work, paused, faults, owed>>

(* Without the look at `accepting`.                                           *)
CoalesceAlways(p) == proc' = [proc EXCEPT ![p] = Off]

Coalesce(p) == proc' = [proc EXCEPT ![p] = IF file.accepting THEN Off ELSE [pc |-> "wait"]]

Held(p) ==
    /\ \/ /\ At(p, "try") /\ owner # Nobody
          /\ Go(p, "look")
       \/ /\ At(p, "look")
          /\ Coalesce(p)
    /\ UNCHANGED <<file, owner, work, paused, faults, owed>>

(* The two seconds are over and the lock is still held.                       *)
WaitOver(p) ==
    /\ At(p, "wait") /\ owner # Nobody
    /\ \/ /\ file.accepting
          /\ proc' = [proc EXCEPT ![p] = Off]
          /\ UNCHANGED <<faults, owed>>
       \/ /\ ~file.accepting /\ Fault
          /\ proc' = [proc EXCEPT ![p] = [pc |-> "direct"]]
          /\ owed' = {}
    /\ UNCHANGED <<file, owner, work, paused>>

(* `_begin_supervisor`.                                                       *)
Begin(p) ==
    /\ At(p, "begin")
    /\ file' = [file EXCEPT !.accepting = TRUE, !.reason = "running"]
    /\ Go(p, "top")
    /\ UNCHANGED <<owner, work, paused, faults, owed>>

CloseFor(p, reason) ==
    /\ file' = [file EXCEPT !.accepting = FALSE, !.reason = reason]
    /\ Go(p, "closed")

(* Two mistakes the loop could make: the limit tested after the pass, and an  *)
(* idle close that does not ask for the wakes since.                          *)
LimitPassed(me) == me.over \/ me.count > MaxDrains

AtLimit(me) == me.over \/ me.count >= MaxDrains

(* The top of `supervise`'s loop: what closes it without looking for a wake.  *)
Top(p) ==
    LET limit == AtLimit(proc[p])
    IN  /\ At(p, "top")
        /\ \/ paused /\ CloseFor(p, "operator_pause") /\ owed' = {}
           \/ ~paused /\ limit /\ CloseFor(p, "supervisor_limit") /\ owed' = {}
           \/ ~paused /\ ~limit /\ Go(p, "read") /\ UNCHANGED <<file, owed>>
        /\ UNCHANGED <<owner, work, paused, faults>>

ReadRevision(p) ==
    /\ At(p, "read")
    /\ file' = [file EXCEPT !.raised = FALSE]
    /\ Go(p, "plan")
    /\ UNCHANGED <<owner, work, paused, faults, owed>>

(* `next_wake`: a due backup, due work, one more drain after progress, else   *)
(* later or never.  The first drain is not planned, unless a backup is due.   *)
Planned(me) ==
    IF Due \cap Backup # {} THEN "backup"
    ELSE IF ~me.planned \/ Due # {} \/ (me.progress /\ \A i \in Item : work[i] # "later")
    THEN IF me.busy THEN "sleep" ELSE "drain"
    ELSE IF \E i \in Item : work[i] = "later" THEN "sleep" ELSE "close"

Plan(p) ==
    /\ At(p, "plan")
    /\ Go(p, IF proc[p].busy /\ Planned(proc[p]) = "backup" THEN "sleep" ELSE Planned(proc[p]))
    /\ UNCHANGED <<file, owner, work, paused, faults, owed>>

CloseUnasked(p) ==
    /\ At(p, "close")
    /\ CloseFor(p, "idle")
    /\ UNCHANGED <<owner, work, paused, faults, owed>>

(* `close_if_unchanged`.                                                      *)
CloseIdle(p) ==
    /\ At(p, "close")
    /\ IF file.raised
       THEN Go(p, "top") /\ UNCHANGED file
       ELSE CloseFor(p, "idle")
    /\ UNCHANGED <<owner, work, paused, faults, owed>>

(* Asleep until work is due or a busy pass may be tried again.                *)
Sleep(p) ==
    /\ At(p, "sleep")
    /\ proc' = [proc EXCEPT ![p].pc = "top", ![p].busy = FALSE]
    /\ UNCHANGED <<file, owner, work, paused, faults, owed>>

(* What a pass leaves of the work: it finishes some, and puts some off.       *)
Finished(done, off) ==
    [i \in Item |-> IF i \in done THEN "done" ELSE IF i \in off THEN "later" ELSE work[i]]

(* A pass that ran, one that met a busy store or its time limit, and one that *)
(* failed; MaxFailures of these in a row end the loop.                        *)
Drain(p) ==
    LET me == [proc[p] EXCEPT !.pc = "top", !.planned = TRUE, !.count = @ + 1]
        failing == [me EXCEPT !.progress = FALSE, !.failures = @ + 1, !.busy = TRUE]
    IN  /\ At(p, "drain")
        /\ \/ \E done \in SUBSET Queued : \E off \in SUBSET (Queued \ done) :
                 /\ IF off = {} /\ (done # {} \/ Queued = {}) THEN UNCHANGED faults ELSE Fault
                 /\ work' = Finished(done, off)
                 /\ proc' = [proc EXCEPT ![p] = [me EXCEPT !.progress = done # {}, !.failures = 0, !.busy = FALSE]]
                 /\ UNCHANGED <<file, owed>>
           \/ /\ Fault
              /\ \E done \in SUBSET Queued : work' = Finished(done, {})
              /\ proc' = [proc EXCEPT ![p] = [me EXCEPT !.progress = FALSE, !.failures = 0, !.busy = TRUE]]
              /\ UNCHANGED <<file, owed>>
           \/ /\ Fault /\ failing.failures < MaxFailures
              /\ proc' = [proc EXCEPT ![p] = failing]
              /\ UNCHANGED <<file, work, owed>>
           \/ /\ Fault /\ failing.failures = MaxFailures
              /\ file' = [file EXCEPT !.accepting = FALSE, !.reason = "worker_failed"]
              /\ proc' = [proc EXCEPT ![p] = [failing EXCEPT !.pc = "closed"]]
              /\ owed' = {}
              /\ UNCHANGED work
        /\ UNCHANGED <<owner, paused>>

(* A backup job under its own bound; it is no drain.                          *)
RunBackup(p) ==
    /\ At(p, "backup")
    /\ \E b \in Due \cap Backup :
          \/ /\ work' = Finished({b}, {})
             /\ proc' = [proc EXCEPT ![p].pc = "top", ![p].planned = TRUE, ![p].busy = FALSE]
             /\ UNCHANGED faults
          \/ /\ Fault
             /\ \E off \in SUBSET {b} :
                   /\ work' = Finished({}, off)
                   /\ proc' = [proc EXCEPT ![p].pc = "top", ![p].planned = TRUE, ![p].busy = off = {}]
    /\ UNCHANGED <<file, owner, paused, owed>>

(* The owner lock is let go last; a supervisor that raised before any pass    *)
(* ran leaves one direct pass to the watchdog.                                *)
Release(p) ==
    /\ At(p, "closed")
    /\ owner' = Nobody
    /\ proc' = [proc EXCEPT ![p] = IF @.raised /\ @.count = 0 THEN [pc |-> "direct"] ELSE Off]
    /\ UNCHANGED <<file, work, paused, faults, owed>>

DirectPass(p) ==
    /\ At(p, "direct")
    /\ \E done \in SUBSET Queued : work' = Finished(done, {})
    /\ proc' = [proc EXCEPT ![p] = Off]
    /\ UNCHANGED <<file, owner, paused, faults, owed>>

-----------------------------------------------------------------------------
(* A step raises; a process is killed; the supervisor's window is over.       *)
Raise(p) ==
    /\ Fault
    /\ proc[p].pc \notin {"off", "closed", "direct"}
    /\ IF owner = p
       THEN /\ file' = [file EXCEPT !.accepting = FALSE, !.reason = "supervisor_failed"]
            /\ proc' = [proc EXCEPT ![p].pc = "closed", ![p].raised = TRUE]
       ELSE /\ proc' = [proc EXCEPT ![p] = [pc |-> "direct"]]
            /\ UNCHANGED file
    /\ owed' = {}
    /\ UNCHANGED <<owner, work, paused>>

Crash(p) ==
    /\ Fault
    /\ proc[p] # Off
    /\ proc' = [proc EXCEPT ![p] = Off]
    /\ owner' = IF owner = p THEN Nobody ELSE owner
    /\ owed' = {}
    /\ UNCHANGED <<file, work, paused>>

WindowOver(p) ==
    /\ owner = p /\ ~proc[p].over
    /\ IF proc[p].count > 0 THEN UNCHANGED faults ELSE Fault
    /\ proc' = [proc EXCEPT ![p].over = TRUE]
    /\ UNCHANGED <<file, owner, work, paused, owed>>

-----------------------------------------------------------------------------
Step(p) ==
    \/ Request(p) \/ Acquire(p) \/ Held(p) \/ Begin(p) \/ Top(p) \/ ReadRevision(p)
    \/ Plan(p) \/ CloseIdle(p) \/ Sleep(p) \/ Drain(p) \/ RunBackup(p) \/ Release(p)
    \/ DirectPass(p)

Resume == \E p \in Process : ResumeOnce(p)

Next ==
    \/ \E i \in Item : Arrive(i) \/ Ripen(i)
    \/ \E p \in Process : Step(p) \/ WaitOver(p) \/ Launch(p) \/ Raise(p) \/ Crash(p) \/ WindowOver(p)
    \/ Resume \/ SetPaused

Spec == Init /\ [][Next]_vars

(* A running process goes on, and time passes.  Nothing says that a host      *)
(* starts another one, and the system's scheduler is left to the property     *)
(* that needs it.                                                             *)
FairSpec ==
    /\ Spec
    /\ \A p \in Process : WF_vars(Step(p))
    /\ \A i \in Item : WF_vars(Ripen(i))

-----------------------------------------------------------------------------
(* Owners run within MaxDrains passes and MaxFailures failures in a row, and  *)
(* only the process that holds the owner lock runs the loop (`supervise`).    *)
TypeOK ==
    /\ file \in [accepting : BOOLEAN, raised : BOOLEAN,
                 reason : {"none", "running", "operator_pause", "supervisor_limit", "idle",
                           "worker_failed", "supervisor_failed"}]
    /\ owner \in Process \union {Nobody}
    /\ proc \in [Process -> Owner \union Outside]
    /\ \A p \in Process : p = owner <=> proc[p] \in Owner
    /\ work \in [Item -> {"to come", "later", "due", "done"}]
    /\ paused \in BOOLEAN /\ faults \in 0 .. MaxFaults /\ owed \subseteq Item

(* An owner that closes as idle leaves no work a wake announced to it, and a  *)
(* wake that came while it was closing is not taken for one it has read       *)
(* (`close_if_unchanged` after the revision and the plan are read).           *)
IdleClosesClean ==
    [][(file'.reason = "idle" /\ file.reason # "idle") =>
          \A i \in owed : work[i] = "done"]_vars

(* A wake is not lost between an owner that stops and the process that        *)
(* announces it: announced work is done, whatever order their steps take,     *)
(* unless the owner is killed or closes for a cause first: a limit, a pause   *)
(* or failures in a row drop the wakes it accepted, although the comments of  *)
(* `supervise` say that an accepting owner owes them a read.  What then       *)
(* becomes of their work is DueIsDone's.                                      *)
AnnouncedIsDone ==
    \A i \in Item : (i \in owed /\ work[i] # "done") ~> (work[i] = "done" \/ i \notin owed)

(* Where the system's scheduler wakes the store, due work is done after any   *)
(* crash, failure or limit, unless the operator pauses it: what a dead owner  *)
(* left in the control file keeps no one from starting (`resume_once`).       *)
DueIsDone ==
    WF_vars(Resume) => \A i \in Item : (work[i] = "due") ~> (work[i] = "done" \/ paused)

=============================================================================
