-------------------------- MODULE SupervisorProofs --------------------------
(* Proofs about one owner and the wakes coalesced onto it: whoever runs the   *)
(* loop holds the owner lock and keeps its limits, and an owner that closes   *)
(* as idle leaves nothing a wake announced to it.                             *)
EXTENDS Supervisor, TLAPS

(* A pass is begun only below the limit, and the loop is not entered again    *)
(* after the last failure it may have.                                        *)
WithinLimits(me) ==
    /\ me.pc \in {"read", "plan", "close", "drain", "backup", "sleep"} => me.count < MaxDrains
    /\ me.pc # "closed" => me.failures < MaxFailures

ProcOK ==
    /\ owner \in Process \union {Nobody}
    /\ proc \in [Process -> Owner \union Outside]
    /\ \A p \in Process : p = owner <=> proc[p] \in Owner
    /\ owner \in Process => WithinLimits(proc[owner])

FileOK ==
    file \in [accepting : BOOLEAN, raised : BOOLEAN,
              reason : {"none", "running", "operator_pause", "supervisor_limit", "idle",
                        "worker_failed", "supervisor_failed"}]

WorkOK ==
    /\ work \in [Item -> {"to come", "later", "due", "done"}]
    /\ owed \subseteq Item
    /\ \A i \in owed : work[i] # "to come"

CountersOK == paused \in BOOLEAN /\ faults \in 0 .. MaxFaults

(* What an owner about to close may rely on: the plan that sends it there saw *)
(* nothing to do, and no wake was raised since the revision was read.         *)
ClosingClean ==
    \A p \in Process : At(p, "close") /\ ~file.raised => \A i \in owed : work[i] = "done"

Inv == ProcOK /\ FileOK /\ WorkOK /\ CountersOK /\ ClosingClean

-----------------------------------------------------------------------------
(* The two kinds of process records have no element in common.                *)
LEMMA KindsApart ==
    /\ \A r \in Owner : r.pc \in Loop
    /\ \A r \in Outside : r.pc \in {"off", "request", "try", "look", "wait", "direct"}
    /\ Owner \cap Outside = {}
BY DEF Owner, Outside, Loop

(* The owner lock is held by the process that is in the loop.                 *)
LEMMA InTheLoop ==
    ASSUME ProcOK, NEW p \in Process, proc[p].pc \in Loop
    PROVE  p = owner /\ proc[p] \in Owner /\ WithinLimits(proc[p])
BY KindsApart DEF ProcOK, Loop

LEMMA NotInTheLoop ==
    ASSUME ProcOK, NEW p \in Process, proc[p].pc \notin Loop
    PROVE  p # owner /\ proc[p] \in Outside
BY KindsApart DEF ProcOK

(* The owner goes on under the lock.                                          *)
LEMMA OwnerGoesOn ==
    ASSUME ProcOK, NEW p \in Process, p = owner, NEW me \in Owner, WithinLimits(me),
           proc' = [proc EXCEPT ![p] = me], owner' = owner
    PROVE  ProcOK'
BY DEF ProcOK, WithinLimits

(* A process that does not hold the lock goes on without it.                  *)
LEMMA OutsiderGoesOn ==
    ASSUME ProcOK, NEW p \in Process, p # owner, NEW me \in Outside,
           proc' = [proc EXCEPT ![p] = me], owner' = owner
    PROVE  ProcOK'
BY KindsApart DEF ProcOK, WithinLimits

(* The lock is taken when it is free, and let go.                             *)
LEMMA LockTaken ==
    ASSUME ProcOK, NEW p \in Process, owner = Nobody,
           proc' = [proc EXCEPT ![p] = Fresh], owner' = p
    PROVE  ProcOK'
<1>1. Fresh \in Owner /\ WithinLimits(Fresh)
  BY SupervisorAssumption DEF Fresh, Owner, Loop, WithinLimits
<1> QED
  BY <1>1, SupervisorAssumption DEF ProcOK, WithinLimits

LEMMA LockLetGo ==
    ASSUME ProcOK, NEW p \in Process, p = owner, NEW me \in Outside,
           proc' = [proc EXCEPT ![p] = me], owner' = Nobody
    PROVE  ProcOK'
BY KindsApart, SupervisorAssumption DEF ProcOK, WithinLimits

(* The program counter moves alone.                                           *)
LEMMA PcMoves ==
    ASSUME NEW r \in Owner, NEW l \in Loop
    PROVE  /\ [r EXCEPT !.pc = l] \in Owner
           /\ [r EXCEPT !.pc = l].pc = l
           /\ [r EXCEPT !.pc = l].count = r.count
           /\ [r EXCEPT !.pc = l].failures = r.failures
BY DEF Owner

LEMMA OutsidePcMoves ==
    ASSUME NEW r \in Outside, NEW l \in {"off", "request", "try", "look", "wait", "direct"}
    PROVE  [r EXCEPT !.pc = l] \in Outside
BY DEF Outside

(* What passes leave of the work: items that are done stay done and none is   *)
(* taken back to before it came.                                              *)
LEMMA FinishedKeeps ==
    ASSUME WorkOK, NEW done \in SUBSET Due, NEW off \in SUBSET Due,
           work' = Finished(done, off), owed' \in {owed, {}}
    PROVE  WorkOK' /\ \A i \in Item : work[i] = "done" => work'[i] = "done"
BY DEF WorkOK, Finished, Due

-----------------------------------------------------------------------------
LEMMA InitInv == Init => Inv
<1> SUFFICES ASSUME Init PROVE Inv
  OBVIOUS
<1>1. Off \in Outside
  BY DEF Off, Outside
<1>2. ProcOK
  BY <1>1, KindsApart, SupervisorAssumption DEF Init, ProcOK
<1>3. FileOK /\ WorkOK
  BY DEF Init, FileOK, WorkOK
<1>4. CountersOK
  <2>1. 0 \in 0 .. MaxFaults
    BY SupervisorAssumption
  <2> QED
    BY <2>1 DEF Init, CountersOK
<1>5. ClosingClean
  BY DEF Init, ClosingClean
<1> QED
  BY <1>2, <1>3, <1>4, <1>5 DEF Inv

(* A step that leaves the wakes and the owner's place in the loop alone keeps *)
(* a closing owner clean, whatever else it does to the work.                  *)
LEMMA StaysClean ==
    ASSUME ClosingClean, WorkOK,
           \A p \in Process : At(p, "close")' => At(p, "close"),
           file'.raised = file.raised, owed' \in {owed, {}},
           \A i \in Item : work[i] = "done" => work'[i] = "done"
    PROVE  ClosingClean'
BY DEF ClosingClean, WorkOK, At

LEMMA FaultCounted ==
    ASSUME CountersOK, Fault \/ UNCHANGED faults
    PROVE  faults' \in 0 .. MaxFaults
BY SupervisorAssumption DEF CountersOK, Fault

LEMMA WorldSteps ==
    ASSUME Inv, NEW i \in Item, Arrive(i) \/ Ripen(i)
    PROVE  Inv'
<1>1. ProcOK' /\ FileOK' /\ CountersOK'
  BY DEF Inv, Arrive, Ripen, ProcOK, FileOK, CountersOK, WithinLimits
<1>2. WorkOK'
  BY DEF Inv, Arrive, Ripen, WorkOK
<1>3. \A j \in Item : work[j] = "done" => work'[j] = "done"
  BY DEF Inv, Arrive, Ripen, WorkOK
<1>4. ClosingClean'
  BY <1>3, StaysClean DEF Inv, Arrive, Ripen, At
<1> QED
  BY <1>1, <1>2, <1>4 DEF Inv

LEMMA LaunchSteps ==
    ASSUME Inv, NEW p \in Process, Launch(p)
    PROVE  Inv'
<1>1. Starting \in Outside /\ Off.pc \notin Loop
  BY DEF Starting, Off, Outside, Loop
<1>2. p # owner
  BY <1>1, NotInTheLoop DEF Inv, Launch
<1>3. ProcOK'
  BY <1>1, <1>2, OutsiderGoesOn DEF Inv, Launch
<1>4. FileOK' /\ WorkOK' /\ CountersOK'
  BY DEF Inv, Launch, FileOK, WorkOK, CountersOK
<1>5. ClosingClean'
  BY DEF Inv, Launch, ClosingClean, At, ProcOK, Starting
<1> QED
  BY <1>3, <1>4, <1>5 DEF Inv

LEMMA PauseSteps == ASSUME Inv, SetPaused PROVE Inv'
<1>1. ProcOK' /\ FileOK' /\ WorkOK' /\ ClosingClean'
  BY DEF Inv, SetPaused, ProcOK, FileOK, WorkOK, ClosingClean, At, WithinLimits
<1>2. CountersOK'
  BY FaultCounted DEF Inv, SetPaused, CountersOK
<1> QED
  BY <1>1, <1>2 DEF Inv

(* A wake: raising it owes its announcer a look at everything that came.      *)
LEMMA RequestSteps ==
    ASSUME Inv, NEW p \in Process, Request(p)
    PROVE  Inv'
<1>1. p # owner /\ proc[p] \in Outside
  BY NotInTheLoop DEF Inv, Request, At, Loop
<1>2. [proc[p] EXCEPT !.pc = "try"] \in Outside
  BY <1>1, OutsidePcMoves
<1>3. ProcOK'
  BY <1>1, <1>2, OutsiderGoesOn DEF Inv, Request, Go
<1>4. FileOK' /\ WorkOK' /\ CountersOK'
  BY DEF Inv, Request, FileOK, WorkOK, CountersOK
<1>5. ClosingClean'
  BY DEF Inv, Request, ClosingClean, FileOK
<1> QED
  BY <1>3, <1>4, <1>5 DEF Inv

LEMMA AcquireSteps ==
    ASSUME Inv, NEW p \in Process, Acquire(p)
    PROVE  Inv'
<1>1. ProcOK'
  BY LockTaken DEF Inv, Acquire
<1>2. FileOK' /\ WorkOK' /\ CountersOK'
  BY DEF Inv, Acquire, FileOK, WorkOK, CountersOK
<1>3. ClosingClean'
  BY DEF Inv, Acquire, ClosingClean, At, ProcOK, Fresh
<1> QED
  BY <1>1, <1>2, <1>3 DEF Inv

(* Somebody else holds the lock: the wake is coalesced, waits, or passes by.  *)
LEMMA HeldSteps ==
    ASSUME Inv, NEW p \in Process, Held(p) \/ WaitOver(p)
    PROVE  Inv'
<1>1. p # owner /\ proc[p] \in Outside
  BY NotInTheLoop DEF Inv, Held, WaitOver, At, Loop
<1>2. PICK me \in Outside : proc' = [proc EXCEPT ![p] = me]
  <2>1. Off \in Outside /\ [pc |-> "wait"] \in Outside /\ [pc |-> "direct"] \in Outside
    BY DEF Off, Outside
  <2>2. [proc[p] EXCEPT !.pc = "look"] \in Outside
    BY <1>1, OutsidePcMoves
  <2> QED
    BY <2>1, <2>2 DEF Held, WaitOver, Go, Coalesce
<1>3. owner' = owner /\ file' = file /\ work' = work /\ paused' = paused
      /\ owed' \in {owed, {}} /\ (Fault \/ UNCHANGED faults)
  BY DEF Held, WaitOver
<1>4. ProcOK'
  BY <1>1, <1>2, <1>3, OutsiderGoesOn DEF Inv
<1>5. FileOK' /\ WorkOK'
  BY <1>3 DEF Inv, FileOK, WorkOK
<1>6. CountersOK'
  BY <1>3, FaultCounted DEF Inv, CountersOK
<1>7. ClosingClean'
  <2>1. me.pc # "close"
    BY KindsApart
  <2> QED
    BY <1>2, <1>3, <2>1, StaysClean DEF Inv, At, ProcOK
<1> QED
  BY <1>4, <1>5, <1>6, <1>7 DEF Inv

(* The owner's own steps, with the record it goes on with.                    *)
LEMMA OwnerStep ==
    ASSUME Inv, NEW p \in Process, proc[p] \in Owner, NEW me \in Owner, WithinLimits(me),
           proc' = [proc EXCEPT ![p] = me], owner' = owner,
           FileOK', WorkOK', paused' = paused, Fault \/ UNCHANGED faults,
           file'.raised = file.raised, owed' \in {owed, {}},
           \A i \in Item : work[i] = "done" => work'[i] = "done",
           me.pc = "close" => At(p, "close")
    PROVE  Inv'
<1>1. p = owner
  BY DEF Inv, ProcOK
<1>2. ProcOK'
  BY <1>1, OwnerGoesOn DEF Inv
<1>3. CountersOK'
  BY FaultCounted DEF Inv, CountersOK
<1>4. ClosingClean'
  BY StaysClean DEF Inv, At, ProcOK
<1> QED
  BY <1>2, <1>3, <1>4 DEF Inv

LEMMA BeginSteps ==
    ASSUME Inv, NEW p \in Process, Begin(p)
    PROVE  Inv'
<1>1. proc[p] \in Owner /\ WithinLimits(proc[p])
  BY InTheLoop DEF Inv, Begin, At, Loop
<1> DEFINE me == [proc[p] EXCEPT !.pc = "top"]
<1>2. me \in Owner /\ me.pc = "top" /\ WithinLimits(me)
  BY <1>1, PcMoves DEF Loop, WithinLimits, Begin, At
<1>3. FileOK' /\ WorkOK' /\ file'.raised = file.raised
  BY DEF Inv, Begin, FileOK, WorkOK
<1> QED
  BY <1>1, <1>2, <1>3, OwnerStep DEF Begin, Go

(* Closing for a cause, with whatever is owed let go of.                      *)
LEMMA ClosingSteps ==
    ASSUME Inv, NEW p \in Process, proc[p] \in Owner,
           NEW reason \in {"operator_pause", "supervisor_limit", "idle"}, CloseFor(p, reason),
           owed' \in {owed, {}}, UNCHANGED <<owner, work, paused, faults>>
    PROVE  Inv'
<1> DEFINE me == [proc[p] EXCEPT !.pc = "closed"]
<1>1. me \in Owner /\ me.pc = "closed" /\ WithinLimits(me)
  BY PcMoves DEF Loop, WithinLimits
<1>2. FileOK' /\ WorkOK' /\ file'.raised = file.raised
  BY DEF Inv, CloseFor, FileOK, WorkOK
<1>3. proc' = [proc EXCEPT ![p] = me]
  BY DEF CloseFor, Go
<1> HIDE DEF me
<1> QED
  BY <1>1, <1>2, <1>3, OwnerStep

LEMMA TopSteps ==
    ASSUME Inv, NEW p \in Process, Top(p)
    PROVE  Inv'
<1>1. proc[p] \in Owner /\ WithinLimits(proc[p]) /\ proc[p].pc = "top"
  BY InTheLoop DEF Inv, Top, At, Loop
<1>2. CASE paused
  BY <1>1, <1>2, ClosingSteps DEF Top
<1>3. CASE ~paused /\ AtLimit(proc[p])
  BY <1>1, <1>3, ClosingSteps DEF Top
<1>4. CASE ~paused /\ ~AtLimit(proc[p])
  <2> DEFINE me == [proc[p] EXCEPT !.pc = "read"]
  <2>1. me \in Owner /\ me.pc = "read" /\ me.count = proc[p].count /\ me.failures = proc[p].failures
    BY <1>1, PcMoves DEF Loop
  <2>2. proc[p].count < MaxDrains
    BY <1>1, <1>4, SupervisorAssumption DEF AtLimit, Owner
  <2>3. WithinLimits(me)
    BY <1>1, <2>1, <2>2 DEF WithinLimits
  <2>4. proc' = [proc EXCEPT ![p] = me] /\ UNCHANGED <<file, owner, work, paused, faults, owed>>
    BY <1>4 DEF Top, Go
  <2>5. FileOK' /\ WorkOK'
    BY <2>4 DEF Inv, FileOK, WorkOK
  <2> HIDE DEF me
  <2> QED
    BY <1>1, <2>1, <2>3, <2>4, <2>5, OwnerStep
<1> QED
  BY <1>2, <1>3, <1>4

LEMMA ReadRevisionSteps ==
    ASSUME Inv, NEW p \in Process, ReadRevision(p)
    PROVE  Inv'
<1>1. p = owner /\ proc[p] \in Owner /\ WithinLimits(proc[p]) /\ proc[p].pc = "read"
  BY InTheLoop DEF Inv, ReadRevision, At, Loop
<1> DEFINE me == [proc[p] EXCEPT !.pc = "plan"]
<1>2. me \in Owner /\ me.pc = "plan" /\ WithinLimits(me)
  BY <1>1, PcMoves DEF Loop, WithinLimits
<1>3. proc' = [proc EXCEPT ![p] = me] /\ owner' = owner
  BY DEF ReadRevision, Go
<1> HIDE DEF me
<1>4. ProcOK'
  BY <1>1, <1>2, <1>3, OwnerGoesOn DEF Inv
<1>5. FileOK' /\ WorkOK' /\ CountersOK'
  BY DEF Inv, ReadRevision, FileOK, WorkOK, CountersOK
<1>6. ASSUME NEW q \in Process PROVE ~At(q, "close")'
  <2>1. CASE q = p
    BY <1>2, <1>3, <2>1 DEF At, Inv, ProcOK
  <2>2. CASE q # p
    BY <1>1, <1>3, <2>2, InTheLoop DEF At, Inv, ProcOK, Loop
  <2> QED
    BY <2>1, <2>2
<1>7. ClosingClean'
  BY <1>6 DEF ClosingClean
<1> QED
  BY <1>4, <1>5, <1>7 DEF Inv

(* The plan sends the owner to its close only when it saw nothing to do, now  *)
(* or later: what is owed by then is done.                                    *)
LEMMA PlanSteps ==
    ASSUME Inv, NEW p \in Process, Plan(p)
    PROVE  Inv'
<1>1. p = owner /\ proc[p] \in Owner /\ WithinLimits(proc[p]) /\ proc[p].pc = "plan"
  BY InTheLoop DEF Inv, Plan, At, Loop
<1>2. PICK l \in {"backup", "drain", "sleep", "close"} :
          /\ proc' = [proc EXCEPT ![p] = [proc[p] EXCEPT !.pc = l]]
          /\ l = "close" => Due = {} /\ \A i \in Item : work[i] # "later"
  BY DEF Plan, Planned, Go
<1> DEFINE me == [proc[p] EXCEPT !.pc = l]
<1>3. me \in Owner /\ me.pc = l /\ WithinLimits(me)
  <2>1. l \in Loop
    BY DEF Loop
  <2>2. me \in Owner /\ me.pc = l /\ me.count = proc[p].count /\ me.failures = proc[p].failures
    BY <1>1, <2>1, PcMoves
  <2> QED
    BY <1>1, <2>2 DEF WithinLimits
<1>4. proc' = [proc EXCEPT ![p] = me] /\ UNCHANGED <<file, owner, work, paused, faults, owed>>
  BY <1>2 DEF Plan
<1> HIDE DEF me
<1>5. ProcOK'
  BY <1>1, <1>3, <1>4, OwnerGoesOn DEF Inv
<1>6. FileOK' /\ WorkOK' /\ CountersOK'
  BY <1>4 DEF Inv, FileOK, WorkOK, CountersOK
<1>7. ASSUME NEW q \in Process, At(q, "close")'
      PROVE  \A i \in owed : work[i] = "done"
  <2>1. CASE q = p
    <3>1. l = "close"
      BY <1>3, <1>4, <1>7, <2>1 DEF At, Inv, ProcOK
    <3> QED
      BY <1>2, <3>1 DEF Inv, WorkOK, Due
  <2>2. CASE q # p
    BY <1>1, <1>4, <1>7, <2>2, InTheLoop DEF At, Inv, ProcOK, Loop
  <2> QED
    BY <2>1, <2>2
<1>8. ClosingClean'
  BY <1>4, <1>7 DEF ClosingClean
<1> QED
  BY <1>5, <1>6, <1>8 DEF Inv

LEMMA CloseIdleSteps ==
    ASSUME Inv, NEW p \in Process, CloseIdle(p)
    PROVE  Inv'
<1>1. proc[p] \in Owner /\ WithinLimits(proc[p]) /\ proc[p].pc = "close"
  BY InTheLoop DEF Inv, CloseIdle, At, Loop
<1>2. CASE file.raised
  <2> DEFINE me == [proc[p] EXCEPT !.pc = "top"]
  <2>1. me \in Owner /\ me.pc = "top" /\ WithinLimits(me)
    BY <1>1, PcMoves DEF Loop, WithinLimits
  <2>2. proc' = [proc EXCEPT ![p] = me] /\ UNCHANGED <<file, owner, work, paused, faults, owed>>
    BY <1>2 DEF CloseIdle, Go
  <2>3. FileOK' /\ WorkOK'
    BY <2>2 DEF Inv, FileOK, WorkOK
  <2> HIDE DEF me
  <2> QED
    BY <1>1, <2>1, <2>2, <2>3, OwnerStep
<1>3. CASE ~file.raised
  BY <1>1, <1>3, ClosingSteps DEF CloseIdle
<1> QED
  BY <1>2, <1>3

LEMMA SleepSteps ==
    ASSUME Inv, NEW p \in Process, Sleep(p) \/ WindowOver(p)
    PROVE  Inv'
<1>1. p = owner /\ proc[p] \in Owner /\ WithinLimits(proc[p])
  BY InTheLoop DEF Inv, Sleep, WindowOver, At, Loop, ProcOK
<1>2. PICK me \in Owner : /\ proc' = [proc EXCEPT ![p] = me]
                          /\ WithinLimits(me) /\ me.pc \in {"top", proc[p].pc}
  <2>1. CASE Sleep(p)
    <3> DEFINE me == [proc[p] EXCEPT !.pc = "top", !.busy = FALSE]
    <3>1. me \in Owner /\ me.pc = "top" /\ me.failures = proc[p].failures
      BY <1>1 DEF Owner, Loop
    <3>2. proc' = [proc EXCEPT ![p] = me]
      BY <2>1 DEF Sleep, Inv, ProcOK
    <3>3. proc[p].pc = "sleep"
      BY <2>1 DEF Sleep, At
    <3> QED
      BY <1>1, <3>1, <3>2, <3>3 DEF WithinLimits
  <2>2. CASE WindowOver(p)
    <3> DEFINE me == [proc[p] EXCEPT !.over = TRUE]
    <3>1. me \in Owner /\ me.pc = proc[p].pc /\ me.failures = proc[p].failures /\ me.count = proc[p].count
      BY <1>1 DEF Owner
    <3>2. proc' = [proc EXCEPT ![p] = me]
      BY <2>2 DEF WindowOver
    <3> QED
      BY <1>1, <3>1, <3>2 DEF WithinLimits
  <2> QED
    BY <2>1, <2>2
<1>3. UNCHANGED <<file, owner, work, paused, owed>> /\ (Fault \/ UNCHANGED faults)
  BY DEF Sleep, WindowOver
<1>4. FileOK' /\ WorkOK'
  BY <1>3 DEF Inv, FileOK, WorkOK
<1>5. me.pc = "close" => At(p, "close")
  BY <1>2 DEF At
<1> QED
  BY <1>1, <1>2, <1>3, <1>4, <1>5, OwnerStep

(* What a pass makes of its owner's counts.                                   *)
LEMMA Counted ==
    ASSUME NEW r \in Owner, r.count < MaxDrains
    PROVE  LET me == [r EXCEPT !.pc = "top", !.planned = TRUE, !.count = @ + 1]
           IN me \in Owner /\ me.pc = "top" /\ me.failures = r.failures
<1>1. r.count + 1 \in 0 .. MaxDrains
  BY SupervisorAssumption DEF Owner
<1>2. "top" \in Loop
  BY DEF Loop
<1> QED
  BY <1>1, <1>2 DEF Owner

LEMMA Failed ==
    ASSUME NEW r \in Owner, r.failures < MaxFailures
    PROVE  LET me == [r EXCEPT !.progress = FALSE, !.failures = @ + 1, !.busy = TRUE]
           IN me \in Owner /\ me.pc = r.pc /\ me.failures = r.failures + 1
<1>1. r.failures + 1 \in 0 .. MaxFailures
  BY SupervisorAssumption DEF Owner
<1> QED
  BY <1>1 DEF Owner

LEMMA Ran ==
    ASSUME NEW r \in Owner, r.pc = "top", NEW progress \in BOOLEAN, NEW busy \in BOOLEAN
    PROVE  LET me == [r EXCEPT !.progress = progress, !.failures = 0, !.busy = busy]
           IN me \in Owner /\ me.pc = "top" /\ WithinLimits(me)
<1>1. 0 \in 0 .. MaxFailures /\ 0 < MaxFailures
  BY SupervisorAssumption
<1> DEFINE me == [r EXCEPT !.progress = progress, !.failures = 0, !.busy = busy]
<1>2. me \in Owner /\ me.pc = "top" /\ me.failures = 0
  BY <1>1 DEF Owner
<1> QED
  BY <1>1, <1>2 DEF WithinLimits

(* A pass is begun below the limit, so that it may be counted, and one more   *)
(* failure reaches MaxFailures at most, where the loop ends.                  *)
LEMMA DrainSteps ==
    ASSUME Inv, NEW p \in Process, Drain(p)
    PROVE  Inv'
<1> DEFINE counted == [proc[p] EXCEPT !.pc = "top", !.planned = TRUE, !.count = @ + 1]
           failing == [counted EXCEPT !.progress = FALSE, !.failures = @ + 1, !.busy = TRUE]
<1>1. proc[p] \in Owner /\ WithinLimits(proc[p]) /\ proc[p].pc = "drain"
  BY InTheLoop DEF Inv, Drain, At, Loop
<1>2. /\ counted \in Owner /\ counted.pc = "top" /\ counted.failures = proc[p].failures
      /\ counted.failures < MaxFailures
  BY <1>1, Counted DEF WithinLimits
<1> HIDE DEF counted
<1>3. /\ failing \in Owner /\ failing.pc = "top" /\ failing.failures = counted.failures + 1
  BY <1>2, Failed
<1>4. ASSUME NEW progress \in BOOLEAN, NEW busy \in BOOLEAN
      PROVE  LET me == [counted EXCEPT !.progress = progress, !.failures = 0, !.busy = busy]
             IN me \in Owner /\ me.pc = "top" /\ WithinLimits(me)
  BY <1>2, Ran
<1> HIDE DEF failing
<1>5. CASE \E done \in SUBSET Queued : \E off \in SUBSET (Queued \ done) :
              /\ Fault \/ UNCHANGED faults
              /\ work' = Finished(done, off)
              /\ proc' = [proc EXCEPT ![p] =
                     [counted EXCEPT !.progress = done # {}, !.failures = 0, !.busy = FALSE]]
              /\ UNCHANGED <<file, owed, owner, paused>>
  <2>1. PICK done \in SUBSET Queued, off \in SUBSET Queued :
              /\ Fault \/ UNCHANGED faults
              /\ work' = Finished(done, off)
              /\ proc' = [proc EXCEPT ![p] =
                     [counted EXCEPT !.progress = done # {}, !.failures = 0, !.busy = FALSE]]
              /\ UNCHANGED <<file, owed, owner, paused>>
    BY <1>5
  <2>2. WorkOK' /\ (\A i \in Item : work[i] = "done" => work'[i] = "done")
    BY <2>1, FinishedKeeps DEF Inv, Queued
  <2>3. FileOK'
    BY <2>1 DEF Inv, FileOK
  <2>4. (done # {}) \in BOOLEAN
    OBVIOUS
  <2> DEFINE me == [counted EXCEPT !.progress = done # {}, !.failures = 0, !.busy = FALSE]
  <2>5. me \in Owner /\ me.pc = "top" /\ WithinLimits(me)
    BY <1>4, <2>4
  <2>6. proc' = [proc EXCEPT ![p] = me]
    BY <2>1
  <2> HIDE DEF me
  <2> QED
    BY <1>1, <2>1, <2>2, <2>3, <2>5, <2>6, OwnerStep
<1>6. CASE /\ Fault
           /\ \E done \in SUBSET Queued : work' = Finished(done, {})
           /\ proc' = [proc EXCEPT ![p] =
                     [counted EXCEPT !.progress = FALSE, !.failures = 0, !.busy = TRUE]]
           /\ UNCHANGED <<file, owed, owner, paused>>
  <2>1. WorkOK' /\ (\A i \in Item : work[i] = "done" => work'[i] = "done")
    BY <1>6, FinishedKeeps DEF Inv, Queued
  <2>2. FileOK'
    BY <1>6 DEF Inv, FileOK
  <2> DEFINE me == [counted EXCEPT !.progress = FALSE, !.failures = 0, !.busy = TRUE]
  <2>3. me \in Owner /\ me.pc = "top" /\ WithinLimits(me)
    BY <1>4
  <2>4. proc' = [proc EXCEPT ![p] = me]
    BY <1>6
  <2> HIDE DEF me
  <2> QED
    BY <1>1, <1>6, <2>1, <2>2, <2>3, <2>4, OwnerStep
<1>7. CASE /\ Fault /\ failing.failures < MaxFailures
           /\ proc' = [proc EXCEPT ![p] = failing]
           /\ UNCHANGED <<file, work, owed, owner, paused>>
  <2>1. WithinLimits(failing)
    BY <1>3, <1>7 DEF WithinLimits
  <2>2. FileOK' /\ WorkOK'
    BY <1>7 DEF Inv, FileOK, WorkOK
  <2> QED
    BY <1>1, <1>3, <1>7, <2>1, <2>2, OwnerStep
<1>8. CASE /\ Fault /\ failing.failures = MaxFailures
           /\ file' = [file EXCEPT !.accepting = FALSE, !.reason = "worker_failed"]
           /\ proc' = [proc EXCEPT ![p] = [failing EXCEPT !.pc = "closed"]]
           /\ owed' = {}
           /\ UNCHANGED <<work, owner, paused>>
  <2> DEFINE me == [failing EXCEPT !.pc = "closed"]
  <2>1. me \in Owner /\ me.pc = "closed" /\ WithinLimits(me)
    BY <1>3, PcMoves DEF Loop, WithinLimits
  <2>2. proc' = [proc EXCEPT ![p] = me]
    BY <1>8
  <2>3. FileOK' /\ WorkOK' /\ file'.raised = file.raised
    BY <1>8 DEF Inv, FileOK, WorkOK
  <2> HIDE DEF me
  <2> QED
    BY <1>1, <1>8, <2>1, <2>2, <2>3, OwnerStep
<1> QED
  BY <1>5, <1>6, <1>7, <1>8 DEF Drain, counted, failing

LEMMA BackupSteps ==
    ASSUME Inv, NEW p \in Process, RunBackup(p)
    PROVE  Inv'
<1>1. proc[p] \in Owner /\ WithinLimits(proc[p]) /\ proc[p].pc = "backup"
  BY InTheLoop DEF Inv, RunBackup, At, Loop
<1>2. PICK done \in SUBSET Due, off \in SUBSET Due, busy \in BOOLEAN :
          /\ work' = Finished(done, off)
          /\ proc' = [proc EXCEPT ![p].pc = "top", ![p].planned = TRUE, ![p].busy = busy]
          /\ Fault \/ UNCHANGED faults
  <2>1. PICK b \in Due :
          \/ /\ work' = Finished({b}, {})
             /\ proc' = [proc EXCEPT ![p].pc = "top", ![p].planned = TRUE, ![p].busy = FALSE]
             /\ UNCHANGED faults
          \/ /\ Fault
             /\ \E off \in SUBSET {b} :
                   /\ work' = Finished({}, off)
                   /\ proc' = [proc EXCEPT ![p].pc = "top", ![p].planned = TRUE, ![p].busy = off = {}]
    BY DEF RunBackup
  <2>2. CASE /\ work' = Finished({b}, {})
             /\ proc' = [proc EXCEPT ![p].pc = "top", ![p].planned = TRUE, ![p].busy = FALSE]
             /\ UNCHANGED faults
    BY <2>2
  <2>3. ASSUME Fault, NEW off \in SUBSET {b}, work' = Finished({}, off),
               proc' = [proc EXCEPT ![p].pc = "top", ![p].planned = TRUE, ![p].busy = off = {}]
        PROVE  \E d \in SUBSET Due, o \in SUBSET Due, busy \in BOOLEAN :
                  /\ work' = Finished(d, o)
                  /\ proc' = [proc EXCEPT ![p].pc = "top", ![p].planned = TRUE, ![p].busy = busy]
                  /\ Fault \/ UNCHANGED faults
    <3>1. (off = {}) \in BOOLEAN /\ {} \in SUBSET Due /\ off \in SUBSET Due
      OBVIOUS
    <3> QED
      BY <2>3, <3>1
  <2> QED
    BY <2>1, <2>2, <2>3
<1> DEFINE me == [proc[p] EXCEPT !.pc = "top", !.planned = TRUE, !.busy = busy]
<1>3. me \in Owner /\ me.pc = "top" /\ me.failures = proc[p].failures
  BY <1>1 DEF Owner, Loop
<1>4. WithinLimits(me)
  BY <1>1, <1>3 DEF WithinLimits
<1>5. proc' = [proc EXCEPT ![p] = me]
  BY <1>2 DEF Inv, ProcOK
<1> HIDE DEF me
<1>6. UNCHANGED <<file, owner, paused, owed>>
  BY DEF RunBackup
<1>7. WorkOK' /\ (\A i \in Item : work[i] = "done" => work'[i] = "done")
  BY <1>2, <1>6, FinishedKeeps DEF Inv
<1>8. FileOK'
  BY <1>6 DEF Inv, FileOK
<1> QED
  BY <1>1, <1>2, <1>3, <1>4, <1>5, <1>6, <1>7, <1>8, OwnerStep

(* The lock is let go by an owner that closed, or by the system when its      *)
(* process is killed.                                                         *)
LEMMA ReleaseSteps ==
    ASSUME Inv, NEW p \in Process, Release(p)
    PROVE  Inv'
<1>1. p = owner
  BY InTheLoop DEF Inv, Release, At, Loop
<1> DEFINE me == IF proc[p].raised /\ proc[p].count = 0 THEN [pc |-> "direct"] ELSE Off
<1>2. me \in Outside /\ me.pc # "close" /\ proc' = [proc EXCEPT ![p] = me]
  <2>1. /\ [pc |-> "direct"] \in Outside /\ [pc |-> "direct"].pc # "close"
        /\ Off \in Outside /\ Off.pc # "close"
    BY DEF Off, Outside
  <2> QED
    BY <2>1 DEF Release
<1> HIDE DEF me
<1>3. ProcOK'
  BY <1>1, <1>2, LockLetGo DEF Inv, Release
<1>4. FileOK' /\ WorkOK' /\ CountersOK'
  BY DEF Inv, Release, FileOK, WorkOK, CountersOK
<1>5. ClosingClean'
  BY <1>2, StaysClean DEF Inv, Release, At, ProcOK
<1> QED
  BY <1>3, <1>4, <1>5 DEF Inv

LEMMA DirectPassSteps ==
    ASSUME Inv, NEW p \in Process, DirectPass(p)
    PROVE  Inv'
<1>1. p # owner
  BY NotInTheLoop DEF Inv, DirectPass, At, Loop
<1>2. Off \in Outside /\ Off.pc # "close"
  BY DEF Off, Outside
<1>3. ProcOK'
  BY <1>1, <1>2, OutsiderGoesOn DEF Inv, DirectPass
<1>4. WorkOK' /\ (\A i \in Item : work[i] = "done" => work'[i] = "done")
  BY FinishedKeeps DEF Inv, DirectPass, Queued
<1>5. FileOK' /\ CountersOK'
  BY DEF Inv, DirectPass, FileOK, CountersOK
<1>6. ClosingClean'
  BY <1>2, <1>4, StaysClean DEF Inv, DirectPass, At, ProcOK
<1> QED
  BY <1>3, <1>4, <1>5, <1>6 DEF Inv

LEMMA RaiseSteps ==
    ASSUME Inv, NEW p \in Process, Raise(p)
    PROVE  Inv'
<1>1. CountersOK' /\ WorkOK' /\ owed' = {}
  BY FaultCounted DEF Inv, Raise, CountersOK, WorkOK
<1>2. CASE owner = p
  <2> DEFINE me == [proc[p] EXCEPT !.pc = "closed", !.raised = TRUE]
  <2>1. proc[p] \in Owner
    BY <1>2 DEF Inv, ProcOK
  <2>2. me \in Owner /\ me.pc = "closed" /\ WithinLimits(me)
    BY <2>1 DEF Owner, Loop, WithinLimits
  <2>3. proc' = [proc EXCEPT ![p] = me]
    BY <1>2 DEF Raise, Inv, ProcOK
  <2>4. owner' = owner /\ FileOK'
    BY <1>2 DEF Raise, Inv, FileOK
  <2> HIDE DEF me
  <2>5. ProcOK'
    BY <1>2, <2>2, <2>3, <2>4, OwnerGoesOn DEF Inv
  <2> QED
    BY <1>1, <2>4, <2>5 DEF Inv, ClosingClean
<1>3. CASE owner # p
  <2>1. [pc |-> "direct"] \in Outside
    BY DEF Outside
  <2>2. ProcOK'
    BY <1>3, <2>1, OutsiderGoesOn DEF Inv, Raise
  <2>3. FileOK'
    BY <1>3 DEF Inv, Raise, FileOK
  <2> QED
    BY <1>1, <2>2, <2>3 DEF Inv, ClosingClean
<1> QED
  BY <1>2, <1>3

LEMMA CrashSteps ==
    ASSUME Inv, NEW p \in Process, Crash(p)
    PROVE  Inv'
<1>1. CountersOK' /\ WorkOK' /\ FileOK' /\ owed' = {}
  BY FaultCounted DEF Inv, Crash, CountersOK, WorkOK, FileOK
<1>2. Off \in Outside
  BY DEF Off, Outside
<1>3. ProcOK'
  BY <1>2, LockLetGo, OutsiderGoesOn DEF Inv, Crash
<1> QED
  BY <1>1, <1>3 DEF Inv, ClosingClean

-----------------------------------------------------------------------------
LEMMA StepInv ==
    ASSUME Inv, [Next]_vars
    PROVE  Inv'
<1>1. ASSUME NEW i \in Item, Arrive(i) \/ Ripen(i) PROVE Inv'
  BY <1>1, WorldSteps
<1>2. ASSUME NEW p \in Process, Step(p) PROVE Inv'
  BY <1>2, RequestSteps, AcquireSteps, HeldSteps, BeginSteps, TopSteps, ReadRevisionSteps,
     PlanSteps, CloseIdleSteps, SleepSteps, DrainSteps, BackupSteps, ReleaseSteps,
     DirectPassSteps DEF Step
<1>3. ASSUME NEW p \in Process, WaitOver(p) \/ Launch(p) \/ Raise(p) \/ Crash(p) \/ WindowOver(p)
      PROVE  Inv'
  BY <1>3, HeldSteps, LaunchSteps, RaiseSteps, CrashSteps, SleepSteps
<1>4. CASE Resume
  BY <1>4, LaunchSteps DEF Resume, ResumeOnce
<1>5. CASE SetPaused
  BY <1>5, PauseSteps
<1>6. CASE UNCHANGED vars
  BY <1>6 DEF vars, Inv, ProcOK, FileOK, WorkOK, CountersOK, ClosingClean, At, WithinLimits
<1> QED
  BY <1>1, <1>2, <1>3, <1>4, <1>5, <1>6 DEF Next

(* Every reachable state keeps the strengthened invariant.                    *)
THEOREM Invariance == Spec => []Inv
BY InitInv, StepInv, PTL DEF Spec

(* The loop is run by the process that holds the owner lock and by no other,  *)
(* within its limits, for any processes, items and limits (`supervise`).      *)
THEOREM TypeCorrect == Spec => []TypeOK
<1>1. Inv => TypeOK
  BY DEF Inv, ProcOK, FileOK, WorkOK, CountersOK, TypeOK
<1> QED
  BY <1>1, Invariance, PTL

(* An owner that closes as idle leaves no announced work, whatever wakes come *)
(* between its last look and its close (`close_if_unchanged`).                *)
THEOREM IdleClosesCleanHolds == Spec => IdleClosesClean
<1>1. ASSUME Inv, [Next]_vars, file'.reason = "idle", file.reason # "idle"
      PROVE  \A i \in owed : work[i] = "done"
  <2>1. PICK p \in Process : CloseIdle(p)
    <3>1. file' # file
      BY <1>1
    <3>2. ASSUME NEW p \in Process, Raise(p) \/ Begin(p) \/ Top(p) \/ Drain(p) \/ Request(p) \/ ReadRevision(p)
          PROVE  FALSE
      BY <1>1, <3>1, <3>2
      DEF Raise, Begin, Top, Drain, Request, ReadRevision, CloseFor, Inv, FileOK
    <3> QED
      BY <1>1, <3>1, <3>2
      DEF Next, vars, Arrive, Ripen, Step, Acquire, Held, Plan, Sleep, RunBackup, Release, DirectPass,
          WaitOver, Launch, Crash, WindowOver, Resume, ResumeOnce, SetPaused
  <2>2. At(p, "close") /\ ~file.raised
    BY <1>1, <2>1 DEF CloseIdle, CloseFor
  <2> QED
    BY <1>1, <2>2 DEF Inv, ClosingClean
<1>2. Inv /\ [Next]_vars =>
          [(file'.reason = "idle" /\ file.reason # "idle") => \A i \in owed : work[i] = "done"]_vars
  BY <1>1
<1> QED
  BY <1>2, Invariance, PTL DEF Spec, IdleClosesClean
=============================================================================
