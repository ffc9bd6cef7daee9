---------------------- MODULE ConsolidationBatchesProofs ----------------------
(* Proofs about the consolidation of one conversation: nothing counts as read *)
(* that no accepted answer read, nothing withdrawn is derived from, and an    *)
(* answer settles no row that moved since its read, adoptions begun since     *)
(* aside.                                                                     *)
EXTENDS ConsolidationBatches, FiniteSetTheorems, TLAPS

States == {"absent", "pending", "leased", "done", "failed", "obsolete"}

Asking == {"empty", "asked", "paged"}

(* The types of all but the ghost that watches the siblings' rows.            *)
CoreTyped ==
    /\ rows \in [Source -> Row]
    /\ adoption \in [Source -> {"none", "open", "review", "closed"}]
    /\ watermark \in 0 .. N
    /\ arrived \in 0 .. N
    /\ {live, held, derived} \subseteq SUBSET Source
    /\ approved \in [Source -> Nat]
    /\ task \in [Worker -> {NoTask} \cup Claimed \cup Asked]
    /\ reviews \in Nat

(* A settled source was read whole, or a private interval may have covered it *)
(* between its admission and its read.                                        *)
SettledWasRead == \A s \in Source : rows[s].state = "done" => s \in derived \cup Private

(* An owner's decision about a reply can only be taken back to "review".      *)
ApprovedReplies ==
    \A s \in Source \ Import : approved[s] # 0 => adoption[s] # "none"

ReadBeforeSettled ==
    /\ held \subseteq Private
    /\ WatermarkWasRead
    /\ AdoptedWasRead
    /\ SettledWasRead
    /\ ApprovedReplies

(* No two tasks lease one row with one token, and none outruns its row.       *)
LeasesApart ==
    /\ \A w \in Worker : task[w] # NoTask => task[w].token <= rows[task[w].item].token
    /\ \A v, w \in Worker :
          /\ v # w /\ task[v] # NoTask /\ task[w] # NoTask
          /\ task[v].item = task[w].item
          => task[v].token # task[w].token

(* Whoever still holds the lease of a page has a page left to read.           *)
PageLeft ==
    \A w \in Worker : task[w].step = "paged" /\ VerifyLease(w)
        => rows[task[w].item].offset < Pages

(* Nothing was left to read because the watermark is past the source, or      *)
(* because a private interval covers it.                                      *)
NothingLeft ==
    \A w \in Worker : task[w].step = "empty" => task[w].item \in derived \cup Private

(* A sibling's token when it was read is at most its row's.                   *)
PendingAsRead ==
    \A w \in Worker : task[w].step \in Asking => \A p \in task[w].pending :
        p[1] <= arrived /\ p[2] <= rows[p[1]].token

TasksInOrder == LeasesApart /\ PageLeft /\ NothingLeft /\ PendingAsRead

Inv == CoreTyped /\ ReadBeforeSettled /\ TasksInOrder

-----------------------------------------------------------------------------
(* Induction over numbers, in the form the provers can use: every nonempty    *)
(* set of naturals has a least element.                                       *)
LEMMA LeastElement ==
    ASSUME NEW T \in SUBSET Nat, T # {}
    PROVE  \E x \in T : \A y \in T : x <= y
<1> DEFINE Down == {0 .. n : n \in T}
           R == StrictSubsetOrdering(Nat)
<1>1. Down \subseteq FiniteSubsetsOf(Nat) /\ Down # {}
  <2>1. \A n \in T : 0 .. n \in FiniteSubsetsOf(Nat)
    BY FS_Interval DEF FiniteSubsetsOf
  <2> QED
    BY <2>1
<1>2. \E D \in Down : \A E \in Down : ~ (<<E, D>> \in R)
  <2> HIDE DEF Down, R
  <2>1. IsWellFoundedOn(R, FiniteSubsetsOf(Nat))
    BY FS_StrictSubsetOrderingWellFounded DEF R
  <2> QED
    BY <1>1, <2>1, WFMin
<1>3. PICK x \in T : \A E \in Down : ~ (<<E, 0 .. x>> \in R)
  BY <1>2
<1>4. ASSUME NEW y \in T, y < x PROVE FALSE
  <2>1. 0 .. y \in Down /\ 0 .. y \subseteq 0 .. x /\ 0 .. y \subseteq Nat /\ 0 .. x \subseteq Nat
    BY <1>4
  <2>2. x \in 0 .. x /\ x \notin 0 .. y
    BY <1>4
  <2> QED
    BY <1>3, <2>1, <2>2 DEF StrictSubsetOrdering
<1> QED
  BY <1>4

(* _processed_sequence is defined: the watermark goes on past the sources     *)
(* declared one after the other, and no further.                              *)
LEMMA ProcessedSequenceIs ==
    ASSUME watermark \in 0 .. N, NEW declared \in SUBSET Source
    PROVE  /\ ProcessedSequence(declared) \in watermark .. N
           /\ \A j \in watermark + 1 .. ProcessedSequence(declared) : j \in declared
<1> USE BatchAssumption
<1> DEFINE Stops == {k \in watermark .. N : k + 1 \notin declared}
<1>1. N \in Stops
  BY DEF Source
<1>2. PICK k \in Stops : \A y \in Stops : k <= y
  <2>1. Stops \in SUBSET Nat /\ Stops # {}
    BY <1>1
  <2> QED
    BY <2>1, LeastElement
<1>3. \A j \in watermark + 1 .. k : j \in declared
  <2> SUFFICES ASSUME NEW j \in watermark + 1 .. k, j \notin declared PROVE FALSE
    OBVIOUS
  <2>1. j - 1 \in Stops /\ j - 1 < k
    BY <1>2
  <2> QED
    BY <1>2, <2>1
<1> QED
  BY <1>2, <1>3 DEF ProcessedSequence

(* The kinds of tasks are told apart by their step.                           *)
LEMMA TaskKinds ==
    ASSUME CoreTyped, NEW w \in Worker
    PROVE  /\ task[w].step \in {"none"} \cup {"claimed", "admitted", "adopting"} \cup Asking
           /\ task[w] = NoTask <=> task[w].step = "none"
           /\ task[w].step \in {"claimed", "admitted", "adopting"} <=> task[w] \in Claimed
           /\ task[w].step \in Asking <=> task[w] \in Asked
           /\ task[w] # NoTask => task[w].item \in Source /\ task[w].token \in Nat
BY DEF CoreTyped, NoTask, Claimed, Asked, Asking

(* Only a task that waits for an answer has the fields an answer needs.       *)
LEMMA TaskFields ==
    ASSUME CoreTyped, NEW w \in Worker
    PROVE  /\ "changed" \in DOMAIN task[w] <=> task[w].step \in Asking
           /\ "pending" \in DOMAIN task[w] <=> task[w].step \in Asking
<1>1. CASE task[w] = NoTask
  BY <1>1 DEF NoTask, Asking
<1>2. CASE task[w] \in Claimed
  BY <1>2 DEF Claimed, Asking
<1>3. CASE task[w] \in Asked
  BY <1>3 DEF Asked, Asking
<1> QED
  BY <1>1, <1>2, <1>3 DEF CoreTyped

(* A row that only gets another state.                                        *)
LEMMA RowTurns ==
    ASSUME rows \in [Source -> Row], NEW s \in Source, NEW state \in States,
           rows' = [rows EXCEPT ![s].state = state]
    PROVE  /\ rows' \in [Source -> Row]
           /\ \A t \in Source : t # s => rows'[t] = rows[t]
           /\ rows'[s].state = state
           /\ \A t \in Source : rows'[t].token = rows[t].token /\ rows'[t].offset = rows[t].offset
BY DEF Row, States

(* A row that gets another state under a new token.                           *)
LEMMA RowRenewed ==
    ASSUME rows \in [Source -> Row], NEW s \in Source, NEW state \in States,
           rows' = [rows EXCEPT ![s].state = state, ![s].token = @ + 1]
    PROVE  /\ rows' \in [Source -> Row]
           /\ \A t \in Source : t # s => rows'[t] = rows[t]
           /\ rows'[s].state = state
           /\ rows'[s].token = rows[s].token + 1
           /\ \A t \in Source : rows'[t].token >= rows[t].token
BY DEF Row, States

(* A task ends; the others go on as they were.                                *)
LEMMA TaskEnds ==
    ASSUME CoreTyped, NEW w \in Worker, Dropped(w)
    PROVE  /\ task' \in [Worker -> {NoTask} \cup Claimed \cup Asked]
           /\ task'[w] = NoTask
           /\ \A v \in Worker : v # w => task'[v] = task[v]
BY DEF CoreTyped, Dropped

(* What a task keeps while it goes on, or it is given up: it turns neither    *)
(* into a page nor into an empty read, and its siblings stay as they were.    *)
GoesOn(w) ==
    \/ task'[w] = NoTask
    \/ /\ task[w] # NoTask
       /\ task'[w].item = task[w].item /\ task'[w].token = task[w].token
       /\ task'[w].step \in Asking =>
            /\ task'[w].step = task[w].step
            /\ task'[w].pending = task[w].pending

(* A change noted under the answers that are waited for.                      *)
LEMMA NotedGoesOn ==
    ASSUME CoreTyped, NEW change \in {"retraction", "episode"}, NEW R \in SUBSET Worker,
           NEW T, \A w \in Worker : T[w] = IF w \in R THEN NoTask ELSE task[w],
           task' = Noted(T, change)
    PROVE  /\ task' \in [Worker -> {NoTask} \cup Claimed \cup Asked]
           /\ \A w \in Worker : GoesOn(w)
           /\ \A w \in R : task'[w] = NoTask
           /\ \A w \in Worker \ R : task[w] # NoTask => task'[w] # NoTask
<1> SUFFICES ASSUME NEW w \in Worker
             PROVE  /\ task'[w] \in {NoTask} \cup Claimed \cup Asked
                    /\ GoesOn(w)
                    /\ w \in R => task'[w] = NoTask
                    /\ w \notin R /\ task[w] # NoTask => task'[w] # NoTask
  BY DEF Noted
<1>1. CASE w \in R
  <2>1. task'[w] = NoTask
    BY <1>1 DEF Noted, NoTask
  <2> QED
    BY <2>1, <1>1 DEF GoesOn
<1>2. CASE w \notin R /\ task[w].step \notin Asking
  <2>1. task'[w] = task[w]
    BY <1>2, TaskFields DEF Noted
  <2> QED
    BY <2>1, <1>2, TaskKinds DEF GoesOn, CoreTyped
<1>3. CASE w \notin R /\ task[w].step \in Asking
  <2>1. task'[w] = [task[w] EXCEPT !.changed = @ \cup {change}]
    BY <1>3, TaskFields DEF Noted
  <2>2. task[w] \in Asked
    BY <1>3, TaskKinds
  <2>3. task'[w] \in Asked /\ task'[w] # NoTask
    BY <2>1, <2>2 DEF Asked, NoTask
  <2> QED
    BY <2>1, <2>2, <2>3, <1>3 DEF GoesOn, Asked, NoTask
<1> QED
  BY <1>1, <1>2, <1>3

(* While every task goes on or ends, tokens only grow and a lease is given    *)
(* only with a new one, the tasks stay in order.                              *)
LEMMA TasksStayInOrder ==
    ASSUME CoreTyped, TasksInOrder, CoreTyped',
           \A w \in Worker : GoesOn(w),
           \A s \in Source : rows'[s].token >= rows[s].token,
           \A s \in Source : rows'[s].state = "leased" => rows'[s] = rows[s],
           derived \subseteq derived', arrived' = arrived \/ arrived' = arrived + 1
    PROVE  TasksInOrder'
<1> USE TaskKinds
<1>1. \A w \in Worker : task'[w] # NoTask =>
          /\ task[w] # NoTask /\ task'[w].item = task[w].item /\ task'[w].token = task[w].token
          /\ task[w].item \in Source /\ task[w].token \in Nat
  BY DEF GoesOn
<1>2. \A s \in Source : rows[s].token \in Nat /\ rows'[s].token \in Nat
  BY DEF CoreTyped, Row
<1>3. LeasesApart'
  BY <1>1, <1>2 DEF LeasesApart, TasksInOrder
<1>4. \A w \in Worker : task'[w].step \in Asking =>
          /\ task'[w] # NoTask /\ task[w].step = task'[w].step
          /\ task'[w].pending = task[w].pending
  BY DEF GoesOn, Asking, NoTask
<1>5. PageLeft'
  BY <1>1, <1>4 DEF PageLeft, TasksInOrder, VerifyLease, Asking
<1>6. NothingLeft'
  BY <1>1, <1>4 DEF NothingLeft, TasksInOrder, Asking
<1>7. PendingAsRead'
  <2> SUFFICES ASSUME NEW w \in Worker, task'[w].step \in Asking, NEW p \in task'[w].pending
               PROVE  p[1] <= arrived' /\ p[2] <= rows'[p[1]].token
    BY DEF PendingAsRead
  <2>1. task[w] \in Asked /\ p \in task[w].pending
    BY <1>4
  <2>2. p[1] \in Nat /\ p[1] \in Source /\ p[2] \in Nat /\ arrived \in Nat
    <3>1. p[1] \in Source /\ p[2] \in Nat
      BY <2>1 DEF Asked
    <3>2. arrived \in Nat
      BY BatchAssumption DEF CoreTyped
    <3> QED
      BY <3>1, <3>2, BatchAssumption DEF Source
  <2> QED
    BY <1>2, <1>4, <2>1, <2>2 DEF PendingAsRead, TasksInOrder
<1> QED
  BY <1>3, <1>5, <1>6, <1>7 DEF TasksInOrder

(* While nothing new is settled, what is settled was read.                    *)
LEMMA StaysRead ==
    ASSUME ReadBeforeSettled,
           \A s \in Source : rows'[s].state = "done" => rows[s].state = "done",
           UNCHANGED <<adoption, watermark, held, approved, derived>>
    PROVE  ReadBeforeSettled'
BY DEF ReadBeforeSettled, WatermarkWasRead, AdoptedWasRead, SettledWasRead, ApprovedReplies

(* Nothing a task rests on moved.                                             *)
LEMMA TasksUntouched ==
    ASSUME CoreTyped, task' = task
    PROVE  \A w \in Worker : GoesOn(w)
BY TaskKinds DEF GoesOn

(* A task that ends leaves the others as they are.                            *)
LEMMA OthersGoOn ==
    ASSUME CoreTyped, NEW w \in Worker, Dropped(w)
    PROVE  /\ task' \in [Worker -> {NoTask} \cup Claimed \cup Asked]
           /\ \A v \in Worker : GoesOn(v)
BY TaskEnds, TaskKinds DEF GoesOn

(* Nothing was captured yet, so nothing is settled.                           *)
LEMMA InitInv == Init => Inv
<1> SUFFICES ASSUME Init PROVE Inv
  OBVIOUS
<1> USE BatchAssumption DEF Init
<1>1. CoreTyped
  BY DEF CoreTyped, Row
<1>2. ReadBeforeSettled
  BY DEF ReadBeforeSettled, WatermarkWasRead, AdoptedWasRead, SettledWasRead, ApprovedReplies
<1>3. TasksInOrder
  BY DEF TasksInOrder, LeasesApart, PageLeft, NothingLeft, PendingAsRead, NoTask, Asking
<1> QED
  BY <1>1, <1>2, <1>3 DEF Inv

-----------------------------------------------------------------------------
(* What other parts of the program do.                                        *)

LEMMA ArriveInv == Inv /\ Arrive => Inv'
<1> SUFFICES ASSUME Inv, Arrive PROVE Inv'
  OBVIOUS
<1> USE DEF Inv
<1>1. arrived + 1 \in Source /\ arrived' \in 0 .. N /\ arrived' = arrived + 1
  BY BatchAssumption DEF Arrive, CoreTyped, Source
<1>2. /\ rows' \in [Source -> Row]
      /\ \A s \in Source : /\ rows'[s].token = rows[s].token
                           /\ rows'[s].state \in {"leased", "done"} => rows'[s] = rows[s]
  BY <1>1, RowTurns DEF Arrive, CoreTyped, Row, States
<1>3. CoreTyped'
  BY <1>1, <1>2 DEF Arrive, CoreTyped
<1>4. ReadBeforeSettled'
  BY <1>2, StaysRead DEF Arrive
<1>5. \A s \in Source : rows'[s].token >= rows[s].token
  BY <1>2, <1>3 DEF CoreTyped, Row
<1> QED
  BY <1>2, <1>3, <1>4, <1>5, TasksUntouched, TasksStayInOrder DEF Arrive

LEMMA DeleteInv ==
    ASSUME Inv, NEW s \in Source, Delete(s)
    PROVE  Inv'
<1> USE DEF Inv
<1>1. /\ rows' \in [Source -> Row]
      /\ \A t \in Source : /\ rows'[t].token >= rows[t].token
                           /\ rows'[t].state \in {"leased", "done"} => rows'[t] = rows[t]
  <2>1. CASE rows' = rows
    BY <2>1 DEF CoreTyped, Row
  <2>2. CASE rows' = [rows EXCEPT ![s].state = "obsolete", ![s].token = @ + 1]
    <3>1. "obsolete" \in States
      BY DEF States
    <3> QED
      BY <2>2, <3>1, RowRenewed DEF CoreTyped
  <2> QED
    BY <2>1, <2>2 DEF Delete
<1>2. /\ task' \in [Worker -> {NoTask} \cup Claimed \cup Asked]
      /\ \A w \in Worker : GoesOn(w)
  <2>1. {} \in SUBSET Worker /\ \A w \in Worker : task[w] = IF w \in {} THEN NoTask ELSE task[w]
    OBVIOUS
  <2>2. task' = Noted(task, "retraction")
    BY DEF Delete
  <2> QED
    BY <2>1, <2>2, NotedGoesOn
<1>3. CoreTyped'
  BY <1>1, <1>2 DEF Delete, CoreTyped
<1>4. ReadBeforeSettled'
  BY <1>1, StaysRead DEF Delete
<1> QED
  BY <1>1, <1>2, <1>3, <1>4, TasksStayInOrder DEF Delete

LEMMA SuppressInv == Inv /\ Suppress => Inv'
<1> SUFFICES ASSUME Inv, Suppress PROVE Inv'
  OBVIOUS
<1> USE DEF Inv
<1>1. /\ task' \in [Worker -> {NoTask} \cup Claimed \cup Asked]
      /\ \A w \in Worker : GoesOn(w)
  <2>1. {} \in SUBSET Worker /\ \A w \in Worker : task[w] = IF w \in {} THEN NoTask ELSE task[w]
    OBVIOUS
  <2>2. task' = Noted(task, "retraction")
    BY DEF Suppress
  <2> QED
    BY <2>1, <2>2, NotedGoesOn
<1>2. CoreTyped'
  BY <1>1 DEF Suppress, CoreTyped
<1>3. ReadBeforeSettled'
  BY StaysRead DEF Suppress
<1>4. \A s \in Source : rows'[s].token >= rows[s].token
  BY DEF Suppress, CoreTyped, Row
<1> QED
  BY <1>1, <1>2, <1>3, <1>4, TasksStayInOrder DEF Suppress

LEMMA SupersedeInv ==
    ASSUME Inv, NEW s \in Source, Supersede(s)
    PROVE  Inv'
<1> USE DEF Inv
<1>1. CoreTyped'
  BY DEF Supersede, CoreTyped
<1>2. ReadBeforeSettled'
  BY StaysRead DEF Supersede
<1>3. \A t \in Source : rows'[t].token >= rows[t].token
  BY DEF Supersede, CoreTyped, Row
<1> QED
  BY <1>1, <1>2, <1>3, TasksUntouched, TasksStayInOrder DEF Supersede

LEMMA IntervalInv == Inv /\ (OpenInterval \/ CloseInterval) => Inv'
<1> SUFFICES ASSUME Inv, OpenInterval \/ CloseInterval PROVE Inv'
  OBVIOUS
<1> USE DEF Inv, OpenInterval, CloseInterval
<1>1. CoreTyped'
  BY BatchAssumption DEF CoreTyped
<1>2. ReadBeforeSettled'
  BY DEF ReadBeforeSettled, WatermarkWasRead, AdoptedWasRead, SettledWasRead, ApprovedReplies
<1>3. \A t \in Source : rows'[t].token >= rows[t].token
  BY DEF CoreTyped, Row
<1> QED
  BY <1>1, <1>2, <1>3, TasksUntouched, TasksStayInOrder

-----------------------------------------------------------------------------
(* Owner review.                                                              *)

(* A decision that queues a source again, or takes that back.                 *)
LEMMA ReviewKeepsOrder ==
    ASSUME Inv, NEW s \in Source, NEW state \in {"pending", "done", "obsolete"},
           rows' = [rows EXCEPT ![s].state = state, ![s].token = @ + 1],
           task' = task, reviews' = reviews + 1,
           adoption' \in [Source -> {"none", "open", "review", "closed"}],
           approved' \in [Source -> Nat],
           UNCHANGED <<watermark, arrived, live, held, derived>>
    PROVE  CoreTyped' /\ TasksInOrder'
<1> USE DEF Inv
<1>1. state \in States
  BY DEF States
<1>2. /\ rows' \in [Source -> Row]
      /\ \A t \in Source : t # s => rows'[t] = rows[t]
      /\ rows'[s].state # "leased"
      /\ rows'[s].token > rows[s].token
      /\ \A t \in Source : rows'[t].token >= rows[t].token
  <2>1. rows \in [Source -> Row] /\ rows[s].token \in Nat
    BY DEF CoreTyped, Row
  <2>2. /\ rows' \in [Source -> Row]
        /\ \A t \in Source : t # s => rows'[t] = rows[t]
        /\ rows'[s].state = state
        /\ rows'[s].token = rows[s].token + 1
        /\ \A t \in Source : rows'[t].token >= rows[t].token
    BY <1>1, <2>1, RowRenewed
  <2>3. rows[s].token + 1 > rows[s].token
    BY <2>1
  <2> QED
    BY <2>2, <2>3
<1>3. /\ task' \in [Worker -> {NoTask} \cup Claimed \cup Asked]
      /\ \A w \in Worker : GoesOn(w)
  BY TasksUntouched DEF CoreTyped
<1>4. CoreTyped'
  BY <1>2, <1>3 DEF CoreTyped
<1> QED
  BY <1>2, <1>3, <1>4, TasksStayInOrder

LEMMA ApproveImportInv ==
    ASSUME Inv, NEW s \in Source, ApproveImport(s)
    PROVE  Inv'
<1> USE DEF Inv, ApproveImport, Reviewable, Approved, Resumed
<1>1. CoreTyped' /\ TasksInOrder'
  <2>1. adoption' \in [Source -> {"none", "open", "review", "closed"}]
        /\ approved' \in [Source -> Nat]
    BY DEF CoreTyped, Row
  <2> QED
    BY <2>1, ReviewKeepsOrder
<1>2. /\ \A t \in Source : rows'[t].state = "done" => rows[t].state = "done"
      /\ \A t \in Source \ Import : approved'[t] = approved[t]
  BY DEF CoreTyped, Row
<1>3. ReadBeforeSettled'
  BY <1>2 DEF ReadBeforeSettled, WatermarkWasRead, AdoptedWasRead, SettledWasRead,
              ApprovedReplies
<1> QED
  BY <1>1, <1>3

LEMMA ApproveAdoptionInv ==
    ASSUME Inv, NEW s \in Source, ApproveAdoption(s)
    PROVE  Inv'
<1> USE DEF Inv, ApproveAdoption, Reviewable, Approved, Resumed
<1>1. /\ adoption' \in [Source -> {"none", "open", "review", "closed"}]
      /\ approved' \in [Source -> Nat]
  BY DEF CoreTyped, Row
<1>2. CoreTyped' /\ TasksInOrder'
  BY <1>1, ReviewKeepsOrder
<1>3. \A t \in Source : rows'[t].state = "done" => rows[t].state = "done"
  BY DEF CoreTyped, Row
<1>4. \A t \in Source : adoption'[t] # "none" <=> adoption[t] # "none"
  BY DEF CoreTyped
<1>5. ReadBeforeSettled'
  BY <1>3, <1>4 DEF ReadBeforeSettled, WatermarkWasRead, AdoptedWasRead, SettledWasRead,
                    ApprovedReplies, CoreTyped
<1> QED
  BY <1>2, <1>5

LEMMA UndoReviewInv ==
    ASSUME Inv, NEW s \in Source, UndoReview(s)
    PROVE  Inv'
<1> USE DEF Inv, UndoReview, Reviewable
<1>1. /\ adoption' \in [Source -> {"none", "open", "review", "closed"}]
      /\ approved' \in [Source -> Nat]
  BY DEF CoreTyped
<1>2. CoreTyped' /\ TasksInOrder'
  BY <1>1, ReviewKeepsOrder
<1>3. \A t \in Source :
          rows'[t].state = "done" => rows[t].state = "done" \/ (t = s /\ s \notin Import)
  BY DEF CoreTyped, Row
<1>4. \A t \in Source :
          /\ adoption'[t] # "none" => adoption[t] # "none" \/ (t = s /\ s \notin Import)
          /\ t \notin Import /\ adoption[t] # "none" => adoption'[t] # "none"
  BY DEF CoreTyped
<1>5. s \notin Import => s \in derived
  BY DEF ReadBeforeSettled, ApprovedReplies, AdoptedWasRead, CoreTyped
<1>6. ReadBeforeSettled'
  BY <1>3, <1>4, <1>5 DEF ReadBeforeSettled, WatermarkWasRead, AdoptedWasRead, SettledWasRead,
                          ApprovedReplies, CoreTyped
<1> QED
  BY <1>2, <1>6

-----------------------------------------------------------------------------
(* The lease.                                                                 *)

LEMMA ClaimInv ==
    ASSUME Inv, NEW w \in Worker, NEW s \in Source, Claim(w, s)
    PROVE  Inv'
<1> USE DEF Inv
<1>1. /\ rows' \in [Source -> Row]
      /\ \A t \in Source : t # s => rows'[t] = rows[t]
      /\ rows'[s].state = "leased"
      /\ rows'[s].token = rows[s].token + 1
      /\ rows[s].token \in Nat
      /\ \A t \in Source : rows'[t].token >= rows[t].token
  <2>1. rows \in [Source -> Row] /\ "leased" \in States
        /\ rows' = [rows EXCEPT ![s].state = "leased", ![s].token = @ + 1]
    BY DEF CoreTyped, States, Claim
  <2>2. rows[s].token \in Nat
    BY DEF CoreTyped, Row
  <2> QED
    BY <2>1, <2>2, RowRenewed
<1>2. /\ task'[w] = [step |-> "claimed", item |-> s, token |-> rows'[s].token]
      /\ task'[w] \in Claimed
      /\ \A v \in Worker : v # w => task'[v] = task[v]
  <2> DEFINE new == [step |-> "claimed", item |-> s, token |-> rows'[s].token]
  <2>1. task' = [task EXCEPT ![w] = new] /\ task \in [Worker -> {NoTask} \cup Claimed \cup Asked]
    BY DEF Claim, CoreTyped
  <2>2. new \in Claimed
    BY <1>1 DEF Claimed
  <2> QED
    BY <2>1, <2>2
<1>3. \A v \in Worker : v # w =>
          task'[v] \in {NoTask} \cup Claimed \cup Asked /\ task'[v] = task[v]
  BY <1>2 DEF CoreTyped
<1>4. CoreTyped'
  <2>1. task' \in [Worker -> {NoTask} \cup Claimed \cup Asked]
    <3>1. \A v \in Worker : task'[v] \in {NoTask} \cup Claimed \cup Asked
      BY <1>2, <1>3
    <3>2. task' = [v \in Worker |-> task'[v]]
      BY DEF Claim, CoreTyped
    <3> QED
      BY <3>1, <3>2
  <2> QED
    BY <1>1, <2>1 DEF Claim, CoreTyped
<1>5. ReadBeforeSettled'
  BY <1>1, StaysRead DEF Claim
<1>6. \A v \in Worker : v # w /\ task[v] # NoTask =>
          task[v].token <= rows[task[v].item].token /\ task[v].item \in Source /\ task[v].token \in Nat
  BY TaskKinds DEF TasksInOrder, LeasesApart
<1>7. \A t \in Source : rows[t].token \in Nat /\ rows'[t].token \in Nat
  BY <1>1 DEF CoreTyped, Row
<1>8. LeasesApart'
  <2>1. ASSUME NEW v \in Worker, task'[v] # NoTask
        PROVE  task'[v].token <= rows'[task'[v].item].token
    BY <1>1, <1>2, <1>3, <1>6, <1>7, <2>1
  <2>2. ASSUME NEW v \in Worker, v # w, task'[v] # NoTask, task'[v].item = s
        PROVE  task'[v].token # task'[w].token
    BY <1>1, <1>2, <1>3, <1>6, <1>7, <2>2
  <2>3. ASSUME NEW u \in Worker, NEW v \in Worker, u # v, task'[u] # NoTask, task'[v] # NoTask,
               task'[u].item = task'[v].item
        PROVE  task'[u].token # task'[v].token
    <3>1. CASE u = w
      BY <1>2, <2>2, <2>3, <3>1
    <3>2. CASE v = w
      BY <1>2, <2>2, <2>3, <3>2
    <3>3. CASE u # w /\ v # w
      BY <1>3, <2>3, <3>3 DEF TasksInOrder, LeasesApart
    <3> QED
      BY <3>1, <3>2, <3>3
  <2> QED
    BY <2>1, <2>3 DEF LeasesApart
<1>9. PageLeft'
  <2> SUFFICES ASSUME NEW v \in Worker, task'[v].step = "paged", VerifyLease(v)'
               PROVE  rows'[task'[v].item].offset < Pages
    BY DEF PageLeft
  <2>1. v # w
    BY <1>2
  <2>2. task[v].step = "paged" /\ task[v] # NoTask /\ task'[v].item = task[v].item
    BY <1>3, <2>1, TaskKinds DEF NoTask
  <2>3. task[v].item # s
    BY <1>1, <1>3, <1>6, <1>7, <2>1, <2>2 DEF VerifyLease
  <2> QED
    BY <1>1, <1>3, <1>6, <2>1, <2>2, <2>3 DEF VerifyLease, PageLeft, TasksInOrder
<1>10. NothingLeft'
  <2> SUFFICES ASSUME NEW v \in Worker, task'[v].step = "empty"
               PROVE  task'[v].item \in derived \cup Private
    BY DEF NothingLeft, Claim
  <2> QED
    BY <1>2, <1>3, TaskKinds DEF NothingLeft, TasksInOrder, NoTask
<1>11. PendingAsRead'
  <2> SUFFICES ASSUME NEW v \in Worker, task'[v].step \in Asking, NEW p \in task'[v].pending
               PROVE  p[1] <= arrived' /\ p[2] <= rows'[p[1]].token
    BY DEF PendingAsRead
  <2>1. v # w
    BY <1>2 DEF Asking
  <2>2. task[v] \in Asked /\ p \in task[v].pending /\ task[v].step \in Asking
    BY <1>3, <2>1, TaskKinds
  <2>3. p[1] \in Source /\ p[2] \in Nat /\ arrived' = arrived
    BY <2>2 DEF Asked, Claim
  <2>4. p[1] <= arrived /\ p[2] <= rows[p[1]].token
    BY <2>2 DEF PendingAsRead, TasksInOrder
  <2> QED
    BY <1>1, <1>7, <2>3, <2>4
<1> QED
  BY <1>4, <1>5, <1>8, <1>9, <1>10, <1>11 DEF TasksInOrder

(* A row that only gets another state, held by nobody afterwards.             *)
LEMMA TurnsUnleased ==
    ASSUME Inv, NEW s \in Source, NEW state \in States \ {"leased", "done"},
           rows' = [rows EXCEPT ![s].state = state],
           task' \in [Worker -> {NoTask} \cup Claimed \cup Asked],
           \A w \in Worker : GoesOn(w),
           UNCHANGED <<adoption, watermark, arrived, live, held, approved, reviews, derived>>
    PROVE  Inv'
<1> USE DEF Inv
<1>1. rows \in [Source -> Row] /\ \A t \in Source : rows[t].token \in Nat
  BY DEF CoreTyped, Row
<1>2. /\ rows' \in [Source -> Row]
      /\ \A t \in Source : t # s => rows'[t] = rows[t]
      /\ rows'[s].state = state
      /\ \A t \in Source : rows'[t].token = rows[t].token
  BY <1>1, RowTurns
<1>3. CoreTyped'
  BY <1>2 DEF CoreTyped
<1>4. ReadBeforeSettled'
  BY <1>2, StaysRead
<1>5. \A t \in Source : rows'[t].token >= rows[t].token
  BY <1>1, <1>2
<1> QED
  BY <1>2, <1>3, <1>4, <1>5, TasksStayInOrder

LEMMA ExpireInv ==
    ASSUME Inv, NEW s \in Source, Expire(s) \/ Reopen(s)
    PROVE  Inv'
<1>1. PICK state \in {"pending", "failed"} : rows' = [rows EXCEPT ![s].state = state]
  BY DEF Expire, Reopen
<1>2. task' \in [Worker -> {NoTask} \cup Claimed \cup Asked] /\ \A w \in Worker : GoesOn(w)
  BY TasksUntouched DEF Inv, CoreTyped, Expire, Reopen
<1>3. state \in States \ {"leased", "done"}
  BY DEF States
<1> QED
  BY <1>1, <1>2, <1>3, TurnsUnleased DEF Expire, Reopen

LEMMA AbandonInv ==
    ASSUME Inv, NEW w \in Worker, Abandon(w)
    PROVE  Inv'
<1> USE DEF Inv
<1>1. /\ task' \in [Worker -> {NoTask} \cup Claimed \cup Asked]
      /\ \A v \in Worker : GoesOn(v)
  BY OthersGoOn DEF Abandon
<1>2. CoreTyped'
  BY <1>1 DEF Abandon, CoreTyped
<1>3. ReadBeforeSettled'
  BY StaysRead DEF Abandon
<1>4. \A t \in Source : rows'[t].token >= rows[t].token
  BY DEF Abandon, CoreTyped, Row
<1> QED
  BY <1>1, <1>2, <1>3, <1>4, TasksStayInOrder DEF Abandon

(* A reply that gives the leased row back.                                    *)
LEMMA ReturnedInv ==
    ASSUME Inv, NEW w \in Worker, task[w] # NoTask,
           NEW state \in {"pending", "failed", "obsolete"}, Returned(w, state)
    PROVE  Inv'
<1>1. /\ task' \in [Worker -> {NoTask} \cup Claimed \cup Asked]
      /\ \A v \in Worker : GoesOn(v)
  BY OthersGoOn DEF Returned, Inv
<1>2. task[w].item \in Source /\ state \in States \ {"leased", "done"}
  BY TaskKinds DEF Inv, States
<1> QED
  BY <1>1, <1>2, TurnsUnleased DEF Returned

(* The leased task goes on to its read, or to its adoption stage.             *)
LEMMA AdmitInv ==
    ASSUME Inv, NEW w \in Worker, Admit(w) \/ ReadAdoption(w)
    PROVE  Inv'
<1> USE DEF Inv
<1>1. task[w] \in Claimed
  BY TaskKinds DEF Admit, ReadAdoption
<1>2. /\ task' \in [Worker -> {NoTask} \cup Claimed \cup Asked]
      /\ \A v \in Worker : GoesOn(v)
  <2>1. PICK step \in {"admitted", "adopting"} : task' = [task EXCEPT ![w].step = step]
    BY DEF Admit, ReadAdoption
  <2>2. /\ task'[w] \in Claimed /\ task'[w].step = step
        /\ task'[w].item = task[w].item /\ task'[w].token = task[w].token
    BY <1>1, <2>1 DEF Claimed, CoreTyped
  <2>3. \A v \in Worker : v # w => task'[v] = task[v]
    BY <2>1 DEF CoreTyped
  <2>4. GoesOn(w)
    BY <1>1, <2>1, <2>2 DEF GoesOn, Asking, Claimed, NoTask
  <2>5. \A v \in Worker : v # w => GoesOn(v)
    BY <2>3, TaskKinds DEF GoesOn
  <2> QED
    BY <2>1, <2>2, <2>4, <2>5 DEF CoreTyped
<1>3. CoreTyped'
  BY <1>2 DEF Admit, ReadAdoption, CoreTyped
<1>4. ReadBeforeSettled'
  BY StaysRead DEF Admit, ReadAdoption
<1>5. \A t \in Source : rows'[t].token >= rows[t].token
  BY DEF Admit, ReadAdoption, CoreTyped, Row
<1> QED
  BY <1>2, <1>3, <1>4, <1>5, TasksStayInOrder DEF Admit, ReadAdoption

(* The read: what is asked for, and what the read already knows of it.        *)
AsItIs(p) ==
    /\ p[1] \in Source /\ p[1] <= arrived
    /\ p[2] = rows[p[1]].token /\ rows[p[1]].state = "pending"

LEMMA ReadBatchAsks ==
    ASSUME Inv, NEW w \in Worker, ReadBatch(w)
    PROVE  /\ task[w] \in Claimed
           /\ task' \in [Worker -> {NoTask} \cup Claimed \cup Asked]
           /\ \A v \in Worker : v # w => task'[v] = task[v]
           /\ task'[w] \in Asked
           /\ task'[w].item = task[w].item /\ task'[w].token = task[w].token
           /\ task'[w].step = "paged" => rows[task[w].item].offset < Pages
           /\ task'[w].step = "empty" => task[w].item \in derived \cup Private
           /\ \A p \in task'[w].pending : AsItIs(p)
<1> DEFINE s == task[w].item
<1> USE DEF Inv
<1>1. task[w] \in Claimed /\ s \in Source /\ task[w].token \in Nat
  BY TaskKinds DEF ReadBatch, Claimed
<1>2. rows[s].offset \in 0 .. Pages /\ Pages \in Nat /\ Pages > 0
  BY <1>1, BatchAssumption DEF CoreTyped, Row
<1>3. PICK ready \in SUBSET (IF s > watermark THEN Siblings(s) ELSE {}) :
          LET batch == EpisodeBatch(s, ready)
              page  == {s} \ held
              Reads(step, asks, pending) ==
                  task' = [task EXCEPT ![w] = Request(s, task[w].token, step, asks, pending)]
          IN  IF rows[s].offset > 0
              THEN /\ ready = {} /\ rows[s].offset < Pages
                   /\ Reads(IF page = {} THEN "empty" ELSE "paged", page, {})
              ELSE IF batch = {} THEN Reads("empty", {}, WithTokens(ready))
              ELSE IF s \in Long /\ s \in batch THEN ready = {} /\ Reads("paged", batch, {})
              ELSE Reads("asked", batch, WithTokens(ready))
  BY DEF ReadBatch
<1>4. ready \subseteq Source /\ EpisodeBatch(s, ready) \subseteq Source
  BY <1>1, <1>3 DEF Siblings, EpisodeBatch, CoreTyped
<1>5. /\ WithTokens(ready) \subseteq Source \X Nat
      /\ \A p \in WithTokens(ready) : AsItIs(p)
  BY <1>3, <1>4 DEF WithTokens, AsItIs, Siblings, CoreTyped, Row
<1>6. EpisodeBatch(s, ready) = {} => s \in derived \cup Private
  <2>1. CASE s <= watermark
    BY <1>1, <2>1 DEF ReadBeforeSettled, WatermarkWasRead, CoreTyped, Source
  <2>2. CASE ~(s <= watermark)
    BY <2>2 DEF EpisodeBatch, ReadBeforeSettled
  <2> QED
    BY <2>1, <2>2
<1>7. {s} \ held = {} => s \in Private
  BY DEF ReadBeforeSettled
<1>8. PICK step \in Asking, asks \in SUBSET Source, pending \in SUBSET (Source \X Nat) :
          /\ task' = [task EXCEPT ![w] = Request(s, task[w].token, step, asks, pending)]
          /\ step = "paged" => rows[s].offset < Pages
          /\ step = "empty" => s \in derived \cup Private
          /\ \A p \in pending : AsItIs(p)
  <2>1. CASE rows[s].offset > 0 /\ {s} \ held = {}
    BY <1>1, <1>3, <1>7, <2>1 DEF Asking
  <2>2. CASE rows[s].offset > 0 /\ {s} \ held # {}
    BY <1>1, <1>3, <2>2 DEF Asking
  <2>3. CASE ~(rows[s].offset > 0) /\ EpisodeBatch(s, ready) = {}
    BY <1>3, <1>5, <1>6, <2>3 DEF Asking
  <2>4. CASE /\ ~(rows[s].offset > 0) /\ EpisodeBatch(s, ready) # {}
             /\ s \in Long /\ s \in EpisodeBatch(s, ready)
    BY <1>2, <1>3, <1>4, <2>4 DEF Asking
  <2>5. CASE /\ ~(rows[s].offset > 0) /\ EpisodeBatch(s, ready) # {}
             /\ ~(s \in Long /\ s \in EpisodeBatch(s, ready))
    BY <1>3, <1>4, <1>5, <2>5 DEF Asking
  <2> QED
    BY <2>1, <2>2, <2>3, <2>4, <2>5
<1>9. Request(s, task[w].token, step, asks, pending) \in Asked
  BY <1>1, <1>8 DEF Request, Asked, Asking
<1>10. /\ task'[w] = Request(s, task[w].token, step, asks, pending)
       /\ \A v \in Worker : v # w => task'[v] = task[v]
       /\ task' \in [Worker -> {NoTask} \cup Claimed \cup Asked]
  BY <1>8, <1>9 DEF CoreTyped
<1> QED
  BY <1>1, <1>8, <1>9, <1>10 DEF Request

LEMMA ReadBatchInv ==
    ASSUME Inv, NEW w \in Worker, ReadBatch(w)
    PROVE  Inv'
<1> USE DEF Inv
<1> USE ReadBatchAsks, TaskKinds
<1>1. UNCHANGED <<rows, adoption, watermark, arrived, live, held, approved, reviews, derived>>
  BY DEF ReadBatch
<1>2. CoreTyped'
  BY <1>1 DEF CoreTyped
<1>3. ReadBeforeSettled'
  BY <1>1, StaysRead
<1>4. task[w] # NoTask /\ task'[w] # NoTask /\ task[w].item \in Source
  BY DEF Claimed, Asked, NoTask
<1>5. LeasesApart'
  BY <1>1, <1>4 DEF LeasesApart, TasksInOrder
<1>6. PageLeft'
  BY <1>1, <1>4 DEF PageLeft, TasksInOrder, VerifyLease
<1>7. NothingLeft'
  BY <1>1, <1>4 DEF NothingLeft, TasksInOrder
<1>8. PendingAsRead'
  <2> SUFFICES ASSUME NEW v \in Worker, task'[v].step \in Asking, NEW p \in task'[v].pending
               PROVE  p[1] <= arrived /\ p[2] <= rows[p[1]].token
    BY <1>1 DEF PendingAsRead
  <2>1. CASE v = w
    <3>1. p[1] \in Source /\ p[1] <= arrived /\ p[2] = rows[p[1]].token
      BY <2>1 DEF AsItIs
    <3>2. rows[p[1]].token \in Nat
      BY <3>1 DEF CoreTyped, Row
    <3> QED
      BY <2>1, <3>1, <3>2
  <2>2. CASE v # w
    BY <2>2 DEF PendingAsRead, TasksInOrder
  <2> QED
    BY <2>1, <2>2
<1> QED
  BY <1>2, <1>3, <1>5, <1>6, <1>7, <1>8 DEF TasksInOrder

(* Replies that give the leased row another state and settle nothing.         *)
LEMMA GivenBackInv ==
    ASSUME Inv, NEW w \in Worker,
           HoldForPrivateMode(w) \/ ObsoleteWork(w) \/ Refuse(w) \/ Discard(w)
    PROVE  Inv'
<1>1. \E state \in {"pending", "failed", "obsolete"} : Returned(w, state)
  BY DEF HoldForPrivateMode, ObsoleteWork, Refuse, Discard
<1>2. task[w] # NoTask
  BY DEF HoldForPrivateMode, ObsoleteWork, Refuse, Discard, NoTask
<1> QED
  BY <1>1, <1>2, ReturnedInv

-----------------------------------------------------------------------------
(* The acceptance: what it settles, and that it was read.                     *)

(* complete_consolidation settles the leased row and the siblings that are as *)
(* the answer read them, and gives no row a token or a lease.                 *)
LEMMA CompletedIs ==
    ASSUME CoreTyped, NEW w \in Worker, task[w] \in Asked, NEW covered \in SUBSET Source
    PROVE  LET R == Completed(rows, w, covered)
           IN  /\ R \in [Source -> Row]
               /\ \A s \in Source : R[s].token = rows[s].token
               /\ \A s \in Source : R[s].state = "leased" => R[s] = rows[s]
               /\ \A s \in Source : R[s].state = "done" /\ rows[s].state # "done" =>
                     \/ s = task[w].item
                     \/ /\ s \in covered /\ rows[s].state = "pending"
                        /\ <<s, rows[s].token>> \in task[w].pending
<1> DEFINE R == Completed(rows, w, covered)
<1> SUFFICES ASSUME NEW s \in Source
             PROVE  /\ R[s] \in Row
                    /\ R[s].token = rows[s].token
                    /\ R[s].state = "leased" => R[s] = rows[s]
                    /\ R[s].state = "done" /\ rows[s].state # "done" =>
                          \/ s = task[w].item
                          \/ /\ s \in covered /\ rows[s].state = "pending"
                             /\ <<s, rows[s].token>> \in task[w].pending
  BY DEF Completed
<1>1. rows[s] \in Row
  BY DEF CoreTyped
<1>2. /\ [rows[s] EXCEPT !.state = "done"] \in Row
      /\ [rows[s] EXCEPT !.state = "done"].state = "done"
      /\ [rows[s] EXCEPT !.state = "done"].token = rows[s].token
  BY <1>1 DEF Row
<1>3. CASE s = task[w].item
  <2>1. R[s] = [rows[s] EXCEPT !.state = "done"]
    BY <1>3 DEF Completed
  <2> QED
    BY <1>2, <1>3, <2>1
<1>4. CASE /\ s # task[w].item /\ s \in covered /\ rows[s].state = "pending"
           /\ <<s, rows[s].token>> \in task[w].pending
  <2>1. R[s] = [rows[s] EXCEPT !.state = "done"]
    BY <1>4 DEF Completed
  <2> QED
    BY <1>2, <1>4, <2>1
<1>5. CASE /\ s # task[w].item
           /\ ~ (s \in covered /\ rows[s].state = "pending"
                 /\ <<s, rows[s].token>> \in task[w].pending)
  <2>1. R[s] = rows[s]
    BY <1>5 DEF Completed
  <2> QED
    BY <1>1, <2>1
<1> QED
  BY <1>3, <1>4, <1>5

(* Settling is all that it does to a row.                                     *)
LEMMA CompletedSettles ==
    ASSUME CoreTyped, NEW w \in Worker, NEW covered \in SUBSET Source, NEW s \in Source,
           Completed(rows, w, covered)[s] # rows[s]
    PROVE  Completed(rows, w, covered)[s].state = "done"
<1>1. rows[s] \in Row /\ [rows[s] EXCEPT !.state = "done"].state = "done"
  BY DEF CoreTyped, Row
<1> QED
  BY <1>1 DEF Completed

(* schedule_adoptions starts only covered replies, and reopens only them.     *)
LEMMA WithAdoptionsIs ==
    ASSUME CoreTyped, NEW R \in [Source -> Row], NEW covered \in SUBSET Source,
           WithAdoptions(R, covered)
    PROVE  /\ rows' \in [Source -> Row]
           /\ \A s \in Source : rows'[s].token = R[s].token
           /\ \A s \in Source : rows'[s].state \in {"leased", "done"} => rows'[s] = R[s]
           /\ adoption' \in [Source -> {"none", "open", "review", "closed"}]
           /\ \A s \in Source : adoption[s] # "none" => adoption'[s] = adoption[s]
           /\ \A s \in Source : adoption'[s] # "none" => adoption[s] # "none" \/ s \in covered
           /\ \A s \in Source : rows'[s] # R[s] => adoption'[s] # "none"
<1> DEFINE starting == {s \in covered \cap Reply : R[s].state = "done" /\ adoption[s] = "none"}
<1>1. /\ rows' = [s \in Source |-> IF s \in starting
                                   THEN [R[s] EXCEPT !.state = "pending"] ELSE R[s]]
      /\ adoption' = [s \in Source |-> IF s \in starting THEN "open" ELSE adoption[s]]
  BY DEF WithAdoptions
<1> HIDE DEF starting
<1>2. \A s \in Source : /\ R[s] \in Row
                        /\ [R[s] EXCEPT !.state = "pending"] \in Row
                        /\ [R[s] EXCEPT !.state = "pending"].state = "pending"
                        /\ [R[s] EXCEPT !.state = "pending"].token = R[s].token
  BY DEF Row
<1>3. \A s \in Source : s \in starting => s \in covered /\ adoption[s] = "none"
  BY DEF starting
<1>4. \A s \in Source : /\ rows'[s] \in Row
                        /\ rows'[s].token = R[s].token
                        /\ rows'[s].state \in {"leased", "done"} => rows'[s] = R[s]
  BY <1>1, <1>2
<1> QED
  BY <1>1, <1>3, <1>4 DEF CoreTyped

(* apply_resume moves the watermark over declared sources only, and every     *)
(* other answer learns of it.                                                 *)
LEMMA SummarisedIs ==
    ASSUME CoreTyped, NEW w \in Worker, NEW resume \in BOOLEAN, NEW declared \in SUBSET Source,
           Summarised(w, resume, declared)
    PROVE  /\ task' \in [Worker -> {NoTask} \cup Claimed \cup Asked]
           /\ \A v \in Worker : GoesOn(v)
           /\ \A v \in Worker \ {w} : task[v] # NoTask => task'[v] # NoTask
           /\ watermark' \in 0 .. N
           /\ \A j \in 1 .. watermark' : j <= watermark \/ j \in declared
<1> DEFINE others == [task EXCEPT ![w] = NoTask]
<1>1. CASE resume
  <2>1. \A v \in Worker : others[v] = IF v \in {w} THEN NoTask ELSE task[v]
    BY DEF CoreTyped
  <2>2. watermark' = ProcessedSequence(declared) /\ task' = Noted(others, "episode")
    BY <1>1 DEF Summarised
  <2>3. /\ task' \in [Worker -> {NoTask} \cup Claimed \cup Asked]
        /\ \A v \in Worker : GoesOn(v)
        /\ \A v \in Worker \ {w} : task[v] # NoTask => task'[v] # NoTask
    <3> HIDE DEF others
    <3> QED
      BY <2>1, <2>2, NotedGoesOn
  <2>4. watermark \in 0 .. N
    BY DEF CoreTyped
  <2>5. /\ ProcessedSequence(declared) \in watermark .. N
        /\ \A j \in watermark + 1 .. ProcessedSequence(declared) : j \in declared
    BY <2>4, ProcessedSequenceIs
  <2>6. /\ watermark' \in 0 .. N
        /\ \A j \in 1 .. watermark' : j <= watermark \/ j \in declared
    <3> HIDE DEF others
    <3> QED
      BY <2>2, <2>4, <2>5, BatchAssumption
  <2> QED
    BY <2>3, <2>6
<1>2. CASE ~resume
  <2>1. watermark' = watermark /\ Dropped(w)
    BY <1>2 DEF Summarised, Dropped
  <2> QED
    BY <2>1, OthersGoOn, TaskEnds DEF CoreTyped
<1> QED
  BY <1>1, <1>2

(* Whatever settles rows, starts adoptions or moves the watermark keeps the   *)
(* invariant when it settles only what was read.                              *)
LEMMA SettlesWhatWasRead ==
    ASSUME Inv,
           rows' \in [Source -> Row],
           \A s \in Source : rows'[s].token = rows[s].token,
           \A s \in Source : rows'[s].state = "leased" => rows'[s] = rows[s],
           \A s \in Source : rows'[s].state = "done" =>
               rows[s].state = "done" \/ s \in derived' \cup Private,
           adoption' \in [Source -> {"none", "open", "review", "closed"}],
           \A s \in Source : adoption'[s] # "none" => adoption[s] # "none" \/ s \in derived',
           \A s \in Source : adoption[s] # "none" => adoption'[s] # "none",
           watermark' \in 0 .. N,
           \A j \in 1 .. watermark' : j <= watermark \/ j \in derived',
           derived \subseteq derived', derived' \subseteq Source,
           task' \in [Worker -> {NoTask} \cup Claimed \cup Asked],
           \A w \in Worker : GoesOn(w),
           UNCHANGED <<arrived, live, held, approved, reviews>>
    PROVE  Inv'
<1> USE DEF Inv
<1>1. CoreTyped'
  BY DEF CoreTyped
<1>2. ReadBeforeSettled'
  <2>1. WatermarkWasRead'
    BY DEF ReadBeforeSettled, WatermarkWasRead, CoreTyped
  <2>2. AdoptedWasRead'
    BY DEF ReadBeforeSettled, AdoptedWasRead
  <2>3. SettledWasRead'
    BY DEF ReadBeforeSettled, SettledWasRead
  <2>4. ApprovedReplies' /\ held' \subseteq Private
    BY DEF ReadBeforeSettled, ApprovedReplies, CoreTyped
  <2> QED
    BY <2>1, <2>2, <2>3, <2>4 DEF ReadBeforeSettled
<1>3. \A s \in Source : rows'[s].token >= rows[s].token
  BY DEF CoreTyped, Row
<1> QED
  BY <1>1, <1>2, <1>3, TasksStayInOrder

LEMMA AcceptInv ==
    ASSUME Inv, NEW w \in Worker, Accept(w)
    PROVE  Inv'
<1> DEFINE batch == task[w].batch
           R == Completed(rows, w, batch)
<1>1. CoreTyped /\ task[w] \in Asked /\ batch \in SUBSET Source /\ task[w].item \in batch
  BY TaskKinds DEF Inv, Accept, Asking, Asked, Acceptable
<1>2. PICK resume \in BOOLEAN : Summarised(w, resume, batch)
  BY DEF Accept
<1>3. derived' = derived \cup batch /\ WithAdoptions(R, batch)
      /\ UNCHANGED <<arrived, live, held, approved, reviews>>
  BY DEF Accept
<1>4. derived \subseteq derived' /\ derived' \subseteq Source
  BY <1>1, <1>3 DEF CoreTyped
<1>5. /\ task' \in [Worker -> {NoTask} \cup Claimed \cup Asked]
      /\ \A v \in Worker : GoesOn(v)
      /\ watermark' \in 0 .. N
      /\ \A j \in 1 .. watermark' : j <= watermark \/ j \in batch
  BY <1>1, <1>2, SummarisedIs
<1>6. /\ R \in [Source -> Row]
      /\ \A s \in Source : R[s].token = rows[s].token
      /\ \A s \in Source : R[s].state = "leased" => R[s] = rows[s]
      /\ \A s \in Source : R[s].state = "done" /\ rows[s].state # "done" =>
            s = task[w].item \/ s \in batch
  BY <1>1, CompletedIs
<1> HIDE DEF R, batch
<1>7. /\ rows' \in [Source -> Row]
      /\ \A s \in Source : rows'[s].token = R[s].token
      /\ \A s \in Source : rows'[s].state \in {"leased", "done"} => rows'[s] = R[s]
      /\ adoption' \in [Source -> {"none", "open", "review", "closed"}]
      /\ \A s \in Source : adoption[s] # "none" => adoption'[s] = adoption[s]
      /\ \A s \in Source : adoption'[s] # "none" => adoption[s] # "none" \/ s \in batch
  BY <1>1, <1>3, <1>6, WithAdoptionsIs
<1>8. \A s \in Source : rows'[s].state = "done" => rows[s].state = "done" \/ s \in derived'
  BY <1>1, <1>3, <1>6, <1>7
<1>9. /\ \A s \in Source : rows'[s].token = rows[s].token
      /\ \A s \in Source : rows'[s].state = "leased" => rows'[s] = rows[s]
  BY <1>6, <1>7
<1>10. /\ \A s \in Source : adoption'[s] # "none" => adoption[s] # "none" \/ s \in derived'
       /\ \A s \in Source : adoption[s] # "none" => adoption'[s] # "none"
       /\ \A j \in 1 .. watermark' : j <= watermark \/ j \in derived'
  BY <1>3, <1>5, <1>7
<1> QED
  BY <1>3, <1>4, <1>5, <1>7, <1>8, <1>9, <1>10, SettlesWhatWasRead

LEMMA AcceptPageInv ==
    ASSUME Inv, NEW w \in Worker, AcceptPage(w)
    PROVE  Inv'
<1> DEFINE s == task[w].item
           final == rows[s].offset + 1 = Pages
           state == IF final THEN "done" ELSE "pending"
           paged == [rows EXCEPT ![s].offset = @ + 1, ![s].state = state]
<1>1. CoreTyped /\ task[w] \in Asked /\ s \in Source /\ {s} \in SUBSET Source
  BY TaskKinds DEF Inv, AcceptPage, Asking
<1>2. VerifyLease(w) /\ rows[s].offset < Pages
  BY DEF AcceptPage, Acceptable, Inv, TasksInOrder, PageLeft
<1>3. PICK resume \in BOOLEAN : Summarised(w, resume, {s}) /\ (resume => final)
  BY DEF AcceptPage
<1>4. /\ derived' = (IF final THEN derived \cup {s} ELSE derived)
      /\ IF final THEN WithAdoptions(paged, {s}) ELSE rows' = paged /\ adoption' = adoption
      /\ UNCHANGED <<arrived, live, held, approved, reviews>>
  BY DEF AcceptPage
<1>5. derived \subseteq derived' /\ derived' \subseteq Source
  BY <1>1, <1>4 DEF CoreTyped
<1>6. /\ task' \in [Worker -> {NoTask} \cup Claimed \cup Asked]
      /\ \A v \in Worker : GoesOn(v)
      /\ watermark' \in 0 .. N
      /\ \A j \in 1 .. watermark' : j <= watermark \/ j \in {s}
  BY <1>1, <1>3, SummarisedIs
<1>7. \A j \in 1 .. watermark' : j <= watermark \/ j \in derived'
  <2>1. CASE resume
    BY <1>3, <1>4, <1>6, <2>1
  <2>2. CASE ~resume
    <3>1. watermark' = watermark
      BY <1>3, <2>2 DEF Summarised
    <3> QED
      BY <3>1, <1>1 DEF CoreTyped
  <2> QED
    BY <2>1, <2>2
<1>8. /\ paged \in [Source -> Row]
      /\ \A t \in Source : paged[t].token = rows[t].token
      /\ \A t \in Source : t # s => paged[t] = rows[t]
      /\ paged[s].state = state
  <2>1. rows[s].offset + 1 \in 0 .. Pages /\ rows \in [Source -> Row]
    BY <1>1, <1>2, BatchAssumption DEF CoreTyped, Row
  <2>2. state \in States
    BY DEF States
  <2>3. [rows[s] EXCEPT !.offset = @ + 1, !.state = state] \in Row
    BY <1>1, <2>1, <2>2 DEF Row, States
  <2> QED
    BY <1>1, <2>1, <2>2, <2>3 DEF Row
<1> HIDE DEF paged, s
<1>9. /\ rows' \in [Source -> Row]
      /\ \A t \in Source : rows'[t].token = rows[t].token
      /\ \A t \in Source : rows'[t].state = "leased" => rows'[t] = rows[t]
      /\ \A t \in Source : rows'[t].state = "done" => rows[t].state = "done" \/ t \in derived'
      /\ adoption' \in [Source -> {"none", "open", "review", "closed"}]
      /\ \A t \in Source : adoption'[t] # "none" => adoption[t] # "none" \/ t \in derived'
      /\ \A t \in Source : adoption[t] # "none" => adoption'[t] # "none"
  <2>1. CASE final
    <3>1. /\ rows' \in [Source -> Row]
          /\ \A t \in Source : rows'[t].token = paged[t].token
          /\ \A t \in Source : rows'[t].state \in {"leased", "done"} => rows'[t] = paged[t]
          /\ adoption' \in [Source -> {"none", "open", "review", "closed"}]
          /\ \A t \in Source : adoption[t] # "none" => adoption'[t] = adoption[t]
          /\ \A t \in Source : adoption'[t] # "none" => adoption[t] # "none" \/ t \in {s}
      BY <1>1, <1>4, <1>8, <2>1, WithAdoptionsIs
    <3>2. derived' = derived \cup {s} /\ paged[s].state = "done"
      BY <1>4, <1>8, <2>1
    <3> QED
      BY <1>8, <3>1, <3>2
  <2>2. CASE ~final
    <3>1. rows' = paged /\ adoption' = adoption /\ paged[s].state = "pending"
      BY <1>4, <1>8, <2>2
    <3> QED
      BY <1>1, <1>8, <3>1 DEF CoreTyped
  <2> QED
    BY <2>1, <2>2
<1> QED
  BY <1>4, <1>5, <1>6, <1>7, <1>9, SettlesWhatWasRead

LEMMA CompleteWithoutModelInv ==
    ASSUME Inv, NEW w \in Worker, CompleteWithoutModel(w)
    PROVE  Inv'
<1> DEFINE s == task[w].item
           R == Completed(rows, w, {s})
<1>1. CoreTyped /\ task[w] \in Asked /\ s \in Source /\ {s} \in SUBSET Source
  BY TaskKinds DEF Inv, CompleteWithoutModel, Asking
<1>2. s \in derived \cup Private
  BY DEF CompleteWithoutModel, Inv, TasksInOrder, NothingLeft
<1>3. /\ R \in [Source -> Row]
      /\ \A t \in Source : R[t].token = rows[t].token
      /\ \A t \in Source : R[t].state = "leased" => R[t] = rows[t]
      /\ \A t \in Source : R[t].state = "done" /\ rows[t].state # "done" => t = s
  BY <1>1, CompletedIs
<1>4. rows' = R /\ Dropped(w)
      /\ UNCHANGED <<adoption, watermark, arrived, live, held, approved, reviews, derived>>
  BY DEF CompleteWithoutModel
<1>5. /\ task' \in [Worker -> {NoTask} \cup Claimed \cup Asked]
      /\ \A v \in Worker : GoesOn(v)
  BY <1>1, <1>4, OthersGoOn
<1>6. /\ watermark' \in 0 .. N /\ derived \subseteq derived' /\ derived' \subseteq Source
      /\ adoption' \in [Source -> {"none", "open", "review", "closed"}]
      /\ \A j \in 1 .. watermark' : j <= watermark
  BY <1>1, <1>4 DEF CoreTyped
<1> HIDE DEF R, s
<1> QED
  BY <1>2, <1>3, <1>4, <1>5, <1>6, SettlesWhatWasRead

LEMMA AdoptionStageInv ==
    ASSUME Inv, NEW w \in Worker, AdoptionStage(w)
    PROVE  Inv'
<1> DEFINE s == task[w].item
<1>1. CoreTyped /\ s \in Source
  BY TaskKinds DEF Inv, AdoptionStage, NoTask
<1>2. PICK next \in {"open", "review", "closed"} :
          /\ adoption' = [adoption EXCEPT ![s] = next]
          /\ rows' = [rows EXCEPT ![s].state = IF next = "open" THEN "pending" ELSE "done"]
  BY DEF AdoptionStage
<1>3. s \in derived
  BY <1>1 DEF AdoptionStage, Inv, ReadBeforeSettled, AdoptedWasRead
<1>4. Dropped(w) /\ UNCHANGED <<watermark, arrived, live, held, approved, reviews, derived>>
  BY DEF AdoptionStage
<1>5. /\ rows' \in [Source -> Row]
      /\ \A t \in Source : t # s => rows'[t] = rows[t]
      /\ rows'[s].state # "leased"
      /\ \A t \in Source : rows'[t].token = rows[t].token
  <2>1. (IF next = "open" THEN "pending" ELSE "done") \in States \ {"leased"}
    BY DEF States
  <2>2. rows \in [Source -> Row]
    BY <1>1 DEF CoreTyped
  <2> QED
    BY <1>1, <1>2, <2>1, <2>2, RowTurns
<1>6. /\ adoption' \in [Source -> {"none", "open", "review", "closed"}]
      /\ \A t \in Source : t # s => adoption'[t] = adoption[t]
      /\ adoption'[s] # "none"
  BY <1>1, <1>2 DEF CoreTyped
<1>7. /\ task' \in [Worker -> {NoTask} \cup Claimed \cup Asked]
      /\ \A v \in Worker : GoesOn(v)
  BY <1>1, <1>4, OthersGoOn
<1>8. /\ watermark' \in 0 .. N /\ derived \subseteq derived' /\ derived' \subseteq Source
      /\ \A j \in 1 .. watermark' : j <= watermark
  BY <1>1, <1>4 DEF CoreTyped
<1> HIDE DEF s
<1> QED
  BY <1>3, <1>4, <1>5, <1>6, <1>7, <1>8, SettlesWhatWasRead

-----------------------------------------------------------------------------
(* The inductive invariant holds of every step.                               *)
LEMMA NextInv == Inv /\ [Next]_vars => Inv'
<1> SUFFICES ASSUME Inv, [Next]_vars PROVE Inv'
  OBVIOUS
<1>1. CASE Arrive \/ Suppress \/ OpenInterval \/ CloseInterval
  BY <1>1, ArriveInv, SuppressInv, IntervalInv
<1>2. CASE OfTheOwner
  BY <1>2, DeleteInv, SupersedeInv, ApproveImportInv, ApproveAdoptionInv, UndoReviewInv
     DEF OfTheOwner
<1>3. CASE \E s \in Source : Expire(s) \/ Reopen(s)
  BY <1>3, ExpireInv
<1>4. ASSUME NEW w \in Worker, OfTheWorker(w) PROVE Inv'
  BY <1>4, ClaimInv, AbandonInv, AdmitInv, ReadBatchInv, GivenBackInv, AcceptInv,
     AcceptPageInv, CompleteWithoutModelInv, AdoptionStageInv DEF OfTheWorker
<1>5. CASE UNCHANGED vars
  <2>1. \A s \in Source : rows'[s].token >= rows[s].token
    BY <1>5 DEF Inv, CoreTyped, Row, vars
  <2>2. CoreTyped' /\ ReadBeforeSettled'
    BY <1>5, StaysRead DEF Inv, CoreTyped, vars
  <2> QED
    BY <1>5, <2>1, <2>2, TasksUntouched, TasksStayInOrder DEF Inv, vars
<1> QED
  BY <1>1, <1>2, <1>3, <1>4, <1>5 DEF Next, Steps

(* The inductive invariant of every theorem about states below.               *)
THEOREM InvHolds == Spec => []Inv
<1> QED
  BY InitInv, NextInv, PTL DEF Spec

(* The watermark never passes a source that no accepted answer read whole.    *)
THEOREM WatermarkWasReadHolds == Spec => []WatermarkWasRead
<1>1. Inv => WatermarkWasRead
  BY DEF Inv, ReadBeforeSettled
<1> QED
  BY <1>1, InvHolds, PTL

(* An adoption begins only after a consolidation that read the whole reply.   *)
THEOREM AdoptedWasReadHolds == Spec => []AdoptedWasRead
<1>1. Inv => AdoptedWasRead
  BY DEF Inv, ReadBeforeSettled
<1> QED
  BY <1>1, InvHolds, PTL

(* Whatever private intervals may cover, a settled source was read or is one  *)
(* of them.                                                                   *)
THEOREM SettledWasReadHolds == Spec => []SettledWasRead
<1>1. Inv => SettledWasRead
  BY DEF Inv, ReadBeforeSettled
<1> QED
  BY <1>1, InvHolds, PTL

(* Where no session has a private interval, a settled source was read.        *)
THEOREM DoneWasReadHolds == Private = {} => (Spec => []DoneWasRead)
<1> SUFFICES ASSUME Private = {} PROVE Spec => []DoneWasRead
  OBVIOUS
<1>1. SettledWasRead => DoneWasRead
  BY DEF SettledWasRead, DoneWasRead
<1> QED
  BY <1>1, SettledWasReadHolds, PTL

-----------------------------------------------------------------------------
(* The action properties.                                                     *)

(* Only an acceptance derives, and it looks at all it read first.             *)
LEMMA DerivesFromLive ==
    ASSUME [Next]_vars PROVE derived' \ derived \subseteq live
<1>1. ASSUME NEW w \in Worker, Accept(w) PROVE derived' \ derived \subseteq live
  BY <1>1 DEF Accept, Acceptable
<1>2. ASSUME NEW w \in Worker, AcceptPage(w) PROVE derived' \ derived \subseteq live
  BY <1>2 DEF AcceptPage, Acceptable
<1>3. CASE Arrive \/ Suppress \/ OpenInterval \/ CloseInterval \/ UNCHANGED vars
  BY <1>3 DEF Arrive, Suppress, OpenInterval, CloseInterval, vars
<1>4. CASE OfTheOwner
  BY <1>4 DEF OfTheOwner, Delete, Supersede, ApproveImport, ApproveAdoption, UndoReview
<1>5. CASE \E s \in Source : Expire(s) \/ Reopen(s)
  BY <1>5 DEF Expire, Reopen
<1>6. ASSUME NEW w \in Worker, OfTheWorker(w), ~Accept(w), ~AcceptPage(w)
      PROVE  derived' = derived
  BY <1>6 DEF OfTheWorker, Claim, Abandon, Admit, HoldForPrivateMode, ReadBatch, ReadAdoption,
              ObsoleteWork, Refuse, Discard, CompleteWithoutModel, AdoptionStage, Returned
<1> QED
  BY <1>1, <1>2, <1>3, <1>4, <1>5, <1>6 DEF Next, Steps

(* A deleted or superseded source adds nothing, whichever worker waits.       *)
THEOREM OnlyLiveDerivedHolds == Spec => OnlyLiveDerived
<1>1. [Next]_vars => [derived' \ derived \subseteq live]_vars
  BY DerivesFromLive
<1> QED
  BY <1>1, PTL DEF Spec, OnlyLiveDerived

(* Who completes a row that nobody holds: an acceptance that read its source  *)
(* and found the row as it is, or an owner who takes a decision back.         *)
LEMMA SettlesPending ==
    ASSUME Inv, [Next]_vars, NEW s \in Source,
           rows[s].state = "pending", rows'[s].state = "done"
    PROVE  \/ \E w \in Worker : /\ Accept(w)
                                /\ s \in task[w].batch
                                /\ <<s, rows[s].token>> \in task[w].pending
           \/ UndoReview(s) /\ s \notin Import
<1>1. CoreTyped /\ rows \in [Source -> Row]
  BY DEF Inv, CoreTyped
<1>2. ~UNCHANGED rows
  OBVIOUS
<1>3. ASSUME NEW w \in Worker, VerifyLease(w) PROVE task[w].item # s
  BY <1>3 DEF VerifyLease
<1>4. CASE Arrive
  <2>1. rows'[s] = rows[s] \/ rows'[s].state = "pending"
    BY <1>1, <1>4 DEF Arrive
  <2> QED
    BY <2>1
<1>5. CASE OfTheOwner
  <2>1. PICK t \in Source : \/ Delete(t) \/ Supersede(t) \/ ApproveImport(t)
                            \/ ApproveAdoption(t) \/ UndoReview(t)
    BY <1>5 DEF OfTheOwner
  <2>2. CASE Delete(t)
    BY <1>1, <2>2 DEF Delete, Row
  <2>3. CASE Supersede(t)
    BY <1>2, <2>3 DEF Supersede
  <2>4. CASE ApproveImport(t) \/ ApproveAdoption(t)
    BY <1>1, <2>4 DEF ApproveImport, ApproveAdoption, Approved, Resumed, Row
  <2>5. CASE UndoReview(t)
    BY <1>1, <2>5 DEF UndoReview, Row
  <2> QED
    BY <2>1, <2>2, <2>3, <2>4, <2>5
<1>6. CASE \E t \in Source : Expire(t) \/ Reopen(t)
  BY <1>1, <1>6 DEF Expire, Reopen, Row
<1>7. ASSUME NEW w \in Worker, Accept(w)
      PROVE  s \in task[w].batch /\ <<s, rows[s].token>> \in task[w].pending
  <2> DEFINE batch == task[w].batch
             R == Completed(rows, w, batch)
  <2>1. task[w] \in Asked /\ batch \in SUBSET Source /\ VerifyLease(w) /\ WithAdoptions(R, batch)
    BY <1>1, <1>7, TaskKinds DEF Accept, Asking, Asked, Acceptable
  <2>2. /\ R \in [Source -> Row]
        /\ \A t \in Source : R[t].state = "done" /\ rows[t].state # "done" =>
              \/ t = task[w].item
              \/ t \in batch /\ <<t, rows[t].token>> \in task[w].pending
    BY <1>1, <2>1, CompletedIs
  <2> HIDE DEF R
  <2>3. rows'[s] = R[s]
    BY <1>1, <2>1, <2>2, WithAdoptionsIs
  <2> QED
    BY <1>3, <2>1, <2>2, <2>3
<1>8. ASSUME NEW w \in Worker, AcceptPage(w) PROVE FALSE
  <2> DEFINE t == task[w].item
             final == rows[t].offset + 1 = Pages
             paged == [rows EXCEPT ![t].offset = @ + 1,
                                   ![t].state = IF final THEN "done" ELSE "pending"]
  <2>1. VerifyLease(w) /\ IF final THEN WithAdoptions(paged, {t}) ELSE rows' = paged
    BY <1>8 DEF AcceptPage, Acceptable
  <2>2. s # t /\ paged[s] = rows[s]
    BY <1>1, <1>3, <2>1
  <2>3. rows'[s] = paged[s]
    BY <2>1, <2>2 DEF WithAdoptions
  <2> QED
    BY <2>2, <2>3
<1>9. ASSUME NEW w \in Worker, CompleteWithoutModel(w) \/ AdoptionStage(w) PROVE FALSE
  <2>1. task[w].item # s
    BY <1>3, <1>9 DEF CompleteWithoutModel, AdoptionStage
  <2>2. rows'[s] = rows[s]
    BY <1>1, <1>9, <2>1 DEF CompleteWithoutModel, AdoptionStage, Completed
  <2> QED
    BY <2>2
<1>10. ASSUME NEW w \in Worker, NEW t \in Source, Claim(w, t) PROVE FALSE
  BY <1>1, <1>10 DEF Claim, Row
<1>11. ASSUME NEW w \in Worker, NEW state \in {"pending", "failed", "obsolete"}, Returned(w, state)
       PROVE  FALSE
  BY <1>1, <1>11 DEF Returned, Row
<1>12. ASSUME NEW w \in Worker, OfTheWorker(w)
       PROVE  Accept(w)
  <2>1. ~(HoldForPrivateMode(w) \/ ObsoleteWork(w) \/ Refuse(w) \/ Discard(w))
    BY <1>11 DEF HoldForPrivateMode, ObsoleteWork, Refuse, Discard
  <2>2. ~(Abandon(w) \/ Admit(w) \/ ReadBatch(w) \/ ReadAdoption(w))
    BY <1>2 DEF Abandon, Admit, ReadBatch, ReadAdoption
  <2> QED
    BY <1>8, <1>9, <1>10, <1>12, <2>1, <2>2 DEF OfTheWorker
<1>13. ~(Suppress \/ OpenInterval \/ CloseInterval \/ UNCHANGED vars)
  BY <1>2 DEF Suppress, OpenInterval, CloseInterval, vars
<1> QED
  BY <1>4, <1>5, <1>6, <1>7, <1>12, <1>13 DEF Next, Steps

(* A row nobody holds is completed only when its source was read whole,       *)
(* whatever opened or closed between the read and the acceptance.             *)
THEOREM SiblingsWereReadHolds == Spec => SiblingsWereRead
<1> DEFINE Settled == \A s \in Source :
                rows[s].state = "pending" /\ rows'[s].state = "done" => s \in derived'
<1>1. Inv /\ [Next]_vars => Settled
  <2> SUFFICES ASSUME Inv, [Next]_vars, NEW s \in Source,
                      rows[s].state = "pending", rows'[s].state = "done"
               PROVE  s \in derived'
    OBVIOUS
  <2>1. CASE \E w \in Worker : Accept(w) /\ s \in task[w].batch
    BY <2>1 DEF Accept
  <2>2. CASE UndoReview(s) /\ s \notin Import
    <3>1. s \in derived
      BY <2>2 DEF UndoReview, Inv, ReadBeforeSettled, ApprovedReplies, AdoptedWasRead
    <3> QED
      BY <2>2, <3>1 DEF UndoReview
  <2> QED
    BY <2>1, <2>2, SettlesPending
<1>2. Inv /\ [Next]_vars => [Settled]_vars
  BY <1>1
<1> QED
  BY <1>2, InvHolds, PTL DEF Spec, SiblingsWereRead

-----------------------------------------------------------------------------
(* The ghost: what became of the siblings an answer will settle.              *)

(* A sibling whose row changed since it was read: it got a new token, it is    *)
(* settled, or its adoption began.                                            *)
MovedOn(p) ==
    p[2] < rows[p[1]].token \/ rows[p[1]].state = "done" \/ adoption[p[1]] # "none"

WatchedAsRead ==
    /\ moved \in [Worker -> SUBSET Source]
    /\ \A w \in Worker : moved[w] \subseteq WaitsFor(task, w)
    /\ \A w \in Worker : task[w].step \in Asking => \A p \in task[w].pending :
          IF p[1] \in moved[w] THEN MovedOn(p) ELSE rows[p[1]].state = "pending"

(* What one step may do to a row that waits or is done, and to an adoption.   *)
Followed(s) ==
    /\ rows'[s].token >= rows[s].token
    /\ rows[s].state \in {"pending", "done"} /\ rows'[s] # rows[s] =>
          \/ rows'[s].token > rows[s].token
          \/ rows'[s].state = "done"
          \/ adoption'[s] # "none"
    /\ adoption[s] # "none" => adoption'[s] # "none" \/ rows'[s].token > rows[s].token

(* Rows that stay, or that change without having waited or been done.         *)
LEMMA StaysFollowed ==
    ASSUME CoreTyped, NEW s \in Source, rows'[s].token = rows[s].token,
           rows'[s] = rows[s] \/ rows[s].state \in {"leased", "failed"},
           adoption[s] # "none" => adoption'[s] # "none"
    PROVE  Followed(s)
BY DEF Followed, CoreTyped, Row

(* A row that gets a new token.                                               *)
LEMMA RenewedFollowed ==
    ASSUME CoreTyped, NEW t \in Source, NEW state \in States,
           rows' = [rows EXCEPT ![t].state = state, ![t].token = @ + 1],
           \A s \in Source : s # t => adoption'[s] = adoption[s]
    PROVE  \A s \in Source : Followed(s)
<1> SUFFICES ASSUME NEW s \in Source PROVE Followed(s)
  OBVIOUS
<1>1. rows \in [Source -> Row] /\ rows[s].token \in Nat
  BY DEF CoreTyped, Row
<1>2. CASE s = t
  <2>1. rows'[s].token = rows[s].token + 1
    BY <1>1, <1>2, RowRenewed
  <2>2. rows'[s].token > rows[s].token
    BY <1>1, <2>1
  <2> QED
    BY <1>1, <2>1, <2>2 DEF Followed
<1>3. CASE s # t
  <2>1. rows'[s] = rows[s] /\ adoption'[s] = adoption[s]
    BY <1>1, <1>3, RowRenewed
  <2> QED
    BY <2>1, StaysFollowed
<1> QED
  BY <1>2, <1>3

LEMMA OwnerFollowed ==
    ASSUME Inv, OfTheOwner, NEW s \in Source
    PROVE  Followed(s)
<1>1. CoreTyped
  BY DEF Inv
<1>2. PICK t \in Source : \/ Delete(t) \/ Supersede(t) \/ ApproveImport(t)
                          \/ ApproveAdoption(t) \/ UndoReview(t)
  BY DEF OfTheOwner
<1>3. {"obsolete", "pending", "done"} \subseteq States
  BY DEF States
<1>4. CASE Delete(t)
  <2>1. CASE rows' = rows
    BY <1>1, <1>4, <2>1, StaysFollowed DEF Delete
  <2>2. CASE rows' = [rows EXCEPT ![t].state = "obsolete", ![t].token = @ + 1]
    BY <1>1, <1>3, <1>4, <2>2, RenewedFollowed DEF Delete
  <2> QED
    BY <1>4, <2>1, <2>2 DEF Delete
<1>5. CASE Supersede(t)
  BY <1>1, <1>5, StaysFollowed DEF Supersede
<1>6. CASE ApproveImport(t)
  BY <1>1, <1>3, <1>6, RenewedFollowed DEF ApproveImport, Approved, Resumed
<1>7. CASE ApproveAdoption(t)
  <2>1. \A u \in Source : u # t => adoption'[u] = adoption[u]
    BY <1>1, <1>7 DEF ApproveAdoption, CoreTyped
  <2> QED
    BY <1>1, <1>3, <1>7, <2>1, RenewedFollowed DEF ApproveAdoption, Approved, Resumed
<1>8. CASE UndoReview(t)
  <2> DEFINE state == IF t \in Import THEN "obsolete" ELSE "done"
  <2>1. \A u \in Source : u # t => adoption'[u] = adoption[u]
    BY <1>1, <1>8 DEF UndoReview, CoreTyped
  <2>2. state \in States /\ rows' = [rows EXCEPT ![t].state = state, ![t].token = @ + 1]
    BY <1>3, <1>8 DEF UndoReview
  <2> HIDE DEF state
  <2> QED
    BY <1>1, <2>1, <2>2, RenewedFollowed
<1> QED
  BY <1>2, <1>4, <1>5, <1>6, <1>7, <1>8

LEMMA AnswerFollowed ==
    ASSUME Inv, NEW w \in Worker, NEW s \in Source,
           Accept(w) \/ AcceptPage(w) \/ CompleteWithoutModel(w) \/ AdoptionStage(w)
    PROVE  Followed(s)
<1>1. CoreTyped /\ rows \in [Source -> Row] /\ rows[s].token \in Nat
  BY DEF Inv, CoreTyped, Row
<1>2. VerifyLease(w) /\ task[w].item \in Source
  BY <1>1, TaskKinds DEF Accept, AcceptPage, Acceptable, CompleteWithoutModel, AdoptionStage,
                         NoTask
<1>3. CASE Accept(w)
  <2> DEFINE batch == task[w].batch
             R == Completed(rows, w, batch)
  <2>1. task[w] \in Asked /\ batch \in SUBSET Source /\ WithAdoptions(R, batch)
    BY <1>1, <1>3, TaskKinds DEF Accept, Asking, Asked
  <2>2. /\ R \in [Source -> Row] /\ R[s].token = rows[s].token
        /\ R[s] # rows[s] => R[s].state = "done"
    BY <1>1, <2>1, CompletedIs, CompletedSettles
  <2> HIDE DEF R
  <2>3. /\ rows'[s].token = R[s].token
        /\ rows'[s] # R[s] => adoption'[s] # "none"
        /\ adoption[s] # "none" => adoption'[s] = adoption[s]
    BY <1>1, <2>1, <2>2, WithAdoptionsIs
  <2> QED
    BY <1>1, <2>2, <2>3 DEF Followed
<1>4. CASE AcceptPage(w)
  <2> DEFINE t == task[w].item
             final == rows[t].offset + 1 = Pages
             state == IF final THEN "done" ELSE "pending"
             paged == [rows EXCEPT ![t].offset = @ + 1, ![t].state = state]
  <2>1. IF final THEN WithAdoptions(paged, {t}) ELSE rows' = paged /\ adoption' = adoption
    BY <1>4 DEF AcceptPage
  <2>2. /\ s # t => paged[s] = rows[s]
        /\ paged[s].token = rows[s].token
        /\ s = t => rows[s].state = "leased"
    BY <1>1, <1>2 DEF VerifyLease, Row
  <2>3. CASE ~final
    BY <1>1, <2>1, <2>2, <2>3, StaysFollowed
  <2>4. CASE final
    <3>1. paged \in [Source -> Row]
      <4>1. Pages \in Nat /\ rows[t].offset + 1 \in 0 .. Pages
        BY <1>1, <1>2, <2>4, BatchAssumption DEF Row
      <4>2. [rows[t] EXCEPT !.offset = @ + 1, !.state = state] \in Row
        BY <1>1, <1>2, <4>1 DEF Row
      <4> QED
        BY <1>1, <1>2, <4>2 DEF Row
    <3>2. WithAdoptions(paged, {t}) /\ {t} \in SUBSET Source
      BY <1>2, <2>1, <2>4
    <3> HIDE DEF paged, final, t
    <3>3. /\ rows'[s].token = paged[s].token
          /\ rows'[s] # paged[s] => adoption'[s] # "none"
          /\ adoption[s] # "none" => adoption'[s] = adoption[s]
      BY <1>1, <3>1, <3>2, WithAdoptionsIs
    <3> QED
      BY <1>1, <2>2, <3>3 DEF Followed
  <2> QED
    BY <2>3, <2>4
<1>5. CASE CompleteWithoutModel(w)
  <2> DEFINE t == task[w].item
             R == Completed(rows, w, {t})
  <2>1. task[w] \in Asked /\ {t} \in SUBSET Source
    BY <1>1, <1>2, <1>5, TaskKinds DEF CompleteWithoutModel, Asking
  <2>2. /\ R[s].token = rows[s].token
        /\ R[s] # rows[s] => R[s].state = "done"
    BY <1>1, <2>1, CompletedIs, CompletedSettles
  <2>3. rows' = R /\ adoption' = adoption
    BY <1>5 DEF CompleteWithoutModel
  <2> QED
    BY <1>1, <2>2, <2>3 DEF Followed
<1>6. CASE AdoptionStage(w)
  <2> DEFINE t == task[w].item
  <2>1. PICK next \in {"open", "review", "closed"} :
          /\ adoption' = [adoption EXCEPT ![t] = next]
          /\ rows' = [rows EXCEPT ![t].state = IF next = "open" THEN "pending" ELSE "done"]
    BY <1>6 DEF AdoptionStage
  <2>2. rows'[s].token = rows[s].token /\ (s # t => rows'[s] = rows[s])
    BY <1>1, <1>2, <2>1 DEF Row
  <2>3. adoption[s] # "none" => adoption'[s] # "none"
    BY <1>1, <2>1 DEF CoreTyped
  <2>4. s = t => rows[s].state = "leased"
    BY <1>2 DEF VerifyLease
  <2> QED
    BY <1>1, <2>2, <2>3, <2>4, StaysFollowed
<1> QED
  BY <1>3, <1>4, <1>5, <1>6

LEMMA StepFollowed ==
    ASSUME Inv, [Next]_vars, NEW s \in Source, s <= arrived
    PROVE  Followed(s)
<1>1. CoreTyped /\ rows \in [Source -> Row]
  BY DEF Inv, CoreTyped
<1>2. CASE rows' = rows /\ adoption' = adoption
  BY <1>1, <1>2, StaysFollowed
<1>3. CASE Arrive
  <2>1. arrived + 1 # s /\ arrived \in Nat
    BY <1>1 DEF CoreTyped, Source
  <2>2. rows'[s] = rows[s] /\ adoption' = adoption
    BY <1>1, <1>3, <2>1 DEF Arrive
  <2> QED
    BY <1>1, <2>2, StaysFollowed
<1>4. CASE OfTheOwner
  BY <1>4, OwnerFollowed
<1>5. ASSUME NEW t \in Source, Expire(t) \/ Reopen(t) PROVE Followed(s)
  <2>1. rows'[s].token = rows[s].token /\ (s # t => rows'[s] = rows[s])
    BY <1>1, <1>5 DEF Expire, Reopen, Row
  <2>2. adoption' = adoption /\ rows[t].state \in {"leased", "failed"}
    BY <1>5 DEF Expire, Reopen
  <2> QED
    BY <1>1, <2>1, <2>2, StaysFollowed
<1>6. ASSUME NEW w \in Worker, NEW t \in Source, Claim(w, t) PROVE Followed(s)
  <2>1. "leased" \in States
    BY DEF States
  <2> QED
    BY <1>1, <1>6, <2>1, RenewedFollowed DEF Claim
<1>7. ASSUME NEW w \in Worker, NEW state \in States, Returned(w, state) PROVE Followed(s)
  <2>1. rows'[s].token = rows[s].token /\ (s # task[w].item => rows'[s] = rows[s])
    BY <1>1, <1>7 DEF Returned, Row
  <2>2. adoption' = adoption /\ rows[task[w].item].state = "leased"
    BY <1>7 DEF Returned, VerifyLease
  <2> QED
    BY <1>1, <2>1, <2>2, StaysFollowed
<1>8. ASSUME NEW w \in Worker, OfTheWorker(w) PROVE Followed(s)
  <2>1. CASE HoldForPrivateMode(w) \/ ObsoleteWork(w) \/ Refuse(w) \/ Discard(w)
    BY <1>7, <2>1 DEF HoldForPrivateMode, ObsoleteWork, Refuse, Discard, States
  <2>2. CASE Abandon(w) \/ Admit(w) \/ ReadBatch(w) \/ ReadAdoption(w)
    BY <1>2, <2>2 DEF Abandon, Admit, ReadBatch, ReadAdoption
  <2> QED
    BY <1>6, <1>8, <2>1, <2>2, AnswerFollowed DEF OfTheWorker
<1>9. CASE Suppress \/ OpenInterval \/ CloseInterval \/ UNCHANGED vars
  BY <1>2, <1>9 DEF Suppress, OpenInterval, CloseInterval, vars
<1> QED
  BY <1>3, <1>4, <1>5, <1>8, <1>9 DEF Next, Steps

(* An answer is waited for as before, or it was just asked for.               *)
LEMMA WaitsAsBefore ==
    ASSUME Inv, [Next]_vars, NEW w \in Worker, task'[w].step \in Asking
    PROVE  \/ task[w].step \in Asking /\ task'[w].pending = task[w].pending
           \/ /\ task[w].step \notin Asking
              /\ \A p \in task'[w].pending : AsItIs(p)
              /\ UNCHANGED <<rows, adoption, arrived>>
<1> DEFINE Same == task[w].step \in Asking /\ task'[w].pending = task[w].pending
<1>1. CoreTyped /\ task'[w] # NoTask
  BY DEF Inv, Asking, NoTask
<1>2. ASSUME GoesOn(w) PROVE Same
  BY <1>1, <1>2 DEF GoesOn
<1>3. ASSUME task' = task PROVE Same
  BY <1>3
<1>4. ASSUME task' = Noted(task, "retraction") PROVE Same
  <2>1. {} \in SUBSET Worker /\ \A v \in Worker : task[v] = IF v \in {} THEN NoTask ELSE task[v]
    OBVIOUS
  <2> QED
    BY <1>1, <1>2, <1>4, <2>1, NotedGoesOn
<1>5. CASE Arrive \/ Suppress \/ OpenInterval \/ CloseInterval \/ UNCHANGED vars
  BY <1>3, <1>4, <1>5 DEF Arrive, Suppress, OpenInterval, CloseInterval, vars
<1>6. CASE OfTheOwner
  BY <1>3, <1>4, <1>6 DEF OfTheOwner, Delete, Supersede, ApproveImport, ApproveAdoption, UndoReview
<1>7. CASE \E s \in Source : Expire(s) \/ Reopen(s)
  BY <1>3, <1>7 DEF Expire, Reopen
<1>8. ASSUME NEW v \in Worker, Dropped(v) PROVE Same
  BY <1>1, <1>2, <1>8, OthersGoOn
<1>9. ASSUME NEW v \in Worker, Accept(v) \/ AcceptPage(v) PROVE Same
  <2>1. task[v] \in Asked /\ task[v].batch \in SUBSET Source /\ {task[v].item} \in SUBSET Source
    BY <1>1, <1>9, TaskKinds DEF Accept, AcceptPage, Asking, Asked
  <2>2. PICK resume \in BOOLEAN, declared \in SUBSET Source : Summarised(v, resume, declared)
    BY <1>9, <2>1 DEF Accept, AcceptPage
  <2>3. GoesOn(w)
    BY <1>1, <2>2, SummarisedIs
  <2> QED
    BY <1>2, <2>3
<1>10. ASSUME NEW v \in Worker, NEW s \in Source, Claim(v, s) PROVE Same
  <2>1. v # w
    BY <1>1, <1>10 DEF Claim, CoreTyped, Asking
  <2> QED
    BY <1>10, <2>1 DEF Claim
<1>11. ASSUME NEW v \in Worker, Admit(v) \/ ReadAdoption(v) PROVE Same
  <2>1. PICK step \in {"admitted", "adopting"} : task' = [task EXCEPT ![v].step = step]
    BY <1>11 DEF Admit, ReadAdoption
  <2>2. task[v] \in Claimed
    BY <1>1, <1>11, TaskKinds DEF Admit, ReadAdoption
  <2>3. v # w
    BY <1>1, <2>1, <2>2 DEF Claimed, CoreTyped, Asking
  <2> QED
    BY <2>1, <2>3
<1>12. ASSUME NEW v \in Worker, ReadBatch(v)
       PROVE  \/ Same
              \/ /\ task[w].step \notin Asking
                 /\ \A p \in task'[w].pending : AsItIs(p)
                 /\ UNCHANGED <<rows, adoption, arrived>>
  <2>1. CASE v = w
    <3>1. task[w].step \notin Asking
      BY <1>12, <2>1 DEF ReadBatch, Asking
    <3> QED
      BY <1>12, <2>1, <3>1, ReadBatchAsks DEF ReadBatch
  <2>2. CASE v # w
    BY <1>12, <2>2, ReadBatchAsks
  <2> QED
    BY <2>1, <2>2
<1>13. ASSUME NEW v \in Worker, OfTheWorker(v), ~ReadBatch(v) PROVE Same
  <2>1. CASE \/ Abandon(v) \/ HoldForPrivateMode(v) \/ ObsoleteWork(v) \/ Refuse(v)
             \/ Discard(v) \/ CompleteWithoutModel(v) \/ AdoptionStage(v)
    BY <1>8, <2>1 DEF Abandon, HoldForPrivateMode, ObsoleteWork, Refuse, Discard,
                      CompleteWithoutModel, AdoptionStage, Returned
  <2> QED
    BY <1>9, <1>10, <1>11, <1>13, <2>1 DEF OfTheWorker
<1> QED
  BY <1>5, <1>6, <1>7, <1>12, <1>13 DEF Next, Steps

(* What an answer's siblings are known to be after one more step.             *)
LEMMA NextWatched ==
    ASSUME Inv, Inv', WatchedAsRead, [Next]_vars
    PROVE  WatchedAsRead'
<1>1. CoreTyped /\ CoreTyped'
  BY DEF Inv
<1>2. CASE UNCHANGED vars
  BY <1>2 DEF WatchedAsRead, WaitsFor, MovedOn, vars
<1>3. CASE Watched
  <2>1. \A w \in Worker : WaitsFor(task, w) \subseteq Source /\ WaitsFor(task', w) \subseteq Source
    <3>1. \A w \in Worker : /\ "pending" \in DOMAIN task[w] => task[w] \in Asked
                            /\ "pending" \in DOMAIN task'[w] => task'[w] \in Asked
      BY <1>1 DEF CoreTyped, NoTask, Claimed
    <3> QED
      BY <3>1 DEF WaitsFor, Asked
  <2>2. /\ moved' \in [Worker -> SUBSET Source]
        /\ \A w \in Worker : moved'[w] \subseteq WaitsFor(task', w)
    BY <1>3, <2>1 DEF Watched
  <2>3. ASSUME NEW w \in Worker, task'[w].step \in Asking, NEW p \in task'[w].pending
        PROVE  IF p[1] \in moved'[w] THEN MovedOn(p)' ELSE rows'[p[1]].state = "pending"
    <3>1. CASE task[w].step \in Asking /\ task'[w].pending = task[w].pending
      <4>1. p \in task[w].pending /\ task[w] \in Asked /\ task'[w] \in Asked
        <5>1. task'[w] \in Asked
          BY <1>1, <2>3 DEF CoreTyped, NoTask, Claimed, Asking
        <5> QED
          BY <1>1, <2>3, <3>1, <5>1, TaskKinds
      <4>2. p[1] \in Source /\ p[2] \in Nat
        BY <4>1 DEF Asked
      <4>3. p[1] <= arrived /\ p[2] <= rows[p[1]].token
        BY <3>1, <4>1 DEF Inv, TasksInOrder, PendingAsRead
      <4>4. Followed(p[1]) /\ rows[p[1]].token \in Nat /\ rows'[p[1]].token \in Nat
        BY <1>1, <4>2, <4>3, StepFollowed DEF CoreTyped, Row
      <4>5. p[1] \in WaitsFor(task, w) /\ p[1] \in WaitsFor(task', w)
        BY <4>1, <2>3, <3>1 DEF WaitsFor, Asked
      <4>6. p[1] \in moved'[w] <=> p[1] \in moved[w] \/ rows'[p[1]] # rows[p[1]]
        BY <1>3, <4>5 DEF Watched
      <4>7. IF p[1] \in moved[w] THEN MovedOn(p) ELSE rows[p[1]].state = "pending"
        BY <3>1, <4>1 DEF WatchedAsRead
      <4>8. CASE p[1] \notin moved'[w]
        BY <4>6, <4>7, <4>8
      <4>9. CASE p[1] \in moved'[w]
        <5>1. MovedOn(p)'
          BY <4>2, <4>3, <4>4, <4>6, <4>7, <4>9 DEF MovedOn, Followed
        <5> QED
          BY <4>9, <5>1
      <4> QED
        BY <4>8, <4>9
    <3>2. CASE /\ task[w].step \notin Asking
               /\ \A q \in task'[w].pending : AsItIs(q)
               /\ UNCHANGED <<rows, adoption, arrived>>
      <4>1. WaitsFor(task, w) = {}
        BY <1>1, <3>2, TaskFields DEF WaitsFor
      <4>2. p[1] \notin moved'[w]
        BY <1>3, <4>1 DEF Watched
      <4> QED
        BY <2>3, <3>2, <4>2 DEF AsItIs
    <3> QED
      BY <2>3, <3>1, <3>2, WaitsAsBefore
  <2> QED
    BY <2>2, <2>3 DEF WatchedAsRead
<1> QED
  BY <1>2, <1>3 DEF Next

LEMMA InitWatched == Init => WatchedAsRead
BY DEF Init, WatchedAsRead, WaitsFor, NoTask, Asking

(* The ghost is well kept in every reachable conversation.                    *)
THEOREM WatchedHolds == Spec => [](Inv /\ WatchedAsRead)
<1>1. Init => Inv /\ WatchedAsRead
  BY InitInv, InitWatched
<1>2. Inv /\ WatchedAsRead /\ [Next]_vars => Inv' /\ WatchedAsRead'
  BY NextInv, NextWatched
<1> QED
  BY <1>1, <1>2, PTL DEF Spec

(* Every reachable conversation is well typed: a page never goes past the     *)
(* source's pages, and _processed_sequence always finds where to stop.        *)
THEOREM TypeCorrect == Spec => []TypeOK
<1>1. Inv /\ WatchedAsRead => TypeOK
  BY DEF Inv, CoreTyped, WatchedAsRead, TypeOK
<1> QED
  BY <1>1, WatchedHolds, PTL

(* An answer settles no sibling whose row changed since its read, but one     *)
(* whose adoption began in between.                                           *)
THEOREM RenewedSparedHolds == Spec => RenewedSpared
<1> DEFINE Spared == \A s \in Source, w \in Worker :
                /\ s \in moved[w] /\ task'[w] = NoTask
                /\ rows[s].state = "pending" /\ rows'[s].state = "done"
                => adoption[s] # "none"
<1>1. Inv /\ WatchedAsRead /\ [Next]_vars => Spared
  <2> SUFFICES ASSUME Inv, WatchedAsRead, [Next]_vars, NEW s \in Source, NEW w \in Worker,
                      s \in moved[w], task'[w] = NoTask,
                      rows[s].state = "pending", rows'[s].state = "done"
               PROVE  adoption[s] # "none"
    OBVIOUS
  <2>1. CoreTyped /\ rows[s].token \in Nat
    BY DEF Inv, CoreTyped, Row
  <2>2. task[w].step \in Asking /\ task[w] # NoTask
    <3>1. s \in WaitsFor(task, w)
      BY DEF WatchedAsRead
    <3>2. "pending" \in DOMAIN task[w]
      BY <3>1 DEF WaitsFor
    <3> QED
      BY <2>1, <3>2, TaskFields, TaskKinds DEF Asking
  <2>3. ASSUME NEW v \in Worker, Accept(v), <<s, rows[s].token>> \in task[v].pending
        PROVE  adoption[s] # "none"
    <3>1. CASE v = w
      <4>1. MovedOn(<<s, rows[s].token>>)
        BY <2>2, <2>3, <3>1 DEF WatchedAsRead
      <4> QED
        BY <2>1, <4>1 DEF MovedOn
    <3>2. CASE v # w
      <4>1. task[v].batch \in SUBSET Source
        BY <2>1, <2>3, TaskKinds DEF Accept, Asking, Asked
      <4>2. PICK resume \in BOOLEAN : Summarised(v, resume, task[v].batch)
        BY <2>3 DEF Accept
      <4>3. task'[w] # NoTask
        BY <2>1, <2>2, <3>2, <4>1, <4>2, SummarisedIs
      <4> QED
        BY <4>3
    <3> QED
      BY <3>1, <3>2
  <2>4. ASSUME UndoReview(s) PROVE FALSE
    BY <2>2, <2>4 DEF UndoReview
  <2> QED
    BY <2>3, <2>4, SettlesPending
<1>2. Inv /\ WatchedAsRead /\ [Next]_vars => [Spared]_vars
  BY <1>1
<1> QED
  BY <1>2, WatchedHolds, PTL DEF Spec, RenewedSpared

=============================================================================
