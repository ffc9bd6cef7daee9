--------------------------- MODULE WorkQueueProofs ---------------------------
(***************************************************************************)
(* Theorems of WorkQueue, for every value of its constants.                *)
(***************************************************************************)
EXTENDS WorkQueue, FiniteSetTheorems, TLAPS

-----------------------------------------------------------------------------
(* Histories stay histories.                                               *)

LEMMA BareType == \A kind \in Kind : Bare(kind) \in History
  BY DEF Bare, History

LEMMA RecordedType == \A h \in History, kind \in Kind : Recorded(h, kind) \in History
  BY DEF Recorded, Bare, History

LEMMA CapacityRefusalType == \A h \in History : CapacityRefusal(h) \in History
  <1> TAKE h \in History
  <1>1. h.caps + 1 \in Nat
    BY DEF History
  <1> QED
    BY <1>1 DEF CapacityRefusal, History, Kind

LEMMA AutoRetryStampType == \A h \in History : AutoRetryStamp(h) \in History
  <1> TAKE h \in History
  <1>1. h.autos + 1 \in Nat
    BY DEF History
  <1> QED
    BY <1>1 DEF AutoRetryStamp, History

LEMMA WithMarkType == \A h \in History, mark \in Mark : WithMark(h, mark) \in History
  BY DEF WithMark, History

LEMMA MarkedType == \A h \in History, release \in Release : Marked(h, release) \in History
  BY DEF Marked, History, Mark

LEMMA BackoffType ==
    ASSUME NEW first \in Nat, NEW ceiling \in Nat, NEW count
    PROVE  Backoff(first, ceiling, count) \in Nat
  BY DEF Backoff

-----------------------------------------------------------------------------
(* Rows stay rows.                                                         *)

LEMMA UnleasedType ==
    \A r \in Row, state \in State, h \in History : Unleased(r, state, h) \in Row
  BY DEF Unleased, Row

LEMMA PendingType ==
    \A r \in Row, wait \in Int, h \in History : Pending(r, wait, h) \in Row
  <1> TAKE r \in Row, wait \in Int, h \in History
  <1>1. Unleased(r, "pending", h) \in Row
    BY UnleasedType DEF State
  <1> QED
    BY <1>1 DEF Pending, Row

LEMMA FailedType ==
    \A r \in Row, wait \in Int, h \in History : Failed(r, wait, h) \in Row
  <1> TAKE r \in Row, wait \in Int, h \in History
  <1>1. Unleased(r, "failed", h) \in Row
    BY UnleasedType DEF State
  <1> QED
    BY <1>1 DEF Failed, Row

LEMMA RestartedType ==
    \A r \in Row, h \in History : Restarted(r, h) \in Row
  BY PendingType DEF Restarted, Row

LEMMA FencedType == \A r \in Row : Fenced(r) \in Row
  <1> TAKE r \in Row
  <1>1. r.token + 1 \in Nat
    BY DEF Row
  <1> QED
    BY <1>1 DEF Fenced, Row

LEMMA NotedType ==
    \A r \in Row, h \in History : Noted(r, h) \in Row /\ Obsolete(r) \in Row
  BY DEF Noted, Obsolete, Row, State

LEMMA RefundedType == \A r \in Row : Refunded(r) \in Row
  BY DEF Refunded, Row

LEMMA ReleasedRowType == \A r \in Row : ReleasedRow(r) \in Row
  <1> TAKE r \in Row
  <1>1. r.history \in History /\ "transient" \in Kind
    BY DEF Row, Kind
  <1>2. Recorded(r.history, "transient") \in History
    BY <1>1, RecordedType
  <1>3. \A h \in History : Unleased(r, "pending", h) \in Row /\ Failed(r, 0, h) \in Row
    BY UnleasedType, FailedType DEF State
  <1> QED
    BY <1>1, <1>2, <1>3 DEF ReleasedRow

LEMMA LeasedRowType == \A r \in Row, w \in Worker : LeasedRow(r, w) \in Row
  <1> TAKE r \in Row, w \in Worker
  <1>1. r.token + 1 \in Nat /\ r.attempt + 1 \in Nat
    BY DEF Row
  <1>2. LeaseSeconds \in Int
    BY QueueAssumption
  <1> QED
    BY <1>1, <1>2 DEF LeasedRow, Row, State

LEMMA OlderType == \A r \in Row : Older(r) \in Row
  <1> TAKE r \in Row
  <1> DEFINE wait == IF r.wait > -Horizon /\ r.state \in {"pending", "leased", "failed"}
                     THEN r.wait - 1 ELSE r.wait
             ttl == IF r.state = "leased" /\ (r.ttl >= 0 \/ r.ttl > -MaxLag)
                    THEN r.ttl - 1 ELSE r.ttl
  <1>1. r.wait - 1 \in Int /\ r.ttl - 1 \in Int
    BY DEF Row
  <1>2. wait \in Int /\ ttl \in Int
    BY <1>1 DEF Row
  <1>3. Older(r) = [r EXCEPT !.wait = wait, !.ttl = ttl]
    BY DEF Older, Row
  <1> QED
    BY <1>2, <1>3 DEF Row

-----------------------------------------------------------------------------
(***************************************************************************)
(* Type correctness.                                                       *)
(***************************************************************************)
LEMMA InitType == Init => TypeOK
  <1> SUFFICES ASSUME Init PROVE TypeOK
    OBVIOUS
  <1>1. AbsentRow \in Row
    BY DEF AbsentRow, Row, State, NoHistory, Bare, History, Kind
  <1>2. \A r \in LegacyRow : r \in Row
    <2> TAKE r \in LegacyRow
    <2>1. PICK a \in 1 .. MAX_RECOVERABLE_ATTEMPTS, k \in {"invalid", "oversized"} :
            r = LegacyFailure(a, k)
      BY DEF LegacyRow
    <2>2. a \in Nat
      BY QueueAssumption
    <2>3. Bare(k) \in History
      BY BareType DEF Kind
    <2>4. [AbsentRow EXCEPT !.state = "failed", !.attempt = a, !.token = a] \in Row
      BY <1>1, <2>2 DEF Row, State
    <2>5. [AbsentRow EXCEPT !.state = "failed", !.attempt = a, !.token = a,
                            !.history = Bare(k)] \in Row
      BY <2>3, <2>4 DEF Row
    <2> QED
      BY <2>1, <2>5 DEF LegacyFailure
  <1>3. rows \in [Item -> Row]
    BY <1>1, <1>2 DEF Init
  <1>4. leases \subseteq LeasedWork /\ live \subseteq Item /\ free \in Nat
    BY QueueAssumption DEF Init
  <1>5. undoable \in [Item -> SUBSET Row]
    BY DEF Init
  <1> QED
    BY <1>3, <1>4, <1>5 DEF TypeOK

\* The rows and those remembered for an undo.
RowsTyped == rows \in [Item -> Row] /\ undoable \in [Item -> SUBSET Row]

\* A row is replaced by another row.
LEMMA PutType ==
    ASSUME TypeOK, NEW i \in Item, NEW r \in Row, Put(i, r)
    PROVE  RowsTyped'
  BY DEF Put, TypeOK, RowsTyped

\* What is known of a lease and of the row it names.
LEMMA LeaseType ==
    ASSUME TypeOK, NEW h \in leases
    PROVE  /\ h.item \in Item /\ h.token \in Nat /\ h.owner \in Worker
           /\ rows[h.item] \in Row /\ rows[h.item].history \in History
  BY DEF TypeOK, LeasedWork, Row

LEMMA ReplyType ==
    ASSUME TypeOK, NEW h \in leases, NEW lag, NEW r \in Row, Reply(h, lag, r)
    PROVE  RowsTyped' /\ leases' \subseteq LeasedWork /\ live' \subseteq Item
  BY LeaseType, PutType DEF Reply, TypeOK, RowsTyped

LEMMA WorkerReplyType ==
    ASSUME TypeOK, NEW h \in leases, NEW lag \in 0 .. MaxLag, WorkerReply(h, lag)
    PROVE  TypeOK'
  <1> DEFINE r == rows[h.item]
  <1>0. /\ r \in Row /\ r.history \in History /\ r.attempt \in Nat
        /\ lag \in Int /\ -lag \in Int
    BY LeaseType, QueueAssumption DEF Row
  <1>1. free' \in Nat
    <2>1. free \in Nat /\ free + 1 \in Nat
      BY DEF TypeOK
    <2>2. free' = free \/ free' = free + 1
      BY DEF WorkerReply, Complete, MarkObsolete, DeferWithoutAttempt,
             FailForCapacity, FailForInvalid, FailForRetry, FailForGood
    <2> QED
      BY <2>1, <2>2
  <1>2. \A kind \in Kind : Recorded(r.history, kind) \in History
    BY <1>0, RecordedType
  <1> DEFINE Typed == RowsTyped' /\ leases' \subseteq LeasedWork /\ live' \subseteq Item
  <1> SUFFICES Typed
    BY <1>1 DEF TypeOK, RowsTyped
  <1> HIDE DEF Typed
  <1>3. \A q \in Row : Reply(h, lag, q) => Typed
    BY ReplyType DEF Typed
  <1>retry. RetryWait(r, lag) \in Int
    <2>1. Backoff(RetryFirst, RetryCeiling, r.attempt) \in Nat
      BY BackoffType, QueueAssumption
    <2> QED
      BY <2>1, <1>0 DEF RetryWait
  <1>4. CASE Complete(h, lag)
    <2>1. Unleased(r, "done", NoHistory) \in Row
      BY <1>0, UnleasedType, BareType DEF NoHistory, State, Kind
    <2> QED
      BY <1>4, <1>3, <2>1 DEF Complete
  <1>5. CASE MarkObsolete(h, lag)
    <2>1. Unleased(r, "obsolete", Bare("revoked")) \in Row
      BY <1>0, UnleasedType, BareType DEF State, Kind
    <2> QED
      BY <1>5, <1>3, <2>1 DEF MarkObsolete
  <1>6. ASSUME NEW seconds \in HoldSeconds, DeferWithoutAttempt(h, lag, seconds) PROVE Typed
    <2>1. seconds - lag \in Int
      BY <1>0, QueueAssumption
    <2>2. Refunded(Pending(r, seconds - lag, Recorded(r.history, "held"))) \in Row
      BY <1>0, <1>2, <2>1, PendingType, RefundedType DEF Kind
    <2> QED
      BY <1>6, <1>3, <2>2 DEF DeferWithoutAttempt
  <1>7. CASE FailForCapacity(h, lag)
    <2> DEFINE refused == CapacityRefusal(r.history)
               wait == Backoff(CapacityFirst, CapacityCeiling, refused.caps) - lag
    <2>1. refused \in History
      BY <1>0, CapacityRefusalType
    <2>2. Backoff(CapacityFirst, CapacityCeiling, refused.caps) \in Nat
      BY BackoffType, QueueAssumption
    <2>3. wait \in Int
      BY <2>2, <1>0
    <2> HIDE DEF wait
    <2>4. Refunded(Pending(r, wait, refused)) \in Row
      BY <1>0, <2>1, <2>3, PendingType, RefundedType
    <2> QED
      BY <1>7, <1>3, <2>4 DEF FailForCapacity, wait
  <1>8. CASE FailForInvalid(h, lag)
    <2>1. WithMark(r.history, "derivation_retry") \in History
      BY <1>0, WithMarkType DEF Mark
    <2>2. Recorded(WithMark(r.history, "derivation_retry"), "invalid") \in History
      BY <2>1, RecordedType DEF Kind
    <2>3. Pending(r, RetryWait(r, lag), Recorded(WithMark(r.history, "derivation_retry"), "invalid")) \in Row
      BY <1>0, <1>retry, <2>2, PendingType
    <2> QED
      BY <1>8, <1>3, <2>3 DEF FailForInvalid
  <1>9. ASSUME NEW kind \in Kind, FailForRetry(h, lag, kind) PROVE Typed
    <2>1. Pending(r, RetryWait(r, lag), Recorded(r.history, kind)) \in Row
      BY <1>0, <1>2, <1>retry, PendingType
    <2> QED
      BY <1>9, <1>3, <2>1 DEF FailForRetry
  <1>10. ASSUME NEW kind \in Kind, FailForGood(h, lag, kind) PROVE Typed
    <2>1. Failed(r, -lag, Recorded(r.history, kind)) \in Row
      BY <1>0, <1>2, FailedType
    <2> QED
      BY <1>10, <1>3, <2>1 DEF FailForGood
  <1> QED
    BY <1>4, <1>5, <1>6, <1>7, <1>8, <1>9, <1>10 DEF WorkerReply

LEMMA ClaimType ==
    ASSUME TypeOK, NEW w \in Worker, NEW kinds, NEW freshLane, ClaimNext(w, kinds, freshLane)
    PROVE  TypeOK'
  <1>1. Released \in [Item -> Row]
    BY ReleasedRowType DEF Released, TypeOK
  <1>2. PICK i \in Heads(Released, kinds, freshLane) :
            /\ rows' = [Released EXCEPT ![i] = LeasedRow(Released[i], w)]
            /\ leases' = leases \cup {[item |-> i, token |-> LeasedRow(Released[i], w).token,
                                       owner |-> w]}
            /\ undoable' = [undoable EXCEPT ![i] = {}]
    BY DEF ClaimNext
  <1>3. i \in Item
    BY DEF Heads, FreshHeads, FifoHeads, Ready
  <1>4. LeasedRow(Released[i], w) \in Row
    BY <1>1, <1>3, LeasedRowType
  <1>5. LeasedRow(Released[i], w).token \in Nat
    BY <1>4 DEF Row
  <1>6. RowsTyped'
    BY <1>1, <1>2, <1>3, <1>4 DEF RowsTyped, TypeOK
  <1>7. [item |-> i, token |-> LeasedRow(Released[i], w).token, owner |-> w] \in LeasedWork
    BY <1>3, <1>5 DEF LeasedWork
  <1> QED
    BY <1>2, <1>6, <1>7 DEF ClaimNext, TypeOK, RowsTyped

LEMMA RecoveryType == ASSUME TypeOK, NEW i \in Item, Recovery(i) PROVE TypeOK'
  <1> DEFINE r == rows[i]
  <1>0. r \in Row /\ r.history \in History
    BY DEF TypeOK, Row
  <1>1. \A q \in Row : Put(i, q) => RowsTyped'
    BY PutType
  <1>2. /\ Bare("revoked") \in History /\ Bare("refused") \in History /\ Bare("held") \in History
    BY BareType DEF Kind
  <1>3. /\ AutoRetryStamp(r.history) \in History
        /\ \A mark \in {"derivation_retry", "chunk_upgrade", "interrupted_retry"} :
              WithMark(r.history, mark) \in History
    BY <1>0, AutoRetryStampType, WithMarkType DEF Mark
  <1>4. \A h \in History : Pending(r, 0, h) \in Row
    BY <1>0, PendingType
  <1>5. \A h \in History : Noted(r, h) \in Row /\ Obsolete(r) \in Row /\ Obsolete(Noted(r, h)) \in Row
    BY <1>0, NotedType
  <1>7. Fenced(Pending(r, 0, Bare("held"))) \in Row
    BY <1>2, <1>4, FencedType
  <1> SUFFICES RowsTyped' /\ UNCHANGED <<leases, live, free>>
    BY DEF TypeOK, RowsTyped
  <1>u. UNCHANGED <<leases, live, free>>
    BY DEF Recovery, RecoverTransientFailures, RecoverInvalidDerivations,
           RecoverOversizedConsolidations, RecoverOversizedEvaluation, RetireRebounded,
           RecoverInterruptedAttempts, RequeueUnfinishedPurge
  <1>8. CASE RecoverTransientFailures(i)
    <2>1. Pending(r, 0, AutoRetryStamp(r.history)) \in Row
          /\ Obsolete(Noted(r, Bare("revoked"))) \in Row
      BY <1>2, <1>3, <1>4, <1>5
    <2> QED
      BY <1>8, <1>1, <1>u, <2>1 DEF RecoverTransientFailures
  <1>9. CASE RecoverInvalidDerivations(i)
    BY <1>9, <1>1, <1>3, <1>4, <1>u DEF RecoverInvalidDerivations
  <1>10. CASE RecoverOversizedConsolidations(i)
    BY <1>10, <1>1, <1>2, <1>3, <1>4, <1>5, <1>u DEF RecoverOversizedConsolidations
  <1>11. CASE RecoverOversizedEvaluation(i)
    BY <1>11, <1>1, <1>2, <1>4, <1>5, <1>u DEF RecoverOversizedEvaluation
  <1>12. CASE RetireRebounded(i)
    BY <1>12, <1>1, <1>2, <1>5, <1>u DEF RetireRebounded
  <1>13. CASE RecoverInterruptedAttempts(i)
    BY <1>13, <1>1, <1>3, <1>4, <1>u DEF RecoverInterruptedAttempts
  <1>14. CASE RequeueUnfinishedPurge(i)
    BY <1>14, <1>1, <1>7, <1>u DEF RequeueUnfinishedPurge
  <1> QED
    BY <1>8, <1>9, <1>10, <1>11, <1>12, <1>13, <1>14 DEF Recovery

LEMMA FreshStartType ==
    ASSUME TypeOK, NEW i \in Item, NEW r \in Row, FreshStart(i, r), live' \subseteq Item
    PROVE  TypeOK'
  <1>1. RowsTyped'
    BY PutType DEF FreshStart
  <1>2. free' \in Nat
    BY DEF FreshStart, TypeOK
  <1> QED
    BY <1>1, <1>2 DEF FreshStart, TypeOK, RowsTyped

LEMMA OperatorGrantType == ASSUME TypeOK, NEW i \in Item, OperatorGrant(i) PROVE TypeOK'
  <1> DEFINE r == rows[i]
  <1>0. r \in Row /\ r.history \in History /\ r.token \in Nat /\ r.token + 1 \in Nat
    BY DEF TypeOK, Row
  <1>1. \A q \in Row : Put(i, q) => RowsTyped'
    BY PutType
  <1>2. \A h \in History : /\ Pending(r, 0, h) \in Row /\ Restarted(r, h) \in Row
                          /\ Fenced(Restarted(r, h)) \in Row
    BY <1>0, PendingType, RestartedType, FencedType
  <1>3. live \subseteq Item /\ (live \cup {i}) \subseteq Item
    BY DEF TypeOK
  <1>4. free + 1 \in Nat
    BY DEF TypeOK
  <1>5. ASSUME NEW release \in Release, RetryFailed(i, release) PROVE TypeOK'
    <2>1. Marked(r.history, release) \in History
      BY <1>0, MarkedType
    <2> QED
      BY <1>5, <1>1, <1>2, <2>1 DEF RetryFailed, TypeOK, RowsTyped
  <1>6. ASSUME NEW release \in Release, ReopenUnvectored(i, release) PROVE TypeOK'
    <2>1. Marked(r.history, release) \in History
      BY <1>0, MarkedType
    <2> QED
      BY <1>6, <1>1, <1>2, <1>4, <2>1 DEF ReopenUnvectored, TypeOK, RowsTyped
  <1>7. ASSUME NEW operation \in Operation, OperatorRetryFailed(i, operation) PROVE TypeOK'
    <2>1. WithMark(r.history, operation) \in History
      BY <1>0, WithMarkType DEF Mark
    <2> QED
      BY <1>7, <1>1, <1>2, <2>1 DEF OperatorRetryFailed, TypeOK, RowsTyped
  <1>8. CASE RespacePage(i)
    <2>1. Bare("held") \in History
      BY BareType DEF Kind
    <2> QED
      BY <1>8, <1>2, <1>3, <2>1, FreshStartType DEF RespacePage
  <1>9. NoHistory \in History
    BY BareType DEF NoHistory, Kind
  <1>10. CASE ReopenProjection(i)
    BY <1>10, <1>2, <1>3, <1>9, FreshStartType DEF ReopenProjection
  <1>11. CASE RequeueSuppressed(i)
    BY <1>11, <1>2, <1>3, <1>9, FreshStartType DEF RequeueSuppressed
  <1> QED
    BY <1>5, <1>6, <1>7, <1>8, <1>10, <1>11 DEF OperatorGrant

LEMMA WithdrawalType ==
    ASSUME TypeOK, NEW i \in Item, Withdrawal(i)
    PROVE  TypeOK'
  <1> DEFINE r == rows[i]
  <1>0. r \in Row /\ r.history \in History /\ Bare("revoked") \in History
    BY BareType DEF TypeOK, Row, Kind
  <1>1. \A q \in Row : Put(i, q) => RowsTyped'
    BY PutType
  <1>2. \A h \in History : Fenced(Unleased(r, "obsolete", h)) \in Row
    BY <1>0, UnleasedType, FencedType DEF State
  <1>3. Obsolete(r) \in Row
    BY <1>0, NotedType
  <1>4. live \ {i} \subseteq Item
    BY DEF TypeOK
  <1>5. CASE DeleteSubject(i)
    BY <1>5, <1>0, <1>1, <1>2, <1>4 DEF DeleteSubject, TypeOK, RowsTyped
  <1>6. CASE SupersedeSubject(i)
    BY <1>6, <1>0, <1>1, <1>3, <1>4 DEF SupersedeSubject, TypeOK, RowsTyped
  <1>7. CASE RetireEvaluation(i)
    <2>1. Fenced(Unleased(r, "obsolete", Bare("refused"))) \in Row
      BY <1>2, BareType DEF Kind
    <2> QED
      BY <1>7, <1>1, <1>4, <2>1 DEF RetireEvaluation, TypeOK, RowsTyped
  <1> QED
    BY <1>5, <1>6, <1>7 DEF Withdrawal

\* An accepted consolidation finishes rows and queues rows again.
LEMMA CompletionType ==
    ASSUME TypeOK, NEW h \in leases, NEW lag, CompleteConsolidation(h, lag)
    PROVE  TypeOK'
  <1>1. NoHistory \in History
    BY BareType DEF NoHistory, Kind
  <1>2. \A r \in Row : Restarted(r, NoHistory) \in Row /\ Unleased(r, "done", NoHistory) \in Row
    BY <1>1, RestartedType, UnleasedType DEF State
  <1>3. PICK covered \in SUBSET ((Consolidations \cap live) \ {h.item}) :
          LET finished == {h.item} \cup {i \in covered : rows[i].state = "pending"}
              done == finished \cup {i \in covered : rows[i].state = "done"}
          IN  \E adopting \in SUBSET done :
              /\ adopting # {} => free < MaxFree
              /\ rows' = [i \in Item |->
                             IF i \in adopting THEN Restarted(rows[i], NoHistory)
                             ELSE IF i \in finished THEN Unleased(rows[i], "done", NoHistory)
                             ELSE rows[i]]
              /\ undoable' = [i \in Item |-> IF i \in done THEN {} ELSE undoable[i]]
              /\ free' = IF adopting = {} THEN free ELSE free + 1
    BY DEF CompleteConsolidation, FinishedAlong
  <1> DEFINE finished == {h.item} \cup {i \in covered : rows[i].state = "pending"}
             done == finished \cup {i \in covered : rows[i].state = "done"}
  <1>4. PICK adopting \in SUBSET done :
          /\ rows' = [i \in Item |->
                         IF i \in adopting THEN Restarted(rows[i], NoHistory)
                         ELSE IF i \in finished THEN Unleased(rows[i], "done", NoHistory)
                         ELSE rows[i]]
          /\ undoable' = [i \in Item |-> IF i \in done THEN {} ELSE undoable[i]]
          /\ free' = IF adopting = {} THEN free ELSE free + 1
    BY <1>3
  <1> HIDE DEF finished, done
  <1>5. rows' \in [Item -> Row]
    BY <1>2, <1>4 DEF TypeOK
  <1>6. undoable' \in [Item -> SUBSET Row]
    BY <1>4 DEF TypeOK
  <1>7. free' \in Nat
    BY <1>4 DEF TypeOK
  <1> QED
    BY <1>5, <1>6, <1>7 DEF CompleteConsolidation, FinishedAlong, TypeOK

LEMMA RestoredType == \A r, before \in Row : RestoredRow(r, before) \in Row
  <1> TAKE r, before \in Row
  <1>1. Obsolete(Noted(r, Bare("revoked"))) \in Row
    BY NotedType, BareType DEF Kind
  <1>2. [before EXCEPT !.token = r.token] \in Row
    BY DEF Row
  <1> QED
    BY <1>1, <1>2, FencedType DEF RestoredRow

LEMMA OwnerReviewType ==
    ASSUME TypeOK, NEW i \in Item, OwnerReview(i)
    PROVE  TypeOK'
  <1>0. rows[i] \in Row /\ undoable[i] \subseteq Row /\ free + 1 \in Nat
    BY DEF TypeOK
  <1>1. CASE ResumeQueue(i)
    <2>1. Fenced(Restarted(rows[i], NoHistory)) \in Row
      BY <1>0, RestartedType, FencedType, BareType DEF NoHistory, Kind
    <2>2. rows' \in [Item -> Row] /\ undoable' \in [Item -> SUBSET Row]
      BY <1>0, <1>1, <2>1 DEF ResumeQueue, TypeOK
    <2> QED
      BY <1>0, <1>1, <2>2 DEF ResumeQueue, TypeOK
  <1>2. CASE RestoreQueue(i)
    <2>1. PICK before \in undoable[i] : Put(i, RestoredRow(rows[i], before))
      BY <1>2 DEF RestoreQueue
    <2>2. RowsTyped'
      BY <1>0, <2>1, PutType, RestoredType
    <2> QED
      BY <1>2, <2>2 DEF RestoreQueue, TypeOK, RowsTyped
  <1>3. CASE RestoreRejected(i)
    BY <1>0, <1>3, PutType, FencedType DEF RestoreRejected, TypeOK, RowsTyped
  <1> QED
    BY <1>1, <1>2, <1>3 DEF OwnerReview

LEMMA NextType == TypeOK /\ [Next]_vars => TypeOK'
  <1> SUFFICES ASSUME TypeOK, [Next]_vars PROVE TypeOK'
    OBVIOUS
  <1>1. ASSUME NEW i \in Item, Enqueue(i) PROVE TypeOK'
    <2>1. rows[i] \in Row
      BY DEF TypeOK
    <2>2. [rows[i] EXCEPT !.state = "pending"] \in Row
      BY <2>1 DEF Row, State
    <2> QED
      BY <1>1, <2>2, PutType DEF Enqueue, TypeOK, RowsTyped
  <1>2. ASSUME NEW w \in Worker, NEW kinds, NEW freshLane, ClaimNext(w, kinds, freshLane)
        PROVE  TypeOK'
    BY <1>2, ClaimType
  <1>3. ASSUME NEW kinds, ReleaseStale(kinds) PROVE TypeOK'
    BY <1>3, ReleasedRowType DEF ReleaseStale, Released, TypeOK
  <1>4. ASSUME NEW h \in leases, Abandon(h) PROVE TypeOK'
    BY <1>4 DEF Abandon, TypeOK
  <1>5. CASE Tick
    BY <1>5, OlderType DEF Tick, TypeOK
  <1>6. CASE UNCHANGED vars
    BY <1>6 DEF vars, TypeOK
  <1> QED
    BY <1>1, <1>2, <1>3, <1>4, <1>5, <1>6, RecoveryType, OperatorGrantType, WithdrawalType,
       WorkerReplyType, CompletionType, OwnerReviewType DEF Next

(***************************************************************************)
(* Whatever the workers, the operator and the clock do, a row keeps the    *)
(* shape the queue's queries rely on.                                      *)
(***************************************************************************)
THEOREM TypeCorrect == Spec => []TypeOK
  <1>1. Init => TypeOK
    BY InitType
  <1>2. TypeOK /\ [Next]_vars => TypeOK'
    BY NextType
  <1> QED
    BY <1>1, <1>2, PTL DEF Spec

-----------------------------------------------------------------------------
(***************************************************************************)
(* Tokens.  A token never goes back, and the only step that makes a lease  *)
(* is a claim, which gives it the token its row has just been given.       *)
(***************************************************************************)
LEMMA RowFields ==
    ASSUME TypeOK, NEW i \in Item
    PROVE  /\ rows[i] \in Row /\ rows[i].token \in Nat /\ rows[i].attempt \in Nat
           /\ rows[i].history \in History /\ rows[i].state \in State
           /\ rows[i].wait \in Int /\ rows[i].ttl \in Int
  BY DEF TypeOK, Row

LEMMA UnleasedFields ==
    \A r \in Row : \A state, h :
        LET q == Unleased(r, state, h)
        IN  /\ q.state = state /\ q.history = h /\ q.owner = NoWorker
            /\ q.token = r.token /\ q.attempt = r.attempt
  BY DEF Unleased, Row

LEMMA PendingFields ==
    \A r \in Row : \A wait, h :
        LET q == Pending(r, wait, h)
        IN  /\ q.state = "pending" /\ q.history = h /\ q.owner = NoWorker
            /\ q.token = r.token /\ q.attempt = r.attempt
  BY DEF Pending, Unleased, Row

LEMMA RefundedFields ==
    \A r \in Row : \A wait, h :
        LET q == Refunded(Pending(r, wait, h))
        IN  /\ q.state = "pending" /\ q.history = h /\ q.token = r.token
            /\ q.attempt = IF r.attempt = 0 THEN 0 ELSE r.attempt - 1
  BY DEF Refunded, Pending, Unleased, Row

LEMMA FailedFields ==
    \A r \in Row : \A wait, h :
        LET q == Failed(r, wait, h)
        IN  /\ q.state = "failed" /\ q.history = h /\ q.token = r.token
            /\ q.attempt = r.attempt
  BY DEF Failed, Unleased, Row

LEMMA RestartedFields ==
    \A r \in Row : \A h :
        LET q == Restarted(r, h)
        IN  q.state = "pending" /\ q.history = h /\ q.token = r.token /\ q.attempt = 0
  BY DEF Restarted, Pending, Unleased, Row

LEMMA FencedFields ==
    \A r \in Row : \A state, h :
        /\ LET q == Fenced(Unleased(r, state, h))
           IN  /\ q.state = state /\ q.history = h
               /\ q.token = r.token + 1 /\ q.attempt = r.attempt
        /\ LET q == Fenced(Pending(r, 0, h))
           IN  /\ q.state = "pending" /\ q.history = h
               /\ q.token = r.token + 1 /\ q.attempt = r.attempt
        /\ LET q == Fenced(Restarted(r, h))
           IN  /\ q.state = "pending" /\ q.history = h
               /\ q.token = r.token + 1 /\ q.attempt = 0
  BY DEF Fenced, Restarted, Pending, Unleased, Row

LEMMA NotedFields ==
    \A r \in Row : \A h :
        /\ LET q == Noted(r, h)
           IN  /\ q.state = r.state /\ q.history = h
               /\ q.token = r.token /\ q.attempt = r.attempt
        /\ LET q == Obsolete(r)
           IN  /\ q.state = "obsolete" /\ q.history = r.history
               /\ q.token = r.token /\ q.attempt = r.attempt
        /\ LET q == Obsolete(Noted(r, h))
           IN  /\ q.state = "obsolete" /\ q.history = h
               /\ q.token = r.token /\ q.attempt = r.attempt
  BY DEF Noted, Obsolete, Row

LEMMA ReleasedFields ==
    \A r \in Row :
        LET q == ReleasedRow(r)
        IN  /\ q.token = r.token /\ q.attempt = r.attempt
            /\ ~Expired(r) => q = r
            /\ Expired(r) /\ r.attempt < MAX_RECOVERABLE_ATTEMPTS
                  => q.state = "pending" /\ q.history = r.history
            /\ Expired(r) /\ r.attempt >= MAX_RECOVERABLE_ATTEMPTS
                  => q.state = "failed" /\ q.history = Recorded(r.history, "transient")
  <1> SUFFICES ASSUME NEW r \in Row
               PROVE  LET q == ReleasedRow(r)
                      IN  /\ q.token = r.token /\ q.attempt = r.attempt
                          /\ ~Expired(r) => q = r
                          /\ Expired(r) /\ r.attempt < MAX_RECOVERABLE_ATTEMPTS
                                => q.state = "pending" /\ q.history = r.history
                          /\ Expired(r) /\ r.attempt >= MAX_RECOVERABLE_ATTEMPTS
                                => q.state = "failed" /\ q.history = Recorded(r.history, "transient")
    OBVIOUS
  <1>1. r.attempt \in Nat /\ MAX_RECOVERABLE_ATTEMPTS \in Nat
    BY QueueAssumption DEF Row
  <1> QED
    BY <1>1, UnleasedFields, FailedFields DEF ReleasedRow

LEMMA LeasedFields ==
    \A r \in Row, w \in Worker :
        LET q == LeasedRow(r, w)
        IN  /\ q.state = "leased" /\ q.token = r.token + 1 /\ q.attempt = r.attempt + 1
            /\ q.history = r.history /\ q.owner = w
  BY DEF LeasedRow, Row

LEMMA OlderFields ==
    \A r \in Row :
        LET q == Older(r)
        IN  /\ q.state = r.state /\ q.token = r.token /\ q.attempt = r.attempt
            /\ q.history = r.history /\ q.owner = r.owner
  BY DEF Older, Row

\* One row changes, the others stay.
LEMMA PutOne ==
    ASSUME TypeOK, NEW i \in Item, NEW q, Put(i, q)
    PROVE  /\ rows'[i] = q /\ \A j \in Item \ {i} : rows'[j] = rows[j]
           /\ undoable'[i] = {} /\ \A j \in Item \ {i} : undoable'[j] = undoable[j]
  BY DEF Put, TypeOK

\* What a reply does to the row, whatever the answer was.
LEMMA ReplyMoves ==
    ASSUME TypeOK, NEW h \in leases, NEW lag \in 0 .. MaxLag, WorkerReply(h, lag)
    PROVE  /\ VerifyLease(h, lag)
           /\ leases' = leases \ {h}
           /\ \A j \in Item \ {h.item} : rows'[j] = rows[j]
           /\ rows'[h.item].token = rows[h.item].token
           /\ rows'[h.item].state \in {"pending", "done", "failed", "obsolete"}
  <1> DEFINE r == rows[h.item]
             Moves == /\ VerifyLease(h, lag)
                      /\ leases' = leases \ {h}
                      /\ \A j \in Item \ {h.item} : rows'[j] = rows[j]
                      /\ rows'[h.item].token = rows[h.item].token
                      /\ rows'[h.item].state \in {"pending", "done", "failed", "obsolete"}
  <1>0. r \in Row /\ h.item \in Item
    BY LeaseType
  <1>1. ASSUME NEW q, Reply(h, lag, q), q.token = r.token,
               q.state \in {"pending", "done", "failed", "obsolete"}
        PROVE  Moves
    BY <1>0, <1>1, PutOne DEF Reply
  <1> HIDE DEF Moves
  <1> SUFFICES Moves
    BY DEF Moves
  <1>2. CASE Complete(h, lag)
    BY <1>0, <1>1, <1>2, UnleasedFields DEF Complete
  <1>3. CASE MarkObsolete(h, lag)
    BY <1>0, <1>1, <1>3, UnleasedFields DEF MarkObsolete
  <1>4. ASSUME NEW seconds \in HoldSeconds, DeferWithoutAttempt(h, lag, seconds) PROVE Moves
    BY <1>0, <1>1, <1>4, RefundedFields DEF DeferWithoutAttempt
  <1>5. CASE FailForCapacity(h, lag)
    BY <1>0, <1>1, <1>5, RefundedFields DEF FailForCapacity
  <1>6. CASE FailForInvalid(h, lag)
    BY <1>0, <1>1, <1>6, PendingFields DEF FailForInvalid
  <1>7. ASSUME NEW kind \in Kind, FailForRetry(h, lag, kind) PROVE Moves
    BY <1>0, <1>1, <1>7, PendingFields DEF FailForRetry
  <1>8. ASSUME NEW kind \in Kind, FailForGood(h, lag, kind) PROVE Moves
    BY <1>0, <1>1, <1>8, FailedFields DEF FailForGood
  <1> QED
    BY <1>2, <1>3, <1>4, <1>5, <1>6, <1>7, <1>8 DEF WorkerReply

\* Recovery and the operator only touch a row no worker holds.
LEMMA GrantMoves ==
    ASSUME TypeOK, NEW i \in Item, Recovery(i) \/ OperatorGrant(i)
    PROVE  /\ leases' = leases
           /\ \A j \in Item \ {i} : rows'[j] = rows[j]
           /\ rows[i].state \in {"failed", "done", "obsolete"}
           /\ rows'[i].token \in {rows[i].token, rows[i].token + 1}
           /\ \/ rows'[i].state = "pending"
              \/ rows[i].state = "failed" /\ rows'[i].state \in {"failed", "obsolete"}
                    /\ rows'[i].token = rows[i].token
  <1> DEFINE r == rows[i]
             Moves ==
                 /\ leases' = leases
                 /\ \A j \in Item \ {i} : rows'[j] = rows[j]
                 /\ r.state \in {"failed", "done", "obsolete"}
                 /\ rows'[i].token \in {r.token, r.token + 1}
                 /\ \/ rows'[i].state = "pending"
                    \/ r.state = "failed" /\ rows'[i].state \in {"failed", "obsolete"}
                          /\ rows'[i].token = r.token
  <1>0. r \in Row
    BY DEF TypeOK
  <1>p. ASSUME NEW q, Put(i, q), leases' = leases,
               r.state \in {"failed", "done", "obsolete"},
               q.token \in {r.token, r.token + 1},
               q.state = "pending" \/ (r.state = "failed" /\ q.state \in {"failed", "obsolete"}
                                          /\ q.token = r.token)
        PROVE  Moves
    BY <1>p, PutOne
  <1> HIDE DEF Moves
  <1> SUFFICES Moves
    BY DEF Moves
  <1>1. CASE RecoverTransientFailures(i)
    BY <1>0, <1>1, <1>p, NotedFields, PendingFields DEF RecoverTransientFailures
  <1>2. CASE RecoverInvalidDerivations(i)
    BY <1>0, <1>2, <1>p, PendingFields DEF RecoverInvalidDerivations
  <1>3. CASE RecoverOversizedConsolidations(i)
    BY <1>0, <1>3, <1>p, NotedFields, PendingFields DEF RecoverOversizedConsolidations
  <1>4. CASE RecoverOversizedEvaluation(i)
    BY <1>0, <1>4, <1>p, NotedFields, PendingFields DEF RecoverOversizedEvaluation
  <1>5. CASE RetireRebounded(i)
    BY <1>0, <1>5, <1>p, NotedFields DEF RetireRebounded
  <1>6. CASE RecoverInterruptedAttempts(i)
    BY <1>0, <1>6, <1>p, PendingFields DEF RecoverInterruptedAttempts
  <1>7. CASE RequeueUnfinishedPurge(i)
    BY <1>0, <1>7, <1>p, FencedFields DEF RequeueUnfinishedPurge
  <1>8. ASSUME NEW release \in Release, RetryFailed(i, release) PROVE Moves
    BY <1>0, <1>8, <1>p, RestartedFields DEF RetryFailed
  <1>9. ASSUME NEW release \in Release, ReopenUnvectored(i, release) PROVE Moves
    BY <1>0, <1>9, <1>p, RestartedFields DEF ReopenUnvectored
  <1>10. ASSUME NEW operation \in Operation, OperatorRetryFailed(i, operation) PROVE Moves
    BY <1>0, <1>10, <1>p, PendingFields DEF OperatorRetryFailed
  <1>11. CASE RespacePage(i)
    BY <1>0, <1>11, <1>p, FencedFields DEF RespacePage, FreshStart
  <1>12. CASE ReopenProjection(i)
    BY <1>0, <1>12, <1>p, RestartedFields DEF ReopenProjection, FreshStart
  <1>13. CASE RequeueSuppressed(i)
    BY <1>0, <1>13, <1>p, FencedFields DEF RequeueSuppressed, FreshStart
  <1> QED
    BY <1>1, <1>2, <1>3, <1>4, <1>5, <1>6, <1>7, <1>8, <1>9, <1>10, <1>11, <1>12, <1>13
    DEF Recovery, OperatorGrant

\* A subject that goes away fences its unsettled row, or withdraws it as it is.
LEMMA WithdrawalMoves ==
    ASSUME TypeOK, NEW i \in Item, Withdrawal(i)
    PROVE  /\ leases' = leases
           /\ \A j \in Item \ {i} : rows'[j] = rows[j]
           /\ \/ rows'[i] = rows[i]
              \/ /\ rows[i].state \in {"pending", "leased", "failed"}
                 /\ rows'[i].state = "obsolete"
                 /\ \/ rows'[i].token = rows[i].token + 1
                    \/ rows'[i].token = rows[i].token /\ Supersedable(i)
  <1> DEFINE r == rows[i]
  <1>0. r \in Row
    BY DEF TypeOK
  <1>1. CASE DeleteSubject(i)
    <2> DEFINE h == IF TypeOf[i] = "evaluate_candidate" THEN Bare("revoked") ELSE r.history
               q == Fenced(Unleased(r, "obsolete", h))
    <2>1. q.state = "obsolete" /\ q.token = r.token + 1
      BY <1>0, FencedFields
    <2> HIDE DEF q
    <2>2. rows'[i] = (IF r.state \notin {"pending", "leased"} THEN r ELSE q)
          /\ \A j \in Item \ {i} : rows'[j] = rows[j]
      BY <1>1, PutOne DEF DeleteSubject, q
    <2> QED
      BY <1>1, <2>1, <2>2 DEF DeleteSubject
  <1>2. CASE SupersedeSubject(i)
    <2>1. Obsolete(r).state = "obsolete" /\ Obsolete(r).token = r.token
      BY <1>0, NotedFields
    <2>2. /\ rows'[i] = (IF Supersedable(i) THEN Obsolete(r) ELSE r)
          /\ \A j \in Item \ {i} : rows'[j] = rows[j]
      BY <1>2, PutOne DEF SupersedeSubject
    <2>3. Supersedable(i) => r.state \in {"pending", "leased"}
      BY QueueAssumption DEF Supersedable, WorkType
    <2> QED
      BY <1>2, <2>1, <2>2, <2>3 DEF SupersedeSubject
  <1>3. CASE RetireEvaluation(i)
    BY <1>0, <1>3, PutOne, FencedFields DEF RetireEvaluation
  <1> QED
    BY <1>1, <1>2, <1>3 DEF Withdrawal

LEMMA ClaimMoves ==
    ASSUME TypeOK, NEW w \in Worker, NEW kinds, NEW freshLane, ClaimNext(w, kinds, freshLane)
    PROVE  \E i \in Item :
              /\ Released[i].state = "pending"
              /\ rows'[i] = LeasedRow(Released[i], w)
              /\ \A j \in Item \ {i} : rows'[j] = ReleasedRow(rows[j])
              /\ leases' = leases \cup {[item |-> i, token |-> rows'[i].token, owner |-> w]}
  <1>1. PICK i \in Heads(Released, kinds, freshLane) :
            /\ rows' = [Released EXCEPT ![i] = LeasedRow(Released[i], w)]
            /\ leases' = leases \cup {[item |-> i, token |-> LeasedRow(Released[i], w).token,
                                       owner |-> w]}
    BY DEF ClaimNext
  <1>2. i \in Item /\ Released[i].state = "pending"
    BY DEF Heads, FreshHeads, FifoHeads, Ready
  <1>3. \A j \in Item : Released[j] = ReleasedRow(rows[j])
    BY DEF Released
  <1>4. rows'[i] = LeasedRow(Released[i], w) /\ \A j \in Item \ {i} : rows'[j] = Released[j]
    BY <1>1, <1>2 DEF Released
  <1> QED
    BY <1>1, <1>2, <1>3, <1>4

LEMMA EnqueueMoves ==
    ASSUME TypeOK, NEW i \in Item, Enqueue(i)
    PROVE  /\ leases' = leases
           /\ rows[i].state = "absent" /\ rows'[i].state = "pending"
           /\ rows'[i].token = rows[i].token /\ rows'[i].attempt = rows[i].attempt
           /\ rows'[i].history = rows[i].history
           /\ \A j \in Item \ {i} : rows'[j] = rows[j]
  BY DEF Enqueue, Put, TypeOK, Row

\* An accepted consolidation takes its own row out of its lease; the others it
\* changes are covered rows that nobody holds.
LEMMA CompletionMoves ==
    ASSUME TypeOK, NEW h \in leases, NEW lag, CompleteConsolidation(h, lag)
    PROVE  /\ h.item \in Consolidations
           /\ VerifyLease(h, lag)
           /\ leases' = leases \ {h}
           /\ rows'[h.item] \in {Restarted(rows[h.item], NoHistory),
                                 Unleased(rows[h.item], "done", NoHistory)}
           /\ undoable'[h.item] = {}
           /\ \A j \in Item \ {h.item} :
                 \/ rows'[j] = rows[j] /\ undoable'[j] = undoable[j]
                 \/ /\ j \in Consolidations
                    /\ rows[j].state \in {"pending", "done"}
                    /\ rows'[j] \in {rows[j], Restarted(rows[j], NoHistory),
                                     Unleased(rows[j], "done", NoHistory)}
                    /\ undoable'[j] = {}
  <1>1. PICK covered \in SUBSET ((Consolidations \cap live) \ {h.item}) :
          LET finished == {h.item} \cup {i \in covered : rows[i].state = "pending"}
              done == finished \cup {i \in covered : rows[i].state = "done"}
          IN  \E adopting \in SUBSET done :
              /\ adopting # {} => free < MaxFree
              /\ rows' = [i \in Item |->
                             IF i \in adopting THEN Restarted(rows[i], NoHistory)
                             ELSE IF i \in finished THEN Unleased(rows[i], "done", NoHistory)
                             ELSE rows[i]]
              /\ undoable' = [i \in Item |-> IF i \in done THEN {} ELSE undoable[i]]
              /\ free' = IF adopting = {} THEN free ELSE free + 1
    BY DEF CompleteConsolidation, FinishedAlong
  <1> DEFINE finished == {h.item} \cup {i \in covered : rows[i].state = "pending"}
             done == finished \cup {i \in covered : rows[i].state = "done"}
  <1>2. PICK adopting \in SUBSET done :
          /\ rows' = [i \in Item |->
                         IF i \in adopting THEN Restarted(rows[i], NoHistory)
                         ELSE IF i \in finished THEN Unleased(rows[i], "done", NoHistory)
                         ELSE rows[i]]
          /\ undoable' = [i \in Item |-> IF i \in done THEN {} ELSE undoable[i]]
    BY <1>1
  <1>3. /\ h.item \in Item /\ h.item \in finished /\ finished \subseteq done
        /\ \A j \in done \ {h.item} : j \in Consolidations /\ rows[j].state \in {"pending", "done"}
    BY LeaseType
  <1> HIDE DEF finished, done
  <1>4. rows'[h.item] \in {Restarted(rows[h.item], NoHistory),
                           Unleased(rows[h.item], "done", NoHistory)}
        /\ undoable'[h.item] = {}
    BY <1>2, <1>3
  <1>5. \A j \in Item \ {h.item} :
            \/ rows'[j] = rows[j] /\ undoable'[j] = undoable[j]
            \/ /\ j \in Consolidations
               /\ rows[j].state \in {"pending", "done"}
               /\ rows'[j] \in {rows[j], Restarted(rows[j], NoHistory),
                                Unleased(rows[j], "done", NoHistory)}
               /\ undoable'[j] = {}
    BY <1>2, <1>3
  <1> QED
    BY <1>4, <1>5 DEF CompleteConsolidation, FinishedAlong

LEMMA RestoredFields ==
    \A r, before \in Row :
        LET q == RestoredRow(r, before)
        IN  /\ q.token = r.token + 1
            /\ before.state = "absent" => q.state = "obsolete" /\ q.history = Bare("revoked")
            /\ before.state # "absent" => q.state = before.state /\ q.history = before.history
                                         /\ q.attempt = before.attempt
  BY DEF RestoredRow, Fenced, Obsolete, Noted, Row

\* A review and its undo outdate the token of one consolidation and lease nothing.
LEMMA ReviewMoves ==
    ASSUME TypeOK, NEW i \in Item, OwnerReview(i)
    PROVE  /\ i \in Consolidations
           /\ leases' = leases
           /\ \A j \in Item \ {i} : rows'[j] = rows[j] /\ undoable'[j] = undoable[j]
           /\ rows'[i].token = rows[i].token + 1
           /\ \/ /\ rows[i].state # "leased" /\ undoable'[i] = {rows[i]}
                 /\ rows'[i] = Fenced(Restarted(rows[i], NoHistory))
              \/ /\ rows[i].state = "pending" /\ undoable'[i] = {}
                 /\ \E before \in undoable[i] : rows'[i] = RestoredRow(rows[i], before)
              \/ /\ rows[i].state # "absent" /\ undoable'[i] = {}
                 /\ rows'[i] = Fenced(rows[i])
  <1>0. rows[i] \in Row /\ undoable[i] \subseteq Row
    BY DEF TypeOK
  <1>1. CASE ResumeQueue(i)
    <2>1. rows'[i] = Fenced(Restarted(rows[i], NoHistory)) /\ undoable'[i] = {rows[i]}
          /\ \A j \in Item \ {i} : rows'[j] = rows[j] /\ undoable'[j] = undoable[j]
      BY <1>1 DEF ResumeQueue, TypeOK
    <2> QED
      BY <1>0, <1>1, <2>1, FencedFields DEF ResumeQueue
  <1>2. CASE RestoreQueue(i)
    <2>1. PICK before \in undoable[i] : Put(i, RestoredRow(rows[i], before))
      BY <1>2 DEF RestoreQueue
    <2>2. before \in Row
      BY <1>0
    <2> QED
      BY <1>0, <1>2, <2>1, <2>2, PutOne, RestoredFields DEF RestoreQueue
  <1>3. CASE RestoreRejected(i)
    <2>1. Fenced(rows[i]).token = rows[i].token + 1
      BY <1>0 DEF Fenced, Row
    <2> QED
      BY <1>0, <1>3, <2>1, PutOne DEF RestoreRejected
  <1> QED
    BY <1>1, <1>2, <1>3 DEF OwnerReview

\* A step that hands out no lease keeps every token or raises it.
LEMMA QuietStep ==
    ASSUME TypeOK, [Next]_vars,
           \A w \in Worker : \A kinds, freshLane : ~ClaimNext(w, kinds, freshLane)
    PROVE  leases' \subseteq leases /\ \A j \in Item : rows'[j].token >= rows[j].token
  <1> DEFINE Quiet == leases' \subseteq leases /\ \A j \in Item : rows'[j].token >= rows[j].token
  <1> SUFFICES Quiet
    OBVIOUS
  <1>0. \A j \in Item : rows[j] \in Row /\ rows[j].token \in Nat
                        /\ rows[j].token >= rows[j].token /\ rows[j].token + 1 >= rows[j].token
    BY RowFields
  <1>one. ASSUME NEW i \in Item, leases' \subseteq leases,
                 rows'[i].token \in {rows[i].token, rows[i].token + 1},
                 \A j \in Item \ {i} : rows'[j] = rows[j]
          PROVE  Quiet
    <2> SUFFICES ASSUME NEW j \in Item PROVE rows'[j].token >= rows[j].token
      BY <1>one
    <2> QED
      BY <1>one, <1>0
  <1>1. ASSUME NEW i \in Item, Enqueue(i) PROVE Quiet
    BY <1>1, <1>one, EnqueueMoves
  <1>2. ASSUME NEW i \in Item, Recovery(i) \/ OperatorGrant(i) PROVE Quiet
    BY <1>2, <1>one, GrantMoves
  <1>3. ASSUME NEW i \in Item, Withdrawal(i) PROVE Quiet
    BY <1>3, <1>one, WithdrawalMoves
  <1>4. ASSUME NEW h \in leases, NEW lag \in 0 .. MaxLag, WorkerReply(h, lag) PROVE Quiet
    <2>1. h.item \in Item
      BY LeaseType
    <2> QED
      BY <1>4, <1>one, <2>1, ReplyMoves
  <1>5. ASSUME NEW h \in leases, Abandon(h) PROVE Quiet
    BY <1>5, <1>0 DEF Abandon
  <1>6. ASSUME NEW kinds, ReleaseStale(kinds) PROVE Quiet
    BY <1>6, <1>0, ReleasedFields DEF ReleaseStale, Released
  <1>7. CASE Tick
    BY <1>7, <1>0, OlderFields DEF Tick
  <1>8. CASE UNCHANGED vars
    BY <1>8, <1>0 DEF vars
  <1>9. ASSUME NEW i \in Item, OwnerReview(i) PROVE Quiet
    BY <1>9, <1>one, ReviewMoves
  <1>10. ASSUME NEW h \in leases, NEW lag \in 0 .. MaxLag, CompleteConsolidation(h, lag)
         PROVE  Quiet
    <2>1. leases' \subseteq leases
      BY <1>10, CompletionMoves
    <2>2. ASSUME NEW j \in Item PROVE rows'[j].token = rows[j].token
      <3>1. rows'[j] \in {rows[j], Restarted(rows[j], NoHistory), Unleased(rows[j], "done", NoHistory)}
        BY <1>10, CompletionMoves
      <3> QED
        BY <1>0, <3>1, RestartedFields, UnleasedFields
    <2> QED
      BY <1>0, <2>1, <2>2
  <1> HIDE DEF Quiet
  <1> QED
    BY <1>1, <1>2, <1>3, <1>4, <1>5, <1>6, <1>7, <1>8, <1>9, <1>10 DEF Next

LEMMA NextTokens == TypeOK /\ TokensFence /\ [Next]_vars => TokensFence'
  <1> SUFFICES ASSUME TypeOK, TokensFence, [Next]_vars PROVE TokensFence'
    OBVIOUS
  <1>0. \A h \in leases : h.item \in Item /\ h.token \in Nat /\ h.token <= rows[h.item].token
                          /\ rows[h.item].token \in Nat
    BY LeaseType, RowFields DEF TokensFence
  <1>1. TypeOK'
    BY NextType
  <1>2. \A j \in Item : rows'[j].token \in Nat
    BY <1>1 DEF TypeOK, Row
  <1>3. CASE \A w \in Worker : \A kinds, freshLane : ~ClaimNext(w, kinds, freshLane)
    <2>1. leases' \subseteq leases /\ \A j \in Item : rows'[j].token >= rows[j].token
      BY <1>3, QuietStep
    <2>2. \A h \in leases' : h.token <= rows'[h.item].token
      <3> TAKE h \in leases'
      <3>1. h.item \in Item /\ h.token \in Nat /\ h.token <= rows[h.item].token
            /\ rows[h.item].token \in Nat
        BY <1>0, <2>1
      <3>2. rows'[h.item].token \in Nat /\ rows'[h.item].token >= rows[h.item].token
        BY <1>2, <2>1, <3>1
      <3> QED
        BY <3>1, <3>2
    <2> QED
      BY <2>1, <2>2 DEF TokensFence
  <1>4. ASSUME NEW w \in Worker, NEW kinds, NEW freshLane, ClaimNext(w, kinds, freshLane)
        PROVE  TokensFence'
    <2>1. PICK i \in Item :
              /\ Released[i].state = "pending"
              /\ rows'[i] = LeasedRow(Released[i], w)
              /\ \A j \in Item \ {i} : rows'[j] = ReleasedRow(rows[j])
              /\ leases' = leases \cup {[item |-> i, token |-> rows'[i].token, owner |-> w]}
      BY <1>4, ClaimMoves
    <2> DEFINE new == [item |-> i, token |-> rows'[i].token, owner |-> w]
    <2>2. rows'[i].token = rows[i].token + 1
      <3>1. rows[i] \in Row /\ Released[i] = ReleasedRow(rows[i])
        BY RowFields DEF Released
      <3> QED
        BY <2>1, <3>1, ReleasedRowType, ReleasedFields, LeasedFields
    <2>3. \A j \in Item \ {i} : rows'[j].token = rows[j].token
      BY <2>1, ReleasedFields, RowFields
    <2>4. \A h \in leases : h.item = i => h.token < rows'[i].token
      <3> TAKE h \in leases
      <3> HAVE h.item = i
      <3>1. h.token \in Nat /\ h.token <= rows[i].token /\ rows[i].token \in Nat
        BY <1>0
      <3> QED
        BY <3>1, <2>2
    <2>5. \A h \in leases' : h.token <= rows'[h.item].token
      <3> TAKE h \in leases'
      <3>1. CASE h = new
        BY <3>1, <1>2
      <3>2. CASE h \in leases
        <4>1. h.item \in Item /\ h.token \in Nat /\ h.token <= rows[h.item].token
          BY <3>2, <1>0
        <4>2. CASE h.item = i
          BY <4>1, <4>2, <3>2, <2>4, <1>2
        <4>3. CASE h.item # i
          BY <4>1, <4>3, <2>3
        <4> QED
          BY <4>2, <4>3
      <3> QED
        BY <3>1, <3>2, <2>1
    <2>6. \A h, g \in leases' : h.item = g.item /\ h.token = g.token => h = g
      <3> TAKE h, g \in leases'
      <3> HAVE h.item = g.item /\ h.token = g.token
      <3>1. \A f \in leases : ~(f.item = i /\ f.token = rows'[i].token)
        BY <2>4, <1>0, <1>2
      <3>2. CASE h \in leases /\ g \in leases
        BY <3>2 DEF TokensFence
      <3> QED
        BY <3>1, <3>2, <2>1
    <2> QED
      BY <2>5, <2>6 DEF TokensFence
  <1> QED
    BY <1>3, <1>4

(***************************************************************************)
(* _verify_lease trusts a token: no two leases of an item ever carry the   *)
(* same one, however its row was claimed, taken back, fenced and reopened. *)
(***************************************************************************)
THEOREM TokensFenceHolds == Spec => []TokensFence
  <1>1. Init => TokensFence
    BY DEF Init, TokensFence
  <1> QED
    BY <1>1, NextTokens, TypeCorrect, PTL DEF Spec

-----------------------------------------------------------------------------
(***************************************************************************)
(* A leased row was claimed, so its token is not the one it was queued     *)
(* under: what separates the withdrawal of an embedding never attempted    *)
(* from one that would end a live lease unfenced.                          *)
(***************************************************************************)
LeasedToken == \A i \in Item : rows[i].state = "leased" => rows[i].token >= 1

LEMMA NextLeasedToken == TypeOK /\ LeasedToken /\ [Next]_vars => LeasedToken'
  <1> SUFFICES ASSUME TypeOK, LeasedToken, [Next]_vars, NEW j \in Item,
                      rows'[j].state = "leased"
               PROVE  rows'[j].token >= 1
    BY DEF LeasedToken
  <1>0. rows[j] \in Row /\ rows[j].token \in Nat
    BY RowFields
  <1>kept. ASSUME rows'[j].state = rows[j].state, rows'[j].token = rows[j].token
           PROVE  rows'[j].token >= 1
    BY <1>kept DEF LeasedToken
  <1>1. ASSUME NEW i \in Item, Enqueue(i) PROVE rows'[j].token >= 1
    BY <1>1, <1>kept, EnqueueMoves
  <1>2. ASSUME NEW i \in Item, Recovery(i) \/ OperatorGrant(i) PROVE rows'[j].token >= 1
    BY <1>2, <1>kept, GrantMoves
  <1>3. ASSUME NEW i \in Item, Withdrawal(i) PROVE rows'[j].token >= 1
    BY <1>3, <1>kept, WithdrawalMoves
  <1>4. ASSUME NEW h \in leases, NEW lag \in 0 .. MaxLag, WorkerReply(h, lag)
        PROVE  rows'[j].token >= 1
    BY <1>4, <1>kept, ReplyMoves
  <1>5. ASSUME NEW h \in leases, Abandon(h) PROVE rows'[j].token >= 1
    BY <1>5, <1>kept DEF Abandon
  <1>rel. /\ ReleasedRow(rows[j]).token = rows[j].token
          /\ ReleasedRow(rows[j]).state = "leased" => rows[j].state = "leased"
    BY <1>0, ReleasedFields DEF Expired
  <1>6. ASSUME NEW kinds, ReleaseStale(kinds) PROVE rows'[j].token >= 1
    BY <1>6, <1>rel DEF ReleaseStale, Released, LeasedToken
  <1>7. ASSUME NEW w \in Worker, NEW kinds, NEW freshLane, ClaimNext(w, kinds, freshLane)
        PROVE  rows'[j].token >= 1
    <2>1. PICK i \in Item :
              /\ rows'[i] = LeasedRow(Released[i], w)
              /\ \A k \in Item \ {i} : rows'[k] = ReleasedRow(rows[k])
      BY <1>7, ClaimMoves
    <2>2. CASE i = j
      <3>1. Released[j] = ReleasedRow(rows[j]) /\ ReleasedRow(rows[j]) \in Row
        BY <1>0, ReleasedRowType DEF Released
      <3>2. rows'[j].token = rows[j].token + 1
        BY <2>1, <2>2, <3>1, <1>rel, LeasedFields
      <3> QED
        BY <3>2, <1>0
    <2>3. CASE i # j
      BY <2>1, <2>3, <1>rel DEF LeasedToken
    <2> QED
      BY <2>2, <2>3
  <1>8. CASE Tick
    BY <1>8, <1>0, <1>kept, OlderFields DEF Tick
  <1>9. CASE UNCHANGED vars
    BY <1>9, <1>kept DEF vars
  <1>10. ASSUME NEW i \in Item, OwnerReview(i) PROVE rows'[j].token >= 1
    BY <1>10, <1>0, <1>kept, ReviewMoves
  <1>11. ASSUME NEW h \in leases, NEW lag \in 0 .. MaxLag, CompleteConsolidation(h, lag)
         PROVE  rows'[j].token >= 1
    <2>1. rows'[j] \in {rows[j], Restarted(rows[j], NoHistory), Unleased(rows[j], "done", NoHistory)}
      BY <1>11, CompletionMoves
    <2> QED
      BY <1>0, <1>kept, <2>1, RestartedFields, UnleasedFields
  <1> QED
    BY <1>1, <1>2, <1>3, <1>4, <1>5, <1>6, <1>7, <1>8, <1>9, <1>10, <1>11 DEF Next

LEMMA LeasedTokenHolds == Spec => []LeasedToken
  <1>1. Init => LeasedToken
    <2> SUFFICES ASSUME Init, NEW i \in Item PROVE rows[i].state # "leased"
      BY DEF LeasedToken
    <2>1. \A r \in LegacyRow : r.state = "failed"
      <3> TAKE r \in LegacyRow
      <3>1. PICK a \in 1 .. MAX_RECOVERABLE_ATTEMPTS, k \in {"invalid", "oversized"} :
              r = LegacyFailure(a, k)
        BY DEF LegacyRow
      <3> QED
        BY <3>1 DEF LegacyFailure, AbsentRow
    <2>2. rows[i] \in LegacyRow \cup {AbsentRow}
      BY DEF Init
    <2> QED
      BY <2>1, <2>2 DEF AbsentRow
  <1> QED
    BY <1>1, NextLeasedToken, TypeCorrect, PTL DEF Spec

LEMMA StepRespectsLease ==
    ASSUME TypeOK, LeasedToken, [Next]_vars, NEW j \in Item,
           rows[j].state = "leased", Standing(rows'[j]) # Standing(rows[j])
    PROVE  \/ \E h \in leases \ leases' : h.item = j /\ HeldBy(h, rows[j])
           \/ rows[j].ttl < 0 /\ rows'[j].state \in {"pending", "failed", "leased"}
           \/ rows'[j].state = "obsolete" /\ (TypeOf[j] # "rebuild_projection"
                                               => rows'[j].token > rows[j].token)
           \/ OutdatedByUndo(j)
  <1> DEFINE Answered == \E h \in leases \ leases' : h.item = j /\ HeldBy(h, rows[j])
             RanOut == rows[j].ttl < 0 /\ rows'[j].state \in {"pending", "failed", "leased"}
             Outdated == rows'[j].state = "obsolete" /\ (TypeOf[j] # "rebuild_projection"
                                                         => rows'[j].token > rows[j].token)
  <1> SUFFICES Answered \/ RanOut \/ Outdated \/ OutdatedByUndo(j)
    OBVIOUS
  <1>0. rows[j] \in Row /\ rows[j].token \in Nat /\ rows[j].token >= 1
    BY RowFields DEF LeasedToken
  <1>1. rows'[j] # rows[j]
    OBVIOUS
  <1>2. ASSUME NEW i \in Item, Enqueue(i) \/ Recovery(i) \/ OperatorGrant(i) PROVE FALSE
    BY <1>2, <1>1, EnqueueMoves, GrantMoves
  <1>3. ASSUME NEW i \in Item, Withdrawal(i) PROVE Outdated
    <2>1. i = j
      BY <1>3, <1>1, WithdrawalMoves
    <2>2. /\ rows'[j].state = "obsolete"
          /\ \/ rows'[j].token = rows[j].token + 1
             \/ rows'[j].token = rows[j].token /\ Supersedable(j)
      BY <1>3, <2>1, <1>1, WithdrawalMoves
    <2>3. Supersedable(j) => TypeOf[j] = "rebuild_projection"
      BY <1>0, QueueAssumption DEF Supersedable, WorkType
    <2> QED
      BY <2>2, <2>3, <1>0
  <1>4. ASSUME NEW h \in leases, NEW lag \in 0 .. MaxLag, WorkerReply(h, lag) PROVE Answered
    <2>1. h.item = j /\ VerifyLease(h, lag) /\ leases' = leases \ {h}
      BY <1>4, <1>1, ReplyMoves
    <2>2. h \in leases \ leases' /\ HeldBy(h, rows[j])
      BY <2>1 DEF VerifyLease, HeldBy
    <2> QED
      BY <2>1, <2>2
  <1>5. ASSUME NEW h \in leases, Abandon(h) PROVE FALSE
    BY <1>5, <1>1 DEF Abandon
  <1>rel. /\ ReleasedRow(rows[j]) # rows[j] => rows[j].ttl < 0
          /\ ReleasedRow(rows[j]).state \in {"pending", "failed", "leased"}
    <2>1. rows[j].attempt \in Nat /\ MAX_RECOVERABLE_ATTEMPTS \in Nat
      BY RowFields, QueueAssumption
    <2> QED
      BY <1>0, <2>1, ReleasedFields DEF Expired
  <1>6. ASSUME NEW kinds, ReleaseStale(kinds) PROVE RanOut
    BY <1>6, <1>1, <1>rel DEF ReleaseStale, Released
  <1>7. ASSUME NEW w \in Worker, NEW kinds, NEW freshLane, ClaimNext(w, kinds, freshLane)
        PROVE  RanOut
    <2>1. PICK i \in Item :
              /\ Released[i].state = "pending"
              /\ rows'[i] = LeasedRow(Released[i], w)
              /\ \A k \in Item \ {i} : rows'[k] = ReleasedRow(rows[k])
      BY <1>7, ClaimMoves
    <2>2. CASE i = j
      <3>1. Released[j] = ReleasedRow(rows[j]) /\ ReleasedRow(rows[j]) \in Row
        BY <1>0, ReleasedRowType DEF Released
      <3>2. rows[j].ttl < 0
        BY <2>1, <2>2, <3>1, <1>rel
      <3>3. rows'[j].state = "leased"
        BY <2>1, <2>2, <3>1, LeasedFields
      <3> QED
        BY <3>2, <3>3
    <2>3. CASE i # j
      BY <2>1, <2>3, <1>1, <1>rel
    <2> QED
      BY <2>2, <2>3
  <1>8. CASE Tick
    BY <1>8, <1>0, OlderFields DEF Tick, Standing
  <1>9. CASE UNCHANGED vars
    BY <1>9, <1>1 DEF vars
  <1>10. ASSUME NEW i \in Item, OwnerReview(i) PROVE OutdatedByUndo(j)
    <2>1. i = j
      BY <1>10, <1>1, ReviewMoves
    <2>2. rows'[j] = Fenced(rows[j]) /\ leases' = leases /\ j \in Consolidations
      BY <1>10, <2>1, ReviewMoves
    <2> QED
      BY <2>2 DEF OutdatedByUndo, Consolidations
  <1>11. ASSUME NEW h \in leases, NEW lag \in 0 .. MaxLag, CompleteConsolidation(h, lag)
         PROVE  Answered
    <2>1. h.item = j /\ VerifyLease(h, lag) /\ leases' = leases \ {h}
      BY <1>11, <1>1, CompletionMoves
    <2>2. h \in leases \ leases' /\ HeldBy(h, rows[j])
      BY <2>1 DEF VerifyLease, HeldBy
    <2> QED
      BY <2>1, <2>2
  <1> HIDE DEF Answered, RanOut, Outdated
  <1> QED
    BY <1>2, <1>3, <1>4, <1>5, <1>6, <1>7, <1>8, <1>9, <1>10, <1>11 DEF Next

(***************************************************************************)
(* A lease that has not run out ends only by its holder's answer, by a     *)
(* withdrawal that outdates its token, or, for a consolidation, by the     *)
(* undo of a rejection, which outdates it too and gives it to nobody: a    *)
(* sibling's answer and an approval never take a row from its worker.      *)
(***************************************************************************)
THEOREM LeaseRespectedHolds == Spec => LeaseRespected
  <1> DEFINE Respects ==
         \A i \in Item :
             rows[i].state = "leased" /\ Standing(rows'[i]) # Standing(rows[i]) =>
                \/ \E h \in leases \ leases' : h.item = i /\ HeldBy(h, rows[i])
                \/ rows[i].ttl < 0 /\ rows'[i].state \in {"pending", "failed", "leased"}
                \/ rows'[i].state = "obsolete" /\ (TypeOf[i] # "rebuild_projection"
                                                    => rows'[i].token > rows[i].token)
                \/ OutdatedByUndo(i)
  <1>1. TypeOK /\ LeasedToken /\ [Next]_vars => [Respects]_vars
    BY StepRespectsLease
  <1>2. LeaseRespected <=> [][Respects]_vars
    BY PTL DEF LeaseRespected
  <1> QED
    BY <1>1, <1>2, TypeCorrect, LeasedTokenHolds, PTL DEF Spec

-----------------------------------------------------------------------------
(***************************************************************************)
(* Budgets.  No writer of a history forgets what was granted.              *)
(***************************************************************************)
Keeps(h, later) == h.marks \ Release \subseteq later.marks /\ h.autos <= later.autos

LEMMA HistoryKept ==
    \A h \in History :
        /\ Keeps(h, h)
        /\ \A kind \in Kind : Keeps(h, Recorded(h, kind))
        /\ Keeps(h, CapacityRefusal(h))
        /\ Keeps(h, AutoRetryStamp(h))
        /\ \A mark \in Mark : Keeps(h, WithMark(h, mark))
        /\ \A release \in Release : Keeps(h, Marked(h, release))
  <1> TAKE h \in History
  <1>0. h.autos \in Nat /\ h.autos <= h.autos /\ h.autos <= h.autos + 1
    BY DEF History
  <1>1. \A kind \in Kind : Keeps(h, Recorded(h, kind))
    <2> TAKE kind \in Kind
    <2>1. CASE PreserveRetryHistory(h)
      BY <1>0, <2>1 DEF Recorded, Keeps, History
    <2>2. CASE ~PreserveRetryHistory(h)
      <3>1. h.marks = {} /\ h.autos = 0
        BY <1>0, <2>2 DEF PreserveRetryHistory
      <3> QED
        BY <3>1, <2>2 DEF Recorded, Bare, Keeps
    <2> QED
      BY <2>1, <2>2
  <1>2. Keeps(h, CapacityRefusal(h)) /\ Keeps(h, AutoRetryStamp(h))
    BY <1>0 DEF CapacityRefusal, AutoRetryStamp, Keeps, History
  <1>3. \A mark \in Mark : Keeps(h, WithMark(h, mark))
    BY <1>0 DEF WithMark, Keeps, History
  <1>4. \A release \in Release : Keeps(h, Marked(h, release))
    BY <1>0 DEF Marked, Keeps, History
  <1> QED
    BY <1>0, <1>1, <1>2, <1>3, <1>4 DEF Keeps

LEMMA StepKeepsBudget ==
    ASSUME TypeOK, [Next]_vars, NEW j \in Item,
           rows[j].state \in Unfinished, rows'[j].state \in Unfinished
    PROVE  \/ Keeps(rows[j].history, rows'[j].history)
           \/ ReviewedByOwner(j) \/ QueuedForAdoption(j)
  <1> DEFINE Kept == \/ Keeps(rows[j].history, rows'[j].history)
                     \/ ReviewedByOwner(j) \/ QueuedForAdoption(j)
  <1> SUFFICES Kept
    OBVIOUS
  <1>0. rows[j] \in Row /\ rows[j].history \in History
    BY RowFields
  <1>same. rows'[j].history = rows[j].history => Kept
    BY <1>0, HistoryKept
  <1>put. ASSUME NEW i \in Item, NEW q, Put(i, q),
                 i = j /\ q.state \in Unfinished => Keeps(rows[j].history, q.history)
          PROVE  Kept
    BY <1>put, <1>same, PutOne
  <1>old. /\ rows[j].state \in {"pending", "leased", "failed"}
          /\ rows'[j].state \in {"pending", "leased", "failed"}
    BY DEF Unfinished
  <1>mark. \A mark \in {"derivation_retry", "chunk_upgrade", "interrupted_retry"} :
              Keeps(rows[j].history, WithMark(rows[j].history, mark))
    BY <1>0, HistoryKept DEF Mark
  <1>bare. \A kind \in {"oversized", "refused"} : \A h :
              rows[j].history = Bare(kind) => Keeps(rows[j].history, Bare(h))
    BY DEF Bare, Keeps
  <1> HIDE DEF Kept
  <1>1. ASSUME NEW i \in Item, Enqueue(i) PROVE Kept
    BY <1>1, <1>old, <1>same, EnqueueMoves
  <1>2. ASSUME NEW i \in Item, Recovery(i) PROVE Kept
    <2>1. CASE i # j
      BY <1>2, <2>1, <1>same, GrantMoves
    <2>2. CASE i = j
      <3> DEFINE r == rows[j]
      <3>1. CASE RecoverTransientFailures(i)
        <4>1. Put(j, IF j \in live THEN Pending(r, 0, AutoRetryStamp(r.history))
                     ELSE Obsolete(Noted(r, Bare("revoked"))))
          BY <2>2, <3>1 DEF RecoverTransientFailures
        <4>2. CASE j \in live
          BY <4>1, <4>2, <1>0, <1>put, PendingFields, HistoryKept
        <4>3. CASE j \notin live
          <5>1. Obsolete(Noted(r, Bare("revoked"))).state = "obsolete"
            BY <1>0, NotedFields
          <5> QED
            BY <4>1, <4>3, <5>1, <1>put DEF Unfinished
        <4> QED
          BY <4>2, <4>3
      <3>2. CASE RecoverInvalidDerivations(i)
        BY <2>2, <3>2, <1>0, <1>put, <1>mark, PendingFields DEF RecoverInvalidDerivations
      <3>3. CASE RecoverOversizedConsolidations(i)
        BY <2>2, <3>3, <1>0, <1>put, <1>mark, <1>bare, PendingFields, NotedFields
        DEF RecoverOversizedConsolidations
      <3>4. CASE RecoverOversizedEvaluation(i)
        BY <2>2, <3>4, <1>0, <1>put, <1>bare, PendingFields, NotedFields
        DEF RecoverOversizedEvaluation
      <3>5. CASE RetireRebounded(i)
        <4>1. Obsolete(r).state = "obsolete"
          BY <1>0, NotedFields
        <4> QED
          BY <2>2, <3>5, <4>1, <1>put DEF RetireRebounded, Unfinished
      <3>6. CASE RecoverInterruptedAttempts(i)
        BY <2>2, <3>6, <1>0, <1>put, <1>mark, PendingFields DEF RecoverInterruptedAttempts
      <3>7. CASE RequeueUnfinishedPurge(i)
        BY <2>2, <3>7, <1>old DEF RequeueUnfinishedPurge
      <3> QED
        BY <1>2, <3>1, <3>2, <3>3, <3>4, <3>5, <3>6, <3>7 DEF Recovery
    <2> QED
      BY <2>1, <2>2
  <1>3. ASSUME NEW i \in Item, OperatorGrant(i) PROVE Kept
    <2>1. CASE i # j
      BY <1>3, <2>1, <1>same, GrantMoves
    <2>2. CASE i = j
      <3>1. ASSUME NEW release \in Release, RetryFailed(i, release) PROVE Kept
        BY <2>2, <3>1, <1>0, <1>put, RestartedFields, HistoryKept DEF RetryFailed
      <3>2. ASSUME NEW operation \in Operation, OperatorRetryFailed(i, operation) PROVE Kept
        <4>1. Put(j, Pending(rows[j], 0, WithMark(rows[j].history, operation)))
          BY <2>2, <3>2 DEF OperatorRetryFailed
        <4>2. Keeps(rows[j].history, WithMark(rows[j].history, operation))
          BY <1>0, HistoryKept DEF Mark
        <4> QED
          BY <1>0, <1>put, <4>1, <4>2, PendingFields
      <3>3. ASSUME NEW release \in Release, ReopenUnvectored(i, release) PROVE FALSE
        BY <2>2, <3>3, <1>old DEF ReopenUnvectored
      <3>4. ~RespacePage(i) /\ ~ReopenProjection(i) /\ ~RequeueSuppressed(i)
        BY <2>2, <1>old DEF RespacePage, ReopenProjection, RequeueSuppressed
      <3> QED
        BY <1>3, <3>1, <3>2, <3>3, <3>4 DEF OperatorGrant
    <2> QED
      BY <2>1, <2>2
  <1>4. ASSUME NEW i \in Item, Withdrawal(i) PROVE Kept
    <2>1. rows'[j] = rows[j] \/ rows'[j].state = "obsolete"
      BY <1>4, WithdrawalMoves
    <2> QED
      BY <2>1, <1>same, <1>old
  <1>5. ASSUME NEW h \in leases, NEW lag \in 0 .. MaxLag, WorkerReply(h, lag) PROVE Kept
    <2>1. CASE h.item # j
      BY <1>5, <2>1, <1>same, ReplyMoves
    <2>2. CASE h.item = j
      <3> DEFINE r == rows[j]
      <3>put. ASSUME NEW q, Reply(h, lag, q),
                     q.state \in Unfinished => Keeps(r.history, q.history)
              PROVE  Kept
        BY <2>2, <3>put, <1>put DEF Reply
      <3>1. CASE Complete(h, lag)
        <4>1. Unleased(r, "done", NoHistory).state = "done"
          BY <1>0, UnleasedFields
        <4> QED
          BY <2>2, <3>1, <3>put, <4>1 DEF Complete, Unfinished
      <3>2. CASE MarkObsolete(h, lag)
        <4>1. Unleased(r, "obsolete", Bare("revoked")).state = "obsolete"
          BY <1>0, UnleasedFields
        <4> QED
          BY <2>2, <3>2, <3>put, <4>1 DEF MarkObsolete, Unfinished
      <3>rec. \A kind \in Kind : Keeps(r.history, Recorded(r.history, kind))
        BY <1>0, HistoryKept
      <3>3. ASSUME NEW seconds \in HoldSeconds, DeferWithoutAttempt(h, lag, seconds) PROVE Kept
        BY <2>2, <3>3, <1>0, <3>put, <3>rec, RefundedFields DEF DeferWithoutAttempt, Kind
      <3>4. CASE FailForCapacity(h, lag)
        BY <2>2, <3>4, <1>0, <3>put, RefundedFields, HistoryKept DEF FailForCapacity
      <3>5. CASE FailForInvalid(h, lag)
        <4> DEFINE repaired == WithMark(r.history, "derivation_retry")
        <4>1. repaired \in History /\ Keeps(r.history, repaired)
          BY <1>0, <1>mark, WithMarkType DEF Mark
        <4>2. Keeps(r.history, Recorded(repaired, "invalid"))
          BY WithMarkType, <1>0 DEF Recorded, PreserveRetryHistory, WithMark, Keeps, History
        <4> QED
          BY <2>2, <3>5, <1>0, <3>put, <4>2, PendingFields DEF FailForInvalid
      <3>6. ASSUME NEW kind \in Kind, FailForRetry(h, lag, kind) PROVE Kept
        BY <2>2, <3>6, <1>0, <3>put, <3>rec, PendingFields DEF FailForRetry
      <3>7. ASSUME NEW kind \in Kind, FailForGood(h, lag, kind) PROVE Kept
        BY <2>2, <3>7, <1>0, <3>put, <3>rec, FailedFields DEF FailForGood
      <3> QED
        BY <1>5, <3>1, <3>2, <3>3, <3>4, <3>5, <3>6, <3>7 DEF WorkerReply
    <2> QED
      BY <2>1, <2>2
  <1>6. ASSUME NEW h \in leases, Abandon(h) PROVE Kept
    BY <1>6, <1>same DEF Abandon
  <1>rel. Keeps(rows[j].history, ReleasedRow(rows[j]).history) /\ ReleasedRow(rows[j]) \in Row
    <2>1. rows[j].attempt \in Nat /\ MAX_RECOVERABLE_ATTEMPTS \in Nat
      BY RowFields, QueueAssumption
    <2> QED
      BY <1>0, <2>1, ReleasedRowType, ReleasedFields, HistoryKept DEF Kind
  <1>7. ASSUME NEW kinds, ReleaseStale(kinds) PROVE Kept
    BY <1>7, <1>rel DEF ReleaseStale, Released, Kept
  <1>8. ASSUME NEW w \in Worker, NEW kinds, NEW freshLane, ClaimNext(w, kinds, freshLane)
        PROVE  Kept
    <2>1. PICK i \in Item :
              /\ rows'[i] = LeasedRow(Released[i], w)
              /\ \A k \in Item \ {i} : rows'[k] = ReleasedRow(rows[k])
      BY <1>8, ClaimMoves
    <2>2. CASE i = j
      BY <2>1, <2>2, <1>rel, LeasedFields DEF Released, Kept
    <2>3. CASE i # j
      BY <2>1, <2>3, <1>rel DEF Kept
    <2> QED
      BY <2>2, <2>3
  <1>9. CASE Tick
    BY <1>9, <1>0, <1>same, OlderFields DEF Tick
  <1>10. CASE UNCHANGED vars
    BY <1>10, <1>same DEF vars
  <1>11. ASSUME NEW i \in Item, OwnerReview(i) PROVE Kept
    <2>1. CASE i # j
      BY <1>11, <2>1, <1>same, ReviewMoves
    <2>2. CASE i = j
      BY <1>11, <2>2, ReviewMoves DEF Kept, ReviewedByOwner, Consolidations
    <2> QED
      BY <2>1, <2>2
  <1>12. ASSUME NEW h \in leases, NEW lag \in 0 .. MaxLag, CompleteConsolidation(h, lag)
         PROVE  Kept
    <2>1. \/ rows'[j] = rows[j]
          \/ /\ j \in Consolidations
             /\ rows'[j] \in {Restarted(rows[j], NoHistory), Unleased(rows[j], "done", NoHistory)}
      BY <1>12, CompletionMoves
    <2>2. Unleased(rows[j], "done", NoHistory).state = "done"
      BY <1>0, UnleasedFields
    <2>3. CASE rows'[j] = rows[j]
      BY <2>3, <1>same
    <2>4. CASE j \in Consolidations /\ rows'[j] = Restarted(rows[j], NoHistory)
      <3>1. h \in leases \ leases' /\ h.item \in Consolidations
        BY <1>12, CompletionMoves
      <3> QED
        BY <2>4, <3>1 DEF Kept, QueuedForAdoption, Consolidations
    <2> QED
      BY <2>1, <2>2, <2>3, <2>4, <1>old
  <1> QED
    BY <1>1, <1>2, <1>3, <1>4, <1>5, <1>6, <1>7, <1>8, <1>9, <1>10, <1>11, <1>12 DEF Next

(***************************************************************************)
(* While an item is worked on, a mark or count that bounds its retries is  *)
(* never lost from last_error_code, whichever failure is written over it:  *)
(* only an owner's review and the adoption an accepted answer queues start *)
(* a consolidation with a clean one.                                       *)
(***************************************************************************)
THEOREM BudgetMarksKeptHolds == Spec => BudgetMarksKept
  <1> DEFINE Kept ==
         \A i \in Item :
             rows[i].state \in Unfinished /\ rows'[i].state \in Unfinished =>
                NothingForgotten(i) \/ ReviewedByOwner(i) \/ QueuedForAdoption(i)
  <1>1. TypeOK /\ [Next]_vars => [Kept]_vars
    BY StepKeepsBudget DEF Keeps, NothingForgotten
  <1>2. BudgetMarksKept <=> [][Kept]_vars
    BY PTL DEF BudgetMarksKept
  <1> QED
    BY <1>1, <1>2, TypeCorrect, PTL DEF Spec

-----------------------------------------------------------------------------
(***************************************************************************)
(* The attempts an item may be given are bounded, for every value of the   *)
(* constants of WorkQueue.  AttemptBudget is not inductive by itself: the  *)
(* marks must be finitely many to be counted, a row not yet queued must    *)
(* have no attempts, and the one requeue that leaves no mark (an           *)
(* evaluation found too large) must only ever meet a row an earlier        *)
(* release left.  Spending adds these, and Remembered the same of the rows *)
(* that the undo of a review may bring back.                               *)
(***************************************************************************)

Finite(h) == IsFiniteSet(h.marks)

Spending(i, r) ==
    /\ WithinBudget(i, r)
    /\ Finite(r.history)
    /\ r.state = "absent" => r.attempt = 0
    /\ r.state = "failed" /\ TypeOf[i] = "evaluate_candidate" /\ r.history.kind = "oversized"
          => i \in Legacy /\ r.attempt <= MAX_RECOVERABLE_ATTEMPTS

Sound == \A i \in Item : Spending(i, rows[i])

\* A row an undo may bring back is as sound, and only a pending row has one.
Remembered ==
    \A i \in Item : \A before \in undoable[i] :
        rows[i].state = "pending" /\ Spending(i, before)

-----------------------------------------------------------------------------
(* What each writer of a history adds to what was granted.                 *)

LEMMA GrantedType == \A h \in History : Finite(h) => Granted(h) \in Nat
  <1> SUFFICES ASSUME NEW h \in History, Finite(h) PROVE Granted(h) \in Nat
    OBVIOUS
  <1>1. IsFiniteSet(h.marks \cap BudgetMark)
    BY FS_Intersection DEF Finite
  <1>2. Cardinality(h.marks \cap BudgetMark) \in Nat /\ h.autos \in Nat
    BY <1>1, FS_CardinalityType DEF History
  <1> QED
    BY <1>2 DEF Granted

LEMMA BareGranted == \A kind : Finite(Bare(kind)) /\ Granted(Bare(kind)) = 0
  <1> TAKE kind
  <1>1. Bare(kind).marks = {} /\ Bare(kind).autos = 0
    BY DEF Bare
  <1>2. IsFiniteSet({}) /\ Cardinality({}) = 0
    BY FS_EmptySet
  <1>3. {} \cap BudgetMark = {}
    OBVIOUS
  <1> QED
    BY <1>1, <1>2, <1>3 DEF Finite, Granted

LEMMA SameGranted ==
    \A h \in History : Finite(h) =>
        /\ \A kind : Finite(Recorded(h, kind)) /\ Granted(Recorded(h, kind)) = Granted(h)
        /\ Finite(CapacityRefusal(h)) /\ Granted(CapacityRefusal(h)) = Granted(h)
  <1> SUFFICES ASSUME NEW h \in History, Finite(h)
               PROVE  /\ \A kind : Finite(Recorded(h, kind)) /\ Granted(Recorded(h, kind)) = Granted(h)
                      /\ Finite(CapacityRefusal(h)) /\ Granted(CapacityRefusal(h)) = Granted(h)
    OBVIOUS
  <1>1. ASSUME NEW kind PROVE Finite(Recorded(h, kind)) /\ Granted(Recorded(h, kind)) = Granted(h)
    <2>1. CASE PreserveRetryHistory(h)
      <3>1. Recorded(h, kind).marks = h.marks /\ Recorded(h, kind).autos = h.autos
        BY <2>1 DEF Recorded, History
      <3> QED
        BY <3>1 DEF Finite, Granted
    <2>2. CASE ~PreserveRetryHistory(h)
      <3>1. h.marks = {} /\ h.autos = 0
        BY <2>2 DEF PreserveRetryHistory, History
      <3>2. Recorded(h, kind) = Bare(kind)
        BY <2>2 DEF Recorded
      <3>3. Bare(kind).marks = h.marks /\ Bare(kind).autos = h.autos
        BY <3>1 DEF Bare
      <3> QED
        BY <3>2, <3>3 DEF Finite, Granted
    <2> QED
      BY <2>1, <2>2
  <1>2. CapacityRefusal(h).marks = h.marks /\ CapacityRefusal(h).autos = h.autos
    BY DEF CapacityRefusal, History
  <1> QED
    BY <1>1, <1>2 DEF Finite, Granted

LEMMA MoreGranted ==
    \A h \in History : Finite(h) =>
        /\ Finite(AutoRetryStamp(h)) /\ Granted(AutoRetryStamp(h)) = Granted(h) + 1
        /\ \A mark : Finite(WithMark(h, mark))
        /\ \A mark \in BudgetMark \ h.marks : Granted(WithMark(h, mark)) = Granted(h) + 1
        /\ \A release : Finite(Marked(h, release))
  <1> SUFFICES ASSUME NEW h \in History, Finite(h)
               PROVE  /\ Finite(AutoRetryStamp(h)) /\ Granted(AutoRetryStamp(h)) = Granted(h) + 1
                      /\ \A mark : Finite(WithMark(h, mark))
                      /\ \A mark \in BudgetMark \ h.marks :
                            Granted(WithMark(h, mark)) = Granted(h) + 1
                      /\ \A release : Finite(Marked(h, release))
    OBVIOUS
  <1> DEFINE counted == h.marks \cap BudgetMark
  <1>0. IsFiniteSet(counted) /\ Cardinality(counted) \in Nat /\ h.autos \in Nat
    BY FS_Intersection, FS_CardinalityType DEF Finite, History
  <1>1. Finite(AutoRetryStamp(h)) /\ Granted(AutoRetryStamp(h)) = Granted(h) + 1
    <2>1. AutoRetryStamp(h).marks = h.marks /\ AutoRetryStamp(h).autos = h.autos + 1
      BY DEF AutoRetryStamp, History
    <2> QED
      BY <1>0, <2>1 DEF Finite, Granted
  <1>2. ASSUME NEW mark
        PROVE  /\ Finite(WithMark(h, mark))
               /\ mark \in BudgetMark \ h.marks => Granted(WithMark(h, mark)) = Granted(h) + 1
    <2>1. WithMark(h, mark).marks = h.marks \cup {mark} /\ WithMark(h, mark).autos = h.autos
      BY DEF WithMark, History
    <2>2. IsFiniteSet(h.marks \cup {mark})
      BY FS_AddElement DEF Finite
    <2>3. ASSUME mark \in BudgetMark \ h.marks
          PROVE  Granted(WithMark(h, mark)) = Granted(h) + 1
      <3>1. (h.marks \cup {mark}) \cap BudgetMark = counted \cup {mark} /\ mark \notin counted
        BY <2>3
      <3>2. Cardinality(counted \cup {mark}) = Cardinality(counted) + 1
        BY <1>0, <3>1, FS_AddElement
      <3>3. Granted(WithMark(h, mark)) = h.autos + Cardinality(counted \cup {mark})
        BY <2>1, <3>1 DEF Granted
      <3>4. Granted(h) = h.autos + Cardinality(counted)
        BY DEF Granted
      <3> QED
        BY <1>0, <3>2, <3>3, <3>4
    <2> QED
      BY <2>1, <2>2, <2>3 DEF Finite
  <1>3. ASSUME NEW release PROVE Finite(Marked(h, release))
    <2>1. Marked(h, release).marks = (h.marks \ Release) \cup {release}
      BY DEF Marked, History
    <2>2. IsFiniteSet(h.marks \ Release)
      BY FS_Difference DEF Finite
    <2> QED
      BY <2>1, <2>2, FS_AddElement DEF Finite
  <1> QED
    BY <1>1, <1>2, <1>3

LEMMA BudgetFacts ==
    \A i \in Item, h \in History : Finite(h) =>
        /\ Repairs(i) \in {0, 1} /\ Granted(h) \in Nat
        /\ MAX_RECOVERABLE_ATTEMPTS \in Nat /\ MAX_RECOVERABLE_ATTEMPTS >= 1
        /\ Budget(i, h) = MAX_RECOVERABLE_ATTEMPTS + Granted(h) + Repairs(i)
        /\ Budget(i, h) \in Nat /\ Budget(i, h) >= MAX_RECOVERABLE_ATTEMPTS + Repairs(i)
  BY GrantedType, QueueAssumption DEF Budget, Repairs

-----------------------------------------------------------------------------
(* The four ways a row may be rewritten and stay within its budget.        *)

\* With fewer attempts than any item is given.
LEMMA Requeued ==
    ASSUME NEW i \in Item, NEW q, q.state = "pending", q.history \in History,
           Finite(q.history), q.attempt \in Nat, q.attempt < MAX_RECOVERABLE_ATTEMPTS + Repairs(i)
    PROVE  Spending(i, q)
  BY BudgetFacts DEF Spending, WithinBudget

\* Against one more grant.
LEMMA RequeuedAgainst ==
    ASSUME NEW i \in Item, NEW r \in Row, NEW q, Spending(i, r), r.state \in {"leased", "failed"},
           q.state = "pending", q.history \in History, Finite(q.history),
           q.attempt = r.attempt, Granted(q.history) = Granted(r.history) + 1
    PROVE  Spending(i, q)
  <1>1. r.history \in History /\ Finite(r.history) /\ r.attempt \in Nat
        /\ r.attempt <= Budget(i, r.history)
    BY DEF Spending, WithinBudget, Row
  <1>2. q.attempt < Budget(i, q.history)
    BY <1>1, BudgetFacts
  <1> QED
    BY <1>2 DEF Spending, WithinBudget

\* As a failure, over a history that grants as much.
LEMMA FailedWithin ==
    ASSUME NEW i \in Item, NEW r \in Row, NEW q, Spending(i, r), r.state \in {"leased", "failed"},
           q.state = "failed", q.history \in History, Finite(q.history),
           q.attempt = r.attempt, Granted(q.history) = Granted(r.history),
           TypeOf[i] = "evaluate_candidate" => q.history.kind # "oversized"
    PROVE  Spending(i, q)
  <1>1. r.history \in History /\ Finite(r.history) /\ r.attempt \in Nat
        /\ r.attempt <= Budget(i, r.history)
    BY DEF Spending, WithinBudget, Row
  <1>2. q.attempt <= Budget(i, q.history)
    BY <1>1, BudgetFacts
  <1> QED
    BY <1>2 DEF Spending, WithinBudget

\* As a row that is no longer worked on.
LEMMA ClosedWithin ==
    ASSUME NEW i \in Item, NEW q, q.state \in {"done", "obsolete"}, Finite(q.history)
    PROVE  Spending(i, q)
  BY DEF Spending, WithinBudget

\* With an attempt given back.
LEMMA RequeuedRefunded ==
    ASSUME NEW i \in Item, NEW r \in Row, NEW wait, NEW h \in History,
           Spending(i, r), r.state = "leased", Finite(h), Granted(h) = Granted(r.history)
    PROVE  Spending(i, Refunded(Pending(r, wait, h)))
  <1> DEFINE q == Refunded(Pending(r, wait, h))
  <1>1. r.history \in History /\ Finite(r.history) /\ r.attempt \in Nat
        /\ r.attempt <= Budget(i, r.history) /\ r.attempt >= 1
    BY DEF Spending, WithinBudget, Row
  <1>2. q.state = "pending" /\ q.history = h /\ q.attempt = r.attempt - 1
    BY <1>1, RefundedFields
  <1> HIDE DEF q
  <1>3. Budget(i, q.history) = Budget(i, r.history) /\ Budget(i, r.history) \in Nat
    BY <1>1, <1>2, BudgetFacts
  <1>4. q.attempt < Budget(i, q.history)
    BY <1>1, <1>2, <1>3
  <1> QED
    BY <1>2, <1>4 DEF Spending, WithinBudget, q

-----------------------------------------------------------------------------
(* One lemma for each group of actions.                                    *)

LEMMA SoundPut ==
    ASSUME TypeOK, Sound, NEW i \in Item, NEW q, Put(i, q), Spending(i, q)
    PROVE  Sound'
  <1> SUFFICES ASSUME NEW j \in Item PROVE Spending(j, rows'[j])
    BY DEF Sound, Spending, WithinBudget, Finite, Budget, Repairs, Granted
  <1> QED
    BY PutOne DEF Sound

LEMMA SoundReply ==
    ASSUME TypeOK, Sound, NEW h \in leases, NEW lag \in 0 .. MaxLag, WorkerReply(h, lag)
    PROVE  Sound'
  <1> DEFINE i == h.item
             r == rows[i]
  <1>0. /\ i \in Item /\ r \in Row /\ r.history \in History /\ r.attempt \in Nat
        /\ Spending(i, r) /\ Finite(r.history)
    BY LeaseType, RowFields DEF Sound, Spending
  <1>1. r.state = "leased"
    BY ReplyMoves DEF VerifyLease
  <1>2. ASSUME NEW q, Reply(h, lag, q), Spending(i, q) PROVE Sound'
    BY <1>0, <1>2, SoundPut DEF Reply
  <1>rec. \A kind \in Kind :
             /\ Recorded(r.history, kind) \in History /\ Finite(Recorded(r.history, kind))
             /\ Granted(Recorded(r.history, kind)) = Granted(r.history)
             /\ Recorded(r.history, kind).kind = kind
    BY <1>0, RecordedType, SameGranted DEF Recorded, Bare, History
  <1>max. Repairs(i) \in Nat /\ MAX_RECOVERABLE_ATTEMPTS \in Nat
    BY <1>0, QueueAssumption DEF Repairs
  <1>3. CASE Complete(h, lag)
    <2>1. Spending(i, Unleased(r, "done", NoHistory))
      BY <1>0, UnleasedFields, BareGranted, ClosedWithin DEF NoHistory
    <2> QED
      BY <1>2, <1>3, <2>1 DEF Complete
  <1>4. CASE MarkObsolete(h, lag)
    <2>1. Spending(i, Unleased(r, "obsolete", Bare("revoked")))
      BY <1>0, UnleasedFields, BareGranted, ClosedWithin
    <2> QED
      BY <1>2, <1>4, <2>1 DEF MarkObsolete
  <1>5. ASSUME NEW seconds \in HoldSeconds, DeferWithoutAttempt(h, lag, seconds) PROVE Sound'
    <2>1. Spending(i, Refunded(Pending(r, seconds - lag, Recorded(r.history, "held"))))
      BY <1>0, <1>1, <1>rec, RequeuedRefunded DEF Kind
    <2> QED
      BY <1>2, <1>5, <2>1 DEF DeferWithoutAttempt
  <1>6. CASE FailForCapacity(h, lag)
    <2> DEFINE refused == CapacityRefusal(r.history)
    <2>1. refused \in History /\ Finite(refused) /\ Granted(refused) = Granted(r.history)
      BY <1>0, CapacityRefusalType, SameGranted
    <2>2. \A wait : Spending(i, Refunded(Pending(r, wait, refused)))
      BY <1>0, <1>1, <2>1, RequeuedRefunded
    <2> QED
      BY <1>2, <1>6, <2>2 DEF FailForCapacity
  <1>7. CASE FailForInvalid(h, lag)
    <2> DEFINE repaired == WithMark(r.history, "derivation_retry")
               recorded == Recorded(repaired, "invalid")
               q == Pending(r, RetryWait(r, lag), recorded)
    <2>1. "derivation_retry" \in BudgetMark \ r.history.marks
      BY <1>7 DEF FailForInvalid, BudgetMark
    <2>2. repaired \in History /\ Finite(repaired) /\ Granted(repaired) = Granted(r.history) + 1
      BY <1>0, <2>1, WithMarkType, MoreGranted DEF Mark
    <2>3. recorded \in History /\ Finite(recorded) /\ Granted(recorded) = Granted(r.history) + 1
      BY <2>2, RecordedType, SameGranted DEF Kind
    <2> HIDE DEF recorded
    <2>4. q.state = "pending" /\ q.history = recorded /\ q.attempt = r.attempt
      BY <1>0, PendingFields
    <2> HIDE DEF q
    <2>5. Spending(i, q)
      BY <1>0, <1>1, <2>3, <2>4, RequeuedAgainst
    <2> QED
      BY <1>2, <1>7, <2>5 DEF FailForInvalid, q, recorded
  <1>8. ASSUME NEW kind \in Kind, FailForRetry(h, lag, kind) PROVE Sound'
    <2> DEFINE q == Pending(r, RetryWait(r, lag), Recorded(r.history, kind))
    <2>1. q.state = "pending" /\ q.history = Recorded(r.history, kind) /\ q.attempt = r.attempt
      BY <1>0, PendingFields
    <2>2. r.attempt < MAX_RECOVERABLE_ATTEMPTS + Repairs(i)
      BY <1>8, <1>0, <1>max DEF FailForRetry
    <2> HIDE DEF q
    <2>3. Spending(i, q)
      BY <1>0, <1>rec, <2>1, <2>2, Requeued
    <2> QED
      BY <1>2, <1>8, <2>3 DEF FailForRetry, q
  <1>9. ASSUME NEW kind \in Kind, FailForGood(h, lag, kind) PROVE Sound'
    <2> DEFINE q == Failed(r, -lag, Recorded(r.history, kind))
    <2>1. q.state = "failed" /\ q.history = Recorded(r.history, kind) /\ q.attempt = r.attempt
      BY <1>0, FailedFields
    <2>2. TypeOf[i] = "evaluate_candidate" => kind # "oversized"
      BY <1>9 DEF FailForGood, FinalKinds, RecoverableKinds
    <2> HIDE DEF q
    <2>3. Spending(i, q)
      BY <1>0, <1>1, <1>rec, <2>1, <2>2, FailedWithin
    <2> QED
      BY <1>2, <1>9, <2>3 DEF FailForGood, q
  <1> QED
    BY <1>3, <1>4, <1>5, <1>6, <1>7, <1>8, <1>9 DEF WorkerReply

LEMMA SoundRecovery ==
    ASSUME TypeOK, Sound, NEW i \in Item, Recovery(i)
    PROVE  Sound'
  <1> DEFINE r == rows[i]
  <1>0. /\ r \in Row /\ r.history \in History /\ r.attempt \in Nat
        /\ Spending(i, r) /\ Finite(r.history)
    BY RowFields DEF Sound, Spending
  <1>1. ASSUME NEW q, Put(i, q), Spending(i, q) PROVE Sound'
    BY <1>1, SoundPut
  <1>max. /\ MAX_RECOVERABLE_ATTEMPTS \in Nat /\ Repairs(i) \in Nat
          /\ TypeOf[i] = "purge" => Repairs(i) = 1
          /\ TypeOf[i] = "evaluate_candidate" /\ i \in Legacy => Repairs(i) = 1
    BY QueueAssumption DEF Repairs
  <1>gone. \A h \in History : Finite(h) => Spending(i, Obsolete(Noted(r, h)))
    BY <1>0, NotedFields, ClosedWithin
  <1>mark. ASSUME NEW mark \in {"derivation_retry", "chunk_upgrade"}, r.state = "failed",
                  mark \notin r.history.marks
           PROVE  Spending(i, Pending(r, 0, WithMark(r.history, mark)))
    <2> DEFINE q == Pending(r, 0, WithMark(r.history, mark))
    <2>1. mark \in BudgetMark \ r.history.marks /\ mark \in Mark
      BY <1>mark DEF BudgetMark, Mark
    <2>2. /\ q.history \in History /\ Finite(q.history) /\ q.state = "pending"
          /\ Granted(q.history) = Granted(r.history) + 1 /\ q.attempt = r.attempt
      BY <1>0, <2>1, WithMarkType, MoreGranted, PendingFields
    <2> HIDE DEF q
    <2>3. Spending(i, q)
      BY <1>0, <1>mark, <2>2, RequeuedAgainst
    <2> QED
      BY <2>3 DEF q
  <1>refused. r.state = "failed" => Spending(i, Noted(r, Bare("refused")))
                 \/ ~(r.history = Bare("oversized"))
    <2> SUFFICES ASSUME r.state = "failed", r.history = Bare("oversized")
                 PROVE  Spending(i, Noted(r, Bare("refused")))
      OBVIOUS
    <2> DEFINE q == Noted(r, Bare("refused"))
    <2>1. /\ q.state = "failed" /\ q.history = Bare("refused") /\ q.attempt = r.attempt
          /\ q.history \in History /\ q.history.kind # "oversized"
      BY <1>0, NotedFields, BareType DEF Kind, Bare
    <2>2. Finite(q.history) /\ Granted(q.history) = Granted(r.history)
      BY <2>1, BareGranted
    <2> HIDE DEF q
    <2>3. Spending(i, q)
      BY <1>0, <2>1, <2>2, FailedWithin
    <2> QED
      BY <2>3 DEF q
  <1>2. CASE RecoverTransientFailures(i)
    <2> DEFINE q == Pending(r, 0, AutoRetryStamp(r.history))
    <2>0. r.state = "failed"
      BY <1>2 DEF RecoverTransientFailures
    <2>1. /\ q.history \in History /\ Finite(q.history) /\ q.state = "pending"
          /\ Granted(q.history) = Granted(r.history) + 1 /\ q.attempt = r.attempt
      BY <1>0, AutoRetryStampType, MoreGranted, PendingFields
    <2> HIDE DEF q
    <2>2. Spending(i, q)
      BY <1>0, <2>0, <2>1, RequeuedAgainst
    <2>3. Spending(i, Obsolete(Noted(r, Bare("revoked"))))
      BY <1>gone, BareType, BareGranted DEF Kind
    <2> QED
      BY <1>1, <1>2, <2>2, <2>3 DEF RecoverTransientFailures, q
  <1>3. CASE RecoverInvalidDerivations(i)
    BY <1>1, <1>3, <1>mark DEF RecoverInvalidDerivations
  <1>4. CASE RecoverOversizedConsolidations(i)
    <2>1. r.history.marks = {} \/ ~(r.history = Bare("oversized"))
      BY DEF Bare
    <2> QED
      BY <1>1, <1>4, <1>mark, <1>refused, <2>1 DEF RecoverOversizedConsolidations
  <1>5. CASE RecoverOversizedEvaluation(i)
    <2> DEFINE q == Pending(r, 0, Bare("held"))
    <2>0. r.state = "failed" /\ TypeOf[i] = "evaluate_candidate" /\ r.history = Bare("oversized")
      BY <1>5 DEF RecoverOversizedEvaluation
    <2>1. i \in Legacy /\ r.attempt <= MAX_RECOVERABLE_ATTEMPTS
      BY <1>0, <2>0 DEF Spending, Bare
    <2>2. /\ q.state = "pending" /\ q.history = Bare("held") /\ q.attempt = r.attempt
          /\ q.history \in History /\ Finite(q.history)
      BY <1>0, PendingFields, BareType, BareGranted DEF Kind
    <2>3. q.attempt < MAX_RECOVERABLE_ATTEMPTS + Repairs(i) /\ q.attempt \in Nat
      BY <1>0, <1>max, <2>0, <2>1, <2>2
    <2> HIDE DEF q
    <2>4. Spending(i, q)
      BY <2>2, <2>3, Requeued
    <2> QED
      BY <1>1, <1>5, <1>refused, <2>0, <2>4 DEF RecoverOversizedEvaluation, q
  <1>6. CASE RetireRebounded(i)
    <2>1. Spending(i, Obsolete(r))
      BY <1>0, NotedFields, ClosedWithin
    <2> QED
      BY <1>1, <1>6, <2>1 DEF RetireRebounded
  <1>7. CASE RecoverInterruptedAttempts(i)
    <2> DEFINE q == Pending(r, 0, WithMark(r.history, "interrupted_retry"))
    <2>1. /\ q.history \in History /\ Finite(q.history) /\ q.state = "pending"
          /\ q.attempt = r.attempt
      BY <1>0, WithMarkType, MoreGranted, PendingFields DEF Mark
    <2>2. q.attempt < MAX_RECOVERABLE_ATTEMPTS + Repairs(i)
      BY <1>0, <1>7, <1>max, <2>1 DEF RecoverInterruptedAttempts
    <2> HIDE DEF q
    <2>3. Spending(i, q)
      BY <1>0, <2>1, <2>2, Requeued
    <2> QED
      BY <1>1, <1>7, <2>3 DEF RecoverInterruptedAttempts, q
  <1>8. CASE RequeueUnfinishedPurge(i)
    <2> DEFINE q == Fenced(Pending(r, 0, Bare("held")))
    <2>1. /\ q.state = "pending" /\ q.history = Bare("held") /\ q.attempt = r.attempt
          /\ q.history \in History /\ Finite(q.history)
      BY <1>0, FencedFields, BareType, BareGranted DEF Kind
    <2>2. PurgeTries \in Nat /\ PurgeTries <= MAX_RECOVERABLE_ATTEMPTS
      BY QueueAssumption
    <2>3. r.attempt <= PurgeTries /\ Repairs(i) = 1
      BY <1>8, <1>max DEF RequeueUnfinishedPurge
    <2>4. q.attempt < MAX_RECOVERABLE_ATTEMPTS + Repairs(i)
      BY <1>0, <1>max, <2>1, <2>2, <2>3
    <2> HIDE DEF q
    <2>5. Spending(i, q)
      BY <1>0, <2>1, <2>4, Requeued
    <2> QED
      BY <1>1, <1>8, <2>5 DEF RequeueUnfinishedPurge, q
  <1> QED
    BY <1>2, <1>3, <1>4, <1>5, <1>6, <1>7, <1>8 DEF Recovery

LEMMA SoundGrant ==
    ASSUME TypeOK, Sound, NEW i \in Item, OperatorGrant(i)
    PROVE  Sound'
  <1> DEFINE r == rows[i]
  <1>0. /\ r \in Row /\ r.history \in History /\ r.attempt \in Nat
        /\ Spending(i, r) /\ Finite(r.history)
    BY RowFields DEF Sound, Spending
  <1>1. ASSUME NEW q, Put(i, q), Spending(i, q) PROVE Sound'
    BY <1>1, SoundPut
  <1>2. 0 < MAX_RECOVERABLE_ATTEMPTS + Repairs(i)
    BY QueueAssumption DEF Repairs
  <1>fresh. \A h \in History : Finite(h) =>
                Spending(i, Restarted(r, h)) /\ Spending(i, Fenced(Restarted(r, h)))
    <2> TAKE h \in History
    <2> HAVE Finite(h)
    <2>1. \A q : q.state = "pending" /\ q.history = h /\ q.attempt = 0 => Spending(i, q)
      BY <1>2, Requeued
    <2> QED
      BY <1>0, <2>1, RestartedFields, FencedFields
  <1>marked. \A release \in Release : Spending(i, Restarted(r, Marked(r.history, release)))
    BY <1>0, <1>fresh, MarkedType, MoreGranted
  <1>bare. \A kind \in Kind : /\ Spending(i, Restarted(r, Bare(kind)))
                              /\ Spending(i, Fenced(Restarted(r, Bare(kind))))
    BY <1>fresh, BareType, BareGranted
  <1>3. ASSUME NEW release \in Release, RetryFailed(i, release) \/ ReopenUnvectored(i, release)
        PROVE  Sound'
    BY <1>1, <1>3, <1>marked DEF RetryFailed, ReopenUnvectored
  <1>4. ASSUME NEW operation \in Operation, OperatorRetryFailed(i, operation) PROVE Sound'
    <2> DEFINE q == Pending(r, 0, WithMark(r.history, operation))
    <2>1. operation \in BudgetMark \ r.history.marks /\ operation \in Mark
      BY <1>4 DEF OperatorRetryFailed, OperatorRetryIds, BudgetMark, Mark
    <2>2. /\ q.history \in History /\ Finite(q.history) /\ q.state = "pending"
          /\ Granted(q.history) = Granted(r.history) + 1 /\ q.attempt = r.attempt
      BY <1>0, <2>1, WithMarkType, MoreGranted, PendingFields
    <2>3. Put(i, q) /\ r.state = "failed"
      BY <1>4 DEF OperatorRetryFailed
    <2> HIDE DEF q
    <2>4. Spending(i, q)
      BY <1>0, <2>2, <2>3, RequeuedAgainst
    <2> QED
      BY <1>1, <2>3, <2>4
  <1>5. CASE RespacePage(i)
    BY <1>1, <1>5, <1>bare DEF RespacePage, FreshStart, Kind
  <1>6. CASE ReopenProjection(i)
    BY <1>1, <1>6, <1>bare DEF ReopenProjection, FreshStart, NoHistory, Kind
  <1>7. CASE RequeueSuppressed(i)
    BY <1>1, <1>7, <1>bare DEF RequeueSuppressed, FreshStart, NoHistory, Kind
  <1> QED
    BY <1>3, <1>4, <1>5, <1>6, <1>7 DEF OperatorGrant

LEMMA SoundWithdrawal ==
    ASSUME TypeOK, Sound, NEW i \in Item, Withdrawal(i)
    PROVE  Sound'
  <1> DEFINE r == rows[i]
  <1>0. r \in Row /\ Spending(i, r) /\ Finite(r.history)
    BY RowFields DEF Sound, Spending
  <1>1. \A h : Finite(h) => Spending(i, Fenced(Unleased(r, "obsolete", h)))
    BY <1>0, FencedFields, ClosedWithin
  <1>2. Spending(i, Obsolete(r))
    BY <1>0, NotedFields, ClosedWithin
  <1>3. CASE DeleteSubject(i)
    <2> DEFINE h == IF TypeOf[i] = "evaluate_candidate" THEN Bare("revoked") ELSE r.history
    <2>1. Finite(h)
      BY <1>0, BareGranted
    <2>2. Spending(i, Fenced(Unleased(r, "obsolete", h)))
      BY <1>1, <2>1
    <2> QED
      BY <1>0, <1>3, <2>2, SoundPut DEF DeleteSubject
  <1>4. CASE SupersedeSubject(i)
    BY <1>0, <1>2, <1>4, SoundPut DEF SupersedeSubject
  <1>5. CASE RetireEvaluation(i)
    BY <1>1, <1>5, BareGranted, SoundPut DEF RetireEvaluation
  <1> QED
    BY <1>3, <1>4, <1>5 DEF Withdrawal

LEMMA SoundRelease ==
    ASSUME TypeOK, Sound, NEW i \in Item
    PROVE  Spending(i, ReleasedRow(rows[i]))
  <1> DEFINE r == rows[i]
             q == ReleasedRow(r)
  <1>0. /\ r \in Row /\ r.history \in History /\ r.attempt \in Nat
        /\ Spending(i, r) /\ Finite(r.history)
    BY RowFields DEF Sound, Spending
  <1>max. Repairs(i) \in Nat /\ MAX_RECOVERABLE_ATTEMPTS \in Nat
    BY QueueAssumption DEF Repairs
  <1>1. CASE ~Expired(r)
    BY <1>0, <1>1, ReleasedFields
  <1>2. CASE Expired(r) /\ r.attempt < MAX_RECOVERABLE_ATTEMPTS
    <2>1. /\ q.state = "pending" /\ q.history = r.history /\ q.attempt = r.attempt
          /\ r.attempt < MAX_RECOVERABLE_ATTEMPTS + Repairs(i)
      BY <1>0, <1>2, <1>max, ReleasedFields
    <2> HIDE DEF q
    <2>2. Spending(i, q)
      BY <1>0, <2>1, Requeued
    <2> QED
      BY <2>2 DEF q
  <1>3. CASE Expired(r) /\ r.attempt >= MAX_RECOVERABLE_ATTEMPTS
    <2>1. r.state = "leased"
      BY <1>3 DEF Expired
    <2>2. q.state = "failed" /\ q.history = Recorded(r.history, "transient")
          /\ q.attempt = r.attempt
      BY <1>0, <1>3, ReleasedFields
    <2>3. LET h == Recorded(r.history, "transient")
          IN  h \in History /\ Finite(h) /\ Granted(h) = Granted(r.history)
      BY <1>0, RecordedType, SameGranted DEF Kind
    <2>4. Recorded(r.history, "transient").kind = "transient"
      BY <1>0 DEF Recorded, Bare, History
    <2> HIDE DEF q
    <2>5. Spending(i, q)
      BY <1>0, <2>1, <2>2, <2>3, <2>4, FailedWithin
    <2> QED
      BY <2>5 DEF q
  <1> QED
    BY <1>0, <1>1, <1>2, <1>3, <1>max

LEMMA SoundClaim ==
    ASSUME TypeOK, Sound, NEW w \in Worker, NEW kinds, NEW freshLane,
           ClaimNext(w, kinds, freshLane)
    PROVE  Sound'
  <1>1. PICK i \in Item :
            /\ Released[i].state = "pending"
            /\ rows'[i] = LeasedRow(Released[i], w)
            /\ \A k \in Item \ {i} : rows'[k] = ReleasedRow(rows[k])
    BY ClaimMoves
  <1> DEFINE q == Released[i]
             claimed == LeasedRow(q, w)
  <1>2. q \in Row /\ Spending(i, q) /\ q.state = "pending" /\ q.attempt \in Nat
        /\ q.history \in History /\ Finite(q.history)
    BY <1>1, SoundRelease, ReleasedRowType, RowFields DEF Released, Row, Spending
  <1>3. claimed.state = "leased" /\ claimed.history = q.history
        /\ claimed.attempt = q.attempt + 1
    BY <1>2, LeasedFields
  <1>4. q.attempt < Budget(i, q.history) /\ Budget(i, q.history) \in Nat
    BY <1>2, BudgetFacts DEF Spending, WithinBudget
  <1> HIDE DEF q, claimed
  <1>5. Spending(i, claimed)
    BY <1>2, <1>3, <1>4 DEF Spending, WithinBudget
  <1>6. \A j \in Item : Spending(j, rows'[j])
    BY <1>1, <1>5, SoundRelease DEF q, claimed
  <1> QED
    BY <1>6 DEF Sound, Spending, WithinBudget, Finite, Budget, Repairs, Granted

LEMMA SoundCompletion ==
    ASSUME TypeOK, Sound, NEW h \in leases, NEW lag, CompleteConsolidation(h, lag),
           NEW j \in Item
    PROVE  Spending(j, rows'[j])
  <1>0. rows[j] \in Row /\ Spending(j, rows[j])
    BY RowFields DEF Sound
  <1>1. NoHistory \in History /\ Finite(NoHistory)
    BY BareType, BareGranted DEF NoHistory, Kind
  <1>2. 0 < MAX_RECOVERABLE_ATTEMPTS + Repairs(j)
    BY QueueAssumption DEF Repairs
  <1>3. Spending(j, Restarted(rows[j], NoHistory))
    BY <1>0, <1>1, <1>2, RestartedFields, Requeued
  <1>4. Spending(j, Unleased(rows[j], "done", NoHistory))
    BY <1>0, <1>1, UnleasedFields, ClosedWithin
  <1>5. rows'[j] \in {rows[j], Restarted(rows[j], NoHistory), Unleased(rows[j], "done", NoHistory)}
    BY CompletionMoves
  <1> QED
    BY <1>0, <1>3, <1>4, <1>5

LEMMA SoundReview ==
    ASSUME TypeOK, Sound, Remembered, NEW i \in Item, OwnerReview(i), NEW j \in Item
    PROVE  Spending(j, rows'[j])
  <1>0. rows[j] \in Row /\ Spending(j, rows[j]) /\ undoable[j] \subseteq Row
    BY DEF TypeOK, Sound
  <1>1. CASE i # j
    BY <1>0, <1>1, ReviewMoves
  <1>2. CASE i = j /\ rows'[j] = Fenced(Restarted(rows[j], NoHistory))
    <2>1. NoHistory \in History /\ Finite(NoHistory)
      BY BareType, BareGranted DEF NoHistory, Kind
    <2>2. 0 < MAX_RECOVERABLE_ATTEMPTS + Repairs(j)
      BY QueueAssumption DEF Repairs
    <2> DEFINE q == Fenced(Restarted(rows[j], NoHistory))
    <2>3. q.state = "pending" /\ q.history = NoHistory /\ q.attempt = 0
      BY <1>0, FencedFields
    <2> HIDE DEF q
    <2>4. Spending(j, q)
      BY <2>1, <2>2, <2>3, Requeued
    <2> QED
      BY <1>2, <2>4 DEF q
  <1>3. ASSUME i = j, NEW before \in undoable[j], rows'[j] = RestoredRow(rows[j], before)
        PROVE  Spending(j, rows'[j])
    <2>1. before \in Row /\ Spending(j, before)
      BY <1>0, <1>3 DEF Remembered
    <2>2. CASE before.state = "absent"
      <3>1. RestoredRow(rows[j], before).state = "obsolete"
            /\ Finite(RestoredRow(rows[j], before).history)
        BY <1>0, <2>1, <2>2, RestoredFields, BareGranted
      <3> QED
        BY <1>3, <3>1, ClosedWithin
    <2>3. CASE before.state # "absent"
      BY <1>0, <1>3, <2>1, <2>3, RestoredFields DEF Spending, WithinBudget
    <2> QED
      BY <2>2, <2>3
  <1>4. CASE i = j /\ rows'[j] = Fenced(rows[j])
    BY <1>0, <1>4 DEF Fenced, Row, Spending, WithinBudget
  <1> QED
    BY <1>1, <1>2, <1>3, <1>4, ReviewMoves

\* What may still be undone: nothing, what could be, the same rows grown older,
\* or the row an owner has just approved.
UndoMoves(j) ==
    \/ undoable'[j] = {}
    \/ undoable'[j] = undoable[j] /\ rows'[j] \in {rows[j], ReleasedRow(rows[j])}
    \/ undoable'[j] = {Older(before) : before \in undoable[j]} /\ rows'[j] = Older(rows[j])
    \/ /\ j \in Consolidations /\ rows[j].state # "leased" /\ undoable'[j] = {rows[j]}
       /\ rows'[j].state = "pending" /\ rows'[j].token = rows[j].token + 1

LEMMA NextUndo ==
    ASSUME TypeOK, [Next]_vars, NEW j \in Item
    PROVE  UndoMoves(j)
  <1>put. ASSUME NEW i \in Item, NEW q, Put(i, q) PROVE UndoMoves(j)
    BY <1>put, PutOne DEF UndoMoves
  <1>same. rows' = rows /\ undoable' = undoable => UndoMoves(j)
    BY DEF UndoMoves
  <1>1. ASSUME NEW i \in Item, Enqueue(i) PROVE UndoMoves(j)
    BY <1>1, <1>put DEF Enqueue
  <1>2. ASSUME NEW i \in Item, Recovery(i) PROVE UndoMoves(j)
    BY <1>2, <1>put DEF Recovery, RecoverTransientFailures, RecoverInvalidDerivations,
         RecoverOversizedConsolidations, RecoverOversizedEvaluation, RetireRebounded,
         RecoverInterruptedAttempts, RequeueUnfinishedPurge
  <1>3. ASSUME NEW i \in Item, OperatorGrant(i) PROVE UndoMoves(j)
    BY <1>3, <1>put DEF OperatorGrant, RetryFailed, ReopenUnvectored, OperatorRetryFailed,
         RespacePage, ReopenProjection, RequeueSuppressed, FreshStart
  <1>4. ASSUME NEW i \in Item, Withdrawal(i) PROVE UndoMoves(j)
    BY <1>4, <1>put DEF Withdrawal, DeleteSubject, RetireEvaluation, SupersedeSubject
  <1>5. ASSUME NEW i \in Item, OwnerReview(i) PROVE UndoMoves(j)
    <2>1. CASE i # j
      BY <1>5, <2>1, ReviewMoves DEF UndoMoves
    <2>2. CASE i = j
      <3>1. rows[j] \in Row
        BY RowFields
      <3>2. Fenced(Restarted(rows[j], NoHistory)).state = "pending"
        BY <3>1, FencedFields
      <3> QED
        BY <1>5, <2>2, <3>2, ReviewMoves DEF UndoMoves
    <2> QED
      BY <2>1, <2>2
  <1>6. ASSUME NEW w \in Worker, NEW kinds, NEW freshLane, ClaimNext(w, kinds, freshLane)
        PROVE  UndoMoves(j)
    <2>1. PICK i \in Heads(Released, kinds, freshLane) :
            /\ rows' = [Released EXCEPT ![i] = LeasedRow(Released[i], w)]
            /\ undoable' = [undoable EXCEPT ![i] = {}]
      BY <1>6 DEF ClaimNext
    <2>2. CASE i = j
      BY <2>1, <2>2 DEF UndoMoves, TypeOK
    <2>3. CASE i # j
      BY <2>1, <2>3 DEF UndoMoves, Released, TypeOK
    <2> QED
      BY <2>2, <2>3
  <1>7. ASSUME NEW kinds, ReleaseStale(kinds) PROVE UndoMoves(j)
    BY <1>7 DEF ReleaseStale, Released, UndoMoves
  <1>8. ASSUME NEW h \in leases, Abandon(h) PROVE UndoMoves(j)
    BY <1>8, <1>same DEF Abandon
  <1>9. ASSUME NEW h \in leases, NEW lag \in 0 .. MaxLag, WorkerReply(h, lag) PROVE UndoMoves(j)
    <2>1. h.item \in Item
      BY LeaseType
    <2> QED
      BY <1>9, <1>put, <2>1 DEF WorkerReply, Complete, MarkObsolete, DeferWithoutAttempt,
           FailForCapacity, FailForInvalid, FailForRetry, FailForGood, Reply
  <1>10. ASSUME NEW h \in leases, NEW lag \in 0 .. MaxLag, CompleteConsolidation(h, lag)
         PROVE  UndoMoves(j)
    BY <1>10, CompletionMoves DEF UndoMoves
  <1>11. CASE Tick
    BY <1>11 DEF Tick, UndoMoves
  <1>12. CASE UNCHANGED vars
    BY <1>12, <1>same DEF vars
  <1> QED
    BY <1>1, <1>2, <1>3, <1>4, <1>5, <1>6, <1>7, <1>8, <1>9, <1>10, <1>11, <1>12 DEF Next

LEMMA NextRemembered ==
    TypeOK /\ Sound /\ Remembered /\ [Next]_vars => Remembered'
  <1> SUFFICES ASSUME TypeOK, Sound, Remembered, [Next]_vars,
                      NEW j \in Item, NEW before \in undoable'[j]
               PROVE  rows'[j].state = "pending" /\ Spending(j, before)
    BY DEF Remembered, Spending, WithinBudget, Finite, Budget, Repairs, Granted
  <1>0. rows[j] \in Row /\ Spending(j, rows[j]) /\ undoable[j] \subseteq Row
    BY DEF TypeOK, Sound
  <1>1. CASE undoable'[j] = undoable[j] /\ rows'[j] \in {rows[j], ReleasedRow(rows[j])}
    <2>1. rows[j].state = "pending" /\ Spending(j, before)
      BY <1>1 DEF Remembered
    <2> QED
      BY <1>0, <1>1, <2>1, ReleasedFields DEF Expired
  <1>2. CASE undoable'[j] = {Older(earlier) : earlier \in undoable[j]} /\ rows'[j] = Older(rows[j])
    <2>1. PICK earlier \in undoable[j] : before = Older(earlier)
      BY <1>2
    <2>2. earlier \in Row /\ Spending(j, earlier) /\ rows[j].state = "pending"
      BY <1>0, <2>1 DEF Remembered
    <2>3. Spending(j, Older(earlier))
      BY <2>2, OlderFields DEF Spending, WithinBudget
    <2> QED
      BY <1>0, <1>2, <2>1, <2>2, <2>3, OlderFields
  <1>3. CASE undoable'[j] = {rows[j]} /\ rows'[j].state = "pending"
    BY <1>0, <1>3
  <1> QED
    BY <1>1, <1>2, <1>3, NextUndo DEF UndoMoves

LEMMA NextSound == TypeOK /\ Sound /\ Remembered /\ [Next]_vars => Sound'
  <1> SUFFICES ASSUME TypeOK, Sound, Remembered, [Next]_vars PROVE Sound'
    OBVIOUS
  <1>all. ASSUME \A j \in Item : Spending(j, rows'[j]) PROVE Sound'
    BY <1>all DEF Sound, Spending, WithinBudget, Finite, Budget, Repairs, Granted
  <1>1. ASSUME NEW i \in Item, Enqueue(i) PROVE Sound'
    <2>1. rows'[i].state = "pending" /\ rows'[i].attempt = 0 /\ rows'[i].history = rows[i].history
      BY <1>1, EnqueueMoves DEF Sound, Spending
    <2>2. rows[i].history \in History /\ Finite(rows[i].history)
      BY RowFields DEF Sound, Spending
    <2>3. 0 < MAX_RECOVERABLE_ATTEMPTS + Repairs(i)
      BY QueueAssumption DEF Repairs
    <2>4. Spending(i, rows'[i])
      BY <2>1, <2>2, <2>3, Requeued
    <2> QED
      BY <1>1, <1>all, <2>4, EnqueueMoves DEF Sound
  <1>2. ASSUME NEW h \in leases, Abandon(h) PROVE Sound'
    BY <1>2, <1>all DEF Abandon, Sound
  <1>3. ASSUME NEW kinds, ReleaseStale(kinds) PROVE Sound'
    BY <1>3, <1>all, SoundRelease DEF ReleaseStale, Released
  <1>4. CASE Tick
    <2> SUFFICES ASSUME NEW j \in Item PROVE Spending(j, rows'[j])
      BY <1>all
    <2>1. rows[j] \in Row /\ Spending(j, rows[j])
      BY RowFields DEF Sound
    <2>2. /\ rows'[j].state = rows[j].state /\ rows'[j].attempt = rows[j].attempt
          /\ rows'[j].history = rows[j].history
      BY <1>4, <2>1, OlderFields DEF Tick
    <2> QED
      BY <2>1, <2>2 DEF Spending, WithinBudget
  <1>5. CASE UNCHANGED vars
    BY <1>5, <1>all DEF vars, Sound
  <1>6. ASSUME NEW i \in Item, OwnerReview(i) PROVE Sound'
    BY <1>6, <1>all, SoundReview
  <1>7. ASSUME NEW h \in leases, NEW lag \in 0 .. MaxLag, CompleteConsolidation(h, lag)
        PROVE  Sound'
    BY <1>7, <1>all, SoundCompletion
  <1> QED
    BY <1>1, <1>2, <1>3, <1>4, <1>5, <1>6, <1>7, SoundReply, SoundRecovery, SoundGrant,
       SoundWithdrawal, SoundClaim DEF Next

LEMMA InitSound == Init => Sound
  <1> SUFFICES ASSUME Init, NEW i \in Item PROVE Spending(i, rows[i])
    BY DEF Sound
  <1>1. rows[i] \in LegacyRow \cup {AbsentRow} /\ (rows[i] # AbsentRow => i \in Legacy)
    BY DEF Init
  <1>2. CASE rows[i] = AbsentRow
    BY <1>2, BareGranted DEF Spending, WithinBudget, AbsentRow, NoHistory
  <1>3. CASE rows[i] \in LegacyRow
    <2>1. PICK a \in 1 .. MAX_RECOVERABLE_ATTEMPTS, k \in {"invalid", "oversized"} :
              rows[i] = LegacyFailure(a, k)
      BY <1>3 DEF LegacyRow
    <2> DEFINE q == LegacyFailure(a, k)
    <2>2. q.state = "failed" /\ q.attempt = a /\ q.history = Bare(k)
      BY DEF LegacyFailure, AbsentRow
    <2>3. Bare(k) \in History /\ Finite(Bare(k))
      BY BareType, BareGranted DEF Kind
    <2>4. a \in Nat /\ a <= MAX_RECOVERABLE_ATTEMPTS
      BY QueueAssumption
    <2>5. Budget(i, Bare(k)) \in Nat /\ Budget(i, Bare(k)) >= MAX_RECOVERABLE_ATTEMPTS
      BY <2>3, BudgetFacts
    <2>6. rows[i] # AbsentRow
      BY <2>1, <2>2 DEF AbsentRow
    <2>7. a <= Budget(i, Bare(k))
      BY <2>4, <2>5, QueueAssumption
    <2> HIDE DEF q
    <2>8. Spending(i, q)
      BY <1>1, <2>2, <2>3, <2>4, <2>6, <2>7 DEF Spending, WithinBudget
    <2> QED
      BY <2>1, <2>8 DEF q
  <1> QED
    BY <1>1, <1>2, <1>3

(***************************************************************************)
(* What the proofs below need of an undo: the rows it can bring back.      *)
(***************************************************************************)
LEMMA SoundHolds == Spec => [](Sound /\ Remembered)
  <1>1. Init => Sound /\ Remembered
    <2>1. Init => Remembered
      BY DEF Init, Remembered
    <2> QED
      BY <2>1, InitSound
  <1>2. TypeOK /\ Sound /\ Remembered /\ [Next]_vars => Sound' /\ Remembered'
    BY NextSound, NextRemembered
  <1> QED
    BY <1>1, <1>2, TypeCorrect, PTL DEF Spec

(***************************************************************************)
(* However failures, expiries, recoveries and operator retries follow each *)
(* other, an item is never executed more often than the ordinary attempts  *)
(* plus what its history shows was granted: the queue comes to rest.       *)
(***************************************************************************)
THEOREM AttemptBudgetHolds == Spec => []AttemptBudget
  <1>1. Sound => AttemptBudget
    BY DEF Sound, Spending, AttemptBudget
  <1> QED
    BY <1>1, SoundHolds, PTL

-----------------------------------------------------------------------------
(***************************************************************************)
(* The queue implements WorkLifecycle, for every value of its constants.   *)
(* An item is settled only by the worker of its newest claim because no    *)
(* two leases share a token (TokensFence): the lease that passes           *)
(* _verify_lease is the one the abstract grant stands for.                 *)
(***************************************************************************)

Pair(h) == <<h.item, h.token>>

Grants(L) == {Pair(h) : h \in L}

Newest(i) == <<i, rows[i].token>>

\* The answer of the newest holder of an item.
Landing(i) ==
    /\ rows[i].state = "leased"
    /\ rows'[i].state \in {"done", "failed", "obsolete", "pending"}
    /\ rows'[i].token = rows[i].token
    /\ Newest(i) \in Grants(leases)
    /\ Grants(leases') = Grants(leases) \ {Newest(i)}

\* An owner's review of a consolidation, or its undo.
Reviewing(i) ==
    /\ i \in Consolidations
    /\ rows'[i].token = rows[i].token + 1
    /\ Grants(leases') = Grants(leases)
    /\ \/ rows[i].state # "leased" /\ rows'[i].state = "pending" /\ undoable'[i] # {}
       \/ /\ rows[i].state = "pending"
          /\ \E before \in undoable[i] :
                rows'[i].state = IF before.state = "absent" THEN "obsolete" ELSE before.state
       \/ rows[i].state # "absent" /\ rows'[i].state = rows[i].state

\* What an item does, in the terms of this module.
Step(i) ==
    LET old == rows[i]
        new == rows'[i]
        moved(from, to, tokens) == old.state \in from /\ new.state \in to /\ new.token \in tokens
        bump == old.token + 1
    IN  \/ moved({"absent"}, {"pending"}, {old.token})
        \/ /\ moved({"pending", "leased"}, {"leased"}, {bump})
           /\ Grants(leases') = Grants(leases) \cup {<<i, new.token>>}
        \/ Landing(i)
        \/ /\ moved({"pending"}, {"done"}, {old.token}) /\ i \in Consolidations
           /\ \E j \in Consolidations \ {i} : Landing(j)
        \/ Reviewing(i)
        \/ moved({"leased"}, {"pending", "failed"}, {old.token})
        \/ moved({"pending", "leased", "failed"}, {"obsolete"}, {old.token, bump})
        \/ moved({"done", "failed", "obsolete"}, {"pending"}, {old.token, bump})
        \/ new.state = old.state /\ new.token = old.token

Steps ==
    /\ \A i \in Item : Step(i)
    /\ \/ Grants(leases') \subseteq Grants(leases)
       \/ \E i \in Item : /\ rows[i].state \in {"pending", "leased"}
                          /\ rows'[i].state = "leased"
                          /\ rows'[i].token = rows[i].token + 1
                          /\ Grants(leases') = Grants(leases) \cup {<<i, rows'[i].token>>}

LEMMA FewerGrants ==
    ASSUME NEW L, NEW M, M \subseteq L
    PROVE  Grants(M) \subseteq Grants(L)
  BY DEF Grants

LEMMA OneMoreGrant == \A L, h : Grants(L \cup {h}) = Grants(L) \cup {Pair(h)}
  BY DEF Grants

LEMMA OneStep ==
    ASSUME TypeOK, NEW i \in Item, Step(i), \A j \in Item \ {i} : rows'[j] = rows[j],
           leases' \subseteq leases
    PROVE  Steps
  BY FewerGrants DEF Steps, Step

LEMMA ReplySteps ==
    ASSUME TypeOK, TokensFence, NEW h \in leases, NEW lag \in 0 .. MaxLag, WorkerReply(h, lag)
    PROVE  Steps
  <1> DEFINE i == h.item
  <1>1. /\ i \in Item /\ VerifyLease(h, lag) /\ leases' = leases \ {h}
        /\ \A j \in Item \ {i} : rows'[j] = rows[j]
        /\ rows'[i].token = rows[i].token
        /\ rows'[i].state \in {"pending", "done", "failed", "obsolete"}
    BY LeaseType, ReplyMoves
  <1>2. rows[i].state = "leased" /\ Pair(h) = Newest(i)
    BY <1>1 DEF VerifyLease, Pair, Newest
  <1>3. Newest(i) \in Grants(leases)
    BY <1>2 DEF Grants
  <1>4. \A g \in leases : Pair(g) = Pair(h) => g = h
    BY DEF Pair, TokensFence
  <1>5. Grants(leases') = Grants(leases) \ {Pair(h)}
    BY <1>1, <1>4 DEF Grants
  <1>6. Step(i)
    BY <1>1, <1>2, <1>3, <1>5 DEF Step, Landing
  <1> QED
    BY <1>1, <1>6, OneStep

\* The row of the answering worker lands; what else changes was covered or reopened.
LEMMA CompletionSteps ==
    ASSUME TypeOK, TokensFence, NEW h \in leases, NEW lag, CompleteConsolidation(h, lag)
    PROVE  Steps
  <1> DEFINE i == h.item
  <1>0. \A j \in Item : rows[j] \in Row
    BY RowFields
  <1>1. /\ i \in Item /\ i \in Consolidations /\ VerifyLease(h, lag) /\ leases' = leases \ {h}
        /\ rows'[i] \in {Restarted(rows[i], NoHistory), Unleased(rows[i], "done", NoHistory)}
    BY LeaseType, CompletionMoves
  <1>2. rows[i].state = "leased" /\ Pair(h) = Newest(i)
    BY <1>1 DEF VerifyLease, Pair, Newest
  <1>3. Newest(i) \in Grants(leases)
    BY <1>2 DEF Grants
  <1>4. \A g \in leases : Pair(g) = Pair(h) => g = h
    BY DEF Pair, TokensFence
  <1>5. Grants(leases') = Grants(leases) \ {Pair(h)}
    BY <1>1, <1>4 DEF Grants
  <1>6. rows'[i].state \in {"pending", "done"} /\ rows'[i].token = rows[i].token
    BY <1>0, <1>1, RestartedFields, UnleasedFields
  <1>7. Landing(i)
    BY <1>2, <1>3, <1>5, <1>6 DEF Landing
  <1>8. ASSUME NEW j \in Item \ {i} PROVE Step(j)
    <2>1. CASE rows'[j] = rows[j]
      BY <2>1 DEF Step
    <2>2. CASE /\ j \in Consolidations /\ rows[j].state \in {"pending", "done"}
               /\ rows'[j] \in {Restarted(rows[j], NoHistory), Unleased(rows[j], "done", NoHistory)}
      <3>1. rows'[j].token = rows[j].token /\ rows'[j].state \in {"pending", "done"}
        BY <1>0, <2>2, RestartedFields, UnleasedFields
      <3>2. i \in Consolidations \ {j}
        BY <1>1
      <3> QED
        BY <1>7, <2>2, <3>1, <3>2 DEF Step
    <2> QED
      BY <2>1, <2>2, CompletionMoves
  <1>9. Step(i)
    BY <1>7 DEF Step
  <1> QED
    BY <1>1, <1>8, <1>9, FewerGrants DEF Steps

LEMMA ReviewSteps ==
    ASSUME TypeOK, NEW i \in Item, OwnerReview(i)
    PROVE  Steps
  <1>0. rows[i] \in Row /\ undoable[i] \subseteq Row
    BY DEF TypeOK
  <1>1. Reviewing(i)
    <2>1. Fenced(Restarted(rows[i], NoHistory)).state = "pending"
          /\ Fenced(rows[i]).state = rows[i].state
      BY <1>0, FencedFields DEF Fenced, Row
    <2>2. \A before \in undoable[i] :
              RestoredRow(rows[i], before).state =
                  IF before.state = "absent" THEN "obsolete" ELSE before.state
      BY <1>0, RestoredFields
    <2> QED
      BY <2>1, <2>2, ReviewMoves DEF Reviewing
  <1>2. Step(i)
    BY <1>1 DEF Step
  <1> QED
    BY <1>2, ReviewMoves, OneStep

LEMMA ReleasedSteps ==
    ASSUME TypeOK, NEW i \in Item
    PROVE  LET new == ReleasedRow(rows[i])
           IN  /\ new.token = rows[i].token
               /\ new = rows[i] \/ (rows[i].state = "leased" /\ new.state \in {"pending", "failed"})
  <1>1. rows[i] \in Row /\ rows[i].attempt \in Nat /\ MAX_RECOVERABLE_ATTEMPTS \in Nat
    BY RowFields, QueueAssumption
  <1> QED
    BY <1>1, ReleasedFields DEF Expired

LEMMA ClaimSteps ==
    ASSUME TypeOK, NEW w \in Worker, NEW kinds, NEW freshLane, ClaimNext(w, kinds, freshLane)
    PROVE  Steps
  <1>1. PICK i \in Item :
            /\ Released[i].state = "pending"
            /\ rows'[i] = LeasedRow(Released[i], w)
            /\ \A k \in Item \ {i} : rows'[k] = ReleasedRow(rows[k])
            /\ leases' = leases \cup {[item |-> i, token |-> rows'[i].token, owner |-> w]}
    BY ClaimMoves
  <1>2. Released[i] = ReleasedRow(rows[i]) /\ Released[i] \in Row
    BY RowFields, ReleasedRowType DEF Released
  <1>3. rows[i].state \in {"pending", "leased"}
    BY <1>1, <1>2, ReleasedSteps
  <1>4. rows'[i].state = "leased" /\ rows'[i].token = rows[i].token + 1
    BY <1>1, <1>2, LeasedFields, ReleasedSteps
  <1>5. Grants(leases') = Grants(leases) \cup {<<i, rows'[i].token>>}
    <2> DEFINE new == [item |-> i, token |-> rows'[i].token, owner |-> w]
    <2>1. Pair(new) = <<i, rows'[i].token>>
      BY DEF Pair
    <2>2. leases' = leases \cup {new}
      BY <1>1
    <2> HIDE DEF new
    <2> QED
      BY <2>1, <2>2, OneMoreGrant
  <1>6. Step(i)
    BY <1>3, <1>4, <1>5 DEF Step
  <1>7. ASSUME NEW j \in Item \ {i} PROVE Step(j)
    BY <1>1, <1>7, ReleasedSteps DEF Step
  <1> QED
    BY <1>3, <1>4, <1>5, <1>6, <1>7 DEF Steps

LEMMA NextSteps ==
    ASSUME TypeOK, TokensFence, [Next]_vars
    PROVE  Steps
  <1>0. \A i \in Item : rows[i] \in Row
    BY RowFields
  <1>all. ASSUME \A i \in Item : Step(i), leases' \subseteq leases PROVE Steps
    BY <1>all, FewerGrants DEF Steps
  <1>1. ASSUME NEW i \in Item, Enqueue(i) PROVE Steps
    <2>1. Step(i)
      BY <1>1, EnqueueMoves DEF Step
    <2> QED
      BY <1>1, <2>1, EnqueueMoves, OneStep
  <1>2. ASSUME NEW i \in Item, Recovery(i) \/ OperatorGrant(i) PROVE Steps
    <2>1. Step(i)
      BY <1>2, GrantMoves DEF Step
    <2> QED
      BY <1>2, <2>1, GrantMoves, OneStep
  <1>3. ASSUME NEW i \in Item, Withdrawal(i) PROVE Steps
    <2>1. Step(i)
      BY <1>3, WithdrawalMoves DEF Step
    <2> QED
      BY <1>3, <2>1, WithdrawalMoves, OneStep
  <1>4. ASSUME NEW h \in leases, Abandon(h) PROVE Steps
    BY <1>4, <1>all DEF Abandon, Step
  <1>5. ASSUME NEW kinds, ReleaseStale(kinds) PROVE Steps
    BY <1>5, <1>all, ReleasedSteps DEF ReleaseStale, Released, Step
  <1>6. CASE Tick
    BY <1>6, <1>0, <1>all, OlderFields DEF Tick, Step
  <1>7. CASE UNCHANGED vars
    BY <1>7, <1>all DEF vars, Step
  <1> QED
    BY <1>1, <1>2, <1>3, <1>4, <1>5, <1>6, <1>7, ReplySteps, CompletionSteps, ReviewSteps,
       ClaimSteps DEF Next

LEMMA AbstractStep ==
    ASSUME TypeOK, TypeOK', Remembered, Steps, \A i \in Item : UndoMoves(i)
    PROVE  Lifecycle!Next
  <1>1. ASSUME NEW i \in Item
        PROVE  Lifecycle!Moves(i) \/ Lifecycle!Reviewed(i) \/ Lifecycle!Stays(i)
    <2>0. rows[i] \in Row /\ undoable[i] \subseteq Row
      BY DEF TypeOK
    <2>1. CASE undoable'[i] = {}
      <3>1. Step(i)
        BY DEF Steps
      <3>2. \A j \in Item : Landing(j) => Lifecycle!Landed(j)
        BY DEF Landing, Grants, Pair, Newest, Lifecycle!Landed, Lifecycle!Becomes,
               Lifecycle!Newest, Lifecycle!Stopped
      <3>3. CASE Landing(i)
        BY <2>1, <3>2, <3>3 DEF Lifecycle!Moves
      <3>4. CASE Reviewing(i)
        <4>1. Lifecycle!Undone(i) \/ Lifecycle!Outdated(i)
          BY <2>1, <3>4 DEF Reviewing, Grants, Pair, Lifecycle!Undone, Lifecycle!Outdated
        <4> QED
          BY <2>1, <4>1 DEF Lifecycle!Moves
      <3>5. CASE /\ rows[i].state = "pending" /\ rows'[i].state = "done"
                 /\ rows'[i].token = rows[i].token /\ i \in Consolidations
                 /\ \E j \in Consolidations \ {i} : Landing(j)
        <4>1. Lifecycle!Covered(i)
          BY <3>2, <3>5 DEF Lifecycle!Covered, Lifecycle!Becomes, Consolidations
        <4> QED
          BY <2>1, <4>1 DEF Lifecycle!Moves
      <3>6. CASE /\ rows[i].state \in {"pending", "leased"} /\ rows'[i].state = "leased"
                 /\ rows'[i].token = rows[i].token + 1
                 /\ Grants(leases') = Grants(leases) \cup {<<i, rows'[i].token>>}
        <4>1. Lifecycle!Granted(i)
          BY <3>6 DEF Grants, Pair, Lifecycle!Granted
        <4> QED
          BY <2>1, <4>1 DEF Lifecycle!Moves
      <3> QED
        BY <2>1, <3>1, <3>3, <3>4, <3>5, <3>6
        DEF Step, Lifecycle!Moves, Lifecycle!Stays, Lifecycle!Queued, Lifecycle!TakenBack,
            Lifecycle!Withdrawn, Lifecycle!Reopened, Lifecycle!Becomes, Lifecycle!Stopped
    <2>2. CASE undoable'[i] = undoable[i] /\ rows'[i] = rows[i]
      BY <2>2 DEF Lifecycle!Stays
    <2>3. CASE /\ undoable'[i] = {Older(before) : before \in undoable[i]}
               /\ rows'[i] = Older(rows[i])
      <3>1. \A before \in undoable[i] : Older(before).state = before.state
        BY <2>0, OlderFields
      <3>2. rows'[i].state = rows[i].state /\ rows'[i].token = rows[i].token
        BY <2>0, <2>3, OlderFields
      <3> QED
        BY <2>3, <3>1, <3>2 DEF Lifecycle!Stays
    <2>4. CASE /\ i \in Consolidations /\ rows[i].state # "leased" /\ undoable'[i] = {rows[i]}
               /\ rows'[i].state = "pending" /\ rows'[i].token = rows[i].token + 1
      BY <2>4 DEF Lifecycle!Reviewed
    <2>5. CASE undoable'[i] = undoable[i] /\ rows'[i] = ReleasedRow(rows[i]) /\ rows'[i] # rows[i]
      <3>1. rows[i].state = "leased"
        BY <2>0, <2>5, ReleasedSteps
      <3>2. undoable[i] = {}
        BY <3>1 DEF Remembered
      <3> QED
        BY <2>1, <2>5, <3>2
    <2> QED
      BY <2>1, <2>2, <2>3, <2>4, <2>5 DEF UndoMoves
  <1>2. \/ {<<h.item, h.token>> : h \in leases'} \subseteq {<<h.item, h.token>> : h \in leases}
        \/ \E i \in Item : Lifecycle!Granted(i)
    BY DEF Steps, Grants, Pair, Lifecycle!Granted
  <1> QED
    BY <1>1, <1>2 DEF Lifecycle!Next

LEMMA AbstractInit == Init => Lifecycle!Init
  <1> SUFFICES ASSUME Init PROVE Lifecycle!Init
    OBVIOUS
  <1>1. TypeOK
    BY InitType
  <1>2. \A i \in Item : rows[i].state \in {"absent", "failed"} /\ rows[i].token \in Nat
    <2> TAKE i \in Item
    <2>1. rows[i] \in LegacyRow \cup {AbsentRow} /\ rows[i].token \in Nat
      BY <1>1, RowFields DEF Init
    <2>2. CASE rows[i] \in LegacyRow
      <3>1. PICK a \in 1 .. MAX_RECOVERABLE_ATTEMPTS, k \in {"invalid", "oversized"} :
                rows[i] = LegacyFailure(a, k)
        BY <2>2 DEF LegacyRow
      <3> QED
        BY <2>1, <3>1 DEF LegacyFailure, AbsentRow
    <2> QED
      BY <2>1, <2>2 DEF AbsentRow
  <1>3. leases = {} /\ undoable = [i \in Item |-> {}]
    BY DEF Init
  <1> QED
    BY <1>2, <1>3 DEF Lifecycle!Init

(***************************************************************************)
(* Every behaviour of the queue is one the state table of a work item      *)
(* allows: what its clock, retries, recoveries and grants do underneath is *)
(* a step of that table or none.                                           *)
(***************************************************************************)
THEOREM ImplementsLifecycle == Spec => LifecycleSpec
  <1>1. Init => Lifecycle!Init
    BY AbstractInit
  <1>2. TypeOK /\ TypeOK' /\ TokensFence /\ Remembered /\ [Next]_vars => Lifecycle!Next
    BY NextSteps, NextUndo, AbstractStep
  <1> QED
    BY <1>1, <1>2, TypeCorrect, TokensFenceHolds, SoundHolds, PTL DEF Spec, LifecycleSpec, Lifecycle!Spec
=============================================================================
