------------------------ MODULE FiveSeatLifecycle_proofs ------------------------
(***************************************************************************)
(* The life of a job, for every number of seats, set of threads, job       *)
(* envelopes and bounds: what becomes of its handoffs, its reviews, its    *)
(* unresolved operations, a recorded cancel and its budget of attempts.    *)
(*                                                                         *)
(* Each step of the fabric is one of six things to any one job (RowStep);  *)
(* the invariants are then shown per job, kind by kind.                    *)
(***************************************************************************)
EXTENDS FiveSeat_proofs, FiniteSetTheorems

-----------------------------------------------------------------------------
(* What a step does to one job *)

HandoffsOf(j)   == {h \in handoffs : h.job = j}
ReviewsOf(j)    == {r \in reviews : r.job = j}
OperationsOf(j) == {o \in operations : o.job = j}

\* The books of a job: what was written about it in the other tables.
KeepsBooks(j) ==
    /\ HandoffsOf(j)' = HandoffsOf(j)
    /\ ReviewsOf(j)' = ReviewsOf(j)
    /\ OperationsOf(j)' = OperationsOf(j)

\* The columns that change only when a claim is taken or reviewed.
KeepsRound(j) ==
    /\ jobs'[j].attempts = jobs[j].attempts
    /\ jobs'[j].reworks = jobs[j].reworks
    /\ jobs'[j].checkpoint_ref = jobs[j].checkpoint_ref

\* Nothing but its lease, or an operation that its worker or, in quarantine,
\* somebody who verified the effect reports on.
Rests(j) ==
    /\ KeepsRound(j)
    /\ jobs'[j].fabric_state = jobs[j].fabric_state
    /\ jobs'[j].fence = jobs[j].fence
    /\ jobs'[j].cancel = jobs[j].cancel
    /\ HandoffsOf(j)' = HandoffsOf(j)
    /\ ReviewsOf(j)' = ReviewsOf(j)
    /\ OperationsOf(j)' # OperationsOf(j) =>
         Running(j) \/ jobs[j].fabric_state = "QUARANTINED"

\* The queue, the owner, a cancel request or the sweep writes a new state.
IsDirected(j) ==
    /\ KeepsRound(j)
    /\ KeepsBooks(j)
    /\ \/ /\ jobs[j].fabric_state = "ABSENT"
          /\ jobs'[j].fabric_state \in {"QUEUED", "BLOCKED_OWNER"}
          /\ jobs'[j].fence = jobs[j].fence
          /\ jobs'[j].cancel = jobs[j].cancel
       \/ /\ jobs[j].fabric_state = "BLOCKED_OWNER"
          /\ ~jobs[j].cancel
          /\ jobs'[j].fabric_state = "QUEUED"
          /\ jobs'[j].fence = jobs[j].fence
          /\ jobs'[j].cancel = jobs[j].cancel
       \/ /\ Queued(j)
          /\ jobs'[j].fabric_state = "STALE"
          /\ jobs'[j].fence = jobs[j].fence
          /\ jobs'[j].cancel = jobs[j].cancel
       \/ /\ Running(j)
          /\ jobs'[j].fabric_state = "CANCEL_REQUESTED"
          /\ jobs'[j].fence = jobs[j].fence
          /\ jobs'[j].cancel
       \/ /\ ~Running(j)
          /\ jobs[j].fabric_state # "ABSENT"
          /\ jobs'[j].fabric_state = "BLOCKED_OWNER"
          /\ j \notin approved'
          /\ jobs'[j].fence = jobs[j].fence
          /\ jobs'[j].cancel = jobs[j].cancel
       \/ /\ ~Running(j)
          /\ jobs[j].fabric_state \notin BeyondCancel
          /\ jobs'[j].fabric_state = "CANCELLED"
          /\ jobs'[j].fence = jobs[j].fence + 1
          /\ jobs'[j].cancel

\* A worker takes it from the queue, with an attempt that is left.
IsClaimed(j) ==
    /\ KeepsBooks(j)
    /\ Queued(j)
    /\ ~jobs[j].cancel
    /\ jobs[j].attempts < Envelope[j].max_attempts
    /\ jobs'[j].fabric_state = "RUNNING"
    /\ jobs'[j].fence = jobs[j].fence + 1
    /\ jobs'[j].attempts = jobs[j].attempts + 1
    /\ jobs'[j].reworks = jobs[j].reworks
    /\ jobs'[j].cancel = jobs[j].cancel
    /\ jobs'[j].checkpoint_ref = jobs[j].checkpoint_ref

\* Its worker hands its result over.
IsReleased(j) ==
    /\ Running(j)
    /\ \E h \in handoffs' :
          /\ h.job = j
          /\ h.fence = jobs[j].fence
          /\ HandoffsOf(j)' = HandoffsOf(j) \cup {h}
    /\ ReviewsOf(j)' = ReviewsOf(j)
    /\ OperationsOf(j)' = OperationsOf(j)
    /\ jobs'[j].fabric_state \in {"HANDOFF_PENDING_REVIEW", "QUARANTINED"}
    /\ jobs'[j].fabric_state = "HANDOFF_PENDING_REVIEW" =>
         jobs[j].fabric_state = "RUNNING" /\ ~Unresolved(j)
    /\ jobs'[j].fence = jobs[j].fence + 1
    /\ jobs'[j].attempts = jobs[j].attempts
    /\ jobs'[j].reworks = jobs[j].reworks
    /\ jobs'[j].cancel = jobs[j].cancel
    /\ jobs'[j].checkpoint_ref = jobs[j].fence

\* Its claim ends without a handoff.
IsEnded(j) ==
    /\ Running(j)
    /\ KeepsBooks(j)
    /\ KeepsRound(j)
    /\ jobs'[j].fence = jobs[j].fence + 1
    /\ jobs'[j].cancel = jobs[j].cancel
    /\ \/ jobs'[j].fabric_state \in {"QUARANTINED", "STALE"}
       \/ jobs'[j].fabric_state = "CANCELLED" /\ ~Unresolved(j)
       \/ /\ jobs'[j].fabric_state \in {"QUEUED", "FAILED_SAFE"}
          /\ ~jobs[j].cancel
          /\ ~Unresolved(j)

\* WATCH decides on its last handoff.
IsReviewed(j) ==
    /\ jobs[j].fabric_state \in {"HANDOFF_PENDING_REVIEW", "QUARANTINED"}
    /\ HandoffsOf(j)' = HandoffsOf(j)
    /\ OperationsOf(j)' = OperationsOf(j)
    /\ ~\E r \in reviews : r.job = j /\ r.fence = jobs[j].checkpoint_ref
    /\ jobs'[j].fence = jobs[j].fence
    /\ jobs'[j].checkpoint_ref = jobs[j].checkpoint_ref
    /\ \E h \in handoffs, r \in reviews' :
          /\ h.job = j /\ h.fence = jobs[j].checkpoint_ref
          /\ r.job = j /\ r.fence = jobs[j].checkpoint_ref
          /\ r.owner # h.worker
          /\ ReviewsOf(j)' = ReviewsOf(j) \cup {r}
          /\ jobs'[j].fabric_state = "SUCCEEDED" <=> r.decision = "ACCEPT"
    /\ \/ /\ jobs'[j].fabric_state = "SUCCEEDED"
          /\ ~jobs[j].cancel
          /\ jobs[j].fabric_state = "QUARANTINED" => ~Unresolved(j)
          /\ jobs'[j].cancel = jobs[j].cancel
          /\ jobs'[j].attempts = jobs[j].attempts
          /\ jobs'[j].reworks = jobs[j].reworks
       \/ /\ jobs'[j].fabric_state = "REWORK_QUEUED"
          /\ jobs[j].fabric_state = "QUARANTINED" => ~Unresolved(j)
          /\ ~jobs'[j].cancel
          /\ jobs'[j].attempts = 0
          /\ jobs'[j].reworks = jobs[j].reworks + 1
       \/ /\ \/ jobs'[j].fabric_state = "ESCALATED"
             \/ /\ jobs[j].fabric_state = "HANDOFF_PENDING_REVIEW"
                /\ jobs'[j].fabric_state = "FAILED_SAFE"
             \/ /\ jobs[j].fabric_state = "QUARANTINED"
                /\ jobs'[j].fabric_state = "QUARANTINED"
          /\ jobs'[j].cancel = jobs[j].cancel
          /\ jobs'[j].attempts = jobs[j].attempts
          /\ jobs'[j].reworks = jobs[j].reworks

-----------------------------------------------------------------------------
(* Every step is one of the six kinds, for every job *)

RowKind(j) ==
    \/ Rests(j)
    \/ IsDirected(j)
    \/ IsClaimed(j)
    \/ IsReleased(j)
    \/ IsEnded(j)
    \/ IsReviewed(j)

\* A step that writes no book keeps those of every job.
LEMMA BooksKept ==
    ASSUME UNCHANGED << handoffs, reviews, operations >>, NEW j
    PROVE  KeepsBooks(j)
  BY DEF KeepsBooks, HandoffsOf, ReviewsOf, OperationsOf

\* A job whose row and books are kept rests.
LEMMA Untouched ==
    ASSUME NEW j, jobs'[j] = jobs[j], KeepsBooks(j)
    PROVE  Rests(j)
  BY DEF Rests, KeepsRound, KeepsBooks

\* The owner, the queue and cancel requests direct one job and leave the others.
LEMMA OwnerDirects ==
    ASSUME ClaimInv, NEW i \in Jobs, OwnerStep(i), NEW j \in Jobs
    PROVE  Rests(j) \/ IsDirected(j)
  <1>1. jobs[i] \in JobRow /\ DOMAIN jobs = Jobs /\ jobs[i].fence \in Nat
    BY DEF ClaimInv, TypeOK, JobRow
  <1>2. KeepsBooks(j)
    BY BooksKept DEF OwnerStep, Submit, ApproveJob, RevokeJob, RequestCancel
  <1>3. ASSUME jobs' = jobs PROVE Rests(j)
    BY <1>2, <1>3, Untouched
  <1>4. ASSUME NEW row, jobs' = [jobs EXCEPT ![i] = row], j # i PROVE Rests(j)
    BY <1>1, <1>2, <1>4, Untouched
  <1>5. CASE Submit(i)
    <2>1. PICK state \in {"QUEUED", "BLOCKED_OWNER"} :
             jobs' = [jobs EXCEPT ![i] =
                        [jobs[i] EXCEPT !.fabric_state = state,
                                        !.source_version = version]]
      BY <1>5 DEF Submit
    <2>2. CASE j = i
      <3>1. jobs[j].fabric_state = "ABSENT"
        BY <1>5, <2>2 DEF Submit
      <3>2. jobs'[j] = [jobs[j] EXCEPT !.fabric_state = state,
                                       !.source_version = version]
        BY <1>1, <2>1, <2>2
      <3>3. /\ KeepsRound(j)
            /\ jobs'[j].fabric_state = state
            /\ jobs'[j].fence = jobs[j].fence
            /\ jobs'[j].cancel = jobs[j].cancel
        BY <1>1, <2>2, <3>2 DEF KeepsRound, JobRow
      <3> QED BY <1>2, <3>1, <3>3 DEF IsDirected
    <2> QED BY <2>1, <2>2, <1>4
  <1>6. CASE ApproveJob(i)
    <2>1. CASE /\ jobs[i].fabric_state = "BLOCKED_OWNER" /\ ~jobs[i].cancel
               /\ j = i
      <3>1. jobs'[j] = [jobs[j] EXCEPT !.fabric_state = "QUEUED",
                                       !.delayed = FALSE]
        BY <1>1, <1>6, <2>1 DEF ApproveJob
      <3>2. /\ KeepsRound(j)
            /\ jobs'[j].fabric_state = "QUEUED"
            /\ jobs'[j].fence = jobs[j].fence
            /\ jobs'[j].cancel = jobs[j].cancel
        BY <1>1, <2>1, <3>1 DEF KeepsRound, JobRow
      <3> QED BY <1>2, <2>1, <3>2 DEF IsDirected
    <2>2. CASE jobs' = jobs
      BY <2>2, <1>3
    <2>3. CASE j # i
      BY <1>3, <1>4, <1>6, <2>3 DEF ApproveJob
    <2> QED BY <1>6, <2>1, <2>2, <2>3 DEF ApproveJob
  <1>7. CASE RevokeJob(i)
    <2>1. CASE j = i /\ Running(i)
      <3>1. jobs'[j] = [jobs[j] EXCEPT !.fabric_state = "CANCEL_REQUESTED",
                                       !.cancel = TRUE]
        BY <1>1, <1>7, <2>1 DEF RevokeJob
      <3>2. /\ KeepsRound(j)
            /\ jobs'[j].fabric_state = "CANCEL_REQUESTED"
            /\ jobs'[j].fence = jobs[j].fence
            /\ jobs'[j].cancel
        BY <1>1, <2>1, <3>1 DEF KeepsRound, JobRow
      <3> QED BY <1>2, <2>1, <3>2 DEF IsDirected
    <2>2. CASE j = i /\ ~Running(i)
      <3>1. /\ jobs'[j] = [jobs[j] EXCEPT !.fabric_state = "BLOCKED_OWNER"]
            /\ jobs[j].fabric_state # "ABSENT"
            /\ j \notin approved'
        BY <1>1, <1>7, <2>2 DEF RevokeJob
      <3>2. /\ KeepsRound(j)
            /\ jobs'[j].fabric_state = "BLOCKED_OWNER"
            /\ jobs'[j].fence = jobs[j].fence
            /\ jobs'[j].cancel = jobs[j].cancel
        BY <1>1, <2>2, <3>1 DEF KeepsRound, JobRow
      <3> QED BY <1>2, <2>2, <3>1, <3>2 DEF IsDirected
    <2>3. CASE j # i
      BY <1>4, <1>7, <2>3 DEF RevokeJob
    <2> QED BY <2>1, <2>2, <2>3
  <1>8. CASE RequestCancel(i)
    <2>1. CASE j = i /\ Running(i)
      <3>1. jobs'[j] = [jobs[j] EXCEPT !.fabric_state = "CANCEL_REQUESTED",
                                       !.cancel = TRUE]
        BY <1>1, <1>8, <2>1 DEF RequestCancel
      <3>2. /\ KeepsRound(j)
            /\ jobs'[j].fabric_state = "CANCEL_REQUESTED"
            /\ jobs'[j].fence = jobs[j].fence
            /\ jobs'[j].cancel
        BY <1>1, <2>1, <3>1 DEF KeepsRound, JobRow
      <3> QED BY <1>2, <2>1, <3>2 DEF IsDirected
    <2>2. CASE j = i /\ ~Running(i)
      <3>1. /\ jobs'[j] = [Disowned(jobs[j]) EXCEPT
                              !.fabric_state = "CANCELLED", !.cancel = TRUE]
            /\ jobs[j].fabric_state \notin BeyondCancel
        BY <1>1, <1>8, <2>2 DEF RequestCancel
      <3>2. /\ KeepsRound(j)
            /\ jobs'[j].fabric_state = "CANCELLED"
            /\ jobs'[j].fence = jobs[j].fence + 1
            /\ jobs'[j].cancel
        BY <1>1, <2>2, <3>1 DEF KeepsRound, Disowned, JobRow
      <3> QED BY <1>2, <2>2, <3>1, <3>2 DEF IsDirected
    <2>3. CASE j # i
      BY <1>4, <1>8, <2>3 DEF RequestCancel
    <2> QED BY <2>1, <2>2, <2>3
  <1> QED BY <1>5, <1>6, <1>7, <1>8 DEF OwnerStep

\* The sweep marks queued work of another version and touches nothing else.
LEMMA SweepDirects ==
    ASSUME ClaimInv, NEW j \in Jobs, jobs'[j] = StaleMarked[j], KeepsBooks(j)
    PROVE  Rests(j) \/ IsDirected(j)
  <1>1. jobs[j] \in JobRow
    BY DEF ClaimInv, TypeOK
  <1>2. CASE jobs'[j] = jobs[j]
    BY <1>2, Untouched
  <1>3. CASE /\ Queued(j)
             /\ jobs'[j] = [jobs[j] EXCEPT !.fabric_state = "STALE",
                                           !.delayed = FALSE]
    <2>1. /\ KeepsRound(j)
          /\ jobs'[j].fabric_state = "STALE"
          /\ jobs'[j].fence = jobs[j].fence
          /\ jobs'[j].cancel = jobs[j].cancel
      BY <1>1, <1>3 DEF KeepsRound, JobRow
    <2> QED BY <1>3, <2>1 DEF IsDirected
  <1> QED BY <1>2, <1>3 DEF StaleMarked

\* claim_next claims one job and sweeps the others.
LEMMA ClaimTakes ==
    ASSUME ClaimInv, NEW w \in Workers, NEW i \in Jobs, NEW locked,
           ClaimJob(w, i, locked), NEW j \in Jobs
    PROVE  RowKind(j)
  <1>1. KeepsBooks(j)
    BY BooksKept DEF ClaimJob
  <1>2. PICK s \in Seats :
           jobs' = [StaleMarked EXCEPT ![i] = Claimed(@, s, OwnerName[w])]
    BY DEF ClaimJob
  <1>3. DOMAIN StaleMarked = Jobs
    BY DEF StaleMarked
  <1>4. CASE j # i
    <2>1. jobs'[j] = StaleMarked[j]
      BY <1>2, <1>3, <1>4
    <2> QED BY <1>1, <2>1, SweepDirects DEF RowKind
  <1>5. CASE j = i
    <2>1. /\ Queued(j) /\ ~jobs[j].cancel
          /\ jobs[j].attempts < Envelope[j].max_attempts
          /\ jobs[j].source_version = version
      BY <1>5 DEF ClaimJob, Examined, Candidates
    <2>2. jobs'[j] = Claimed(jobs[j], s, OwnerName[w])
      <3>1. StaleMarked[j] = jobs[j]
        BY <2>1 DEF StaleMarked
      <3> QED BY <1>2, <1>3, <1>5, <3>1
    <2>3. jobs[j] \in JobRow
      BY DEF ClaimInv, TypeOK
    <2>4. /\ jobs'[j].fabric_state = "RUNNING"
          /\ jobs'[j].fence = jobs[j].fence + 1
          /\ jobs'[j].attempts = jobs[j].attempts + 1
          /\ jobs'[j].reworks = jobs[j].reworks
          /\ jobs'[j].cancel = jobs[j].cancel
          /\ jobs'[j].checkpoint_ref = jobs[j].checkpoint_ref
      BY <2>2, <2>3 DEF Claimed, JobRow
    <2> QED BY <1>1, <2>1, <2>4 DEF IsClaimed, RowKind
  <1> QED BY <1>4, <1>5
\* What the caller's claim is, in the two tables.
LEMMA CallerRuns ==
    ASSUME ClaimInv, NEW w \in Workers, WorkerCurrent(w)
    PROVE  /\ held[w].job \in Jobs
           /\ held[w].seat \in Seats
           /\ Running(held[w].job)
           /\ jobs[held[w].job].fence = held[w].fence
           /\ seats[held[w].seat].fence = held[w].seat_fence
           /\ seats[held[w].seat].state = "RUNNING"
  BY Fences DEF ClaimInv, FenceIdentifiesClaim, WorkerCurrent, SeatProves, JobProves

\* A handoff ends the caller's claim; every other job rests.
LEMMA ReleaseReleases ==
    ASSUME ClaimInv, NEW w \in Workers,
           NEW p \in {"NONE", "UNCERTAIN_PARTIAL"}, ReleaseForReview(w, p),
           NEW j \in Jobs
    PROVE  RowKind(j)
  <1> DEFINE i == held[w].job
             h == [ job |-> i, fence |-> held[w].fence, seat |-> held[w].seat,
                    seat_fence |-> held[w].seat_fence, worker |-> OwnerName[w],
                    partial |-> p ]
  <1>1. i \in Jobs /\ Running(i) /\ jobs[i].fence = held[w].fence
    BY CallerRuns DEF ReleaseForReview
  <1>2. handoffs' = handoffs \cup {h} /\ UNCHANGED << reviews, operations >>
    BY DEF ReleaseForReview
  <1>3. h.job = i /\ h.fence = jobs[i].fence
    BY <1>1
  <1>4. PICK state \in {"QUARANTINED", "HANDOFF_PENDING_REVIEW"} :
           /\ jobs' = [jobs EXCEPT ![i] =
                         [Disowned(jobs[i]) EXCEPT
                            !.fabric_state = state,
                            !.checkpoint_ref = held[w].fence]]
           /\ state = "HANDOFF_PENDING_REVIEW" => ~Contaminated(i, p)
    BY DEF ReleaseForReview
  <1>5. jobs[j] \in JobRow /\ DOMAIN jobs = Jobs
    BY DEF ClaimInv, TypeOK
  <1> HIDE DEF i, h
  <1>6. CASE j # i
    <2>1. jobs'[j] = jobs[j]
      BY <1>4, <1>5, <1>6
    <2>2. KeepsBooks(j)
      BY <1>2, <1>3, <1>6 DEF KeepsBooks, HandoffsOf, ReviewsOf, OperationsOf
    <2> QED BY <2>1, <2>2, Untouched DEF RowKind
  <1>7. CASE j = i
    <2>1. jobs'[j] = [Disowned(jobs[j]) EXCEPT !.fabric_state = state,
                                              !.checkpoint_ref = held[w].fence]
      BY <1>4, <1>5, <1>7
    <2>2. /\ jobs'[j].fabric_state = state
          /\ jobs'[j].fence = jobs[j].fence + 1
          /\ jobs'[j].attempts = jobs[j].attempts
          /\ jobs'[j].reworks = jobs[j].reworks
          /\ jobs'[j].cancel = jobs[j].cancel
          /\ jobs'[j].checkpoint_ref = jobs[j].fence
      BY <1>1, <1>5, <1>7, <2>1 DEF Disowned, JobRow
    <2>3. state = "HANDOFF_PENDING_REVIEW" =>
            jobs[j].fabric_state = "RUNNING" /\ ~Unresolved(j)
      BY <1>1, <1>4, <1>7 DEF Contaminated, Running
    <2>4. HandoffsOf(j)' = HandoffsOf(j) \cup {h}
      BY <1>2, <1>3, <1>7 DEF HandoffsOf
    <2>5. ReviewsOf(j)' = ReviewsOf(j) /\ OperationsOf(j)' = OperationsOf(j)
      BY <1>2 DEF ReviewsOf, OperationsOf
    <2>6. h \in handoffs'
      BY <1>2
    <2> QED BY <1>1, <1>3, <1>7, <2>2, <2>3, <2>4, <2>5, <2>6
            DEF IsReleased, RowKind
  <1> QED BY <1>6, <1>7

\* A cancel acknowledged, a retry and a quarantine end the caller's claim.
LEMMA RemedyEnds ==
    ASSUME ClaimInv, NEW w \in Workers,
           AcknowledgeCancel(w) \/ SafeRetry(w) \/ QuarantineCurrent(w),
           NEW j \in Jobs
    PROVE  RowKind(j)
  <1> DEFINE i == held[w].job
  <1>1. i \in Jobs /\ Running(i)
    BY CallerRuns DEF AcknowledgeCancel, SafeRetry, QuarantineCurrent
  <1>2. UNCHANGED << handoffs, reviews, operations >>
    BY DEF AcknowledgeCancel, SafeRetry, QuarantineCurrent
  <1>3. KeepsBooks(j)
    BY <1>2, BooksKept
  <1>4. PICK state, row :
           /\ \/ state = "QUARANTINED"
              \/ state = "CANCELLED" /\ ~Unresolved(i)
              \/ state = "QUEUED" /\ ~jobs[i].cancel /\ ~Unresolved(i)
           /\ \/ row = [Disowned(jobs[i]) EXCEPT !.fabric_state = state]
              \/ row = [Disowned(jobs[i]) EXCEPT !.fabric_state = state,
                                                 !.delayed = TRUE]
           /\ jobs' = [jobs EXCEPT ![i] = row]
    <2>1. CASE AcknowledgeCancel(w)
      <3>1. PICK state : 
              /\ \/ state = "QUARANTINED"
                 \/ state = "CANCELLED" /\ ~Unresolved(i)
              /\ jobs' = [jobs EXCEPT ![i] =
                            [Disowned(jobs[i]) EXCEPT !.fabric_state = state]]
        BY <2>1 DEF AcknowledgeCancel
      <3> QED BY <3>1
    <2>2. CASE SafeRetry(w)
      <3>1. /\ ~jobs[i].cancel /\ ~Unresolved(i)
            /\ jobs' = [jobs EXCEPT ![i] =
                          [Disowned(jobs[i]) EXCEPT !.fabric_state = "QUEUED",
                                                    !.delayed = TRUE]]
        BY <2>2 DEF SafeRetry
      <3> QED BY <3>1
    <2>3. CASE QuarantineCurrent(w)
      <3>1. jobs' = [jobs EXCEPT ![i] =
                       [Disowned(jobs[i]) EXCEPT !.fabric_state = "QUARANTINED"]]
        BY <2>3 DEF QuarantineCurrent
      <3> QED BY <3>1
    <2> QED BY <2>1, <2>2, <2>3
  <1>5. jobs[j] \in JobRow /\ DOMAIN jobs = Jobs
    BY DEF ClaimInv, TypeOK
  <1> HIDE DEF i
  <1>6. CASE j # i
    <2>1. jobs'[j] = jobs[j]
      BY <1>4, <1>5, <1>6
    <2> QED BY <1>3, <2>1, Untouched DEF RowKind
  <1>7. CASE j = i
    <2>1. \/ jobs'[j] = [Disowned(jobs[j]) EXCEPT !.fabric_state = state,
                                                 !.delayed = TRUE]
          \/ jobs'[j] = [Disowned(jobs[j]) EXCEPT !.fabric_state = state]
      BY <1>4, <1>5, <1>7
    <2>2. /\ jobs'[j].fabric_state = state
          /\ jobs'[j].fence = jobs[j].fence + 1
          /\ jobs'[j].cancel = jobs[j].cancel
          /\ KeepsRound(j)
      BY <1>5, <2>1 DEF Disowned, JobRow, KeepsRound
    <2> QED BY <1>1, <1>3, <1>4, <1>7, <2>2 DEF IsEnded, RowKind
  <1> QED BY <1>6, <1>7

\* Reconciliation ends the claims of the lapsed seats' jobs.
LEMMA ReconcileEnds ==
    ASSUME ClaimInv, ReconcileExpiredLeases, NEW j \in Jobs
    PROVE  RowKind(j)
  <1>1. KeepsBooks(j)
    BY BooksKept DEF ReconcileExpiredLeases
  <1>2. CASE j \notin LapsedJobs
    <2>1. jobs'[j] = jobs[j]
      BY <1>2 DEF ReconcileExpiredLeases
    <2> QED BY <1>1, <2>1, Untouched DEF RowKind
  <1>3. CASE j \in LapsedJobs
    <2>1. Running(j)
      BY <1>3 DEF LapsedJobs, LapsedSeats, ClaimInv, SeatJobAgreement
    <2>2. jobs[j] \in JobRow
      BY DEF ClaimInv, TypeOK
    <2>3. PICK state \in FabricStates, b \in BOOLEAN :
             /\ \/ state \in {"QUARANTINED", "STALE"}
                \/ state = "CANCELLED" /\ ~Unresolved(j)
                \/ /\ state \in {"QUEUED", "FAILED_SAFE"}
                   /\ ~jobs[j].cancel
                   /\ ~Unresolved(j)
             /\ jobs'[j] = [Disowned(jobs[j]) EXCEPT !.fabric_state = state,
                                                     !.delayed = b]
      <3>1. jobs'[j] = Recovered(j)
        BY <1>3 DEF ReconcileExpiredLeases
      <3> DEFINE Ended(state, b) ==
                   [Disowned(jobs[j]) EXCEPT !.fabric_state = state,
                                             !.delayed = b]
      <3>2. \/ Recovered(j) = Ended("STALE", FALSE)
            \/ Recovered(j) = Ended("QUARANTINED", FALSE)
            \/ Recovered(j) = Ended("CANCELLED", FALSE) /\ ~Unresolved(j)
            \/ /\ \/ Recovered(j) = Ended("QUEUED", TRUE)
                  \/ Recovered(j) = Ended("FAILED_SAFE", FALSE)
               /\ ~jobs[j].cancel
               /\ ~Unresolved(j)
        BY DEF Recovered
      <3>3. \E state \in FabricStates, b \in BOOLEAN :
               /\ \/ state \in {"QUARANTINED", "STALE"}
                  \/ state = "CANCELLED" /\ ~Unresolved(j)
                  \/ /\ state \in {"QUEUED", "FAILED_SAFE"}
                     /\ ~jobs[j].cancel
                     /\ ~Unresolved(j)
               /\ jobs'[j] = Ended(state, b)
        <4> HIDE DEF Ended
        <4> QED BY <3>1, <3>2 DEF FabricStates
      <3> QED BY <3>3
    <2>4. /\ jobs'[j].fabric_state = state
          /\ jobs'[j].fence = jobs[j].fence + 1
          /\ jobs'[j].cancel = jobs[j].cancel
          /\ KeepsRound(j)
      BY <2>2, <2>3 DEF Disowned, JobRow, KeepsRound
    <2> QED BY <1>1, <2>1, <2>3, <2>4 DEF IsEnded, RowKind
  <1> QED BY <1>2, <1>3

\* Heartbeats and clocks write columns that no state depends on.
LEMMA LeaseAndDelayRest ==
    ASSUME ClaimInv, NEW j \in Jobs, KeepsBooks(j),
           \/ \E i \in Jobs : \E lease : jobs' = [jobs EXCEPT ![i].lease = lease]
           \/ \E i \in Jobs : jobs' = [jobs EXCEPT ![i].delayed = FALSE]
    PROVE  Rests(j)
  <1>1. jobs[j] \in JobRow /\ DOMAIN jobs = Jobs
    BY DEF ClaimInv, TypeOK
  <1>2. /\ KeepsRound(j)
        /\ jobs'[j].fabric_state = jobs[j].fabric_state
        /\ jobs'[j].fence = jobs[j].fence
        /\ jobs'[j].cancel = jobs[j].cancel
    BY <1>1 DEF KeepsRound, JobRow
  <1> QED BY <1>2 DEF Rests, KeepsBooks

\* An operation is written for a running job, by the thread that runs it, or
\* for a quarantined one.
LEMMA JournalRests ==
    ASSUME ClaimInv, NEW j \in Jobs,
           \/ \E w \in Workers : PrepareOperation(w)
           \/ \E w \in Workers, target \in OperationTargets :
                 TransitionOperation(w, target)
           \/ \E o \in operations, target \in OperationTargets :
                 SettleOperation(o, target)
    PROVE  Rests(j)
  <1>1. UNCHANGED << jobs, handoffs, reviews >>
    BY DEF PrepareOperation, TransitionOperation, SettleOperation
  <1>2. ASSUME NEW w \in Workers, JournalFence(w)
        PROVE  held[w].job \in Jobs /\ Running(held[w].job)
    <2>1. Holds(w) /\ held[w].fence = jobs[held[w].job].fence
      BY <1>2 DEF JournalFence
    <2> QED BY <2>1, Fences DEF ClaimInv, FenceIdentifiesClaim
  <1>3. ASSUME NEW i \in Jobs, j # i,
               NEW old, old \subseteq operations, \A o \in old : o.job = i,
               NEW new, new.job = i,
               operations' = (operations \ old) \cup {new}
        PROVE  OperationsOf(j)' = OperationsOf(j)
    BY <1>3 DEF OperationsOf
  <1>4. OperationsOf(j)' # OperationsOf(j) =>
          Running(j) \/ jobs[j].fabric_state = "QUARANTINED"
    <2>1. ASSUME NEW w \in Workers, PrepareOperation(w)
          PROVE  OperationsOf(j)' = OperationsOf(j) \/ Running(j)
      <3>1. held[w].job \in Jobs /\ Running(held[w].job)
        BY <1>2, <2>1 DEF PrepareOperation
      <3>2. PICK new : /\ new.job = held[w].job
                       /\ operations' = (operations \ {}) \cup {new}
        BY <2>1 DEF PrepareOperation
      <3> QED BY <1>3, <3>1, <3>2
    <2>2. ASSUME NEW w \in Workers, NEW target \in OperationTargets,
                 TransitionOperation(w, target)
          PROVE  OperationsOf(j)' = OperationsOf(j) \/ Running(j)
      <3>1. held[w].job \in Jobs /\ Running(held[w].job)
        BY <1>2, <2>2 DEF TransitionOperation
      <3>2. PICK o \in operations :
               /\ o.job = held[w].job
               /\ operations' = (operations \ {o}) \cup
                                  {[o EXCEPT !.status = target]}
        BY <2>2 DEF TransitionOperation
      <3>3. [o EXCEPT !.status = target].job = o.job
        BY DEF ClaimInv, TypeOK, Operation
      <3> QED BY <1>3, <3>1, <3>2, <3>3
    <2>3. ASSUME NEW o \in operations, NEW target \in OperationTargets,
                 SettleOperation(o, target)
          PROVE  \/ OperationsOf(j)' = OperationsOf(j)
                 \/ jobs[j].fabric_state = "QUARANTINED"
      <3>1. /\ o.job \in Jobs
            /\ [o EXCEPT !.status = target].job = o.job
        BY DEF ClaimInv, TypeOK, Operation
      <3>2. /\ jobs[o.job].fabric_state = "QUARANTINED"
            /\ operations' = (operations \ {o}) \cup
                               {[o EXCEPT !.status = target]}
        BY <2>3 DEF SettleOperation
      <3> QED BY <1>3, <3>1, <3>2
    <2> QED BY <2>1, <2>2, <2>3
  <1> QED BY <1>1, <1>4 DEF Rests, KeepsRound, HandoffsOf, ReviewsOf

\* A review decides one job and leaves the others.
LEMMA ReviewReviews ==
    ASSUME ClaimInv, NEW c \in Controllers, NEW h \in handoffs,
           NEW d \in Decisions, NEW b \in BOOLEAN, ReviewHandoff(c, h, d, b),
           NEW j \in Jobs
    PROVE  RowKind(j)
  <1> DEFINE i == h.job
             r == [ job |-> i, fence |-> h.fence, decision |-> d,
                    owner |-> OwnerName[c], leader_fence |-> mandate[c] ]
  <1>1. /\ i \in Jobs /\ jobs[j] \in JobRow /\ DOMAIN jobs = Jobs
        /\ jobs[i] \in JobRow
    BY DEF ClaimInv, TypeOK, Handoff
  <1>2. reviews' = reviews \cup {r} /\ UNCHANGED << handoffs, operations >>
    BY DEF ReviewHandoff
  <1>3. /\ r.job = i /\ r.fence = h.fence /\ r.decision = d
        /\ r.owner # h.worker
    BY DEF ReviewHandoff, Independent
  <1>4. /\ jobs[i].fabric_state \in {"HANDOFF_PENDING_REVIEW", "QUARANTINED"}
        /\ jobs[i].checkpoint_ref = h.fence
        /\ ~\E q \in reviews : q.job = i /\ q.fence = h.fence
        /\ d \in {"ACCEPT", "REWORK"} =>
             /\ ~jobs[i].cancel
             /\ jobs[i].fabric_state = "QUARANTINED" => ~Unresolved(i)
    BY DEF ReviewHandoff, Unreviewed, Reviewable, MayProceed
  <1>5. jobs' = [jobs EXCEPT ![i] =
                   IF d = "REWORK" THEN Reworked(jobs[i])
                   ELSE [jobs[i] EXCEPT !.fabric_state = ReviewTarget(i, d)]]
    BY DEF ReviewHandoff
  <1>6. CASE j # i
    <2>1. jobs'[j] = jobs[j]
      BY <1>1, <1>5, <1>6
    <2>2. KeepsBooks(j)
      BY <1>2, <1>3, <1>6 DEF KeepsBooks, HandoffsOf, ReviewsOf, OperationsOf
    <2> QED BY <2>1, <2>2, Untouched DEF RowKind
  <1>7. CASE j = i
    <2>1. /\ HandoffsOf(j)' = HandoffsOf(j)
          /\ OperationsOf(j)' = OperationsOf(j)
          /\ ReviewsOf(j)' = ReviewsOf(j) \cup {r}
          /\ r \in reviews'
      BY <1>2, <1>3, <1>7 DEF HandoffsOf, ReviewsOf, OperationsOf
    <2> HIDE DEF r
    <2>2. CASE d = "REWORK"
      <3>1. jobs'[j] = Reworked(jobs[j])
        BY <1>1, <1>5, <1>7, <2>2
      <3>2. /\ jobs'[j].fabric_state = "REWORK_QUEUED"
            /\ ~jobs'[j].cancel
            /\ jobs'[j].attempts = 0
            /\ jobs'[j].reworks = jobs[j].reworks + 1
            /\ jobs'[j].fence = jobs[j].fence
            /\ jobs'[j].checkpoint_ref = jobs[j].checkpoint_ref
        BY <1>1, <3>1 DEF Reworked, JobRow
      <3> QED BY <1>3, <1>4, <1>7, <2>1, <2>2, <3>2 DEF IsReviewed, RowKind
    <2>3. CASE d # "REWORK"
      <3> DEFINE target == ReviewTarget(i, d)
      <3>1. jobs'[j] = [jobs[j] EXCEPT !.fabric_state = target]
        BY <1>1, <1>5, <1>7, <2>3
      <3>2. \/ d = "ACCEPT" /\ target = "SUCCEEDED"
            \/ target = "ESCALATED"
            \/ /\ jobs[i].fabric_state = "QUARANTINED"
               /\ target = "QUARANTINED"
            \/ /\ jobs[i].fabric_state = "HANDOFF_PENDING_REVIEW"
               /\ target = "FAILED_SAFE"
        BY <1>4, <2>3 DEF ReviewTarget, Decisions
      <3>4. target = "SUCCEEDED" <=> d = "ACCEPT"
        BY <1>4, <2>3 DEF ReviewTarget, Decisions
      <3> HIDE DEF target
      <3>3. /\ jobs'[j].fabric_state = target
            /\ jobs'[j].cancel = jobs[j].cancel
            /\ jobs'[j].attempts = jobs[j].attempts
            /\ jobs'[j].reworks = jobs[j].reworks
            /\ jobs'[j].fence = jobs[j].fence
            /\ jobs'[j].checkpoint_ref = jobs[j].checkpoint_ref
        BY <1>1, <3>1 DEF JobRow
      <3> QED BY <1>3, <1>4, <1>7, <2>1, <3>2, <3>3, <3>4
              DEF IsReviewed, RowKind
    <2> QED BY <2>2, <2>3
  <1> QED BY <1>6, <1>7

\* Every step of the fabric is one of the six kinds for each job.
LEMMA RowStep ==
    ASSUME ClaimInv, [Next]_vars, NEW j \in Jobs
    PROVE  RowKind(j)
  <1>same. ASSUME UNCHANGED << jobs, handoffs, reviews, operations >>
           PROVE  RowKind(j)
    BY <1>same, BooksKept, Untouched DEF RowKind
  <1>1. ASSUME NEW w \in Workers, WorkerStep(w) PROVE RowKind(j)
    <2>1. ASSUME NEW locked, ClaimNext(w, locked) PROVE RowKind(j)
      <3>1. ASSUME NEW i \in Jobs, ClaimJob(w, i, locked) PROVE RowKind(j)
        BY <3>1, ClaimTakes
      <3>2. CASE ClaimNothing(w, locked)
        BY <3>2, BooksKept, SweepDirects DEF ClaimNothing, RowKind
      <3> QED BY <2>1, <3>1, <3>2 DEF ClaimNext
    <2>2. CASE Heartbeat(w)
      <3>1. held[w].job \in Jobs /\ KeepsBooks(j)
        BY <2>2, CallerRuns, BooksKept DEF Heartbeat
      <3> QED BY <2>2, <3>1, LeaseAndDelayRest DEF Heartbeat, RowKind
    <2>3. ASSUME NEW p \in {"NONE", "UNCERTAIN_PARTIAL"}, ReleaseForReview(w, p)
          PROVE  RowKind(j)
      BY <2>3, ReleaseReleases
    <2>4. CASE AcknowledgeCancel(w) \/ SafeRetry(w) \/ QuarantineCurrent(w)
      BY <2>4, RemedyEnds
    <2>5. CASE \/ DropToken(w)
               \/ RecordAdapterFailure(w)
               \/ RecordAdapterSuccess(w)
      BY <2>5, <1>same
         DEF DropToken, RecordAdapterFailure, RecordAdapterSuccess
    <2>6. CASE \/ PrepareOperation(w)
               \/ \E target \in OperationTargets :
                     TransitionOperation(w, target)
      BY <2>6, JournalRests DEF RowKind
    <2> QED BY <1>1, <2>1, <2>2, <2>3, <2>4, <2>5, <2>6 DEF WorkerStep
  <1>2. ASSUME NEW c \in Controllers, WatchStep(c) PROVE RowKind(j)
    <2>1. CASE ClaimLeader(c) \/ HeartbeatLeader(c) \/ ReleaseLeader(c)
      BY <2>1, <1>same DEF ClaimLeader, HeartbeatLeader, ReleaseLeader
    <2> QED BY <1>2, <2>1, ReviewReviews DEF WatchStep
  <1>3. ASSUME NEW i \in Jobs, OwnerStep(i) PROVE RowKind(j)
    BY <1>3, OwnerDirects DEF RowKind
  <1>4. ASSUME NEW v \in 1 .. MaxVersion, SetSharedStateVersion(v)
        PROVE  RowKind(j)
    BY <1>4, <1>same DEF SetSharedStateVersion
  <1>5. ASSUME NEW o \in operations, NEW target \in OperationTargets,
               SettleOperation(o, target)
        PROVE  RowKind(j)
    BY <1>5, JournalRests DEF RowKind
  <1>6. CASE ReconcileExpiredLeases
    BY <1>6, ReconcileEnds
  <1>7. CASE ClockStep
    <2>1. ASSUME NEW s \in Seats, LapseLease(s) PROVE RowKind(j)
      <3>1. seats[s].current_job \in Jobs /\ KeepsBooks(j)
        BY <2>1, BooksKept DEF LapseLease, ClaimInv, SeatJobAgreement
      <3> QED BY <2>1, <3>1, LeaseAndDelayRest DEF LapseLease, RowKind
    <2>2. ASSUME NEW i \in Jobs, RetryDelayElapses(i) PROVE RowKind(j)
      <3>1. KeepsBooks(j)
        BY <2>2, BooksKept DEF RetryDelayElapses
      <3> QED BY <2>2, <3>1, LeaseAndDelayRest DEF RetryDelayElapses, RowKind
    <2>3. ASSUME \/ LapseLeader
                 \/ \E i \in Jobs : ApprovalExpires(i) \/ DeadlinePasses(i)
                 \/ \E k \in Kinds : CooldownElapses(k)
          PROVE  RowKind(j)
      BY <2>3, <1>same DEF LapseLeader, ApprovalExpires, DeadlinePasses,
                           CooldownElapses
    <2> QED BY <1>7, <2>1, <2>2, <2>3 DEF ClockStep
  <1>8. CASE UNCHANGED vars
    BY <1>8, <1>same DEF vars
  <1> QED BY <1>1, <1>2, <1>3, <1>4, <1>5, <1>6, <1>7, <1>8 DEF Next
-----------------------------------------------------------------------------
(* The inductive invariant, job by job *)

\* Handoffs and reviews speak of claims that are over, and a claim has at most
\* one handoff.
LedgerIsBehind(j) ==
    /\ \A h \in HandoffsOf(j) : h.fence < jobs[j].fence
    /\ \A r \in ReviewsOf(j) : r.fence < jobs[j].fence
    /\ \A g, h \in HandoffsOf(j) : g.fence = h.fence => g = h

\* Work that is taken up or reviewed after a decision left nothing in flight.
WaitingIsSettled(j) ==
    jobs[j].fabric_state \in
        {"ABSENT", "HANDOFF_PENDING_REVIEW", "SUCCEEDED", "REWORK_QUEUED"}
    => ~Unresolved(j)

\* PendingIsReviewable, SucceededWasAccepted and CancelIsFinal, for one job.
Offered(j) ==
    jobs[j].fabric_state = "HANDOFF_PENDING_REVIEW" =>
        /\ \E h \in HandoffsOf(j) : h.fence = jobs[j].checkpoint_ref
        /\ jobs[j].fence = jobs[j].checkpoint_ref + 1
        /\ ~\E r \in ReviewsOf(j) : r.fence = jobs[j].checkpoint_ref

Accepted(j) ==
    jobs[j].fabric_state = "SUCCEEDED" =>
        \E r \in ReviewsOf(j), h \in HandoffsOf(j) :
            /\ r.fence = jobs[j].checkpoint_ref
            /\ h.fence = jobs[j].checkpoint_ref
            /\ r.decision = "ACCEPT"
            /\ r.owner # h.worker

CancelHolds(j) ==
    jobs[j].cancel =>
        jobs[j].fabric_state \in
            { "CANCEL_REQUESTED", "CANCELLED", "QUARANTINED", "STALE",
              "BLOCKED_OWNER", "ESCALATED" }

\* Every handoff used up an attempt of some round, and a running claim has
\* used up one that has brought no handoff yet.
AttemptsCover(j) ==
    LET due == Cardinality(HandoffsOf(j)) + (IF Running(j) THEN 1 ELSE 0) IN
    /\ jobs[j].attempts <= Envelope[j].max_attempts
    /\ IsFiniteSet(HandoffsOf(j))
    /\ due <= Envelope[j].max_attempts * jobs[j].reworks + jobs[j].attempts

JobInv(j) ==
    /\ LedgerIsBehind(j)
    /\ WaitingIsSettled(j)
    /\ Offered(j)
    /\ Accepted(j)
    /\ CancelHolds(j)
    /\ AttemptsCover(j)

LifecycleInv == \A j \in Jobs : JobInv(j)

\* The rows of one job, and what the types say of them.
LEMMA RowTypes ==
    ASSUME TypeOK, NEW j \in Jobs
    PROVE  /\ jobs[j].fence \in Nat /\ jobs[j].attempts \in Nat
           /\ jobs[j].reworks \in Nat /\ jobs[j].checkpoint_ref \in Nat
           /\ jobs[j].cancel \in BOOLEAN
           /\ Envelope[j].max_attempts \in Nat \ {0}
           /\ \A h \in HandoffsOf(j) : h.fence \in Nat
           /\ \A r \in ReviewsOf(j) : r.fence \in Nat
  <1>1. jobs[j] \in JobRow
    BY DEF TypeOK
  <1>2. Envelope[j].max_attempts \in Nat \ {0}
    BY EnvelopeFields DEF EnvelopeType
  <1> QED BY <1>1, <1>2 DEF JobRow, TypeOK, HandoffsOf, ReviewsOf, Handoff, Review

\* What is in flight depends on the operations of the job only.
LEMMA UnresolvedOfJob ==
    ASSUME NEW j, OperationsOf(j)' = OperationsOf(j)
    PROVE  Unresolved(j)' <=> Unresolved(j)
  <1>1. Unresolved(j) <=> \E o \in OperationsOf(j) : o.status \in UnresolvedStatuses
    BY DEF Unresolved, OperationsOf
  <1>2. Unresolved(j)' <=> \E o \in OperationsOf(j)' : o.status \in UnresolvedStatuses
    BY DEF Unresolved, OperationsOf
  <1> QED BY <1>1, <1>2

\* A fence grows with every claim and every end of one, so what is on file
\* stays behind it.
LEMMA LedgerStep ==
    ASSUME TypeOK, TypeOK', NEW j \in Jobs, JobInv(j), RowKind(j)
    PROVE  LedgerIsBehind(j)'
  <1>1. /\ jobs[j].fence \in Nat /\ jobs'[j].fence \in Nat
        /\ \A h \in HandoffsOf(j) : h.fence \in Nat
        /\ \A r \in ReviewsOf(j) : r.fence \in Nat
    BY RowTypes DEF TypeOK, JobRow
  <1>2. LedgerIsBehind(j)
    BY DEF JobInv
  <1>3. CASE Rests(j)
    BY <1>2, <1>3 DEF Rests, LedgerIsBehind
  <1>4. CASE IsDirected(j)
    BY <1>1, <1>2, <1>4 DEF IsDirected, KeepsBooks, LedgerIsBehind
  <1>5. CASE IsClaimed(j)
    BY <1>1, <1>2, <1>5 DEF IsClaimed, KeepsBooks, LedgerIsBehind
  <1>6. CASE IsReleased(j)
    BY <1>1, <1>2, <1>6 DEF IsReleased, LedgerIsBehind
  <1>7. CASE IsEnded(j)
    BY <1>1, <1>2, <1>7 DEF IsEnded, KeepsBooks, LedgerIsBehind
  <1>8. CASE IsReviewed(j)
    <2>1. PICK h \in handoffs, r \in reviews' :
             /\ h.job = j /\ h.fence = jobs[j].checkpoint_ref
             /\ r.job = j /\ r.fence = jobs[j].checkpoint_ref
             /\ ReviewsOf(j)' = ReviewsOf(j) \cup {r}
      BY <1>8 DEF IsReviewed
    <2>2. h \in HandoffsOf(j)
      BY <2>1 DEF HandoffsOf
    <2>3. /\ HandoffsOf(j)' = HandoffsOf(j)
          /\ jobs'[j].fence = jobs[j].fence
      BY <1>8 DEF IsReviewed
    <2> QED BY <1>2, <2>1, <2>2, <2>3 DEF LedgerIsBehind
  <1> QED BY <1>3, <1>4, <1>5, <1>6, <1>7, <1>8 DEF RowKind

\* A job is settled when it starts to wait, and nobody journals for it while
\* it does.
LEMMA SettledStep ==
    ASSUME TypeOK, TypeOK', NEW j \in Jobs, JobInv(j), RowKind(j)
    PROVE  WaitingIsSettled(j)'
  <1>1. WaitingIsSettled(j)
    BY DEF JobInv
  <1>2. CASE Rests(j)
    BY <1>1, <1>2, UnresolvedOfJob DEF Rests, WaitingIsSettled, Running
  <1>3. CASE IsDirected(j) \/ IsClaimed(j)
    BY <1>3 DEF IsDirected, IsClaimed, WaitingIsSettled
  <1>4. CASE IsReleased(j)
    BY <1>4, UnresolvedOfJob DEF IsReleased, WaitingIsSettled
  <1>5. CASE IsEnded(j)
    BY <1>5 DEF IsEnded, WaitingIsSettled
  <1>6. CASE IsReviewed(j)
    BY <1>1, <1>6, UnresolvedOfJob DEF IsReviewed, WaitingIsSettled
  <1> QED BY <1>2, <1>3, <1>4, <1>5, <1>6 DEF RowKind

\* Only a handoff makes a job wait for WATCH, and the decision ends its waiting.
LEMMA PendingStep ==
    ASSUME TypeOK, TypeOK', NEW j \in Jobs, JobInv(j), RowKind(j)
    PROVE  Offered(j)'
  <1>1. Offered(j) /\ LedgerIsBehind(j)
    BY DEF JobInv
  <1>2. CASE Rests(j)
    BY <1>1, <1>2 DEF Rests, KeepsRound, Offered
  <1>3. CASE IsDirected(j) \/ IsClaimed(j) \/ IsEnded(j) \/ IsReviewed(j)
    BY <1>3 DEF IsDirected, IsClaimed, IsEnded, IsReviewed, Offered
  <1>4. CASE IsReleased(j)
    <2>1. jobs[j].fence \in Nat /\ \A r \in ReviewsOf(j) : r.fence \in Nat
      BY RowTypes
    <2> QED BY <1>1, <1>4, <2>1 DEF IsReleased, Offered, LedgerIsBehind
  <1> QED BY <1>2, <1>3, <1>4 DEF RowKind

\* Only an ACCEPT makes a job succeed; what it rests on is never taken away.
LEMMA AcceptedStep ==
    ASSUME TypeOK, TypeOK', NEW j \in Jobs, JobInv(j), RowKind(j)
    PROVE  Accepted(j)'
  <1>1. Accepted(j)
    BY DEF JobInv
  <1>2. CASE Rests(j)
    BY <1>1, <1>2 DEF Rests, KeepsRound, Accepted
  <1>3. CASE IsDirected(j) \/ IsClaimed(j) \/ IsEnded(j) \/ IsReleased(j)
    BY <1>3 DEF IsDirected, IsClaimed, IsEnded, IsReleased, Accepted
  <1>4. CASE IsReviewed(j)
    <2>1. PICK h \in handoffs, r \in reviews' :
             /\ h.job = j /\ h.fence = jobs[j].checkpoint_ref
             /\ r.job = j /\ r.fence = jobs[j].checkpoint_ref
             /\ r.owner # h.worker
             /\ ReviewsOf(j)' = ReviewsOf(j) \cup {r}
             /\ jobs'[j].fabric_state = "SUCCEEDED" => r.decision = "ACCEPT"
      BY <1>4 DEF IsReviewed
    <2>2. h \in HandoffsOf(j)' /\ r \in ReviewsOf(j)'
      BY <1>4, <2>1 DEF IsReviewed, HandoffsOf
    <2>3. jobs'[j].checkpoint_ref = jobs[j].checkpoint_ref
      BY <1>4 DEF IsReviewed
    <2> QED BY <2>1, <2>2, <2>3 DEF Accepted
  <1> QED BY <1>2, <1>3, <1>4 DEF RowKind

\* A cancel survives everything but a REWORK decision, which needs a job
\* without one.
LEMMA CancelStep ==
    ASSUME TypeOK, TypeOK', NEW j \in Jobs, JobInv(j), RowKind(j)
    PROVE  CancelHolds(j)'
  <1>1. CancelHolds(j)
    BY DEF JobInv
  <1>2. CASE Rests(j)
    BY <1>1, <1>2 DEF Rests, CancelHolds
  <1>3. CASE IsDirected(j)
    BY <1>1, <1>3 DEF IsDirected, CancelHolds, Queued
  <1>4. CASE IsClaimed(j)
    BY <1>4 DEF IsClaimed, CancelHolds
  <1>5. CASE IsReleased(j)
    BY <1>1, <1>5 DEF IsReleased, CancelHolds
  <1>6. CASE IsEnded(j)
    BY <1>1, <1>6 DEF IsEnded, CancelHolds
  <1>7. CASE IsReviewed(j)
    BY <1>1, <1>7 DEF IsReviewed, CancelHolds
  <1> QED BY <1>2, <1>3, <1>4, <1>5, <1>6, <1>7 DEF RowKind
\* A new round adds max_attempts to the budget.
LEMMA RoundsAdd ==
    ASSUME NEW m \in Nat, NEW n \in Nat
    PROVE  /\ m * (n + 1) = m * n + m
           /\ m * n \in Nat
  OBVIOUS

\* An attempt is used up before each handoff and at most max_attempts are in a
\* round, so handoffs never outrun attempts.
LEMMA AttemptsStep ==
    ASSUME TypeOK, TypeOK', NEW j \in Jobs, JobInv(j), RowKind(j)
    PROVE  AttemptsCover(j)'
  <1> DEFINE max == Envelope[j].max_attempts
             n == Cardinality(HandoffsOf(j))
             running == IF Running(j) THEN 1 ELSE 0
  <1>1. /\ max \in Nat \ {0}
        /\ jobs[j].attempts \in Nat
        /\ jobs[j].reworks \in Nat
        /\ max * jobs[j].reworks \in Nat
    <2>1. max \in Nat \ {0} /\ jobs[j].attempts \in Nat /\ jobs[j].reworks \in Nat
      BY RowTypes
    <2> QED BY <2>1, RoundsAdd
  <1>2. /\ jobs[j].attempts <= max
        /\ IsFiniteSet(HandoffsOf(j))
        /\ n \in Nat
        /\ n + running <= max * jobs[j].reworks + jobs[j].attempts
    BY FS_CardinalityType DEF JobInv, AttemptsCover
  <1>same. ASSUME HandoffsOf(j)' = HandoffsOf(j),
                  jobs'[j].attempts = jobs[j].attempts,
                  jobs'[j].reworks = jobs[j].reworks,
                  Running(j)' => Running(j)
           PROVE  AttemptsCover(j)'
    <2>1. (IF Running(j)' THEN 1 ELSE 0) <= running
      BY <1>same
    <2>2. n + (IF Running(j)' THEN 1 ELSE 0)
            <= max * jobs[j].reworks + jobs[j].attempts
      <3> HIDE DEF n, running
      <3>1. running \in Nat /\ (IF Running(j)' THEN 1 ELSE 0) \in Nat
        BY DEF running
      <3>2. max * jobs[j].reworks + jobs[j].attempts \in Nat
        BY <1>1
      <3> QED BY <1>2, <2>1, <3>1, <3>2
    <2> QED BY <1>same, <1>2, <2>2 DEF AttemptsCover
  <1>3. CASE Rests(j)
    BY <1>3, <1>same DEF Rests, KeepsRound, Running
  <1>4. CASE IsDirected(j)
    BY <1>4, <1>same DEF IsDirected, KeepsRound, KeepsBooks, Running
  <1>5. CASE IsEnded(j)
    BY <1>5, <1>same DEF IsEnded, KeepsRound, KeepsBooks, Running
  <1>6. CASE IsClaimed(j)
    <2>1. ~Running(j) /\ Running(j)'
      BY <1>6 DEF IsClaimed, Queued, Running
    <2>2. n + 1 <= max * jobs[j].reworks + (jobs[j].attempts + 1)
      <3> HIDE DEF n
      <3>1. n <= max * jobs[j].reworks + jobs[j].attempts
        BY <1>2, <2>1
      <3> QED BY <1>1, <1>2, <3>1
    <2>3. jobs[j].attempts + 1 <= max
      BY <1>1, <1>6 DEF IsClaimed
    <2>4. /\ HandoffsOf(j)' = HandoffsOf(j)
          /\ jobs'[j].attempts = jobs[j].attempts + 1
          /\ jobs'[j].reworks = jobs[j].reworks
      BY <1>6 DEF IsClaimed, KeepsBooks
    <2> QED BY <1>2, <2>1, <2>2, <2>3, <2>4 DEF AttemptsCover
  <1>7. CASE IsReleased(j)
    <2>1. Running(j) /\ ~Running(j)'
      BY <1>7 DEF IsReleased, Running
    <2>2. PICK h : HandoffsOf(j)' = HandoffsOf(j) \cup {h}
      BY <1>7 DEF IsReleased
    <2>3. /\ IsFiniteSet(HandoffsOf(j)')
          /\ Cardinality(HandoffsOf(j)') \in Nat
          /\ Cardinality(HandoffsOf(j)') <= n + 1
      <3>1. /\ IsFiniteSet(HandoffsOf(j) \cup {h})
            /\ Cardinality(HandoffsOf(j) \cup {h}) = n
                 \/ Cardinality(HandoffsOf(j) \cup {h}) = n + 1
        BY <1>2, FS_AddElement
      <3> QED BY <1>2, <2>2, <3>1
    <2>4. /\ jobs'[j].attempts = jobs[j].attempts
          /\ jobs'[j].reworks = jobs[j].reworks
      BY <1>7 DEF IsReleased
    <2>5. Cardinality(HandoffsOf(j)')
            <= max * jobs[j].reworks + jobs[j].attempts
      BY <1>1, <1>2, <2>1, <2>3
    <2>6. AttemptsCover(j)' <=>
            /\ jobs'[j].attempts <= max
            /\ IsFiniteSet(HandoffsOf(j)')
            /\ Cardinality(HandoffsOf(j)') + 0
                 <= max * jobs'[j].reworks + jobs'[j].attempts
      BY <2>1 DEF AttemptsCover
    <2> QED BY <1>2, <2>3, <2>4, <2>5, <2>6
  <1>8. CASE IsReviewed(j)
    <2>1. /\ ~Running(j) /\ ~Running(j)'
          /\ HandoffsOf(j)' = HandoffsOf(j)
      BY <1>8 DEF IsReviewed, Running
    <2>2. CASE /\ jobs'[j].attempts = jobs[j].attempts
               /\ jobs'[j].reworks = jobs[j].reworks
      BY <2>1, <2>2, <1>same
    <2>3. CASE /\ jobs'[j].attempts = 0
               /\ jobs'[j].reworks = jobs[j].reworks + 1
      <3>1. n <= max * jobs[j].reworks + jobs[j].attempts
        BY <1>2, <2>1
      <3>2. max * (jobs[j].reworks + 1) = max * jobs[j].reworks + max
        BY <1>1, RoundsAdd
      <3>3. n + 0 <= max * (jobs[j].reworks + 1) + 0
        <4> DEFINE product == max * jobs[j].reworks
                   next == max * (jobs[j].reworks + 1)
        <4>1. product \in Nat /\ next = product + max /\ n <= product + jobs[j].attempts
          BY <1>1, <3>1, <3>2
        <4> HIDE DEF n, product, next
        <4>2. n + 0 <= next + 0
          BY <1>1, <1>2, <4>1
        <4> QED BY <4>2 DEF next
      <3> QED BY <1>1, <1>2, <2>1, <2>3, <3>3 DEF AttemptsCover
    <2> QED BY <1>8, <2>2, <2>3 DEF IsReviewed
  <1> QED BY <1>3, <1>4, <1>5, <1>6, <1>7, <1>8 DEF RowKind

\* Nothing is on file at first.
LEMMA LifecycleInit == Init => LifecycleInv
  <1> SUFFICES ASSUME Init, NEW j \in Jobs PROVE JobInv(j)
    BY DEF LifecycleInv
  <1>1. jobs[j] = NewJob
    BY DEF Init
  <1>2. HandoffsOf(j) = {} /\ ReviewsOf(j) = {} /\ ~Unresolved(j)
    BY DEF Init, HandoffsOf, ReviewsOf, Unresolved
  <1>3. LedgerIsBehind(j) /\ WaitingIsSettled(j)
    BY <1>2 DEF LedgerIsBehind, WaitingIsSettled
  <1>4. Offered(j) /\ Accepted(j) /\ CancelHolds(j)
    BY <1>1 DEF NewJob, Offered, Accepted, CancelHolds
  <1>5. AttemptsCover(j)
    <2>1. /\ jobs[j].attempts = 0 /\ jobs[j].reworks = 0
          /\ ~Running(j)
      BY <1>1 DEF NewJob, Running
    <2>2. Envelope[j].max_attempts \in Nat
      BY EnvelopeFields DEF EnvelopeType
    <2>3. IsFiniteSet(HandoffsOf(j)) /\ Cardinality(HandoffsOf(j)) = 0
      BY <1>2, FS_EmptySet
    <2> QED BY <2>1, <2>2, <2>3 DEF AttemptsCover
  <1> QED BY <1>3, <1>4, <1>5 DEF JobInv

\* The invariant is inductive: it is kept job by job, whatever kind the step is.
LEMMA LifecycleNext == ClaimInv /\ LifecycleInv /\ [Next]_vars => LifecycleInv'
  <1> SUFFICES ASSUME ClaimInv, LifecycleInv, [Next]_vars, NEW j \in Jobs
               PROVE  JobInv(j)'
    BY DEF LifecycleInv
  <1>1. TypeOK /\ TypeOK'
    BY TypeNext DEF ClaimInv
  <1>2. JobInv(j) /\ RowKind(j)
    BY RowStep DEF LifecycleInv
  <1> QED BY <1>1, <1>2, LedgerStep, SettledStep, PendingStep, AcceptedStep,
             CancelStep, AttemptsStep DEF JobInv

\* The inductive invariant holds in every reachable state.
LEMMA LifecycleHolds == Spec => [](ClaimInv /\ LifecycleInv)
  BY LifecycleInit, LifecycleNext, ClaimsHold, PTL DEF Spec

-----------------------------------------------------------------------------
(* The theorems *)

\* A job that waits for WATCH waits on a handoff that exists, that its last
\* claim wrote, and that nobody has reviewed.
THEOREM PendingReviewable == Spec => []PendingIsReviewable
  <1>1. LifecycleInv => PendingIsReviewable
    BY DEF LifecycleInv, JobInv, Offered, PendingIsReviewable, HandoffsOf,
           ReviewsOf
  <1> QED BY <1>1, LifecycleHolds, PTL

\* Success rests on an ACCEPT of the job's last handoff, by another than its
\* author, through requeues, cancels, revocations and repeated reviews.
THEOREM SuccessIsAccepted == Spec => []SucceededWasAccepted
  <1>1. LifecycleInv => SucceededWasAccepted
    BY DEF LifecycleInv, JobInv, Accepted, SucceededWasAccepted, HandoffsOf,
           ReviewsOf
  <1> QED BY <1>1, LifecycleHolds, PTL

\* Nothing in flight is offered for clean review or counted as success.
THEOREM SuccessIsSettled == Spec => []SucceededIsSettled
  <1>1. LifecycleInv => SucceededIsSettled
    BY DEF LifecycleInv, JobInv, WaitingIsSettled, SucceededIsSettled
  <1> QED BY <1>1, LifecycleHolds, PTL

\* A recorded cancel is never overtaken by a retry, a handoff, an approval or a
\* review.
THEOREM CancelPrevails == Spec => []CancelIsFinal
  <1>1. LifecycleInv => CancelIsFinal
    BY DEF LifecycleInv, JobInv, CancelHolds, CancelIsFinal
  <1> QED BY <1>1, LifecycleHolds, PTL

\* A job writes at most max_attempts handoffs in each round of review.
THEOREM HandoffsAreBudgeted == Spec => []HandoffBudget
  <1>1. ClaimInv /\ LifecycleInv => HandoffBudget
    <2> SUFFICES ASSUME ClaimInv, LifecycleInv, NEW j \in Jobs
                 PROVE  Cardinality(HandoffsOf(j))
                          <= Envelope[j].max_attempts * (jobs[j].reworks + 1)
      BY DEF HandoffBudget, HandoffsOf
    <2> DEFINE max == Envelope[j].max_attempts
               n == Cardinality(HandoffsOf(j))
               due == n + (IF Running(j) THEN 1 ELSE 0)
               product == max * jobs[j].reworks
    <2>1. max \in Nat /\ jobs[j].attempts \in Nat /\ jobs[j].reworks \in Nat
      BY RowTypes DEF ClaimInv
    <2>2. AttemptsCover(j)
      BY DEF LifecycleInv, JobInv
    <2>3. n \in Nat
      BY <2>2, FS_CardinalityType DEF AttemptsCover
    <2>4. n <= due
      <3> HIDE DEF n
      <3> QED BY <2>3
    <2>5. due <= product + jobs[j].attempts /\ jobs[j].attempts <= max
      BY <2>2 DEF AttemptsCover
    <2>6. product \in Nat /\ max * (jobs[j].reworks + 1) = product + max
      BY <2>1, RoundsAdd
    <2>7. due \in Nat
      <3> HIDE DEF n
      <3> QED BY <2>3
    <2> HIDE DEF max, n, due, product
    <2>8. n <= product + max
      BY <2>1, <2>3, <2>4, <2>5, <2>6, <2>7
    <2> QED BY <2>6, <2>8 DEF n, max
  <1> QED BY <1>1, LifecycleHolds, PTL

\* Unresolved work moves only towards containment, or through the owner's
\* revocation and approval, by whichever handler the step is.
THEOREM UnresolvedStaysContained == Spec => UnresolvedIsContained
  <1> DEFINE Contained(j) ==
        /\ Unresolved(j)
        /\ jobs'[j].fabric_state # jobs[j].fabric_state
        => \/ jobs'[j].fabric_state \in
                { "CANCEL_REQUESTED", "QUARANTINED", "STALE", "ESCALATED",
                  "CANCELLED", "BLOCKED_OWNER" }
           \/ << jobs[j].fabric_state, jobs'[j].fabric_state >> \in
                {<< "BLOCKED_OWNER", "QUEUED" >>, << "QUEUED", "RUNNING" >>}
  <1>1. ASSUME ClaimInv, LifecycleInv, [Next]_vars, NEW j \in Jobs
        PROVE  Contained(j)
    <2>1. WaitingIsSettled(j) /\ RowKind(j)
      BY <1>1, RowStep DEF LifecycleInv, JobInv
    <2>2. CASE Rests(j)
      BY <2>2 DEF Rests
    <2>3. CASE IsDirected(j)
      BY <2>1, <2>3 DEF IsDirected, WaitingIsSettled
    <2>4. CASE IsClaimed(j)
      BY <2>1, <2>4 DEF IsClaimed, WaitingIsSettled, Queued
    <2>5. CASE IsReleased(j)
      BY <2>5 DEF IsReleased
    <2>6. CASE IsEnded(j)
      BY <2>6 DEF IsEnded
    <2>7. CASE IsReviewed(j)
      BY <2>1, <2>7 DEF IsReviewed, WaitingIsSettled
    <2> QED BY <2>1, <2>2, <2>3, <2>4, <2>5, <2>6, <2>7 DEF RowKind
  <1>2. ClaimInv /\ LifecycleInv /\ [Next]_vars =>
          [\A j \in Jobs : Contained(j)]_vars
    BY <1>1
  <1> QED BY <1>2, LifecycleHolds, PTL DEF Spec, UnresolvedIsContained

\* A finished job is reopened by the owner's revocation only, which takes its
\* approval as well.
THEOREM FinishedStaysFinished == Spec => FinalUnlessRevoked
  <1> DEFINE Final(j) ==
        /\ jobs[j].fabric_state \in {"SUCCEEDED", "FAILED_SAFE", "CANCELLED"}
        /\ jobs'[j].fabric_state # jobs[j].fabric_state
        => jobs'[j].fabric_state = "BLOCKED_OWNER" /\ j \notin approved'
  <1>1. ASSUME ClaimInv, [Next]_vars, NEW j \in Jobs PROVE Final(j)
    <2>1. RowKind(j)
      BY <1>1, RowStep
    <2>2. CASE Rests(j)
      BY <2>2 DEF Rests
    <2>3. CASE IsDirected(j)
      BY <2>3 DEF IsDirected, Queued, Running, BeyondCancel
    <2>4. CASE IsClaimed(j) \/ IsReleased(j) \/ IsEnded(j) \/ IsReviewed(j)
      BY <2>4 DEF IsClaimed, IsReleased, IsEnded, IsReviewed, Queued, Running
    <2> QED BY <2>1, <2>2, <2>3, <2>4 DEF RowKind
  <1>2. ClaimInv /\ [Next]_vars => [\A j \in Jobs : Final(j)]_vars
    BY <1>1
  <1> QED BY <1>2, ClaimsHold, PTL DEF Spec, FinalUnlessRevoked
-----------------------------------------------------------------------------
(* One handoff per claim, seen from the seat                               *)

\* A seat's handoffs carry fences it has left behind; one that carries the
\* seat's own fence left it free.
SeatLedger ==
    /\ \A h \in handoffs :
          /\ h.seat \in Seats
          /\ h.seat_fence <= seats[h.seat].fence
          /\ h.seat_fence = seats[h.seat].fence =>
               seats[h.seat].state = "FREE"
    /\ \A g, h \in handoffs :
          g.seat = h.seat /\ g.seat_fence = h.seat_fence => g = h

\* A seat's fence is never taken back, and a free seat is taken at a new one.
LEMMA SeatsMoveOn ==
    ASSUME ClaimInv, [Next]_vars, NEW s \in Seats
    PROVE  /\ seats'[s].fence >= seats[s].fence
           /\ /\ seats'[s].fence = seats[s].fence
              /\ seats[s].state = "FREE"
              => seats'[s].state = "FREE"
  <1>1. seats[s].fence \in Nat /\ seats[s] \in SeatRow /\ DOMAIN seats = Seats
    BY DEF ClaimInv, TypeOK, SeatRow
  <1>2. CASE KeepsClaims
    BY <1>1, <1>2 DEF KeepsClaims
  <1>3. ASSUME NEW S, EndsClaims(S)
        PROVE  /\ seats'[s].fence >= seats[s].fence
               /\ seats'[s] = seats[s] \/ seats'[s].state = "FREE"
    BY <1>1, <1>3 DEF EndsClaims
  <1>4. ASSUME NEW r \in Seats, WritesLease(r)
        PROVE  /\ seats'[s].fence = seats[s].fence
               /\ seats'[s].state = seats[s].state
    BY <1>1, <1>4 DEF WritesLease, SeatRow
  <1>5. ASSUME NEW w \in Workers, NEW j \in Jobs, NEW r \in Seats,
               TakesClaim(w, j, r)
        PROVE  IF s = r THEN seats'[s].fence = seats[s].fence + 1
                        ELSE seats'[s] = seats[s]
    BY <1>1, <1>5 DEF TakesClaim, TakenSeat
  <1>6. ASSUME NEW w \in Workers, LosesToken(w) PROVE seats'[s] = seats[s]
    BY <1>6 DEF LosesToken
  <1> QED BY <1>1, <1>2, <1>3, <1>4, <1>5, <1>6, StepKinds

\* Only release_for_review writes a handoff.
LEMMA HandoffWriters ==
    ASSUME [Next]_vars, handoffs' # handoffs
    PROVE  \E w \in Workers, p \in {"NONE", "UNCERTAIN_PARTIAL"} :
              ReleaseForReview(w, p)
  <1>1. CASE UNCHANGED vars
    BY <1>1 DEF vars
  <1>2. ASSUME NEW w \in Workers, WorkerStep(w)
        PROVE  \E p \in {"NONE", "UNCERTAIN_PARTIAL"} : ReleaseForReview(w, p)
    BY <1>2 DEF WorkerStep, ClaimNext, ClaimJob, ClaimNothing, Heartbeat,
                AcknowledgeCancel, SafeRetry, QuarantineCurrent, DropToken,
                RecordAdapterFailure, RecordAdapterSuccess, PrepareOperation,
                TransitionOperation
  <1>3. ASSUME NEW c \in Controllers, WatchStep(c) PROVE FALSE
    BY <1>3 DEF WatchStep, ClaimLeader, HeartbeatLeader, ReleaseLeader,
                ReviewHandoff
  <1>4. ASSUME NEW j \in Jobs, OwnerStep(j) PROVE FALSE
    BY <1>4 DEF OwnerStep, Submit, ApproveJob, RevokeJob, RequestCancel
  <1>5. ASSUME \/ \E v \in 1 .. MaxVersion : SetSharedStateVersion(v)
               \/ \E o \in operations, target \in OperationTargets :
                     SettleOperation(o, target)
               \/ ReconcileExpiredLeases
        PROVE  FALSE
    BY <1>5 DEF SetSharedStateVersion, SettleOperation, ReconcileExpiredLeases
  <1>6. ASSUME ClockStep PROVE FALSE
    BY <1>6 DEF ClockStep, LapseLease, LapseLeader, RetryDelayElapses,
                ApprovalExpires, DeadlinePasses, CooldownElapses
  <1> QED BY <1>1, <1>2, <1>3, <1>4, <1>5, <1>6 DEF Next

\* A handoff is filed under the fence of the running seat it frees.
LEMMA SeatLedgerNext == ClaimInv /\ SeatLedger /\ [Next]_vars => SeatLedger'
  <1> SUFFICES ASSUME ClaimInv, SeatLedger, [Next]_vars PROVE SeatLedger'
    OBVIOUS
  <1>1. /\ \A h \in handoffs : h.seat_fence \in Nat
        /\ \A s \in Seats : seats[s].fence \in Nat
        /\ \A s \in Seats : seats'[s].fence \in Nat
    <2>1. TypeOK /\ TypeOK'
      BY TypeNext DEF ClaimInv
    <2> QED BY <2>1 DEF TypeOK, Handoff, SeatRow
  <1>2. \A s \in Seats :
           /\ seats'[s].fence >= seats[s].fence
           /\ /\ seats'[s].fence = seats[s].fence
              /\ seats[s].state = "FREE"
              => seats'[s].state = "FREE"
    BY SeatsMoveOn
  <1>3. \A h \in handoffs :
           /\ h.seat \in Seats
           /\ h.seat_fence <= seats'[h.seat].fence
           /\ h.seat_fence = seats'[h.seat].fence =>
                seats'[h.seat].state = "FREE"
    BY <1>1, <1>2 DEF SeatLedger
  <1>4. CASE handoffs' = handoffs
    BY <1>3, <1>4 DEF SeatLedger
  <1>5. CASE handoffs' # handoffs
    <2>1. PICK w \in Workers, p \in {"NONE", "UNCERTAIN_PARTIAL"} :
             ReleaseForReview(w, p)
      BY <1>5, HandoffWriters
    <2> DEFINE h == [ job |-> held[w].job, fence |-> held[w].fence,
                      seat |-> held[w].seat,
                      seat_fence |-> held[w].seat_fence,
                      worker |-> OwnerName[w], partial |-> p ]
    <2>2. /\ handoffs' = handoffs \cup {h}
          /\ h.seat = held[w].seat
          /\ h.seat_fence = held[w].seat_fence
      BY <2>1 DEF ReleaseForReview
    <2> HIDE DEF h
    <2>3. /\ h.seat \in Seats
          /\ h.seat_fence = seats[h.seat].fence
          /\ seats[h.seat].state = "RUNNING"
      BY <2>1, <2>2, CallerRuns DEF ReleaseForReview
    <2>4. seats'[h.seat] = Vacated(seats[h.seat])
      BY <2>1, <2>2, <2>3 DEF ReleaseForReview, ClaimInv, TypeOK
    <2>5. /\ seats'[h.seat].state = "FREE"
          /\ seats'[h.seat].fence = seats[h.seat].fence
      BY <2>3, <2>4, VacatedRow DEF ClaimInv, TypeOK
    <2>6. \A g \in handoffs :
             ~(g.seat = h.seat /\ g.seat_fence = h.seat_fence)
      BY <2>3 DEF SeatLedger
    <2> QED BY <1>1, <1>3, <2>2, <2>3, <2>5, <2>6 DEF SeatLedger
  <1> QED BY <1>4, <1>5

\* One claim yields at most one handoff, and a seat's fence never serves two,
\* however often jobs are requeued and seats reused.
THEOREM ClaimsHandOffOnce == Spec => []OneHandoffPerClaim
  <1>1. Init => SeatLedger
    BY DEF Init, SeatLedger
  <1>2. ClaimInv /\ LifecycleInv /\ SeatLedger => OneHandoffPerClaim
    <2> SUFFICES ASSUME ClaimInv, LifecycleInv, SeatLedger,
                        NEW g \in handoffs, NEW h \in handoffs, g # h
                 PROVE  /\ << g.job, g.fence >> # << h.job, h.fence >>
                        /\ << g.seat, g.seat_fence >>
                             # << h.seat, h.seat_fence >>
      BY DEF OneHandoffPerClaim
    <2>1. g.job \in Jobs
      BY DEF ClaimInv, TypeOK, Handoff
    <2>2. LedgerIsBehind(g.job)
      BY <2>1 DEF LifecycleInv, JobInv
    <2>3. ~(g.job = h.job /\ g.fence = h.fence)
      BY <2>2 DEF LedgerIsBehind, HandoffsOf
    <2>4. ~(g.seat = h.seat /\ g.seat_fence = h.seat_fence)
      BY DEF SeatLedger
    <2> QED BY <2>3, <2>4
  <1> QED BY <1>1, <1>2, SeatLedgerNext, LifecycleHolds, PTL DEF Spec
-----------------------------------------------------------------------------
(* Each job's rows are a ledger                                            *)

\* The deliveries and rulings are read off the job's books.
LEMMA BooksRead ==
    ASSUME NEW j
    PROVE  /\ Deliveries(j) =
                {[fence |-> h.fence, worker |-> h.worker] : h \in HandoffsOf(j)}
           /\ Rulings(j) =
                { [fence |-> r.fence, decision |-> r.decision, owner |-> r.owner] :
                    r \in ReviewsOf(j) }
           /\ Deliveries(j)' =
                {[fence |-> h.fence, worker |-> h.worker] : h \in HandoffsOf(j)'}
           /\ Rulings(j)' =
                { [fence |-> r.fence, decision |-> r.decision, owner |-> r.owner] :
                    r \in ReviewsOf(j)' }
  BY DEF Deliveries, Rulings, HandoffsOf, ReviewsOf

\* A job that nobody touches, or whose claim, delivery and decision are not at
\* stake, keeps its ledger; every other step is one move in it.
LEMMA LedgerMoves ==
    ASSUME ClaimInv, LifecycleInv, [Next]_vars, NEW j \in Jobs
    PROVE  [Ledger(j)!Next]_(Ledger(j)!ledger)
  <1>1. RowKind(j) /\ TypeOK /\ TypeOK'
    BY RowStep, TypeNext DEF ClaimInv
  <1>2. ASSUME HandoffsOf(j)' = HandoffsOf(j) PROVE Deliveries(j)' = Deliveries(j)
    BY <1>2, BooksRead
  <1>3. ASSUME ReviewsOf(j)' = ReviewsOf(j) PROVE Rulings(j)' = Rulings(j)
    BY <1>3, BooksRead
  <1>4. CASE Rests(j)
    <2>1. /\ Stage(j)' = Stage(j)
          /\ jobs'[j].fence = jobs[j].fence
          /\ jobs'[j].checkpoint_ref = jobs[j].checkpoint_ref
          /\ HandoffsOf(j)' = HandoffsOf(j)
          /\ ReviewsOf(j)' = ReviewsOf(j)
      BY <1>4 DEF Rests, KeepsRound, Stage, Running
    <2> QED BY <1>2, <1>3, <2>1 DEF Ledger!ledger
  <1>5. CASE IsDirected(j)
    <2>1. /\ jobs'[j].checkpoint_ref = jobs[j].checkpoint_ref
          /\ Deliveries(j)' = Deliveries(j)
          /\ Rulings(j)' = Rulings(j)
      BY <1>2, <1>3, <1>5 DEF IsDirected, KeepsRound, KeepsBooks
    <2>2. \/ Stage(j)' = Stage(j) /\ jobs'[j].fence = jobs[j].fence
          \/ /\ Stage(j) = "idle" /\ Stage(j)' = "idle"
             /\ jobs'[j].fence = jobs[j].fence + 1
          \/ /\ Stage(j) = "done" /\ Stage(j)' = "idle"
             /\ jobs'[j].fence = jobs[j].fence
      BY <1>5 DEF IsDirected, Stage, Running, Queued, BeyondCancel
    <2> QED BY <2>1, <2>2
            DEF Ledger!Next, Ledger!Void, Ledger!Reopen, Ledger!ledger
  <1>6. CASE IsClaimed(j)
    <2>1. /\ jobs'[j].checkpoint_ref = jobs[j].checkpoint_ref
          /\ Deliveries(j)' = Deliveries(j)
          /\ Rulings(j)' = Rulings(j)
      BY <1>2, <1>3, <1>6 DEF IsClaimed, KeepsBooks
    <2>2. /\ Stage(j) = "idle" /\ Stage(j)' = "held"
          /\ jobs'[j].fence = jobs[j].fence + 1
      BY <1>6 DEF IsClaimed, Stage, Running, Queued
    <2> QED BY <2>1, <2>2 DEF Ledger!Next, Ledger!Take
  <1>7. CASE IsReleased(j)
    <2>1. PICK h \in handoffs' :
             /\ h.job = j
             /\ h.fence = jobs[j].fence
             /\ HandoffsOf(j)' = HandoffsOf(j) \cup {h}
      BY <1>7 DEF IsReleased
    <2>2. h.worker \in Owners
      BY <1>1 DEF TypeOK, Handoff
    <2>3. Deliveries(j)' =
             Deliveries(j) \cup {[fence |-> jobs[j].fence, worker |-> h.worker]}
      BY <2>1, BooksRead
    <2>4. /\ Stage(j) = "held" /\ Stage(j)' = "idle"
          /\ jobs'[j].fence = jobs[j].fence + 1
          /\ jobs'[j].checkpoint_ref = jobs[j].fence
          /\ Rulings(j)' = Rulings(j)
      BY <1>3, <1>7 DEF IsReleased, Stage, Running
    <2>5. Ledger(j)!Deliver(h.worker)
      BY <2>3, <2>4 DEF Ledger!Deliver
    <2> QED BY <2>2, <2>5 DEF Ledger!Next
  <1>8. CASE IsEnded(j)
    <2>1. /\ jobs'[j].checkpoint_ref = jobs[j].checkpoint_ref
          /\ Deliveries(j)' = Deliveries(j)
          /\ Rulings(j)' = Rulings(j)
      BY <1>2, <1>3, <1>8 DEF IsEnded, KeepsRound, KeepsBooks
    <2>2. /\ Stage(j) = "held" /\ Stage(j)' = "idle"
          /\ jobs'[j].fence = jobs[j].fence + 1
      BY <1>8 DEF IsEnded, Stage, Running
    <2> QED BY <2>1, <2>2 DEF Ledger!Next, Ledger!Lose
  <1>9. CASE IsReviewed(j)
    <2>1. PICK h \in handoffs, r \in reviews' :
             /\ h.job = j /\ h.fence = jobs[j].checkpoint_ref
             /\ r.job = j /\ r.fence = jobs[j].checkpoint_ref
             /\ r.owner # h.worker
             /\ ReviewsOf(j)' = ReviewsOf(j) \cup {r}
             /\ jobs'[j].fabric_state = "SUCCEEDED" <=> r.decision = "ACCEPT"
      BY <1>9 DEF IsReviewed
    <2>2. r.decision \in Decisions /\ r.owner \in Owners
      BY <1>1 DEF TypeOK, Review
    <2>3. Rulings(j)' = Rulings(j) \cup
             {[ fence |-> jobs[j].checkpoint_ref, decision |-> r.decision,
                owner |-> r.owner ]}
      BY <2>1, BooksRead
    <2>4. \E d \in Deliveries(j) :
             d.fence = jobs[j].checkpoint_ref /\ d.worker # r.owner
      <3>1. [fence |-> h.fence, worker |-> h.worker] \in Deliveries(j)
        BY <2>1 DEF Deliveries
      <3> QED BY <2>1, <3>1
    <2>5. ~\E d \in Rulings(j) : d.fence = jobs[j].checkpoint_ref
      BY <1>9 DEF IsReviewed, Rulings
    <2>6. /\ Stage(j) = "idle"
          /\ Stage(j)' = IF r.decision = "ACCEPT" THEN "done" ELSE "idle"
          /\ jobs'[j].fence = jobs[j].fence
          /\ jobs'[j].checkpoint_ref = jobs[j].checkpoint_ref
          /\ Deliveries(j)' = Deliveries(j)
      BY <1>2, <1>9, <2>1 DEF IsReviewed, Stage, Running
    <2>7. Ledger(j)!Decide(r.decision, r.owner)
      BY <2>3, <2>4, <2>5, <2>6 DEF Ledger!Decide
    <2> QED BY <2>2, <2>7 DEF Ledger!Next
  <1> QED BY <1>1, <1>4, <1>5, <1>6, <1>7, <1>8, <1>9 DEF RowKind

\* A job without a row is a ledger without an entry.
LEMMA LedgerStarts ==
    ASSUME Init, NEW j \in Jobs
    PROVE  Ledger(j)!Init
  <1>1. jobs[j] = NewJob /\ handoffs = {} /\ reviews = {}
    BY DEF Init
  <1>2. Stage(j) = "idle" /\ jobs[j].fence = 0 /\ jobs[j].checkpoint_ref = 0
    BY <1>1 DEF NewJob, Stage, Running
  <1>3. Deliveries(j) = {} /\ Rulings(j) = {}
    BY <1>1 DEF Deliveries, Rulings
  <1> QED BY <1>2, <1>3 DEF Ledger!Init

\* Every job's rows are a ledger as JobLedger promises it, whatever workers,
\* seats, reconciliation, owner and WATCH threads do to it and to the others.
THEOREM JobsKeepLedgers == Spec => ImplementsJobLedger
  <1>1. Init => \A j \in Jobs : Ledger(j)!Init
    BY LedgerStarts
  <1>2. ClaimInv /\ LifecycleInv /\ [Next]_vars =>
          [\A j \in Jobs : [Ledger(j)!Next]_(Ledger(j)!ledger)]_vars
    BY LedgerMoves
  <1> QED BY <1>1, <1>2, LifecycleHolds, PTL DEF Spec, ImplementsJobLedger

\* The same of any one job, as the abstract specification itself.
THEOREM AnyJobIsALedger == \A j \in Jobs : Spec => Ledger(j)!Spec
  <1> SUFFICES ASSUME NEW j \in Jobs PROVE Spec => Ledger(j)!Spec
    OBVIOUS
  <1>1. Init => Ledger(j)!Init
    BY LedgerStarts
  <1>2. ClaimInv /\ LifecycleInv /\ [Next]_vars =>
          [Ledger(j)!Next]_(Ledger(j)!ledger)
    BY LedgerMoves
  <1> QED BY <1>1, <1>2, LifecycleHolds, PTL DEF Spec, Ledger!Spec
=============================================================================
