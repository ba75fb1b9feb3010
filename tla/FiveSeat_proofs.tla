--------------------------- MODULE FiveSeat_proofs ---------------------------
(***************************************************************************)
(* What holds of the fabric for every number of seats, set of threads, job *)
(* envelopes and bounds: the shape of the rows, the agreement of the job   *)
(* and seat tables, fencing, and the isolation of running jobs.            *)
(***************************************************************************)
EXTENDS FiveSeat, TLAPS

-----------------------------------------------------------------------------
(* Rows *)

\* Envelopes have their type, and every job has a circuit.
LEMMA EnvelopeFields ==
    ASSUME NEW j \in Jobs
    PROVE  /\ Envelope[j] \in EnvelopeType
           /\ Envelope[j].worker_kind \in Kinds
  BY EnvelopeAssumption DEF Kinds

\* The columns that statements write keep the shape of a job row.
LEMMA RowWrites ==
    ASSUME NEW row \in JobRow
    PROVE  \A state \in FabricStates :
              /\ [row EXCEPT !.fabric_state = state] \in JobRow
              /\ \A b \in BOOLEAN :
                    /\ [row EXCEPT !.fabric_state = state, !.delayed = b]
                         \in JobRow
                    /\ [row EXCEPT !.fabric_state = state, !.cancel = b]
                         \in JobRow
              /\ \A n \in Nat :
                    /\ [row EXCEPT !.fabric_state = state,
                                   !.checkpoint_ref = n] \in JobRow
                    /\ [row EXCEPT !.fabric_state = state,
                                   !.source_version = n] \in JobRow
  BY DEF JobRow

\* So do a lease and an elapsed retry delay,
LEMMA ClockWrites ==
    /\ \A row \in JobRow, lease \in Leases :
          [row EXCEPT !.lease = lease] \in JobRow
    /\ \A row \in JobRow : [row EXCEPT !.delayed = FALSE] \in JobRow
    /\ \A row \in SeatRow, lease \in Leases :
          [row EXCEPT !.lease = lease] \in SeatRow
  BY DEF JobRow, SeatRow

\* the columns a REWORK decision writes,
LEMMA ReworkedRow ==
    ASSUME NEW row \in JobRow
    PROVE  Reworked(row) \in JobRow
  <1>1. \A n \in Nat :
           [row EXCEPT !.fabric_state = "REWORK_QUEUED", !.attempts = 0,
                       !.reworks = n, !.delayed = FALSE, !.cancel = FALSE]
             \in JobRow
    BY DEF JobRow, FabricStates
  <1>2. row.reworks + 1 \in Nat
    BY DEF JobRow
  <1> QED BY <1>1, <1>2 DEF Reworked

\* and the columns of a claim, which is a new fence.
LEMMA ClaimedRow ==
    ASSUME NEW row \in JobRow, NEW s \in Nat, NEW owner \in Owners
    PROVE  /\ Claimed(row, s, owner) \in JobRow
           /\ Claimed(row, s, owner).fabric_state = "RUNNING"
           /\ Claimed(row, s, owner).seat_id = s
           /\ Claimed(row, s, owner).lease_owner = owner
           /\ Claimed(row, s, owner).lease = "LIVE"
           /\ Claimed(row, s, owner).fence = row.fence + 1
  <1>1. \A fence, attempts \in Nat :
           [row EXCEPT !.fabric_state = "RUNNING", !.seat_id = s,
                       !.lease_owner = owner, !.lease = "LIVE",
                       !.fence = fence, !.attempts = attempts] \in JobRow
    BY DEF JobRow, FabricStates, Leases
  <1>2. row.fence + 1 \in Nat /\ row.attempts + 1 \in Nat
    BY DEF JobRow
  <1>3. Claimed(row, s, owner) \in JobRow
    BY <1>1, <1>2 DEF Claimed
  <1> QED BY <1>3 DEF Claimed, JobRow

\* Ending a claim keeps the shape of the job row, and is a new fence.
LEMMA DisownedRow ==
    ASSUME NEW row \in JobRow
    PROVE  /\ Disowned(row) \in JobRow
           /\ Disowned(row).fence = row.fence + 1
           /\ Disowned(row).seat_id = NoSeat
           /\ Disowned(row).lease_owner = NoOwner
           /\ Disowned(row).lease = "NONE"
           /\ Disowned(row).fabric_state = row.fabric_state
  <1>1. Disowned(row) \in JobRow
    <2>1. \A fence \in Nat, owner \in Owners \cup {NoOwner}, lease \in Leases :
             [row EXCEPT !.seat_id = 0, !.lease_owner = owner,
                         !.lease = lease, !.fence = fence] \in JobRow
      BY DEF JobRow
    <2>2. row.fence + 1 \in Nat /\ "NONE" \in Leases
      BY DEF JobRow, Leases
    <2> QED BY <2>1, <2>2 DEF Disowned, NoSeat
  <1> QED BY <1>1 DEF Disowned, JobRow

\* Freeing a seat empties its row, with or without a new fence.
LEMMA VacatedRow ==
    ASSUME NEW row \in SeatRow
    PROVE  /\ Vacated(row) \in SeatRow
           /\ Vacated(row).state = "FREE"
           /\ Vacated(row).current_job = NoJob
           /\ Vacated(row).lease_owner = NoOwner
           /\ Vacated(row).lease = "NONE"
           /\ Vacated(row).fence = row.fence
  BY DEF Vacated, SeatRow, Leases

\* The remedies' way of freeing a seat (_free_seat) is a new seat fence as well.
LEMMA FreedRow ==
    ASSUME NEW row \in SeatRow
    PROVE  /\ Freed(row) \in SeatRow
           /\ Freed(row).state = "FREE"
           /\ Freed(row).current_job = NoJob
           /\ Freed(row).lease_owner = NoOwner
           /\ Freed(row).lease = "NONE"
           /\ Freed(row).fence = row.fence + 1
  BY VacatedRow DEF Freed, SeatRow

\* What reconciliation makes of a job is a row without a claim, one fence on.
LEMMA RecoveredRow ==
    ASSUME TypeOK, NEW j \in Jobs
    PROVE  /\ Recovered(j) \in JobRow
           /\ Recovered(j).fence = jobs[j].fence + 1
           /\ Recovered(j).seat_id = NoSeat
           /\ Recovered(j).lease_owner = NoOwner
           /\ Recovered(j).lease = "NONE"
           /\ Recovered(j).fabric_state \in
                {"STALE", "QUARANTINED", "CANCELLED", "QUEUED", "FAILED_SAFE"}
  <1> DEFINE row == Disowned(jobs[j])
             Ends == {"STALE", "QUARANTINED", "CANCELLED", "QUEUED",
                      "FAILED_SAFE"}
             Ended(state, b) ==
               [row EXCEPT !.fabric_state = state, !.delayed = b]
  <1>1. jobs[j] \in JobRow
    BY DEF TypeOK
  <1>2. row \in JobRow
    BY <1>1, DisownedRow
  <1>3. Recovered(j) \in
          { Ended("STALE", FALSE), Ended("QUARANTINED", FALSE),
            Ended("CANCELLED", FALSE), Ended("QUEUED", TRUE),
            Ended("FAILED_SAFE", FALSE) }
    BY DEF Recovered
  <1>4. PICK state \in Ends, b \in BOOLEAN : Recovered(j) = Ended(state, b)
    <2> HIDE DEF Ended
    <2> QED BY <1>3
  <1> HIDE DEF row
  <1>5. Recovered(j) \in JobRow
    <2>1. state \in FabricStates
      BY DEF FabricStates
    <2> QED BY <1>2, <1>4, <2>1 DEF JobRow
  <1>6. /\ Recovered(j).fence = row.fence
        /\ Recovered(j).seat_id = row.seat_id
        /\ Recovered(j).lease_owner = row.lease_owner
        /\ Recovered(j).lease = row.lease
        /\ Recovered(j).fabric_state = state
    BY <1>2, <1>4 DEF JobRow
  <1> QED BY <1>1, <1>5, <1>6, DisownedRow DEF row

-----------------------------------------------------------------------------
(* Type correctness *)

\* The empty tables have their types.
LEMMA TypeInit == Init => TypeOK
  <1> SUFFICES ASSUME Init PROVE TypeOK
    OBVIOUS
  <1>1. NewJob \in JobRow
    BY DEF NewJob, JobRow, FabricStates, Leases, NoSeat
  <1>2. jobs \in [Jobs -> JobRow]
    BY <1>1 DEF Init
  <1>3. seats \in [Seats -> SeatRow]
    BY DEF Init, SeatRow, Leases
  <1>4. circuits \in [Kinds -> CircuitRow]
    BY DEF Init, CircuitRow
  <1> QED BY <1>2, <1>3, <1>4 DEF Init, TypeOK, Leases

\* A thread that proves its claim holds a token of a job and a seat that exist.
LEMMA CurrentToken ==
    ASSUME TypeOK, NEW w \in Workers, Holds(w)
    PROVE  /\ held[w] \in Token
           /\ held[w].job \in Jobs
           /\ jobs[held[w].job] \in JobRow
           /\ held[w].fence \in Nat
           /\ held[w].seat_fence \in Nat
           /\ OwnerName[w] \in Owners
           /\ WorkerCurrent(w) =>
                held[w].seat \in Nat
  <1>1. held[w] \in Token
    BY DEF TypeOK, Holds
  <1> QED BY <1>1 DEF TypeOK, Token, Owners

\* Every handler writes rows of the tables' types, whatever it is called with.
LEMMA TypeNext == TypeOK /\ [Next]_vars => TypeOK'
  <1> SUFFICES ASSUME TypeOK, [Next]_vars PROVE TypeOK'
    OBVIOUS
  <1>stutter. CASE UNCHANGED vars
    BY <1>stutter DEF vars, TypeOK
  <1> SUFFICES ASSUME Next PROVE TypeOK'
    BY <1>stutter
  <1>row. \A j \in Jobs : /\ jobs[j] \in JobRow
                          /\ Disowned(jobs[j]) \in JobRow
    BY DisownedRow DEF TypeOK
  <1>seat. \A s \in Seats : /\ seats[s] \in SeatRow
                            /\ Vacated(seats[s]) \in SeatRow
                            /\ Freed(seats[s]) \in SeatRow
    BY VacatedRow, FreedRow DEF TypeOK
  <1>1. ASSUME NEW j \in Jobs, OwnerStep(j) PROVE TypeOK'
    <2>1. CASE Submit(j)
      <3>1. jobs' \in [Jobs -> JobRow]
        BY <2>1, <1>row, RowWrites DEF Submit, TypeOK, FabricStates
      <3> QED BY <2>1, <3>1 DEF Submit, TypeOK
    <2>2. CASE ApproveJob(j)
      <3>1. jobs' \in [Jobs -> JobRow]
        BY <2>2, <1>row, RowWrites DEF ApproveJob, TypeOK, FabricStates
      <3> QED BY <2>2, <3>1 DEF ApproveJob, TypeOK
    <2>3. CASE RevokeJob(j)
      <3>1. jobs' \in [Jobs -> JobRow]
        BY <2>3, <1>row, RowWrites DEF RevokeJob, TypeOK, FabricStates
      <3> QED BY <2>3, <3>1 DEF RevokeJob, TypeOK
    <2>4. CASE RequestCancel(j)
      <3>1. jobs' \in [Jobs -> JobRow]
        BY <2>4, <1>row, RowWrites DEF RequestCancel, TypeOK, FabricStates
      <3> QED BY <2>4, <3>1 DEF RequestCancel, TypeOK
    <2> QED BY <1>1, <2>1, <2>2, <2>3, <2>4 DEF OwnerStep
  <1>2. ASSUME NEW v \in 1 .. MaxVersion, SetSharedStateVersion(v)
        PROVE  TypeOK'
    BY <1>2, FabricAssumption DEF SetSharedStateVersion, TypeOK
  <1>sweep. StaleMarked \in [Jobs -> JobRow]
    BY <1>row, RowWrites DEF StaleMarked, FabricStates
  <1>3. ASSUME NEW w \in Workers, NEW locked, ClaimNext(w, locked)
        PROVE  TypeOK'
    <2>1. ASSUME NEW j \in Jobs, ClaimJob(w, j, locked) PROVE TypeOK'
      <3>1. PICK s \in Seats :
              /\ jobs' = [StaleMarked EXCEPT ![j] =
                            Claimed(@, s, OwnerName[w])]
              /\ seats' = [seats EXCEPT ![s] = TakenSeat(s, w, j)]
              /\ held' = [held EXCEPT ![w] =
                            [ job |-> j, seat |-> s,
                              fence |-> jobs[j].fence + 1,
                              seat_fence |-> TakenSeat(s, w, j).fence ]]
        BY <2>1 DEF ClaimJob
      <3>2. s \in Nat /\ OwnerName[w] \in Owners
        BY FabricAssumption DEF Seats, Owners
      <3>3. jobs' \in [Jobs -> JobRow]
        BY <1>sweep, <3>1, <3>2, ClaimedRow
      <3>4. TakenSeat(s, w, j) \in SeatRow
        BY <1>seat, <3>2 DEF TakenSeat, SeatRow, Leases
      <3>5. held' \in [Workers -> Token \cup {NoToken}]
        BY <1>row, <3>1, <3>2, <3>4 DEF TypeOK, Token, JobRow, SeatRow
      <3>6. circuits' \in [Kinds -> CircuitRow]
        <4> DEFINE kind == Envelope[j].worker_kind
        <4>1. kind \in Kinds /\ circuits[kind] \in CircuitRow
          BY EnvelopeFields DEF TypeOK
        <4>2. [circuits[kind] EXCEPT !.state = "HALF_OPEN", !.probe = j]
                \in CircuitRow
          BY <4>1 DEF CircuitRow
        <4> QED BY <2>1, <4>1, <4>2 DEF ClaimJob, TypeOK
      <3> QED BY <2>1, <3>1, <3>3, <3>4, <3>5, <3>6 DEF ClaimJob, TypeOK
    <2>2. CASE ClaimNothing(w, locked)
      BY <2>2, <1>sweep DEF ClaimNothing, TypeOK
    <2> QED BY <1>3, <2>1, <2>2 DEF ClaimNext
  <1>4. ASSUME NEW w \in Workers, Holds(w), UNCHANGED << circuits, held >>,
               \/ Heartbeat(w)
               \/ \E p \in {"NONE", "UNCERTAIN_PARTIAL"} :
                     ReleaseForReview(w, p)
               \/ AcknowledgeCancel(w)
               \/ SafeRetry(w)
               \/ QuarantineCurrent(w)
        PROVE  TypeOK'
    <2> DEFINE j == held[w].job
    <2>0. /\ j \in Jobs
          /\ jobs[j] \in JobRow
          /\ Disowned(jobs[j]) \in JobRow
          /\ held[w].fence \in Nat
          /\ held[w].seat_fence \in Nat
          /\ held[w].seat \in Nat
          /\ OwnerName[w] \in Owners
      BY <1>4, <1>row, CurrentToken DEF Token
    <2>1. CASE Heartbeat(w)
      <3>1. jobs' \in [Jobs -> JobRow]
        BY <2>0, <2>1, <1>row, ClockWrites DEF Heartbeat, TypeOK, Leases
      <3>2. seats' \in [Seats -> SeatRow]
        BY <2>1, <1>seat, ClockWrites DEF Heartbeat, TypeOK, Leases
      <3> QED BY <1>4, <2>1, <3>1, <3>2 DEF Heartbeat, TypeOK
    <2>2. ASSUME NEW p \in {"NONE", "UNCERTAIN_PARTIAL"},
                 ReleaseForReview(w, p)
          PROVE  TypeOK'
      <3>1. jobs' \in [Jobs -> JobRow]
        BY <2>0, <2>2, RowWrites DEF ReleaseForReview, TypeOK, FabricStates
      <3>2. seats' \in [Seats -> SeatRow]
        BY <2>2, <1>seat DEF ReleaseForReview, TypeOK
      <3>3. handoffs' \subseteq Handoff
        BY <2>0, <2>2 DEF ReleaseForReview, TypeOK, Handoff
      <3> QED BY <1>4, <2>2, <3>1, <3>2, <3>3 DEF ReleaseForReview, TypeOK
    <2>3. CASE AcknowledgeCancel(w)
      <3>1. jobs' \in [Jobs -> JobRow]
        BY <2>0, <2>3, RowWrites DEF AcknowledgeCancel, TypeOK, FabricStates
      <3>2. seats' \in [Seats -> SeatRow]
        BY <2>3, <1>seat DEF AcknowledgeCancel, TypeOK
      <3> QED BY <1>4, <2>3, <3>1, <3>2 DEF AcknowledgeCancel, TypeOK
    <2>4. CASE SafeRetry(w)
      <3>1. jobs' \in [Jobs -> JobRow]
        BY <2>0, <2>4, RowWrites DEF SafeRetry, TypeOK, FabricStates
      <3>2. seats' \in [Seats -> SeatRow]
        BY <2>4, <1>seat DEF SafeRetry, TypeOK
      <3> QED BY <1>4, <2>4, <3>1, <3>2 DEF SafeRetry, TypeOK
    <2>5. CASE QuarantineCurrent(w)
      <3>1. jobs' \in [Jobs -> JobRow]
        BY <2>0, <2>5, RowWrites DEF QuarantineCurrent, TypeOK, FabricStates
      <3>2. seats' \in [Seats -> SeatRow]
        BY <2>5, <1>seat DEF QuarantineCurrent, TypeOK
      <3> QED BY <1>4, <2>5, <3>1, <3>2 DEF QuarantineCurrent, TypeOK
    <2> QED BY <1>4, <2>1, <2>2, <2>3, <2>4, <2>5
  <1>5. ASSUME NEW w \in Workers, DropToken(w) PROVE TypeOK'
    BY <1>5 DEF DropToken, TypeOK
  <1>6. ASSUME NEW w \in Workers,
               RecordAdapterFailure(w) \/ RecordAdapterSuccess(w)
        PROVE  TypeOK'
    <2> DEFINE kind == Envelope[held[w].job].worker_kind
    <2>1. Holds(w)
      BY <1>6 DEF RecordAdapterFailure, RecordAdapterSuccess
    <2>2. kind \in Kinds /\ circuits[kind] \in CircuitRow
      BY <2>1, CurrentToken, EnvelopeFields DEF TypeOK
    <2>3. \A state \in {"CLOSED", "OPEN"}, n \in Nat :
             [ state |-> state, failures |-> n, due |-> FALSE,
               probe |-> NoJob ] \in CircuitRow
      BY DEF CircuitRow
    <2>4. circuits[kind].failures + 1 \in Nat
      BY <2>2 DEF CircuitRow
    <2>5. circuits' \in [Kinds -> CircuitRow]
      BY <1>6, <2>2, <2>3, <2>4
         DEF RecordAdapterFailure, RecordAdapterSuccess, TypeOK
    <2> QED BY <1>6, <2>5
            DEF RecordAdapterFailure, RecordAdapterSuccess, TypeOK
  <1>7. ASSUME NEW w \in Workers, PrepareOperation(w) PROVE TypeOK'
    <2>1. Holds(w)
      BY <1>7 DEF PrepareOperation, JournalFence
    <2>2. operations' \subseteq Operation
      BY <1>7, <2>1, CurrentToken
         DEF PrepareOperation, TypeOK, Operation, OperationStatuses
    <2> QED BY <1>7, <2>2 DEF PrepareOperation, TypeOK
  <1>8. ASSUME NEW w \in Workers, NEW target \in OperationTargets,
               TransitionOperation(w, target)
        PROVE  TypeOK'
    <2>1. PICK o \in operations :
            /\ << o.status, target >> \in OperationTransitions
            /\ operations' = (operations \ {o}) \cup
                               {[o EXCEPT !.status = target]}
      BY <1>8 DEF TransitionOperation
    <2>2. target \in OperationStatuses
      BY <2>1 DEF OperationTransitions, OperationStatuses
    <2>3. [o EXCEPT !.status = target] \in Operation
      BY <2>2 DEF TypeOK, Operation
    <2> QED BY <1>8, <2>1, <2>3 DEF TransitionOperation, TypeOK
  <1>9. CASE ReconcileExpiredLeases
    <2>1. jobs' \in [Jobs -> JobRow]
      BY <1>9, <1>row, RecoveredRow DEF ReconcileExpiredLeases
    <2>2. seats' \in [Seats -> SeatRow]
      BY <1>9, <1>seat DEF ReconcileExpiredLeases
    <2>3. circuits' \in [Kinds -> CircuitRow]
      BY <1>9 DEF ReconcileExpiredLeases, TypeOK, CircuitRow
    <2> QED BY <1>9, <2>1, <2>2, <2>3 DEF ReconcileExpiredLeases, TypeOK
  <1>10. ASSUME NEW c \in Controllers, WatchStep(c) PROVE TypeOK'
    <2>1. CASE ClaimLeader(c) \/ HeartbeatLeader(c) \/ ReleaseLeader(c)
      <3>1. CASE ClaimLeader(c)
        BY <3>1 DEF ClaimLeader, NextTerm, TypeOK, Leases, Owners
      <3>2. CASE HeartbeatLeader(c)
        BY <3>2 DEF HeartbeatLeader, TypeOK, Leases
      <3>3. CASE ReleaseLeader(c)
        BY <3>3 DEF ReleaseLeader, TypeOK, Leases
      <3> QED BY <2>1, <3>1, <3>2, <3>3
    <2>2. ASSUME NEW h \in handoffs, NEW d \in Decisions, NEW b \in BOOLEAN,
                 ReviewHandoff(c, h, d, b)
          PROVE  TypeOK'
      <3>1. h.job \in Jobs /\ h.fence \in Nat /\ OwnerName[c] \in Owners
        BY DEF TypeOK, Handoff, Owners
      <3>2. reviews' \subseteq Review
        BY <2>2, <3>1 DEF ReviewHandoff, TypeOK, Review
      <3>3. Reworked(jobs[h.job]) \in JobRow
        BY <3>1, <1>row, ReworkedRow
      <3>4. ReviewTarget(h.job, d) \in FabricStates
        BY DEF ReviewTarget, Decisions, FabricStates
      <3>5. jobs' \in [Jobs -> JobRow]
        BY <2>2, <3>1, <3>3, <3>4, <1>row, RowWrites
           DEF ReviewHandoff, TypeOK
      <3> QED BY <2>2, <3>2, <3>5 DEF ReviewHandoff, TypeOK
    <2> QED BY <1>10, <2>1, <2>2 DEF WatchStep
  <1>11. CASE ClockStep
    <2>1. ASSUME NEW s \in Seats, LapseLease(s) PROVE TypeOK'
      <3>1. jobs' \in [Jobs -> JobRow]
        BY <2>1, <1>row, ClockWrites DEF LapseLease, TypeOK, Leases
      <3>2. seats' \in [Seats -> SeatRow]
        BY <2>1, <1>seat, ClockWrites DEF LapseLease, TypeOK, Leases
      <3> QED BY <2>1, <3>1, <3>2 DEF LapseLease, TypeOK
    <2>2. CASE LapseLeader
      BY <2>2 DEF LapseLeader, TypeOK, Leases
    <2>3. ASSUME NEW j \in Jobs, RetryDelayElapses(j) PROVE TypeOK'
      <3>1. jobs' \in [Jobs -> JobRow]
        BY <2>3, <1>row, ClockWrites DEF RetryDelayElapses, TypeOK
      <3> QED BY <2>3, <3>1 DEF RetryDelayElapses, TypeOK
    <2>4. ASSUME NEW j \in Jobs, ApprovalExpires(j) \/ DeadlinePasses(j)
          PROVE  TypeOK'
      BY <2>4 DEF ApprovalExpires, DeadlinePasses, TypeOK
    <2>5. ASSUME NEW k \in Kinds, CooldownElapses(k) PROVE TypeOK'
      <3>1. \A row \in CircuitRow : [row EXCEPT !.due = TRUE] \in CircuitRow
        BY DEF CircuitRow
      <3>2. circuits' \in [Kinds -> CircuitRow]
        BY <2>5, <3>1 DEF CooldownElapses, TypeOK
      <3> QED BY <2>5, <3>2 DEF CooldownElapses, TypeOK
    <2> QED BY <1>11, <2>1, <2>2, <2>3, <2>4, <2>5 DEF ClockStep
  <1>12. ASSUME NEW o \in operations, NEW target \in OperationTargets,
                SettleOperation(o, target)
         PROVE  TypeOK'
    <2>1. target \in OperationStatuses
      BY <1>12 DEF SettleOperation, OperationTransitions, OperationStatuses
    <2>2. [o EXCEPT !.status = target] \in Operation
      BY <2>1 DEF TypeOK, Operation
    <2> QED BY <1>12, <2>2 DEF SettleOperation, TypeOK
  <1>worker. ASSUME NEW w \in Workers, WorkerStep(w) PROVE TypeOK'
    <2>1. ASSUME \/ Heartbeat(w)
                 \/ \E p \in {"NONE", "UNCERTAIN_PARTIAL"} :
                       ReleaseForReview(w, p)
                 \/ AcknowledgeCancel(w)
                 \/ SafeRetry(w)
                 \/ QuarantineCurrent(w)
          PROVE  Holds(w) /\ UNCHANGED << circuits, held >>
      BY <2>1 DEF Heartbeat, ReleaseForReview, AcknowledgeCancel, SafeRetry,
                  QuarantineCurrent, WorkerCurrent
    <2> QED BY <1>worker, <1>3, <1>4, <1>5, <1>6, <1>7, <1>8, <2>1
            DEF WorkerStep
  <1> QED BY <1>1, <1>2, <1>9, <1>10, <1>11, <1>12, <1>worker DEF Next

\* Every row keeps the shape of its table.
THEOREM TypeCorrect == Spec => []TypeOK
  BY TypeInit, TypeNext, PTL DEF Spec
-----------------------------------------------------------------------------
(* Claims: the two tables agree and the fence identifies the claim          *)

\* No two threads hold a token of one claim.
TokensDiffer ==
    \A v, w \in Workers :
        /\ v # w
        /\ Holds(v)
        /\ Holds(w)
        /\ held[v].job = held[w].job
        => held[v].fence # held[w].fence

ClaimInv ==
    TypeOK /\ SeatJobAgreement /\ FenceIdentifiesClaim /\ TokensDiffer

\* The steps, by what they do to claims.  Most leave every claim as it is; a
\* job without one may still get a new fence.
KeepsClaims ==
    /\ UNCHANGED << seats, held >>
    /\ \A j \in Jobs :
          /\ Running(j)' <=> Running(j)
          /\ jobs'[j].seat_id = jobs[j].seat_id
          /\ jobs'[j].lease_owner = jobs[j].lease_owner
          /\ jobs'[j].lease = jobs[j].lease
          /\ jobs'[j].fence >= jobs[j].fence
          /\ Running(j) => jobs'[j].fence = jobs[j].fence

\* The claims of the seats in S end.
EndsClaims(S) ==
    /\ held' = held
    /\ \A s \in S :
          /\ s \in Seats
          /\ seats[s].state = "RUNNING"
          /\ seats'[s].state = "FREE"
          /\ seats'[s].current_job = NoJob
          /\ seats'[s].lease_owner = NoOwner
          /\ seats'[s].lease = "NONE"
          /\ seats'[s].fence >= seats[s].fence
    /\ \A s \in Seats \ S : seats'[s] = seats[s]
    /\ \A j \in Jobs :
          IF Running(j) /\ jobs[j].seat_id \in S
          THEN /\ ~Running(j)'
               /\ jobs'[j].seat_id = NoSeat
               /\ jobs'[j].lease_owner = NoOwner
               /\ jobs'[j].lease = "NONE"
               /\ jobs'[j].fence = jobs[j].fence + 1
          ELSE jobs'[j] = jobs[j]

\* The lease of the claim on seat s is written in both tables; no lease that
\* has lapsed is revived.
WritesLease(s) ==
    /\ held' = held
    /\ seats[s].state = "RUNNING"
    /\ seats[s].lease = "LIVE"
    /\ \E lease \in {"LIVE", "LAPSED"} :
          /\ seats' = [seats EXCEPT ![s].lease = lease]
          /\ jobs' = [jobs EXCEPT ![seats[s].current_job].lease = lease]

\* Thread w claims job j on seat s, beside jobs it may run with.
TakesClaim(w, j, s) ==
    /\ seats[s].state = "FREE"
    /\ ~Running(j)
    /\ \A k \in ActiveJobs : MayOverlapInTime(j, k)
    /\ \A k \in Jobs \ {j} :
          /\ Running(k)' <=> Running(k)
          /\ jobs'[k].seat_id = jobs[k].seat_id
          /\ jobs'[k].lease_owner = jobs[k].lease_owner
          /\ jobs'[k].lease = jobs[k].lease
          /\ jobs'[k].fence = jobs[k].fence
    /\ jobs'[j].fabric_state = "RUNNING"
    /\ jobs'[j].seat_id = s
    /\ jobs'[j].lease_owner = OwnerName[w]
    /\ jobs'[j].lease = "LIVE"
    /\ jobs'[j].fence = jobs[j].fence + 1
    /\ seats' = [seats EXCEPT ![s] = TakenSeat(s, w, j)]
    /\ held' = [held EXCEPT ![w] =
                  [ job |-> j, seat |-> s, fence |-> jobs[j].fence + 1,
                    seat_fence |-> TakenSeat(s, w, j).fence ]]

\* Thread w gives its token up.
LosesToken(w) ==
    /\ UNCHANGED << jobs, seats >>
    /\ ~Holds(w)'
    /\ \A v \in Workers \ {w} : held'[v] = held[v]

\* What the types say of a token and of the fences it is compared with.
LEMMA Fences ==
    ASSUME TypeOK
    PROVE  /\ \A j \in Jobs : jobs[j].fence \in Nat
           /\ \A s \in Seats : seats[s].fence \in Nat
           /\ \A w \in Workers : Holds(w) =>
                 /\ held[w].job \in Jobs
                 /\ held[w].fence \in Nat
                 /\ held[w].seat_fence \in Nat
  <1>1. \A w \in Workers : Holds(w) => held[w] \in Token
    BY DEF TypeOK, Holds
  <1> QED BY <1>1 DEF TypeOK, JobRow, SeatRow, Token

\* FenceIdentifiesClaim, for one thread that holds a token.
Genuine(w) ==
    LET t == held[w] IN
    /\ t.seat \in Seats
    /\ t.fence <= jobs[t.job].fence
    /\ t.seat_fence <= seats[t.seat].fence
    /\ t.fence = jobs[t.job].fence =>
         /\ Running(t.job)
         /\ jobs[t.job].seat_id = t.seat
         /\ jobs[t.job].lease_owner = OwnerName[w]
         /\ seats[t.seat].fence = t.seat_fence

\* The invariant, thread by thread.
LEMMA FenceIsGenuine ==
    FenceIdentifiesClaim <=> \A w \in Workers : Holds(w) => Genuine(w)
  BY DEF FenceIdentifiesClaim, Genuine

\* A step that leaves the claims alone keeps the invariant; a fence it advances
\* belongs to a job nobody runs, so no token becomes current by it.
LEMMA KeepsClaimsPreserves ==
    ASSUME ClaimInv, TypeOK', KeepsClaims
    PROVE  ClaimInv'
  <1>1. SeatJobAgreement'
    BY DEF ClaimInv, SeatJobAgreement, KeepsClaims, Running
  <1>2. ASSUME NEW w \in Workers, Holds(w) PROVE Genuine(w)'
    <2> DEFINE t == held[w]
    <2>1. t.job \in Jobs /\ t.fence \in Nat /\ jobs[t.job].fence \in Nat
      BY <1>2, Fences DEF ClaimInv
    <2>2. Genuine(w)
      BY <1>2, FenceIsGenuine DEF ClaimInv
    <2>3. /\ jobs'[t.job].fence \in Nat
          /\ jobs'[t.job].fence >= jobs[t.job].fence
      BY <2>1 DEF TypeOK, JobRow, KeepsClaims
    <2>4. t.fence = jobs'[t.job].fence => t.fence = jobs[t.job].fence
      BY <2>1, <2>2, <2>3 DEF Genuine
    <2> QED BY <2>1, <2>2, <2>3, <2>4 DEF Genuine, KeepsClaims
  <1>3. TokensDiffer'
    BY DEF ClaimInv, TokensDiffer, KeepsClaims, Holds
  <1> QED BY <1>1, <1>2, <1>3 DEF ClaimInv, KeepsClaims, FenceIdentifiesClaim, Genuine, Holds

\* Ending claims keeps the invariant: both tables are emptied together and the
\* job's new fence puts every token of the claim behind it.
LEMMA EndsClaimsPreserves ==
    ASSUME ClaimInv, TypeOK', NEW S, EndsClaims(S)
    PROVE  ClaimInv'
  <1>1. SeatJobAgreement'
    BY FabricAssumption
       DEF ClaimInv, SeatJobAgreement, EndsClaims, Running, NoSeat, Seats
  <1>2. ASSUME NEW w \in Workers, Holds(w) PROVE Genuine(w)'
    <2> DEFINE t == held[w]
    <2>1. /\ t.job \in Jobs /\ t.fence \in Nat /\ jobs[t.job].fence \in Nat
          /\ t.seat_fence \in Nat
          /\ t.seat \in Seats /\ seats[t.seat].fence \in Nat
      BY <1>2, Fences DEF ClaimInv, FenceIdentifiesClaim
    <2>2. Genuine(w)
      BY <1>2, FenceIsGenuine DEF ClaimInv
    <2>3. held'[w] = t
      BY DEF EndsClaims
    <2>4. seats'[t.seat].fence >= seats[t.seat].fence /\ seats'[t.seat].fence \in Nat
      <3>1. seats'[t.seat].fence \in Nat
        BY <2>1 DEF TypeOK, SeatRow
      <3> QED BY <2>1, <3>1 DEF EndsClaims
    <2>5. CASE Running(t.job) /\ jobs[t.job].seat_id \in S
      <3>1. jobs'[t.job].fence = jobs[t.job].fence + 1
        BY <2>1, <2>5 DEF EndsClaims
      <3> QED BY <2>1, <2>2, <2>3, <2>4, <3>1 DEF Genuine
    <2>6. CASE ~(Running(t.job) /\ jobs[t.job].seat_id \in S)
      <3>1. jobs'[t.job] = jobs[t.job]
        BY <2>1, <2>6 DEF EndsClaims
      <3>2. t.fence = jobs[t.job].fence => seats'[t.seat] = seats[t.seat]
        BY <2>1, <2>2, <2>6 DEF Genuine, EndsClaims
      <3> QED BY <2>1, <2>2, <2>3, <2>4, <3>1, <3>2 DEF Genuine, Running
    <2> QED BY <2>5, <2>6
  <1>3. TokensDiffer'
    BY DEF ClaimInv, TokensDiffer, EndsClaims, Holds
  <1> QED BY <1>1, <1>2, <1>3 DEF ClaimInv, EndsClaims, FenceIdentifiesClaim, Genuine, Holds

\* Writing one lease into both tables keeps the invariant.
LEMMA WritesLeasePreserves ==
    ASSUME ClaimInv, TypeOK', NEW s \in Seats, WritesLease(s)
    PROVE  ClaimInv'
  <1> DEFINE j == seats[s].current_job
  <1>1. PICK lease \in {"LIVE", "LAPSED"} :
           /\ seats' = [seats EXCEPT ![s].lease = lease]
           /\ jobs' = [jobs EXCEPT ![j].lease = lease]
    BY DEF WritesLease
  <1>2. j \in Jobs /\ jobs[j].seat_id = s /\ seats[s].state = "RUNNING"
    BY DEF ClaimInv, SeatJobAgreement, WritesLease
  <1>3. /\ \A k \in Jobs :
              /\ jobs'[k].fabric_state = jobs[k].fabric_state
              /\ jobs'[k].seat_id = jobs[k].seat_id
              /\ jobs'[k].lease_owner = jobs[k].lease_owner
              /\ jobs'[k].fence = jobs[k].fence
              /\ jobs'[k].lease = IF k = j THEN lease ELSE jobs[k].lease
        /\ \A r \in Seats :
              /\ seats'[r].state = seats[r].state
              /\ seats'[r].current_job = seats[r].current_job
              /\ seats'[r].lease_owner = seats[r].lease_owner
              /\ seats'[r].fence = seats[r].fence
              /\ seats'[r].lease = IF r = s THEN lease ELSE seats[r].lease
    <2>1. \A k \in Jobs : jobs[k] \in JobRow
      BY DEF ClaimInv, TypeOK
    <2>2. \A r \in Seats : seats[r] \in SeatRow
      BY DEF ClaimInv, TypeOK
    <2> QED BY <1>1, <1>2, <2>1, <2>2 DEF ClaimInv, TypeOK, JobRow, SeatRow
  <1>4. held' = held
    BY DEF WritesLease
  <1> HIDE DEF j
  <1>5. SeatJobAgreement'
    BY <1>2, <1>3 DEF ClaimInv, SeatJobAgreement, Running, j
  <1>6. FenceIdentifiesClaim'
    BY <1>3, <1>4, Fences DEF ClaimInv, FenceIdentifiesClaim, Holds, Running
  <1>7. TokensDiffer'
    BY <1>4 DEF ClaimInv, TokensDiffer, Holds
  <1> QED BY <1>5, <1>6, <1>7 DEF ClaimInv

\* A thread that forgets its token leaves fewer tokens to speak of.
LEMMA LosesTokenPreserves ==
    ASSUME ClaimInv, TypeOK', NEW w \in Workers, LosesToken(w)
    PROVE  ClaimInv'
  <1>1. SeatJobAgreement'
    BY DEF LosesToken, ClaimInv, SeatJobAgreement, Running
  <1>2. FenceIdentifiesClaim'
    BY DEF LosesToken, ClaimInv, FenceIdentifiesClaim, Holds, Running
  <1>3. TokensDiffer'
    BY DEF LosesToken, ClaimInv, TokensDiffer, Holds
  <1> QED BY <1>1, <1>2, <1>3 DEF ClaimInv

\* SeatJobAgreement, for one seat and for one job.
SeatSide(r) ==
    IF seats[r].state = "RUNNING"
    THEN /\ seats[r].current_job \in Jobs
         /\ Running(seats[r].current_job)
         /\ jobs[seats[r].current_job].seat_id = r
         /\ jobs[seats[r].current_job].lease_owner = seats[r].lease_owner
         /\ jobs[seats[r].current_job].lease = seats[r].lease
         /\ seats[r].lease # "NONE"
    ELSE /\ seats[r].current_job = NoJob
         /\ seats[r].lease_owner = NoOwner
         /\ seats[r].lease = "NONE"

JobSide(k) ==
    IF Running(k)
    THEN /\ jobs[k].seat_id \in Seats
         /\ seats[jobs[k].seat_id].state = "RUNNING"
         /\ seats[jobs[k].seat_id].current_job = k
    ELSE /\ jobs[k].seat_id = NoSeat
         /\ jobs[k].lease_owner = NoOwner
         /\ jobs[k].lease = "NONE"

\* The two tables agree when each seat and each job does its part.
LEMMA AgreementSides ==
    ASSUME (\A r \in Seats : SeatSide(r))', (\A k \in Jobs : JobSide(k))'
    PROVE  SeatJobAgreement'
  BY DEF SeatJobAgreement, SeatSide, JobSide

\* A claim keeps the invariant: its fence is one no token has carried yet, and
\* the seat it takes was free.
LEMMA TakesClaimPreserves ==
    ASSUME ClaimInv, TypeOK', NEW w \in Workers, NEW j \in Jobs,
           NEW s \in Seats, TakesClaim(w, j, s)
    PROVE  ClaimInv'
  <1>1. SeatJobAgreement'
    <2>1. /\ seats'[s].state = "RUNNING" /\ seats'[s].current_job = j
          /\ seats'[s].lease_owner = OwnerName[w] /\ seats'[s].lease = "LIVE"
          /\ \A r \in Seats \ {s} : seats'[r] = seats[r]
      BY DEF TakesClaim, TakenSeat, ClaimInv, TypeOK
    <2>2. /\ jobs'[j].fabric_state = "RUNNING" /\ jobs'[j].seat_id = s
          /\ jobs'[j].lease_owner = OwnerName[w] /\ jobs'[j].lease = "LIVE"
          /\ \A k \in Jobs \ {j} :
                /\ Running(k)' <=> Running(k)
                /\ jobs'[k].seat_id = jobs[k].seat_id
                /\ jobs'[k].lease_owner = jobs[k].lease_owner
                /\ jobs'[k].lease = jobs[k].lease
      BY DEF TakesClaim
    <2>3. seats[s].state = "FREE" /\ ~Running(j)
      BY DEF TakesClaim
    <2>4. SeatJobAgreement
      BY DEF ClaimInv
    <2>5. ASSUME NEW r \in Seats PROVE SeatSide(r)'
      <3>1. CASE r = s
        BY <2>1, <2>2, <3>1 DEF SeatSide, Running
      <3>2. CASE r # s /\ seats[r].state = "RUNNING"
        <4>1. /\ seats[r].current_job \in Jobs \ {j}
              /\ Running(seats[r].current_job)
              /\ jobs[seats[r].current_job].seat_id = r
              /\ jobs[seats[r].current_job].lease_owner = seats[r].lease_owner
              /\ jobs[seats[r].current_job].lease = seats[r].lease
              /\ seats[r].lease # "NONE"
          BY <2>3, <2>4, <3>2 DEF SeatJobAgreement
        <4> QED BY <2>1, <2>2, <3>2, <4>1 DEF SeatSide
      <3>3. CASE r # s /\ seats[r].state # "RUNNING"
        BY <2>1, <2>4, <3>3 DEF SeatJobAgreement, SeatSide
      <3> QED BY <3>1, <3>2, <3>3
    <2>6. ASSUME NEW k \in Jobs PROVE JobSide(k)'
      BY <2>1, <2>2, <2>3, <2>4 DEF SeatJobAgreement, JobSide, Running
    <2> QED BY <2>5, <2>6, AgreementSides
  <1>2. ASSUME NEW v \in Workers, Holds(v)' PROVE Genuine(v)'
    <2>1. /\ \A i \in Jobs : jobs[i].fence \in Nat
          /\ \A r \in Seats : seats[r].fence \in Nat
      BY Fences DEF ClaimInv
    <2>2. CASE v = w
      <3>1. /\ held'[w].job = j /\ held'[w].seat = s
            /\ held'[w].fence = jobs[j].fence + 1
            /\ held'[w].seat_fence = seats[s].fence + 1
        BY DEF TakesClaim, TakenSeat, ClaimInv, TypeOK
      <3>2. seats'[s].fence = seats[s].fence + 1
        BY DEF TakesClaim, TakenSeat, ClaimInv, TypeOK
      <3> QED BY <2>1, <2>2, <3>1, <3>2 DEF Genuine, TakesClaim, Running
    <2>3. CASE v # w
      <3> DEFINE t == held[v]
      <3>1. held'[v] = t /\ Holds(v)
        BY <1>2, <2>3 DEF TakesClaim, ClaimInv, TypeOK, Holds
      <3>2. Genuine(v)
        BY <3>1, FenceIsGenuine DEF ClaimInv
      <3>3. /\ t.job \in Jobs /\ t.fence \in Nat /\ t.seat_fence \in Nat
            /\ t.seat \in Seats
        BY <3>1, <3>2, Fences DEF ClaimInv, Genuine
      <3>4. \A r \in Seats : seats'[r] = IF r = s THEN TakenSeat(s, w, j)
                                                ELSE seats[r]
        BY DEF TakesClaim, ClaimInv, TypeOK
      <3>5. seats'[t.seat].fence >= seats[t.seat].fence
        BY <2>1, <3>3, <3>4 DEF TakenSeat
      <3>6. CASE t.job = j
        <4>1. jobs'[j].fence = jobs[j].fence + 1
          BY DEF TakesClaim
        <4> QED BY <2>1, <3>1, <3>2, <3>3, <3>4, <3>5, <3>6, <4>1
                DEF Genuine, TakenSeat
      <3>7. CASE t.job # j
        <4>1. /\ jobs'[t.job].fence = jobs[t.job].fence
              /\ jobs'[t.job].fabric_state \in {"RUNNING", "CANCEL_REQUESTED"}
                   <=> Running(t.job)
              /\ jobs'[t.job].seat_id = jobs[t.job].seat_id
              /\ jobs'[t.job].lease_owner = jobs[t.job].lease_owner
          BY <3>3, <3>7 DEF TakesClaim, Running
        <4>2. t.fence = jobs[t.job].fence => t.seat # s
          BY <3>2, <3>3 DEF Genuine, TakesClaim, ClaimInv, SeatJobAgreement
        <4>3. t.fence <= jobs'[t.job].fence /\ t.seat_fence <= seats'[t.seat].fence
          BY <2>1, <3>2, <3>3, <3>4, <3>5, <4>1 DEF Genuine, TakenSeat
        <4>4. t.fence = jobs'[t.job].fence =>
                /\ jobs'[t.job].fabric_state \in {"RUNNING", "CANCEL_REQUESTED"}
                /\ jobs'[t.job].seat_id = t.seat
                /\ jobs'[t.job].lease_owner = OwnerName[v]
                /\ seats'[t.seat].fence = t.seat_fence
          BY <3>2, <3>3, <3>4, <4>1, <4>2 DEF Genuine
        <4> QED BY <3>1, <3>3, <4>3, <4>4 DEF Genuine, Running
      <3> QED BY <3>6, <3>7
    <2> QED BY <2>2, <2>3
  <1>3. TokensDiffer'
    BY Fences DEF ClaimInv, TypeOK, TokensDiffer, FenceIdentifiesClaim, TakesClaim, Holds
  <1>4. FenceIdentifiesClaim'
    BY <1>2 DEF FenceIdentifiesClaim, Genuine
  <1> QED BY <1>1, <1>3, <1>4 DEF ClaimInv

\* Intake, owner authority, WATCH, the sweep and the clocks keep every claim.
LEMMA OutsideKeepsClaims ==
    ASSUME ClaimInv,
           \/ \E j \in Jobs : OwnerStep(j) \/ RetryDelayElapses(j)
           \/ \E w \in Workers : \E locked : ClaimNothing(w, locked)
           \/ \E c \in Controllers : WatchStep(c)
           \/ UNCHANGED << jobs, seats, held >>
    PROVE  KeepsClaims
  <1>row. \A k \in Jobs : jobs[k] \in JobRow
    BY DEF ClaimInv, TypeOK
  <1>dom. DOMAIN jobs = Jobs /\ jobs \in [Jobs -> JobRow]
    BY DEF ClaimInv, TypeOK
  <1>fence. \A k \in Jobs : jobs[k].fence \in Nat
    BY Fences DEF ClaimInv
  <1>0. ASSUME UNCHANGED << jobs, seats, held >> PROVE KeepsClaims
    BY <1>0, <1>fence DEF KeepsClaims, Running
  <1>1. ASSUME NEW j \in Jobs, Submit(j) PROVE KeepsClaims
    BY <1>1, <1>row, <1>dom, <1>fence DEF Submit, KeepsClaims, Running, JobRow
  <1>2. ASSUME NEW j \in Jobs, ApproveJob(j) PROVE KeepsClaims
    <2>1. CASE jobs' = jobs
      BY <1>0, <1>2, <2>1 DEF ApproveJob
    <2>2. CASE jobs[j].fabric_state = "BLOCKED_OWNER" /\ ~jobs[j].cancel
      BY <1>2, <2>2, <1>row, <1>dom, <1>fence
         DEF ApproveJob, KeepsClaims, Running, JobRow
    <2> QED BY <1>2, <2>1, <2>2 DEF ApproveJob
  <1>3. ASSUME NEW j \in Jobs, RevokeJob(j) PROVE KeepsClaims
    <2>1. CASE Running(j)
      BY <1>3, <2>1, <1>row, <1>dom, <1>fence
         DEF RevokeJob, KeepsClaims, Running, JobRow
    <2>2. CASE ~Running(j)
      BY <1>3, <2>2, <1>row, <1>dom, <1>fence
         DEF RevokeJob, KeepsClaims, Running, JobRow
    <2> QED BY <2>1, <2>2
  <1>4. ASSUME NEW j \in Jobs, RequestCancel(j) PROVE KeepsClaims
    <2>1. CASE Running(j)
      BY <1>4, <2>1, <1>row, <1>dom, <1>fence
         DEF RequestCancel, KeepsClaims, Running, JobRow
    <2>2. CASE ~Running(j)
      <3>1. /\ jobs[j].seat_id = NoSeat
            /\ jobs[j].lease_owner = NoOwner
            /\ jobs[j].lease = "NONE"
        BY <2>2 DEF ClaimInv, SeatJobAgreement
      <3>2. /\ Disowned(jobs[j]) \in JobRow
            /\ Disowned(jobs[j]).fence = jobs[j].fence + 1
            /\ Disowned(jobs[j]).seat_id = NoSeat
            /\ Disowned(jobs[j]).lease_owner = NoOwner
            /\ Disowned(jobs[j]).lease = "NONE"
        BY <1>row, DisownedRow
      <3>3. jobs' = [jobs EXCEPT ![j] =
                       [Disowned(jobs[j]) EXCEPT !.fabric_state = "CANCELLED",
                                                 !.cancel = TRUE]]
        BY <1>4, <2>2 DEF RequestCancel
      <3>4. /\ jobs'[j].fabric_state = "CANCELLED"
            /\ jobs'[j].fence = jobs[j].fence + 1
            /\ jobs'[j].seat_id = NoSeat
            /\ jobs'[j].lease_owner = NoOwner
            /\ jobs'[j].lease = "NONE"
        BY <3>2, <3>3, <1>dom DEF JobRow
      <3>5. \A k \in Jobs \ {j} : jobs'[k] = jobs[k]
        BY <3>3, <1>dom
      <3> QED BY <1>4, <2>2, <3>1, <3>4, <3>5, <1>fence
              DEF RequestCancel, KeepsClaims, Running
    <2> QED BY <2>1, <2>2
  <1>5. ASSUME NEW j \in Jobs, RetryDelayElapses(j) PROVE KeepsClaims
    BY <1>5, <1>row, <1>dom, <1>fence
       DEF RetryDelayElapses, KeepsClaims, Running, JobRow
  <1>6. ASSUME NEW w \in Workers, NEW locked, ClaimNothing(w, locked)
        PROVE  KeepsClaims
    <2>1. \A k \in Jobs : jobs'[k] = jobs[k] \/
             /\ Queued(k)
             /\ jobs'[k] = [jobs[k] EXCEPT !.fabric_state = "STALE",
                                           !.delayed = FALSE]
      BY <1>6 DEF ClaimNothing, StaleMarked
    <2>2. ASSUME NEW k \in Jobs, jobs'[k] # jobs[k]
          PROVE  /\ ~Running(k)
                 /\ jobs'[k].fabric_state = "STALE"
                 /\ jobs'[k].seat_id = jobs[k].seat_id
                 /\ jobs'[k].lease_owner = jobs[k].lease_owner
                 /\ jobs'[k].lease = jobs[k].lease
                 /\ jobs'[k].fence = jobs[k].fence
      <3>1. \A r \in JobRow :
               LET stale == [r EXCEPT !.fabric_state = "STALE",
                                      !.delayed = FALSE] IN
               /\ stale.fabric_state = "STALE"
               /\ stale.seat_id = r.seat_id
               /\ stale.lease_owner = r.lease_owner
               /\ stale.lease = r.lease
               /\ stale.fence = r.fence
        BY DEF JobRow
      <3>2. Queued(k) => ~Running(k)
        BY DEF Queued, Running
      <3>3. /\ Queued(k)
            /\ jobs'[k] = [jobs[k] EXCEPT !.fabric_state = "STALE",
                                          !.delayed = FALSE]
        BY <2>1, <2>2
      <3>4. jobs[k] \in JobRow
        BY <1>row
      <3> QED BY <3>1, <3>2, <3>3, <3>4
    <2>3. UNCHANGED << seats, held >>
      BY <1>6 DEF ClaimNothing
    <2> QED BY <2>2, <2>3, <1>fence DEF KeepsClaims, Running
  <1>7. ASSUME NEW c \in Controllers, NEW h \in handoffs, NEW d \in Decisions,
               NEW b \in BOOLEAN, ReviewHandoff(c, h, d, b)
        PROVE  KeepsClaims
    <2>1. h.job \in Jobs
      BY DEF ClaimInv, TypeOK, Handoff
    <2>2. /\ ~Running(h.job)
          /\ UNCHANGED << seats, held >>
      BY <1>7 DEF ReviewHandoff, Reviewable, Running
    <2>3. ASSUME d = "REWORK" PROVE KeepsClaims
      <3>1. jobs' = [jobs EXCEPT ![h.job] = Reworked(jobs[h.job])]
        BY <1>7, <2>3 DEF ReviewHandoff
      <3>2. /\ Reworked(jobs[h.job]).fabric_state = "REWORK_QUEUED"
            /\ Reworked(jobs[h.job]).fence = jobs[h.job].fence
            /\ Reworked(jobs[h.job]).seat_id = jobs[h.job].seat_id
            /\ Reworked(jobs[h.job]).lease_owner = jobs[h.job].lease_owner
            /\ Reworked(jobs[h.job]).lease = jobs[h.job].lease
        BY <1>row, <2>1 DEF Reworked, JobRow
      <3>3. \A k \in Jobs \ {h.job} : jobs'[k] = jobs[k]
        BY <3>1, <1>dom
      <3>4. jobs'[h.job] = Reworked(jobs[h.job])
        BY <3>1, <1>dom, <2>1
      <3> QED BY <2>1, <2>2, <3>2, <3>3, <3>4, <1>fence DEF KeepsClaims, Running
    <2>4. ASSUME d # "REWORK" PROVE KeepsClaims
      <3>1. jobs' = [jobs EXCEPT ![h.job] =
                       [jobs[h.job] EXCEPT
                          !.fabric_state = ReviewTarget(h.job, d)]]
        BY <1>7, <2>4 DEF ReviewHandoff
      <3>2. ReviewTarget(h.job, d) \notin {"RUNNING", "CANCEL_REQUESTED"}
        BY <2>4, <2>2 DEF ReviewTarget, Decisions, Running
      <3>3. \A k \in Jobs \ {h.job} : jobs'[k] = jobs[k]
        BY <3>1, <1>dom
      <3>4. /\ jobs'[h.job].fabric_state = ReviewTarget(h.job, d)
            /\ jobs'[h.job].fence = jobs[h.job].fence
            /\ jobs'[h.job].seat_id = jobs[h.job].seat_id
            /\ jobs'[h.job].lease_owner = jobs[h.job].lease_owner
            /\ jobs'[h.job].lease = jobs[h.job].lease
        BY <3>1, <1>row, <1>dom, <2>1 DEF JobRow
      <3> QED BY <2>1, <2>2, <3>2, <3>3, <3>4, <1>fence DEF KeepsClaims, Running
    <2> QED BY <2>3, <2>4
  <1>8. ASSUME NEW c \in Controllers, WatchStep(c) PROVE KeepsClaims
    BY <1>0, <1>7, <1>8
       DEF WatchStep, ClaimLeader, HeartbeatLeader, ReleaseLeader
  <1> QED BY <1>0, <1>1, <1>2, <1>3, <1>4, <1>5, <1>6, <1>8 DEF OwnerStep

\* A job row outside a claim, with its fence; the seat row it leaves behind.
Unclaimed(row, fence) ==
    /\ row \in JobRow
    /\ row.fabric_state \notin {"RUNNING", "CANCEL_REQUESTED"}
    /\ row.seat_id = NoSeat
    /\ row.lease_owner = NoOwner
    /\ row.lease = "NONE"
    /\ row.fence = fence

Emptied(row, fence) ==
    /\ row.state = "FREE"
    /\ row.current_job = NoJob
    /\ row.lease_owner = NoOwner
    /\ row.lease = "NONE"
    /\ row.fence >= fence

\* What the handlers write beside Disowned does not touch the claim.
LEMMA UnclaimedRow ==
    ASSUME NEW row \in JobRow,
           NEW state \in FabricStates \ {"RUNNING", "CANCEL_REQUESTED"}
    PROVE  LET base == Disowned(row) IN
           /\ Unclaimed([base EXCEPT !.fabric_state = state], row.fence + 1)
           /\ \A b \in BOOLEAN :
                 Unclaimed([base EXCEPT !.fabric_state = state, !.delayed = b],
                           row.fence + 1)
           /\ \A n \in Nat :
                 Unclaimed([base EXCEPT !.fabric_state = state,
                                        !.checkpoint_ref = n], row.fence + 1)
  <1> DEFINE base == Disowned(row)
  <1>1. /\ base \in JobRow /\ base.seat_id = NoSeat
        /\ base.lease_owner = NoOwner /\ base.lease = "NONE"
        /\ base.fence = row.fence + 1
    BY DisownedRow
  <1> HIDE DEF base
  <1>2. Unclaimed([base EXCEPT !.fabric_state = state], row.fence + 1)
    BY <1>1 DEF Unclaimed, JobRow
  <1>3. ASSUME NEW b \in BOOLEAN
        PROVE  Unclaimed([base EXCEPT !.fabric_state = state, !.delayed = b],
                         row.fence + 1)
    BY <1>1 DEF Unclaimed, JobRow
  <1>4. ASSUME NEW n \in Nat
        PROVE  Unclaimed([base EXCEPT !.fabric_state = state,
                                      !.checkpoint_ref = n], row.fence + 1)
    BY <1>1 DEF Unclaimed, JobRow
  <1> QED BY <1>2, <1>3, <1>4 DEF base

\* Both ways of freeing a seat empty its row and take no fence back.
LEMMA EmptiedRow ==
    ASSUME NEW row \in SeatRow
    PROVE  Emptied(Vacated(row), row.fence) /\ Emptied(Freed(row), row.fence)
  BY VacatedRow, FreedRow DEF Emptied, SeatRow

\* A worker that ends its claim ends that claim only, in both tables.
LEMMA EndOfClaim ==
    ASSUME ClaimInv, NEW w \in Workers, WorkerCurrent(w),
           UNCHANGED held,
           NEW row, Unclaimed(row, jobs[held[w].job].fence + 1),
           NEW empty, Emptied(empty, seats[held[w].seat].fence),
           jobs' = [jobs EXCEPT ![held[w].job] = row],
           seats' = [seats EXCEPT ![held[w].seat] = empty]
    PROVE  EndsClaims({held[w].seat})
  <1> DEFINE j == held[w].job
             s == held[w].seat
  <1>1. /\ j \in Jobs /\ s \in Seats
        /\ Running(j) /\ jobs[j].seat_id = s
        /\ seats[s].state = "RUNNING" /\ seats[s].current_job = j
    BY Fences DEF ClaimInv, FenceIdentifiesClaim, WorkerCurrent, SeatProves, JobProves
  <1>2. /\ jobs'[j] = row /\ \A k \in Jobs \ {j} : jobs'[k] = jobs[k]
        /\ seats'[s] = empty /\ \A r \in Seats \ {s} : seats'[r] = seats[r]
    BY <1>1 DEF ClaimInv, TypeOK
  <1>3. \A k \in Jobs : Running(k) /\ jobs[k].seat_id \in {s} => k = j
    BY <1>1 DEF ClaimInv, SeatJobAgreement
  <1> HIDE DEF j, s
  <1>4. EndsClaims({s})
    BY <1>1, <1>2, <1>3 DEF EndsClaims, Running, Unclaimed, Emptied, j, s
  <1> QED BY <1>4 DEF s

\* Release, cancel, retry and quarantine each end exactly the caller's claim.
LEMMA WorkerEndsClaim ==
    ASSUME ClaimInv, NEW w \in Workers,
           \/ \E p \in {"NONE", "UNCERTAIN_PARTIAL"} : ReleaseForReview(w, p)
           \/ AcknowledgeCancel(w)
           \/ SafeRetry(w)
           \/ QuarantineCurrent(w)
    PROVE  EndsClaims({held[w].seat})
  <1> DEFINE j == held[w].job
             s == held[w].seat
             base == Disowned(jobs[j])
  <1>1. WorkerCurrent(w) /\ UNCHANGED held
    BY DEF ReleaseForReview, AcknowledgeCancel, SafeRetry, QuarantineCurrent
  <1>2. j \in Jobs /\ s \in Seats /\ held[w].fence \in Nat
    BY <1>1, Fences DEF ClaimInv, FenceIdentifiesClaim, WorkerCurrent
  <1>3. jobs[j] \in JobRow /\ seats[s] \in SeatRow
    BY <1>2 DEF ClaimInv, TypeOK
  <1>4. \E row : /\ Unclaimed(row, jobs[j].fence + 1)
                 /\ jobs' = [jobs EXCEPT ![j] = row]
    <2>1. ASSUME NEW p \in {"NONE", "UNCERTAIN_PARTIAL"}, ReleaseForReview(w, p)
          PROVE  \E state \in {"QUARANTINED", "HANDOFF_PENDING_REVIEW"} :
                    jobs' = [jobs EXCEPT ![j] =
                               [base EXCEPT !.fabric_state = state,
                                            !.checkpoint_ref = held[w].fence]]
      BY <2>1 DEF ReleaseForReview
    <2>2. ASSUME AcknowledgeCancel(w)
          PROVE  \E state \in {"QUARANTINED", "CANCELLED"} :
                    jobs' = [jobs EXCEPT ![j] =
                               [base EXCEPT !.fabric_state = state]]
      BY <2>2 DEF AcknowledgeCancel
    <2>3. ASSUME SafeRetry(w)
          PROVE  jobs' = [jobs EXCEPT ![j] =
                            [base EXCEPT !.fabric_state = "QUEUED",
                                         !.delayed = TRUE]]
      BY <2>3 DEF SafeRetry
    <2>4. ASSUME QuarantineCurrent(w)
          PROVE  jobs' = [jobs EXCEPT ![j] =
                            [base EXCEPT !.fabric_state = "QUARANTINED"]]
      BY <2>4 DEF QuarantineCurrent
    <2>5. {"QUARANTINED", "HANDOFF_PENDING_REVIEW", "CANCELLED", "QUEUED"}
            \subseteq FabricStates \ {"RUNNING", "CANCEL_REQUESTED"}
      BY DEF FabricStates
    <2>6. \A state \in {"QUARANTINED", "HANDOFF_PENDING_REVIEW", "CANCELLED",
                        "QUEUED"} :
             /\ Unclaimed([base EXCEPT !.fabric_state = state],
                          jobs[j].fence + 1)
             /\ Unclaimed([base EXCEPT !.fabric_state = state,
                                       !.delayed = TRUE], jobs[j].fence + 1)
             /\ Unclaimed([base EXCEPT !.fabric_state = state,
                                       !.checkpoint_ref = held[w].fence],
                          jobs[j].fence + 1)
      BY <1>2, <1>3, <2>5, UnclaimedRow
    <2> HIDE DEF base
    <2> QED BY <2>1, <2>2, <2>3, <2>4, <2>6
  <1>5. \E empty : /\ Emptied(empty, seats[s].fence)
                   /\ seats' = [seats EXCEPT ![s] = empty]
    <2>1. seats' \in { [seats EXCEPT ![s] = Vacated(seats[s])],
                      [seats EXCEPT ![s] = Freed(seats[s])] }
      BY DEF ReleaseForReview, AcknowledgeCancel, SafeRetry, QuarantineCurrent
    <2> QED BY <2>1, <1>3, EmptiedRow
  <1> QED BY <1>1, <1>4, <1>5, EndOfClaim

\* Reconciliation ends the claims of all lapsed seats at once, and no other.
LEMMA ReconcileEndsClaims ==
    ASSUME ClaimInv, ReconcileExpiredLeases
    PROVE  EndsClaims(LapsedSeats)
  <1>1. \A s \in LapsedSeats :
           /\ s \in Seats
           /\ seats[s].state = "RUNNING"
           /\ Emptied(seats'[s], seats[s].fence)
    BY EmptiedRow DEF ReconcileExpiredLeases, LapsedSeats, ClaimInv, TypeOK
  <1>2. \A s \in Seats \ LapsedSeats : seats'[s] = seats[s]
    BY DEF ReconcileExpiredLeases
  <1>3. ASSUME NEW j \in Jobs
        PROVE  j \in LapsedJobs <=> Running(j) /\ jobs[j].seat_id \in LapsedSeats
    BY DEF LapsedJobs, LapsedSeats, ClaimInv, SeatJobAgreement
  <1>4. ASSUME NEW j \in LapsedJobs
        PROVE  /\ ~Running(j)'
               /\ jobs'[j].seat_id = NoSeat
               /\ jobs'[j].lease_owner = NoOwner
               /\ jobs'[j].lease = "NONE"
               /\ jobs'[j].fence = jobs[j].fence + 1
    <2>1. j \in Jobs
      BY DEF LapsedJobs, LapsedSeats, ClaimInv, SeatJobAgreement
    <2>2. jobs'[j] = Recovered(j)
      BY <2>1 DEF ReconcileExpiredLeases
    <2> QED BY <2>1, <2>2, RecoveredRow DEF ClaimInv, Running
  <1>5. \A j \in Jobs \ LapsedJobs : jobs'[j] = jobs[j]
    BY DEF ReconcileExpiredLeases
  <1>6. held' = held
    BY DEF ReconcileExpiredLeases
  <1> QED BY <1>1, <1>2, <1>3, <1>4, <1>5, <1>6 DEF EndsClaims, Emptied

\* A heartbeat and a lapse each write one lease, into both tables.
LEMMA LeaseIsWritten ==
    ASSUME ClaimInv,
           \/ \E w \in Workers : Heartbeat(w)
           \/ \E s \in Seats : LapseLease(s)
    PROVE  \E s \in Seats : WritesLease(s)
  <1>1. ASSUME NEW w \in Workers, Heartbeat(w)
        PROVE  WritesLease(held[w].seat) /\ held[w].seat \in Seats
    BY <1>1 DEF Heartbeat, WritesLease, ClaimInv, FenceIdentifiesClaim,
                WorkerCurrent, SeatProves
  <1>2. ASSUME NEW s \in Seats, LapseLease(s) PROVE WritesLease(s)
    BY <1>2 DEF LapseLease, WritesLease
  <1> QED BY <1>1, <1>2

\* Overlap of scopes does not depend on the order of the two jobs.
LEMMA OverlapIsSymmetric ==
    ASSUME Envelope \in [Jobs -> EnvelopeType], NEW j \in Jobs, NEW k \in Jobs
    PROVE  MayOverlapInTime(j, k) => MayOverlapInTime(k, j)
  <1>1. ASSUME NEW a \in ScopeEntries, NEW b \in ScopeEntries,
               EntriesOverlap(a, b)
        PROVE  EntriesOverlap(b, a)
    <2>1. Len(a) \in Nat /\ Len(b) \in Nat /\ Shortest(a, b) = Shortest(b, a)
      BY DEF ScopeEntries, Shortest
    <2> QED BY <1>1, <2>1 DEF EntriesOverlap
  <1>2. ASSUME NEW X \in SUBSET ScopeEntries, NEW Y \in SUBSET ScopeEntries,
               ScopesOverlap(X, Y)
        PROVE  ScopesOverlap(Y, X)
    BY <1>1, <1>2 DEF ScopesOverlap
  <1>3. ASSUME NEW i \in Jobs
        PROVE  /\ Mutations(i) \in SUBSET ScopeEntries
               /\ Reads(i) \in SUBSET ScopeEntries
               /\ Resources(i) \in SUBSET ScopeEntries
    BY DEF EnvelopeType, Mutations, Reads, Resources
  <1>4. ScopeConflict(k, j) => ScopeConflict(j, k)
    BY <1>2, <1>3 DEF ScopeConflict
  <1>5. ResourceConflict(k, j) => ResourceConflict(j, k)
    BY <1>2, <1>3 DEF ResourceConflict
  <1> QED BY <1>4, <1>5 DEF MayOverlapInTime

\* What claim_next asks of a candidate is enough for it to run beside every
\* active job, whichever of the two is asked.
LEMMA AdmissionIsolates ==
    ASSUME NEW j \in Jobs, NEW active \in SUBSET Jobs, j \notin active,
           NEW completed, NEW unresolved,
           ConcurrencyAllowed(j, active, completed, unresolved)
    PROVE  \A k \in active : MayOverlapInTime(j, k)
  <1> SUFFICES ASSUME NEW k \in active PROVE MayOverlapInTime(j, k)
    OBVIOUS
  <1>1. /\ Class(j) # "E" /\ Class(k) # "E" /\ ~ClassConflict(j, k)
        /\ ValidScopes(j) /\ ValidScopes(k)
    BY DEF ConcurrencyAllowed
  <1>2. Class(j) \in Classes /\ Class(k) \in Classes
    BY EnvelopeAssumption DEF EnvelopeType, Class
  <1>3. CASE Class(j) = "A"
    <2>1. Mutations(j) = {} /\ ~ScopesOverlap(Reads(j), Mutations(k))
      BY <1>1, <1>3 DEF ValidScopes, ClassConflict
    <2>2. ~ScopeConflict(j, k)
      BY <2>1 DEF ScopeConflict, ScopesOverlap
    <2> QED BY <1>1, <1>3, <2>2 DEF MayOverlapInTime, Serialized
  <1>4. CASE Class(j) \in {"B", "C", "D"}
    BY <1>1, <1>4 DEF ClassConflict, MayOverlapInTime, Serialized
  <1> QED BY <1>1, <1>2, <1>3, <1>4 DEF Classes

\* The claim is written for the first free seat; the sweep that goes with it
\* touches no claim.
LEMMA ClaimIsTaken ==
    ASSUME ClaimInv, NEW w \in Workers, NEW j \in Jobs, NEW locked,
           ClaimJob(w, j, locked)
    PROVE  \E s \in Seats : TakesClaim(w, j, s)
  <1>1. PICK s \in Seats :
           /\ seats[s].state = "FREE"
           /\ jobs' = [StaleMarked EXCEPT ![j] = Claimed(@, s, OwnerName[w])]
           /\ seats' = [seats EXCEPT ![s] = TakenSeat(s, w, j)]
           /\ held' = [held EXCEPT ![w] =
                         [ job |-> j, seat |-> s, fence |-> jobs[j].fence + 1,
                           seat_fence |-> TakenSeat(s, w, j).fence ]]
    BY DEF ClaimJob, FirstFree, FreeSeats
  <1>2. Queued(j) /\ jobs[j].source_version = version
    BY DEF ClaimJob, Examined, Candidates
  <1>3. StaleMarked[j] = jobs[j]
    BY <1>2 DEF StaleMarked
  <1>4. jobs[j] \in JobRow /\ s \in Nat /\ OwnerName[w] \in Owners
    BY FabricAssumption DEF ClaimInv, TypeOK, Seats, Owners
  <1>5. jobs'[j] = Claimed(jobs[j], s, OwnerName[w])
    <2>1. DOMAIN StaleMarked = Jobs
      BY DEF StaleMarked
    <2> QED BY <1>1, <1>3, <2>1
  <1>6. ASSUME NEW k \in Jobs \ {j}
        PROVE  /\ Running(k)' <=> Running(k)
               /\ jobs'[k].seat_id = jobs[k].seat_id
               /\ jobs'[k].lease_owner = jobs[k].lease_owner
               /\ jobs'[k].lease = jobs[k].lease
               /\ jobs'[k].fence = jobs[k].fence
    <2>1. jobs[k] \in JobRow
      BY DEF ClaimInv, TypeOK
    <2>2. jobs'[k] = StaleMarked[k]
      BY <1>1 DEF StaleMarked
    <2>3. CASE jobs'[k] = jobs[k]
      BY <2>3 DEF Running
    <2>4. CASE /\ Queued(k)
               /\ jobs'[k] = [jobs[k] EXCEPT !.fabric_state = "STALE",
                                             !.delayed = FALSE]
      BY <2>1, <2>4 DEF JobRow, Queued, Running
    <2> QED BY <2>2, <2>3, <2>4 DEF StaleMarked
  <1>7. ~Running(j)
    BY <1>2 DEF Queued, Running
  <1>9. \A k \in ActiveJobs : MayOverlapInTime(j, k)
    <2>1. j \notin ActiveJobs /\ ActiveJobs \in SUBSET Jobs
      BY <1>7 DEF ActiveJobs
    <2> QED BY <2>1, AdmissionIsolates DEF ClaimJob, Admissible
  <1>8. /\ jobs'[j].fabric_state = "RUNNING"
        /\ jobs'[j].seat_id = s
        /\ jobs'[j].lease_owner = OwnerName[w]
        /\ jobs'[j].lease = "LIVE"
        /\ jobs'[j].fence = jobs[j].fence + 1
    BY <1>4, <1>5, ClaimedRow
  <1> QED BY <1>1, <1>6, <1>7, <1>8, <1>9 DEF TakesClaim

\* No claim exists at first.
LEMMA ClaimInit == Init => ClaimInv
  <1> SUFFICES ASSUME Init PROVE ClaimInv
    OBVIOUS
  <1>1. SeatJobAgreement
    BY DEF Init, SeatJobAgreement, NewJob, Running
  <1>2. \A w \in Workers : ~Holds(w)
    BY DEF Init, Holds
  <1> QED BY <1>1, <1>2, TypeInit
          DEF ClaimInv, FenceIdentifiesClaim, TokensDiffer

\* Every step of the fabric is of one of the five kinds.
LEMMA StepKinds ==
    ASSUME ClaimInv, [Next]_vars
    PROVE  \/ KeepsClaims
           \/ \E S \in SUBSET Seats : EndsClaims(S)
           \/ \E s \in Seats : WritesLease(s)
           \/ \E w \in Workers, j \in Jobs, s \in Seats : TakesClaim(w, j, s)
           \/ \E w \in Workers : LosesToken(w)
  <1> DEFINE Kind ==
        \/ KeepsClaims
        \/ \E S \in SUBSET Seats : EndsClaims(S)
        \/ \E s \in Seats : WritesLease(s)
        \/ \E w \in Workers, j \in Jobs, s \in Seats : TakesClaim(w, j, s)
        \/ \E w \in Workers : LosesToken(w)
  <1>same. ASSUME UNCHANGED << jobs, seats, held >> PROVE KeepsClaims
    BY <1>same, OutsideKeepsClaims
  <1>ends. ASSUME NEW S, EndsClaims(S) PROVE \E T \in SUBSET Seats : EndsClaims(T)
    <2>1. S \in SUBSET Seats
      BY <1>ends DEF EndsClaims
    <2> QED BY <1>ends, <2>1
  <1>1. ASSUME NEW w \in Workers, WorkerStep(w) PROVE Kind
    <2>1. ASSUME NEW locked, ClaimNext(w, locked) PROVE Kind
      <3>1. ASSUME NEW j \in Jobs, ClaimJob(w, j, locked) PROVE Kind
        BY <3>1, ClaimIsTaken
      <3>2. CASE ClaimNothing(w, locked)
        BY <3>2, OutsideKeepsClaims
      <3> QED BY <2>1, <3>1, <3>2 DEF ClaimNext
    <2>2. CASE Heartbeat(w)
      BY <2>2, LeaseIsWritten
    <2>3. CASE \/ \E p \in {"NONE", "UNCERTAIN_PARTIAL"} :
                     ReleaseForReview(w, p)
               \/ AcknowledgeCancel(w)
               \/ SafeRetry(w)
               \/ QuarantineCurrent(w)
      BY <2>3, <1>ends, WorkerEndsClaim
    <2>4. CASE DropToken(w)
      <3>1. LosesToken(w)
        BY <2>4 DEF DropToken, LosesToken, ClaimInv, TypeOK, Holds
      <3> QED BY <3>1
    <2>5. CASE \/ RecordAdapterFailure(w)
               \/ RecordAdapterSuccess(w)
               \/ PrepareOperation(w)
               \/ \E target \in OperationTargets :
                     TransitionOperation(w, target)
      BY <2>5, <1>same DEF RecordAdapterFailure, RecordAdapterSuccess,
                           PrepareOperation, TransitionOperation
    <2> QED BY <1>1, <2>1, <2>2, <2>3, <2>4, <2>5 DEF WorkerStep
  <1>2. ASSUME NEW c \in Controllers, WatchStep(c) PROVE Kind
    BY <1>2, OutsideKeepsClaims
  <1>3. ASSUME NEW j \in Jobs, OwnerStep(j) PROVE Kind
    BY <1>3, OutsideKeepsClaims
  <1>4. ASSUME NEW v \in 1 .. MaxVersion, SetSharedStateVersion(v) PROVE Kind
    BY <1>4, <1>same DEF SetSharedStateVersion
  <1>5. CASE ReconcileExpiredLeases
    BY <1>5, <1>ends, ReconcileEndsClaims
  <1>6. CASE ClockStep
    <2>1. ASSUME NEW s \in Seats, LapseLease(s) PROVE Kind
      BY <2>1, LeaseIsWritten
    <2>2. ASSUME NEW j \in Jobs, RetryDelayElapses(j) PROVE Kind
      BY <2>2, OutsideKeepsClaims
    <2>3. ASSUME \/ LapseLeader
                 \/ \E j \in Jobs : ApprovalExpires(j) \/ DeadlinePasses(j)
                 \/ \E k \in Kinds : CooldownElapses(k)
          PROVE  Kind
      BY <2>3, <1>same DEF LapseLeader, ApprovalExpires, DeadlinePasses,
                           CooldownElapses
    <2> QED BY <1>6, <2>1, <2>2, <2>3 DEF ClockStep
  <1>7. CASE UNCHANGED vars
    BY <1>7, <1>same DEF vars
  <1>8. ASSUME NEW o \in operations, NEW target \in OperationTargets,
               SettleOperation(o, target)
        PROVE  Kind
    BY <1>8, <1>same DEF SettleOperation
  <1> QED BY <1>1, <1>2, <1>3, <1>4, <1>5, <1>6, <1>7, <1>8 DEF Next

\* The invariant is inductive.
LEMMA ClaimNextStep == ClaimInv /\ [Next]_vars => ClaimInv'
  <1> SUFFICES ASSUME ClaimInv, [Next]_vars PROVE ClaimInv'
    OBVIOUS
  <1>1. TypeOK'
    BY TypeNext DEF ClaimInv
  <1> QED BY <1>1, StepKinds, KeepsClaimsPreserves, EndsClaimsPreserves,
             WritesLeasePreserves, TakesClaimPreserves, LosesTokenPreserves

\* The inductive invariant holds in every reachable state.
LEMMA ClaimsHold == Spec => []ClaimInv
  BY ClaimInit, ClaimNextStep, PTL DEF Spec

\* The job table and the seat table describe the same claims in every
\* reachable state, although each handler writes them in two statements.
THEOREM TablesAgree == Spec => []SeatJobAgreement
  <1>1. ClaimInv => SeatJobAgreement
    BY DEF ClaimInv
  <1> QED BY <1>1, ClaimsHold, PTL

\* A fence value on a job is one claim: a token that carries it is that
\* claim, on its seat, and nothing later can be mistaken for it.
THEOREM FenceIsIdentity == Spec => []FenceIdentifiesClaim
  <1>1. ClaimInv => FenceIdentifiesClaim
    BY DEF ClaimInv
  <1> QED BY <1>1, ClaimsHold, PTL

\* At most one thread can act for a job, and at most one from a seat.
THEOREM ExclusiveClaim == Spec => []OneCurrentToken
  <1>1. ClaimInv => OneCurrentToken
    <2> SUFFICES ASSUME ClaimInv,
                        NEW v \in Workers, NEW w \in Workers, v # w,
                        WorkerCurrent(v), WorkerCurrent(w)
                 PROVE  held[v].job # held[w].job /\ held[v].seat # held[w].seat
      BY DEF OneCurrentToken
    <2>1. held[v].job # held[w].job
      BY DEF ClaimInv, TokensDiffer, WorkerCurrent, JobProves
    <2>2. held[v].seat # held[w].seat
      BY <2>1 DEF WorkerCurrent, SeatProves
    <2> QED BY <2>1, <2>2
  <1> QED BY <1>1, ClaimsHold, PTL

\* Under the invariant a token is current when its fence is the job's and the
\* job's lease runs: the other comparisons of the ownership tuple follow.
LEMMA CurrentIsLiveFence ==
    ASSUME ClaimInv, NEW w \in Workers, Holds(w),
           held[w].fence = jobs[held[w].job].fence,
           jobs[held[w].job].lease = "LIVE"
    PROVE  WorkerCurrent(w)
  <1>1. held[w].job \in Jobs
    BY Fences DEF ClaimInv
  <1> QED BY <1>1 DEF ClaimInv, FenceIdentifiesClaim, SeatJobAgreement,
                      WorkerCurrent, SeatProves, JobProves

\* No step takes a fence back or revives a lease under the same fence.
LEMMA NothingRevives ==
    ASSUME ClaimInv, [Next]_vars, NEW j \in Jobs
    PROVE  /\ jobs'[j].fence >= jobs[j].fence
           /\ /\ jobs'[j].fence = jobs[j].fence
              /\ jobs'[j].lease = "LIVE"
              => jobs[j].lease = "LIVE"
  <1>1. jobs[j].fence \in Nat
    BY Fences DEF ClaimInv
  <1>2. CASE KeepsClaims
    BY <1>1, <1>2 DEF KeepsClaims
  <1>3. ASSUME NEW S, EndsClaims(S)
        PROVE  \/ jobs'[j] = jobs[j]
               \/ jobs'[j].fence = jobs[j].fence + 1
    BY <1>3 DEF EndsClaims
  <1>4. ASSUME NEW s \in Seats, WritesLease(s)
        PROVE  /\ jobs'[j].fence = jobs[j].fence
               /\ jobs'[j].lease = jobs[j].lease \/ jobs[j].lease = "LIVE"
    <2>1. jobs[j] \in JobRow /\ DOMAIN jobs = Jobs
      BY DEF ClaimInv, TypeOK
    <2>2. seats[s].current_job \in Jobs /\ jobs[seats[s].current_job].lease = "LIVE"
      BY <1>4 DEF WritesLease, ClaimInv, SeatJobAgreement
    <2> QED BY <1>4, <2>1, <2>2 DEF WritesLease, JobRow
  <1>5. ASSUME NEW w \in Workers, NEW k \in Jobs, NEW s \in Seats,
               TakesClaim(w, k, s)
        PROVE  IF j = k THEN jobs'[j].fence = jobs[j].fence + 1
               ELSE /\ jobs'[j].fence = jobs[j].fence
                    /\ jobs'[j].lease = jobs[j].lease
    BY <1>5 DEF TakesClaim
  <1>6. ASSUME NEW w \in Workers, LosesToken(w) PROVE jobs'[j] = jobs[j]
    BY <1>6 DEF LosesToken
  <1> QED BY <1>1, <1>2, <1>3, <1>4, <1>5, <1>6, StepKinds

\* A fenced-out token never becomes current again: not through heartbeats,
\* retries, reclaims by the same owner name, or reuse of its seat.
THEOREM FencingIsForever == Spec => FencedForever
  <1>1. ClaimInv /\ ClaimInv' /\ [Next]_vars =>
          [\A w \in Workers :
              /\ Holds(w)
              /\ held'[w] = held[w]
              /\ ~WorkerCurrent(w)
              => ~WorkerCurrent(w)']_vars
    <2> SUFFICES ASSUME ClaimInv, ClaimInv', [Next]_vars,
                        NEW w \in Workers, Holds(w), held'[w] = held[w],
                        WorkerCurrent(w)'
                 PROVE  WorkerCurrent(w)
      OBVIOUS
    <2> DEFINE t == held[w]
    <2>1. t.job \in Jobs /\ t.fence \in Nat /\ jobs[t.job].fence \in Nat
      BY Fences DEF ClaimInv
    <2>2. t.fence <= jobs[t.job].fence
      BY DEF ClaimInv, FenceIdentifiesClaim
    <2>3. jobs'[t.job].fence = t.fence /\ jobs'[t.job].lease = "LIVE"
      BY DEF WorkerCurrent, JobProves
    <2>4. jobs[t.job].fence = t.fence /\ jobs[t.job].lease = "LIVE"
      BY <2>1, <2>2, <2>3, NothingRevives
    <2> QED BY <2>4, CurrentIsLiveFence
  <1> QED BY <1>1, ClaimsHold, PTL DEF Spec, FencedForever

\* Jobs under live leases respect the class and scope rules pairwise, in every
\* order of admission, heartbeat, expiry and recovery.
THEOREM Isolation == Spec => []LiveIsolation
  <1>1. Init => LiveIsolation
    BY DEF Init, LiveIsolation, ActiveJobs, Running, NewJob
  <1>2. ClaimInv /\ LiveIsolation /\ [Next]_vars => LiveIsolation'
    <2> SUFFICES ASSUME ClaimInv, LiveIsolation, [Next]_vars
                 PROVE  LiveIsolation'
      OBVIOUS
    <2>few. ASSUME ActiveJobs' \subseteq ActiveJobs PROVE LiveIsolation'
      BY <2>few DEF LiveIsolation
    <2>1. CASE KeepsClaims
      BY <2>1, <2>few DEF KeepsClaims, ActiveJobs, Running
    <2>2. ASSUME NEW S, EndsClaims(S) PROVE LiveIsolation'
      <3>1. ActiveJobs' \subseteq ActiveJobs
        BY <2>2 DEF EndsClaims, ActiveJobs, Running
      <3> QED BY <3>1, <2>few
    <2>3. ASSUME NEW s \in Seats, WritesLease(s) PROVE LiveIsolation'
      <3>1. /\ seats[s].current_job \in Jobs
            /\ jobs[seats[s].current_job].lease = "LIVE"
        BY <2>3 DEF WritesLease, ClaimInv, SeatJobAgreement
      <3>2. \A k \in Jobs :
               /\ jobs'[k].fabric_state = jobs[k].fabric_state
               /\ jobs'[k].lease = jobs[k].lease \/ jobs[k].lease = "LIVE"
        BY <2>3, <3>1 DEF WritesLease, ClaimInv, TypeOK, JobRow
      <3>3. ActiveJobs' \subseteq ActiveJobs
        BY <3>2 DEF ActiveJobs, Running
      <3> QED BY <3>3, <2>few
    <2>4. ASSUME NEW w \in Workers, NEW j \in Jobs, NEW s \in Seats,
                 TakesClaim(w, j, s)
          PROVE  LiveIsolation'
      <3>1. ActiveJobs' \subseteq ActiveJobs \cup {j}
        BY <2>4 DEF TakesClaim, ActiveJobs
      <3>2. \A k \in ActiveJobs :
               MayOverlapInTime(j, k) /\ MayOverlapInTime(k, j)
        BY <2>4, EnvelopeAssumption, OverlapIsSymmetric
           DEF TakesClaim, ActiveJobs
      <3> QED BY <3>1, <3>2 DEF LiveIsolation
    <2>5. ASSUME NEW w \in Workers, LosesToken(w) PROVE LiveIsolation'
      BY <2>5, <2>few DEF LosesToken, ActiveJobs, Running
    <2> QED BY <2>1, <2>2, <2>3, <2>4, <2>5, StepKinds
  <1> QED BY <1>1, <1>2, ClaimsHold, PTL DEF Spec
-----------------------------------------------------------------------------
(* WATCH leadership *)

\* The leader row knows the last term; a mandate of that term is its owner's,
\* no two threads hold one mandate, and a review is signed by the owner of the
\* term it carries, also after that owner released the lead.
LeaderInv ==
    /\ \A c \in Controllers : mandate[c] <= leader.fence
    /\ \A c, d \in Controllers :
          mandate[c] # 0 /\ mandate[c] = mandate[d] => c = d
    /\ \A r \in reviews :
          /\ r.leader_fence <= leader.fence
          /\ r.leader_fence = leader.fence =>
               leader.lease_owner \in {NoOwner, r.owner}
    /\ \A q, r \in reviews :
          q.leader_fence = r.leader_fence => q.owner = r.owner

\* Only these calls and the clock change who leads and what was decided.
LEMMA LeaderWriters ==
    ASSUME [Next]_vars
    PROVE  \/ UNCHANGED << leader, mandate, reviews >>
           \/ \E c \in Controllers : ClaimLeader(c) \/ ReleaseLeader(c)
           \/ UNCHANGED << mandate, reviews >> /\ leader' \in
                {[leader EXCEPT !.lease = l] : l \in {"LIVE", "LAPSED"}}
           \/ \E c \in Controllers : \E h \in handoffs, d \in Decisions,
                                        b \in BOOLEAN :
                 ReviewHandoff(c, h, d, b)
  <1>1. CASE UNCHANGED vars
    BY <1>1 DEF vars
  <1>2. ASSUME NEW w \in Workers, WorkerStep(w)
        PROVE  UNCHANGED << leader, mandate, reviews >>
    BY <1>2 DEF WorkerStep, ClaimNext, ClaimJob, ClaimNothing, Heartbeat,
                ReleaseForReview, AcknowledgeCancel, SafeRetry,
                QuarantineCurrent, DropToken, RecordAdapterFailure,
                RecordAdapterSuccess, PrepareOperation, TransitionOperation
  <1>3. ASSUME NEW c \in Controllers, HeartbeatLeader(c)
        PROVE  UNCHANGED << mandate, reviews >> /\ leader' \in
                 {[leader EXCEPT !.lease = l] : l \in {"LIVE", "LAPSED"}}
    BY <1>3 DEF HeartbeatLeader
  <1>4. ASSUME NEW j \in Jobs, OwnerStep(j)
        PROVE  UNCHANGED << leader, mandate, reviews >>
    BY <1>4 DEF OwnerStep, Submit, ApproveJob, RevokeJob, RequestCancel
  <1>5. ASSUME \/ \E v \in 1 .. MaxVersion : SetSharedStateVersion(v)
               \/ \E o \in operations, target \in OperationTargets :
                     SettleOperation(o, target)
               \/ ReconcileExpiredLeases
        PROVE  UNCHANGED << leader, mandate, reviews >>
    BY <1>5 DEF SetSharedStateVersion, SettleOperation, ReconcileExpiredLeases
  <1>6. CASE LapseLeader
    BY <1>6 DEF LapseLeader
  <1>7. ASSUME \/ \E s \in Seats : LapseLease(s)
               \/ \E j \in Jobs : \/ RetryDelayElapses(j)
                                  \/ ApprovalExpires(j)
                                  \/ DeadlinePasses(j)
               \/ \E k \in Kinds : CooldownElapses(k)
        PROVE  UNCHANGED << leader, mandate, reviews >>
    BY <1>7 DEF LapseLease, RetryDelayElapses, ApprovalExpires,
                DeadlinePasses, CooldownElapses
  <1> QED BY <1>1, <1>2, <1>3, <1>4, <1>5, <1>6, <1>7
          DEF Next, WatchStep, ClockStep

\* A change of hands is a new term; within a term only its owner decides.
LEMMA LeaderNext == TypeOK /\ LeaderInv /\ [Next]_vars => LeaderInv'
  <1> SUFFICES ASSUME TypeOK, LeaderInv, [Next]_vars PROVE LeaderInv'
    OBVIOUS
  <1>1. /\ leader.fence \in Nat
        /\ \A c \in Controllers : mandate[c] \in Nat
        /\ \A r \in reviews : r.leader_fence \in Nat
        /\ DOMAIN mandate = Controllers
    BY DEF TypeOK, Review
  <1>2. CASE UNCHANGED << leader, mandate, reviews >>
    BY <1>2 DEF LeaderInv
  <1>3. ASSUME NEW c \in Controllers, ClaimLeader(c) PROVE LeaderInv'
    <2>1. /\ leader'.fence = leader.fence + 1
          /\ mandate' = [mandate EXCEPT ![c] = leader.fence + 1]
          /\ reviews' = reviews
      BY <1>3 DEF ClaimLeader, NextTerm
    <2>2. \A d \in Controllers :
             mandate'[d] = IF d = c THEN leader.fence + 1 ELSE mandate[d]
      BY <1>1, <2>1
    <2> QED BY <1>1, <2>1, <2>2 DEF LeaderInv
  <1>4. ASSUME NEW c \in Controllers, ReleaseLeader(c) PROVE LeaderInv'
    <2>1. /\ leader'.fence = leader.fence
          /\ leader'.lease_owner = NoOwner
          /\ mandate' = [mandate EXCEPT ![c] = 0]
          /\ reviews' = reviews
      BY <1>4 DEF ReleaseLeader, TypeOK
    <2>2. \A d \in Controllers :
             mandate'[d] = IF d = c THEN 0 ELSE mandate[d]
      BY <1>1, <2>1
    <2> QED BY <1>1, <2>1, <2>2 DEF LeaderInv
  <1>5. ASSUME UNCHANGED << mandate, reviews >>,
               NEW l, leader' = [leader EXCEPT !.lease = l]
        PROVE  LeaderInv'
    <2>1. /\ leader'.fence = leader.fence
          /\ leader'.lease_owner = leader.lease_owner
      BY <1>5 DEF TypeOK
    <2> QED BY <1>5, <2>1 DEF LeaderInv
  <1>6. ASSUME NEW c \in Controllers, NEW h \in handoffs, NEW d \in Decisions,
               NEW b \in BOOLEAN, ReviewHandoff(c, h, d, b)
        PROVE  LeaderInv'
    <2> DEFINE r == [ job |-> h.job, fence |-> h.fence, decision |-> d,
                      owner |-> OwnerName[c], leader_fence |-> mandate[c] ]
    <2>1. reviews' = reviews \cup {r} /\ UNCHANGED << leader, mandate >>
      BY <1>6 DEF ReviewHandoff
    <2>2. /\ r.leader_fence = leader.fence
          /\ r.owner = leader.lease_owner
          /\ r.owner # NoOwner
      <3>1. OwnerName[c] \in Owners
        BY DEF Owners
      <3> QED BY <1>6, <3>1, FabricAssumption DEF ReviewHandoff, LeaderCurrent
    <2> HIDE DEF r
    <2>3. \A q \in reviews :
             q.leader_fence = r.leader_fence => q.owner = r.owner
      BY <2>2 DEF LeaderInv
    <2> QED BY <1>1, <2>1, <2>2, <2>3 DEF LeaderInv
  <1> QED BY <1>2, <1>3, <1>4, <1>5, <1>6, LeaderWriters

\* One WATCH thread has authority at a time, even when several sign with one
\* owner name, and no term carries the decisions of two owners.
THEOREM OneLeader == Spec => []LeadershipIsExclusive
  <1>1. Init => LeaderInv
    BY DEF Init, LeaderInv
  <1>2. LeaderInv => LeadershipIsExclusive
    BY DEF LeaderInv, LeadershipIsExclusive, LeaderCurrent
  <1> QED BY <1>1, <1>2, LeaderNext, TypeCorrect, PTL DEF Spec

-----------------------------------------------------------------------------
(* Circuits *)

\* CircuitFollowsCount, for one row.
CircuitFollows(row) ==
    /\ row.state = "CLOSED" <=> row.failures < FailureThreshold
    /\ row.state = "HALF_OPEN" => row.probe \in Jobs

\* Only claims, adapter reports, reconciliation and cooldowns write a circuit.
LEMMA CircuitWriters ==
    ASSUME [Next]_vars
    PROVE  \/ UNCHANGED circuits
           \/ \E w \in Workers : \/ \E j \in Jobs, locked \in SUBSET Examined :
                                       ClaimJob(w, j, locked)
                                 \/ RecordAdapterFailure(w)
                                 \/ RecordAdapterSuccess(w)
           \/ ReconcileExpiredLeases
           \/ \E k \in Kinds : CooldownElapses(k)
  <1>1. CASE UNCHANGED vars
    BY <1>1 DEF vars
  <1>2. ASSUME NEW w \in Workers, WorkerStep(w)
        PROVE  \/ UNCHANGED circuits
               \/ \E j \in Jobs, locked \in SUBSET Examined :
                     ClaimJob(w, j, locked)
               \/ RecordAdapterFailure(w)
               \/ RecordAdapterSuccess(w)
    BY <1>2 DEF WorkerStep, ClaimNext, ClaimNothing, Heartbeat,
                ReleaseForReview, AcknowledgeCancel, SafeRetry,
                QuarantineCurrent, DropToken, PrepareOperation,
                TransitionOperation
  <1>3. ASSUME NEW c \in Controllers, WatchStep(c) PROVE UNCHANGED circuits
    BY <1>3 DEF WatchStep, ClaimLeader, HeartbeatLeader, ReleaseLeader,
                ReviewHandoff
  <1>4. ASSUME NEW j \in Jobs, OwnerStep(j) PROVE UNCHANGED circuits
    BY <1>4 DEF OwnerStep, Submit, ApproveJob, RevokeJob, RequestCancel
  <1>5. ASSUME \/ \E v \in 1 .. MaxVersion : SetSharedStateVersion(v)
               \/ \E o \in operations, target \in OperationTargets :
                     SettleOperation(o, target)
        PROVE  UNCHANGED circuits
    BY <1>5 DEF SetSharedStateVersion, SettleOperation
  <1>6. ASSUME ClockStep
        PROVE  UNCHANGED circuits \/ \E k \in Kinds : CooldownElapses(k)
    BY <1>6 DEF ClockStep, LapseLease, LapseLeader, RetryDelayElapses,
                ApprovalExpires, DeadlinePasses
  <1> QED BY <1>1, <1>2, <1>3, <1>4, <1>5, <1>6 DEF Next

\* Failures below the threshold leave a circuit closed; opening, probing,
\* losing the probe and cooling down keep the count at or above it.
LEMMA CircuitNext ==
    TypeOK /\ CircuitFollowsCount /\ [Next]_vars => CircuitFollowsCount'
  <1> SUFFICES ASSUME TypeOK, CircuitFollowsCount, [Next]_vars, NEW k \in Kinds
               PROVE  CircuitFollows(circuits'[k])
    BY DEF CircuitFollowsCount, CircuitFollows
  <1>1. /\ circuits[k] \in CircuitRow
        /\ CircuitFollows(circuits[k])
        /\ circuits[k].failures \in Nat
        /\ DOMAIN circuits = Kinds
        /\ FailureThreshold \in Nat \ {0, 1}
    BY FabricAssumption DEF CircuitFollowsCount, CircuitFollows, TypeOK,
                            CircuitRow
  <1>2. CASE circuits'[k] = circuits[k]
    BY <1>1, <1>2
  <1>3. ASSUME NEW w \in Workers, NEW j \in Jobs, NEW locked,
               ClaimJob(w, j, locked)
        PROVE  CircuitFollows(circuits'[k])
    <2>1. CASE circuits[k].state = "OPEN" /\ k = Envelope[j].worker_kind
      <3>1. circuits'[k] = [circuits[k] EXCEPT !.state = "HALF_OPEN",
                                               !.probe = j]
        BY <1>1, <1>3, <2>1 DEF ClaimJob
      <3>2. /\ circuits'[k].state = "HALF_OPEN" /\ circuits'[k].probe = j
            /\ circuits'[k].failures = circuits[k].failures
        BY <1>1, <3>1 DEF CircuitRow
      <3> QED BY <1>1, <2>1, <3>2 DEF CircuitFollows
    <2>2. CASE ~(circuits[k].state = "OPEN" /\ k = Envelope[j].worker_kind)
      <3>1. circuits'[k] = circuits[k]
        BY <1>1, <1>3, <2>2 DEF ClaimJob
      <3> QED BY <1>2, <3>1
    <2> QED BY <2>1, <2>2
  <1>4. ASSUME NEW w \in Workers, RecordAdapterFailure(w)
        PROVE  CircuitFollows(circuits'[k])
    <2>1. CASE k = Envelope[held[w].job].worker_kind
      <3>1. circuits'[k] =
              [ state |-> IF Trips(circuits[k]) THEN "OPEN" ELSE "CLOSED",
                failures |-> circuits[k].failures + 1,
                due |-> FALSE, probe |-> NoJob ]
        BY <1>1, <1>4, <2>1 DEF RecordAdapterFailure
      <3>2. /\ circuits'[k].failures = circuits[k].failures + 1
            /\ Trips(circuits[k]) => circuits'[k].state = "OPEN"
            /\ ~Trips(circuits[k]) => circuits'[k].state = "CLOSED"
        BY <3>1
      <3> QED BY <1>1, <3>2 DEF CircuitFollows, Trips
    <2>2. CASE k # Envelope[held[w].job].worker_kind
      BY <1>1, <1>2, <1>4, <2>2 DEF RecordAdapterFailure
    <2> QED BY <2>1, <2>2
  <1>5. ASSUME NEW w \in Workers, RecordAdapterSuccess(w)
        PROVE  CircuitFollows(circuits'[k])
    <2>1. circuits'[k] = circuits[k] \/
            circuits'[k] = [ state |-> "CLOSED", failures |-> 0, due |-> FALSE,
                             probe |-> NoJob ]
      BY <1>1, <1>5 DEF RecordAdapterSuccess
    <2> QED BY <1>1, <1>2, <2>1 DEF CircuitFollows
  <1>6. CASE ReconcileExpiredLeases
    <2>1. CASE ProbeLost(k)
      <3>1. circuits'[k] = [ state |-> "OPEN",
                             failures |-> circuits[k].failures + 1,
                             due |-> FALSE, probe |-> NoJob ]
        BY <1>6, <2>1 DEF ReconcileExpiredLeases
      <3>2. circuits[k].state = "HALF_OPEN"
        BY <2>1 DEF ProbeLost
      <3> QED BY <1>1, <3>1, <3>2 DEF CircuitFollows
    <2>2. CASE ~ProbeLost(k)
      BY <1>2, <1>6, <2>2 DEF ReconcileExpiredLeases
    <2> QED BY <2>1, <2>2
  <1>7. ASSUME NEW i \in Kinds, CooldownElapses(i)
        PROVE  CircuitFollows(circuits'[k])
    <2>1. circuits'[k] = circuits[k] \/
            circuits'[k] = [circuits[k] EXCEPT !.due = TRUE]
      BY <1>1, <1>7 DEF CooldownElapses
    <2>2. /\ circuits'[k].state = circuits[k].state
          /\ circuits'[k].failures = circuits[k].failures
          /\ circuits'[k].probe = circuits[k].probe
      BY <1>1, <2>1 DEF CircuitRow
    <2> QED BY <1>1, <2>2 DEF CircuitFollows
  <1> QED BY <1>2, <1>3, <1>4, <1>5, <1>6, <1>7, CircuitWriters

\* A circuit is closed exactly below its threshold, and a half-open one names
\* the job that probes it.
THEOREM CircuitsFollowTheCount == Spec => []CircuitFollowsCount
  <1>1. Init => CircuitFollowsCount
    BY FabricAssumption DEF Init, CircuitFollowsCount
  <1> QED BY <1>1, CircuitNext, TypeCorrect, PTL DEF Spec
=============================================================================
