------------------------------ MODULE FiveSeat ------------------------------
(***************************************************************************)
(* The five-seat continuous worker fabric: the durable rows of             *)
(* five_seat_schema.sql and every transaction that changes them            *)
(* (five_seat_queue, five_seat_runtime, five_seat_remedies,                *)
(* five_seat_watch, five_seat_authority, and the operation journal of      *)
(* job_runtime).  Each handler is one Postgres transaction, so it is one   *)
(* atomic action here; everything between two transactions interleaves.    *)
(*                                                                         *)
(* The clients are the most general ones: a thread that was given a token  *)
(* may call any handler with it, at any time, for as long as it keeps it.  *)
(***************************************************************************)
EXTENDS Concurrency

CONSTANTS
    SeatCount,         \* WORKER_SEAT_COUNT (five in the deployment)
    Workers,           \* worker threads
    Controllers,       \* WATCH threads
    OwnerName,         \* thread -> the owner string it signs its leases with
    Compatible,        \* the <<worker, job>> pairs whose kind and capabilities fit
    FailureThreshold,  \* failure_threshold of a circuit row
    NoOwner, NoToken, NoJob,
    \* Bounds of the instance: what the environment does, and how often.
    MaxVersion,        \* shared-state versions published
    MaxFence,          \* claims and cancellations stop at this job fence
    MaxLeaderFence,    \* leadership claims stop at this leader fence
    MaxFailures,       \* adapter failures are reported up to this count
    ApproveInputs,     \* jobs the owner may approve
    CancelInputs,      \* jobs somebody may ask to cancel
    RevokeInputs,      \* jobs the owner may revoke
    OperationJobs,     \* jobs whose worker journals external operations
    OperationTargets   \* the operation statuses workers report

VARIABLES
    jobs,       \* jaytec_jobs
    seats,      \* jaytec_worker_seats
    version,    \* jaytec_fabric_authority_state.current_shared_state_version
    approved,   \* jobs with an unexpired APPROVED row in jaytec_fabric_approvals
    overdue,    \* jobs whose TaskPacket deadline has passed
    circuits,   \* jaytec_fabric_circuits
    operations, \* jaytec_operations
    handoffs,   \* jaytec_worker_handoffs
    reviews,    \* jaytec_watch_reviews
    leader,     \* jaytec_watch_leader
    held,       \* worker thread -> the FiveSeatLeaseToken it holds
    mandate     \* WATCH thread -> the fence of the WatchLeaderToken it holds

vars == << jobs, seats, version, approved, overdue, circuits, operations,
           handoffs, reviews, leader, held, mandate >>

-----------------------------------------------------------------------------
(* Rows *)

Seats  == 1 .. SeatCount
NoSeat == 0
Kinds  == {Envelope[j].worker_kind : j \in Jobs}
Owners == {OwnerName[t] : t \in Workers \cup Controllers}

\* time is abstract: a lease is unset, running, or past its expiry
Leases == {"NONE", "LIVE", "LAPSED"}

FabricStates ==
    { "ABSENT",    \* no row yet
      "QUEUED", "BLOCKED_OWNER", "RUNNING", "CANCEL_REQUESTED",
      "HANDOFF_PENDING_REVIEW", "QUARANTINED", "REWORK_QUEUED", "SUCCEEDED",
      "FAILED_SAFE", "CANCELLED", "STALE", "ESCALATED" }

OperationStatuses ==
    { "PREPARED", "IN_FLIGHT", "UNCERTAIN_PARTIAL", "VERIFIED_COMPLETE",
      "VERIFIED_NOT_DONE", "FAILED_SAFE" }

UnresolvedStatuses == {"IN_FLIGHT", "UNCERTAIN_PARTIAL"}

Decisions == {"ACCEPT", "REWORK", "BLOCK", "ESCALATE"}

\* ownership_epoch and fence_token are incremented by the same statements
\* everywhere, so one number stands for the pair; likewise for a seat and for
\* the WATCH leader.  A handoff is identified by its job and that job's fence
\* (UNIQUE(job_id,ownership_epoch,job_fence_token)), so checkpoint_ref is the
\* fence of the handoff, 0 for none.
JobRow ==
    [ fabric_state : FabricStates, source_version : Nat,
      seat_id : Nat, lease_owner : Owners \cup {NoOwner}, lease : Leases,
      fence : Nat, attempts : Nat, reworks : Nat,
      cancel : BOOLEAN,       \* cancel_requested_at IS NOT NULL
      delayed : BOOLEAN,      \* next_attempt_at > now()
      checkpoint_ref : Nat ]

SeatRow ==
    [ state : {"FREE", "RUNNING"}, current_job : Jobs \cup {NoJob},
      lease_owner : Owners \cup {NoOwner}, lease : Leases, fence : Nat ]

CircuitRow ==
    [ state : {"CLOSED", "OPEN", "HALF_OPEN"}, failures : Nat,
      due : BOOLEAN,          \* open_until <= now()
      probe : Jobs \cup {NoJob} ]

Operation == [job : Jobs, fence : Nat, status : OperationStatuses]

Handoff ==
    [ job : Jobs, fence : Nat, seat : Nat, seat_fence : Nat, worker : Owners,
      partial : {"NONE", "UNCERTAIN_PARTIAL"} ]

Review ==
    [ job : Jobs, fence : Nat, decision : Decisions, owner : Owners,
      leader_fence : Nat ]

Token == [job : Jobs, seat : Nat, fence : Nat, seat_fence : Nat]

ASSUME FabricAssumption ==
    /\ SeatCount \in Nat \ {0}
    /\ FailureThreshold \in Nat \ {0, 1}   \* 3 in every row that is inserted
    /\ Compatible \subseteq Workers \X Jobs
    /\ NoOwner \notin Owners
    /\ NoJob \notin Jobs
    /\ NoToken \notin Token
    /\ {MaxVersion, MaxFence, MaxLeaderFence, MaxFailures} \subseteq Nat

-----------------------------------------------------------------------------
(* Reading the rows *)

\* status='RUNNING', and status IN ('QUEUED','PAUSED') with a queued state:
\* every statement writes status and fabric_state as a pair, so the second
\* determines what the guards ask of the first.
Running(j) == jobs[j].fabric_state \in {"RUNNING", "CANCEL_REQUESTED"}
Queued(j)  == jobs[j].fabric_state \in {"QUEUED", "REWORK_QUEUED"}

Unresolved(j) ==
    \E o \in operations : o.job = j /\ o.status \in UnresolvedStatuses

ActiveJobs == {j \in Jobs : Running(j) /\ jobs[j].lease = "LIVE"}

CurrentSource(j) == version > 0 /\ jobs[j].source_version = version

\* _assert_current_authority: what raises FiveSeatStaleLease when false.
CurrentAuthority(j) ==
    /\ CurrentSource(j)
    /\ Envelope[j].approval_required => j \in approved

\* The ownership tuple a worker call must prove (_assert_worker, and the same
\* checks written out in heartbeat and release_for_review).
SeatProves(t, owner) ==
    LET s == seats[t.seat] IN
    /\ s.state = "RUNNING"
    /\ s.current_job = t.job
    /\ s.lease_owner = owner
    /\ s.fence = t.seat_fence
    /\ s.lease = "LIVE"

JobProves(t, owner) ==
    LET j == jobs[t.job] IN
    /\ Running(t.job)
    /\ j.seat_id = t.seat
    /\ j.lease_owner = owner
    /\ j.fence = t.fence
    /\ j.lease = "LIVE"

Holds(w) == held[w] # NoToken

\* Fault: the name alone proves the claim.
OwnerCurrent(w) ==
    /\ Holds(w)
    /\ seats[held[w].seat].current_job = held[w].job
    /\ jobs[held[w].job].lease_owner = OwnerName[w]
    /\ jobs[held[w].job].lease = "LIVE"

WorkerCurrent(w) ==
    /\ Holds(w)
    /\ SeatProves(held[w], OwnerName[w])
    /\ JobProves(held[w], OwnerName[w])

LeaderCurrent(c) ==
    /\ mandate[c] # 0
    /\ leader.lease_owner = OwnerName[c]
    /\ leader.fence = mandate[c]
    /\ leader.lease = "LIVE"

-----------------------------------------------------------------------------
(* Writing the rows *)

\* Faults: the seat is left on the row, or the fence stays where it is.
DisownedKeepingSeat(row) ==
    [row EXCEPT !.lease_owner = NoOwner, !.lease = "NONE", !.fence = @ + 1]
DisownedAtSameFence(row) ==
    [row EXCEPT !.seat_id = NoSeat, !.lease_owner = NoOwner, !.lease = "NONE"]

\* The columns a claim writes.
Claimed(row, seat, owner) ==
    [row EXCEPT !.fabric_state = "RUNNING", !.seat_id = seat,
                !.lease_owner = owner, !.lease = "LIVE",
                !.fence = @ + 1, !.attempts = @ + 1]

\* The columns every statement that ends a claim resets, with the fence bump.
Disowned(row) ==
    [row EXCEPT !.seat_id = NoSeat, !.lease_owner = NoOwner, !.lease = "NONE",
                !.fence = @ + 1]

\* release_for_review frees the seat and keeps its epoch and fence ...
Vacated(row) ==
    [row EXCEPT !.state = "FREE", !.current_job = NoJob,
                !.lease_owner = NoOwner, !.lease = "NONE"]

\* ... the remedies also advance them (_free_seat).
Freed(row) == [Vacated(row) EXCEPT !.fence = @ + 1]

NewJob ==
    [ fabric_state |-> "ABSENT", source_version |-> 0, seat_id |-> NoSeat,
      lease_owner |-> NoOwner, lease |-> "NONE", fence |-> 0, attempts |-> 0,
      reworks |-> 0, cancel |-> FALSE, delayed |-> FALSE,
      checkpoint_ref |-> 0 ]

Init ==
    /\ jobs = [j \in Jobs |-> NewJob]
    /\ seats = [s \in Seats |->
                  [ state |-> "FREE", current_job |-> NoJob,
                    lease_owner |-> NoOwner, lease |-> "NONE", fence |-> 0 ]]
    /\ version = 0
    /\ approved = {}
    /\ overdue = {}
    /\ circuits = [k \in Kinds |->
                     [ state |-> "CLOSED", failures |-> 0, due |-> FALSE,
                       probe |-> NoJob ]]
    /\ operations = {}
    /\ handoffs = {}
    /\ reviews = {}
    /\ leader = [lease_owner |-> NoOwner, lease |-> "NONE", fence |-> 0]
    /\ held = [w \in Workers |-> NoToken]
    /\ mandate = [c \in Controllers |-> 0]

-----------------------------------------------------------------------------
(* Intake and owner authority: five_seat_queue, five_seat_authority *)

\* A repeated submission returns the stored job or is refused as a
\* conflicting duplicate: neither changes a row.
Submit(j) ==
    /\ version > 0
    /\ jobs[j].fabric_state = "ABSENT"
    /\ jobs' = [jobs EXCEPT ![j] =
                  [@ EXCEPT
                     !.fabric_state = IF Envelope[j].approval_required
                                      THEN "BLOCKED_OWNER" ELSE "QUEUED",
                     !.source_version = version]]
    /\ UNCHANGED << seats, version, approved, overdue, circuits, operations,
                    handoffs, reviews, leader, held, mandate >>

\* Approvals given for another version are revoked with the old version.
SetSharedStateVersion(v) ==
    /\ v > version
    /\ version' = v
    /\ approved' = {j \in approved : jobs[j].source_version = v}
    /\ UNCHANGED << jobs, seats, overdue, circuits, operations, handoffs,
                    reviews, leader, held, mandate >>

\* While an unexpired approval exists the call returns it or is refused.
ApproveJob(j) ==
    /\ j \in ApproveInputs
    /\ jobs[j].fabric_state # "ABSENT"
    /\ CurrentSource(j)
    /\ j \notin approved
    /\ approved' = approved \cup {j}
    /\ jobs' = IF jobs[j].fabric_state = "BLOCKED_OWNER" /\ ~jobs[j].cancel
               THEN [jobs EXCEPT ![j] = [@ EXCEPT !.fabric_state = "QUEUED",
                                                  !.delayed = FALSE]]
               ELSE jobs
    /\ UNCHANGED << seats, version, overdue, circuits, operations, handoffs,
                    reviews, leader, held, mandate >>

\* No test of the job's state: whatever is not running becomes BLOCKED_OWNER.
RevokeJob(j) ==
    /\ j \in RevokeInputs
    /\ jobs[j].fabric_state # "ABSENT"
    /\ approved' = approved \ {j}
    /\ jobs' = [jobs EXCEPT ![j] =
                  IF Running(j)
                  THEN [@ EXCEPT !.fabric_state = "CANCEL_REQUESTED",
                                 !.cancel = TRUE]
                  ELSE [@ EXCEPT !.fabric_state = "BLOCKED_OWNER"]]
    /\ UNCHANGED << seats, version, overdue, circuits, operations, handoffs,
                    reviews, leader, held, mandate >>

-----------------------------------------------------------------------------
(* Admission: PostgresFiveSeatScheduler.claim_next *)

FreeSeats == {s \in Seats : seats[s].state = "FREE"}

\* ORDER BY seat_id LIMIT 1
FirstFree(s) == s \in FreeSeats /\ \A r \in FreeSeats : s <= r

\* The sweep that precedes every admission: queued work of another version.
StaleMarked ==
    [j \in Jobs |->
        IF Queued(j) /\ jobs[j].source_version # version
        THEN [jobs[j] EXCEPT !.fabric_state = "STALE", !.delayed = FALSE]
        ELSE jobs[j]]

CircuitAdmits(k) ==
    \/ circuits[k].state = "CLOSED"
    \/ circuits[k].state = "OPEN" /\ circuits[k].due

\* The rows the candidate query returns, after the sweep.
Candidates ==
    {j \in Jobs :
        /\ Queued(j)
        /\ jobs[j].source_version = version
        /\ jobs[j].seat_id = NoSeat
        /\ ~Envelope[j].owner_gated
        /\ ~jobs[j].cancel
        /\ jobs[j].attempts < Envelope[j].max_attempts
        /\ CircuitAdmits(Envelope[j].worker_kind)
        /\ jobs[j].lease # "LIVE"
        /\ ~jobs[j].delayed}

\* The loop skips a packet past its deadline before it looks at authority.
Examined == Candidates \ overdue

Admissible(w, j) ==
    /\ << w, j >> \in Compatible
    /\ ~QuarantineConflict(j, {k \in Jobs :
                                 jobs[k].fabric_state = "QUARANTINED"})
    /\ ~DuplicateAssignment(j, ActiveJobs)
    /\ ConcurrencyAllowed(j, ActiveJobs,
                          {k \in Jobs : jobs[k].fabric_state = "SUCCEEDED"},
                          {k \in Jobs : Unresolved(k)})

\* Fault: a candidate that suits the worker but must wait stops the walk.
PassedOverIfForeign(w, k) == CurrentAuthority(k) /\ << w, k >> \notin Compatible

\* The loop walks the candidates in rank order.  An examined candidate without
\* current authority raises, and the transaction is rolled back whole: no
\* claim, no sweep.  One that is not admissible is passed over, and one whose
\* row another transaction has locked is not seen (SKIP LOCKED).
PassedOver(w, k) == CurrentAuthority(k) /\ ~Admissible(w, k)

Before(j) == {k \in Examined : Envelope[k].rank < Envelope[j].rank}

\* Fault: only releases advance the seat's fence.
TakenSeatAtSameFence(s, w, j) ==
    [ state |-> "RUNNING", current_job |-> j, lease_owner |-> OwnerName[w],
      lease |-> "LIVE", fence |-> seats[s].fence ]

\* A seat takes a new epoch and fence with every claim.
TakenSeat(s, w, j) ==
    [ state |-> "RUNNING", current_job |-> j, lease_owner |-> OwnerName[w],
      lease |-> "LIVE", fence |-> seats[s].fence + 1 ]

SeatAvailable == FreeSeats # {} /\ Cardinality(ActiveJobs) < SeatCount

ClaimJob(w, j, locked) ==
    /\ ~Holds(w)
    /\ version > 0
    /\ SeatAvailable
    /\ j \in Examined \ locked
    /\ CurrentAuthority(j)
    /\ Admissible(w, j)
    /\ \A k \in Before(j) \ locked : PassedOver(w, k)
    /\ jobs[j].fence < MaxFence
    /\ \E s \in Seats :
          /\ FirstFree(s)
          /\ jobs' = [StaleMarked EXCEPT ![j] = Claimed(@, s, OwnerName[w])]
          /\ seats' = [seats EXCEPT ![s] = TakenSeat(s, w, j)]
          /\ held' = [held EXCEPT ![w] =
                        [ job |-> j, seat |-> s, fence |-> jobs[j].fence + 1,
                          seat_fence |-> TakenSeat(s, w, j).fence ]]
    /\ LET kind == Envelope[j].worker_kind IN
       circuits' = IF circuits[kind].state = "OPEN"
                   THEN [circuits EXCEPT ![kind] =
                           [@ EXCEPT !.state = "HALF_OPEN", !.probe = j]]
                   ELSE circuits
    /\ UNCHANGED << version, approved, overdue, operations, handoffs, reviews,
                    leader, mandate >>

\* The call finds no seat or no work; the sweep is committed all the same.
ClaimNothing(w, locked) ==
    /\ ~Holds(w)
    /\ version > 0
    /\ SeatAvailable => \A k \in Examined \ locked : PassedOver(w, k)
    /\ jobs' = StaleMarked
    /\ UNCHANGED << seats, version, approved, overdue, circuits, operations,
                    handoffs, reviews, leader, held, mandate >>

ClaimNext(w, locked) ==
    (\E j \in Jobs : ClaimJob(w, j, locked)) \/ ClaimNothing(w, locked)

-----------------------------------------------------------------------------
(* The worker's own transactions *)

\* Fault: a late heartbeat revives the lease.
HeartbeatLate(w) ==
    /\ Holds(w)
    /\ jobs[held[w].job].lease_owner = OwnerName[w]
    /\ jobs[held[w].job].fence = held[w].fence
    /\ CurrentAuthority(held[w].job)
    /\ jobs' = [jobs EXCEPT ![held[w].job].lease = "LIVE"]
    /\ seats' = [seats EXCEPT ![held[w].seat].lease = "LIVE"]
    /\ UNCHANGED << version, approved, overdue, circuits, operations, handoffs,
                    reviews, leader, held, mandate >>

\* Both leases are renewed, or neither.
Heartbeat(w) ==
    /\ WorkerCurrent(w)
    /\ CurrentAuthority(held[w].job)
    /\ jobs' = [jobs EXCEPT ![held[w].job].lease = "LIVE"]
    /\ seats' = [seats EXCEPT ![held[w].seat].lease = "LIVE"]
    /\ UNCHANGED << version, approved, overdue, circuits, operations, handoffs,
                    reviews, leader, held, mandate >>

\* Fault: only what the worker reports counts.
ContaminatedByReport(j, partial) == partial = "UNCERTAIN_PARTIAL"

\* A handoff that WATCH may not take at face value.
Contaminated(j, partial) ==
    \/ partial = "UNCERTAIN_PARTIAL"
    \/ jobs[j].fabric_state = "CANCEL_REQUESTED"
    \/ Unresolved(j)

\* The immutable handoff, the job's next state and the freed seat are one
\* commit.  A repeated call finds the handoff and changes nothing.
ReleaseForReview(w, partial) ==
    /\ WorkerCurrent(w)
    /\ LET t == held[w] IN
       /\ CurrentAuthority(t.job)
       /\ handoffs' = handoffs \cup
            {[ job |-> t.job, fence |-> t.fence, seat |-> t.seat,
               seat_fence |-> t.seat_fence, worker |-> OwnerName[w],
               partial |-> partial ]}
       /\ jobs' = [jobs EXCEPT ![t.job] =
                     [Disowned(@) EXCEPT
                        !.fabric_state = IF Contaminated(t.job, partial)
                                         THEN "QUARANTINED"
                                         ELSE "HANDOFF_PENDING_REVIEW",
                        !.checkpoint_ref = t.fence]]
       /\ seats' = [seats EXCEPT ![t.seat] = Vacated(@)]
    /\ UNCHANGED << version, approved, overdue, circuits, operations, reviews,
                    leader, held, mandate >>

\* acknowledge_cancel
AcknowledgeCancel(w) ==
    /\ WorkerCurrent(w)
    /\ LET t == held[w] IN
       /\ jobs[t.job].fabric_state = "CANCEL_REQUESTED"
       /\ jobs[t.job].cancel
       /\ jobs' = [jobs EXCEPT ![t.job] =
                     [Disowned(@) EXCEPT
                        !.fabric_state = IF Unresolved(t.job)
                                         THEN "QUARANTINED" ELSE "CANCELLED"]]
       /\ seats' = [seats EXCEPT ![t.seat] = Freed(@)]
    /\ UNCHANGED << version, approved, overdue, circuits, operations, handoffs,
                    reviews, leader, held, mandate >>

\* Refused, without a change, when a cancel is requested, when an operation is
\* unresolved, or when the attempts are used up.
SafeRetry(w) ==
    /\ WorkerCurrent(w)
    /\ LET t == held[w] IN
       /\ jobs[t.job].fabric_state = "RUNNING"
       /\ ~jobs[t.job].cancel
       /\ ~Unresolved(t.job)
       /\ jobs[t.job].attempts < Envelope[t.job].max_attempts
       /\ jobs' = [jobs EXCEPT ![t.job] =
                     [Disowned(@) EXCEPT !.fabric_state = "QUEUED",
                                         !.delayed = TRUE]]
       /\ seats' = [seats EXCEPT ![t.seat] = Freed(@)]
    /\ UNCHANGED << version, approved, overdue, circuits, operations, handoffs,
                    reviews, leader, held, mandate >>

QuarantineCurrent(w) ==
    /\ WorkerCurrent(w)
    /\ LET t == held[w] IN
       /\ jobs' = [jobs EXCEPT ![t.job] =
                     [Disowned(@) EXCEPT !.fabric_state = "QUARANTINED"]]
       /\ seats' = [seats EXCEPT ![t.seat] = Freed(@)]
    /\ UNCHANGED << version, approved, overdue, circuits, operations, handoffs,
                    reviews, leader, held, mandate >>

\* The thread ends its run, crashes, or gives up on a lost lease: the token is
\* gone and no row is written.
DropToken(w) ==
    /\ Holds(w)
    /\ held' = [held EXCEPT ![w] = NoToken]
    /\ UNCHANGED << jobs, seats, version, approved, overdue, circuits,
                    operations, handoffs, reviews, leader, mandate >>

\* Fault: off by one.
TripsLate(row) == row.state = "HALF_OPEN" \/ row.failures >= FailureThreshold

\* One more failure opens the circuit.
Trips(row) ==
    row.state = "HALF_OPEN" \/ row.failures + 1 >= FailureThreshold

\* record_adapter_failure and record_adapter_success check no token: a thread
\* that lost its lease still reports on the adapter it ran.
RecordAdapterFailure(w) ==
    /\ Holds(w)
    /\ LET kind == Envelope[held[w].job].worker_kind
           row  == circuits[kind]
       IN
       /\ row.failures < MaxFailures
       /\ circuits' = [circuits EXCEPT ![kind] =
                         [ state |-> IF Trips(row) THEN "OPEN" ELSE "CLOSED",
                           failures |-> row.failures + 1,
                           due |-> FALSE, probe |-> NoJob ]]
    /\ UNCHANGED << jobs, seats, version, approved, overdue, operations,
                    handoffs, reviews, leader, held, mandate >>

RecordAdapterSuccess(w) ==
    /\ Holds(w)
    /\ circuits' = [circuits EXCEPT ![Envelope[held[w].job].worker_kind] =
                      [ state |-> "CLOSED", failures |-> 0, due |-> FALSE,
                        probe |-> NoJob ]]
    /\ UNCHANGED << jobs, seats, version, approved, overdue, operations,
                    handoffs, reviews, leader, held, mandate >>

-----------------------------------------------------------------------------
(* The operation journal a worker keeps: job_runtime *)

\* _assert_fence asks for the job's lease only, not for its state or seat.
JournalFence(w) ==
    /\ Holds(w)
    /\ LET j == jobs[held[w].job] IN
       /\ j.lease_owner = OwnerName[w]
       /\ j.fence = held[w].fence
       /\ j.lease = "LIVE"

OperationTransitions ==
    { << "PREPARED", "IN_FLIGHT" >>, << "PREPARED", "VERIFIED_NOT_DONE" >>,
      << "PREPARED", "FAILED_SAFE" >>,
      << "IN_FLIGHT", "VERIFIED_COMPLETE" >>,
      << "IN_FLIGHT", "VERIFIED_NOT_DONE" >>,
      << "IN_FLIGHT", "UNCERTAIN_PARTIAL" >>, << "IN_FLIGHT", "FAILED_SAFE" >>,
      << "UNCERTAIN_PARTIAL", "VERIFIED_COMPLETE" >>,
      << "UNCERTAIN_PARTIAL", "VERIFIED_NOT_DONE" >>,
      << "UNCERTAIN_PARTIAL", "FAILED_SAFE" >> }

\* One journalled operation per claim; a known idempotency key returns the row
\* that exists.
PrepareOperation(w) ==
    /\ JournalFence(w)
    /\ LET t == held[w] IN
       /\ t.job \in OperationJobs
       /\ ~\E o \in operations : o.job = t.job /\ o.fence = t.fence
       /\ operations' = operations \cup
            {[job |-> t.job, fence |-> t.fence, status |-> "PREPARED"]}
    /\ UNCHANGED << jobs, seats, version, approved, overdue, circuits,
                    handoffs, reviews, leader, held, mandate >>

\* Only the claim that prepared an operation may move it.
TransitionOperation(w, target) ==
    /\ JournalFence(w)
    /\ \E o \in operations :
          /\ o.job = held[w].job
          /\ o.fence = held[w].fence
          /\ << o.status, target >> \in OperationTransitions
          /\ operations' = (operations \ {o}) \cup
                             {[o EXCEPT !.status = target]}
    /\ UNCHANGED << jobs, seats, version, approved, overdue, circuits,
                    handoffs, reviews, leader, held, mandate >>

\* External: whoever verified the destination of a quarantined effect records
\* the outcome, with no token (as test_five_seat_fs08_hardening.py:321-328
\* does); no handler writes the row of a claim that is over.
SettleOperation(o, target) ==
    /\ jobs[o.job].fabric_state = "QUARANTINED"
    /\ o.status \in UnresolvedStatuses
    /\ target \notin UnresolvedStatuses
    /\ << o.status, target >> \in OperationTransitions
    /\ operations' = (operations \ {o}) \cup {[o EXCEPT !.status = target]}
    /\ UNCHANGED << jobs, seats, version, approved, overdue, circuits,
                    handoffs, reviews, leader, held, mandate >>

-----------------------------------------------------------------------------
(* Remedies without a token: cancellation and lease reconciliation *)

\* Fault: one finished state is forgotten.
BeyondCancelButFailed == {"ABSENT", "SUCCEEDED", "CANCELLED", "QUARANTINED"}

\* A request finds no job, or one that it leaves as it is.
BeyondCancel ==
    {"ABSENT", "SUCCEEDED", "FAILED_SAFE", "CANCELLED", "QUARANTINED"}

RequestCancel(j) ==
    /\ j \in CancelInputs
    /\ jobs[j].fabric_state \notin BeyondCancel
    /\ jobs' = [jobs EXCEPT ![j] =
                  IF Running(j)
                  THEN [@ EXCEPT !.fabric_state = "CANCEL_REQUESTED",
                                 !.cancel = TRUE]
                  ELSE [Disowned(@) EXCEPT !.fabric_state = "CANCELLED",
                                           !.cancel = TRUE]]
    /\ jobs[j].fence < MaxFence
    /\ UNCHANGED << seats, version, approved, overdue, circuits, operations,
                    handoffs, reviews, leader, held, mandate >>

\* Fault: a seat whose job has gone stale is passed over.
LapsedCurrentSeats ==
    {s \in Seats : /\ seats[s].state = "RUNNING"
                   /\ seats[s].lease = "LAPSED"
                   /\ CurrentSource(seats[s].current_job)}

LapsedSeats ==
    {s \in Seats : seats[s].state = "RUNNING" /\ seats[s].lease = "LAPSED"}

LapsedJobs == {seats[s].current_job : s \in LapsedSeats}

\* Fault: the operation journal is not read.
RecoveredBlindly(j) ==
    LET row == Disowned(jobs[j]) IN
    IF ~CurrentSource(j) THEN [row EXCEPT !.fabric_state = "STALE"]
    ELSE IF jobs[j].fabric_state = "CANCEL_REQUESTED"
      THEN [row EXCEPT !.fabric_state = "CANCELLED"]
    ELSE [row EXCEPT !.fabric_state = "QUEUED", !.delayed = TRUE]

\* The order of the tests is the code's: a stale source is seen first.
Recovered(j) ==
    LET row == Disowned(jobs[j]) IN
    IF ~CurrentSource(j)
      THEN [row EXCEPT !.fabric_state = "STALE", !.delayed = FALSE]
    ELSE IF Unresolved(j)
      THEN [row EXCEPT !.fabric_state = "QUARANTINED", !.delayed = FALSE]
    ELSE IF jobs[j].fabric_state = "CANCEL_REQUESTED" \/ jobs[j].cancel
      THEN [row EXCEPT !.fabric_state = "CANCELLED", !.delayed = FALSE]
    ELSE IF jobs[j].attempts < Envelope[j].max_attempts
      THEN [row EXCEPT !.fabric_state = "QUEUED", !.delayed = TRUE]
    ELSE [row EXCEPT !.fabric_state = "FAILED_SAFE", !.delayed = FALSE]

\* Fault: only a probe this pass recovers is noticed.
ProbeReconciled(k) ==
    circuits[k].state = "HALF_OPEN" /\ circuits[k].probe \in LapsedJobs

\* The probe of a half-open circuit no longer runs under a live lease, or is
\* among the jobs this pass recovers.
ProbeLost(k) ==
    /\ circuits[k].state = "HALF_OPEN"
    /\ circuits[k].probe \notin ActiveJobs \ LapsedJobs

\* One pass of reconcile_expired_leases over every lapsed seat.
ReconcileExpiredLeases ==
    /\ LapsedSeats # {} \/ \E k \in Kinds : ProbeLost(k)
    /\ jobs' = [j \in Jobs |->
                  IF j \in LapsedJobs THEN Recovered(j) ELSE jobs[j]]
    /\ seats' = [s \in Seats |->
                  IF s \in LapsedSeats THEN Freed(seats[s]) ELSE seats[s]]
    /\ circuits' = [k \in Kinds |->
                      IF ProbeLost(k)
                      THEN [ state |-> "OPEN",
                             failures |-> circuits[k].failures + 1,
                             due |-> FALSE, probe |-> NoJob ]
                      ELSE circuits[k]]
    /\ UNCHANGED << version, approved, overdue, operations, handoffs, reviews,
                    leader, held, mandate >>

-----------------------------------------------------------------------------
(* WATCH: five_seat_watch *)

\* Every change of hands is a new term.
NextTerm == leader.fence + 1

\* The same owner string may take the lead again while its lease still runs;
\* that fences the thread that held it.
ClaimLeader(c) ==
    /\ leader.lease = "LIVE" => leader.lease_owner \in {NoOwner, OwnerName[c]}
    /\ leader.fence < MaxLeaderFence
    /\ leader' = [ lease_owner |-> OwnerName[c], lease |-> "LIVE",
                   fence |-> NextTerm ]
    /\ mandate' = [mandate EXCEPT ![c] = NextTerm]
    /\ UNCHANGED << jobs, seats, version, approved, overdue, circuits,
                    operations, handoffs, reviews, held >>

HeartbeatLeader(c) ==
    /\ LeaderCurrent(c)
    /\ leader' = [leader EXCEPT !.lease = "LIVE"]
    /\ UNCHANGED << jobs, seats, version, approved, overdue, circuits,
                    operations, handoffs, reviews, held, mandate >>

\* An expired leadership may still be released: the lease is not tested.
ReleaseLeader(c) ==
    /\ mandate[c] # 0
    /\ leader.lease_owner = OwnerName[c]
    /\ leader.fence = mandate[c]
    /\ leader' = [leader EXCEPT !.lease_owner = NoOwner, !.lease = "NONE"]
    /\ mandate' = [mandate EXCEPT ![c] = 0]
    /\ UNCHANGED << jobs, seats, version, approved, overdue, circuits,
                    operations, handoffs, reviews, held >>

\* Fault: a BLOCK leaves the handoff open to another decision.
UnreviewedIfBlocked(h) ==
    ~\E r \in reviews :
        r.job = h.job /\ r.fence = h.fence /\ r.decision # "BLOCK"

\* One review row per handoff; asking again gets it back, or a conflict.
Unreviewed(h) == ~\E r \in reviews : r.job = h.job /\ r.fence = h.fence

\* Fault.
AnyReviewer(c, h) == TRUE

\* Nobody reviews a handoff signed with its own name.
Independent(c, h) == h.worker # OwnerName[c]

Reviewable(h) ==
    /\ jobs[h.job].fabric_state \in {"HANDOFF_PENDING_REVIEW", "QUARANTINED"}
    /\ jobs[h.job].seat_id = NoSeat
    /\ jobs[h.job].lease_owner = NoOwner
    /\ jobs[h.job].checkpoint_ref = h.fence

\* Fault: a recorded cancel is not asked for.
MayProceedAnyway(j, reconciled) ==
    /\ CurrentAuthority(j)
    /\ jobs[j].fabric_state = "QUARANTINED" => reconciled /\ ~Unresolved(j)

\* What ACCEPT and REWORK ask beyond a reviewable handoff.
MayProceed(j, reconciled) ==
    /\ CurrentAuthority(j)
    /\ ~jobs[j].cancel
    /\ jobs[j].fabric_state = "QUARANTINED" => reconciled /\ ~Unresolved(j)

\* Fault: BLOCK leaves the job as it is.
ReviewTargetKept(j, decision) ==
    CASE decision = "ACCEPT"   -> "SUCCEEDED"
      [] decision = "REWORK"   -> "REWORK_QUEUED"
      [] decision = "ESCALATE" -> "ESCALATED"
      [] decision = "BLOCK"    -> jobs[j].fabric_state

ReviewTarget(j, decision) ==
    CASE decision = "ACCEPT"   -> "SUCCEEDED"
      [] decision = "REWORK"   -> "REWORK_QUEUED"
      [] decision = "ESCALATE" -> "ESCALATED"
      [] decision = "BLOCK"    ->
           IF jobs[j].fabric_state = "QUARANTINED" THEN "QUARANTINED"
                                                   ELSE "FAILED_SAFE"

\* Fault: the round is not counted.
ReworkedUncounted(row) ==
    [row EXCEPT !.fabric_state = "REWORK_QUEUED", !.attempts = 0,
                !.delayed = FALSE, !.cancel = FALSE]

\* REWORK opens a new round of attempts.
Reworked(row) ==
    [row EXCEPT !.fabric_state = "REWORK_QUEUED", !.attempts = 0,
                !.reworks = @ + 1, !.delayed = FALSE, !.cancel = FALSE]

\* reconciled: the evidence carries quarantine_reconciled = true.
ReviewHandoff(c, h, decision, reconciled) ==
    /\ LeaderCurrent(c)
    /\ Unreviewed(h)
    /\ Independent(c, h)
    /\ Reviewable(h)
    /\ decision \in {"ACCEPT", "REWORK"} => MayProceed(h.job, reconciled)
    /\ decision = "REWORK" =>
         jobs[h.job].reworks < Envelope[h.job].max_reworks
    /\ reviews' = reviews \cup
         {[ job |-> h.job, fence |-> h.fence, decision |-> decision,
            owner |-> OwnerName[c], leader_fence |-> mandate[c] ]}
    /\ jobs' = [jobs EXCEPT ![h.job] =
                  IF decision = "REWORK" THEN Reworked(@)
                  ELSE [@ EXCEPT
                          !.fabric_state = ReviewTarget(h.job, decision)]]
    /\ UNCHANGED << seats, version, approved, overdue, circuits, operations,
                    handoffs, leader, held, mandate >>

-----------------------------------------------------------------------------
(* Time: what the comparisons with now() come to see *)

\* The two leases of a claim are written with one now(), so they expire
\* together.
LapseLease(s) ==
    /\ seats[s].state = "RUNNING"
    /\ seats[s].lease = "LIVE"
    /\ seats' = [seats EXCEPT ![s].lease = "LAPSED"]
    /\ jobs' = [jobs EXCEPT ![seats[s].current_job].lease = "LAPSED"]
    /\ UNCHANGED << version, approved, overdue, circuits, operations, handoffs,
                    reviews, leader, held, mandate >>

LapseLeader ==
    /\ leader.lease = "LIVE"
    /\ leader' = [leader EXCEPT !.lease = "LAPSED"]
    /\ UNCHANGED << jobs, seats, version, approved, overdue, circuits,
                    operations, handoffs, reviews, held, mandate >>

RetryDelayElapses(j) ==
    /\ jobs[j].delayed
    /\ jobs' = [jobs EXCEPT ![j].delayed = FALSE]
    /\ UNCHANGED << seats, version, approved, overdue, circuits, operations,
                    handoffs, reviews, leader, held, mandate >>

ApprovalExpires(j) ==
    /\ j \in approved
    /\ approved' = approved \ {j}
    /\ UNCHANGED << jobs, seats, version, overdue, circuits, operations,
                    handoffs, reviews, leader, held, mandate >>

CooldownElapses(k) ==
    /\ circuits[k].state = "OPEN"
    /\ ~circuits[k].due
    /\ circuits' = [circuits EXCEPT ![k].due = TRUE]
    /\ UNCHANGED << jobs, seats, version, approved, overdue, operations,
                    handoffs, reviews, leader, held, mandate >>

\* Only admission asks for the deadline, so it is taken to pass while the job is
\* a candidate.
DeadlinePasses(j) ==
    /\ Envelope[j].packet
    /\ j \in Examined
    /\ overdue' = overdue \cup {j}
    /\ UNCHANGED << jobs, seats, version, approved, circuits, operations,
                    handoffs, reviews, leader, held, mandate >>

-----------------------------------------------------------------------------

WorkerStep(w) ==
    \/ \E locked \in SUBSET Examined : ClaimNext(w, locked)
    \/ Heartbeat(w)
    \/ \E p \in {"NONE", "UNCERTAIN_PARTIAL"} : ReleaseForReview(w, p)
    \/ AcknowledgeCancel(w)
    \/ SafeRetry(w)
    \/ QuarantineCurrent(w)
    \/ DropToken(w)
    \/ RecordAdapterFailure(w)
    \/ RecordAdapterSuccess(w)
    \/ PrepareOperation(w)
    \/ \E target \in OperationTargets : TransitionOperation(w, target)

WatchStep(c) ==
    \/ ClaimLeader(c)
    \/ HeartbeatLeader(c)
    \/ ReleaseLeader(c)
    \/ \E h \in handoffs, d \in Decisions, b \in BOOLEAN :
          ReviewHandoff(c, h, d, b)

OwnerStep(j) ==
    Submit(j) \/ ApproveJob(j) \/ RevokeJob(j) \/ RequestCancel(j)

ClockStep ==
    \/ \E s \in Seats : LapseLease(s)
    \/ LapseLeader
    \/ \E j \in Jobs : \/ RetryDelayElapses(j)
                       \/ ApprovalExpires(j)
                       \/ DeadlinePasses(j)
    \/ \E k \in Kinds : CooldownElapses(k)

Next ==
    \/ \E w \in Workers : WorkerStep(w)
    \/ \E c \in Controllers : WatchStep(c)
    \/ \E j \in Jobs : OwnerStep(j)
    \/ \E v \in 1 .. MaxVersion : SetSharedStateVersion(v)
    \/ \E o \in operations, target \in OperationTargets :
          SettleOperation(o, target)
    \/ ReconcileExpiredLeases
    \/ ClockStep

Spec == Init /\ [][Next]_vars

-----------------------------------------------------------------------------
(* Invariants *)

\* Every row keeps the shape of its table.
TypeOK ==
    /\ jobs \in [Jobs -> JobRow]
    /\ seats \in [Seats -> SeatRow]
    /\ version \in Nat
    /\ approved \subseteq Jobs
    /\ overdue \subseteq Jobs
    /\ circuits \in [Kinds -> CircuitRow]
    /\ operations \subseteq Operation
    /\ handoffs \subseteq Handoff
    /\ reviews \subseteq Review
    /\ leader \in [ lease_owner : Owners \cup {NoOwner}, lease : Leases,
                    fence : Nat ]
    /\ held \in [Workers -> Token \cup {NoToken}]
    /\ mandate \in [Controllers -> Nat]

\* The job and the seat of a claim name each other, with one owner and one
\* lease, and a row outside a claim carries no trace of one.  Every handler of
\* runtime and remedies writes the two tables in separate statements.
SeatJobAgreement ==
    /\ \A s \in Seats :
          IF seats[s].state = "RUNNING"
          THEN /\ seats[s].current_job \in Jobs
               /\ LET j == jobs[seats[s].current_job] IN
                  /\ Running(seats[s].current_job)
                  /\ j.seat_id = s
                  /\ j.lease_owner = seats[s].lease_owner
                  /\ j.lease = seats[s].lease
               /\ seats[s].lease # "NONE"
          ELSE /\ seats[s].current_job = NoJob
               /\ seats[s].lease_owner = NoOwner
               /\ seats[s].lease = "NONE"
    /\ \A j \in Jobs :
          IF Running(j)
          THEN /\ jobs[j].seat_id \in Seats
               /\ seats[jobs[j].seat_id].state = "RUNNING"
               /\ seats[jobs[j].seat_id].current_job = j
          ELSE /\ jobs[j].seat_id = NoSeat
               /\ jobs[j].lease_owner = NoOwner
               /\ jobs[j].lease = "NONE"

\* A token still carrying its job's fence is the claim that runs the job, on
\* the seat and the seat fence it was given: the fence alone tells a current
\* token from an old one, even when two threads sign with one owner name.
FenceIdentifiesClaim ==
    \A w \in Workers : Holds(w) =>
        LET t == held[w] IN
        /\ t.seat \in Seats
        /\ t.fence <= jobs[t.job].fence
        /\ t.seat_fence <= seats[t.seat].fence
        /\ t.fence = jobs[t.job].fence =>
             /\ Running(t.job)
             /\ jobs[t.job].seat_id = t.seat
             /\ jobs[t.job].lease_owner = OwnerName[w]
             /\ seats[t.seat].fence = t.seat_fence

\* No two threads can both act for one job, or from one seat.
OneCurrentToken ==
    \A v, w \in Workers :
        /\ v # w
        /\ WorkerCurrent(v)
        /\ WorkerCurrent(w)
        => held[v].job # held[w].job /\ held[v].seat # held[w].seat

\* Jobs under live leases satisfy the class and scope rules pairwise, in
\* whichever order claim_next admitted them.
LiveIsolation ==
    \A j, k \in ActiveJobs : j # k => MayOverlapInTime(j, k)

\* A job that waits for WATCH waits on a handoff that exists, was written by
\* its last claim, and has no review: no result is lost or decided twice.
PendingIsReviewable ==
    \A j \in Jobs : jobs[j].fabric_state = "HANDOFF_PENDING_REVIEW" =>
        /\ \E h \in handoffs : h.job = j /\ h.fence = jobs[j].checkpoint_ref
        /\ jobs[j].fence = jobs[j].checkpoint_ref + 1
        /\ ~\E r \in reviews :
              r.job = j /\ r.fence = jobs[j].checkpoint_ref

\* SUCCEEDED is backed by an ACCEPT of the job's last handoff, by someone other
\* than the worker who wrote it.
SucceededWasAccepted ==
    \A j \in Jobs : jobs[j].fabric_state = "SUCCEEDED" =>
        \E r \in reviews, h \in handoffs :
            /\ r.job = j /\ h.job = j
            /\ r.fence = jobs[j].checkpoint_ref
            /\ h.fence = jobs[j].checkpoint_ref
            /\ r.decision = "ACCEPT"
            /\ r.owner # h.worker

\* Nothing a worker left in flight reaches review as clean, or success.
SucceededIsSettled ==
    \A j \in Jobs :
        jobs[j].fabric_state \in {"HANDOFF_PENDING_REVIEW", "SUCCEEDED"}
        => ~Unresolved(j)

\* Once a cancel is recorded the job never waits for a seat, never succeeds and
\* is never offered for a clean review, whatever arrives later.
CancelIsFinal ==
    \A j \in Jobs : jobs[j].cancel =>
        jobs[j].fabric_state \in
            { "CANCEL_REQUESTED", "CANCELLED", "QUARANTINED", "STALE",
              "BLOCKED_OWNER", "ESCALATED" }

\* Retries and reworks together bound the handoffs of a job.
HandoffBudget ==
    \A j \in Jobs :
        Cardinality({h \in handoffs : h.job = j})
          <= Envelope[j].max_attempts * (jobs[j].reworks + 1)

\* One claim yields at most one handoff, and a seat's fence never serves two.
OneHandoffPerClaim ==
    \A g, h \in handoffs :
        \/ g = h
        \/ /\ << g.job, g.fence >> # << h.job, h.fence >>
           /\ << g.seat, g.seat_fence >> # << h.seat, h.seat_fence >>

\* One WATCH thread has authority at a time, and a leadership term never
\* carries the decisions of two owners.
LeadershipIsExclusive ==
    /\ \A c, d \in Controllers :
          LeaderCurrent(c) /\ LeaderCurrent(d) => c = d
    /\ \A q, r \in reviews :
          q.leader_fence = r.leader_fence => q.owner = r.owner

\* The circuit is closed exactly below the threshold, and a half-open one
\* knows the job that probes it.
CircuitFollowsCount ==
    \A k \in Kinds :
        /\ circuits[k].state = "CLOSED" <=>
             circuits[k].failures < FailureThreshold
        /\ circuits[k].state = "HALF_OPEN" => circuits[k].probe \in Jobs

-----------------------------------------------------------------------------
(* What a step may never do *)

\* Authority that was lost stays lost: a kept token that is not current now is
\* not current later, through heartbeats, retries, re-claims and seat reuse.
FencedForever ==
    [][\A w \in Workers :
          /\ Holds(w)
          /\ held'[w] = held[w]
          /\ ~WorkerCurrent(w)
          => ~WorkerCurrent(w)']_vars

\* Work with an unresolved operation moves only towards containment: no step
\* puts it back in line, offers it for clean review or ends it as done, unless
\* the owner revoked and approved it again (and then see NoBlindRetry).
UnresolvedIsContained ==
    [][\A j \in Jobs :
          /\ Unresolved(j)
          /\ jobs'[j].fabric_state # jobs[j].fabric_state
          => \/ jobs'[j].fabric_state \in
                  { "CANCEL_REQUESTED", "QUARANTINED", "STALE", "ESCALATED",
                    "CANCELLED", "BLOCKED_OWNER" }
             \/ << jobs[j].fabric_state, jobs'[j].fabric_state >> \in
                  {<< "BLOCKED_OWNER", "QUEUED" >>, << "QUEUED", "RUNNING" >>}]_vars

\* A finished job leaves its state only by the owner's revocation, which takes
\* its approval as well.
FinalUnlessRevoked ==
    [][\A j \in Jobs :
          /\ jobs[j].fabric_state \in {"SUCCEEDED", "FAILED_SAFE", "CANCELLED"}
          /\ jobs'[j].fabric_state # jobs[j].fabric_state
          => jobs'[j].fabric_state = "BLOCKED_OWNER" /\ j \notin approved']_vars

-----------------------------------------------------------------------------
(* What it implements *)

Stage(j) ==
    CASE Running(j)                          -> "held"
      [] jobs[j].fabric_state = "SUCCEEDED"  -> "done"
      [] OTHER                               -> "idle"

Deliveries(j) ==
    {[fence |-> h.fence, worker |-> h.worker] : h \in {g \in handoffs : g.job = j}}

Rulings(j) ==
    { [fence |-> r.fence, decision |-> r.decision, owner |-> r.owner] :
        r \in {q \in reviews : q.job = j} }

Ledger(j) == INSTANCE JobLedger WITH
    stage <- Stage(j), term <- jobs[j].fence, last <- jobs[j].checkpoint_ref,
    delivered <- Deliveries(j), decided <- Rulings(j)

\* Each job's rows in the four tables are a ledger: held by one claim after
\* another, delivered once by a claim that holds it or never, decided once on
\* its last delivery by another than its worker, done by an ACCEPT alone.  One
\* step may move several ledgers, so this is Ledger(j)!Spec for every j.
ImplementsJobLedger ==
    /\ \A j \in Jobs : Ledger(j)!Init
    /\ [][\A j \in Jobs : [Ledger(j)!Next]_(Ledger(j)!ledger)]_vars

-----------------------------------------------------------------------------
(* Progress *)

\* What the service keeps running: each worker thread polls for work and ends
\* every run it starts, the maintenance loop reconciles, and clocks advance.
\* A heartbeat renews a lease only while its run lasts, so no lease lives for
\* ever; a row lock lasts one transaction, so some call finds none.
Fairness ==
    /\ \A w \in Workers : WF_vars(ClaimNext(w, {})) /\ WF_vars(DropToken(w))
    /\ WF_vars(ReconcileExpiredLeases)
    /\ \A s \in Seats : WF_vars(LapseLease(s))
    /\ \A j \in Jobs : WF_vars(RetryDelayElapses(j))
    /\ \A k \in Kinds : WF_vars(CooldownElapses(k))

FairSpec == Spec /\ Fairness

\* A dead worker's seat comes back: nothing but reconciliation frees it.
SeatsComeBack ==
    \A s \in Seats : seats[s].state = "RUNNING" ~> seats[s].state = "FREE"

\* A probe that vanishes does not leave its circuit half open for ever.
ProbesEnd ==
    \A k \in Kinds :
        circuits[k].state = "HALF_OPEN" ~> circuits[k].state # "HALF_OPEN"

\* A free seat and an idle thread that could run j, which nothing forbids.
Runnable(j) ==
    /\ version > 0
    /\ SeatAvailable
    /\ j \in Examined
    /\ CurrentAuthority(j)
    /\ \E w \in Workers : ~Holds(w) /\ Admissible(w, j)

\* "a compatible free seat claims immediately": no job stays runnable for ever
\* without being claimed.
RunnableIsClaimed == \A j \in Jobs : []<>~Runnable(j)

-----------------------------------------------------------------------------
(* What the fabric document says and the code does not do: each is checked  *)
(* by a run that expects a violation.                                       *)

\* Section 6: a seat returns to FREE only when unresolved external effects have
\* been reconciled or the affected task is quarantined.
FreedOnlyWhenContained ==
    [][\A s \in Seats :
          /\ seats[s].state = "RUNNING"
          /\ seats'[s].state = "FREE"
          /\ Unresolved(seats[s].current_job)
          => jobs'[seats[s].current_job].fabric_state = "QUARANTINED"]_vars

\* Section 13, partial external side effect: no blind retry.
NoBlindRetry ==
    \A j \in Jobs : Unresolved(j) /\ jobs[j].fabric_state = "RUNNING" =>
        \E o \in operations :
            /\ o.job = j
            /\ o.status \in UnresolvedStatuses
            /\ o.fence = jobs[j].fence

\* Section 9: a seat claims a task only when no unresolved side effect blocks
\* the resource it touches.
UnresolvedSurfaceIsHeld ==
    [][\A j, k \in Jobs :
          /\ j # k
          /\ ~Running(j) /\ Running(j)'
          /\ Unresolved(k)
          => ~ScopeConflict(j, k)]_vars
=============================================================================
