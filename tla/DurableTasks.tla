---------------------------- MODULE DurableTasks ----------------------------
(***************************************************************************)
(* The bridge's own job queue, which runs where the five-seat fabric is not  *)
(* enabled: durable_tasks.py and durable_tasks_runtime.py (queue and worker  *)
(* threads), guardian.py (lease containment and duplicates) and the           *)
(* synchronous tool call, all over jaytec_jobs, jaytec_task_packets and        *)
(* execution_registry.                                                        *)
(*                                                                         *)
(* A packet is named by its idempotency key; its job is the row of that       *)
(* packet.  ownership_epoch and fence_token move together and are one number.  *)
(* The jobs are class A and change nothing, so among them admission excludes   *)
(* duplicates only.  Handlers are transactions, hence atomic; execution and    *)
(* the guardian's pass are several.                                            *)
(***************************************************************************)
EXTENDS PacketExecution, Sequences, FiniteSets

CONSTANTS
    Keys,        \* idempotency keys
    Contents,    \* key -> hashes of the packets submitted under it
    Spoken,      \* key -> hashes of the packets of synchronous calls under it
    Plan,        \* key -> specialists of the packet
    Task,        \* key -> project and task of the packet
    Retries,     \* key -> max_retries of the packet
    Urgency,     \* key -> priority given at submission, lower first
    Workers,     \* threads in ReliableDurableTaskWorker.run_once
    Owner,       \* worker -> the owner string it signs with
    Callers,     \* clients of the synchronous call
    NoOne,
    MaxParallel, \* MAX_PARALLEL_DURABLE_JOBS
    Historical,  \* rows an older version may have left in execution_registry
    \* Bounds of the instance.
    Heard,       \* what providers are taken to reply
    MaxFaults    \* crashes, stalls, lost keepalives, exceptions, clients that
                 \* hang up, deadlines that pass and registry rows that expire

VARIABLES
    job,       \* key -> its rows in jaytec_jobs and jaytec_task_packets
    line,      \* the submitted keys, by created_at
    registry,  \* key -> its row in execution_registry
    overdue,   \* keys whose packet's deadline has passed
    thread,    \* worker or caller -> the execution it is in
    guardian,  \* the findings that wait for bounded_repair
    rounds,    \* key -> executions begun by workers, kept for the properties
    faults

vars == << job, line, registry, overdue, thread, guardian, rounds, faults >>

Owners == {Owner[w] : w \in Workers}

Threads == Workers \cup Callers

JobStatuses == {"QUEUED", "RUNNING", "PAUSED", "BLOCKED", "SUCCEEDED", "FAILED_SAFE"}

PacketStatuses == {"QUEUED", "RUNNING", "SUCCEEDED", "FAILED_SAFE"}

NoResult == [overall |-> "none"]

\* A lease with an owner is live or lapsed.
Job ==
    [ status : JobStatuses, packet : PacketStatuses, hash : Hashes,
      owner : Owners \cup {NoOne},
      live : BOOLEAN,        \* lease_expires_at > now()
      fence : Nat,
      delayed : BOOLEAN,     \* next_attempt_at > now()
      attempts : Nat,
      result : Result \cup {NoResult} ]

NoJob == [status |-> "none"]

\* "claimed" and "settling" are run_once around the execution.
Places == {"idle", "claimed", "calling", "raised", "settling"}

Thread ==
    [ at : Places,
      key : Keys \cup {NoOne}, hash : Hashes \cup {NoOne},
      fence : Nat, attempt : Nat,        \* LeaseToken and attempt_count
      lost : BOOLEAN,                    \* lost_lease is set
      result : Result \cup {NoResult} ]

IdleThread ==
    [ at |-> "idle", key |-> NoOne, hash |-> NoOne, fence |-> 0, attempt |-> 0,
      lost |-> FALSE, result |-> NoResult ]

ASSUME BridgeAssumption ==
    /\ Contents \in [Keys -> SUBSET Hashes]
    /\ Spoken \in [Keys -> SUBSET Hashes]
    /\ Plan \in [Keys -> (SUBSET Specialists) \ {{}}]
    /\ Retries \in [Keys -> 0 .. 3]
    /\ \A k \in Keys : "sol" \in Plan[k] => Retries[k] = 0
    /\ Urgency \in [Keys -> Nat]
    /\ DOMAIN Task = Keys
    /\ DOMAIN Owner = Workers
    /\ NoOne \notin Keys \cup Hashes \cup Owners
    /\ IsFiniteSet(Workers)
    /\ Workers \cap Callers = {}
    /\ NoRow \notin Row
    /\ Historical \subseteq [Keys -> Row \cup {NoRow}]
    /\ Heard \subseteq Replies
    /\ MaxParallel \in 1 .. 32
    /\ MaxFaults \in Nat

Init ==
    /\ job = [k \in Keys |-> NoJob]
    /\ line = << >>
    /\ registry \in Historical
    /\ overdue = {}
    /\ thread = [t \in Threads |-> IdleThread]
    /\ guardian = [expired |-> {}, duplicates |-> {}]
    /\ rounds = [k \in Keys |-> 0]
    /\ faults = 0

-----------------------------------------------------------------------------
(* Rows *)

Submitted == {k \in Keys : job[k] # NoJob}

Settled(k) == job[k].status \in {"SUCCEEDED", "FAILED_SAFE"}

MaxAttempts(k) == Retries[k] + 1

\* Same project, task and type, and a specialist in common: the resource scope
\* of a packet is its plan.
Duplicates(k, l) == k # l /\ Task[k] = Task[l] /\ Plan[k] \cap Plan[l] # {}

\* The lease and the room are given up and the old tokens fenced off.
Freed(row) ==
    [row EXCEPT !.owner = NoOne, !.live = FALSE, !.fence = @ + 1]

Put(t, state) == thread' = [thread EXCEPT ![t] = state]

Leaves(t) == Put(t, IdleThread)

\* The token's owner, epoch and fence, on a live lease.
Holds(w) ==
    LET row == job[thread[w].key]
    IN  /\ thread[w].key # NoOne
        /\ row.owner = Owner[w]
        /\ row.fence = thread[w].fence
        /\ row.live

-----------------------------------------------------------------------------
(* The queue *)

\* validate_packet: of its conditions only the deadline changes.
Fresh(k) == k \notin overdue

\* submit of a new key; a known one with its hash returns the job as it is and
\* with another hash is refused.
Submit(k, h) ==
    /\ Fresh(k)
    /\ k \notin Submitted
    /\ job' = [job EXCEPT ![k] =
                 [ status |-> "QUEUED", packet |-> "QUEUED", hash |-> h,
                   owner |-> NoOne, live |-> FALSE, fence |-> 1, delayed |-> FALSE,
                   attempts |-> 0, result |-> NoResult ]]
    /\ line' = Append(line, k)
    /\ UNCHANGED << registry, overdue, thread, guardian, rounds, faults >>

Active == {k \in Submitted : job[k].status = "RUNNING" /\ job[k].live}

\* Fault: a packet that a dead worker left RUNNING is not taken again.
RunnableIfQueued(k) ==
    /\ job[k].status \in {"QUEUED", "PAUSED"}
    /\ job[k].packet = "QUEUED"
    /\ ~job[k].live
    /\ ~job[k].delayed

Runnable(k) ==
    /\ job[k].status \in {"QUEUED", "PAUSED"}
    /\ job[k].packet \in {"QUEUED", "RUNNING"}
    /\ ~job[k].live
    /\ ~job[k].delayed

Claimed(row, w) ==
    [row EXCEPT !.status = "RUNNING", !.packet = "RUNNING", !.owner = Owner[w],
                !.live = TRUE, !.fence = @ + 1, !.delayed = FALSE, !.attempts = @ + 1]

\* claim_next.  Locked rows are skipped, so any candidate may be the first.
Claim(w) ==
    /\ thread[w].at = "idle"
    /\ Cardinality(Active) < MaxParallel
    /\ \E k \in Submitted :
          /\ Runnable(k)
          /\ \A l \in Active : ~Duplicates(k, l)
          /\ job' = [job EXCEPT ![k] = Claimed(@, w)]
          /\ Put(w, [ IdleThread EXCEPT
                        !.at = "claimed", !.key = k, !.hash = job[k].hash,
                        !.fence = job'[k].fence, !.attempt = job'[k].attempts ])
    /\ UNCHANGED << line, registry, overdue, guardian, rounds, faults >>

Finished(row, ok, r) ==
    [row EXCEPT !.status = IF ok THEN "SUCCEEDED" ELSE "FAILED_SAFE",
                !.packet = IF ok THEN "SUCCEEDED" ELSE "FAILED_SAFE",
                !.owner = NoOne, !.live = FALSE, !.delayed = FALSE, !.result = r]

\* finish; without the lease DurableTaskFenceError ends run_once.
Finish(w, ok, r) ==
    /\ job' = IF Holds(w) THEN [job EXCEPT ![thread[w].key] = Finished(@, ok, r)] ELSE job
    /\ Leaves(w)
    /\ UNCHANGED << line, registry, overdue, guardian, rounds, faults >>

Requeued(row) ==
    [Freed(row) EXCEPT !.status = "PAUSED", !.packet = "QUEUED", !.delayed = TRUE]

\* requeue, likewise.
Requeue(w) ==
    /\ job' = IF Holds(w) THEN [job EXCEPT ![thread[w].key] = Requeued(@)] ELSE job
    /\ Leaves(w)
    /\ UNCHANGED << line, registry, overdue, guardian, rounds, faults >>

-----------------------------------------------------------------------------
(* Executing a packet *)

\* Fault: one attempt more is let through.
OneAttemptMore(w) == thread[w].attempt > MaxAttempts(thread[w].key) + 1

OutOfAttempts(w) == thread[w].attempt > MaxAttempts(thread[w].key)

\* The budget was used up by workers that died: no provider is called.
GivesUp(w) ==
    /\ thread[w].at = "claimed"
    /\ OutOfAttempts(w)
    /\ Finish(w, FALSE, Refusal("FAILED_CLOSED", thread[w].hash))

\* The deadline is looked at once, before the registry; e is the execution of
\* thread t that begins.
Opened(t, e) ==
    LET row == registry[e.key]
        To(at, r) == Put(t, [e EXCEPT !.at = at, !.result = r])
    IN  IF ~Fresh(e.key)
        THEN To("settling", Refusal("INVALID_PACKET", e.hash)) /\ UNCHANGED registry
        ELSE /\ registry' = [registry EXCEPT ![e.key] = LookedUp(@)]
             /\ IF Conflicts(row, e.hash)
                THEN To("settling", Refusal("FAILED_CLOSED", e.hash))
                ELSE IF Replayed(row)
                     THEN To("settling", [row.result EXCEPT !.replay = TRUE])
                     ELSE To("calling", NoResult)

Begins(w) ==
    /\ thread[w].at = "claimed"
    /\ ~OutOfAttempts(w)
    /\ Opened(w, thread[w])
    /\ rounds' = [rounds EXCEPT ![thread[w].key] = @ + 1]
    /\ UNCHANGED << job, line, overdue, guardian, faults >>

\* A synchronous call names its packet itself and knows of no job.
Calls(c) ==
    /\ thread[c].at = "idle"
    /\ \E k \in Keys : \E h \in Spoken[k] :
          Opened(c, [IdleThread EXCEPT !.key = k, !.hash = h])
    /\ UNCHANGED << job, line, overdue, guardian, rounds, faults >>

\* What the specialists of k said.  Nobody sees the answers before the last.
Hearings(k) ==
    {m \in [Specialists -> {Invoked(reply) : reply \in Heard} \cup {Unasked}] :
        \A s \in Specialists : m[s] = Unasked <=> s \notin Plan[k]}

\* The last specialist has answered, and store(), which raises if the key has
\* an unexpired row of another packet.
Stores(t) ==
    LET k == thread[t].key
        h == thread[t].hash
    IN  /\ thread[t].at = "calling"
        /\ \E m \in Hearings(k) :
              LET r == Answer(h, m)
              IN  IF ~Transient(r) /\ Conflicts(registry[k], h)
                  THEN /\ Put(t, [thread[t] EXCEPT !.at = "raised"])
                       /\ UNCHANGED registry
                  ELSE /\ Put(t, [thread[t] EXCEPT !.at = "settling", !.result = r])
                       /\ registry' = [registry EXCEPT ![k] = Stored(@, r)]
        /\ UNCHANGED << job, line, overdue, guardian, rounds, faults >>

\* The registry cannot be reached, or anything else raises.
Raises(t) ==
    /\ thread[t].at = "calling"
    /\ faults < MaxFaults
    /\ faults' = faults + 1
    /\ Put(t, [thread[t] EXCEPT !.at = "raised"])
    /\ UNCHANGED << job, line, registry, overdue, guardian, rounds >>

\* The call returns to its client, or fails.
Answers(c) ==
    /\ thread[c].at \in {"raised", "settling"}
    /\ Leaves(c)
    /\ UNCHANGED << job, line, registry, overdue, guardian, rounds, faults >>

\* keepalive: a failed or refused heartbeat ends it and marks the lease lost.
\* One that succeeds leaves the lease live.
LosesLease(w) ==
    /\ thread[w].at = "calling"
    /\ ~thread[w].lost
    /\ \/ ~Holds(w) /\ UNCHANGED faults
       \/ faults < MaxFaults /\ faults' = faults + 1
    /\ Put(w, [thread[w] EXCEPT !.lost = TRUE])
    /\ UNCHANGED << job, line, registry, overdue, guardian, rounds >>

AttemptsLeft(w) == thread[w].attempt < MaxAttempts(thread[w].key)

\* run_once, after the execution: an exception is not held against the
\* keepalive, a result is.
Recovers(w) ==
    /\ thread[w].at = "raised"
    /\ IF AttemptsLeft(w)
       THEN Requeue(w)
       ELSE Finish(w, FALSE, Refusal("FAILED_CLOSED", thread[w].hash))

Drops(w) ==
    /\ thread[w].at = "settling"
    /\ thread[w].lost
    /\ Leaves(w)
    /\ UNCHANGED << job, line, registry, overdue, guardian, rounds, faults >>

Retried(w) ==
    /\ thread[w].at = "settling"
    /\ ~thread[w].lost
    /\ Transient(thread[w].result)
    /\ IF AttemptsLeft(w)
       THEN Requeue(w)
       ELSE Finish(w, FALSE, [thread[w].result EXCEPT !.overall = "FAILED_CLOSED"])

Closes(w) ==
    LET r == thread[w].result
    IN  /\ thread[w].at = "settling"
        /\ ~thread[w].lost
        /\ ~Transient(r)
        /\ Finish(w, r.overall \in SuccessStatuses, r)

WorkerStep(w) ==
    \/ GivesUp(w) \/ Begins(w) \/ Stores(w)
    \/ Recovers(w) \/ Drops(w) \/ Retried(w) \/ Closes(w)

CallerStep(c) == Calls(c) \/ Stores(c) \/ Answers(c)

-----------------------------------------------------------------------------
(* The guardian *)

\* Fault: the job goes back to the queue.
ContainedToQueue(row) == [Freed(row) EXCEPT !.status = "QUEUED"]

\* _contain_expired_job leaves the packet row as the worker left it.
Contained(row) == [Freed(row) EXCEPT !.status = "PAUSED"]

Expired == {k \in Submitted : job[k].status = "RUNNING" /\ ~job[k].live}

\* priority or 100, then created_at.
Rank(k) == IF Urgency[k] = 0 THEN 100 ELSE Urgency[k]

Born(k) == CHOOSE i \in DOMAIN line : line[i] = k

Ahead(k, l) ==
    \/ Rank(k) < Rank(l)
    \/ Rank(k) = Rank(l) /\ Born(k) < Born(l)

Unsettled == {k \in Submitted : ~Settled(k)}

\* audit: leases that have lapsed, and every unsettled job that has an
\* unsettled duplicate ahead of it.
Audit ==
    /\ guardian' =
          [ expired    |-> Expired,
            duplicates |-> {l \in Unsettled : \E k \in Unsettled :
                                Ahead(k, l) /\ Duplicates(k, l)} ]
    /\ UNCHANGED << job, line, registry, overdue, thread, rounds, faults >>

Blocked(row) ==
    IF row.status \in {"QUEUED", "PAUSED"} /\ ~row.live
    THEN [row EXCEPT !.status = "BLOCKED"]
    ELSE row

\* bounded_repair of findings of an earlier transaction, lapsed leases first.
Repair ==
    /\ guardian.expired \cup guardian.duplicates # {}
    /\ LET Fenced(k)  == IF k \in guardian.expired \cap Expired
                         THEN Contained(job[k]) ELSE job[k]
           Cleared(k) == IF k \in guardian.duplicates
                         THEN Blocked(Fenced(k)) ELSE Fenced(k)
       IN  job' = [k \in Keys |-> Cleared(k)]
    /\ guardian' = [expired |-> {}, duplicates |-> {}]
    /\ UNCHANGED << line, registry, overdue, thread, rounds, faults >>

-----------------------------------------------------------------------------
(* Time and failures *)

\* The process that runs a worker ends.
Crashes(w) ==
    /\ thread[w].at # "idle"
    /\ faults < MaxFaults
    /\ faults' = faults + 1
    /\ Leaves(w)
    /\ UNCHANGED << job, line, registry, overdue, guardian, rounds >>

HangsUp(c) ==
    /\ thread[c].at # "idle"
    /\ faults < MaxFaults
    /\ faults' = faults + 1
    /\ Leaves(c)
    /\ UNCHANGED << job, line, registry, overdue, guardian, rounds >>

\* Somebody's keepalive renews the lease of k.
KeptAlive(k) ==
    \E w \in Workers : thread[w].key = k /\ Holds(w) /\ ~thread[w].lost

\* A lease that nobody renews runs out; one that is renewed too when the
\* worker or the database stalls for longer than the lease.
Lapses(k) ==
    /\ k \in Submitted
    /\ job[k].live
    /\ IF KeptAlive(k) THEN faults < MaxFaults /\ faults' = faults + 1 ELSE UNCHANGED faults
    /\ job' = [job EXCEPT ![k].live = FALSE]
    /\ UNCHANGED << line, registry, overdue, thread, guardian, rounds >>

DelayPasses(k) ==
    /\ k \in Submitted
    /\ job[k].delayed
    /\ job' = [job EXCEPT ![k].delayed = FALSE]
    /\ UNCHANGED << line, registry, overdue, thread, guardian, rounds, faults >>

DeadlinePasses(k) ==
    /\ Fresh(k)
    /\ faults < MaxFaults
    /\ faults' = faults + 1
    /\ overdue' = overdue \cup {k}
    /\ UNCHANGED << job, line, registry, thread, guardian, rounds >>

\* ttl_seconds after it was stored.
RowExpires(k) ==
    /\ registry[k] # NoRow
    /\ ~registry[k].expired
    /\ faults < MaxFaults
    /\ faults' = faults + 1
    /\ registry' = [registry EXCEPT ![k].expired = TRUE]
    /\ UNCHANGED << job, line, overdue, thread, guardian, rounds >>

-----------------------------------------------------------------------------
Next ==
    \/ \E k \in Keys : \E h \in Contents[k] : Submit(k, h)
    \/ \E w \in Workers : Claim(w) \/ WorkerStep(w) \/ Raises(w) \/ LosesLease(w) \/ Crashes(w)
    \/ \E c \in Callers : CallerStep(c) \/ Raises(c) \/ HangsUp(c)
    \/ Audit \/ Repair
    \/ \E k \in Keys : Lapses(k) \/ DelayPasses(k) \/ DeadlinePasses(k) \/ RowExpires(k)

Spec == Init /\ [][Next]_vars

\* The pool's threads and the guardian's loop keep running, a thread's calls
\* have timeouts, and time passes: leases nobody renews and delays run out.
Fairness ==
    /\ \A w \in Workers : WF_vars(Claim(w)) /\ WF_vars(WorkerStep(w))
    /\ WF_vars(Audit) /\ WF_vars(Repair)
    /\ \A k \in Keys :
          /\ WF_vars(Lapses(k) /\ UNCHANGED faults)
          /\ WF_vars(DelayPasses(k))

FairSpec == Spec /\ Fairness

-----------------------------------------------------------------------------
(* Properties *)

\* The rows and the threads stay within their types, and a row has an owner
\* exactly while it is RUNNING.
TaskTypeOK ==
    /\ job \in [Keys -> Job \cup {NoJob}]
    /\ \A k \in Submitted : (job[k].owner # NoOne) <=> (job[k].status = "RUNNING")
    /\ line \in Seq(Keys)
    /\ registry \in [Keys -> Row \cup {NoRow}]
    /\ overdue \in SUBSET Keys
    /\ thread \in [Threads -> Thread]
    /\ guardian \in [expired : SUBSET Keys, duplicates : SUBSET Keys]
    /\ rounds \in [Keys -> Nat]
    /\ faults \in 0 .. MaxFaults

\* What the guardian's query reports as TASK_PACKET_STATE_DRIFT, an ERROR
\* (guardian_runtime.py:86-100).
Drifted(k) ==
    \/ job[k].packet = "RUNNING" /\ job[k].status \notin {"RUNNING", "PAUSED"}
    \/ job[k].packet = "QUEUED" /\ Settled(k)

\* The two tables say the same of a packet: they settle together and alike, and
\* a running job has a running packet.  The only drift the guardian can find is
\* of its own making: bounded_repair contains a dead worker's job and then blocks
\* it as a duplicate, and the packet row stays RUNNING.  The code reports that
\* pair as an error each time; it is allowed here because it does arise.
RowsAgree ==
    \A k \in Submitted :
        /\ \A s \in {"SUCCEEDED", "FAILED_SAFE"} : (job[k].status = s) <=> (job[k].packet = s)
        /\ job[k].status = "RUNNING" => job[k].packet = "RUNNING"
        /\ Drifted(k) => job[k].packet = "RUNNING" /\ job[k].status = "BLOCKED"

\* No packet is executed more often than its max_attempts, whatever dies and
\* however often its lease is taken over (durable_tasks_runtime.py:288-300).
RoundsAreBudgeted == \A k \in Submitted : rounds[k] <= MaxAttempts(k)

\* A job's result was made for the packet of that job, although synchronous
\* calls put results of other packets under the same key.
OwnAnswers ==
    \A k \in Submitted :
        job[k].result # NoResult => job[k].result.hash = job[k].hash

Watched(r) ==
    r.overall \in TransientStatuses \/ \E s \in {"codex", "gemini"} : r.marks[s] \in TransientStatuses

\* A result in which codex or gemini, the two that reliability_registry.py:19
\* looks at, timed out or was rate limited is neither replayed nor a success, rows
\* of older versions included.  Of sol this does not hold: see below.
WatchedAreNotFinal ==
    /\ \A t \in Threads :
          thread[t].result # NoResult /\ thread[t].result.replay => ~Watched(thread[t].result)
    /\ \A k \in Submitted :
          job[k].status = "SUCCEEDED" => ~Watched(job[k].result)

\* Every submitted packet gets a result, unless it is blocked as a duplicate of
\* a packet that is ahead of it.
EverySettles ==
    \A k \in Keys :
        k \in Submitted ~> \/ Settled(k)
                           \/ /\ job[k].status = "BLOCKED"
                              /\ \E l \in Submitted : Ahead(l, k) /\ Duplicates(k, l)

-----------------------------------------------------------------------------
(* What the code says and does not do *)

\* "A packet can be PARTIAL_SUCCESS while one specialist timed out or was rate
\* limited. Such a result [...] must never poison idempotent replay"
\* (reliability_registry.py:11-13); the registry "refuses to replay/cache any
\* transient result" (35).  Nobody looks at sol_result: once another specialist
\* has answered, sol's timeout is stored, and every later call gets it back.
NoTransientIsReplayed ==
    \A t \in Threads :
        thread[t].result # NoResult /\ thread[t].result.replay
            => \A s \in Specialists : thread[t].result.marks[s] \notin TransientStatuses

=============================================================================
