------------------------- MODULE DurableTasks_proofs -------------------------
(***************************************************************************)
(* The safety properties of DurableTasks, for any number of packets, worker   *)
(* threads, callers and failures.                                           *)
(*                                                                         *)
(* The inductive invariant has three parts.  RowsOK says of every row what    *)
(* does not depend on other rows; ThreadsOK ties what a thread remembers of   *)
(* its packet to the row, which changes under it; Budget counts the           *)
(* executions begun and those that a thread is still entitled to begin.       *)
(***************************************************************************)
EXTENDS DurableTasks, TLAPS, FiniteSetTheorems

RowOK(row) ==
    /\ row \in Job
    /\ (row.owner # NoOne) <=> (row.status = "RUNNING")
    /\ (row.status = "SUCCEEDED") <=> (row.packet = "SUCCEEDED")
    /\ (row.status = "FAILED_SAFE") <=> (row.packet = "FAILED_SAFE")
    /\ row.status = "RUNNING" => row.packet = "RUNNING"
    /\ row.packet = "RUNNING" => row.status \in {"RUNNING", "PAUSED", "BLOCKED"}
    /\ row.result # NoResult => row.result.hash = row.hash
    /\ row.status = "SUCCEEDED" => row.result # NoResult /\ ~Transient(row.result)

RowsOK ==
    /\ job \in [Keys -> Job \cup {NoJob}]
    /\ \A k \in Keys : job[k] # NoJob => RowOK(job[k])

RegistryOK == registry \in [Keys -> Row \cup {NoRow}]

\* What holds of a thread by itself.
ThreadOK(s) ==
    /\ s \in Thread
    /\ s.at = "idle" => s = IdleThread
    /\ s.at # "idle" => s.key \in Keys /\ s.hash \in Hashes
    /\ s.at = "settling" => s.result # NoResult
    /\ s.result # NoResult => s.result.hash = s.hash
    /\ s.result # NoResult /\ s.result.replay => ~Transient(s.result)

\* What a worker remembers of its packet.
Remembers(s, rows) ==
    s.at # "idle" =>
        /\ rows[s.key] # NoJob
        /\ s.hash = rows[s.key].hash
        /\ s.attempt <= rows[s.key].attempts

ThreadsOK ==
    /\ thread \in [Threads -> Thread]
    /\ \A t \in Threads : ThreadOK(thread[t])
    /\ \A w \in Workers : Remembers(thread[w], job)

RestOK ==
    /\ line \in Seq(Keys)
    /\ overdue \in SUBSET Keys
    /\ guardian \in [expired : SUBSET Keys, duplicates : SUBSET Keys]
    /\ rounds \in [Keys -> Nat]
    /\ faults \in 0 .. MaxFaults

\* The workers that have claimed k within its budget and not begun.
Entitled(k) ==
    {w \in Workers : /\ thread[w].at = "claimed"
                     /\ thread[w].key = k
                     /\ thread[w].attempt <= MaxAttempts(k)}

Least(m, n) == IF m <= n THEN m ELSE n

Budget ==
    \A k \in Keys :
        /\ job[k] = NoJob => rounds[k] = 0
        /\ job[k] # NoJob =>
              rounds[k] + Cardinality(Entitled(k)) <= Least(job[k].attempts, MaxAttempts(k))

TaskInv == RowsOK /\ RegistryOK /\ ThreadsOK /\ RestOK /\ Budget

-----------------------------------------------------------------------------
(* Results *)

LEMMA InvokedIsStatus == ASSUME NEW reply \in Replies PROVE Invoked(reply) \in Statuses
<1>1. SingleAttempt(reply) \in Statuses \cup {"malformed", "overreaching", "Exception"} \/ reply = "Exception"
  BY DEF SingleAttempt, Statuses, Replies
<1>2. CASE reply = "Exception"
  BY <1>2 DEF Invoked, Statuses
<1>3. CASE reply # "Exception"
  <2>1. SingleAttempt(reply) \in Statuses \cup {"malformed", "overreaching"}
    BY <1>3 DEF SingleAttempt, Statuses, Replies
  <2> QED  BY <1>3, <2>1 DEF Invoked, Normalized, Statuses
<1> QED  BY <1>2, <1>3

LEMMA FanInIsStatus == ASSUME NEW m \in Marks PROVE FanIn(m) \in Statuses
BY DEF FanIn, Statuses

LEMMA HearingsAreMarks == ASSUME NEW k \in Keys, NEW m \in Hearings(k) PROVE m \in Marks
<1>1. \A reply \in Heard : Invoked(reply) \in Statuses
  BY InvokedIsStatus, BridgeAssumption
<1>2. {Invoked(reply) : reply \in Heard} \cup {Unasked} \subseteq Statuses \cup {Unasked}
  BY <1>1
<1> QED  BY <1>2 DEF Hearings, Marks

LEMMA AnswerType ==
    ASSUME NEW k \in Keys, NEW m \in Hearings(k), NEW h \in Hashes
    PROVE  /\ Answer(h, m) \in Result
           /\ Answer(h, m).hash = h
           /\ ~Answer(h, m).replay
BY HearingsAreMarks, FanInIsStatus DEF Answer, Result

LEMMA RefusalType ==
    ASSUME NEW overall \in Statuses, NEW h \in Hashes
    PROVE  /\ Refusal(overall, h) \in Result
           /\ Refusal(overall, h).hash = h
           /\ ~Refusal(overall, h).replay
<1>1. NoMarks \in Marks
  BY DEF NoMarks, Marks
<1> QED  BY <1>1 DEF Refusal, Result

LEMMA ResultIsSome == ASSUME NEW r \in Result PROVE r # NoResult
BY DEF Result, NoResult, Statuses

-----------------------------------------------------------------------------
(* Rows *)

LEMMA RowIsSome == ASSUME NEW row \in Job PROVE row # NoJob
BY DEF Job, NoJob, JobStatuses

LEMMA NewRowOK ==
    ASSUME NEW h \in Hashes
    PROVE  RowOK([ status |-> "QUEUED", packet |-> "QUEUED", hash |-> h,
                   owner |-> NoOne, live |-> FALSE, fence |-> 1, delayed |-> FALSE,
                   attempts |-> 0, result |-> NoResult ])
BY DEF RowOK, Job, JobStatuses, PacketStatuses

LEMMA ClaimedOK ==
    ASSUME NEW row, RowOK(row), NEW w \in Workers, row.status \in {"QUEUED", "PAUSED"}
    PROVE  /\ RowOK(Claimed(row, w))
           /\ Claimed(row, w).hash = row.hash
           /\ Claimed(row, w).attempts = row.attempts + 1
           /\ Claimed(row, w).fence \in Nat
<1>1. Owner[w] # NoOne
  BY BridgeAssumption DEF Owners
<1>2. row \in Job
  BY DEF RowOK
<1>3. Owner[w] \in Owners \cup {NoOne}
  BY DEF Owners
<1> DEFINE new == Claimed(row, w)
<1>4. /\ new.status = "RUNNING" /\ new.packet = "RUNNING" /\ new.owner = Owner[w]
      /\ new.hash = row.hash /\ new.attempts = row.attempts + 1
      /\ new.fence = row.fence + 1 /\ new.result = row.result
  BY <1>2 DEF Claimed, Job
<1>5. row.fence + 1 \in Nat /\ row.attempts + 1 \in Nat
  BY <1>2 DEF Job
<1>6. new \in Job
  BY <1>2, <1>3, <1>5 DEF Claimed, Job, JobStatuses, PacketStatuses
<1> HIDE DEF new
<1>7. RowOK(new) /\ new.fence \in Nat
  BY <1>1, <1>4, <1>5, <1>6 DEF RowOK
<1> QED  BY <1>4, <1>7 DEF new

LEMMA FinishedOK ==
    ASSUME NEW row, RowOK(row), NEW ok \in BOOLEAN, NEW r \in Result, r.hash = row.hash,
           ok => ~Transient(r)
    PROVE  /\ RowOK(Finished(row, ok, r))
           /\ Finished(row, ok, r).hash = row.hash
           /\ Finished(row, ok, r).attempts = row.attempts
<1>1. Finished(row, ok, r) \in Job
  BY DEF RowOK, Finished, Job, JobStatuses, PacketStatuses
<1>2. /\ Finished(row, ok, r).hash = row.hash
      /\ Finished(row, ok, r).attempts = row.attempts
      /\ Finished(row, ok, r).result = r
      /\ Finished(row, ok, r).owner = NoOne
      /\ Finished(row, ok, r).status = IF ok THEN "SUCCEEDED" ELSE "FAILED_SAFE"
      /\ Finished(row, ok, r).packet = IF ok THEN "SUCCEEDED" ELSE "FAILED_SAFE"
  BY DEF RowOK, Finished, Job
<1> QED  BY <1>1, <1>2, ResultIsSome DEF RowOK

LEMMA FreedRow ==
    ASSUME NEW row, row \in Job
    PROVE  /\ Freed(row) \in Job
           /\ Freed(row).hash = row.hash
           /\ Freed(row).attempts = row.attempts
           /\ Freed(row).result = row.result
           /\ Freed(row).owner = NoOne
           /\ Freed(row).packet = row.packet
<1>1. row.fence + 1 \in Nat
  BY DEF Job
<1> QED  BY <1>1 DEF Freed, Job

LEMMA RequeuedOK ==
    ASSUME NEW row, RowOK(row), row.status = "RUNNING"
    PROVE  /\ RowOK(Requeued(row))
           /\ Requeued(row).hash = row.hash
           /\ Requeued(row).attempts = row.attempts
<1> DEFINE old == Freed(row)
           new == [old EXCEPT !.status = "PAUSED", !.packet = "QUEUED", !.delayed = TRUE]
<1>1. Requeued(row) = new
  BY DEF Requeued
<1>2. row \in Job
  BY DEF RowOK
<1>3. /\ old \in Job /\ old.hash = row.hash /\ old.attempts = row.attempts
      /\ old.result = row.result /\ old.owner = NoOne
  BY <1>2, FreedRow
<1> HIDE DEF old
<1>4. /\ new \in Job /\ new.hash = old.hash /\ new.attempts = old.attempts
      /\ new.result = old.result /\ new.owner = old.owner
      /\ new.status = "PAUSED" /\ new.packet = "QUEUED"
  BY <1>3 DEF Job, JobStatuses, PacketStatuses
<1> HIDE DEF new
<1> QED  BY <1>1, <1>3, <1>4 DEF RowOK

LEMMA ContainedOK ==
    ASSUME NEW row, RowOK(row), row.status = "RUNNING"
    PROVE  /\ RowOK(Contained(row))
           /\ Contained(row).hash = row.hash
           /\ Contained(row).attempts = row.attempts
<1> DEFINE old == Freed(row)
           new == [old EXCEPT !.status = "PAUSED"]
<1>1. Contained(row) = new
  BY DEF Contained
<1>2. row \in Job /\ row.packet = "RUNNING"
  BY DEF RowOK
<1>3. /\ old \in Job /\ old.hash = row.hash /\ old.attempts = row.attempts
      /\ old.result = row.result /\ old.owner = NoOne /\ old.packet = "RUNNING"
  BY <1>2, FreedRow
<1> HIDE DEF old
<1>4. /\ new \in Job /\ new.hash = old.hash /\ new.attempts = old.attempts
      /\ new.result = old.result /\ new.owner = old.owner /\ new.packet = old.packet
      /\ new.status = "PAUSED"
  BY <1>3 DEF Job, JobStatuses
<1> HIDE DEF new
<1> QED  BY <1>1, <1>2, <1>3, <1>4 DEF RowOK

LEMMA BlockedOK ==
    ASSUME NEW row, RowOK(row)
    PROVE  /\ RowOK(Blocked(row))
           /\ Blocked(row).hash = row.hash
           /\ Blocked(row).attempts = row.attempts
BY DEF RowOK, Blocked, Job, JobStatuses, PacketStatuses

LEMMA LapsedOK ==
    ASSUME NEW row, RowOK(row)
    PROVE  /\ RowOK([row EXCEPT !.live = FALSE])
           /\ RowOK([row EXCEPT !.delayed = FALSE])
BY DEF RowOK, Job, JobStatuses, PacketStatuses

-----------------------------------------------------------------------------
(* The shapes of the steps *)

\* A submitted job stays, with its packet, and its attempts only grow.
JobsKeep ==
    \A k \in Keys :
        job[k] # NoJob =>
            /\ job'[k] # NoJob
            /\ job'[k].hash = job[k].hash
            /\ job'[k].attempts >= job[k].attempts

LEMMA AttemptsType == \A row \in Job : row.attempts \in Nat
BY DEF Job

LEMMA NoRowMoves ==
    ASSUME RowsOK, UNCHANGED job
    PROVE  RowsOK' /\ JobsKeep
<1>1. \A k \in Keys : job[k] # NoJob => job[k].attempts \in Nat
  BY DEF RowsOK, Job
<1> QED  BY <1>1 DEF RowsOK, JobsKeep

LEMMA RowMoves ==
    ASSUME RowsOK, NEW k \in Keys, NEW row, RowOK(row),
           job[k] # NoJob => row.hash = job[k].hash /\ row.attempts >= job[k].attempts,
           job' = [job EXCEPT ![k] = row]
    PROVE  RowsOK' /\ JobsKeep
<1>1. row \in Job /\ row # NoJob
  BY RowIsSome DEF RowOK
<1>2. \A l \in Keys : job'[l] = IF l = k THEN row ELSE job[l]
  BY DEF RowsOK
<1>3. job' \in [Keys -> Job \cup {NoJob}]
  BY <1>1 DEF RowsOK
<1>4. \A l \in Keys : job[l] # NoJob => job[l].attempts \in Nat
  BY DEF RowsOK, Job
<1>5. \A l \in Keys : job'[l] # NoJob => RowOK(job'[l])
  BY <1>2 DEF RowsOK
<1>6. JobsKeep
  BY <1>1, <1>2, <1>4 DEF JobsKeep
<1> QED  BY <1>3, <1>5, <1>6 DEF RowsOK

\* No worker becomes entitled to begin an execution.
NoneEntitled == \A k \in Keys : Entitled(k)' \subseteq Entitled(k)

LEMMA StillRemembers ==
    ASSUME RowsOK, ThreadsOK, JobsKeep, RowsOK', NEW w \in Workers
    PROVE  Remembers(thread[w], job')
<1> SUFFICES ASSUME thread[w].at # "idle"
             PROVE  LET k == thread[w].key
                    IN  /\ job'[k] # NoJob
                        /\ thread[w].hash = job'[k].hash
                        /\ thread[w].attempt <= job'[k].attempts
  BY DEF Remembers
<1> DEFINE k == thread[w].key
<1>1. ThreadOK(thread[w]) /\ Remembers(thread[w], job)
  BY DEF ThreadsOK, Threads
<1>2. /\ k \in Keys
      /\ thread[w].attempt \in Nat
      /\ job[k] # NoJob
      /\ thread[w].hash = job[k].hash
      /\ thread[w].attempt <= job[k].attempts
  BY <1>1 DEF ThreadOK, Remembers, Thread
<1>3. job'[k] # NoJob /\ job'[k].hash = job[k].hash /\ job'[k].attempts >= job[k].attempts
  BY <1>2 DEF JobsKeep
<1>4. job[k].attempts \in Nat
  BY <1>2, AttemptsType DEF RowsOK
<1>5. job'[k] \in Job
  BY <1>2, <1>3 DEF RowsOK
<1>6. job'[k].attempts \in Nat
  BY <1>5, AttemptsType
<1> QED  BY <1>2, <1>3, <1>4, <1>6

LEMMA NoThreadMoves ==
    ASSUME RowsOK, ThreadsOK, JobsKeep, RowsOK', UNCHANGED thread
    PROVE  ThreadsOK' /\ NoneEntitled
<1>1. NoneEntitled
  BY DEF NoneEntitled, Entitled
<1>2. \A w \in Workers : Remembers(thread[w], job')
  BY StillRemembers
<1> QED  BY <1>1, <1>2 DEF ThreadsOK

LEMMA ThreadMoves ==
    ASSUME RowsOK, ThreadsOK, JobsKeep, RowsOK', NEW t \in Threads,
           NEW s, ThreadOK(s), t \in Workers => Remembers(s, job'),
           s.at # "claimed",
           thread' = [thread EXCEPT ![t] = s]
    PROVE  ThreadsOK' /\ NoneEntitled
<1>1. \A w \in Workers : Remembers(thread[w], job')
  BY StillRemembers
<1>2. \A u \in Threads : thread'[u] = IF u = t THEN s ELSE thread[u]
  BY DEF ThreadsOK
<1>3. s \in Thread
  BY DEF ThreadOK
<1>4. thread' \in [Threads -> Thread] /\ \A u \in Threads : ThreadOK(thread'[u])
  BY <1>2, <1>3 DEF ThreadsOK
<1>5. \A w \in Workers : Remembers(thread'[w], job')
  BY <1>1, <1>2 DEF Threads
<1>6. NoneEntitled
  BY <1>2 DEF NoneEntitled, Entitled, Threads
<1> QED  BY <1>4, <1>5, <1>6 DEF ThreadsOK

LEMMA BudgetType == \A k \in Keys : MaxAttempts(k) \in Nat
<1>1. Retries \in [Keys -> 0 .. 3]
  BY BridgeAssumption
<1> QED  BY <1>1 DEF MaxAttempts

LEMMA BudgetKept ==
    ASSUME TaskInv, RowsOK', JobsKeep, NoneEntitled, UNCHANGED rounds
    PROVE  Budget'
<1> SUFFICES ASSUME NEW k \in Keys
             PROVE  /\ job'[k] = NoJob => rounds[k] = 0
                    /\ job'[k] # NoJob =>
                          rounds[k] + Cardinality(Entitled(k)')
                             <= Least(job'[k].attempts, MaxAttempts(k))
  BY DEF Budget, MaxAttempts, Entitled
<1>1. /\ Entitled(k)' \subseteq Entitled(k)
      /\ IsFiniteSet(Entitled(k))
  BY BridgeAssumption, FS_Subset DEF NoneEntitled, Entitled
<1>2. /\ Cardinality(Entitled(k)') <= Cardinality(Entitled(k))
      /\ Cardinality(Entitled(k)') \in Nat
      /\ Cardinality(Entitled(k)) \in Nat
  BY <1>1, FS_Subset, FS_CardinalityType
<1>3. rounds[k] \in Nat /\ MaxAttempts(k) \in Nat
  BY BudgetType DEF TaskInv, RestOK
<1>4. CASE job[k] # NoJob
  <2>1. /\ job'[k] # NoJob /\ job'[k].attempts >= job[k].attempts
        /\ job'[k].attempts \in Nat /\ job[k].attempts \in Nat
    <3>1. job'[k] # NoJob /\ job'[k].attempts >= job[k].attempts
      BY <1>4 DEF JobsKeep
    <3>2. job[k] \in Job /\ job'[k] \in Job
      BY <1>4, <3>1 DEF RowsOK, TaskInv
    <3> QED  BY <3>1, <3>2, AttemptsType
  <2>2. rounds[k] + Cardinality(Entitled(k)) <= Least(job[k].attempts, MaxAttempts(k))
    BY <1>4 DEF TaskInv, Budget
  <2> QED  BY <1>2, <1>3, <2>1, <2>2 DEF Least
<1>5. CASE job[k] = NoJob
  <2>1. Entitled(k) = {}
    BY <1>5 DEF TaskInv, ThreadsOK, Remembers, Entitled
  <2>2. Cardinality(Entitled(k)') = 0
    BY <1>1, <2>1, FS_EmptySet
  <2>3. rounds[k] = 0
    BY <1>5 DEF TaskInv, Budget
  <2>4. job'[k] # NoJob => job'[k].attempts \in Nat
    BY DEF RowsOK, Job
  <2> QED  BY <1>3, <2>2, <2>3, <2>4 DEF Least
<1> QED  BY <1>4, <1>5

\* What every step but Claim and Begins does.
Steady ==
    /\ RowsOK' /\ JobsKeep
    /\ RegistryOK' /\ ThreadsOK' /\ RestOK'
    /\ NoneEntitled
    /\ UNCHANGED rounds

LEMMA SteadySteps == ASSUME TaskInv, Steady PROVE TaskInv'
BY BudgetKept DEF Steady, TaskInv

LEMMA IdleOK == ThreadOK(IdleThread) /\ \A rows : Remembers(IdleThread, rows)
<1>1. IdleThread \in Thread
  BY DEF IdleThread, Thread, Places
<1> QED  BY <1>1 DEF ThreadOK, IdleThread, Remembers

\* A thread's result is one.
LEMMA ThreadFacts ==
    ASSUME TaskInv, NEW t \in Threads
    PROVE  /\ ThreadOK(thread[t])
           /\ thread[t] \in Thread
           /\ thread[t].at # "idle" => thread[t].key \in Keys /\ thread[t].hash \in Hashes
           /\ thread[t].at = "settling" =>
                 thread[t].result \in Result /\ thread[t].result.hash = thread[t].hash
<1>1. ThreadOK(thread[t])
  BY DEF TaskInv, ThreadsOK
<1>2. thread[t] \in Thread
  BY <1>1 DEF ThreadOK
<1>3. thread[t].result \in Result \cup {NoResult}
  BY <1>2 DEF Thread
<1> QED  BY <1>1, <1>2, <1>3 DEF ThreadOK

LEMMA HoldsFacts ==
    ASSUME TaskInv, NEW w \in Workers, Holds(w)
    PROVE  LET k == thread[w].key
           IN  /\ k \in Keys
               /\ job[k] # NoJob
               /\ RowOK(job[k])
               /\ job[k].status = "RUNNING"
               /\ job[k].hash = thread[w].hash
<1> DEFINE k == thread[w].key
<1>1. thread[w].at # "idle"
  <2>1. w \in Threads
    BY DEF Threads
  <2>2. thread[w].at = "idle" => thread[w] = IdleThread
    BY <2>1, ThreadFacts DEF ThreadOK
  <2> QED  BY <2>2 DEF Holds, IdleThread
<1>2. k \in Keys /\ job[k] # NoJob /\ job[k].hash = thread[w].hash
  BY <1>1, ThreadFacts DEF TaskInv, ThreadsOK, Remembers, Threads
<1>3. RowOK(job[k])
  BY <1>2 DEF TaskInv, RowsOK
<1>4. job[k].owner # NoOne
  <2>1. job[k].owner = Owner[w]
    BY DEF Holds
  <2>2. Owner[w] # NoOne
    BY BridgeAssumption DEF Owners
  <2> QED  BY <2>1, <2>2
<1> QED  BY <1>2, <1>3, <1>4 DEF RowOK

\* A thread lets go of its packet, whether its row has moved or not.
LEMMA LeavingSteady ==
    ASSUME TaskInv, RowsOK', JobsKeep, NEW t \in Threads, Leaves(t),
           UNCHANGED << registry, line, overdue, guardian, rounds >>, faults' \in 0 .. MaxFaults
    PROVE  Steady
<1>1. ThreadsOK' /\ NoneEntitled
  <2>1. thread' = [thread EXCEPT ![t] = IdleThread]
    BY DEF Leaves, Put
  <2>2. IdleThread.at # "claimed"
    BY DEF IdleThread
  <2> QED  BY <2>1, <2>2, IdleOK, ThreadMoves DEF TaskInv
<1>2. RegistryOK' /\ RestOK'
  BY DEF TaskInv, RegistryOK, RestOK
<1> QED  BY <1>1, <1>2 DEF Steady

LEMMA FinishSteady ==
    ASSUME TaskInv, NEW w \in Workers, NEW ok \in BOOLEAN, NEW r \in Result,
           r.hash = thread[w].hash, ok => ~Transient(r), Finish(w, ok, r)
    PROVE  Steady
<1> DEFINE k == thread[w].key
           row == Finished(job[k], ok, r)
<1>1. RowsOK' /\ JobsKeep
  <2>1. CASE ~Holds(w)
    BY <2>1, NoRowMoves DEF Finish, TaskInv
  <2>2. CASE Holds(w)
    <3>1. /\ k \in Keys /\ job[k] # NoJob /\ RowOK(job[k])
          /\ job[k].hash = thread[w].hash
      BY <2>2, HoldsFacts
    <3>2. RowOK(row) /\ row.hash = job[k].hash /\ row.attempts = job[k].attempts
      BY <3>1, FinishedOK
    <3>3. job' = [job EXCEPT ![k] = row]
      BY <2>2 DEF Finish
    <3>4. row.attempts >= job[k].attempts
      BY <3>1, <3>2, AttemptsType DEF RowOK
    <3> HIDE DEF row
    <3> QED  BY <3>1, <3>2, <3>3, <3>4, RowMoves DEF TaskInv
  <2> QED  BY <2>1, <2>2
<1>2. w \in Threads /\ faults \in 0 .. MaxFaults
  BY DEF Threads, TaskInv, RestOK
<1> QED  BY <1>1, <1>2, LeavingSteady DEF Finish

LEMMA RequeueSteady ==
    ASSUME TaskInv, NEW w \in Workers, Requeue(w)
    PROVE  Steady
<1> DEFINE k == thread[w].key
           row == Requeued(job[k])
<1>1. RowsOK' /\ JobsKeep
  <2>1. CASE ~Holds(w)
    BY <2>1, NoRowMoves DEF Requeue, TaskInv
  <2>2. CASE Holds(w)
    <3>1. /\ k \in Keys /\ job[k] # NoJob /\ RowOK(job[k])
          /\ job[k].status = "RUNNING"
      BY <2>2, HoldsFacts
    <3>2. RowOK(row) /\ row.hash = job[k].hash /\ row.attempts = job[k].attempts
      BY <3>1, RequeuedOK
    <3>3. job' = [job EXCEPT ![k] = row]
      BY <2>2 DEF Requeue
    <3>4. row.attempts >= job[k].attempts
      BY <3>1, <3>2, AttemptsType DEF RowOK
    <3> HIDE DEF row
    <3> QED  BY <3>1, <3>2, <3>3, <3>4, RowMoves DEF TaskInv
  <2> QED  BY <2>1, <2>2
<1>2. w \in Threads /\ faults \in 0 .. MaxFaults
  BY DEF Threads, TaskInv, RestOK
<1> QED  BY <1>1, <1>2, LeavingSteady DEF Requeue

\* Only the thread moves, to a place where it is not waiting to begin.
LEMMA MovingSteady ==
    ASSUME TaskInv, NEW t \in Threads, NEW s, ThreadOK(s),
           t \in Workers => Remembers(s, job), s.at # "claimed",
           thread' = [thread EXCEPT ![t] = s], RegistryOK',
           UNCHANGED << job, line, overdue, guardian, rounds >>, faults' \in 0 .. MaxFaults
    PROVE  Steady
<1>1. RowsOK' /\ JobsKeep
  BY NoRowMoves DEF TaskInv
<1>2. t \in Workers => Remembers(s, job')
  BY DEF Remembers
<1>3. ThreadsOK' /\ NoneEntitled
  BY <1>1, <1>2, ThreadMoves DEF TaskInv
<1>4. RestOK'
  BY DEF TaskInv, RestOK
<1> QED  BY <1>1, <1>3, <1>4 DEF Steady

-----------------------------------------------------------------------------
(* The steps of an execution *)

\* A thread with its new place and result.
LEMMA PlacedOK ==
    ASSUME NEW e \in Thread, e.key \in Keys, e.hash \in Hashes,
           NEW at \in {"calling", "settling"}, NEW r \in Result \cup {NoResult},
           at = "settling" => r # NoResult,
           r # NoResult => r.hash = e.hash /\ (r.replay => ~Transient(r))
    PROVE  LET s == [e EXCEPT !.at = at, !.result = r]
           IN  /\ ThreadOK(s) /\ s.at # "claimed"
               /\ s.key = e.key /\ s.hash = e.hash /\ s.attempt = e.attempt
<1> DEFINE s == [e EXCEPT !.at = at, !.result = r]
<1>1. s \in Thread
  BY DEF Thread, Places
<1>2. /\ s.at = at /\ s.result = r
      /\ s.key = e.key /\ s.hash = e.hash /\ s.attempt = e.attempt
  BY DEF Thread
<1> HIDE DEF s
<1>3. ThreadOK(s) /\ s.at # "claimed"
  BY <1>1, <1>2 DEF ThreadOK
<1> QED  BY <1>2, <1>3 DEF s

LEMMA LookedUpType ==
    ASSUME NEW row \in Row \cup {NoRow}
    PROVE  /\ LookedUp(row) \in Row \cup {NoRow}
           /\ row # NoRow => row.result \in Result
BY DEF LookedUp, Row

LEMMA ReplayType ==
    ASSUME NEW r \in Result, ~Transient(r)
    PROVE  LET q == [r EXCEPT !.replay = TRUE]
           IN  q \in Result /\ q.hash = r.hash /\ ~Transient(q)
BY DEF Result, Transient

LEMMA OpenedMoves ==
    ASSUME RegistryOK, NEW t, NEW e \in Thread, e.key \in Keys, e.hash \in Hashes, Opened(t, e)
    PROVE  /\ RegistryOK'
           /\ \E s : /\ ThreadOK(s) /\ s.at # "claimed"
                     /\ s.key = e.key /\ s.hash = e.hash /\ s.attempt = e.attempt
                     /\ thread' = [thread EXCEPT ![t] = s]
<1> DEFINE row == registry[e.key]
           Goes(at, r) == thread' = [thread EXCEPT ![t] = [e EXCEPT !.at = at, !.result = r]]
<1>1. row \in Row \cup {NoRow}
  BY DEF RegistryOK
<1>2. RegistryOK'
  <2>1. LookedUp(row) \in Row \cup {NoRow}
    BY <1>1, LookedUpType
  <2> QED  BY <2>1 DEF Opened, RegistryOK
<1>3. \E at \in {"calling", "settling"}, r \in Result \cup {NoResult} :
          /\ at = "settling" => r # NoResult
          /\ r # NoResult => r.hash = e.hash /\ (r.replay => ~Transient(r))
          /\ Goes(at, r)
  <2> DEFINE bad == Refusal("INVALID_PACKET", e.hash)
             clash == Refusal("FAILED_CLOSED", e.hash)
             old == [row.result EXCEPT !.replay = TRUE]
  <2>1. /\ bad \in Result /\ bad.hash = e.hash /\ ~bad.replay /\ bad # NoResult
        /\ clash \in Result /\ clash.hash = e.hash /\ ~clash.replay /\ clash # NoResult
    BY RefusalType, ResultIsSome DEF Statuses
  <2>2. Replayed(row) /\ ~Conflicts(row, e.hash) =>
            /\ old \in Result /\ old.hash = e.hash /\ ~Transient(old) /\ old # NoResult
    <3> SUFFICES ASSUME Replayed(row), ~Conflicts(row, e.hash)
                 PROVE  old \in Result /\ old.hash = e.hash /\ ~Transient(old) /\ old # NoResult
      OBVIOUS
    <3>1. row.result \in Result /\ ~Transient(row.result) /\ row.result.hash = e.hash
      BY <1>1, LookedUpType DEF Replayed, Conflicts
    <3> QED  BY <3>1, ReplayType, ResultIsSome
  <2>3. \/ Goes("settling", bad)
        \/ Goes("settling", clash)
        \/ Replayed(row) /\ ~Conflicts(row, e.hash) /\ Goes("settling", old)
        \/ Goes("calling", NoResult)
    BY DEF Opened, Put
  <2> HIDE DEF Goes, bad, clash, old
  <2> QED  BY <2>1, <2>2, <2>3
<1>4. PICK at \in {"calling", "settling"}, r \in Result \cup {NoResult} :
          /\ at = "settling" => r # NoResult
          /\ r # NoResult => r.hash = e.hash /\ (r.replay => ~Transient(r))
          /\ Goes(at, r)
  BY <1>3
<1> DEFINE s == [e EXCEPT !.at = at, !.result = r]
<1>5. /\ ThreadOK(s) /\ s.at # "claimed"
      /\ s.key = e.key /\ s.hash = e.hash /\ s.attempt = e.attempt
  BY <1>4, PlacedOK
<1>6. thread' = [thread EXCEPT ![t] = s]
  BY <1>4
<1> HIDE DEF s
<1> QED  BY <1>2, <1>5, <1>6

LEMMA BeginsMoves ==
    ASSUME TaskInv, NEW w \in Workers, Begins(w)
    PROVE  TaskInv'
<1> DEFINE e == thread[w]
           k == e.key
<1>1. /\ w \in Threads /\ e \in Thread /\ k \in Keys /\ e.hash \in Hashes
      /\ e.at = "claimed" /\ job[k] # NoJob /\ Remembers(e, job)
  <2>1. w \in Threads /\ e.at = "claimed"
    BY DEF Threads, Begins
  <2>2. e \in Thread /\ k \in Keys /\ e.hash \in Hashes
    BY <2>1, ThreadFacts
  <2>3. Remembers(e, job)
    BY DEF TaskInv, ThreadsOK
  <2> QED  BY <2>1, <2>2, <2>3 DEF Remembers
<1>2. /\ RegistryOK'
      /\ \E s : /\ ThreadOK(s) /\ s.at # "claimed"
                /\ s.key = k /\ s.hash = e.hash /\ s.attempt = e.attempt
                /\ thread' = [thread EXCEPT ![w] = s]
  BY <1>1, OpenedMoves DEF Begins, TaskInv
<1>3. PICK s : /\ ThreadOK(s) /\ s.at # "claimed"
               /\ s.key = k /\ s.hash = e.hash /\ s.attempt = e.attempt
               /\ thread' = [thread EXCEPT ![w] = s]
  BY <1>2
<1>4. RowsOK' /\ JobsKeep
  BY NoRowMoves DEF Begins, TaskInv
<1>5. Remembers(s, job')
  BY <1>1, <1>3 DEF Remembers, Begins
<1>6. ThreadsOK' /\ NoneEntitled
  BY <1>1, <1>3, <1>4, <1>5, ThreadMoves DEF TaskInv
<1>7. /\ rounds \in [Keys -> Nat] /\ rounds' = [rounds EXCEPT ![k] = @ + 1]
      /\ rounds[k] + 1 \in Nat
  BY <1>1 DEF TaskInv, RestOK, Begins
<1>8. RestOK'
  BY <1>7 DEF TaskInv, RestOK, Begins
<1>9. Budget'
  <2> SUFFICES ASSUME NEW l \in Keys
               PROVE  /\ job[l] = NoJob => rounds'[l] = 0
                      /\ job[l] # NoJob =>
                            rounds'[l] + Cardinality(Entitled(l)')
                               <= Least(job[l].attempts, MaxAttempts(l))
    BY DEF Budget, MaxAttempts, Entitled, Begins
  <2>1. /\ Entitled(l)' \subseteq Entitled(l)
        /\ IsFiniteSet(Entitled(l))
    BY <1>6, BridgeAssumption, FS_Subset DEF NoneEntitled, Entitled
  <2>2. /\ job[l] = NoJob => rounds[l] = 0
        /\ job[l] # NoJob =>
              rounds[l] + Cardinality(Entitled(l)) <= Least(job[l].attempts, MaxAttempts(l))
    BY DEF TaskInv, Budget
  <2>3. /\ rounds[l] \in Nat /\ MaxAttempts(l) \in Nat
        /\ job[l] # NoJob => job[l].attempts \in Nat
    BY <1>7, BudgetType, AttemptsType DEF TaskInv, RowsOK
  <2>4. CASE l # k
    <3>1. /\ Cardinality(Entitled(l)') <= Cardinality(Entitled(l))
          /\ Cardinality(Entitled(l)') \in Nat
          /\ Cardinality(Entitled(l)) \in Nat
      BY <2>1, FS_Subset, FS_CardinalityType
    <3>2. rounds'[l] = rounds[l]
      BY <1>7, <2>4
    <3> QED  BY <2>2, <2>3, <3>1, <3>2 DEF Least
  <2>5. CASE l = k
    <3>1. w \in Entitled(l)
      <4>1. e.attempt \in Nat
        BY <1>1 DEF Thread
      <4>2. ~(e.attempt > MaxAttempts(k))
        BY DEF Begins, OutOfAttempts
      <4>3. e.attempt <= MaxAttempts(k)
        BY <2>3, <2>5, <4>1, <4>2
      <4> QED  BY <1>1, <2>5, <4>3 DEF Entitled
    <3>2. Entitled(l)' \subseteq Entitled(l) \ {w}
      <4>1. thread'[w].at # "claimed"
        BY <1>1, <1>3 DEF TaskInv, ThreadsOK
      <4>2. w \notin Entitled(l)'
        BY <4>1 DEF Entitled
      <4> QED  BY <2>1, <4>2
    <3>3. /\ IsFiniteSet(Entitled(l) \ {w})
          /\ Cardinality(Entitled(l) \ {w}) = Cardinality(Entitled(l)) - 1
          /\ Cardinality(Entitled(l)) \in Nat
      BY <2>1, <3>1, FS_RemoveElement, FS_CardinalityType
    <3>4. /\ Cardinality(Entitled(l)') <= Cardinality(Entitled(l)) - 1
          /\ Cardinality(Entitled(l)') \in Nat
      BY <3>2, <3>3, FS_Subset, FS_CardinalityType
    <3>5. rounds'[l] = rounds[l] + 1
      BY <1>1, <1>7, <2>5
    <3>6. job[l] # NoJob
      BY <1>1, <2>5
    <3> DEFINE n == Cardinality(Entitled(l))
               m == Cardinality(Entitled(l)')
    <3>7. /\ m \in Nat /\ n \in Nat /\ m <= n - 1
          /\ rounds[l] + n <= Least(job[l].attempts, MaxAttempts(l))
      BY <2>2, <3>3, <3>4, <3>6
    <3> HIDE DEF n, m
    <3>8. rounds[l] + 1 + m <= Least(job[l].attempts, MaxAttempts(l))
      BY <2>3, <3>6, <3>7 DEF Least
    <3> QED  BY <3>5, <3>6, <3>8 DEF m
  <2> QED  BY <2>4, <2>5
<1> QED  BY <1>2, <1>4, <1>6, <1>8, <1>9 DEF TaskInv

LEMMA CallsMoves ==
    ASSUME TaskInv, NEW c \in Callers, Calls(c)
    PROVE  Steady
<1>1. PICK k \in Keys : \E h \in Spoken[k] :
          Opened(c, [IdleThread EXCEPT !.key = k, !.hash = h])
  BY DEF Calls
<1>2. PICK h \in Spoken[k] : Opened(c, [IdleThread EXCEPT !.key = k, !.hash = h])
  BY <1>1
<1> DEFINE e == [IdleThread EXCEPT !.key = k, !.hash = h]
<1>3. h \in Hashes
  <2>1. Spoken \in [Keys -> SUBSET Hashes]
    BY BridgeAssumption
  <2> QED  BY <2>1
<1>4. e \in Thread /\ e.key = k /\ e.hash = h
  BY <1>3 DEF IdleThread, Thread, Places
<1> HIDE DEF e
<1>5. c \in Threads /\ c \notin Workers
  BY BridgeAssumption DEF Threads
<1>6. /\ RegistryOK'
      /\ \E s : /\ ThreadOK(s) /\ s.at # "claimed"
                /\ thread' = [thread EXCEPT ![c] = s]
  BY <1>2, <1>3, <1>4, OpenedMoves DEF TaskInv, e
<1>7. faults' \in 0 .. MaxFaults
  BY DEF Calls, TaskInv, RestOK
<1> QED  BY <1>5, <1>6, <1>7, MovingSteady DEF Calls

LEMMA StoredType ==
    ASSUME NEW row \in Row \cup {NoRow}, NEW r \in Result
    PROVE  Stored(row, r) \in Row \cup {NoRow}
BY DEF Stored, Row

LEMMA StoresMoves ==
    ASSUME TaskInv, NEW t \in Threads, Stores(t)
    PROVE  Steady
<1> DEFINE e == thread[t]
           Raised == [e EXCEPT !.at = "raised"]
           With(r) == [e EXCEPT !.at = "settling", !.result = r]
<1>1. /\ e \in Thread /\ ThreadOK(e) /\ e.at = "calling"
      /\ e.key \in Keys /\ e.hash \in Hashes
  BY ThreadFacts DEF Stores
<1>2. PICK m \in Hearings(e.key) :
          LET r == Answer(e.hash, m)
          IN  \/ thread' = [thread EXCEPT ![t] = Raised] /\ UNCHANGED registry
              \/ /\ thread' = [thread EXCEPT ![t] = With(r)]
                 /\ registry' = [registry EXCEPT ![e.key] = Stored(@, r)]
  BY DEF Stores, Put
<1> DEFINE r == Answer(e.hash, m)
<1>3. /\ r \in Result /\ r.hash = e.hash /\ ~r.replay /\ r # NoResult
  BY <1>1, AnswerType, ResultIsSome
<1>4. t \in Workers => Remembers(e, job)
  BY DEF TaskInv, ThreadsOK
<1>5. UNCHANGED << job, line, overdue, guardian, rounds >> /\ faults' \in 0 .. MaxFaults
  BY DEF Stores, TaskInv, RestOK
<1>6. CASE thread' = [thread EXCEPT ![t] = Raised] /\ UNCHANGED registry
  <2>1. /\ Raised \in Thread /\ Raised.at = "raised" /\ Raised.result = e.result
        /\ Raised.key = e.key /\ Raised.hash = e.hash /\ Raised.attempt = e.attempt
    BY <1>1 DEF Thread, Places
  <2> HIDE DEF Raised
  <2>2. ThreadOK(Raised)
    BY <1>1, <2>1 DEF ThreadOK
  <2>3. t \in Workers => Remembers(Raised, job)
    BY <1>1, <1>4, <2>1 DEF Remembers
  <2>4. RegistryOK'
    BY <1>6 DEF TaskInv, RegistryOK
  <2> QED  BY <1>5, <1>6, <2>1, <2>2, <2>3, <2>4, MovingSteady
<1>7. CASE /\ thread' = [thread EXCEPT ![t] = With(r)]
           /\ registry' = [registry EXCEPT ![e.key] = Stored(@, r)]
  <2> HIDE DEF r
  <2>1. /\ ThreadOK(With(r)) /\ With(r).at # "claimed"
        /\ With(r).key = e.key /\ With(r).hash = e.hash /\ With(r).attempt = e.attempt
    BY <1>1, <1>3, PlacedOK
  <2> HIDE DEF With
  <2>2. t \in Workers => Remembers(With(r), job)
    BY <1>1, <1>4, <2>1 DEF Remembers
  <2>3. Stored(registry[e.key], r) \in Row \cup {NoRow}
    BY <1>1, <1>3, StoredType DEF TaskInv, RegistryOK
  <2>4. RegistryOK'
    BY <1>7, <2>3 DEF TaskInv, RegistryOK
  <2> QED  BY <1>5, <1>7, <2>1, <2>2, <2>4, MovingSteady
<1> QED  BY <1>2, <1>6, <1>7

LEMMA RaisesMoves ==
    ASSUME TaskInv, NEW t \in Threads, Raises(t)
    PROVE  Steady
<1> DEFINE e == thread[t]
           s == [e EXCEPT !.at = "raised"]
<1>1. /\ e \in Thread /\ ThreadOK(e) /\ e.at = "calling"
      /\ e.key \in Keys /\ e.hash \in Hashes
  BY ThreadFacts DEF Raises
<1>2. /\ s \in Thread /\ s.at = "raised" /\ s.result = e.result
      /\ s.key = e.key /\ s.hash = e.hash /\ s.attempt = e.attempt
  BY <1>1 DEF Thread, Places
<1>3. thread' = [thread EXCEPT ![t] = s]
  BY DEF Raises, Put
<1>4. t \in Workers => Remembers(e, job)
  BY DEF TaskInv, ThreadsOK
<1> HIDE DEF s
<1>5. ThreadOK(s) /\ (t \in Workers => Remembers(s, job))
  BY <1>1, <1>2, <1>4 DEF ThreadOK, Remembers
<1>6. RegistryOK' /\ UNCHANGED << job, line, overdue, guardian, rounds >>
  BY DEF Raises, TaskInv, RegistryOK
<1>7. faults' \in 0 .. MaxFaults
  BY BridgeAssumption DEF Raises, TaskInv, RestOK
<1> QED  BY <1>2, <1>3, <1>5, <1>6, <1>7, MovingSteady

LEMMA LosesLeaseMoves ==
    ASSUME TaskInv, NEW w \in Workers, LosesLease(w)
    PROVE  Steady
<1> DEFINE e == thread[w]
           s == [e EXCEPT !.lost = TRUE]
<1>1. w \in Threads
  BY DEF Threads
<1>2. /\ e \in Thread /\ ThreadOK(e) /\ e.at = "calling"
      /\ e.key \in Keys /\ e.hash \in Hashes
  BY <1>1, ThreadFacts DEF LosesLease
<1>3. /\ s \in Thread /\ s.at = "calling" /\ s.result = e.result
      /\ s.key = e.key /\ s.hash = e.hash /\ s.attempt = e.attempt
  BY <1>2 DEF Thread, Places
<1>4. thread' = [thread EXCEPT ![w] = s]
  BY DEF LosesLease, Put
<1>5. Remembers(e, job)
  BY DEF TaskInv, ThreadsOK
<1> HIDE DEF s
<1>6. ThreadOK(s) /\ Remembers(s, job)
  BY <1>2, <1>3, <1>5 DEF ThreadOK, Remembers
<1>7. RegistryOK' /\ UNCHANGED << job, line, overdue, guardian, rounds >>
  BY DEF LosesLease, TaskInv, RegistryOK
<1>8. faults' \in 0 .. MaxFaults
  BY BridgeAssumption DEF LosesLease, TaskInv, RestOK
<1> QED  BY <1>1, <1>3, <1>4, <1>6, <1>7, <1>8, MovingSteady

LEMMA LeavingMoves ==
    ASSUME TaskInv, NEW t \in Threads, Answers(t) \/ HangsUp(t) \/ Drops(t) \/ Crashes(t)
    PROVE  Steady
<1>1. /\ Leaves(t)
      /\ UNCHANGED << registry, line, overdue, guardian, rounds >> /\ UNCHANGED job
  BY DEF Answers, HangsUp, Drops, Crashes
<1>2. faults' \in 0 .. MaxFaults
  BY BridgeAssumption DEF Answers, HangsUp, Drops, Crashes, TaskInv, RestOK
<1>3. RowsOK' /\ JobsKeep
  BY <1>1, NoRowMoves DEF TaskInv
<1> QED  BY <1>1, <1>2, <1>3, LeavingSteady

LEMMA EndsMoves ==
    ASSUME TaskInv, NEW w \in Workers, GivesUp(w) \/ Recovers(w) \/ Retried(w) \/ Closes(w)
    PROVE  Steady
<1> DEFINE e == thread[w]
           refused == Refusal("FAILED_CLOSED", e.hash)
<1>1. /\ w \in Threads /\ e.at # "idle" /\ e.hash \in Hashes
      /\ e.at = "settling" => e.result \in Result /\ e.result.hash = e.hash
  <2>1. w \in Threads /\ e.at # "idle"
    BY DEF Threads, GivesUp, Recovers, Retried, Closes
  <2> QED  BY <2>1, ThreadFacts
<1>2. refused \in Result /\ refused.hash = e.hash
  BY <1>1, RefusalType DEF Statuses
<1> HIDE DEF refused
<1>3. CASE Finish(w, FALSE, refused)
  BY <1>2, <1>3, FinishSteady
<1>4. CASE Requeue(w)
  BY <1>4, RequeueSteady
<1>5. CASE e.at = "settling" /\ Finish(w, FALSE, [e.result EXCEPT !.overall = "FAILED_CLOSED"])
  <2> DEFINE r == [e.result EXCEPT !.overall = "FAILED_CLOSED"]
  <2>1. r \in Result /\ r.hash = e.hash
    BY <1>1, <1>5 DEF Result, Statuses
  <2> HIDE DEF r
  <2>2. Finish(w, FALSE, r)
    BY <1>5 DEF r
  <2> QED  BY <2>1, <2>2, FinishSteady
<1>6. CASE Closes(w)
  <2>1. /\ e.result \in Result /\ e.result.hash = e.hash /\ ~Transient(e.result)
        /\ Finish(w, e.result.overall \in SuccessStatuses, e.result)
    BY <1>1, <1>6 DEF Closes
  <2>2. (e.result.overall \in SuccessStatuses) \in BOOLEAN
    OBVIOUS
  <2> QED  BY <2>1, <2>2, FinishSteady
<1>7. \/ Finish(w, FALSE, refused) \/ Requeue(w) \/ Closes(w)
      \/ e.at = "settling" /\ Finish(w, FALSE, [e.result EXCEPT !.overall = "FAILED_CLOSED"])
  BY DEF GivesUp, Recovers, Retried, refused
<1> QED  BY <1>3, <1>4, <1>5, <1>6, <1>7

-----------------------------------------------------------------------------
(* The other steps *)

\* Only rows move.
LEMMA RowsSteady ==
    ASSUME TaskInv, RowsOK', JobsKeep, RegistryOK',
           UNCHANGED << thread, overdue, rounds >>, line' \in Seq(Keys), faults' \in 0 .. MaxFaults,
           guardian' \in [expired : SUBSET Keys, duplicates : SUBSET Keys]
    PROVE  Steady
<1>1. ThreadsOK' /\ NoneEntitled
  BY NoThreadMoves DEF TaskInv
<1>2. RestOK'
  BY DEF TaskInv, RestOK
<1> QED  BY <1>1, <1>2 DEF Steady

LEMMA SubmitMoves ==
    ASSUME TaskInv, NEW k \in Keys, NEW h \in Contents[k], Submit(k, h)
    PROVE  Steady
<1> DEFINE row == [ status |-> "QUEUED", packet |-> "QUEUED", hash |-> h,
                    owner |-> NoOne, live |-> FALSE, fence |-> 1, delayed |-> FALSE,
                    attempts |-> 0, result |-> NoResult ]
<1>1. h \in Hashes
  <2>1. Contents \in [Keys -> SUBSET Hashes]
    BY BridgeAssumption
  <2> QED  BY <2>1
<1>2. RowOK(row)
  BY <1>1, NewRowOK
<1>3. job' = [job EXCEPT ![k] = row] /\ job[k] = NoJob
  BY DEF Submit, Submitted
<1> HIDE DEF row
<1>4. RowsOK' /\ JobsKeep
  BY <1>2, <1>3, RowMoves DEF TaskInv
<1>5. line' \in Seq(Keys)
  <2>1. line \in Seq(Keys) /\ line' = Append(line, k)
    BY DEF Submit, TaskInv, RestOK
  <2> QED  BY <2>1
<1>6. /\ RegistryOK' /\ faults' \in 0 .. MaxFaults
      /\ guardian' \in [expired : SUBSET Keys, duplicates : SUBSET Keys]
      /\ UNCHANGED << thread, overdue, rounds >>
  BY DEF Submit, TaskInv, RegistryOK, RestOK
<1> QED  BY <1>4, <1>5, <1>6, RowsSteady

LEMMA LapsesMoves ==
    ASSUME TaskInv, NEW k \in Keys, Lapses(k) \/ DelayPasses(k)
    PROVE  Steady
<1> DEFINE lapsed == [job[k] EXCEPT !.live = FALSE]
           undelayed == [job[k] EXCEPT !.delayed = FALSE]
<1>1. job[k] # NoJob /\ RowOK(job[k])
  BY DEF Lapses, DelayPasses, Submitted, TaskInv, RowsOK
<1>2. /\ RowOK(lapsed) /\ lapsed.hash = job[k].hash /\ lapsed.attempts = job[k].attempts
      /\ RowOK(undelayed) /\ undelayed.hash = job[k].hash
      /\ undelayed.attempts = job[k].attempts
  <2>1. job[k] \in Job
    BY <1>1 DEF RowOK
  <2> QED  BY <1>1, <2>1, LapsedOK DEF Job
<1>3. job[k].attempts \in Nat
  BY <1>1, AttemptsType DEF RowOK
<1>4. job' = [job EXCEPT ![k] = lapsed] \/ job' = [job EXCEPT ![k] = undelayed]
  BY <1>1 DEF Lapses, DelayPasses, TaskInv, RowsOK
<1> HIDE DEF lapsed, undelayed
<1>5. RowsOK' /\ JobsKeep
  <2>1. lapsed.attempts >= job[k].attempts /\ undelayed.attempts >= job[k].attempts
    BY <1>2, <1>3
  <2> QED  BY <1>2, <1>4, <2>1, RowMoves DEF TaskInv
<1>6. faults' \in 0 .. MaxFaults
  BY BridgeAssumption DEF Lapses, DelayPasses, TaskInv, RestOK
<1>7. /\ RegistryOK' /\ line' \in Seq(Keys)
      /\ guardian' \in [expired : SUBSET Keys, duplicates : SUBSET Keys]
      /\ UNCHANGED << thread, overdue, rounds >>
  BY DEF Lapses, DelayPasses, TaskInv, RegistryOK, RestOK
<1> QED  BY <1>5, <1>6, <1>7, RowsSteady

LEMMA RepairMoves ==
    ASSUME TaskInv, Repair
    PROVE  Steady
<1> DEFINE Fenced(k)  == IF k \in guardian.expired \cap Expired THEN Contained(job[k]) ELSE job[k]
           Cleared(k) == IF k \in guardian.duplicates THEN Blocked(Fenced(k)) ELSE Fenced(k)
<1>1. job' = [k \in Keys |-> Cleared(k)]
  BY DEF Repair
<1>2. ASSUME NEW k \in Keys, job[k] = NoJob
      PROVE  Cleared(k) = NoJob
  <2>1. Fenced(k) = NoJob
    BY <1>2 DEF Expired, Submitted
  <2>2. Blocked(NoJob) = NoJob
    BY DEF Blocked, NoJob
  <2> HIDE DEF Fenced
  <2> QED  BY <2>1, <2>2
<1>3. ASSUME NEW k \in Keys, job[k] # NoJob
      PROVE  /\ RowOK(Cleared(k))
             /\ Cleared(k).hash = job[k].hash
             /\ Cleared(k).attempts = job[k].attempts
  <2>1. RowOK(job[k])
    BY <1>3 DEF TaskInv, RowsOK
  <2>2. /\ RowOK(Fenced(k))
        /\ Fenced(k).hash = job[k].hash
        /\ Fenced(k).attempts = job[k].attempts
    <3>1. CASE k \in guardian.expired \cap Expired
      <4>1. job[k].status = "RUNNING"
        BY <3>1 DEF Expired
      <4> QED  BY <2>1, <3>1, <4>1, ContainedOK
    <3>2. CASE k \notin guardian.expired \cap Expired
      BY <2>1, <3>2
    <3> QED  BY <3>1, <3>2
  <2> HIDE DEF Fenced
  <2> QED  BY <2>2, BlockedOK
<1> HIDE DEF Cleared
<1>4. \A k \in Keys : job'[k] = Cleared(k)
  BY <1>1
<1>5. \A k \in Keys : job[k] # NoJob => Cleared(k) \in Job /\ Cleared(k) # NoJob
  BY <1>3, RowIsSome DEF RowOK
<1>6. RowsOK'
  <2>1. job' \in [Keys -> Job \cup {NoJob}]
    BY <1>1, <1>2, <1>5
  <2> QED  BY <1>2, <1>3, <1>4, <2>1 DEF RowsOK
<1>7. JobsKeep
  <2>1. \A k \in Keys : job[k] # NoJob => job[k].attempts \in Nat
    BY AttemptsType DEF TaskInv, RowsOK
  <2> QED  BY <1>3, <1>4, <1>5, <2>1 DEF JobsKeep
<1>8. /\ RegistryOK' /\ line' \in Seq(Keys) /\ faults' \in 0 .. MaxFaults
      /\ guardian' \in [expired : SUBSET Keys, duplicates : SUBSET Keys]
      /\ UNCHANGED << thread, overdue, rounds >>
  BY DEF Repair, TaskInv, RegistryOK, RestOK
<1> QED  BY <1>6, <1>7, <1>8, RowsSteady

LEMMA AuditMoves ==
    ASSUME TaskInv, Audit
    PROVE  Steady
<1>1. RowsOK' /\ JobsKeep
  BY NoRowMoves DEF Audit, TaskInv
<1>2. guardian' \in [expired : SUBSET Keys, duplicates : SUBSET Keys]
  BY DEF Audit, Expired, Unsettled, Submitted
<1>3. /\ RegistryOK' /\ line' \in Seq(Keys) /\ faults' \in 0 .. MaxFaults
      /\ UNCHANGED << thread, overdue, rounds >>
  BY DEF Audit, TaskInv, RegistryOK, RestOK
<1> QED  BY <1>1, <1>2, <1>3, RowsSteady

\* The deadline, and the registry's clock.
LEMMA ClockMoves ==
    ASSUME TaskInv, NEW k \in Keys, DeadlinePasses(k) \/ RowExpires(k)
    PROVE  Steady
<1>1. RowsOK' /\ JobsKeep /\ UNCHANGED thread
  BY NoRowMoves DEF DeadlinePasses, RowExpires, TaskInv
<1>2. ThreadsOK' /\ NoneEntitled
  BY <1>1, NoThreadMoves DEF TaskInv
<1>3. RegistryOK'
  <2>1. CASE UNCHANGED registry
    BY <2>1 DEF TaskInv, RegistryOK
  <2>2. CASE RowExpires(k)
    <3>1. registry[k] \in Row
      BY <2>2 DEF RowExpires, TaskInv, RegistryOK
    <3>2. [registry[k] EXCEPT !.expired = TRUE] \in Row
      BY <3>1 DEF Row
    <3>3. registry' = [registry EXCEPT ![k] = [registry[k] EXCEPT !.expired = TRUE]]
      BY <2>2 DEF RowExpires, TaskInv, RegistryOK
    <3> QED  BY <3>2, <3>3 DEF TaskInv, RegistryOK
  <2> QED  BY <2>1, <2>2 DEF DeadlinePasses
<1>4. faults' \in 0 .. MaxFaults /\ UNCHANGED rounds
  BY BridgeAssumption DEF DeadlinePasses, RowExpires, TaskInv, RestOK
<1>5. RestOK'
  BY <1>4 DEF DeadlinePasses, RowExpires, TaskInv, RestOK
<1> QED  BY <1>1, <1>2, <1>3, <1>4, <1>5 DEF Steady

LEMMA ClaimMoves ==
    ASSUME TaskInv, NEW w \in Workers, Claim(w)
    PROVE  TaskInv'
<1>1. PICK k \in Submitted :
          /\ Runnable(k)
          /\ job' = [job EXCEPT ![k] = Claimed(@, w)]
          /\ Put(w, [ IdleThread EXCEPT
                        !.at = "claimed", !.key = k, !.hash = job[k].hash,
                        !.fence = job'[k].fence, !.attempt = job'[k].attempts ])
  BY DEF Claim
<1> DEFINE row == Claimed(job[k], w)
           s == [ IdleThread EXCEPT
                    !.at = "claimed", !.key = k, !.hash = job[k].hash,
                    !.fence = row.fence, !.attempt = row.attempts ]
<1>2. k \in Keys /\ job[k] # NoJob /\ RowOK(job[k]) /\ w \in Threads
  BY DEF Submitted, TaskInv, RowsOK, Threads
<1>3. job' = [job EXCEPT ![k] = row]
  BY <1>1
<1>4. /\ RowOK(row) /\ row.hash = job[k].hash
      /\ row.attempts = job[k].attempts + 1 /\ row.fence \in Nat
  BY <1>1, <1>2, ClaimedOK DEF Runnable
<1>5. job[k].attempts \in Nat /\ row.attempts \in Nat /\ row.attempts >= job[k].attempts
  BY <1>2, <1>4, AttemptsType DEF RowOK
<1>6. row.hash \in Hashes
  BY <1>4 DEF RowOK, Job
<1>7. thread' = [thread EXCEPT ![w] = s]
  <2>1. job'[k] = row
    BY <1>2, <1>3 DEF TaskInv, RowsOK
  <2> HIDE DEF row
  <2> QED  BY <1>1, <2>1 DEF Put
<1> HIDE DEF row
<1>8. RowsOK' /\ JobsKeep
  BY <1>2, <1>3, <1>4, <1>5, RowMoves DEF TaskInv
<1>9. /\ s \in Thread /\ s.at = "claimed" /\ s.key = k /\ s.hash = row.hash
      /\ s.attempt = row.attempts /\ s.result = NoResult
  BY <1>2, <1>4, <1>5, <1>6 DEF IdleThread, Thread, Places
<1> HIDE DEF s
<1>10. ThreadOK(s)
  BY <1>2, <1>6, <1>9 DEF ThreadOK
<1>11. Remembers(s, job')
  <2>1. job'[k] = row /\ row # NoJob
    BY <1>2, <1>3, <1>4, RowIsSome DEF TaskInv, RowsOK, RowOK
  <2> QED  BY <1>5, <1>9, <2>1 DEF Remembers
<1>12. \A u \in Threads : thread'[u] = IF u = w THEN s ELSE thread[u]
  BY <1>7 DEF TaskInv, ThreadsOK
<1>13. ThreadsOK'
  <2>1. thread' \in [Threads -> Thread] /\ \A u \in Threads : ThreadOK(thread'[u])
    BY <1>7, <1>9, <1>10, <1>12 DEF TaskInv, ThreadsOK
  <2>2. \A v \in Workers : Remembers(thread[v], job')
    BY <1>8, StillRemembers DEF TaskInv
  <2>3. \A v \in Workers : Remembers(thread'[v], job')
    BY <1>11, <1>12, <2>2 DEF Threads
  <2> QED  BY <2>1, <2>3 DEF ThreadsOK
<1>14. RegistryOK' /\ RestOK'
  BY DEF Claim, TaskInv, RegistryOK, RestOK
<1>15. Budget'
  <2> SUFFICES ASSUME NEW l \in Keys
               PROVE  /\ job'[l] = NoJob => rounds[l] = 0
                      /\ job'[l] # NoJob =>
                            rounds[l] + Cardinality(Entitled(l)')
                               <= Least(job'[l].attempts, MaxAttempts(l))
    BY DEF Budget, MaxAttempts, Entitled, Claim
  <2>1. /\ job[l] = NoJob => rounds[l] = 0
        /\ job[l] # NoJob =>
              rounds[l] + Cardinality(Entitled(l)) <= Least(job[l].attempts, MaxAttempts(l))
    BY DEF TaskInv, Budget
  <2>2. rounds[l] \in Nat /\ MaxAttempts(l) \in Nat
    BY BudgetType DEF TaskInv, RestOK
  <2>3. IsFiniteSet(Entitled(l)) /\ Cardinality(Entitled(l)) \in Nat
    BY BridgeAssumption, FS_Subset, FS_CardinalityType DEF Entitled
  <2>4. CASE l # k
    <3>1. job'[l] = job[l]
      BY <1>3, <2>4 DEF TaskInv, RowsOK
    <3>2. Entitled(l)' \subseteq Entitled(l)
      BY <1>9, <1>12, <2>4 DEF Entitled, Threads
    <3>3. /\ Cardinality(Entitled(l)') <= Cardinality(Entitled(l))
          /\ Cardinality(Entitled(l)') \in Nat
      BY <2>3, <3>2, FS_Subset, FS_CardinalityType
    <3>4. job[l] # NoJob => job[l].attempts \in Nat
      BY AttemptsType DEF TaskInv, RowsOK
    <3> QED  BY <2>1, <2>2, <2>3, <3>1, <3>3, <3>4 DEF Least
  <2>5. CASE l = k
    <3>1. job'[l] = row /\ job'[l].attempts = job[l].attempts + 1 /\ job[l].attempts \in Nat
      BY <1>2, <1>3, <1>4, <1>5, <2>5 DEF TaskInv, RowsOK
    <3>2. rounds[l] + Cardinality(Entitled(l)) <= Least(job[l].attempts, MaxAttempts(l))
      BY <1>2, <2>1, <2>5
    <3>3. /\ IsFiniteSet(Entitled(l)')
          /\ Cardinality(Entitled(l)') \in Nat
          /\ IF row.attempts <= MaxAttempts(l)
             THEN Cardinality(Entitled(l)') <= Cardinality(Entitled(l)) + 1
             ELSE Cardinality(Entitled(l)') <= Cardinality(Entitled(l))
      <4>1. Entitled(l)' \subseteq Entitled(l) \cup {w}
        BY <1>12 DEF Entitled, Threads
      <4>2. row.attempts <= MaxAttempts(l) \/ w \notin Entitled(l)'
        BY <1>2, <1>9, <1>12 DEF Entitled, MaxAttempts
      <4>3. /\ IsFiniteSet(Entitled(l) \cup {w})
            /\ Cardinality(Entitled(l) \cup {w}) <= Cardinality(Entitled(l)) + 1
            /\ Cardinality(Entitled(l) \cup {w}) \in Nat
        <5> DEFINE E == Entitled(l)
        <5>1. IsFiniteSet(E) /\ Cardinality(E) \in Nat
          BY <2>3
        <5> HIDE DEF E
        <5>2. /\ IsFiniteSet(E \cup {w})
              /\ Cardinality(E \cup {w}) =
                   IF w \in E THEN Cardinality(E) ELSE Cardinality(E) + 1
          BY <5>1, FS_AddElement
        <5>3. Cardinality(E \cup {w}) \in Nat /\ Cardinality(E \cup {w}) <= Cardinality(E) + 1
          BY <5>1, <5>2
        <5> QED  BY <5>2, <5>3 DEF E
      <4>4. /\ IsFiniteSet(Entitled(l)') /\ Cardinality(Entitled(l)') \in Nat
            /\ Cardinality(Entitled(l)') <= Cardinality(Entitled(l) \cup {w})
        BY <4>1, <4>3, FS_Subset, FS_CardinalityType
      <4>5. w \notin Entitled(l)' => Cardinality(Entitled(l)') <= Cardinality(Entitled(l))
        <5>1. w \notin Entitled(l)' => Entitled(l)' \subseteq Entitled(l)
          BY <4>1
        <5> QED  BY <2>3, <5>1, FS_Subset
      <4>6. Cardinality(Entitled(l)') <= Cardinality(Entitled(l)) + 1
        BY <2>3, <4>3, <4>4
      <4> QED  BY <4>2, <4>4, <4>5, <4>6
    <3> DEFINE n == Cardinality(Entitled(l))
               m == Cardinality(Entitled(l)')
    <3>4. /\ n \in Nat /\ m \in Nat
          /\ rounds[l] + n <= Least(job[l].attempts, MaxAttempts(l))
          /\ row.attempts = job[l].attempts + 1
          /\ IF row.attempts <= MaxAttempts(l) THEN m <= n + 1 ELSE m <= n
      BY <2>3, <3>1, <3>2, <3>3
    <3> HIDE DEF n, m
    <3>5. rounds[l] + m <= Least(row.attempts, MaxAttempts(l))
      BY <2>2, <3>1, <3>4 DEF Least
    <3>6. job'[l] # NoJob
      BY <1>2, <1>8, <2>5 DEF JobsKeep
    <3> QED  BY <3>1, <3>5, <3>6 DEF m
  <2> QED  BY <2>4, <2>5
<1> QED  BY <1>8, <1>13, <1>14, <1>15 DEF TaskInv

-----------------------------------------------------------------------------
(* The invariant *)

LEMMA InitOK == Init => TaskInv
<1> SUFFICES ASSUME Init PROVE TaskInv
  OBVIOUS
<1>1. RowsOK
  BY DEF Init, RowsOK
<1>2. RegistryOK
  <2>1. Historical \subseteq [Keys -> Row \cup {NoRow}]
    BY BridgeAssumption
  <2> QED  BY <2>1 DEF Init, RegistryOK
<1>3. ThreadsOK
  <2>1. IdleThread \in Thread
    BY IdleOK DEF ThreadOK
  <2> QED  BY <2>1, IdleOK DEF Init, ThreadsOK, Threads
<1>4. RestOK
  <2>1. 0 \in 0 .. MaxFaults
    BY BridgeAssumption
  <2> QED  BY <2>1 DEF Init, RestOK
<1>5. Budget
  BY DEF Init, Budget
<1> QED  BY <1>1, <1>2, <1>3, <1>4, <1>5 DEF TaskInv

LEMMA NextOK == TaskInv /\ [Next]_vars => TaskInv'
<1> SUFFICES ASSUME TaskInv, [Next]_vars PROVE TaskInv'
  OBVIOUS
<1>1. ASSUME NEW k \in Keys, NEW h \in Contents[k], Submit(k, h) PROVE TaskInv'
  BY <1>1, SubmitMoves, SteadySteps
<1>2. ASSUME NEW w \in Workers, Claim(w) PROVE TaskInv'
  BY <1>2, ClaimMoves
<1>3. ASSUME NEW w \in Workers, WorkerStep(w) PROVE TaskInv'
  <2>1. w \in Threads
    BY DEF Threads
  <2>2. CASE Begins(w)
    BY <2>2, BeginsMoves
  <2>3. CASE Stores(w)
    BY <2>1, <2>3, StoresMoves, SteadySteps
  <2>4. CASE GivesUp(w) \/ Recovers(w) \/ Retried(w) \/ Closes(w)
    BY <2>4, EndsMoves, SteadySteps
  <2>5. CASE Drops(w)
    BY <2>1, <2>5, LeavingMoves, SteadySteps
  <2> QED  BY <1>3, <2>2, <2>3, <2>4, <2>5 DEF WorkerStep
<1>4. ASSUME NEW t \in Threads, Raises(t) PROVE TaskInv'
  BY <1>4, RaisesMoves, SteadySteps
<1>5. ASSUME NEW w \in Workers, LosesLease(w) PROVE TaskInv'
  BY <1>5, LosesLeaseMoves, SteadySteps
<1>6. ASSUME NEW t \in Threads, Crashes(t) \/ HangsUp(t) PROVE TaskInv'
  BY <1>6, LeavingMoves, SteadySteps
<1>7. ASSUME NEW c \in Callers, CallerStep(c) PROVE TaskInv'
  <2>1. c \in Threads
    BY DEF Threads
  <2>2. CASE Calls(c)
    BY <2>2, CallsMoves, SteadySteps
  <2>3. CASE Stores(c)
    BY <2>1, <2>3, StoresMoves, SteadySteps
  <2>4. CASE Answers(c)
    BY <2>1, <2>4, LeavingMoves, SteadySteps
  <2> QED  BY <1>7, <2>2, <2>3, <2>4 DEF CallerStep
<1>8. CASE Audit
  BY <1>8, AuditMoves, SteadySteps
<1>9. CASE Repair
  BY <1>9, RepairMoves, SteadySteps
<1>10. ASSUME NEW k \in Keys, Lapses(k) \/ DelayPasses(k) PROVE TaskInv'
  BY <1>10, LapsesMoves, SteadySteps
<1>11. ASSUME NEW k \in Keys, DeadlinePasses(k) \/ RowExpires(k) PROVE TaskInv'
  BY <1>11, ClockMoves, SteadySteps
<1>12. CASE UNCHANGED vars
  <2>1. RowsOK' /\ JobsKeep /\ UNCHANGED thread
    BY <1>12, NoRowMoves DEF TaskInv, vars
  <2>2. ThreadsOK' /\ NoneEntitled
    BY <2>1, NoThreadMoves DEF TaskInv
  <2>3. RegistryOK' /\ RestOK' /\ UNCHANGED rounds
    BY <1>12 DEF TaskInv, RegistryOK, RestOK, vars
  <2> QED  BY <2>1, <2>2, <2>3, SteadySteps DEF Steady
<1> QED
  BY <1>1, <1>2, <1>3, <1>4, <1>5, <1>6, <1>7, <1>8, <1>9, <1>10, <1>11, <1>12
     DEF Next, Threads

LEMMA SpecKeepsInv == Spec => []TaskInv
BY InitOK, NextOK, PTL DEF Spec

-----------------------------------------------------------------------------
(* The theorems *)

\* Rows, registry, threads and findings stay within their types, and a row has
\* an owner exactly while it is RUNNING.
THEOREM TaskTypeCorrect == Spec => []TaskTypeOK
<1>1. TaskInv => TaskTypeOK
  BY DEF TaskInv, RowsOK, RowOK, RegistryOK, ThreadsOK, RestOK, TaskTypeOK, Submitted
<1> QED  BY <1>1, SpecKeepsInv, PTL

\* jaytec_jobs and jaytec_task_packets settle every packet together and alike,
\* and differ otherwise only where the guardian has set a running packet's job
\* aside: paused, or blocked as a duplicate, which it then reports as drift.
THEOREM TablesAgreeOnPackets == Spec => []RowsAgree
<1>1. TaskInv => RowsAgree
  BY DEF TaskInv, RowsOK, RowOK, RowsAgree, Drifted, Settled, Submitted
<1> QED  BY <1>1, SpecKeepsInv, PTL

\* No packet is executed more often than max_attempts, for any number of
\* workers, crashes and takeovers.
THEOREM AttemptsAreBudgeted == Spec => []RoundsAreBudgeted
<1>1. TaskInv => RoundsAreBudgeted
  <2> SUFFICES ASSUME TaskInv, NEW k \in Submitted PROVE rounds[k] <= MaxAttempts(k)
    BY DEF RoundsAreBudgeted
  <2>1. /\ k \in Keys
        /\ rounds[k] + Cardinality(Entitled(k)) <= Least(job[k].attempts, MaxAttempts(k))
    BY DEF TaskInv, Budget, Submitted
  <2>2. Cardinality(Entitled(k)) \in Nat
    BY BridgeAssumption, FS_Subset, FS_CardinalityType DEF Entitled
  <2>3. rounds[k] \in Nat /\ MaxAttempts(k) \in Nat /\ job[k].attempts \in Nat
    BY <2>1, BudgetType, AttemptsType DEF TaskInv, RestOK, RowsOK, Submitted
  <2> QED  BY <2>1, <2>2, <2>3 DEF Least
<1> QED  BY <1>1, SpecKeepsInv, PTL

\* A job never gets the result of another packet with its key.
THEOREM AnswersAreOwn == Spec => []OwnAnswers
<1>1. TaskInv => OwnAnswers
  BY DEF TaskInv, RowsOK, RowOK, OwnAnswers, Submitted
<1> QED  BY <1>1, SpecKeepsInv, PTL

\* A result in which codex or gemini timed out or was rate limited is neither
\* replayed nor a success, whatever the registry held at the start.
THEOREM WatchedTransientsAreNotFinal == Spec => []WatchedAreNotFinal
<1>1. TaskInv => WatchedAreNotFinal
  <2> SUFFICES ASSUME TaskInv PROVE WatchedAreNotFinal
    OBVIOUS
  <2>1. \A r : Transient(r) <=> Watched(r)
    BY DEF Transient, Watched
  <2>2. \A t \in Threads : thread[t].result # NoResult /\ thread[t].result.replay
                               => ~Transient(thread[t].result)
    BY DEF TaskInv, ThreadsOK, ThreadOK
  <2>3. \A k \in Submitted : job[k].status = "SUCCEEDED" => ~Transient(job[k].result)
    BY DEF TaskInv, RowsOK, RowOK, Submitted
  <2> QED  BY <2>1, <2>2, <2>3 DEF WatchedAreNotFinal
<1> QED  BY <1>1, SpecKeepsInv, PTL

=============================================================================
