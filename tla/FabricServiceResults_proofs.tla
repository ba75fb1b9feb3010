-------------------- MODULE FabricServiceResults_proofs --------------------
(***************************************************************************)
(* Which results the service hands on, for every set of threads, relays,   *)
(* envelopes and bounds: that rework is done again, that only a whole      *)
(* success ends as SUCCEEDED, and that an answered recovery request keeps  *)
(* its answer.                                                             *)
(*                                                                         *)
(* Each rests on what a thread read before it writes: a worker thread the  *)
(* registry before the handoff, a WATCH thread the payloads before the     *)
(* review.                                                                 *)
(***************************************************************************)
EXTENDS FabricService_proofs, FiveSeatLifecycle_proofs

-----------------------------------------------------------------------------
(* Rework: what was read in the registry and what is written as a payload *)

\* The result run_once would report or hand off next.
HasResult(w) ==
    \/ At(w, "REPORTING")
    \/ At(w, "HANDING")
    \/ At(w, "FINISHED") /\ run[w].failure = "NONE"

HoldsFence(w) == Holds(w) /\ held[w].fence = jobs[held[w].job].fence

\* A claim that still stands either had its result made for it, or read it in
\* the registry when no result of the job had been reviewed, as none has since.
RunIsFresh(w) ==
    HasResult(w) /\ HoldsFence(w) =>
        \/ run[w].result.made = held[w].fence
        \/ ReviewsOf(held[w].job) = {}

\* A provider call works under the packet's key or under that of its claim,
RunKey(w) == At(w, "CALLING") => run[w].key \in {0, held[w].fence}

\* so what is stored under the key of a claim was made by that claim.
StoredByClaim == \A s \in stored : s.key # 0 => s.result.made = s.key

\* Payloads belong to claims that are over, the last one to the checkpoint: a
\* review, which is of the checkpoint, never comes after a later payload.
PayloadsAreBehind ==
    \A p \in results :
        /\ p.fence <= jobs[p.job].checkpoint_ref
        /\ p.fence < jobs[p.job].fence

FreshInv ==
    /\ \A w \in Workers : RunIsFresh(w) /\ RunKey(w)
    /\ StoredByClaim
    /\ PayloadsAreBehind
    /\ ReworkIsFresh

-----------------------------------------------------------------------------
(* Success: what was read of the payloads and what is decided about them *)

\* A row a WATCH thread has read shows the payload of its handoff, and there is
\* one row for a handoff.
RowsShowPayloads(c) ==
    /\ \A x \in room[c].todo :
          \E p \in results :
              /\ p.job = x.handoff.job
              /\ p.fence = x.handoff.fence
              /\ p.result = x.result
    /\ \A x, y \in room[c].todo : x.handoff = y.handoff => x = y

\* An ACCEPT is the verdict on the row whose turn it is.
AcceptIsVerdict(c) ==
    In(c, "DECIDED") /\ room[c].decision = "ACCEPT" =>
        \A x \in room[c].todo : IsNext(c, x) => Verdict(x) = "ACCEPT"

SuccessInv ==
    /\ \A c \in Controllers : RowsShowPayloads(c) /\ AcceptIsVerdict(c)
    /\ AcceptedIsWholeSuccess

-----------------------------------------------------------------------------
(* What a step does to the fences and reviews of a job *)

\* What holds of the tables and of the threads already.
Known == ServiceInv /\ ClaimInv /\ LifecycleInv

LEMMA Kinds6 ==
    ASSUME Known, [ServiceNext]_service
    PROVE  /\ TypeOK /\ TypeOK'
           /\ [Next]_vars
           /\ \A j \in Jobs : RowKind(j)
  <1>1. [Next]_vars
    BY ServiceStepMaps DEF Known
  <1> QED BY <1>1, RowStep, TypeNext DEF Known, ClaimInv

\* The fence of a job never falls; its checkpoint stays, or moves to the claim
\* that ends with a handoff.
LEMMA FencesAdvance ==
    ASSUME TypeOK, TypeOK', NEW j \in Jobs, RowKind(j)
    PROVE  /\ jobs'[j].fence \in Nat /\ jobs[j].fence \in Nat
           /\ jobs'[j].checkpoint_ref \in Nat /\ jobs[j].checkpoint_ref \in Nat
           /\ jobs'[j].fence >= jobs[j].fence
           /\ \/ jobs'[j].checkpoint_ref = jobs[j].checkpoint_ref
              \/ jobs'[j].checkpoint_ref = jobs[j].fence /\
                 jobs'[j].fence = jobs[j].fence + 1
  <1>1. /\ jobs[j].fence \in Nat /\ jobs'[j].fence \in Nat
        /\ jobs[j].checkpoint_ref \in Nat /\ jobs'[j].checkpoint_ref \in Nat
    BY DEF TypeOK, JobRow
  <1>2. CASE Rests(j) \/ IsDirected(j)
    BY <1>1, <1>2 DEF Rests, IsDirected, KeepsRound
  <1>3. CASE IsClaimed(j) \/ IsEnded(j)
    BY <1>1, <1>3 DEF IsClaimed, IsEnded, KeepsRound
  <1>4. CASE IsReleased(j) \/ IsReviewed(j)
    BY <1>1, <1>4 DEF IsReleased, IsReviewed
  <1> QED BY <1>2, <1>3, <1>4 DEF RowKind

\* A review is written for a job without a claim, about its checkpoint.
LEMMA ReviewsOfCheckpoint ==
    ASSUME NEW j \in Jobs, RowKind(j)
    PROVE  \/ ReviewsOf(j)' = ReviewsOf(j)
           \/ /\ ~Running(j)
              /\ \A r \in ReviewsOf(j)' :
                    r \in ReviewsOf(j) \/ r.fence = jobs[j].checkpoint_ref
  <1>1. CASE IsReviewed(j)
    BY <1>1 DEF IsReviewed, Running
  <1> QED BY <1>1 DEF RowKind, Rests, IsDirected, IsClaimed, IsReleased, IsEnded,
                      KeepsBooks

\* A claim that still stands after a step stood before it, and saw no review.
LEMMA ClaimStood ==
    ASSUME Known, [ServiceNext]_service, NEW w \in Workers,
           held'[w] = held[w], HoldsFence(w)'
    PROVE  /\ HoldsFence(w)
           /\ held[w] \in Token
           /\ ReviewsOf(held[w].job)' = ReviewsOf(held[w].job)
  <1> DEFINE j == held[w].job
  <1>1. Holds(w) /\ held[w] \in Token /\ j \in Jobs /\ held[w].fence \in Nat
    BY DEF HoldsFence, Holds, Known, ClaimInv, TypeOK, Token
  <1>2. RowKind(j) /\ TypeOK /\ TypeOK'
    BY <1>1, Kinds6
  <1>3. /\ jobs'[j].fence >= jobs[j].fence
        /\ jobs'[j].fence \in Nat /\ jobs[j].fence \in Nat
    BY <1>1, <1>2, FencesAdvance
  <1>4. /\ held[w].fence <= jobs[j].fence
        /\ held[w].fence = jobs[j].fence => Running(j)
    BY <1>1 DEF Known, ClaimInv, FenceIdentifiesClaim
  <1>5. held[w].fence = jobs'[j].fence
    BY DEF HoldsFence
  <1>6. held[w].fence = jobs[j].fence
    BY <1>1, <1>3, <1>4, <1>5
  <1> QED BY <1>1, <1>2, <1>4, <1>6, ReviewsOfCheckpoint DEF HoldsFence

-----------------------------------------------------------------------------
(* Rework is fresh *)

\* A thread that keeps its token stays fresh while it keeps its result, or the
\* maker of it.
LEMMA KeepsFresh ==
    ASSUME Known, FreshInv, [ServiceNext]_service, NEW w \in Workers,
           held'[w] = held[w],
           HasResult(w)' => /\ HasResult(w)
                            /\ run'[w].result.made = run[w].result.made
    PROVE  RunIsFresh(w)'
  <1> SUFFICES ASSUME HasResult(w)', HoldsFence(w)'
               PROVE  \/ run'[w].result.made = held'[w].fence
                      \/ ReviewsOf(held[w].job)' = {}
    BY DEF RunIsFresh
  <1>1. HoldsFence(w) /\ ReviewsOf(held[w].job)' = ReviewsOf(held[w].job)
    BY ClaimStood
  <1>2. RunIsFresh(w)
    BY DEF FreshInv
  <1> QED BY <1>1, <1>2 DEF RunIsFresh

\* What a step does to the run of one thread, as far as its result goes.
Resumes(w) ==
    /\ held'[w] = held[w]
    /\ HasResult(w)' => HasResult(w) /\ run'[w].result.made = run[w].result.made

Makes(w) == held'[w] = held[w] /\ run'[w].result.made = held[w].fence

Finds(w) ==
    /\ held'[w] = held[w]
    /\ UNCHANGED << jobs, reviews >>
    /\ \/ run'[w].result.made = held[w].fence
       \/ ReviewsOf(held[w].job) = {}
       \/ ~HoldsFence(w)

HasNone(w) == ~HasResult(w)'

LEMMA FreshByKind ==
    ASSUME Known, FreshInv, [ServiceNext]_service, NEW w \in Workers,
           Resumes(w) \/ Makes(w) \/ Finds(w) \/ HasNone(w)
    PROVE  RunIsFresh(w)'
  <1>1. CASE Resumes(w)
    BY <1>1, KeepsFresh DEF Resumes
  <1>2. CASE Makes(w)
    BY <1>2 DEF Makes, RunIsFresh
  <1>3. CASE Finds(w)
    BY <1>3 DEF Finds, RunIsFresh, ReviewsOf, HoldsFence, Holds
  <1>4. CASE HasNone(w)
    BY <1>4 DEF HasNone, RunIsFresh
  <1> QED BY <1>1, <1>2, <1>3, <1>4
\* What each step of run_once does to its result: one that ends or begins the
\* run has none, the registry gives one, the provider or a failure makes one,
\* and the rest keep theirs.
LEMMA RunFreshKinds ==
    ASSUME Known, FreshInv, NEW w \in Workers, RunStep(w)
    PROVE  /\ Resumes(w) \/ Makes(w) \/ Finds(w) \/ HasNone(w)
           /\ RunKey(w)'
  <1> DEFINE Goal == /\ Resumes(w) \/ Makes(w) \/ Finds(w) \/ HasNone(w)
                     /\ RunKey(w)'
  <1>1. /\ run \in [Workers -> Run]
        /\ run[w] \in Run
        /\ ResultReady(w)
    BY DEF Known, ServiceInv, ServiceTypeOK
  <1>2. RunKey(w) /\ StoredByClaim
    BY DEF FreshInv
  <1>3. ASSUME NEW row \in Run, run' = [run EXCEPT ![w] = row],
               row.place \notin {"REPORTING", "HANDING", "FINISHED", "CALLING"}
        PROVE  Goal
    BY <1>1, <1>3 DEF HasNone, HasResult, RunKey, At
  <1>4. ASSUME NEW place \in {"CLAIMED", "CANCELLING", "EXECUTING", "RETRYING",
                              "ENDING"},
               Moves(w, place)
        PROVE  Goal
    <2> DEFINE row == [run[w] EXCEPT !.place = place]
    <2>0. place \in RunPlaces
      BY DEF RunPlaces
    <2>1. row \in Run /\ row.place = place
      BY <1>1, <2>0, RunMoved
    <2>2. run' = [run EXCEPT ![w] = row]
      BY <1>1, <1>4 DEF Moves
    <2> HIDE DEF row
    <2> QED BY <1>3, <2>1, <2>2
  <1>5. ASSUME run' = run, held' = held PROVE Goal
    BY <1>2, <1>5 DEF Resumes, HasResult, RunKey, At
  \* the failure result of this claim
  <1>6. ASSUME NEW partial, held' = held,
               run' = [run EXCEPT ![w] =
                         [run[w] EXCEPT !.place = "HANDING",
                                        !.result = FailureResult(w, partial)]]
        PROVE  Goal
    <2>1. /\ run'[w].place = "HANDING"
          /\ run'[w].result = FailureResult(w, partial)
      <3> DEFINE result == FailureResult(w, partial)
      <3>1. run'[w] = [run[w] EXCEPT !.place = "HANDING", !.result = result]
        BY <1>1, <1>6
      <3> HIDE DEF result
      <3>2. run'[w].place = "HANDING" /\ run'[w].result = result
        BY <1>1, <3>1 DEF Run
      <3> QED BY <3>2 DEF result
    <2>2. FailureResult(w, partial).made = held[w].fence
      BY DEF FailureResult
    <2>3. Makes(w)
      BY <1>6, <2>1, <2>2 DEF Makes
    <2> QED BY <2>1, <2>3 DEF RunKey, At
  <1>7. CASE ClaimRun(w) \/ StartRun(w) \/ EndByCancel(w) \/ LeaseLost(w)
             \/ Retries(w) \/ HandsOff(w)
    BY <1>4, <1>7 DEF ClaimRun, StartRun, EndByCancel, LeaseLost, Retries,
                      HandsOff
  <1>8. CASE PollNothing(w) \/ Beats(w) \/ BeatFails(w)
    BY <1>5, <1>8 DEF PollNothing, ClaimNothing, Beats, Heartbeat, BeatFails,
                      threads, vars
  <1>9. CASE LookUp(w)
    <2>0. held' = held /\ UNCHANGED << jobs, reviews >> /\ At(w, "EXECUTING")
      BY <1>9 DEF LookUp, vars
    <2>1. CASE Stored(w, Key(w)) = {}
      <3> DEFINE row == [run[w] EXCEPT !.place = "CALLING", !.key = Key(w)]
      <3>1. run'[w] = row
        BY <1>1, <1>9, <2>1 DEF LookUp
      <3>2. row.place = "CALLING" /\ row.key = Key(w)
        BY <1>1 DEF Run
      <3>3. Key(w) \in {0, held[w].fence}
        BY DEF Key
      <3> HIDE DEF row
      <3> QED BY <2>0, <3>1, <3>2, <3>3 DEF HasNone, HasResult, RunKey, At
    <2>2. CASE Stored(w, Key(w)) # {}
      <3>1. PICK s \in Stored(w, Key(w)) :
               run' = [run EXCEPT ![w] = [@ EXCEPT !.place = "FINISHED",
                                                   !.result = s.result]]
        BY <1>9, <2>2 DEF LookUp
      <3> DEFINE row == [run[w] EXCEPT !.place = "FINISHED",
                                       !.result = s.result]
      <3>2. run'[w] = row
        BY <1>1, <3>1
      <3>3. row.place = "FINISHED" /\ row.result = s.result
        BY <1>1 DEF Run
      <3>4. s \in stored /\ s.key = Key(w)
        BY DEF Stored
      <3>5. CASE Key(w) # 0
        <4>1. s.result.made = Key(w) /\ Key(w) = held[w].fence
          BY <1>2, <3>4, <3>5 DEF StoredByClaim, Key
        <4> HIDE DEF row
        <4> QED BY <2>0, <3>2, <3>3, <4>1 DEF Finds, RunKey, At
      \* a standing claim is later than what was reviewed: its fence is not 0
      <3>6. CASE Key(w) = 0
        <4>1. ReviewsOf(held[w].job) = {} \/ ~HoldsFence(w)
          <5> SUFFICES ASSUME HoldsFence(w), NEW r \in ReviewsOf(held[w].job)
                       PROVE  FALSE
            OBVIOUS
          <5>1. /\ held[w].job \in Jobs
                /\ held[w].fence = jobs[held[w].job].fence
            BY DEF HoldsFence, Holds, Known, ClaimInv, TypeOK, Token
          <5>2. r.fence < held[w].fence /\ r.fence \in Nat /\ held[w].fence \in Nat
            BY <5>1, RowTypes DEF Known, LifecycleInv, JobInv, LedgerIsBehind,
                                  ClaimInv
          <5>3. held[w].fence = 0
            BY <3>6 DEF Key, ReviewsOf
          <5> QED BY <5>2, <5>3
        <4> HIDE DEF row
        <4> QED BY <2>0, <3>2, <3>3, <4>1 DEF Finds, RunKey, At
      <3> QED BY <3>5, <3>6
    <2> QED BY <2>1, <2>2
  <1>10. CASE Answered(w)
    <2>1. PICK a \in Answers :
             run' = [run EXCEPT ![w] =
                       [@ EXCEPT !.place = "FINISHED", !.key = 0,
                                 !.result =
                                   [ overall |-> a.overall,
                                     clean |-> a.clean /\ a.overall = "SUCCESS",
                                     partial |-> "NONE",
                                     made |-> held[w].fence ]]]
      BY <1>10 DEF Answered
    <2> DEFINE result == [ overall |-> a.overall,
                           clean |-> a.clean /\ a.overall = "SUCCESS",
                           partial |-> "NONE", made |-> held[w].fence ]
               row == [run[w] EXCEPT !.place = "FINISHED", !.key = 0,
                                     !.result = result]
    <2>2. result.made = held[w].fence
      OBVIOUS
    <2>3. run'[w] = row /\ held' = held
      BY <1>1, <1>10, <2>1 DEF Answered, vars
    <2>4. row.place = "FINISHED" /\ row.result = result
      <3> HIDE DEF result
      <3> QED BY <1>1 DEF Run
    <2> HIDE DEF row, result
    <2> QED BY <2>2, <2>3, <2>4 DEF Makes, RunKey, At
  <1>11. CASE Raises(w)
    <2>1. PICK f \in Failures :
             run' = [run EXCEPT ![w] = [@ EXCEPT !.place = "FINISHED",
                                                 !.key = 0, !.failure = f]]
      BY <1>11 DEF Raises
    <2>2. run'[w] = Raised(run[w], f)
      BY <1>1, <2>1 DEF Raised
    <2>3. run'[w].place = "FINISHED" /\ run'[w].failure # "NONE"
      BY <1>1, <2>2, RunRaises, ServiceAssumption
    <2> QED BY <2>3 DEF HasNone, HasResult, RunKey, At
  <1>12. CASE Fails(w)
    <2>1. held' = held
      BY <1>12 DEF Fails, CountsFailure, RecordAdapterFailure, vars
    <2>2. CASE run[w].failure = "RETRYABLE"
      BY <1>4, <1>12, <2>2 DEF Fails, Moves
    <2>3. CASE run[w].failure # "RETRYABLE"
      BY <1>6, <1>12, <2>1, <2>3 DEF Fails
    <2> QED BY <2>2, <2>3
  <1>13. CASE RetryRefused(w)
    <2>1. held' = held
      BY <1>13 DEF RetryRefused, vars
    <2>2. CASE Moves(w, "CANCELLING")
      BY <1>4, <2>2
    <2>3. CASE ~Moves(w, "CANCELLING")
      BY <1>6, <1>13, <2>1, <2>3 DEF RetryRefused
    <2> QED BY <2>2, <2>3
  <1>14. CASE Returns(w)
    <2>1. run[w].result \in Result
      BY <1>1, <1>14 DEF Returns, ResultReady, At, Run
    <2> DEFINE marked == [run[w].result EXCEPT !.clean = @ /\ ~CancelSeen(w)]
               row == [run[w] EXCEPT !.place = "REPORTING", !.result = marked]
    <2>2. marked.made = run[w].result.made
      BY <2>1 DEF Result
    <2>3. run'[w] = row /\ held' = held
      BY <1>1, <1>14 DEF Returns, Marked, vars
    <2>4. row.place = "REPORTING" /\ row.result = marked
      <3> HIDE DEF marked
      <3> QED BY <1>1 DEF Run
    <2>5. HasResult(w)
      BY <1>14 DEF Returns, HasResult
    <2> HIDE DEF row, marked
    <2> QED BY <2>2, <2>3, <2>4, <2>5 DEF Resumes, RunKey, At
  <1>15. CASE Reports(w)
    <2>1. /\ run'[w] = [run[w] EXCEPT !.place = "HANDING"]
          /\ held' = held
          /\ HasResult(w)
      BY <1>1, <1>15 DEF Reports, Moves, RecordAdapterSuccess, HasResult
    <2>2. run'[w].place = "HANDING" /\ run'[w].result = run[w].result
      BY <1>1, <2>1 DEF Run
    <2> QED BY <2>1, <2>2 DEF Resumes, RunKey, At
  <1>16. CASE RunEnds(w)
    <2>1. run' = [run EXCEPT ![w] = NoRun]
      BY <1>16 DEF RunEnds
    <2>2. NoRun \in Run /\ NoRun.place = "IDLE"
      BY DEF NoRun, Run, RunPlaces
    <2> QED BY <1>3, <2>1, <2>2
  <1> QED BY <1>7, <1>8, <1>9, <1>10, <1>11, <1>12, <1>13, <1>14, <1>15, <1>16
          DEF RunStep
\* Only an answer is stored, under the key its call worked with.
LEMMA StoreStep ==
    ASSUME Known, FreshInv, [ServiceNext]_service
    PROVE  StoredByClaim'
  <1>1. ASSUME NEW w \in Workers, Answered(w) PROVE StoredByClaim'
    <2>1. PICK a \in Answers :
             stored' = (stored \ Stored(w, run[w].key)) \cup
               {[ job |-> held[w].job, key |-> run[w].key,
                  result |-> [ overall |-> a.overall,
                               clean |-> a.clean /\ a.overall = "SUCCESS",
                               partial |-> "NONE", made |-> held[w].fence ] ]}
      BY <1>1 DEF Answered
    <2>2. run[w].key \in {0, held[w].fence}
      BY <1>1 DEF Answered, FreshInv, RunKey
    <2>3. StoredByClaim
      BY DEF FreshInv
    <2> QED BY <2>1, <2>2, <2>3 DEF StoredByClaim
  <1>2. CASE stored' = stored
    BY <1>2 DEF FreshInv, StoredByClaim
  <1>3. ASSUME NEW w \in Workers, RunStep(w) PROVE Answered(w) \/ stored' = stored
    BY <1>3 DEF RunStep, ClaimRun, PollNothing, StartRun, EndByCancel, Beats,
       BeatFails, LookUp, Raises, LeaseLost, Fails, Retries, RetryRefused,
       Returns, Reports, HandsOff, RunEnds, WatchAndRelaysKeep, threads
  <1>4. ASSUME NEW c \in Controllers,
               WatchLoop(c) \/ StopsService(c) \/ Restarts(c)
        PROVE  stored' = stored
    BY <1>4 DEF WatchLoop, StopsService, Restarts, ClaimLead, RenewLead,
       ReadPending, Decides, Asks, StopsWaiting, Reviews, Aborts, LosesLead,
       RunsAndRelaysKeep, threads
  <1>5. ASSUME \/ \E r \in Relays : RelayStep(r)
               \/ LapseClaim
               \/ Surroundings
               \/ UNCHANGED service
        PROVE  stored' = stored
    BY <1>5 DEF RelayStep, Polls, Posts, Abandons, LapseClaim, ThreadsKeep,
       Surroundings, threads, service
  <1> QED BY <1>1, <1>2, <1>3, <1>4, <1>5 DEF ServiceNext

\* Only a handoff adds a payload, with the fence of the claim that ends.
LEMMA PayloadWriters ==
    ASSUME Known, [ServiceNext]_service
    PROVE  \/ results' = results
           \/ \E w \in Workers : HandsOff(w)
  <1>1. ASSUME NEW w \in Workers, RunStep(w)
        PROVE  HandsOff(w) \/ results' = results
    BY <1>1 DEF RunStep, ClaimRun, PollNothing, StartRun, EndByCancel, Beats,
       BeatFails, LookUp, Answered, Raises, LeaseLost, Fails, Retries,
       RetryRefused, Returns, Reports, RunEnds, WatchAndRelaysKeep, threads
  <1>2. ASSUME NEW c \in Controllers,
               WatchLoop(c) \/ StopsService(c) \/ Restarts(c)
        PROVE  results' = results
    BY <1>2 DEF WatchLoop, StopsService, Restarts, ClaimLead, RenewLead,
       ReadPending, Decides, Asks, StopsWaiting, Reviews, Aborts, LosesLead,
       RunsAndRelaysKeep, threads
  <1>3. ASSUME \/ \E r \in Relays : RelayStep(r)
               \/ LapseClaim
               \/ Surroundings
               \/ UNCHANGED service
        PROVE  results' = results
    BY <1>3 DEF RelayStep, Polls, Posts, Abandons, LapseClaim, ThreadsKeep,
       Surroundings, threads, service
  <1> QED BY <1>1, <1>2, <1>3 DEF ServiceNext

\* What is known of the payload a handoff writes.
LEMMA HandoffWrites ==
    ASSUME Known, [ServiceNext]_service, NEW w \in Workers, HandsOff(w)
    PROVE  /\ held[w].job \in Jobs
           /\ held[w].fence = jobs[held[w].job].fence
           /\ jobs'[held[w].job].checkpoint_ref = held[w].fence
           /\ jobs'[held[w].job].fence = held[w].fence + 1
           /\ reviews' = reviews
           /\ HasResult(w) /\ HoldsFence(w)
           /\ results' = results \cup
                {[ job |-> held[w].job, fence |-> held[w].fence,
                   result |-> run[w].result ]}
  <1> DEFINE j == held[w].job
  <1>1. WorkerCurrent(w) /\ ReleaseForReview(w, run[w].result.partial)
    BY DEF HandsOff, ReleaseForReview
  <1>2. /\ j \in Jobs
        /\ held[w].fence = jobs[j].fence
    BY <1>1, CallerRuns DEF Known
  <1>3. jobs[j] \in JobRow /\ jobs \in [Jobs -> JobRow]
    BY <1>2 DEF Known, ClaimInv, TypeOK
  <1>4. PICK state \in FabricStates :
           jobs' = [jobs EXCEPT ![j] =
                      [Disowned(jobs[j]) EXCEPT !.fabric_state = state,
                                                !.checkpoint_ref = held[w].fence]]
    BY <1>1 DEF ReleaseForReview, FabricStates
  <1>5. jobs'[j] = [Disowned(jobs[j]) EXCEPT !.fabric_state = state,
                                             !.checkpoint_ref = held[w].fence]
    BY <1>2, <1>3, <1>4
  <1>6. /\ jobs'[j].checkpoint_ref = held[w].fence
        /\ jobs'[j].fence = held[w].fence + 1
    BY <1>2, <1>3, <1>5 DEF Disowned, JobRow
  <1>7. HasResult(w) /\ HoldsFence(w)
    BY <1>1, <1>2 DEF HandsOff, HasResult, HoldsFence, WorkerCurrent
  <1> QED BY <1>1, <1>2, <1>6, <1>7 DEF HandsOff, ReleaseForReview

LEMMA PayloadsStep ==
    ASSUME Known, FreshInv, [ServiceNext]_service
    PROVE  PayloadsAreBehind'
  <1>1. ASSUME NEW p \in results
        PROVE  /\ p.fence <= jobs'[p.job].checkpoint_ref
               /\ p.fence < jobs'[p.job].fence
    <2>1. p.job \in Jobs /\ p.fence \in Nat
      BY DEF Known, ServiceInv, ServiceTypeOK, Payload
    <2>2. /\ p.fence <= jobs[p.job].checkpoint_ref
          /\ p.fence < jobs[p.job].fence
      BY DEF FreshInv, PayloadsAreBehind
    <2> QED BY <2>1, <2>2, Kinds6, FencesAdvance
  <1>2. CASE results' = results
    BY <1>1, <1>2 DEF PayloadsAreBehind
  <1>3. ASSUME NEW w \in Workers, HandsOff(w) PROVE PayloadsAreBehind'
    <2> DEFINE q == [ job |-> held[w].job, fence |-> held[w].fence,
                      result |-> run[w].result ]
    <2>1. results' = results \cup {q}
      BY <1>3, HandoffWrites
    <2>2. /\ q.fence <= jobs'[q.job].checkpoint_ref
          /\ q.fence < jobs'[q.job].fence
      <3>1. held[w].fence \in Nat
        BY <1>3, HandoffWrites, RowTypes DEF Known, ClaimInv
      <3> QED BY <1>3, <3>1, HandoffWrites
    <2> HIDE DEF q
    <2> QED BY <1>1, <2>1, <2>2 DEF PayloadsAreBehind
  <1> QED BY <1>2, <1>3, PayloadWriters

\* A later handoff of a reviewed job brings a later result; and no review comes
\* to a payload that a later one follows.
LEMMA ReworkStep ==
    ASSUME Known, FreshInv, [ServiceNext]_service
    PROVE  ReworkIsFresh'
  <1>1. /\ ReworkIsFresh
        /\ PayloadsAreBehind
        /\ \A p \in results : p.job \in Jobs /\ p.fence \in Nat
    BY DEF FreshInv, Known, ServiceInv, ServiceTypeOK, Payload
  <1>2. ASSUME NEW p \in results, NEW q \in results, p.job = q.job,
               p.fence < q.fence,
               NEW r \in reviews', r.job = p.job, r.fence = p.fence
        PROVE  q.result.made > p.fence
    <2>1. CASE r \in reviews
      BY <1>1, <1>2, <2>1 DEF ReworkIsFresh
    <2>2. CASE r \notin reviews
      <3>1. r.fence = jobs[p.job].checkpoint_ref
        <4> DEFINE j == p.job
        <4>1. r \in ReviewsOf(j)' /\ r \notin ReviewsOf(j)
          BY <1>2, <2>2 DEF ReviewsOf
        <4> QED BY <1>1, <4>1, Kinds6, ReviewsOfCheckpoint
      <3>2. q.fence <= jobs[p.job].checkpoint_ref
        BY <1>1, <1>2 DEF PayloadsAreBehind
      <3>3. jobs[p.job].checkpoint_ref \in Nat
        BY <1>1, RowTypes DEF Known, ClaimInv
      <3> QED BY <1>1, <1>2, <3>1, <3>2, <3>3
    <2> QED BY <2>1, <2>2
  <1>3. CASE results' = results
    BY <1>2, <1>3 DEF ReworkIsFresh
  <1>4. ASSUME NEW w \in Workers, HandsOff(w) PROVE ReworkIsFresh'
    <2> DEFINE new == [ job |-> held[w].job, fence |-> held[w].fence,
                        result |-> run[w].result ]
               j == held[w].job
    <2>1. /\ results' = results \cup {new}
          /\ reviews' = reviews
          /\ j \in Jobs
          /\ held[w].fence = jobs[j].fence
      BY <1>4, HandoffWrites
    <2>2. held[w].fence \in Nat
      BY <2>1, RowTypes DEF Known, ClaimInv
    <2>3. \A p \in results : p.job = j => p.fence < held[w].fence
      BY <1>1, <2>1 DEF PayloadsAreBehind
    <2>4. ASSUME NEW r \in reviews, r.job = j
          PROVE  run[w].result.made = held[w].fence
      BY <1>4, <2>4, HandoffWrites DEF FreshInv, RunIsFresh, ReviewsOf
    <2>5. /\ new.job = j /\ new.fence = held[w].fence
          /\ new.result = run[w].result
      OBVIOUS
    <2> HIDE DEF new
    <2>6. ASSUME NEW p \in results', NEW q \in results', p.job = q.job,
                 p.fence < q.fence,
                 NEW r \in reviews', r.job = p.job, r.fence = p.fence
          PROVE  q.result.made > p.fence
      <3>1. CASE p \in results /\ q \in results
        BY <1>2, <2>6, <3>1
      <3>2. CASE p \in results /\ q = new
        <4>1. q.result.made = held[w].fence
          BY <2>1, <2>4, <2>5, <2>6, <3>2
        <4> QED BY <1>1, <2>2, <2>3, <2>5, <2>6, <3>2, <4>1
      <3>3. CASE p = new /\ q \in results
        BY <1>1, <2>2, <2>3, <2>5, <2>6, <3>3
      <3>4. CASE p = new /\ q = new
        BY <2>2, <2>5, <2>6, <3>4
      <3> QED BY <2>1, <3>1, <3>2, <3>3, <3>4
    <2> QED BY <2>6 DEF ReworkIsFresh
  <1> QED BY <1>3, <1>4, PayloadWriters

LEMMA FreshNext ==
    ASSUME Known, FreshInv, [ServiceNext]_service
    PROVE  FreshInv'
  <1>1. ASSUME NEW w \in Workers, run'[w] = run[w], held'[w] = held[w]
        PROVE  RunIsFresh(w)' /\ RunKey(w)'
    <2>1. Resumes(w)
      BY <1>1 DEF Resumes, HasResult, At
    <2>2. RunKey(w)'
      BY <1>1 DEF FreshInv, RunKey, At
    <2> QED BY <2>1, <2>2, FreshByKind
  <1>2. ASSUME NEW v \in Workers, RunStep(v), NEW w \in Workers
        PROVE  RunIsFresh(w)' /\ RunKey(w)'
    <2>1. CASE w = v
      BY <1>2, <2>1, RunFreshKinds, FreshByKind
    <2>2. CASE w # v
      <3>1. RunKept(v)
        BY <1>2, RunStepKeeps DEF Known
      <3>2. run'[w] = run[w] /\ held'[w] = held[w]
        BY <2>2, <3>1 DEF RunKept, Known, ServiceInv, ServiceTypeOK
      <3> QED BY <1>1, <3>2
    <2> QED BY <2>1, <2>2
  <1>3. ASSUME NEW c \in Controllers,
               WatchLoop(c) \/ StopsService(c) \/ Restarts(c)
        PROVE  UNCHANGED << run, held >>
    BY <1>3 DEF WatchLoop, StopsService, Restarts, ClaimLead, RenewLead,
       ReadPending, Decides, Asks, StopsWaiting, Reviews, Repeats, Aborts,
       LosesLead, RunsAndRelaysKeep, threads, vars, ClaimLeader,
       HeartbeatLeader, ReleaseLeader, ReviewHandoff
  <1>4. ASSUME \/ \E r \in Relays : RelayStep(r)
               \/ LapseClaim
               \/ UNCHANGED service
        PROVE  UNCHANGED << run, held >>
    BY <1>4 DEF RelayStep, Polls, Posts, Abandons, LapseClaim, ThreadsKeep,
       service, vars
  <1>5. ASSUME Surroundings PROVE UNCHANGED << run, held >>
    BY <1>5, SurroundingsKeep DEF threads
  <1>6. \A w \in Workers : RunIsFresh(w)' /\ RunKey(w)'
    BY <1>1, <1>2, <1>3, <1>4, <1>5 DEF ServiceNext
  <1> QED BY <1>6, StoreStep, PayloadsStep, ReworkStep DEF FreshInv
-----------------------------------------------------------------------------
(* Success is whole *)

\* What a step does to one WATCH thread: at most it drops rows or decides other
\* than ACCEPT; or it reads all that is pending; or it judges the next row.
KeepsRows(c) ==
    /\ room'[c].todo \subseteq room[c].todo
    /\ room'[c].place = "DECIDED" /\ room'[c].decision = "ACCEPT" =>
         room'[c] = room[c]

ReadsRows(c) ==
    /\ room'[c].todo = PendingReviews
    /\ room'[c].place # "DECIDED"

JudgesRow(c) ==
    /\ room'[c].todo = room[c].todo
    /\ \E x \in room[c].todo :
          IsNext(c, x) /\ room'[c].decision = Verdict(x)

LEMMA RoomKinds ==
    ASSUME Known, [ServiceNext]_service, NEW c \in Controllers
    PROVE  KeepsRows(c) \/ ReadsRows(c) \/ JudgesRow(c)
  <1> DEFINE Goal == KeepsRows(c) \/ ReadsRows(c) \/ JudgesRow(c)
  <1>1. room \in [Controllers -> Room] /\ room[c] \in Room
    BY DEF Known, ServiceInv, ServiceTypeOK
  <1>2. ASSUME room'[c] = room[c] PROVE Goal
    BY <1>2 DEF KeepsRows
  <1>3. ASSUME NEW place \in {"WAITING", "DECIDED"},
               NEW decision \in Decisions \cup {"NONE"},
               room' = [room EXCEPT ![c] =
                          [room[c] EXCEPT !.place = place,
                                          !.decision = decision]]
        PROVE  /\ room'[c].place = place
               /\ room'[c].decision = decision
               /\ room'[c].todo = room[c].todo
    BY <1>1, <1>3 DEF Room
  <1>4. ASSUME NEW row, room' = [room EXCEPT ![c] = row] PROVE room'[c] = row
    BY <1>1, <1>4
  <1>5. ASSUME WatchLoop(c) \/ StopsService(c) \/ Restarts(c) PROVE Goal
    <2>1. CASE ClaimLead(c) \/ Aborts(c) \/ LosesLead(c) \/ Restarts(c)
      <3>1. PICK row \in {NoRoom, [NoRoom EXCEPT !.place = "LEADING"]} :
               room' = [room EXCEPT ![c] = row]
        BY <2>1 DEF ClaimLead, Aborts, LosesLead, Restarts
      <3>2. row.todo = {} /\ row.place # "DECIDED"
        BY DEF NoRoom
      <3> QED BY <1>4, <3>1, <3>2 DEF KeepsRows
    <2>2. CASE RenewLead(c) \/ StopsService(c)
      BY <1>2, <2>2 DEF RenewLead, StopsService, threads
    <2>3. CASE ReadPending(c)
      <3> DEFINE row == [ place |-> "REVIEWING", todo |-> PendingReviews,
                          decision |-> "NONE" ]
      <3>1. row.todo = PendingReviews /\ row.place # "DECIDED"
        OBVIOUS
      <3>2. room'[c] = row
        BY <1>1, <2>3 DEF ReadPending
      <3> HIDE DEF row
      <3> QED BY <3>1, <3>2 DEF ReadsRows
    <2>4. CASE Decides(c)
      <3>1. PICK x \in room[c].todo :
               /\ IsNext(c, x)
               /\ room' = [room EXCEPT ![c] = [@ EXCEPT !.place = "DECIDED",
                                                        !.decision = Verdict(x)]]
        BY <2>4 DEF Decides
      <3>2. Verdict(x) \in Decisions
        BY DEF Verdict, Decisions
      <3> QED BY <1>3, <3>1, <3>2 DEF JudgesRow
    <2>5. ASSUME room' = [room EXCEPT ![c] = [@ EXCEPT !.place = "DECIDED",
                                                       !.decision = "REWORK"]]
          PROVE  Goal
      BY <1>3, <2>5 DEF KeepsRows, Decisions
    <2>6. CASE StopsWaiting(c)
      BY <2>5, <2>6 DEF StopsWaiting
    <2>7. CASE Asks(c)
      <3>1. CASE room' = [room EXCEPT ![c].place = "WAITING"]
        <4>1. room'[c] = [room[c] EXCEPT !.place = "WAITING"]
          BY <1>1, <3>1
        <4>2. room'[c].place = "WAITING" /\ room'[c].todo = room[c].todo
          BY <1>1, <4>1 DEF Room
        <4> QED BY <4>2 DEF KeepsRows
      <3> QED BY <2>5, <2>7, <3>1 DEF Asks
    <2>8. CASE Reviews(c)
      <3>1. PICK x \in room[c].todo : room' = [room EXCEPT ![c] = Advanced(@, x)]
        BY <2>8 DEF Reviews
      <3>2. room'[c] = Advanced(room[c], x)
        BY <1>1, <3>1
      <3>3. room'[c].todo \subseteq room[c].todo /\ room'[c].place # "DECIDED"
        BY <3>2 DEF Advanced
      <3> QED BY <3>3 DEF KeepsRows
    <2> QED BY <1>5, <2>1, <2>2, <2>3, <2>4, <2>6, <2>7, <2>8 DEF WatchLoop
  <1>6. ASSUME NEW d \in Controllers, d # c,
               WatchLoop(d) \/ StopsService(d) \/ Restarts(d)
        PROVE  room'[c] = room[c]
    <2>1. \/ room' = room
          \/ \E row : room' = [room EXCEPT ![d] = row]
      <3>1. CASE Asks(d)
        <4>1. CASE room' = [room EXCEPT ![d].place = "WAITING"]
          BY <4>1
        <4> QED BY <3>1, <4>1 DEF Asks
      <3> QED BY <1>6, <3>1 DEF WatchLoop, StopsService, Restarts, ClaimLead,
                RenewLead, ReadPending, Decides, StopsWaiting, Reviews, Aborts,
                LosesLead, threads
    <2> QED BY <1>1, <1>6, <2>1
  <1>7. ASSUME NEW w \in Workers, RunStep(w) PROVE room' = room
    BY <1>7, RunStepKeeps DEF Known, RunKept
  <1>8. ASSUME \/ \E r \in Relays : RelayStep(r)
               \/ LapseClaim
               \/ Surroundings
               \/ UNCHANGED service
        PROVE  room' = room
    BY <1>8 DEF RelayStep, Polls, Posts, Abandons, LapseClaim, ThreadsKeep,
       Surroundings, threads, service
  <1> QED BY <1>2, <1>5, <1>6, <1>7, <1>8 DEF ServiceNext

\* One row has the turn: ranks differ between jobs, fences between the handoffs
\* of a job.
LEMMA OneIsNext ==
    ASSUME Known, NEW c \in Controllers, RowsShowPayloads(c),
           NEW x, NEW y, IsNext(c, x), IsNext(c, y)
    PROVE  x = y
  <1>1. /\ x \in room[c].todo /\ y \in room[c].todo
        /\ ~Precedes(x.handoff, y.handoff) /\ ~Precedes(y.handoff, x.handoff)
    BY DEF IsNext
  <1>2. x.handoff \in handoffs /\ y.handoff \in handoffs
    BY <1>1 DEF Known, ServiceInv, DecisionReady
  <1>3. /\ x.handoff.job \in Jobs /\ y.handoff.job \in Jobs
        /\ x.handoff.fence \in Nat /\ y.handoff.fence \in Nat
    BY <1>2 DEF Known, ClaimInv, TypeOK, Handoff
  <1>4. x.handoff.job = y.handoff.job
    BY <1>1, <1>3, EnvelopeAssumption DEF Precedes, EnvelopeType
  <1>5. x.handoff.fence = y.handoff.fence
    BY <1>1, <1>3, <1>4 DEF Precedes
  <1>6. x.handoff = y.handoff
    BY <1>2, <1>3, <1>4, <1>5
    DEF Known, LifecycleInv, JobInv, LedgerIsBehind, HandoffsOf
  <1> QED BY <1>1, <1>6 DEF RowsShowPayloads

LEMMA RowsStep ==
    ASSUME Known, SuccessInv, [ServiceNext]_service, NEW c \in Controllers
    PROVE  RowsShowPayloads(c)' /\ AcceptIsVerdict(c)'
  <1>1. RowsShowPayloads(c) /\ AcceptIsVerdict(c)
    BY DEF SuccessInv
  <1>2. results \subseteq results'
    BY PayloadWriters DEF HandsOff
  <1>3. CASE KeepsRows(c)
    <2>1. RowsShowPayloads(c)'
      BY <1>1, <1>2, <1>3 DEF KeepsRows, RowsShowPayloads
    <2>2. AcceptIsVerdict(c)'
      BY <1>1, <1>3 DEF KeepsRows, AcceptIsVerdict, IsNext, In
    <2> QED BY <2>1, <2>2
  <1>4. CASE ReadsRows(c)
    <2>1. ASSUME NEW x \in room'[c].todo
          PROVE  \E p \in results' : /\ p.job = x.handoff.job
                                     /\ p.fence = x.handoff.fence
                                     /\ p.result = x.result
      <3>1. PICK h \in handoffs :
               x = [ handoff |-> h, result |-> ResultOf(h),
                     reworks |-> jobs[h.job].reworks ]
        BY <1>4 DEF ReadsRows, PendingReviews
      <3>2. \E p \in results : p.job = h.job /\ p.fence = h.fence
        BY DEF Known, ServiceInv, HandoffsHaveResults
      <3>3. PICK p \in results : /\ p.job = h.job /\ p.fence = h.fence
                                 /\ p.result = ResultOf(h)
        BY <3>2 DEF ResultOf
      <3> QED BY <1>2, <3>1, <3>3
    <2>2. ASSUME NEW x \in room'[c].todo, NEW y \in room'[c].todo,
                 x.handoff = y.handoff
          PROVE  x = y
      BY <1>4, <2>2 DEF ReadsRows, PendingReviews
    <2>3. RowsShowPayloads(c)'
      BY <2>1, <2>2 DEF RowsShowPayloads
    <2> QED BY <1>4, <2>3 DEF ReadsRows, AcceptIsVerdict, In
  <1>5. CASE JudgesRow(c)
    <2>1. RowsShowPayloads(c)'
      BY <1>1, <1>2, <1>5 DEF JudgesRow, RowsShowPayloads
    <2>2. PICK x \in room[c].todo :
             IsNext(c, x) /\ room'[c].decision = Verdict(x)
      BY <1>5 DEF JudgesRow
    <2>3. ASSUME NEW y \in room'[c].todo, IsNext(c, y)' PROVE y = x
      <3>1. IsNext(c, y)
        BY <1>5, <2>3 DEF JudgesRow, IsNext
      <3> QED BY <1>1, <2>2, <3>1, OneIsNext
    <2> QED BY <2>1, <2>2, <2>3 DEF AcceptIsVerdict
  <1> QED BY <1>3, <1>4, <1>5, RoomKinds

\* Without a review no job becomes SUCCEEDED, and one that is keeps its
\* checkpoint.
LEMMA SuccessNeedsReview ==
    ASSUME NEW j \in Jobs, RowKind(j), reviews' = reviews,
           jobs'[j].fabric_state = "SUCCEEDED"
    PROVE  /\ jobs[j].fabric_state = "SUCCEEDED"
           /\ jobs'[j].checkpoint_ref = jobs[j].checkpoint_ref
  <1>1. CASE IsReviewed(j)
    BY <1>1 DEF IsReviewed, ReviewsOf
  <1>2. CASE Rests(j)
    BY <1>2 DEF Rests, KeepsRound
  <1>3. CASE IsDirected(j) \/ IsClaimed(j) \/ IsReleased(j) \/ IsEnded(j)
    BY <1>3 DEF IsDirected, IsClaimed, IsReleased, IsEnded
  <1> QED BY <1>1, <1>2, <1>3 DEF RowKind

\* In the service only a WATCH thread that comes to its next row reviews.
LEMMA ReviewWriters ==
    ASSUME Known, [ServiceNext]_service
    PROVE  \/ reviews' = reviews
           \/ \E c \in Controllers : \E x \in room[c].todo :
                 /\ In(c, "DECIDED")
                 /\ IsNext(c, x)
                 /\ ReviewHandoff(c, x.handoff, room[c].decision, FALSE)
  <1>1. ASSUME NEW c \in Controllers, Reviews(c)
        PROVE  \/ reviews' = reviews
               \/ \E x \in room[c].todo :
                     /\ In(c, "DECIDED")
                     /\ IsNext(c, x)
                     /\ ReviewHandoff(c, x.handoff, room[c].decision, FALSE)
    BY <1>1 DEF Reviews, vars
  <1>2. ASSUME NEW c \in Controllers,
               \/ ClaimLead(c) \/ RenewLead(c) \/ ReadPending(c) \/ Decides(c)
               \/ Asks(c) \/ StopsWaiting(c) \/ Aborts(c) \/ LosesLead(c)
               \/ StopsService(c) \/ Restarts(c)
        PROVE  reviews' = reviews
    BY <1>2 DEF ClaimLead, RenewLead, ReadPending, Decides, Asks, StopsWaiting,
       Aborts, LosesLead, StopsService, Restarts, ClaimLeader, HeartbeatLeader,
       ReleaseLeader, vars
  <1>3. ASSUME NEW w \in Workers, RunStep(w) PROVE reviews' = reviews
    <2>1. WorkerStep(w) \/ UNCHANGED vars
      BY <1>3, RunStepMaps DEF Known
    <2> QED BY <2>1 DEF vars, WorkerStep, ClaimNext, ClaimJob, ClaimNothing,
            Heartbeat, ReleaseForReview, AcknowledgeCancel, SafeRetry,
            QuarantineCurrent, DropToken, RecordAdapterFailure,
            RecordAdapterSuccess, PrepareOperation, TransitionOperation
  <1>4. ASSUME Surroundings PROVE reviews' = reviews
    BY <1>4 DEF Surroundings, OwnerStep, Submit, ApproveJob, RevokeJob,
       RequestCancel, SetSharedStateVersion, ReconcileExpiredLeases, ClockStep,
       LapseLease, LapseLeader, RetryDelayElapses, ApprovalExpires,
       DeadlinePasses, CooldownElapses
  <1>5. ASSUME \/ \E r \in Relays : RelayStep(r)
               \/ LapseClaim
               \/ UNCHANGED service
        PROVE  reviews' = reviews
    BY <1>5 DEF RelayStep, Polls, Posts, Abandons, LapseClaim, ThreadsKeep,
       service, vars
  <1> QED BY <1>1, <1>2, <1>3, <1>4, <1>5 DEF ServiceNext, WatchLoop
LEMMA WholeStep ==
    ASSUME Known, SuccessInv, [ServiceNext]_service
    PROVE  AcceptedIsWholeSuccess'
  <1> SUFFICES ASSUME NEW j \in Jobs, jobs'[j].fabric_state = "SUCCEEDED"
               PROVE  \E p \in results' :
                         /\ p.job = j
                         /\ p.fence = jobs'[j].checkpoint_ref
                         /\ p.result.overall = "SUCCESS"
                         /\ p.result.clean
                         /\ p.result.partial = "NONE"
    BY DEF AcceptedIsWholeSuccess
  <1>1. results \subseteq results'
    BY PayloadWriters DEF HandsOff
  <1>2. RowKind(j) /\ TypeOK
    BY Kinds6
  <1>3. ASSUME jobs[j].fabric_state = "SUCCEEDED",
               jobs'[j].checkpoint_ref = jobs[j].checkpoint_ref
        PROVE  \E p \in results' :
                  /\ p.job = j
                  /\ p.fence = jobs'[j].checkpoint_ref
                  /\ p.result.overall = "SUCCESS"
                  /\ p.result.clean
                  /\ p.result.partial = "NONE"
    BY <1>1, <1>3 DEF SuccessInv, AcceptedIsWholeSuccess
  <1>4. CASE reviews' = reviews
    BY <1>2, <1>3, <1>4, SuccessNeedsReview
  <1>5. ASSUME NEW c \in Controllers, NEW x \in room[c].todo,
               In(c, "DECIDED"), IsNext(c, x),
               ReviewHandoff(c, x.handoff, room[c].decision, FALSE)
        PROVE  \E p \in results' :
                  /\ p.job = j
                  /\ p.fence = jobs'[j].checkpoint_ref
                  /\ p.result.overall = "SUCCESS"
                  /\ p.result.clean
                  /\ p.result.partial = "NONE"
    <2> DEFINE h == x.handoff
               d == room[c].decision
    <2>1. h \in handoffs /\ d \in Decisions
      BY <1>5 DEF Known, ServiceInv, DecisionReady
    <2>2. h.job \in Jobs /\ jobs[h.job] \in JobRow /\ DOMAIN jobs = Jobs
      BY <1>2, <2>1 DEF TypeOK, Handoff
    <2>3. jobs' = [jobs EXCEPT ![h.job] =
                     IF d = "REWORK" THEN Reworked(jobs[h.job])
                     ELSE [jobs[h.job] EXCEPT
                             !.fabric_state = ReviewTarget(h.job, d)]]
      BY <1>5 DEF ReviewHandoff
    <2>4. CASE h.job # j
      <3>1. jobs'[j] = jobs[j]
        BY <2>3, <2>4
      <3> QED BY <1>3, <3>1
    <2>5. CASE h.job = j
      <3>1. d = "ACCEPT"
        <4>1. CASE d = "REWORK"
          <5>1. jobs'[j] = Reworked(jobs[j])
            BY <2>2, <2>3, <2>5, <4>1
          <5> QED BY <2>2, <2>5, <5>1 DEF Reworked, JobRow
        <4>2. CASE d \in {"BLOCK", "ESCALATE"}
          <5>1. ReviewTarget(j, d) # "SUCCEEDED"
            BY <4>2 DEF ReviewTarget
          <5>2. jobs'[j] = [jobs[j] EXCEPT !.fabric_state = ReviewTarget(j, d)]
            BY <2>2, <2>3, <2>5, <4>2
          <5> HIDE DEF d
          <5> QED BY <2>2, <2>5, <5>1, <5>2 DEF JobRow
        <4> QED BY <2>1, <4>1, <4>2 DEF Decisions
      <3>2. jobs'[j].checkpoint_ref = h.fence
        <4>1. jobs[j].checkpoint_ref = h.fence
          BY <1>5, <2>5 DEF ReviewHandoff, Reviewable
        <4>2. jobs'[j] = [jobs[j] EXCEPT !.fabric_state = ReviewTarget(j, d)]
          BY <2>2, <2>3, <2>5, <3>1
        <4> HIDE DEF d
        <4> QED BY <2>2, <2>5, <4>1, <4>2 DEF JobRow
      <3>3. Verdict(x) = "ACCEPT"
        BY <1>5, <3>1 DEF SuccessInv, AcceptIsVerdict
      <3>4. PICK p \in results : /\ p.job = h.job
                                 /\ p.fence = h.fence
                                 /\ p.result = x.result
        BY DEF SuccessInv, RowsShowPayloads
      <3>5. p.result.partial \in {"NONE", "UNCERTAIN_PARTIAL"}
        BY DEF Known, ServiceInv, ServiceTypeOK, Payload, Result
      <3>6. /\ x.result.overall = "SUCCESS" /\ x.result.clean
            /\ x.result.partial # "UNCERTAIN_PARTIAL"
        BY <3>3 DEF Verdict
      <3> QED BY <1>1, <2>5, <3>2, <3>4, <3>5, <3>6
    <2> QED BY <2>4, <2>5
  <1> QED BY <1>4, <1>5, ReviewWriters

LEMMA SuccessNext ==
    ASSUME Known, SuccessInv, [ServiceNext]_service
    PROVE  SuccessInv'
  BY RowsStep, WholeStep DEF SuccessInv

LEMMA ResultsInit == ServiceInit => FreshInv /\ SuccessInv
  <1> SUFFICES ASSUME ServiceInit PROVE FreshInv /\ SuccessInv
    OBVIOUS
  <1>1. FreshInv
    BY DEF ServiceInit, FreshInv, RunIsFresh, HasResult, RunKey, At, NoRun,
           StoredByClaim, PayloadsAreBehind, ReworkIsFresh
  <1>2. SuccessInv
    BY DEF ServiceInit, Init, NewJob, SuccessInv, RowsShowPayloads,
           AcceptIsVerdict, In, NoRoom, AcceptedIsWholeSuccess
  <1> QED BY <1>1, <1>2

LEMMA KnownHolds == ServiceSpec => []Known
  <1>1. ServiceInv /\ ClaimInv /\ LifecycleInv => Known
    BY DEF Known
  <1> QED BY <1>1, ServiceHolds, ServiceImplements, LifecycleHolds, PTL
          DEF ImplementsFiveSeat

LEMMA ResultsHold == ServiceSpec => [](FreshInv /\ SuccessInv)
  <1>1. Known /\ FreshInv /\ SuccessInv /\ [ServiceNext]_service
          => (FreshInv /\ SuccessInv)'
    BY FreshNext, SuccessNext
  <1> QED BY <1>1, ResultsInit, KnownHolds, PTL DEF ServiceSpec

-----------------------------------------------------------------------------
(* The theorems *)

\* After a review of a job, every later handoff of it carries the work of a
\* later claim: what the registry has stored is never handed on as rework.
THEOREM ReworkIsNew == ServiceSpec => []ReworkIsFresh
  <1>1. FreshInv => ReworkIsFresh
    BY DEF FreshInv
  <1> QED BY <1>1, ResultsHold, PTL

\* What a WATCH thread accepted from a row it read earlier is the payload of
\* the handoff its review is about: a whole, clean, settled success.
THEOREM OnlyWholeSuccess == ServiceSpec => []AcceptedIsWholeSuccess
  <1>1. SuccessInv => AcceptedIsWholeSuccess
    BY DEF SuccessInv
  <1> QED BY <1>1, ResultsHold, PTL

\* Polls, posts, lapsed leases and repeated requests leave an answer as it is.
THEOREM AnswersAreFinal == ServiceSpec => AnswersStand
  <1> DEFINE Stands == \A q \in requests : q.status = "COMPLETE" =>
                                              q \in requests'
  <1>1. ASSUME [ServiceNext]_service PROVE Stands
    <2>1. CASE requests' = requests
      BY <2>1
    <2>2. ASSUME NEW c \in Controllers, Asks(c) PROVE Stands
      BY <2>2 DEF Asks
    <2>3. ASSUME NEW q \in requests, q.status # "COMPLETE",
                 NEW r, Replaced(q, r)
          PROVE  Stands
      BY <2>3 DEF Replaced
    <2>4. ASSUME NEW r \in Relays, RelayStep(r) PROVE Stands
      <3>1. CASE Polls(r)
        BY <2>3, <3>1 DEF Polls, Claimable
      <3>2. CASE Posts(r)
        <4>1. PICK q \in requests, answer \in {"GOOD", "POOR"} :
                 IF q.status = "COMPLETE" THEN UNCHANGED requests
                 ELSE Replaced(q, [q EXCEPT !.status = "COMPLETE",
                                            !.answer = answer])
          BY <3>2 DEF Posts
        <4> QED BY <2>1, <2>3, <4>1
      <3>3. CASE Abandons(r)
        BY <2>1, <3>3 DEF Abandons
      <3> QED BY <2>4, <3>1, <3>2, <3>3 DEF RelayStep
    <2>5. CASE LapseClaim
      BY <2>3, <2>5 DEF LapseClaim
    <2>6. ASSUME NEW w \in Workers, RunStep(w) PROVE requests' = requests
      BY <2>6 DEF RunStep, ClaimRun, PollNothing, StartRun, EndByCancel, Beats,
         BeatFails, LookUp, Answered, Raises, LeaseLost, Fails, Retries,
         RetryRefused, Returns, Reports, HandsOff, RunEnds,
         WatchAndRelaysKeep, threads
    <2>7. ASSUME NEW c \in Controllers,
                 WatchLoop(c) \/ StopsService(c) \/ Restarts(c)
          PROVE  Asks(c) \/ requests' = requests
      BY <2>7 DEF WatchLoop, StopsService, Restarts, ClaimLead, RenewLead,
         ReadPending, Decides, StopsWaiting, Reviews, Aborts, LosesLead,
         RunsAndRelaysKeep, threads
    <2>8. CASE Surroundings \/ UNCHANGED service
      BY <2>1, <2>8 DEF Surroundings, threads, service
    <2> QED BY <1>1, <2>1, <2>2, <2>4, <2>5, <2>6, <2>7, <2>8 DEF ServiceNext
  <1> QED BY <1>1, PTL DEF ServiceSpec, AnswersStand

\* The service inherits the life of a job: its rows are a ledger, what waits
\* for WATCH can be reviewed, a success was accepted by another than its worker
\* and left nothing in flight, and a recorded cancel is not overtaken.
THEOREM ServiceKeepsItsBooks ==
    ServiceSpec => /\ ImplementsJobLedger
                   /\ [](/\ PendingIsReviewable
                         /\ SucceededWasAccepted
                         /\ SucceededIsSettled
                         /\ CancelIsFinal)
  BY ServiceImplements, JobsKeepLedgers, PendingReviewable, SuccessIsAccepted,
     SuccessIsSettled, CancelPrevails, PTL DEF ImplementsFiveSeat
=============================================================================
