------------------------ MODULE FabricService_proofs ------------------------
(***************************************************************************)
(* What holds of the service for every set of threads, relays, envelopes   *)
(* and bounds: the shape of the threads' state, that the service is one of *)
(* the clients FiveSeat allows, and what it inherits from FiveSeat.        *)
(***************************************************************************)
EXTENDS FabricService, FiveSeat_proofs

-----------------------------------------------------------------------------
(* What a thread may hold when it calls the tables *)

\* A worker past the provider call has a result,
ResultReady(w) ==
    \/ At(w, "REPORTING")
    \/ At(w, "HANDING")
    \/ At(w, "FINISHED") /\ run[w].failure = "NONE"
    => run[w].result # NoResult

\* and a WATCH thread that has decided, a decision on a handoff in the table.
DecisionReady(c) ==
    /\ In(c, "DECIDED") => room[c].decision \in Decisions
    /\ \A x \in room[c].todo : x.handoff \in handoffs

\* The payload is inserted with its handoff.
HandoffsHaveResults ==
    \A h \in handoffs : \E p \in results : p.job = h.job /\ p.fence = h.fence

ServiceInv ==
    /\ TypeOK
    /\ ServiceTypeOK
    /\ \A w \in Workers : ResultReady(w)
    /\ \A c \in Controllers : DecisionReady(c)
    /\ HandoffsHaveResults

LEMMA ServiceStarts == ServiceInit => ServiceInv
  <1> SUFFICES ASSUME ServiceInit PROVE ServiceInv
    OBVIOUS
  <1>1. TypeOK
    BY TypeInit DEF ServiceInit
  <1>2. NoRun \in Run /\ NoRoom \in Room
    BY DEF NoRun, Run, RunPlaces, NoRoom, Room, RoomPlaces
  <1>3. \A w \in Workers : ~Holds(w)
    BY DEF ServiceInit, Init, Holds
  <1>4. ServiceTypeOK
    BY <1>2, <1>3 DEF ServiceInit, ServiceTypeOK, At, NoRun
  <1>5. HandoffsHaveResults
    BY DEF ServiceInit, Init, HandoffsHaveResults
  <1> QED
    BY <1>1, <1>4, <1>5
    DEF ServiceInv, ResultReady, DecisionReady, ServiceInit, At, In, NoRun, NoRoom

-----------------------------------------------------------------------------
(* The service implements FiveSeat *)

\* Whatever a worker thread does is a step of a FiveSeat worker, or no step.
LEMMA RunStepMaps ==
    ASSUME ServiceInv, NEW w \in Workers, RunStep(w)
    PROVE  WorkerStep(w) \/ UNCHANGED vars
  <1>1. ASSUME ClaimRun(w) PROVE WorkerStep(w)
    BY <1>1 DEF ClaimRun, WorkerStep, ClaimNext
  <1>2. ASSUME PollNothing(w) PROVE WorkerStep(w)
    BY <1>2 DEF PollNothing, WorkerStep, ClaimNext
  <1>3. ASSUME HandsOff(w) PROVE WorkerStep(w)
    <2>1. run[w] \in Run /\ run[w].result # NoResult
      BY <1>3 DEF HandsOff, ServiceInv, ServiceTypeOK, ResultReady
    <2>2. run[w].result \in Result
      BY <2>1 DEF Run
    <2>3. run[w].result.partial \in {"NONE", "UNCERTAIN_PARTIAL"}
      BY <2>2 DEF Result
    <2> QED
      BY <1>3, <2>3 DEF HandsOff, WorkerStep
  <1>4. ASSUME Fails(w) PROVE WorkerStep(w) \/ UNCHANGED vars
    BY <1>4 DEF Fails, CountsFailure, WorkerStep
  <1>5. ASSUME EndByCancel(w) \/ Beats(w) \/ Retries(w) \/ Reports(w) \/ RunEnds(w)
        PROVE  WorkerStep(w)
    BY <1>5 DEF EndByCancel, Beats, Retries, Reports, RunEnds, WorkerStep
  <1>6. ASSUME \/ StartRun(w) \/ BeatFails(w) \/ LookUp(w) \/ Answered(w)
               \/ Raises(w) \/ LeaseLost(w) \/ RetryRefused(w) \/ Returns(w)
        PROVE  UNCHANGED vars
    BY <1>6 DEF StartRun, BeatFails, LookUp, Answered, Raises, LeaseLost,
                RetryRefused, Returns
  <1> QED
    BY <1>1, <1>2, <1>3, <1>4, <1>5, <1>6 DEF RunStep

\* So is whatever a WATCH thread does.
LEMMA WatchLoopMaps ==
    ASSUME ServiceInv, NEW c \in Controllers,
           WatchLoop(c) \/ StopsService(c) \/ Restarts(c)
    PROVE  WatchStep(c) \/ UNCHANGED vars
  <1>1. ASSUME Reviews(c) PROVE WatchStep(c) \/ UNCHANGED vars
    <2>1. PICK x \in room[c].todo :
             \/ ReviewHandoff(c, x.handoff, room[c].decision, FALSE)
             \/ Repeats(c, x.handoff, room[c].decision) /\ UNCHANGED vars
      BY <1>1 DEF Reviews
    <2>2. x.handoff \in handoffs /\ room[c].decision \in Decisions
      BY <1>1 DEF Reviews, ServiceInv, DecisionReady
    <2> QED
      BY <2>1, <2>2 DEF WatchStep
  <1>2. ASSUME ClaimLead(c) \/ RenewLead(c) \/ StopsService(c)
        PROVE  WatchStep(c)
    BY <1>2 DEF ClaimLead, RenewLead, StopsService, WatchStep
  <1>3. ASSUME \/ ReadPending(c) \/ Decides(c) \/ Asks(c) \/ StopsWaiting(c)
               \/ Aborts(c) \/ LosesLead(c) \/ Restarts(c)
        PROVE  UNCHANGED vars
    BY <1>3 DEF ReadPending, Decides, Asks, StopsWaiting, Aborts, LosesLead,
                Restarts
  <1> QED
    BY <1>1, <1>2, <1>3 DEF WatchLoop

LEMMA ServiceStepMaps ==
    ASSUME ServiceInv, [ServiceNext]_service PROVE [Next]_vars
  <1>1. ASSUME NEW w \in Workers, RunStep(w) PROVE [Next]_vars
    BY <1>1, RunStepMaps DEF Next
  <1>2. ASSUME NEW c \in Controllers,
               WatchLoop(c) \/ StopsService(c) \/ Restarts(c)
        PROVE  [Next]_vars
    BY <1>2, WatchLoopMaps DEF Next
  <1>3. ASSUME NEW r \in Relays, RelayStep(r) PROVE UNCHANGED vars
    BY <1>3 DEF RelayStep, Polls, Posts, Abandons, ThreadsKeep
  <1>4. ASSUME LapseClaim PROVE UNCHANGED vars
    BY <1>4 DEF LapseClaim, ThreadsKeep
  <1>5. ASSUME Surroundings PROVE [Next]_vars
    BY <1>5 DEF Surroundings, Next
  <1>6. ASSUME UNCHANGED service PROVE UNCHANGED vars
    BY <1>6 DEF service, vars
  <1> QED
    BY <1>1, <1>2, <1>3, <1>4, <1>5, <1>6 DEF ServiceNext

-----------------------------------------------------------------------------
(* The threads keep their shapes *)

\* The fields of a run that statements write.
LEMMA RunMoved ==
    ASSUME NEW row \in Run, NEW place \in RunPlaces
    PROVE  /\ [row EXCEPT !.place = place] \in Run
           /\ [row EXCEPT !.place = place].place = place
           /\ [row EXCEPT !.place = place].result = row.result
  BY DEF Run

LEMMA RunCalls ==
    ASSUME NEW row \in Run, NEW place \in RunPlaces, NEW key \in Nat
    PROVE  /\ [row EXCEPT !.place = place, !.key = key] \in Run
           /\ [row EXCEPT !.place = place, !.key = key].place = place
  BY DEF Run

LEMMA RunWrites ==
    ASSUME NEW row \in Run, NEW place \in RunPlaces, NEW result \in Result
    PROVE  /\ [row EXCEPT !.place = place, !.result = result] \in Run
           /\ [row EXCEPT !.place = place, !.result = result].place = place
           /\ [row EXCEPT !.place = place, !.result = result].result = result
  BY DEF Run

Returned(row, result) ==
    [row EXCEPT !.place = "FINISHED", !.key = 0, !.result = result]

LEMMA RunReturns ==
    ASSUME NEW row \in Run, NEW result \in Result
    PROVE  /\ Returned(row, result) \in Run
           /\ Returned(row, result).place = "FINISHED"
           /\ Returned(row, result).result = result
  BY DEF Run, RunPlaces, Returned

Raised(row, f) == [row EXCEPT !.place = "FINISHED", !.key = 0, !.failure = f]

LEMMA RunRaises ==
    ASSUME NEW row \in Run, NEW f \in Failures
    PROVE  /\ Raised(row, f) \in Run
           /\ Raised(row, f).place = "FINISHED"
           /\ Raised(row, f).failure = f
  BY DEF Run, RunPlaces, Raised

\* What a step of worker thread w leaves of ServiceInv: its own row is in
\* shape, and the registry, the payloads and the tokens follow it.
RunKept(w) ==
    /\ run'[w] \in Run
    /\ run' = [run EXCEPT ![w] = run'[w]]
    /\ beat' \in [Workers -> {"OFF", "ON", "LOST"}]
    /\ stored' \subseteq Replay
    /\ results \subseteq results'
    /\ results' \subseteq Payload
    /\ handoffs \subseteq handoffs'
    /\ \A h \in handoffs' \ handoffs :
          \E p \in results' : p.job = h.job /\ p.fence = h.fence
    /\ \A v \in Workers \ {w} : held'[v] = held[v]
    /\ run'[w].place = "IDLE" <=> held'[w] = NoToken
    /\ \/ run'[w].place \in {"REPORTING", "HANDING"}
       \/ run'[w].place = "FINISHED" /\ run'[w].failure = "NONE"
       => run'[w].result # NoResult
    /\ UNCHANGED << room, requests, errand >>

\* A step that moves the thread and keeps its token and all tables but the
\* registry.
LEMMA MovesKeep ==
    ASSUME ServiceInv, NEW w \in Workers, NEW row \in Run,
           run[w].place # "IDLE", row.place # "IDLE",
           run' = [run EXCEPT ![w] = row],
           beat' \in [Workers -> {"OFF", "ON", "LOST"}],
           stored' \subseteq Replay,
           UNCHANGED << results, held, handoffs, room, requests, errand >>,
           \/ row.place \in {"REPORTING", "HANDING"}
           \/ row.place = "FINISHED" /\ row.failure = "NONE"
           => row.result # NoResult
    PROVE  RunKept(w)
  <1>1. run'[w] = row
    BY DEF ServiceInv, ServiceTypeOK
  <1>2. held[w] # NoToken
    BY DEF ServiceInv, ServiceTypeOK, At, Holds
  <1>3. results \subseteq Payload
    BY DEF ServiceInv, ServiceTypeOK
  <1> QED
    BY <1>1, <1>2, <1>3 DEF RunKept

LEMMA RunStepKeeps ==
    ASSUME ServiceInv, NEW w \in Workers, RunStep(w)
    PROVE  RunKept(w)
  <1> DEFINE Shape == /\ run[w] \in Run
                      /\ run \in [Workers -> Run]
                      /\ beat \in [Workers -> {"OFF", "ON", "LOST"}]
                      /\ stored \subseteq Replay
                      /\ results \subseteq Payload
                      /\ held \in [Workers -> Token \cup {NoToken}]
                      /\ At(w, "IDLE") <=> ~Holds(w)
                      /\ ResultReady(w)
  <1>s. Shape
    BY DEF ServiceInv, ServiceTypeOK, TypeOK
  <1>t. ~At(w, "IDLE") => held[w] \in Token
    BY <1>s DEF Holds
  <1>a. \A place \in RunPlaces : [run[w] EXCEPT !.place = place] \in Run
    BY <1>s, RunMoved
  <1>b. BeatStops(w) => beat' \in [Workers -> {"OFF", "ON", "LOST"}]
    BY <1>s DEF BeatStops
  <1> HIDE DEF Shape
  \* a step that only moves the thread, to a place that needs no result or to
  \* one it has the result for
  <1>m. ASSUME NEW place \in RunPlaces \ {"IDLE", "FINISHED"}, Moves(w, place),
               ~At(w, "IDLE"),
               place \in {"REPORTING", "HANDING"} => run[w].result # NoResult,
               beat' \in [Workers -> {"OFF", "ON", "LOST"}],
               UNCHANGED << stored, results, held, handoffs, room, requests,
                            errand >>
        PROVE  RunKept(w)
    <2> DEFINE row == [run[w] EXCEPT !.place = place]
    <2>1. row \in Run /\ row.place = place /\ row.result = run[w].result
      BY <1>m, <1>a, <1>s DEF Run, Shape
    <2>2. run' = [run EXCEPT ![w] = row]
      BY <1>m, <1>s DEF Moves, Shape
    <2>3. stored' \subseteq Replay
      BY <1>m, <1>s DEF Shape
    <2> HIDE DEF row
    <2> QED
      BY <1>m, <2>1, <2>2, <2>3, MovesKeep DEF At
  <1>1. ASSUME ClaimRun(w) PROVE RunKept(w)
    <2>1. PICK j \in Jobs : ClaimJob(w, j, {})
      BY <1>1 DEF ClaimRun
    <2>2. UNCHANGED handoffs /\ \A v \in Workers \ {w} : held'[v] = held[v]
      BY <2>1, <1>s DEF ClaimJob, Shape
    <2>3. held'[w] # NoToken
      <3>1. PICK s \in Seats :
               held' = [held EXCEPT ![w] =
                          [ job |-> j, seat |-> s, fence |-> jobs[j].fence + 1,
                            seat_fence |-> TakenSeat(s, w, j).fence ]]
        BY <2>1 DEF ClaimJob
      <3>2. /\ jobs[j].fence \in Nat /\ TakenSeat(s, w, j).fence \in Nat
            /\ s \in Nat
        BY DEF ServiceInv, TypeOK, JobRow, SeatRow, TakenSeat, Seats
      <3> QED
        BY <3>1, <3>2, <1>s, FabricAssumption DEF Token, Shape
    <2>4. run' = [run EXCEPT ![w] = [run[w] EXCEPT !.place = "CLAIMED"]]
      BY <1>1, <1>s DEF ClaimRun, Moves, Shape
    <2>5. run'[w] = [run[w] EXCEPT !.place = "CLAIMED"]
      BY <2>4, <1>s DEF Shape
    <2>6. run'[w] \in Run /\ run'[w].place = "CLAIMED"
      BY <2>5, <1>a, <1>s DEF Run, RunPlaces, Shape
    <2> QED
      BY <1>1, <2>2, <2>3, <2>4, <2>5, <2>6, <1>s
      DEF ClaimRun, RunKept, WatchAndRelaysKeep, Shape
  <1>2. ASSUME PollNothing(w) PROVE RunKept(w)
    <2>1. UNCHANGED << threads, held, handoffs >>
      BY <1>2 DEF PollNothing, ClaimNothing
    <2> QED
      BY <2>1, <1>s DEF RunKept, threads, Shape, ResultReady, At, Holds
  <1>3. ASSUME StartRun(w) PROVE RunKept(w)
    <2>1. ~At(w, "IDLE") /\ UNCHANGED << stored, results, held, handoffs, room,
                                         requests, errand >>
      BY <1>3 DEF StartRun, At, vars, WatchAndRelaysKeep
    <2>2. beat' \in [Workers -> {"OFF", "ON", "LOST"}]
      BY <1>3, <1>s DEF StartRun, Shape
    <2>3. Moves(w, "CANCELLING") \/ Moves(w, "EXECUTING")
      BY <1>3 DEF StartRun
    <2> QED
      BY <2>1, <2>2, <2>3, <1>m DEF RunPlaces
  <1>4. ASSUME EndByCancel(w) PROVE RunKept(w)
    BY <1>4, <1>m, <1>s DEF EndByCancel, At, AcknowledgeCancel,
       WatchAndRelaysKeep, RunPlaces, Shape
  <1>5. ASSUME Beats(w) PROVE RunKept(w)
    <2>1. UNCHANGED << threads, held, handoffs >>
      BY <1>5 DEF Beats, Heartbeat
    <2> QED
      BY <2>1, <1>s DEF RunKept, threads, Shape, ResultReady, At, Holds
  <1>6. ASSUME BeatFails(w) PROVE RunKept(w)
    <2>1. UNCHANGED << run, held, handoffs, stored, results, room, requests,
                       errand >>
      BY <1>6 DEF BeatFails, vars, WatchAndRelaysKeep
    <2>2. beat' \in [Workers -> {"OFF", "ON", "LOST"}]
      BY <1>6, <1>s DEF BeatFails, Shape
    <2> QED
      BY <2>1, <2>2, <1>s DEF RunKept, Shape, ResultReady, At, Holds
  <1>7. ASSUME LookUp(w) PROVE RunKept(w)
    <2>1. /\ run[w].place # "IDLE"
          /\ UNCHANGED << beat, stored, results, held, handoffs, room,
                          requests, errand >>
      BY <1>7 DEF LookUp, At, vars, WatchAndRelaysKeep
    <2>2. PICK row \in Run :
             /\ run' = [run EXCEPT ![w] = row]
             /\ row.place # "IDLE"
             /\ row.place \notin {"REPORTING", "HANDING"}
             /\ row.place = "FINISHED" => row.result # NoResult
      <3>1. CASE Stored(w, Key(w)) = {}
        <4> DEFINE row == [run[w] EXCEPT !.place = "CALLING", !.key = Key(w)]
        <4>1. held[w] \in Token
          BY <2>1, <1>t DEF At
        <4>2. Key(w) \in Nat
          BY <4>1 DEF Key, Token
        <4>3. row \in Run /\ row.place = "CALLING"
          BY <4>2, <1>s, RunCalls DEF RunPlaces, Shape
        <4>4. run' = [run EXCEPT ![w] = row]
          BY <1>7, <3>1 DEF LookUp
        <4> HIDE DEF row
        <4> QED
          BY <4>3, <4>4
      <3>2. CASE Stored(w, Key(w)) # {}
        <4>1. PICK s \in Stored(w, Key(w)) :
                 run' = [run EXCEPT ![w] = [@ EXCEPT !.place = "FINISHED",
                                                     !.result = s.result]]
          BY <1>7, <3>2 DEF LookUp
        <4> DEFINE row == [run[w] EXCEPT !.place = "FINISHED",
                                         !.result = s.result]
        <4>2. s.result \in Result
          BY <1>s DEF Stored, Replay, Shape
        <4>3. /\ row \in Run
              /\ row.place = "FINISHED"
              /\ row.result = s.result
          BY <4>2, <1>s, RunWrites DEF RunPlaces, Shape
        <4>4. run' = [run EXCEPT ![w] = row]
          BY <4>1
        <4> QED
          BY <4>2, <4>3, <4>4, ServiceAssumption
      <3> QED
        BY <3>1, <3>2
    <2> QED
      BY <2>1, <2>2, <1>s, MovesKeep DEF Shape
  <1>8. ASSUME Answered(w) PROVE RunKept(w)
    <2>1. /\ run[w].place # "IDLE"
          /\ UNCHANGED << beat, results, held, handoffs, room, requests, errand >>
      BY <1>8 DEF Answered, At, vars
    <2>2. PICK a \in Answers :
             LET result == [ overall |-> a.overall,
                             clean |-> a.clean /\ a.overall = "SUCCESS",
                             partial |-> "NONE", made |-> held[w].fence ]
             IN
             /\ run' = [run EXCEPT ![w] = [@ EXCEPT !.place = "FINISHED",
                                                    !.key = 0,
                                                    !.result = result]]
             /\ stored' = (stored \ Stored(w, run[w].key)) \cup
                  {[ job |-> held[w].job, key |-> run[w].key,
                     result |-> result ]}
      BY <1>8 DEF Answered
    <2> DEFINE result == [ overall |-> a.overall,
                           clean |-> a.clean /\ a.overall = "SUCCESS",
                           partial |-> "NONE", made |-> held[w].fence ]
               row == Returned(run[w], result)
    <2>3. held[w] \in Token
      BY <2>1, <1>t DEF At
    <2>4. a.overall \in Overalls /\ (a.clean /\ a.overall = "SUCCESS") \in BOOLEAN
      BY ServiceAssumption
    <2>5. result \in Result
      BY <2>3, <2>4 DEF Result, Token
    <2>6. row \in Run /\ row.place = "FINISHED" /\ row.result = result
      <3> HIDE DEF result
      <3> QED
        BY <2>5, <1>s, RunReturns DEF Shape
    <2>7. [job |-> held[w].job, key |-> run[w].key, result |-> result] \in Replay
      BY <2>3, <2>5, <1>s DEF Replay, Token, Run, Shape
    <2>8. run' = [run EXCEPT ![w] = row]
      BY <2>2 DEF Returned
    <2>9. stored' \subseteq Replay
      BY <2>2, <2>7, <1>s DEF Shape
    <2>10. result # NoResult
      BY <2>5, ServiceAssumption
    <2>11. beat' \in [Workers -> {"OFF", "ON", "LOST"}]
      BY <2>1, <1>s DEF Shape
    <2> HIDE DEF row, result
    <2> QED
      BY <2>1, <2>6, <2>8, <2>9, <2>10, <2>11, MovesKeep
  <1>9. ASSUME Raises(w) PROVE RunKept(w)
    <2>1. /\ run[w].place # "IDLE"
          /\ UNCHANGED << beat, stored, results, held, handoffs, room,
                          requests, errand >>
      BY <1>9 DEF Raises, At, vars, WatchAndRelaysKeep
    <2>2. PICK f \in Failures :
             run' = [run EXCEPT ![w] = [@ EXCEPT !.place = "FINISHED",
                                                 !.key = 0, !.failure = f]]
      BY <1>9 DEF Raises
    <2> DEFINE row == Raised(run[w], f)
    <2>3. f # "NONE"
      BY ServiceAssumption
    <2>4. row \in Run /\ row.place = "FINISHED" /\ row.failure = f
      BY <1>s, RunRaises DEF Shape
    <2>5. run' = [run EXCEPT ![w] = row]
      BY <2>2 DEF Raised
    <2> HIDE DEF row
    <2> QED
      BY <2>1, <2>3, <2>4, <2>5, <1>s, MovesKeep DEF Shape
  <1>10. ASSUME LeaseLost(w) PROVE RunKept(w)
    BY <1>10, <1>m, <1>b DEF LeaseLost, At, vars, WatchAndRelaysKeep, RunPlaces
  \* a step that hands off what _failure_result says
  <1>f. ASSUME NEW partial \in {"NONE", "UNCERTAIN_PARTIAL"}, ~At(w, "IDLE"),
               run' = [run EXCEPT ![w] =
                         [run[w] EXCEPT !.place = "HANDING",
                                        !.result = FailureResult(w, partial)]],
               beat' \in [Workers -> {"OFF", "ON", "LOST"}],
               UNCHANGED << stored, results, held, handoffs, room, requests,
                            errand >>
        PROVE  RunKept(w)
    <2> DEFINE row == [run[w] EXCEPT !.place = "HANDING",
                                     !.result = FailureResult(w, partial)]
    <2>1. held[w] \in Token
      BY <1>f, <1>t
    <2>2. FailureResult(w, partial) \in Result
      BY <2>1, <1>f DEF FailureResult, Result, Overalls, Token
    <2>3. row \in Run /\ row.place = "HANDING"
               /\ row.result = FailureResult(w, partial)
      <3>1. run[w] \in Run /\ "HANDING" \in RunPlaces
        BY <1>s DEF RunPlaces, Shape
      <3> DEFINE result == FailureResult(w, partial)
      <3>2. result \in Result
        BY <2>2
      <3> HIDE DEF result
      <3>3. LET written == [run[w] EXCEPT !.place = "HANDING", !.result = result]
            IN  /\ written \in Run
                /\ written.place = "HANDING"
                /\ written.result = result
        BY <3>1, <3>2 DEF Run
      <3> QED
        BY <3>3 DEF result
    <2>4. FailureResult(w, partial) # NoResult
      BY <2>2, ServiceAssumption
    <2>5. run' = [run EXCEPT ![w] = row]
      BY <1>f
    <2>6. stored' \subseteq Replay
      BY <1>f, <1>s DEF Shape
    <2> HIDE DEF row
    <2> QED
      BY <1>f, <2>3, <2>4, <2>5, <2>6, MovesKeep DEF At
  <1>11. ASSUME Fails(w) PROVE RunKept(w)
    <2>1. UNCHANGED << stored, results, held, handoffs, room, requests, errand >>
      BY <1>11 DEF Fails, CountsFailure, RecordAdapterFailure, vars,
                   WatchAndRelaysKeep
    <2>2. ~At(w, "IDLE") /\ beat' \in [Workers -> {"OFF", "ON", "LOST"}]
      BY <1>11, <1>b DEF Fails, At
    <2>3. CASE run[w].failure = "RETRYABLE"
      <3>1. Moves(w, "RETRYING")
        BY <1>11, <2>3 DEF Fails, Moves
      <3> QED
        BY <2>1, <2>2, <3>1, <1>m DEF RunPlaces
    <2>4. CASE run[w].failure # "RETRYABLE"
      <3>1. PICK partial \in {"NONE", "UNCERTAIN_PARTIAL"} :
               run' = [run EXCEPT ![w] =
                         [run[w] EXCEPT !.place = "HANDING",
                                        !.result = FailureResult(w, partial)]]
        BY <1>11, <2>4 DEF Fails
      <3> QED
        BY <2>1, <2>2, <3>1, <1>f
    <2> QED
      BY <2>3, <2>4
  <1>12. ASSUME Retries(w) PROVE RunKept(w)
    BY <1>12, <1>m, <1>s DEF Retries, At, SafeRetry, WatchAndRelaysKeep,
                             RunPlaces, Shape
  <1>13. ASSUME RetryRefused(w) PROVE RunKept(w)
    <2>1. /\ ~At(w, "IDLE")
          /\ UNCHANGED << beat, stored, results, held, handoffs, room,
                          requests, errand >>
      BY <1>13 DEF RetryRefused, At, vars, WatchAndRelaysKeep
    <2>2. beat' \in [Workers -> {"OFF", "ON", "LOST"}]
      BY <2>1, <1>s DEF Shape
    <2>3. CASE Moves(w, "CANCELLING")
      BY <2>1, <2>2, <2>3, <1>m DEF RunPlaces
    <2>4. CASE ~Moves(w, "CANCELLING")
      <3>1. PICK partial \in {"NONE", "UNCERTAIN_PARTIAL"} :
               run' = [run EXCEPT ![w] =
                         [run[w] EXCEPT !.place = "HANDING",
                                        !.result = FailureResult(w, partial)]]
        BY <1>13, <2>4 DEF RetryRefused
      <3> QED
        BY <2>1, <2>2, <3>1, <1>f
    <2> QED
      BY <2>3, <2>4
  <1>14. ASSUME Returns(w) PROVE RunKept(w)
    <2>1. /\ run[w].place # "IDLE"
          /\ UNCHANGED << stored, results, held, handoffs, room, requests,
                          errand >>
      BY <1>14 DEF Returns, At, vars, WatchAndRelaysKeep
    <2>2. run[w].result \in Result
      BY <1>14, <1>s DEF Returns, ResultReady, At, Run, Shape
    <2> DEFINE marked == [run[w].result EXCEPT !.clean = @ /\ ~CancelSeen(w)]
               row == [run[w] EXCEPT !.place = "REPORTING", !.result = marked]
    <2>3. (run[w].result.clean /\ ~CancelSeen(w)) \in BOOLEAN
      OBVIOUS
    <2>4. marked \in Result
      BY <2>2, <2>3 DEF Result
    <2>5. row \in Run /\ row.place = "REPORTING" /\ row.result = marked
      <3> HIDE DEF marked
      <3> QED
        BY <2>4, <1>s, RunWrites DEF RunPlaces, Shape
    <2>6. run' = [run EXCEPT ![w] = row]
      BY <1>14 DEF Returns, Marked
    <2>7. stored' \subseteq Replay /\ marked # NoResult
      BY <2>1, <2>4, <1>s, ServiceAssumption DEF Shape
    <2>8. beat' \in [Workers -> {"OFF", "ON", "LOST"}]
      BY <1>14, <1>b DEF Returns
    <2> HIDE DEF row, marked
    <2> QED
      BY <2>1, <2>5, <2>6, <2>7, <2>8, MovesKeep
  <1>15. ASSUME Reports(w) PROVE RunKept(w)
    <2>1. run[w].result # NoResult
      BY <1>15, <1>s DEF Reports, Shape, ResultReady
    <2> QED
      BY <2>1, <1>15, <1>m, <1>s DEF Reports, At, RecordAdapterSuccess,
         WatchAndRelaysKeep, RunPlaces, Shape
  <1>16. ASSUME HandsOff(w) PROVE RunKept(w)
    <2>1. /\ run[w].place = "HANDING"
          /\ UNCHANGED << beat, stored, held, room, requests, errand >>
      BY <1>16 DEF HandsOff, At, ReleaseForReview
    <2>2. /\ held[w] \in Token
          /\ run[w].result \in Result
      BY <2>1, <1>t, <1>s DEF At, Shape, ResultReady, Run
    <2> DEFINE payload == [ job |-> held[w].job, fence |-> held[w].fence,
                            result |-> run[w].result ]
    <2>3. results' = results \cup {payload}
      BY <1>16 DEF HandsOff
    <2>4. payload \in Payload
      BY <2>2 DEF Payload, Token
    <2>5. /\ handoffs \subseteq handoffs'
          /\ \A h \in handoffs' \ handoffs :
                h.job = payload.job /\ h.fence = payload.fence
      BY <1>16 DEF HandsOff, ReleaseForReview
    <2>6. /\ run'[w] = [run[w] EXCEPT !.place = "ENDING"]
          /\ run' = [run EXCEPT ![w] = run'[w]]
      BY <1>16, <1>s DEF HandsOff, Moves, Shape
    <2>7. run'[w] \in Run /\ run'[w].place = "ENDING"
      BY <2>6, <1>s, <1>a, RunMoved DEF RunPlaces, Shape
    <2>8. held'[w] # NoToken
      BY <2>1, <2>2, FabricAssumption
    <2> HIDE DEF payload
    <2> QED
      BY <2>1, <2>3, <2>4, <2>5, <2>6, <2>7, <2>8, <1>s DEF RunKept, Shape
  <1>17. ASSUME RunEnds(w) PROVE RunKept(w)
    <2>1. /\ UNCHANGED << stored, results, room, requests, errand, handoffs >>
          /\ held' = [held EXCEPT ![w] = NoToken]
          /\ run' = [run EXCEPT ![w] = NoRun]
          /\ beat' \in [Workers -> {"OFF", "ON", "LOST"}]
      BY <1>17, <1>b DEF RunEnds, DropToken, WatchAndRelaysKeep
    <2>2. run'[w] = NoRun /\ held'[w] = NoToken
          /\ \A v \in Workers \ {w} : held'[v] = held[v]
      BY <2>1, <1>s DEF Shape
    <2>3. NoRun \in Run /\ NoRun.place = "IDLE"
      BY DEF NoRun, Run, RunPlaces
    <2> QED
      BY <2>1, <2>2, <2>3, <1>s DEF RunKept, Shape
  <1> QED
    BY <1>1, <1>2, <1>3, <1>4, <1>5, <1>6, <1>7, <1>8, <1>9, <1>10, <1>11,
       <1>12, <1>13, <1>14, <1>15, <1>16, <1>17 DEF RunStep

LEMMA RunStepInvariant ==
    ASSUME ServiceInv, NEW w \in Workers, RunStep(w)
    PROVE  ServiceInv'
  <1>1. RunKept(w)
    BY RunStepKeeps
  <1>2. TypeOK'
    BY RunStepMaps, TypeNext DEF ServiceInv, Next
  <1>3. ServiceTypeOK'
    <2>1. run' \in [Workers -> Run]
      BY <1>1 DEF RunKept, ServiceInv, ServiceTypeOK
    <2>2. \A v \in Workers : At(v, "IDLE")' <=> ~Holds(v)'
      <3>1. At(w, "IDLE")' <=> ~Holds(w)'
        BY <1>1 DEF RunKept, At, Holds
      <3>2. ASSUME NEW v \in Workers \ {w} PROVE At(v, "IDLE")' <=> ~Holds(v)'
        BY <1>1, <3>2 DEF RunKept, ServiceInv, ServiceTypeOK, At, Holds
      <3> QED
        BY <3>1, <3>2
    <2> QED
      BY <1>1, <2>1, <2>2 DEF RunKept, ServiceInv, ServiceTypeOK
  <1>4. ASSUME NEW v \in Workers PROVE ResultReady(v)'
    <2>1. CASE v = w
      BY <1>1, <2>1 DEF RunKept, ResultReady, At
    <2>2. CASE v # w
      BY <1>1, <2>2 DEF RunKept, ServiceInv, ServiceTypeOK, ResultReady, At
    <2> QED
      BY <2>1, <2>2
  <1>5. ASSUME NEW c \in Controllers PROVE DecisionReady(c)'
    BY <1>1 DEF RunKept, ServiceInv, DecisionReady, In
  <1>6. HandoffsHaveResults'
    <2> SUFFICES ASSUME NEW h \in handoffs'
                 PROVE  \E p \in results' : p.job = h.job /\ p.fence = h.fence
      BY DEF HandoffsHaveResults
    <2>1. CASE h \in handoffs
      BY <1>1, <2>1 DEF RunKept, ServiceInv, HandoffsHaveResults
    <2>2. CASE h \notin handoffs
      BY <1>1, <2>2 DEF RunKept
    <2> QED
      BY <2>1, <2>2
  <1> QED
    BY <1>2, <1>3, <1>4, <1>5, <1>6 DEF ServiceInv

\* A step that moves one WATCH thread, and writes requests at most.
LEMMA RoomInvariant ==
    ASSUME ServiceInv, TypeOK', NEW c \in Controllers, NEW row \in Room,
           room' = [room EXCEPT ![c] = row],
           row.place = "DECIDED" => row.decision \in Decisions,
           \A x \in row.todo : x.handoff \in handoffs,
           requests' \subseteq Request,
           UNCHANGED << run, beat, stored, results, errand, held, handoffs >>
    PROVE  ServiceInv'
  <1>1. room' \in [Controllers -> Room] /\ room'[c] = row
        /\ \A d \in Controllers \ {c} : room'[d] = room[d]
    BY DEF ServiceInv, ServiceTypeOK
  <1>2. ServiceTypeOK'
    BY <1>1 DEF ServiceInv, ServiceTypeOK, At, Holds
  <1>3. ASSUME NEW v \in Workers PROVE ResultReady(v)'
    BY DEF ServiceInv, ResultReady, At
  <1>4. ASSUME NEW d \in Controllers PROVE DecisionReady(d)'
    <2>1. CASE d = c
      BY <1>1, <2>1 DEF DecisionReady, In
    <2>2. CASE d # c
      BY <1>1, <2>2 DEF ServiceInv, DecisionReady, In
    <2> QED
      BY <2>1, <2>2
  <1>5. HandoffsHaveResults'
    BY DEF ServiceInv, HandoffsHaveResults
  <1> QED
    BY <1>2, <1>3, <1>4, <1>5 DEF ServiceInv

\* A step that leaves threads, tokens and handoffs alone.
LEMMA RequestInvariant ==
    ASSUME ServiceInv, TypeOK', requests' \subseteq Request,
           errand' \in [Relays -> RequestId \cup {NoRequest}],
           UNCHANGED << run, beat, stored, results, room, held, handoffs >>
    PROVE  ServiceInv'
  BY DEF ServiceInv, ServiceTypeOK, ResultReady, DecisionReady,
         HandoffsHaveResults, At, In, Holds

\* What pending_reviews returns.
LEMMA PendingRows ==
    ASSUME ServiceInv
    PROVE  /\ PendingReviews \subseteq Pending
           /\ \A x \in PendingReviews : x.handoff \in handoffs
  <1>1. ASSUME NEW h \in handoffs PROVE ResultOf(h) \in Result
    <2>1. \E p \in results : p.job = h.job /\ p.fence = h.fence
      BY DEF ServiceInv, HandoffsHaveResults
    <2>2. \A p \in results : p.result \in Result
      BY DEF ServiceInv, ServiceTypeOK, Payload
    <2> QED
      BY <2>1, <2>2 DEF ResultOf
  <1>2. ASSUME NEW h \in handoffs
        PROVE  h \in Handoff /\ jobs[h.job].reworks \in Nat
    BY DEF ServiceInv, TypeOK, Handoff, JobRow
  <1>3. ASSUME NEW x \in PendingReviews
        PROVE  x \in Pending /\ x.handoff \in handoffs
    <2>1. PICK h \in handoffs :
             x = [ handoff |-> h, result |-> ResultOf(h),
                   reworks |-> jobs[h.job].reworks ]
      BY DEF PendingReviews
    <2> QED
      BY <2>1, <1>1, <1>2 DEF Pending
  <1> QED
    BY <1>3

LEMMA WatchStepInvariant ==
    ASSUME ServiceInv, NEW c \in Controllers,
           WatchLoop(c) \/ StopsService(c) \/ Restarts(c)
    PROVE  ServiceInv'
  <1>1. TypeOK'
    BY WatchLoopMaps, TypeNext DEF ServiceInv, Next
  <1>2. /\ room[c] \in Room
        /\ room \in [Controllers -> Room]
        /\ requests \subseteq Request
        /\ errand \in [Relays -> RequestId \cup {NoRequest}]
        /\ \A x \in room[c].todo : x.handoff \in handoffs
    BY DEF ServiceInv, ServiceTypeOK, DecisionReady
  <1>3. NoRoom \in Room /\ NoRoom.place = "OUT" /\ NoRoom.todo = {}
    BY DEF NoRoom, Room, RoomPlaces
  \* the thread decides on what it has read
  <1>d. ASSUME NEW decision \in Decisions,
               room' = [room EXCEPT ![c] = [room[c] EXCEPT !.place = "DECIDED",
                                                    !.decision = decision]],
               UNCHANGED << vars, run, beat, stored, results, requests, errand >>
        PROVE  ServiceInv'
    <2> DEFINE row == [room[c] EXCEPT !.place = "DECIDED",
                                      !.decision = decision]
    <2>1. /\ row \in Room
          /\ row.decision = decision
          /\ row.todo = room[c].todo
      BY <1>2 DEF Room, RoomPlaces
    <2>2. room' = [room EXCEPT ![c] = row]
      BY <1>d
    <2>3. UNCHANGED << run, beat, stored, results, errand, held, handoffs,
                       requests >>
      BY <1>d DEF vars
    <2> HIDE DEF row
    <2> QED
      BY <1>1, <1>2, <2>1, <2>2, <2>3, RoomInvariant
  <1>4. ASSUME ClaimLead(c) PROVE ServiceInv'
    <2> DEFINE row == [NoRoom EXCEPT !.place = "LEADING"]
    <2>1. row \in Room /\ row.place = "LEADING" /\ row.todo = {}
      BY DEF NoRoom, Room, RoomPlaces
    <2>2. /\ room' = [room EXCEPT ![c] = row]
          /\ UNCHANGED << run, beat, stored, results, errand, held, handoffs,
                          requests >>
      BY <1>4 DEF ClaimLead, ClaimLeader, RunsAndRelaysKeep
    <2> HIDE DEF row
    <2> QED
      BY <1>1, <1>2, <2>1, <2>2, RoomInvariant
  <1>5. ASSUME RenewLead(c) \/ StopsService(c) PROVE ServiceInv'
    <2>1. UNCHANGED << threads, held, handoffs >>
      BY <1>5 DEF RenewLead, StopsService, HeartbeatLeader, ReleaseLeader
    <2> QED
      BY <1>1, <1>2, <2>1, RequestInvariant DEF threads
  <1>6. ASSUME ReadPending(c) PROVE ServiceInv'
    <2> DEFINE row == [ place |-> "REVIEWING", todo |-> PendingReviews,
                        decision |-> "NONE" ]
    <2>1. /\ row \in Room
          /\ row.place = "REVIEWING"
          /\ \A x \in row.todo : x.handoff \in handoffs
      BY PendingRows DEF Room, RoomPlaces
    <2>2. /\ room' = [room EXCEPT ![c] = row]
          /\ UNCHANGED << run, beat, stored, results, errand, held, handoffs,
                          requests >>
      BY <1>6 DEF ReadPending, vars, RunsAndRelaysKeep
    <2> HIDE DEF row
    <2> QED
      BY <1>1, <1>2, <2>1, <2>2, RoomInvariant
  <1>7. ASSUME Decides(c) PROVE ServiceInv'
    <2>1. PICK x \in room[c].todo :
             room' = [room EXCEPT ![c] = [@ EXCEPT !.place = "DECIDED",
                                                   !.decision = Verdict(x)]]
      BY <1>7 DEF Decides
    <2>2. Verdict(x) \in Decisions
      BY DEF Verdict, Decisions
    <2>3. UNCHANGED << vars, run, beat, stored, results, requests, errand >>
      BY <1>7 DEF Decides, RunsAndRelaysKeep
    <2> QED
      BY <2>1, <2>2, <2>3, <1>d
  <1>8. ASSUME StopsWaiting(c) PROVE ServiceInv'
    BY <1>8, <1>d DEF StopsWaiting, RunsAndRelaysKeep, Decisions
  <1>9. ASSUME Asks(c) PROVE ServiceInv'
    <2>1. PICK x \in room[c].todo :
             IF \E q \in requests : q.id = IdOf(x)
             THEN /\ room' = [room EXCEPT ![c] = [@ EXCEPT !.place = "DECIDED",
                                                           !.decision = "REWORK"]]
                  /\ UNCHANGED requests
             ELSE /\ room' = [room EXCEPT ![c].place = "WAITING"]
                  /\ requests' = requests \cup
                       {[ id |-> IdOf(x), status |-> "PENDING",
                          owner |-> NoRelay, lease |-> "NONE",
                          answer |-> "NONE" ]}
      BY <1>9 DEF Asks
    <2>2. UNCHANGED << vars, run, beat, stored, results, errand >>
      BY <1>9 DEF Asks
    <2>3. CASE \E q \in requests : q.id = IdOf(x)
      BY <2>1, <2>2, <2>3, <1>d DEF Decisions
    <2>4. CASE ~\E q \in requests : q.id = IdOf(x)
      <3> DEFINE row == [room[c] EXCEPT !.place = "WAITING"]
      <3>1. /\ row \in Room
            /\ row.place = "WAITING"
            /\ row.todo = room[c].todo
        BY <1>2 DEF Room, RoomPlaces
      <3>2. room' = [room EXCEPT ![c] = row]
        BY <2>1, <2>4
      <3>3. x.handoff \in Handoff
        BY <1>2 DEF ServiceInv, TypeOK
      <3>4. IdOf(x) \in RequestId
        BY <3>3 DEF IdOf, RequestId, Handoff
      <3>5. requests' \subseteq Request
        BY <1>2, <2>1, <2>4, <3>4 DEF Request, Leases
      <3>6. UNCHANGED << run, beat, stored, results, errand, held, handoffs >>
        BY <2>2 DEF vars
      <3> HIDE DEF row
      <3> QED
        BY <1>1, <1>2, <3>1, <3>2, <3>5, <3>6, RoomInvariant
    <2> QED
      BY <2>3, <2>4
  <1>10. ASSUME Reviews(c) PROVE ServiceInv'
    <2>1. PICK x \in room[c].todo :
             /\ \/ ReviewHandoff(c, x.handoff, room[c].decision, FALSE)
                \/ UNCHANGED vars
             /\ room' = [room EXCEPT ![c] = Advanced(@, x)]
      BY <1>10 DEF Reviews
    <2> DEFINE row == Advanced(room[c], x)
    <2>2. /\ row \in Room
          /\ row.place # "DECIDED"
          /\ row.todo \subseteq room[c].todo
      BY <1>2 DEF Advanced, Room, RoomPlaces
    <2>3. room' = [room EXCEPT ![c] = row]
      BY <2>1
    <2>4. UNCHANGED << run, beat, stored, results, requests, errand, held,
                       handoffs >>
      BY <1>10, <2>1 DEF Reviews, ReviewHandoff, vars, RunsAndRelaysKeep
    <2> HIDE DEF row
    <2> QED
      BY <1>1, <1>2, <2>2, <2>3, <2>4, RoomInvariant
  <1>11. ASSUME Aborts(c) \/ LosesLead(c) \/ Restarts(c) PROVE ServiceInv'
    <2>1. /\ room' = [room EXCEPT ![c] = NoRoom]
          /\ UNCHANGED << run, beat, stored, results, requests, errand, held,
                          handoffs >>
      BY <1>11 DEF Aborts, LosesLead, Restarts, vars, RunsAndRelaysKeep
    <2> QED
      BY <1>1, <1>2, <1>3, <2>1, RoomInvariant
  <1> QED
    BY <1>4, <1>5, <1>6, <1>7, <1>8, <1>9, <1>10, <1>11 DEF WatchLoop

LEMMA RelayInvariant ==
    ASSUME ServiceInv, NEW r \in Relays, RelayStep(r)
    PROVE  ServiceInv'
  <1>1. /\ UNCHANGED << vars, run, beat, stored, results, room >>
    BY DEF RelayStep, Polls, Posts, Abandons, ThreadsKeep
  <1>2. TypeOK'
    BY <1>1, TypeNext DEF ServiceInv
  <1>3. /\ requests \subseteq Request
        /\ errand \in [Relays -> RequestId \cup {NoRequest}]
    BY DEF ServiceInv, ServiceTypeOK
  <1>4. requests' \subseteq Request
    <2>1. CASE Polls(r)
      BY <2>1, <1>3 DEF Polls, Replaced, Request, Leases
    <2>2. CASE Posts(r)
      <3>1. PICK q \in requests, answer \in {"GOOD", "POOR"} :
               IF q.status = "COMPLETE" THEN UNCHANGED requests
               ELSE Replaced(q, [q EXCEPT !.status = "COMPLETE",
                                          !.answer = answer])
        BY <2>2 DEF Posts
      <3>2. [q EXCEPT !.status = "COMPLETE", !.answer = answer] \in Request
        BY <1>3 DEF Request
      <3> QED
        BY <3>1, <3>2, <1>3 DEF Replaced
    <2>3. CASE Abandons(r)
      BY <2>3, <1>3 DEF Abandons
    <2> QED
      BY <2>1, <2>2, <2>3 DEF RelayStep
  <1>5. errand' \in [Relays -> RequestId \cup {NoRequest}]
    BY <1>3 DEF RelayStep, Polls, Posts, Abandons, Request
  <1> QED
    BY <1>1, <1>2, <1>4, <1>5, RequestInvariant DEF vars

LEMMA SurroundingsKeep ==
    ASSUME Surroundings PROVE UNCHANGED << threads, held, handoffs >>
  BY DEF Surroundings, OwnerStep, Submit, ApproveJob, RevokeJob, RequestCancel,
         SetSharedStateVersion, ReconcileExpiredLeases, ClockStep, LapseLease,
         LapseLeader, RetryDelayElapses, ApprovalExpires, DeadlinePasses,
         CooldownElapses

LEMMA ServiceKeeps == ServiceInv /\ [ServiceNext]_service => ServiceInv'
  <1> SUFFICES ASSUME ServiceInv, [ServiceNext]_service PROVE ServiceInv'
    OBVIOUS
  <1>1. TypeOK'
    BY ServiceStepMaps, TypeNext DEF ServiceInv
  <1>2. /\ requests \subseteq Request
        /\ errand \in [Relays -> RequestId \cup {NoRequest}]
    BY DEF ServiceInv, ServiceTypeOK
  <1>3. ASSUME Surroundings PROVE ServiceInv'
    BY <1>1, <1>2, <1>3, SurroundingsKeep, RequestInvariant DEF threads
  <1>4. ASSUME LapseClaim PROVE ServiceInv'
    <2>1. UNCHANGED << run, beat, stored, results, room, held, handoffs, errand >>
      BY <1>4 DEF LapseClaim, ThreadsKeep, vars
    <2>2. requests' \subseteq Request
      BY <1>2, <1>4 DEF LapseClaim, Replaced, Request, Leases
    <2> QED
      BY <1>1, <1>2, <2>1, <2>2, RequestInvariant
  <1>5. ASSUME UNCHANGED service PROVE ServiceInv'
    BY <1>1, <1>2, <1>5, RequestInvariant DEF service
  <1> QED
    BY <1>3, <1>4, <1>5, RunStepInvariant, WatchStepInvariant, RelayInvariant
    DEF ServiceNext

LEMMA ServiceHolds == ServiceSpec => []ServiceInv
  BY ServiceStarts, ServiceKeeps, PTL DEF ServiceSpec

\* Threads, registry and requests keep their shapes, and a worker thread
\* outside a run holds no token, in every service.
THEOREM ServiceTypeCorrect == ServiceSpec => []ServiceTypeOK
  <1>1. ServiceInv => ServiceTypeOK
    BY DEF ServiceInv
  <1> QED
    BY <1>1, ServiceHolds, PTL

-----------------------------------------------------------------------------
(* What the service inherits *)

\* run_once, _watch_loop and the relays call the tables only as FiveSeat's
\* clients may.
THEOREM ServiceImplements == ServiceSpec => ImplementsFiveSeat
  <1>1. ServiceInit => Init
    BY DEF ServiceInit
  <1>2. ServiceInv /\ [ServiceNext]_service => [Next]_vars
    BY ServiceStepMaps
  <1> QED
    BY <1>1, <1>2, ServiceHolds, PTL DEF ServiceSpec, ImplementsFiveSeat, Spec

\* So whatever the threads do, no two live jobs of a service conflict,
THEOREM ServiceIsolates == ServiceSpec => []LiveIsolation
  BY ServiceImplements, Isolation DEF ImplementsFiveSeat

\* and a worker thread whose claim is over never owns its job again.
THEOREM ServiceFences == ServiceSpec => FencedForever
  BY ServiceImplements, FencingIsForever DEF ImplementsFiveSeat

=============================================================================
