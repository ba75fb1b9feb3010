---------------------------- MODULE FabricService ----------------------------
(***************************************************************************)
(* The threads of five_seat_service around the fabric's tables: worker     *)
(* threads running five_seat_worker.run_once over the task-packet adapter  *)
(* and its idempotency registry, WATCH threads running _watch_loop, and    *)
(* the relays that answer DAN recovery requests (dan_relay_store,          *)
(* dan_relay_http).                                                        *)
(*                                                                         *)
(* FiveSeat lets any thread call any handler with the token it holds; here *)
(* each thread calls them in the order of its code.  Every step is a step  *)
(* of FiveSeat together with a move of the thread that takes it, or leaves *)
(* the tables of FiveSeat alone.                                           *)
(***************************************************************************)
EXTENDS FiveSeat

CONSTANTS
    Answers,   \* what the specialist executor returns: [overall, clean]
    Failures,  \* how adapter.execute raises
    Relays,    \* relay processes that poll for recovery requests
    NoResult, NoRelay, NoRequest

VARIABLES
    run,       \* worker thread -> where run_once stands and what it holds
    beat,      \* worker thread -> its keepalive thread: lost_lease
    stored,    \* execution_registry: results by idempotency key
    results,   \* payloads of the handoffs
    room,      \* WATCH thread -> where _watch_loop stands
    requests,  \* jaytec_dan_relay_jobs
    errand     \* relay process -> the request it works on

threads == << run, beat, stored, results, room, requests, errand >>
service == << jobs, seats, version, approved, overdue, circuits, operations,
              handoffs, reviews, leader, held, mandate,
              run, beat, stored, results, room, requests, errand >>

-----------------------------------------------------------------------------
(* Rows and places *)

Overalls == {"SUCCESS", "PARTIAL_SUCCESS", "POLICY_BLOCKED", "FAILED_CLOSED"}

\* made: the fence of the claim whose provider call produced the result
Result == [ overall : Overalls, clean : BOOLEAN,
            partial : {"NONE", "UNCERTAIN_PARTIAL"}, made : Nat ]

Payload == [job : Jobs, fence : Nat, result : Result]
Replay  == [job : Jobs, key : Nat, result : Result]

RunPlaces ==
    { "IDLE",        \* waiting for work
      "CLAIMED",     \* before the first cancel check
      "CANCELLING",  \* about to acknowledge a cancel
      "EXECUTING",   \* in the adapter, before the registry lookup
      "CALLING",     \* in the provider call
      "FINISHED",    \* execute returned or raised, keepalive stopped
      "RETRYING",    \* a retryable failure was recorded
      "REPORTING",   \* the second cancel check is done
      "HANDING",     \* about to call release_for_review
      "ENDING" }     \* run_once is about to return

\* key: the idempotency key execute works under, while it calls
Run == [ place : RunPlaces, key : Nat, failure : Failures \cup {"NONE"},
         result : Result \cup {NoResult} ]

NoRun == [ place |-> "IDLE", key |-> 0, failure |-> "NONE",
           result |-> NoResult ]

\* A row of pending_reviews: the handoff and the job columns read with it.
Pending == [handoff : Handoff, result : Result, reworks : Nat]

RoomPlaces == {"OUT", "LEADING", "REVIEWING", "WAITING", "DECIDED"}

Room == [ place : RoomPlaces, todo : SUBSET Pending,
          decision : Decisions \cup {"NONE"} ]

NoRoom == [place |-> "OUT", todo |-> {}, decision |-> "NONE"]

RequestId == [job : Jobs, fence : Nat]

Request ==
    [ id : RequestId, status : {"PENDING", "CLAIMED", "COMPLETE"},
      owner : Relays \cup {NoRelay}, lease : Leases,
      answer : {"NONE", "GOOD", "POOR"} ]      \* DAN_COMPLETE, or less

ASSUME ServiceAssumption ==
    /\ Answers \subseteq [overall : Overalls, clean : BOOLEAN]
    /\ Failures \subseteq {"RETRYABLE", "PERMANENT", "UNCLASSIFIED"}
    /\ NoResult \notin Result
    /\ NoRelay \notin Relays
    /\ NoRequest \notin RequestId

ServiceInit ==
    /\ Init
    /\ run = [w \in Workers |-> NoRun]
    /\ beat = [w \in Workers |-> "OFF"]
    /\ stored = {}
    /\ results = {}
    /\ room = [c \in Controllers |-> NoRoom]
    /\ requests = {}
    /\ errand = [r \in Relays |-> NoRequest]

At(w, place) == run[w].place = place
Moves(w, place) == run' = [run EXCEPT ![w].place = place]

-----------------------------------------------------------------------------
(* Worker threads: five_seat_worker.run_once *)

WatchAndRelaysKeep == UNCHANGED << stored, results, room, requests, errand >>

\* claim_next; a walk past locked rows changes nothing in what follows.  A
\* registry that cannot run the kind is quarantined by run_once, but claim_next
\* was given that registry's kinds and capabilities.
ClaimRun(w) ==
    /\ At(w, "IDLE")
    /\ \E j \in Jobs : ClaimJob(w, j, {})
    /\ Moves(w, "CLAIMED")
    /\ UNCHANGED beat
    /\ WatchAndRelaysKeep

PollNothing(w) ==
    /\ At(w, "IDLE")
    /\ ClaimNothing(w, {})
    /\ UNCHANGED threads

\* remedies.cancel_requested: the row of this claim, whatever its lease.
CancelSeen(w) ==
    LET t == held[w] IN
    /\ jobs[t.job].fabric_state = "CANCEL_REQUESTED"
    /\ jobs[t.job].seat_id = t.seat
    /\ jobs[t.job].lease_owner = OwnerName[w]
    /\ jobs[t.job].fence = t.fence

StartRun(w) ==
    /\ At(w, "CLAIMED")
    /\ IF CancelSeen(w)
       THEN Moves(w, "CANCELLING") /\ UNCHANGED beat
       ELSE Moves(w, "EXECUTING") /\ beat' = [beat EXCEPT ![w] = "ON"]
    /\ UNCHANGED vars
    /\ WatchAndRelaysKeep

EndByCancel(w) ==
    /\ At(w, "CANCELLING")
    /\ AcknowledgeCancel(w)
    /\ Moves(w, "ENDING")
    /\ UNCHANGED beat
    /\ WatchAndRelaysKeep

Beats(w) ==
    /\ beat[w] = "ON"
    /\ Heartbeat(w)
    /\ UNCHANGED threads

\* Whatever the heartbeat raises, a refusal or a failed connection, the
\* keepalive thread marks the lease as lost and stops.
BeatFails(w) ==
    /\ beat[w] = "ON"
    /\ beat' = [beat EXCEPT ![w] = "LOST"]
    /\ UNCHANGED << run, vars >>
    /\ WatchAndRelaysKeep

\* Fault: rework runs under the packet's own key.
ParentKey(w) == 0

\* The idempotency key of the packet: its own, and once WATCH has reviewed the
\* job a key that carries the fence of this claim.
Key(w) == IF \E r \in reviews : r.job = held[w].job THEN held[w].fence ELSE 0

Stored(w, key) == {s \in stored : s.job = held[w].job /\ s.key = key}

\* A stored result is returned as it is; otherwise the provider is called.
LookUp(w) ==
    /\ At(w, "EXECUTING")
    /\ IF Stored(w, Key(w)) = {}
       THEN run' = [run EXCEPT ![w] = [@ EXCEPT !.place = "CALLING",
                                                !.key = Key(w)]]
       ELSE \E s \in Stored(w, Key(w)) :
              run' = [run EXCEPT ![w] = [@ EXCEPT !.place = "FINISHED",
                                                  !.result = s.result]]
    /\ UNCHANGED << vars, beat >>
    /\ WatchAndRelaysKeep

\* The answer replaces what another call stored under the key meanwhile.
Answered(w) ==
    /\ At(w, "CALLING")
    /\ \E a \in Answers :
          LET result == [ overall |-> a.overall,
                          clean |-> a.clean /\ a.overall = "SUCCESS",
                          partial |-> "NONE", made |-> held[w].fence ]
          IN
          /\ run' = [run EXCEPT ![w] = [@ EXCEPT !.place = "FINISHED",
                                                 !.key = 0,
                                                 !.result = result]]
          /\ stored' = (stored \ Stored(w, run[w].key)) \cup
               {[ job |-> held[w].job, key |-> run[w].key,
                  result |-> result ]}
    /\ UNCHANGED << vars, beat, results, room, requests, errand >>

\* A transient status is raised as RetryableAdapterError and never stored.
Raises(w) ==
    /\ At(w, "CALLING")
    /\ \E f \in Failures :
          run' = [run EXCEPT ![w] = [@ EXCEPT !.place = "FINISHED",
                                              !.key = 0, !.failure = f]]
    /\ UNCHANGED << vars, beat >>
    /\ WatchAndRelaysKeep

\* _failure_result has unresolved items and no whole_packet_status.
FailureResult(w, partial) ==
    [ overall |-> "FAILED_CLOSED", clean |-> FALSE, partial |-> partial,
      made |-> held[w].fence ]

BeatStops(w) == beat' = [beat EXCEPT ![w] = "OFF"]

\* Nothing is written after a lost lease.
LeaseLost(w) ==
    /\ At(w, "FINISHED")
    /\ beat[w] = "LOST"
    /\ Moves(w, "ENDING")
    /\ BeatStops(w)
    /\ UNCHANGED vars
    /\ WatchAndRelaysKeep

\* Failures beyond MaxFailures are not counted (a bound of the instance).
CountsFailure(w) ==
    \/ RecordAdapterFailure(w)
    \/ /\ circuits[Envelope[held[w].job].worker_kind].failures >= MaxFailures
       /\ UNCHANGED vars

Fails(w) ==
    /\ At(w, "FINISHED")
    /\ beat[w] # "LOST"
    /\ run[w].failure # "NONE"
    /\ CountsFailure(w)
    /\ run' = [run EXCEPT ![w] =
                 IF @.failure = "RETRYABLE"
                 THEN [@ EXCEPT !.place = "RETRYING"]
                 ELSE [@ EXCEPT !.place = "HANDING",
                         !.result = FailureResult(w,
                            IF run[w].failure = "PERMANENT"
                            THEN "NONE" ELSE "UNCERTAIN_PARTIAL")]]
    /\ BeatStops(w)
    /\ WatchAndRelaysKeep

Retries(w) ==
    /\ At(w, "RETRYING")
    /\ SafeRetry(w)
    /\ Moves(w, "ENDING")
    /\ UNCHANGED beat
    /\ WatchAndRelaysKeep

\* safe_retry answers why it refused; a lost lease it raises instead.
RetryRefused(w) ==
    /\ At(w, "RETRYING")
    /\ WorkerCurrent(w)
    /\ LET j == held[w].job IN
       IF jobs[j].fabric_state = "CANCEL_REQUESTED" \/ jobs[j].cancel
       THEN Moves(w, "CANCELLING")
       ELSE /\ Unresolved(j) \/ jobs[j].attempts >= Envelope[j].max_attempts
            /\ run' = [run EXCEPT ![w] =
                         [@ EXCEPT !.place = "HANDING",
                            !.result = FailureResult(w,
                               IF Unresolved(j) THEN "UNCERTAIN_PARTIAL"
                                                ELSE "NONE")]]
    /\ UNCHANGED << vars, beat >>
    /\ WatchAndRelaysKeep

\* A cancel that arrived during the execution leaves a mark on the result.
Marked(w) == [run[w].result EXCEPT !.clean = @ /\ ~CancelSeen(w)]

Returns(w) ==
    /\ At(w, "FINISHED")
    /\ beat[w] # "LOST"
    /\ run[w].failure = "NONE"
    /\ run' = [run EXCEPT ![w] =
                 [@ EXCEPT !.place = "REPORTING", !.result = Marked(w)]]
    /\ BeatStops(w)
    /\ UNCHANGED vars
    /\ WatchAndRelaysKeep

\* The task-packet adapter reports no partial side effect of its own, so what
\* it returns counts as an adapter success whatever its status.
Reports(w) ==
    /\ At(w, "REPORTING")
    /\ RecordAdapterSuccess(w)
    /\ Moves(w, "HANDING")
    /\ UNCHANGED beat
    /\ WatchAndRelaysKeep

\* Fault: the lease is not proved, only the claim's row.
HandsOffUnproved(w) ==
    /\ At(w, "HANDING")
    /\ jobs[held[w].job].fence = held[w].fence
    /\ jobs' = [jobs EXCEPT ![held[w].job] =
                  [Disowned(@) EXCEPT !.fabric_state = "HANDOFF_PENDING_REVIEW",
                                      !.checkpoint_ref = held[w].fence]]
    /\ seats' = [seats EXCEPT ![held[w].seat] = Vacated(@)]
    /\ handoffs' = handoffs \cup
         {[ job |-> held[w].job, fence |-> held[w].fence, seat |-> held[w].seat,
            seat_fence |-> held[w].seat_fence, worker |-> OwnerName[w],
            partial |-> run[w].result.partial ]}
    /\ results' = results \cup {[ job |-> held[w].job, fence |-> held[w].fence,
                                  result |-> run[w].result ]}
    /\ Moves(w, "ENDING")
    /\ UNCHANGED << version, approved, overdue, circuits, operations, reviews,
                    leader, held, mandate, beat, stored, room, requests,
                    errand >>

HandsOff(w) ==
    /\ At(w, "HANDING")
    /\ ReleaseForReview(w, run[w].result.partial)
    /\ results' = results \cup {[ job |-> held[w].job, fence |-> held[w].fence,
                                  result |-> run[w].result ]}
    /\ Moves(w, "ENDING")
    /\ UNCHANGED << beat, stored, room, requests, errand >>

\* run_once returns; or, anywhere before, a call raised or the process died
\* (run_forever polls again, and the seat waits for reconciliation).
RunEnds(w) ==
    /\ ~At(w, "IDLE")
    /\ DropToken(w)
    /\ run' = [run EXCEPT ![w] = NoRun]
    /\ BeatStops(w)
    /\ WatchAndRelaysKeep

RunStep(w) ==
    \/ ClaimRun(w) \/ PollNothing(w) \/ StartRun(w) \/ EndByCancel(w)
    \/ Beats(w) \/ BeatFails(w) \/ LookUp(w) \/ Answered(w) \/ Raises(w)
    \/ LeaseLost(w) \/ Fails(w) \/ Retries(w) \/ RetryRefused(w)
    \/ Returns(w) \/ Reports(w) \/ HandsOff(w) \/ RunEnds(w)

-----------------------------------------------------------------------------
(* WATCH threads: five_seat_service._watch_loop *)

RunsAndRelaysKeep == UNCHANGED << run, beat, stored, results, requests, errand >>

In(c, place) == room[c].place = place

\* Results under review, joined with the columns of their job; a hundred of
\* them at most are read, more than these instances have.
Undecided(h) ==
    /\ jobs[h.job].fabric_state \in {"HANDOFF_PENDING_REVIEW", "QUARANTINED"}
    /\ jobs[h.job].seat_id = NoSeat
    /\ jobs[h.job].lease_owner = NoOwner
    /\ ~\E r \in reviews : r.job = h.job /\ r.fence = h.fence

ResultOf(h) == (CHOOSE p \in results : p.job = h.job /\ p.fence = h.fence).result

PendingReviews ==
    {[ handoff |-> h, result |-> ResultOf(h), reworks |-> jobs[h.job].reworks ] :
        h \in {g \in handoffs : Undecided(g)}}

\* ORDER BY priority, created_at, handoff_id; the ranks stand for distinct
\* priorities, and the handoffs of one job were created in fence order.
Precedes(g, h) ==
    \/ Envelope[g.job].rank < Envelope[h.job].rank
    \/ g.job = h.job /\ g.fence < h.fence

IsNext(c, x) ==
    /\ x \in room[c].todo
    /\ \A y \in room[c].todo : ~Precedes(y.handoff, x.handoff)

ClaimLead(c) ==
    /\ In(c, "OUT")
    /\ ClaimLeader(c)
    /\ room' = [room EXCEPT ![c] = [NoRoom EXCEPT !.place = "LEADING"]]
    /\ RunsAndRelaysKeep

RenewLead(c) ==
    /\ In(c, "LEADING")
    /\ HeartbeatLeader(c)
    /\ UNCHANGED threads

ReadPending(c) ==
    /\ In(c, "LEADING")
    /\ PendingReviews # {}
    /\ room' = [room EXCEPT ![c] = [ place |-> "REVIEWING",
                                     todo |-> PendingReviews,
                                     decision |-> "NONE" ]]
    /\ UNCHANGED vars
    /\ RunsAndRelaysKeep

\* Fault: unresolved items are not looked at.
VerdictOnStatus(x) ==
    IF x.result.partial = "UNCERTAIN_PARTIAL" THEN "BLOCK"
    ELSE IF x.result.overall = "SUCCESS" THEN "ACCEPT"
    ELSE IF x.result.overall = "POLICY_BLOCKED" THEN "ESCALATE"
    ELSE IF x.reworks < Envelope[x.handoff.job].max_reworks THEN "REWORK"
    ELSE "ESCALATE"

\* What the loop decides about a task packet from the row it read.  (A branch
\* proposal is read back first: GitHubBroker.)
Verdict(x) ==
    IF x.result.partial = "UNCERTAIN_PARTIAL" THEN "BLOCK"
    ELSE IF x.result.overall = "SUCCESS" /\ x.result.clean THEN "ACCEPT"
    ELSE IF x.result.overall = "POLICY_BLOCKED" THEN "ESCALATE"
    ELSE IF x.reworks < Envelope[x.handoff.job].max_reworks THEN "REWORK"
    ELSE "ESCALATE"

\* _dan_recovery_eligible: a failure worth a recovery request.
Consults(x) ==
    /\ Relays # {}
    /\ Verdict(x) = "REWORK"
    /\ x.result.overall = "FAILED_CLOSED"

IdOf(x) == [job |-> x.handoff.job, fence |-> x.handoff.fence]

Decides(c) ==
    /\ In(c, "REVIEWING")
    /\ \E x \in room[c].todo :
          /\ IsNext(c, x)
          /\ ~Consults(x)
          /\ room' = [room EXCEPT ![c] = [@ EXCEPT !.place = "DECIDED",
                                                   !.decision = Verdict(x)]]
    /\ UNCHANGED vars
    /\ RunsAndRelaysKeep

\* recover: the request is inserted once per handoff.  A second one for the
\* handoff carries new timestamps, hence a new digest, and is refused as a
\* conflicting duplicate; the error is noted and the job reworked all the same.
Asks(c) ==
    /\ In(c, "REVIEWING")
    /\ \E x \in room[c].todo :
          /\ IsNext(c, x)
          /\ Consults(x)
          /\ IF \E q \in requests : q.id = IdOf(x)
             THEN /\ room' = [room EXCEPT ![c] = [@ EXCEPT !.place = "DECIDED",
                                                           !.decision = "REWORK"]]
                  /\ UNCHANGED requests
             ELSE /\ room' = [room EXCEPT ![c].place = "WAITING"]
                  /\ requests' = requests \cup
                       {[ id |-> IdOf(x), status |-> "PENDING",
                          owner |-> NoRelay, lease |-> "NONE",
                          answer |-> "NONE" ]}
    /\ UNCHANGED << vars, run, beat, stored, results, errand >>

\* The answer came, good or not, or the wait is over: rework in every case.
StopsWaiting(c) ==
    /\ In(c, "WAITING")
    /\ room' = [room EXCEPT ![c] = [@ EXCEPT !.place = "DECIDED",
                                             !.decision = "REWORK"]]
    /\ UNCHANGED vars
    /\ RunsAndRelaysKeep

\* What review() asks of a decision before it writes.
Grants(c, h, decision) ==
    /\ LeaderCurrent(c)
    /\ ~\E r \in reviews : r.job = h.job /\ r.fence = h.fence
    /\ Independent(c, h)
    /\ Reviewable(h)
    /\ decision \in {"ACCEPT", "REWORK"} => MayProceed(h.job, FALSE)
    /\ decision = "REWORK" =>
         jobs[h.job].reworks < Envelope[h.job].max_reworks

\* The same review again is answered with the stored one.
Repeats(c, h, decision) ==
    /\ LeaderCurrent(c)
    /\ \E r \in reviews :
          r.job = h.job /\ r.fence = h.fence /\ r.decision = decision

Advanced(row, x) ==
    [ place |-> IF row.todo = {x} THEN "LEADING" ELSE "REVIEWING",
      todo |-> row.todo \ {x}, decision |-> "NONE" ]

\* The review id is made of the handoff id, and the evidence never claims that
\* a quarantine was reconciled.
Reviews(c) ==
    /\ In(c, "DECIDED")
    /\ \E x \in room[c].todo :
          /\ IsNext(c, x)
          /\ \/ ReviewHandoff(c, x.handoff, room[c].decision, FALSE)
             \/ Repeats(c, x.handoff, room[c].decision) /\ UNCHANGED vars
          /\ room' = [room EXCEPT ![c] = Advanced(@, x)]
    /\ RunsAndRelaysKeep

\* Fault: the thread goes on with the token it has.
AbortsKeepingLead(c) ==
    /\ In(c, "DECIDED")
    /\ \E x \in room[c].todo :
          /\ IsNext(c, x)
          /\ ~Grants(c, x.handoff, room[c].decision)
          /\ ~Repeats(c, x.handoff, room[c].decision)
    /\ room' = [room EXCEPT ![c] = [NoRoom EXCEPT !.place = "LEADING"]]
    /\ UNCHANGED vars
    /\ RunsAndRelaysKeep

\* An exception in review() ends the round; the thread claims the lead anew and
\* starts again from the first pending handoff.
Aborts(c) ==
    /\ In(c, "DECIDED")
    /\ \E x \in room[c].todo :
          /\ IsNext(c, x)
          /\ ~Grants(c, x.handoff, room[c].decision)
          /\ ~Repeats(c, x.handoff, room[c].decision)
    /\ room' = [room EXCEPT ![c] = NoRoom]
    /\ UNCHANGED vars
    /\ RunsAndRelaysKeep

\* The heartbeat between two rounds finds another leader, or none.
LosesLead(c) ==
    /\ In(c, "LEADING")
    /\ ~LeaderCurrent(c)
    /\ room' = [room EXCEPT ![c] = NoRoom]
    /\ UNCHANGED vars
    /\ RunsAndRelaysKeep

\* stop(): another thread releases the lead with the token this one goes on
\* using until its round is over.
StopsService(c) ==
    /\ ~In(c, "OUT")
    /\ ReleaseLeader(c)
    /\ UNCHANGED threads

\* A crash, and the restart of the process under its instance id.
Restarts(c) ==
    /\ ~In(c, "OUT")
    /\ room' = [room EXCEPT ![c] = NoRoom]
    /\ UNCHANGED vars
    /\ RunsAndRelaysKeep

WatchLoop(c) ==
    \/ ClaimLead(c) \/ RenewLead(c) \/ ReadPending(c) \/ Decides(c)
    \/ Asks(c) \/ StopsWaiting(c) \/ Reviews(c) \/ Aborts(c) \/ LosesLead(c)

-----------------------------------------------------------------------------
(* Recovery requests: dan_relay_store behind dan_relay_http *)

ThreadsKeep == UNCHANGED << vars, run, beat, stored, results, room >>

Replaced(q, r) == requests' = (requests \ {q}) \cup {r}

Claimable(q) ==
    \/ q.status = "PENDING"
    \/ q.status = "CLAIMED" /\ q.lease = "LAPSED"

\* poll: claim_pending(limit = 1)
Polls(r) ==
    /\ errand[r] = NoRequest
    /\ \E q \in requests :
          /\ Claimable(q)
          /\ Replaced(q, [q EXCEPT !.status = "CLAIMED", !.owner = r,
                                   !.lease = "LIVE"])
          /\ errand' = [errand EXCEPT ![r] = q.id]
    /\ ThreadsKeep

\* Fault: a later answer replaces the first.
PostsOver(r) ==
    /\ errand[r] # NoRequest
    /\ \E q \in requests, answer \in {"GOOD", "POOR"} :
          /\ q.id = errand[r]
          /\ q.owner = r
          /\ Replaced(q, [q EXCEPT !.status = "COMPLETE", !.answer = answer])
    /\ errand' \in {errand, [errand EXCEPT ![r] = NoRequest]}
    /\ ThreadsKeep

\* result: complete() asks for the owner, not for its lease.  An answer that is
\* already there stays.  The reply may be lost, and the relay post again.
Posts(r) ==
    /\ errand[r] # NoRequest
    /\ \E q \in requests, answer \in {"GOOD", "POOR"} :
          /\ q.id = errand[r]
          /\ q.owner = r
          /\ IF q.status = "COMPLETE" THEN UNCHANGED requests
             ELSE Replaced(q, [q EXCEPT !.status = "COMPLETE",
                                        !.answer = answer])
    /\ errand' \in {errand, [errand EXCEPT ![r] = NoRequest]}
    /\ ThreadsKeep

\* A refused post, a failed model run, a relay that dies.  A request expires
\* two hours after it was made: relays then leave it as it is, as they may at
\* any time before.
Abandons(r) ==
    /\ errand[r] # NoRequest
    /\ errand' = [errand EXCEPT ![r] = NoRequest]
    /\ UNCHANGED requests
    /\ ThreadsKeep

RelayStep(r) == Polls(r) \/ Posts(r) \/ Abandons(r)

\* The lease of an answered request matters to nobody.
LapseClaim ==
    /\ \E q \in requests :
          /\ q.status = "CLAIMED"
          /\ q.lease = "LIVE"
          /\ Replaced(q, [q EXCEPT !.lease = "LAPSED"])
    /\ UNCHANGED errand
    /\ ThreadsKeep

-----------------------------------------------------------------------------

\* Owner, clock and guardian act as in FiveSeat.
Surroundings ==
    /\ \/ \E j \in Jobs : OwnerStep(j)
       \/ \E v \in 1 .. MaxVersion : SetSharedStateVersion(v)
       \/ ReconcileExpiredLeases
       \/ ClockStep
    /\ UNCHANGED threads

ServiceNext ==
    \/ \E w \in Workers : RunStep(w)
    \/ \E c \in Controllers : WatchLoop(c) \/ StopsService(c) \/ Restarts(c)
    \/ \E r \in Relays : RelayStep(r)
    \/ LapseClaim
    \/ Surroundings

ServiceSpec == ServiceInit /\ [][ServiceNext]_service

-----------------------------------------------------------------------------
(* Properties *)

\* Threads, registry and requests keep their shapes, and a thread outside a run
\* holds no token.
ServiceTypeOK ==
    /\ run \in [Workers -> Run]
    /\ beat \in [Workers -> {"OFF", "ON", "LOST"}]
    /\ stored \subseteq Replay
    /\ results \subseteq Payload
    /\ room \in [Controllers -> Room]
    /\ requests \subseteq Request
    /\ errand \in [Relays -> RequestId \cup {NoRequest}]
    /\ \A w \in Workers : At(w, "IDLE") <=> ~Holds(w)

\* The service is one of the clients FiveSeat allows: what holds of FiveSeat
\* holds of the service.
ImplementsFiveSeat == Spec

\* After WATCH has reviewed a result of a job, no later handoff of the job
\* repeats it: whatever the registry has stored, the work was done again by a
\* later claim.
ReworkIsFresh ==
    \A p, q \in results :
        /\ p.job = q.job
        /\ p.fence < q.fence
        /\ \E r \in reviews : r.job = p.job /\ r.fence = p.fence
        => q.result.made > p.fence

\* SUCCEEDED means that the whole packet succeeded with nothing left open, and
\* that nobody had asked to cancel it while it ran.
AcceptedIsWholeSuccess ==
    \A j \in Jobs : jobs[j].fabric_state = "SUCCEEDED" =>
        \E p \in results :
            /\ p.job = j
            /\ p.fence = jobs[j].checkpoint_ref
            /\ p.result.overall = "SUCCESS"
            /\ p.result.clean
            /\ p.result.partial = "NONE"

\* The first answer to a recovery request stands, whoever posts or polls later.
AnswersStand ==
    [][\A q \in requests :
          q.status = "COMPLETE" =>
              q \in requests']_service

\* WATCH threads keep looping; nothing else is needed to end a review.
FairService ==
    /\ ServiceSpec
    /\ \A c \in Controllers : WF_service(WatchLoop(c))

\* A handoff on which review() refuses the loop's decision, every time it
\* comes to it.
Jams(x) ==
    \/ ~Reviewable(x.handoff)
    \/ Verdict(x) \in {"ACCEPT", "REWORK"} /\ ~MayProceed(x.handoff.job, FALSE)

\* The instance allows no further leadership term, and the last one is over.
TermsUsedUp ==
    /\ leader.fence = MaxLeaderFence
    /\ \A c \in Controllers : In(c, "OUT") \/ ~LeaderCurrent(c)

\* The results of a job that wait for WATCH are all decided in the end, unless
\* one that jams the round stands before or among them, or the leadership terms
\* of the instance are used up: lost leadership, crashes and stops only delay
\* it.
PendingIsDecided ==
    \A j \in Jobs :
        (\E h \in handoffs : h.job = j /\ Undecided(h))
        ~> \/ ~\E h \in handoffs : h.job = j /\ Undecided(h)
           \/ TermsUsedUp
           \/ \E x \in PendingReviews :
                 /\ Envelope[x.handoff.job].rank <= Envelope[j].rank
                 /\ Jams(x)
=============================================================================
