-------------------------- MODULE CanonicalWriter --------------------------
(***************************************************************************)
(* The single canonical writer: canonical_writer.py over its three tables,  *)
(* the MCP tools of reliable_server.py that call it, and the delivery that  *)
(* the WATCH loop of five_seat_service.py does after an ACCEPT.             *)
(*                                                                         *)
(* Every method of PostgresCanonicalWriterQueue is one transaction under    *)
(* one advisory lock, so it is one action.  A tool call is several of them, *)
(* and a caller may die between any two.  A write is named by the WATCH     *)
(* review it comes from (review_id is UNIQUE in the queue).                 *)
(***************************************************************************)
EXTENDS Integers, Sequences, FiniteSets

CONSTANTS
    Reviews,         \* reviews of canonical candidates that WATCH may accept
    Editors,         \* sessions of the one writer identity, CANONICAL_WRITER_ID
    Controllers,     \* service processes, each with its WATCH thread
    Priority,        \* review -> the priority of its job
    ReconcileLimit,  \* limit of the claim tool's and the start-up's delivery
    WatchLimit,      \* limit of the delivery after an ACCEPT
    NoReview,
    Outcomes,        \* of an edit; FAILED_SAFE is closed as VERIFIED_COMPLETE is
    \* Bounds of the instance.
    MaxVersion,      \* shared-state versions published
    MaxCrashes,      \* callers that die in the middle of a call
    MaxHeartbeats    \* heartbeats of one claim

VARIABLES
    version,   \* jaytec_fabric_authority_state.current_shared_state_version
    accepted,  \* review -> its place in ORDER BY r.created_at, 0 before ACCEPT
    source,    \* review -> source_shared_state_version of its job
    queue,     \* jaytec_canonical_write_queue
    writer,    \* the CANONICAL row of jaytec_canonical_writer_state
    ledger,    \* review -> its events in jaytec_canonical_write_ledger
    calls,     \* caller -> where its call is and what it has yet to deliver
    tokens,    \* editor -> the CanonicalWriterToken it was handed
    crashes

vars == << version, accepted, source, queue, writer, ledger, calls, tokens,
           crashes >>

Callers == Editors \cup Controllers

Ends == {"VERIFIED_COMPLETE", "FAILED_SAFE", "QUARANTINED"}

\* CANCELLED is in the schema and never written.
WriteStates ==
    {"ABSENT", "PENDING_CHATGPT_APPROVAL", "APPROVED", "IN_FLIGHT",
     "SUPERSEDED"} \cup Ends

\* WRITER_HEARTBEAT rows, which are no transition, are left out.
Events ==
    {"WATCH_ENQUEUED", "CANONICAL_APPROVED", "WRITER_CLAIMED", "SUPERSEDED"} \cup Ends

QueueRow ==
    [ state : WriteStates,
      created : Nat,        \* place in created_at order
      fence : Nat ]         \* writer_fence_token (and epoch) of its claim

\* Every claimant signs with CANONICAL_WRITER_ID, so the owner is not a field.
WriterRow ==
    [ lease : {"NONE", "LIVE", "LAPSED"}, fence : Nat, renewals : Nat,
      active : Reviews \cup {NoReview} ]

NoWriteToken == [write |-> NoReview, fence |-> 0]
WriteToken   == [write : Reviews \cup {NoReview}, fence : Nat]

\* Where a call stands: it reads the accepts after an ACCEPT ("watch") or in the
\* claim tool and at start-up ("read"), enqueues a batch, reads its ticket;
\* a process is down until it starts again.
Places == {"idle", "watch", "read", "deliver", "ticket", "down"}
Idle   == [at |-> "idle", batch |-> {}]
Down   == [at |-> "down", batch |-> {}]
Call   == [at : Places, batch : SUBSET Reviews]

ASSUME CanonicalAssumption ==
    /\ IsFiniteSet(Reviews)
    /\ Priority \in [Reviews -> Nat]
    /\ {ReconcileLimit, WatchLimit} \subseteq Nat \ {0}
    /\ {MaxVersion, MaxCrashes, MaxHeartbeats} \subseteq Nat
    /\ Outcomes \subseteq {"VERIFIED_COMPLETE", "FAILED_SAFE", "QUARANTINED"}
    /\ NoReview \notin Reviews
    /\ Editors \cap Controllers = {}

-----------------------------------------------------------------------------
(* Reading *)

InFlight == {r \in Reviews : queue[r].state = "IN_FLIGHT"}

Undelivered == {r \in Reviews : accepted[r] > 0 /\ queue[r].state = "ABSENT"}

\* ORDER BY created_at LIMIT n, without an OFFSET.
Oldest(S, n) ==
    {r \in S : Cardinality({q \in S : accepted[q] < accepted[r]}) < n}

First(S) == {r \in S : \A q \in S : accepted[r] <= accepted[q]}

\* ORDER BY priority, created_at, write_id; no two rows are created together.
Precedes(r, q) ==
    \/ Priority[r] < Priority[q]
    \/ Priority[r] = Priority[q] /\ queue[r].created <= queue[q].created

Approved == {r \in Reviews : queue[r].state = "APPROVED"}

HeadOfQueue == {r \in Approved : \A q \in Approved : Precedes(r, q)}

\* The tuple that heartbeat, active_ticket and complete ask for.
EditorCurrent(e) ==
    /\ tokens[e].write \in Reviews
    /\ writer.active = tokens[e].write
    /\ writer.fence = tokens[e].fence
    /\ writer.lease = "LIVE"
    /\ queue[tokens[e].write].state = "IN_FLIGHT"

\* verify_ready: what start-up asks before the queue is served.
VerifyReady == Cardinality(InFlight) <= 1

-----------------------------------------------------------------------------
(* Writing *)

At(c, place) == calls[c].at = place

Goto(c, place) == calls' = [calls EXCEPT ![c].at = place]

\* _append_ledger: in the transaction of the change it records.
Logged(r, event) == [ledger EXCEPT ![r] = Append(@, event)]

\* Fault: the write is open for another claim.
VacatedForRetry(r) == [queue EXCEPT ![r].state = "APPROVED"]

\* Fault: the writer row is freed, the queue row is left.
WriterRowOnly(r) == queue

Contained(r) == [queue EXCEPT ![r].state = "QUARANTINED"]

WriterFreed ==
    [writer EXCEPT !.lease = "NONE", !.active = NoReview, !.renewals = 0]

WriterTaken(r) ==
    [lease |-> "LIVE", active |-> r, renewals |-> 0, fence |-> writer.fence + 1]

Init ==
    /\ version = 1
    /\ accepted = [r \in Reviews |-> 0]
    /\ source = [r \in Reviews |-> 0]
    /\ queue = [r \in Reviews |-> [state |-> "ABSENT", created |-> 0, fence |-> 0]]
    /\ writer = [lease |-> "NONE", fence |-> 0, renewals |-> 0, active |-> NoReview]
    /\ ledger = [r \in Reviews |-> << >>]
    /\ calls = [c \in Callers |-> Idle]
    /\ tokens = [e \in Editors |-> NoWriteToken]
    /\ crashes = 0

-----------------------------------------------------------------------------
(* The fabric around it *)

SetSharedStateVersion(v) ==
    /\ v > version
    /\ version' = v
    /\ UNCHANGED << accepted, source, queue, writer, ledger, calls, tokens,
                    crashes >>

\* review() accepts only results of the current version; the WATCH loop then
\* delivers, outside the review's transaction.
WatchAccept(c, r) ==
    /\ At(c, "idle")
    /\ accepted[r] = 0
    /\ accepted' = [accepted EXCEPT
                      ![r] = 1 + Cardinality({q \in Reviews : accepted[q] > 0})]
    /\ source' = [source EXCEPT ![r] = version]
    /\ Goto(c, "watch")
    /\ UNCHANGED << version, queue, writer, ledger, tokens, crashes >>

-----------------------------------------------------------------------------
(* Delivery: reconcile_watch_accepts *)

Limit(c) == IF At(c, "watch") THEN WatchLimit ELSE ReconcileLimit

\* A delivery that has nothing left returns to the WATCH round or ends the
\* start-up; in the claim tool the claim follows.
Delivering(c, batch) ==
    IF batch = {} /\ c \in Controllers THEN Idle
                                      ELSE [at |-> "deliver", batch |-> batch]

\* The list is read in a transaction of its own; each row is then enqueued in
\* its own transaction.
ReadAccepts(c) ==
    /\ At(c, "watch") \/ At(c, "read")
    /\ calls' = [calls EXCEPT
                   ![c] = Delivering(c, Oldest(Undelivered, Limit(c)))]
    /\ UNCHANGED << version, accepted, source, queue, writer, ledger, tokens,
                    crashes >>

\* enqueue_from_watch refuses a review of another version, and returns the row
\* that exists.
Enqueues(r) == source[r] = version /\ queue[r].state = "ABSENT"

NewRow == [ state |-> "PENDING_CHATGPT_APPROVAL", fence |-> 0,
            created |-> 1 + Cardinality({q \in Reviews : queue[q].created > 0}) ]

\* Fault: an error ends the whole delivery.
RestOfBatchUnlessRefused(c, r) ==
    IF source[r] = version THEN calls[c].batch \ {r} ELSE {}

\* An error is collected and the next row follows.
RestOfBatch(c, r) == calls[c].batch \ {r}

Deliver(c, r) ==
    /\ At(c, "deliver")
    /\ r \in First(calls[c].batch)
    /\ calls' = [calls EXCEPT ![c] = Delivering(c, RestOfBatch(c, r))]
    /\ IF Enqueues(r)
       THEN /\ queue' = [queue EXCEPT ![r] = NewRow]
            /\ ledger' = Logged(r, "WATCH_ENQUEUED")
       ELSE UNCHANGED << queue, ledger >>
    /\ UNCHANGED << version, accepted, source, writer, tokens, crashes >>

-----------------------------------------------------------------------------
(* Approval: approve, with the five preflight flags set *)

\* A repeated approval is returned or refused; PENDING is left for good when
\* the version moves.
Approve(r) ==
    /\ queue[r].state = "PENDING_CHATGPT_APPROVAL"
    /\ source[r] = version
    /\ queue' = [queue EXCEPT ![r].state = "APPROVED"]
    /\ ledger' = Logged(r, "CANONICAL_APPROVED")
    /\ UNCHANGED << version, accepted, source, writer, calls, tokens, crashes >>

-----------------------------------------------------------------------------
(* The tool canonical_writer_claim_next: contain, deliver, claim, ticket *)

\* contain_expired_inflight, the first transaction of the tool and of start-up.
ContainExpired ==
    IF writer.active # NoReview /\ writer.lease = "LAPSED"
    THEN /\ queue' = Contained(writer.active)
         /\ writer' = WriterFreed
         /\ ledger' = Logged(writer.active, "QUARANTINED")
    ELSE UNCHANGED << queue, writer, ledger >>

StartClaim(e) ==
    /\ At(e, "idle")
    /\ ContainExpired
    /\ Goto(e, "read")
    /\ UNCHANGED << version, accepted, source, tokens, crashes >>

\* The delivery of the claim tool is done.
MayClaim(e) == calls[e] = [at |-> "deliver", batch |-> {}]

\* Fault: an expired lease is enough.
WriterIdleOrLapsed == InFlight = {} \/ writer.lease = "LAPSED"

\* An IN_FLIGHT row refuses every claim, whatever its lease.
WriterIdle == InFlight = {}

\* The state row and the queue row in one transaction.
ClaimWrite(e, r) ==
    /\ MayClaim(e)
    /\ WriterIdle
    /\ r \in HeadOfQueue
    /\ source[r] = version
    /\ writer' = WriterTaken(r)
    /\ queue' = [queue EXCEPT ![r] = [@ EXCEPT !.state = "IN_FLIGHT",
                                               !.fence = WriterTaken(r).fence]]
    /\ ledger' = Logged(r, "WRITER_CLAIMED")
    /\ tokens' = [tokens EXCEPT ![e] =
                    [write |-> r, fence |-> WriterTaken(r).fence]]
    /\ Goto(e, "ticket")
    /\ UNCHANGED << version, accepted, source, crashes >>

\* Only the head is looked at, one per call.
ClaimSupersedes(e, r) ==
    /\ MayClaim(e)
    /\ WriterIdle
    /\ r \in HeadOfQueue
    /\ source[r] # version
    /\ queue' = [queue EXCEPT ![r].state = "SUPERSEDED"]
    /\ ledger' = Logged(r, "SUPERSEDED")
    /\ Goto(e, "idle")
    /\ UNCHANGED << version, accepted, source, writer, tokens, crashes >>

\* canonical_write_already_in_flight, or nothing approved.
ClaimNothing(e) ==
    /\ MayClaim(e)
    /\ ~WriterIdle \/ HeadOfQueue = {}
    /\ Goto(e, "idle")
    /\ UNCHANGED << version, accepted, source, queue, writer, ledger, tokens,
                    crashes >>

\* active_ticket reads the row back; a token that is stale already is not
\* handed out.
ReadTicket(e) ==
    /\ At(e, "ticket")
    /\ Goto(e, "idle")
    /\ tokens' = IF EditorCurrent(e) THEN tokens
                 ELSE [tokens EXCEPT ![e] = NoWriteToken]
    /\ UNCHANGED << version, accepted, source, queue, writer, ledger, crashes >>

-----------------------------------------------------------------------------
(* The editor at work *)

Renewed == [writer EXCEPT !.lease = "LIVE", !.renewals = @ + 1]

\* Fault: an expired lease may be renewed.
HeartbeatLate(e) ==
    /\ At(e, "idle")
    /\ tokens[e].write \in Reviews
    /\ writer.active = tokens[e].write
    /\ queue[tokens[e].write].fence = tokens[e].fence
    /\ writer.renewals < MaxHeartbeats
    /\ writer' = Renewed
    /\ UNCHANGED << version, accepted, source, queue, ledger, calls, tokens,
                    crashes >>

\* The lease is renewed while it runs; its ledger row is no transition.
Heartbeat(e) ==
    /\ At(e, "idle")
    /\ EditorCurrent(e)
    /\ writer.renewals < MaxHeartbeats
    /\ writer' = Renewed
    /\ UNCHANGED << version, accepted, source, queue, ledger, calls, tokens,
                    crashes >>

\* The editor has merged and verified, found nothing done, or cannot tell.
Complete(e, outcome) ==
    /\ At(e, "idle")
    /\ EditorCurrent(e)
    /\ queue' = [queue EXCEPT ![tokens[e].write].state = outcome]
    /\ writer' = WriterFreed
    /\ ledger' = Logged(tokens[e].write, outcome)
    /\ tokens' = [tokens EXCEPT ![e] = NoWriteToken]
    /\ UNCHANGED << version, accepted, source, calls, crashes >>

-----------------------------------------------------------------------------
(* Time and crashes *)

LapseLease ==
    /\ writer.lease = "LIVE"
    /\ writer' = [writer EXCEPT !.lease = "LAPSED"]
    /\ UNCHANGED << version, accepted, source, queue, ledger, calls, tokens,
                    crashes >>

\* The process dies, or the answer of the tool is lost on its way.
Crash(c) ==
    /\ crashes < MaxCrashes
    /\ ~At(c, "idle") /\ ~At(c, "down")
    /\ crashes' = crashes + 1
    /\ calls' = [calls EXCEPT ![c] = IF c \in Controllers THEN Down ELSE Idle]
    /\ tokens' = [e \in Editors |-> IF e = c THEN NoWriteToken ELSE tokens[e]]
    /\ UNCHANGED << version, accepted, source, queue, writer, ledger >>

\* Start-up verifies, contains and delivers before anything is served.
StartUp(c) ==
    /\ At(c, "down")
    /\ VerifyReady
    /\ ContainExpired
    /\ Goto(c, "read")
    /\ UNCHANGED << version, accepted, source, tokens, crashes >>

-----------------------------------------------------------------------------

ClaimCall(e) ==
    \/ \E r \in Reviews : ClaimWrite(e, r) \/ ClaimSupersedes(e, r)
    \/ ClaimNothing(e)
    \/ ReadTicket(e)

Delivery(c) ==
    \/ ReadAccepts(c)
    \/ \E r \in Reviews : Deliver(c, r)

EditorStep(e) ==
    \/ StartClaim(e)
    \/ ClaimCall(e)
    \/ Heartbeat(e)
    \/ \E o \in Outcomes : Complete(e, o)

Next ==
    \/ \E v \in 1 .. MaxVersion : SetSharedStateVersion(v)
    \/ \E c \in Controllers, r \in Reviews : WatchAccept(c, r)
    \/ \E c \in Callers : Delivery(c) \/ Crash(c)
    \/ \E r \in Reviews : Approve(r)
    \/ \E e \in Editors : EditorStep(e)
    \/ \E c \in Controllers : StartUp(c)
    \/ LapseLease

Spec == Init /\ [][Next]_vars

-----------------------------------------------------------------------------
(* Invariants *)

\* Every row keeps the shape of its table.
TypeOK ==
    /\ version \in Nat
    /\ accepted \in [Reviews -> Nat]
    /\ source \in [Reviews -> Nat]
    /\ queue \in [Reviews -> QueueRow]
    /\ writer \in WriterRow
    /\ ledger \in [Reviews -> Seq(Events)]
    /\ calls \in [Callers -> Call]
    /\ tokens \in [Editors -> WriteToken]
    /\ crashes \in Nat

\* The state row and the queue describe one claim: the write in flight is the
\* active one, under the writer's fence, and there is no other.  Claim,
\* completion and containment each write both tables.
WriterAgreesWithQueue ==
    /\ InFlight = {writer.active} \ {NoReview}
    /\ writer.lease = "NONE" <=> writer.active = NoReview
    /\ \A r \in InFlight : queue[r].fence = writer.fence
    /\ \A r \in Reviews : queue[r].fence <= writer.fence

\* An editor whose token carries its write's fence is the one that claimed it,
\* and two editors, who share one owner name, are never both current.
EditorsAreExclusive ==
    \A d, e \in Editors : EditorCurrent(d) /\ EditorCurrent(e) => d = e

Told(event) ==
    CASE event = "WATCH_ENQUEUED"     -> "PENDING_CHATGPT_APPROVAL"
      [] event = "CANONICAL_APPROVED" -> "APPROVED"
      [] event = "WRITER_CLAIMED"     -> "IN_FLIGHT"
      [] OTHER                        -> event

\* The ledger tells the whole story: its last event for a write is the state of
\* the write, and a write without events is not in the queue ("Every material
\* queue transition is appended").
LedgerTellsState ==
    \A r \in Reviews :
        queue[r].state = IF ledger[r] = << >> THEN "ABSENT"
                         ELSE Told(ledger[r][Len(ledger[r])])

\* An expired or uncertain edit is never retried: the ledger has one claim of a
\* write, and nothing after the claim's outcome.
EditedOnce ==
    \A r \in Reviews :
        /\ \A i, j \in DOMAIN ledger[r] :
              ledger[r][i] = "WRITER_CLAIMED" /\ ledger[r][j] = "WRITER_CLAIMED"
                 => i = j
        /\ \A i \in DOMAIN ledger[r] :
              ledger[r][i] \in Ends \cup {"SUPERSEDED"} => i = Len(ledger[r])

\* An editor that lost its write never gets back in, through heartbeats, the
\* containment of its lease and the claims of others under the same name.
EditorsFencedForever ==
    [][\A e \in Editors :
          /\ tokens[e].write \in Reviews
          /\ tokens'[e] = tokens[e]
          /\ ~EditorCurrent(e)
          => ~EditorCurrent(e)']_vars

-----------------------------------------------------------------------------
(* What it implements *)

Stage(r) ==
    CASE queue[r].state = "ABSENT"                   -> "unknown"
      [] queue[r].state = "PENDING_CHATGPT_APPROVAL" -> "offered"
      [] queue[r].state = "APPROVED"                 -> "granted"
      [] queue[r].state = "IN_FLIGHT"                -> "editing"
      [] OTHER                                       -> "closed"

Serial == INSTANCE SerialWriter WITH Writes <- Reviews,
                                     stage <- [r \in Reviews |-> Stage(r)]

\* The three tables implement a serial writer: one edit at a time, one edit per
\* write, and no write reopened.
ImplementsSerialWriter == Serial!Spec

-----------------------------------------------------------------------------
(* Progress *)

\* The writer's identity asks for work again and again and every call runs to
\* its end unless its process dies; leases run out.  Nothing is assumed of
\* approvals, of completions, or of WATCH.
Fairness ==
    /\ \A e \in Editors : WF_vars(StartClaim(e)) /\ WF_vars(ClaimCall(e))
    /\ \A c \in Callers : WF_vars(Delivery(c))
    /\ WF_vars(LapseLease)

FairSpec == Spec /\ Fairness

\* A write whose editor is gone leaves the writer free: nothing but a later
\* call contains it.
EditsEnd ==
    \A r \in Reviews : queue[r].state = "IN_FLIGHT" ~> queue[r].state # "IN_FLIGHT"

\* Accepts that no delivery can enqueue any more, older than r.
OlderStale(r) ==
    {q \in Undelivered : source[q] # version /\ accepted[q] < accepted[r]}

\* "accepted canonical candidates are reconciled from durable WATCH reviews":
\* unless its version moves on, an accepted candidate is queued whatever crashed
\* between its ACCEPT and its delivery -- as long as fewer stale accepts stand
\* before it than one delivery reads.
AcceptsAreDelivered ==
    \A r \in Reviews :
        accepted[r] > 0
            ~> \/ queue[r].state # "ABSENT"
               \/ source[r] # version
               \/ Cardinality(OlderStale(r)) >= ReconcileLimit
=============================================================================
