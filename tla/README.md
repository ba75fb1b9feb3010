# The five-seat fabric in TLA+

A verification project for the JAYTEC bridge: what its durable worker fabric,
the service around it, the canonical writer, the GitHub broker and the bridge's
own task queue promise, as TLA+ modules checked with TLC and theorems proved
with TLAPS. File names below are those of the repository's root.

## 1. The system

The repository is a Python service around a Postgres database. Its core is the
*five-seat continuous worker fabric*: jobs are submitted, admitted to one of
five worker seats under collision rules, executed by an adapter under a lease,
handed off as immutable evidence, and reviewed by an out-of-band controller
(WATCH). Everything that matters is a row; every operation is one transaction.

| Component | State it keeps | Operations | Talks to |
|---|---|---|---|
| Intake, `five_seat_queue.py` | inserts `jaytec_jobs`, `jaytec_fabric_envelopes` | `submit` | authority version (read), work signal |
| Owner authority, `five_seat_authority.py` | `jaytec_fabric_authority_state`, `jaytec_fabric_approvals`, job states | `set_current_shared_state_version`, `approve_job`, `revoke_job` | jobs |
| Scheduler, `five_seat_runtime.py` | `jaytec_worker_seats`, job leases and fences, `jaytec_worker_handoffs` | `claim_next`, `heartbeat`, `release_for_review` | concurrency rules, circuits, operations (read) |
| Concurrency rules, `concurrency.py` | none | `scopes_overlap`, `concurrency_decision`, `duplicate_assignment`, `select_runnable_jobs`; legacy scheduler | called by the scheduler |
| Remedies, `five_seat_remedies.py` | jobs, seats, `jaytec_fabric_circuits` | `request_cancel`, `acknowledge_cancel`, `safe_retry`, `record_adapter_failure/success`, `quarantine_current`, `reconcile_expired_leases` | operations (read) |
| WATCH, `five_seat_watch.py` | `jaytec_watch_leader`, `jaytec_watch_reviews`, job states | `claim_leader`, `heartbeat`, `release_leader`, `review` | handoffs, approvals, operations (read) |
| Operation journal, `job_runtime.py` | `jaytec_operations` | `prepare_operation`, `transition_operation` | job leases (read) |
| Legacy runtime, `job_runtime.py` | jobs, steps, events | `claim_job`, `heartbeat`, `checkpoint_job`, `complete_job`, `guardian_audit` | shares the job table |
| Worker loop, `five_seat_worker.py` | a token per thread, heartbeat thread | `run_once`, `run_forever` | scheduler, remedies, adapters |
| Service, `five_seat_service.py` | threads, WATCH token | worker pool, WATCH loop, guardian loop | all of the above |
| Canonical writer, `canonical_writer.py` | writer state, write queue, hash-chained ledger | enqueue, approve, claim, heartbeat, complete, reconcile | WATCH accepts |
| Durable tasks, `durable_tasks*.py` | task table with leases | create, claim, renew, finish | bridge server |
| DAN relay, `dan_relay_store.py`, `dan_relay_http.py` | `jaytec_dan_relay_jobs` | `recover` (submit and poll), `claim_pending`, `complete` | WATCH recovery, relay processes over HTTP |
| GitHub broker, `five_seat_github_broker.py` | none of its own; branches and pull requests | `execute`, `verify_result` | GitHub, worker loop, WATCH |
| Packet execution, `orchestration.py`, `reliability_registry.py`, `idempotency_postgres.py` | `execution_registry` | `execute_task_packet_core`, lookup, store, prune | specialists |
| Guardian, `guardian.py`, `guardian_runtime.py` | findings; job rows | `audit`, `bounded_repair` | durable tasks |
| Bridge, `server.py`, `reliable_server.py`, ...; meeting bus, specialists, courier | caches, circuit breakers | MCP tools, provider calls | Notion, OpenAI, Gemini; all of the above |
| Reports, diagnostics, operator tools | none, or one-off row fixes | | read the tables |

What is hard about the fabric: transactions of several worker and WATCH threads
interleave; any of them may crash, sleep past its lease and come back; threads
of one instance sign with the same owner string; external effects may be in
flight when a lease lapses; the owner cancels, revokes and re-approves at any
moment; the shared-state version moves under queued, running and reviewed work;
admission is a walk over a queue in which rows are skipped, passed over, or
make the whole transaction fail. Around it, work is made of many calls and a
thread may fail between any two: `run_once` with a keepalive thread beside it,
the WATCH round, the writer's claim tool (four transactions), the broker's ten
kinds of requests, an execution between the registry's lookup and its store.
`PROJECT.json` lists these hazards at their lines with the properties that
would catch each.

What makes each component correct:

- scheduler: job and seat rows agree; one current claim per job and per seat;
  lost authority never returns; live jobs satisfy the collision rules; a
  runnable job is claimed.
- remedies: a dead worker's seat comes back; work with an unresolved effect is
  never blindly retried; cancels are final; retries are bounded; circuits open
  at their threshold and never stay half open.
- WATCH: one leader; one decision per handoff; nobody accepts its own work;
  only settled work succeeds.
- authority: finished work stays finished unless revoked.
- service: its threads use the handlers as the fabric allows; rework is new
  work; only a whole success is accepted; a handoff is decided in the end.
- relay: the first answer stands.
- canonical writer: one edit at a time, each write edited at most once, an
  uncertain edit never retried, accepted writes reach the queue.
- GitHub broker: what is accepted is what was attested; nothing is overwritten;
  who reports "failed before side effect" has written no file (the branch itself
  may be left behind: `LostReply`); a handoff is decided.
- durable tasks: job and packet rows agree; executions stay within the budget; a
  job gets the answer to its own packet; an answer in which codex or gemini timed
  out is never final (one in which sol did may be: `SolTimeout`); every packet
  settles.

## 2. Modules

| Module | What it is |
|---|---|
| `Concurrency` | the admission rules of `concurrency.py` and `quarantine_conflict`, as operators over immutable envelopes |
| `FiveSeat` | the fabric's tables and one action for every transaction that writes them; implements `JobLedger` for every job |
| `FabricService` | the threads of `five_seat_service.py`, each calling `FiveSeat`'s handlers in the order of its code, with the packet registry and the recovery relay; implements `FiveSeat` |
| `JobLedger` | what the fabric promises about one job: held by one claim after another, delivered once by a claim or never, decided once per delivery and by another than the worker, done by an ACCEPT alone |
| `SerialWriter` | the abstract canonical writer: offered, granted, edited alone, closed |
| `CanonicalWriter` | `canonical_writer.py` with the tools that call it and WATCH's delivery; implements `SerialWriter` |
| `GitHubBroker` | `five_seat_github_broker.py` request by request, with GitHub and its users as those requests use them |
| `PacketExecution` | what one execution of a task packet makes of the specialists' replies, and what the registry replays, as operators |
| `DurableTasks` | the bridge's own queue, its workers, its guardian and the synchronous call, over `PacketExecution` |
| `MC...` | instances for TLC |
| `FiveSeat_proofs` | types, claims, isolation, leadership, circuits |
| `FiveSeatLifecycle_proofs` | the life of a job, from its ledger to its budget |
| `FabricService_proofs` | that the service is a client `FiveSeat` allows |
| `FabricServiceResults_proofs` | what its threads know of results and answers |
| `CanonicalWriter_proofs`, `GitHubBroker_proofs`, `DurableTasks_proofs` | the theorems about these modules |

The fabric and the durable queue exclude each other at start-up
(`reliable_server.py:500-530`), which is why nothing composes the two.

### FiveSeat

`FiveSeat` keeps the tables as variables: `jobs`, `seats`, `circuits`,
`operations`, `handoffs`, `reviews`, `leader`, the current `version`, the
jobs with an unexpired approval (`approved`) and those past their packet
deadline (`overdue`). Two variables are outside the database: `held`, the lease
token a worker thread keeps, and `mandate`, the leader token a WATCH thread
keeps. They are what makes stale callers possible: a token stays with its
thread until the thread drops it or claims again, and every handler may be
called with it at any time. That is more general than `run_once`, so whatever
holds here holds for the real worker.

How the code maps to it:

- One handler is one transaction with row locks, hence one action. What the
  guards of the code refuse (an exception, an early return) is a step that is
  not taken; what they commit before returning early is (`ClaimNothing` commits
  the stale sweep).
- `claim_next` is `ClaimNext(w, locked)`. `locked` is the set of candidate rows
  some other transaction holds (`FOR UPDATE ... SKIP LOCKED`). The walk over
  the ranked candidates is the conjunct "every earlier candidate was passed
  over"; a candidate without current authority is never passed over, because
  `_assert_current_authority` raises inside the loop.
- `ownership_epoch` and `fence_token` always advance together, so one number
  stands for the pair. A handoff is named by its job and fence, as in the table's
  UNIQUE constraint, and `checkpoint_ref` is that fence.
- `status` and `fabric_state` are written as a pair by every statement; the
  model keeps the second.
- Time is abstract. A lease is `NONE`, `LIVE` or `LAPSED`; `delayed`, `due` and
  `overdue` are the comparisons of `next_attempt_at`, `open_until` and the
  packet deadline with now(). The clock actions change them. The two leases of
  a claim are written with one now() and lapse together.
- Envelopes are immutable: class, scopes, resources, collision key,
  dependencies, task identity, worker kind, approval need, rank, budgets. Scope
  paths are sequences of parts, so prefix overlap is modelled as it is computed.
- Left out: payloads, digests, event rows, notifications, cost figures, the
  wording of reasons. An approval is valid or not; its hash and cost cap are
  fixed by the job's immutable envelope.
- Republishing the version that is current changes no modelled row: a stutter.

`Ledger(j)` reads the columns of job j as a `JobLedger`: `Stage(j)` from
`fabric_state`, the fence as the term, `checkpoint_ref` as the last delivery, its
handoffs as deliveries and its reviews as decisions. One step may move several
ledgers (reconciliation ends several claims), so `ImplementsJobLedger` asks of
every step that it is, for each job, a step of that job's ledger or a stutter.

### FabricService

`EXTENDS FiveSeat`; every step is a handler of `FiveSeat` taken together with a
move of the thread that calls it, or a move of a thread alone.

- `run` is where a worker thread stands in `run_once`: claim, first cancel check,
  registry lookup, provider call, second cancel check, handoff. `beat` is its
  keepalive thread, which stops at its first failure (`lost_lease`). Any call may
  raise, and `run_forever` then polls again: `RunEnds` at every place.
- `stored` is the execution registry. The key under which a packet runs is its
  own, and after a review one that carries the fence of the claim.
- `results` holds the handoffs' payloads as the WATCH verdict reads them: the
  overall status, whether anything is left open, whether a side effect is
  uncertain, and the fence of the claim whose provider call made it.
- `room` is where the WATCH loop stands in a round, with the rows
  `pending_reviews` returned: they grow stale while the round goes on. An
  exception ends the round and gives the leadership up.
- `requests` and `errand` are the recovery requests and the relay processes that
  answer them; claims of requests lapse, replies of posts are lost.

### CanonicalWriter

A write is named by its WATCH review (`review_id` is UNIQUE). Every method of
`PostgresCanonicalWriterQueue` runs under one advisory lock, hence one action;
`calls` says where a caller is between them: the claim tool contains, delivers,
claims, reads its ticket; WATCH accepts, then delivers. All editors sign with one
owner name. Time is the writer's lease: `NONE`, `LIVE`, `LAPSED`. The hash chain
is left out: the ledger is the sequence of events of each write.

### GitHubBroker

A claim is a job and its fence; its branch is named by the fence and the job's
slug alone. A branch is its sequence of commits, each with its tree and the claim
that made it, and its latest pull request. Every request is an action; a request
may fail, or be done and its reply be lost. A worker whose lease is gone goes on.
WATCH reads back in four kinds of requests, and others act between them. The
scheduler is reduced to what these jobs see: one at a time, one attempt, owner
re-approval. `authority` is what `review()` asks of an ACCEPT beyond the handoff: it
may run out and be given again (the approval), or be lost for good (the shared state
moved, a cancel came); without it the decision raises, the round ends and the handoff
stays pending (`RefuseAccept`). Checks on names, sizes and tokens refuse before any
request and are taken as passed.

### PacketExecution and DurableTasks

`PacketExecution` gives the statuses one execution can end with, from what each
specialist replies (an answer, a broken contract, an exception, a refused call),
and the registry's decision to keep or replay a result. `DurableTasks` has the
job row and the packet row as one record with two statuses, the registry, and
for every thread where its execution stands. The guardian is two steps, `Audit`
and `Repair`: its findings may be out of date when they are repaired. Two
processes sign with one owner name, as the background worker and
`durable_worker_kick` do.

## 3. Runs

| Run | Question | Expected |
|---|---|---|
| `Seats` | three jobs, two seats, two threads with one owner name, failing adapters, a version change: are claims exclusive, is fencing final, do jobs that exclude each other stay apart, does everything end? | holds |
| `Lifecycle` | one owner-gated job, all owner actions, an operation journal, two WATCH threads of which one signs like the worker: is the path to SUCCEEDED sound, and are the tables the ledger the document promises? | holds |
| `GatedAdmission` | is a runnable job behind a job with an expired approval claimed? | violated |
| `StaleReconcile` | is a seat freed only when its effects are contained? | violated |
| `RevokedRetry` | is there no blind retry? | violated |
| `LapsedSurface` | does an unresolved effect hold its surface? | violated |
| `FabricService` | one packet, a worker thread, a WATCH thread and a relay, with failures between any two calls: is the service a client `FiveSeat` allows, is rework new, is only whole success accepted, is everything decided? | holds |
| `CanonicalWriter` | two writes, two sessions of the writer, WATCH's delivery, a crash and a version change: is there one edit at a time and one per write, and do accepted writes arrive? | holds |
| `GitHubBroker` | two jobs of one slug, claimed up to twice, requests and replies lost: is what is accepted what was attested, and is every handoff decided? | holds |
| `DurableTasks` | two packets that may be duplicates, two workers, the guardian, a synchronous caller: budget, own answers, no success with a codex or gemini that timed out, everything settles? | holds |
| `LostReply` | does a worker that reports "failed before side effect" leave nothing on GitHub? | violated |
| `SolTimeout` | is a result in which a specialist timed out never replayed? | violated |

The first six are runs of `MCFiveSeat`; `LostReply` is one of `MCGitHubBroker`,
`SolTimeout` one of `MCDurableTasks`, the others of the `MC` module of their name.

The violated properties of `MCFiveSeat` state sentences of
`docs/FIVE_SEAT_CONTINUOUS_FABRIC_V1.md` (lines 249, 127, 272, 181). That of
`LostReply` states `five_seat_worker.py:84-85` (all ambiguous failures are handed off
as `UNCERTAIN_PARTIAL`): the broker notes a side effect only once GitHub has
answered, so a lost reply to the creation of the branch is reported as none. That of
`SolTimeout` states `reliability_registry.py:11-13` and `35`: only codex's and
gemini's statuses are looked at. The counterexamples are the findings of
`PROJECT.json`.

Bounds. `MaxFence` stops claims and cancellations at a fence: 5 gives the job of
`Lifecycle` its first claim, a retry, a rework round or reconciliation, and a
re-claim after each; in `Seats` the attempts end
before the bound does: the third job may be claimed twice, by either thread, which is
where stale tokens meet new ones. `MaxVersion` 2 is one
change of version under running work. `MaxFailures` counts to the threshold of 2, so
a circuit closes, opens, is probed and reopens. Two seats and two threads are the
least that show a seat reused while its former holder returns. The three jobs of
`Seats` are a head of queue that depends on the third, which nothing accepts in this
run (there is no WATCH thread in it), and a reader and a writer of one scope, which
may run in either order but not together; the writer is a packet whose deadline may
pass while it waits (admission alone asks for the deadline). One worker and one job suffice for
`Lifecycle` because its properties speak of one job; its leadership has one term, the
service's run has three.
`OperationJobs`, `ApproveInputs`, `CancelInputs` and `RevokeInputs` name the
jobs for which the environment takes these actions. One operation per claim is
journalled: only "some operation is unresolved" is ever asked. The
journal's handlers (`prepare_operation`, `transition_operation`) have no caller
among the repository's entry points, so `OperationJobs` stands for adapters
that journal their effects; `SettleOperation` is external, the verification of
a quarantined effect that `test_five_seat_fs08_hardening.py` does with an UPDATE. There is no
symmetry: jobs are ranked and seats ordered. The instance of `Seats` leaves
approvals out, for the reason `GatedAdmission` shows. Deadlock is checked in
these runs and in `CanonicalWriter`.

`FabricService`: fence 4 is a first claim, a retry or a lapse, a rework and its
re-claim; three leadership terms let WATCH lose its term twice. One job and one
worker: admission among several is the business of the runs above, and the safety
part was also run with two workers at fence 3. The specialists answer one of three
ways, which the verdict tells apart; the packet has a deadline, which may pass;
adapters fail retryably or with an error the loop does not classify. When fences and
terms are used up nothing is left to do, hence no deadlock check.

`CanonicalWriter`: two versions, one crash, one heartbeat; the batch of a delivery
after an ACCEPT is one of the two writes, so deliveries leave work behind.

`GitHubBroker`: two paths, of which one exists on the base; the jobs' changes nest
or contradict each other, and share the slug, so that equal fences meet on one
branch; every change expects the blob of the base. Two claims in all, two lost
requests or replies (WATCH restarts count among them), one close or merge; authority
may be lost and given again at any time while a handoff waits. It ends when the claims
are used up. `LostReply` needs one claim and one lost reply.

`DurableTasks`: two packets that ask for the same task, one with a retry; the
registry starts empty or with a half-done row of an older version; specialists
answer or time out. `MaxFaults` bounds the unforced failures together: crashes,
lost keepalives, exceptions, clients that hang up, deadlines, expiring rows. With
one of them every place of an execution is hit by each kind; two give more than a
million states and were not run to the end with liveness. It ends when all is
settled. `SolTimeout` is one packet for gemini and sol, which may not be retried, in a
queue and under a synchronous call, without any fault but the provider's.

Fairness (`FairSpec`). Each worker thread calls `claim_next` again and again
(`run_forever`) and ends every run it starts (`DropToken`, weakly fair); the
maintenance loop reconciles; clocks advance. The fair claim is the one that
finds no row locked: a row lock lasts one transaction. A lease is assumed to
lapse eventually; a heartbeat renews it only while its run lasts. Nothing is
assumed of the owner, of WATCH, or of any worker's success.

In the other modules only loops of the code are fair. `FabricService` needs the
WATCH thread to go on (`_watch_loop` never returns before a stop); neither workers
nor relays. `CanonicalWriter` assumes that the writer's identity asks for work
again and again, that calls run to their end unless their process dies, and that
leases lapse; nothing of approvals, of completions or of WATCH. `GitHubBroker`
assumes that requests are answered or time out, that finished workers hand off
and that WATCH runs. `DurableTasks` assumes the pool's threads, the guardian's
loop, the time-outs of provider calls, and that unrenewed leases and retry delays
run out.

Three liveness properties name an exception, and the exception is what the code
does. `PendingIsDecided` exempts a handoff behind one that *jams* the round: a
cancel during a packet's execution leaves a `QUARANTINED` handoff without side
effect, the verdict is `REWORK`, `review()` refuses it, and the round starts over
with the same row at its head. `AcceptsAreDelivered` exempts an accept behind as
many accepts of old versions as one delivery reads: those never get a queue row
and are read first each time. `HandoffsAreDecided` asks that candidates do not stay
without authority: `review()` refuses the ACCEPT of such a one, and the round ends
there each time WATCH comes to it. (`EverySettles` says of a blocked duplicate only
that it is behind the job it duplicates; nothing unblocks it later.)

## 4. Proofs

Every safety invariant and every action property of the passing runs is proved
here, and `LeadershipIsExclusive` besides, which no run checks: two WATCH threads
beside each other for two terms, on top of the claims, are more states than a run has
time for. The `TypeOK` of each module has its theorem and no run. What stays with TLC
is at the end of the section.

### FiveSeat

`FiveSeat_proofs` proves, for any number of seats, jobs, threads and any bounds,
from `FabricAssumption` (a circuit's threshold is above one, as every inserted row
has it; the "no value" constants are not values) and `EnvelopeAssumption` (what
`submit` enforces: valid scopes, a total order of ranks):

| Theorem | Statement |
|---|---|
| `TypeCorrect` | `Spec => []TypeOK` |
| `TablesAgree` | `Spec => []SeatJobAgreement` |
| `FenceIsIdentity` | `Spec => []FenceIdentifiesClaim` |
| `ExclusiveClaim` | `Spec => []OneCurrentToken` |
| `FencingIsForever` | `Spec => FencedForever` |
| `Isolation` | `Spec => []LiveIsolation` |
| `OneLeader` | `Spec => []LeadershipIsExclusive` |
| `CircuitsFollowTheCount` | `Spec => []CircuitFollowsCount` |

The argument. `OneCurrentToken` is not inductive: that two threads cannot both
prove a claim depends on what stale tokens look like. The inductive invariant is

    ClaimInv == TypeOK /\ SeatJobAgreement /\ FenceIdentifiesClaim /\ TokensDiffer

`FenceIdentifiesClaim` says that a token whose fence is its job's describes the
claim that runs the job, `TokensDiffer` that no two threads keep a token of the
same job and fence. Instead of the product of thirty actions and four
conjuncts, `StepKinds` shows that every step is of one of five kinds by what it
does to claims (it keeps them, ends those of some seats, writes one lease,
takes a claim, or loses a token), and one lemma per kind shows that the
invariant is preserved. `FencingIsForever` needs one more lemma: no step takes
a fence back or revives a lease under the same fence (`NothingRevives`).
`Isolation` needs that the admission test, which asks only the candidate,
implies a symmetric relation (`AdmissionIsolates`, `OverlapIsSymmetric`), and
that no step makes an inactive job active except a claim.

`OneLeader` is about stale WATCH tokens. `LeaderInv` adds that no token is ahead
of the leader row, that no two threads keep a token of one term, and that the
reviews of the term in force carry its owner's name: without the last, an owner
who takes the next term could meet reviews of another under that number.
`CircuitFollowsCount` is inductive as it stands.

### The life of a job

`FiveSeatLifecycle_proofs`, from the same assumptions:

| Theorem | Statement |
|---|---|
| `JobsKeepLedgers` | `Spec => ImplementsJobLedger` |
| `AnyJobIsALedger` | `\A j \in Jobs : Spec => Ledger(j)!Spec` |
| `PendingReviewable` | `Spec => []PendingIsReviewable` |
| `SuccessIsAccepted` | `Spec => []SucceededWasAccepted` |
| `SuccessIsSettled` | `Spec => []SucceededIsSettled` |
| `CancelPrevails` | `Spec => []CancelIsFinal` |
| `HandoffsAreBudgeted` | `Spec => []HandoffBudget` |
| `ClaimsHandOffOnce` | `Spec => []OneHandoffPerClaim` |
| `UnresolvedStaysContained` | `Spec => UnresolvedIsContained` |
| `FinishedStaysFinished` | `Spec => FinalUnlessRevoked` |

`RowStep` is what they rest on: whatever a step does elsewhere, to any one job it
is one of six things. The job rests, is directed (by the queue, the owner, a
cancel or the stale sweep), is claimed, hands over, loses its claim, or is
reviewed. Each kind says what happens to the job's row and to its three books
(handoffs, reviews, operations). The invariants are then shown job by job and
kind by kind, instead of handler by handler:

- `LedgerIsBehind`: all handoffs and reviews of a job carry fences below its
  own. A new handoff is therefore unreviewed and unlike every older one, which
  `Offered` (the per-job form of `PendingIsReviewable`) and
  `OneHandoffPerClaim` need.
- `WaitingIsSettled`: nothing is in flight for a job that waits for WATCH,
  succeeded, was sent back for rework, or is not submitted yet. It holds because
  a clean handoff and a decision on a quarantined one both read the journal, and
  because the journal is written only for a claim that runs or a job in
  quarantine. The last two states are what `UnresolvedIsContained` needs beyond
  `SucceededIsSettled`: neither intake nor a rework claim starts with something
  open.
- `CancelHolds` and `Accepted` are the properties, per job.
- `AttemptsCover`: handoffs, plus one for a claim that still runs, are at most
  `max_attempts` for each past round plus the attempts of this one. A claim that
  ends without a handoff has used up its attempt all the same.

`OneHandoffPerClaim` also speaks of seats, and `release_for_review` frees a seat
without a new fence. `SeatLedger` says why that is enough: a handoff that carries
the seat's own fence left it free, and a free seat is only taken at a new one.

The refinement reads each kind as one move of the ledger. It finds what the
invariants do not: with a review that looks past an earlier `BLOCK` (the mutant
of `ImplementsJobLedger`), a quarantined handoff is decided twice and every other
property of the run still holds.

### FabricService

From the assumptions above and `ServiceAssumption` (shapes of the constants):

| Theorem | Statement |
|---|---|
| `ServiceTypeCorrect` | `ServiceSpec => []ServiceTypeOK` |
| `ServiceImplements` | `ServiceSpec => ImplementsFiveSeat` |
| `ServiceIsolates` | `ServiceSpec => []LiveIsolation` |
| `ServiceFences` | `ServiceSpec => FencedForever` |

That a step of the service is a step of `FiveSeat` needs the preconditions
`FiveSeat` puts on `release_for_review` and `review`, which here are facts about
the threads: what a thread carries when it comes to the handoff (`ResultReady`),
to the decision (`DecisionReady`), and that every pending handoff has its payload
(`HandoffsHaveResults`). The last two theorems are then corollaries of those of
`FiveSeat_proofs`.

`FabricServiceResults_proofs` adds:

| Theorem | Statement |
|---|---|
| `ReworkIsNew` | `ServiceSpec => []ReworkIsFresh` |
| `OnlyWholeSuccess` | `ServiceSpec => []AcceptedIsWholeSuccess` |
| `AnswersAreFinal` | `ServiceSpec => AnswersStand` |
| `ServiceKeepsItsBooks` | `ServiceSpec => ImplementsJobLedger`, and the invariants `PendingIsReviewable`, `SucceededWasAccepted`, `SucceededIsSettled` and `CancelIsFinal` |

The first two are about what a thread read before it writes. For `ReworkIsNew`
(`FreshInv`): while a claim stands, a result its thread carries was made by that
claim, or read from the registry when no result of the job had been reviewed
(`RunIsFresh`); none has been since, because a review needs a job that no claim
runs. What is stored under a claim's key was made by that claim (`RunKey`,
`StoredByClaim`). And no payload is ahead of the job's checkpoint, which is the
handoff a review speaks of, so no review precedes a payload it could have made
stale (`PayloadsAreBehind`).

For `OnlyWholeSuccess` (`SuccessInv`): rows a WATCH thread read may be stale in
everything but their payload, which is never rewritten (`RowsShowPayloads`); a
decision to accept is the verdict on the one row whose turn it is
(`AcceptIsVerdict`), because ranks and fences order the rows strictly; and the
review writes that row's handoff.

### CanonicalWriter

From `CanonicalAssumption` (finitely many reviews; limits above zero):

| Theorem | Statement |
|---|---|
| `WriterTypeCorrect` | `Spec => []TypeOK` |
| `WriterAgrees` | `Spec => []WriterAgreesWithQueue` |
| `LedgerIsComplete` | `Spec => []LedgerTellsState` |
| `NoSecondEdit` | `Spec => []EditedOnce` |
| `OneEditor` | `Spec => []EditorsAreExclusive` |
| `EditorsStayFenced` | `Spec => EditorsFencedForever` |
| `ImplementsSerial` | `Spec => ImplementsSerialWriter` |

`EditedOnce` speaks of the ledger, and the code that keeps it true of the queue:
the two are tied by `LedgerTellsState` and by `UnclaimedBefore` (a write that is
not yet in flight has no claim in its ledger). `TokensDiffer` says that no two
editors hold one fence. A step is quiet (no row moves), advances a write, takes the
writer, or closes the write in flight; one lemma per kind preserves the invariant,
and the same split gives the refinement.

### DurableTasks

From `BridgeAssumption` (finitely many workers; shapes of the constants):

| Theorem | Statement |
|---|---|
| `TaskTypeCorrect` | `Spec => []TaskTypeOK` |
| `TablesAgreeOnPackets` | `Spec => []RowsAgree` |
| `AttemptsAreBudgeted` | `Spec => []RoundsAreBudgeted` |
| `AnswersAreOwn` | `Spec => []OwnAnswers` |
| `WatchedTransientsAreNotFinal` | `Spec => []WatchedAreNotFinal` |

The budget counts executions begun, and a thread that has claimed but not begun
may still do so after its lease is taken over. The invariant `Budget` therefore
adds to the executions begun the threads that are still entitled to begin one:
together they are at most the attempts recorded and at most the budget. The rest
of the invariant says what each thread knows at each place (`ThreadsOK`), what
rows may look like (`RowsOK`), and that the registry's rows carry what was asked
under their hash (`RegistryOK`).

### GitHubBroker

From `BrokerAssumption` (a submission has files; shapes of the constants). The two
theorems marked * have a hypothesis besides, `AgainstBase`: the blob a submission
expects for a file is the one of the base branch. Whoever writes a packet reads it
there, but the code does not test it (`five_seat_github_broker.py:421` compares with
the worker branch), so it is stated with the theorems and not assumed of the model;
the instance that TLC checks satisfies it.

| Theorem | Statement |
|---|---|
| `BrokerTypeCorrect` | `Spec => []TypeOK` |
| `NothingReportedNoFileWritten` | `Spec => []NoneWroteNoFile` |
| `AttestedUntilDecided` | `Spec => []AttestedStays` |
| `FilesChangeOnce` * | `Spec => []PathsChangeOnce` |
| `AcceptanceIsAttested` * | `Spec => []AcceptedAsAttested` |

The first invariant, `IInv`, says what a claim knows at each request: its flags
(`RowOK`), and of its branch (`BranchOK`) that a commit is at the head it noted and
that every file behind it had its content in some commit. Whatever another claim
does in between only adds commits at the end (`Adds`), so one lemma, `OthersKeep`,
covers all interleavings of workers and each request is proved for its own claim.
`AcceptanceIsAttested` puts the moments of the readback together (`VerifyInv`). The
diff and the head are read apart, but a head that still is the attested one was so
when the diff was read, since branches only grow. A file may be read after another
worker has moved the branch on: the attested commit has it all the same, because it
had its content once (`Sound`) and a path changes once (`PathsChangeOnce`). What a job's
authority does meanwhile touches none of this (`AuthorityKeepsVerified`); it matters to
`HandoffsAreDecided` only.

### Only model-checked

Liveness: `SeatsComeBack`, `RunnableIsClaimed`, `ProbesEnd`, `PendingIsDecided`,
`EditsEnd`, `AcceptsAreDelivered`, `HandoffsAreDecided`, `EverySettles`. They rest
on fairness and `ENABLED`, which are out of the prover's reach.

## 5. Not modelled

- The batch selection and the legacy scheduler of `concurrency.py`, the legacy
  claim, checkpoints and audit of `job_runtime.py`: no entry point calls them.
- The meeting bus: a registry lookup, one call per participant and a store, as in
  packet execution, with a table of its own. As there, lookup and store are
  separate, so two instances may call a participant twice although
  `meeting_bus.py:573` reports one call at most.
- The circuit breaker of the specialists: what it refuses is one of the outcomes
  (`CircuitOpenError`) that any call may have.
- The in-process DAN transports without durable state; the canary server.
- `run_guardian_lite` beside the fabric: the tool stays registered and may pause a
  fabric job (see the hazards); `FiveSeat` follows the comment at
  `reliable_server.py:514-516`, which says the two do not run together.
- Lock-level behaviour inside a transaction: `heartbeat` locks the job and then
  the seat, reconciliation the other way round; a deadlock of Postgres aborts
  one transaction, which is as if it had not been called.
- In `GitHubBroker`, a revocation of a job that waits for its review, and the order in
  which WATCH takes the pending handoffs; `FiveSeat` has the one and `FabricService` the
  other.
- Provider I/O, transport, start-up gates, diagnostics, one-off operator tools.

Three things seen in the code that no property rules out. A durable packet whose
result was stored but not yet written to its job when its last attempt died, or
whose deadline passed meanwhile, ends `FAILED_SAFE` although the registry holds a
success (`durable_tasks_runtime.py:291`). And the comment at
`durable_tasks_runtime.py:305` says that a new owner has superseded a worker whose
lease is lost; one failed keepalive is enough, with no new owner. Third, when a dead
worker's job is also a duplicate, one `bounded_repair` contains it and then blocks
it: the packet row stays `RUNNING`, and the guardian's own query reports the pair as
`TASK_PACKET_STATE_DRIFT` from then on, although the comment beside it calls a
packet left `RUNNING` recoverable and visible "until reclaimed"
(`guardian_runtime.py:86-100`); nothing reclaims a blocked job. `RowsAgree` allows
this pair and no other drift.

## 6. Plan

What is left, in this order:

1. Abstract specifications for the durable queue (a packet is executed within its
   budget and settled once) and for the broker (an accepted branch is the attested
   one), as `JobLedger` is one for the fabric.
2. `Lease`, the abstract fenced lease (one holder, monotone fence), implemented
   by the WATCH leader, the canonical writer and the durable queue.
3. The guardian's tool and the legacy runtime beside the fabric's rows.
