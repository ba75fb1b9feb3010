---------------------------- MODULE GitHubBroker ----------------------------
(***************************************************************************)
(* The GitHub branch and pull-request broker, five_seat_github_broker.py:   *)
(* what a worker's execute() does to GitHub, request by request, and what    *)
(* WATCH reads back before it accepts.  GitHub itself, and the people who    *)
(* use it, are modelled from how these requests use it.                      *)
(*                                                                         *)
(* A claim is << job, job_fence_token >>.  The branch it may write is named  *)
(* by the fence and the slug of the job, and by nothing else.  A worker      *)
(* whose lease is gone goes on with its requests: nothing between two of     *)
(* them looks at the lease.                                                  *)
(***************************************************************************)
EXTENDS Integers, Sequences, FiniteSets

CONSTANTS
    Jobs,
    Slugs,
    Submissions, \* what the jobs may be submitted with: job -> slug, files
    Paths,
    Blobs,       \* contents, each its own blob sha
    NoFile,
    BaseTree,    \* path -> blob of the base branch; base moves leave it
    NoJob,
    \* Bounds of the instance.
    MaxClaims,   \* claims in all
    MaxBase,     \* moves of the base branch
    MaxFaults,   \* requests that fail or whose reply is lost, WATCH restarts
    MaxCloses    \* pull requests closed or merged by people

VARIABLES
    payload,   \* job -> its payload
    job,       \* job -> its state, fence and what its worker handed off
    claim,     \* claim -> where execute() is and what it knows
    base,      \* head of the base branch
    branch,    \* branch name -> its commits and its latest pull request
    watch,     \* the review that WATCH is doing
    faults,
    closes

vars == << payload, job, claim, base, branch, watch, faults, closes >>

Claims == Jobs \X (1 .. MaxClaims)

\* f"watch/worker-{fence}-{slug}"
NameOf(c) == << c[2], payload[c[1]].slug >>

Names == (1 .. MaxClaims) \X Slugs

Tree   == [Paths -> Blobs \cup {NoFile}]
Commit == [tree : Tree, by : Claims]

\* expected NoFile is an empty expected_sha.
File    == [path : Paths, content : Blobs, expected : Blobs \cup {NoFile}]
Payload == [slug : Slugs, files : Seq(File)]

\* The head of a branch is its last commit; no commits is no branch.
Branch == [commits : Seq(Commit), base : Nat, pr : Nat, open : BOOLEAN]

\* Requests of execute(), in order.  "create", "put" and "open" write.
Requests ==
    {"base", "branch", "create", "diff", "file", "put", "pr", "open", "final"}

Ends == {"candidate", "uncertain", "permanent"}

ClaimRow ==
    [ at : {"unclaimed"} \cup Requests \cup Ends,
      effect : BOOLEAN,     \* side_effect_present
      head : Nat,           \* branch_head
      pr : Nat,             \* pr_number
      done : Nat ]          \* files behind it

JobStates == {"QUEUED", "RUNNING", "FAILED", "WATCH_PENDING", "BLOCKED", "SUCCEEDED"}

\* What ACCEPT asks of the job beyond its handoff.  An approval that ran out may
\* be given again; a shared state that moved on, and a cancel asked for while the
\* worker ran, are there to stay.
Authority == {"HELD", "EXPIRED", "LOST"}

JobRow == [state : JobStates, fence : Nat, base : Nat, authority : Authority]

Reading == {"idle", "diff", "head", "pr", "file"}

ASSUME BrokerAssumption ==
    /\ BaseTree \in Tree
    /\ Submissions \subseteq [Jobs -> Payload]
    /\ \A s \in Submissions, j \in Jobs : s[j].files # << >>
    /\ {MaxClaims, MaxBase, MaxFaults, MaxCloses} \subseteq Nat
    /\ NoFile \notin Blobs
    /\ NoJob \notin Jobs

-----------------------------------------------------------------------------
(* GitHub *)

Files(c) == payload[c[1]].files

PathsOf(c) == {Files(c)[i].path : i \in DOMAIN Files(c)}

Commits(c) == branch[NameOf(c)].commits

Exists(c) == Commits(c) # << >>

HeadTree(c) == Commits(c)[Len(Commits(c))].tree

Changed(t) == {p \in Paths : t[p] # BaseTree[p]}

\* Fault: the compare is not held against the allowed paths.
DescendedFrom(c) == branch[NameOf(c)].base = job[c[1]].base

\* _verify_diff_confined: descended from the attested base, and changed on the
\* allowed paths alone.  Nothing here deletes or renames a file.
Confined(c) ==
    /\ branch[NameOf(c)].base = job[c[1]].base
    /\ Changed(HeadTree(c)) \subseteq PathsOf(c)

\* GitHub makes a branch of a free name,
CreatesBranch(c) ==
    /\ ~Exists(c)
    /\ branch' = [branch EXCEPT ![NameOf(c)] =
                    [ @ EXCEPT !.commits = << [tree |-> BaseTree, by |-> c] >>,
                               !.base = job[c[1]].base ]]

ThisFile(c) == Files(c)[claim[c].done + 1]

\* Fault: the write does not name the blob it replaces.
WritesOver(c) ==
    branch' = [branch EXCEPT ![NameOf(c)].commits =
        Append(@, [ tree |-> [HeadTree(c) EXCEPT ![ThisFile(c).path] =
                                ThisFile(c).content],
                    by |-> c ])]

BlobIsExpected(c) == HeadTree(c)[ThisFile(c).path] = ThisFile(c).expected

\* commits a file when the blob it replaces is the one the request names,
WritesFile(c) ==
    /\ BlobIsExpected(c)
    /\ branch' = [branch EXCEPT ![NameOf(c)].commits =
         Append(@, [ tree |-> [HeadTree(c) EXCEPT ![ThisFile(c).path] =
                                 ThisFile(c).content],
                     by |-> c ])]

\* and opens one pull request at a time for a branch that has a change.
Proposable(c) == ~branch[NameOf(c)].open /\ HeadTree(c) # BaseTree

OpensPullRequest(c) ==
    /\ Proposable(c)
    /\ branch' = [branch EXCEPT ![NameOf(c)].open = TRUE,
                                ![NameOf(c)].pr = @ + 1]

Init ==
    /\ payload \in Submissions
    /\ job = [j \in Jobs |-> [state |-> "QUEUED", fence |-> 0, base |-> 1,
                              authority |-> "HELD"]]
    /\ claim = [c \in Claims |-> [at |-> "unclaimed", effect |-> FALSE,
                                  head |-> 0, pr |-> 0, done |-> 0]]
    /\ base = 1
    /\ branch = [b \in Names |-> [commits |-> << >>, base |-> 0, pr |-> 0,
                                  open |-> FALSE]]
    /\ watch = [job |-> NoJob, at |-> "idle", done |-> 0]
    /\ faults = 0
    /\ closes = 0

-----------------------------------------------------------------------------
(* execute() *)

At(c, request) == claim[c].at = request

Update(c, row) ==
    /\ claim' = [claim EXCEPT ![c] = row]
    /\ UNCHANGED << payload, job, base, watch, faults, closes >>

Goto(c, request) == Update(c, [claim[c] EXCEPT !.at = request])

\* Fault: whatever failed is reported as without effect.
FailureWithoutEffect(c) == "permanent"

\* An error is uncertain once a write was answered, and before it permanent.
Failure(c) == IF claim[c].effect THEN "uncertain" ELSE "permanent"

Reads(c) == UNCHANGED branch

ReadBase(c) ==
    /\ At(c, "base")
    /\ Goto(c, IF base = job[c[1]].base THEN "branch" ELSE Failure(c))
    /\ Reads(c)

ReadBranch(c) ==
    /\ At(c, "branch")
    /\ IF Exists(c)
       THEN Update(c, [claim[c] EXCEPT !.at = "diff", !.effect = TRUE,
                                       !.head = Len(Commits(c))])
       ELSE Goto(c, "create")
    /\ Reads(c)

CreateBranch(c) ==
    /\ At(c, "create")
    /\ CreatesBranch(c)
    /\ Update(c, [claim[c] EXCEPT !.at = "file", !.effect = TRUE, !.head = 1])

CheckDiff(c) ==
    /\ At(c, "diff")
    /\ Goto(c, IF Confined(c) THEN "file" ELSE Failure(c))
    /\ Reads(c)

\* After the last file the pull requests are listed.
NextFile(c) == IF claim[c].done + 1 = Len(Files(c)) THEN "pr" ELSE "file"

Present(c) == HeadTree(c)[ThisFile(c).path]

\* A file that has its content is left; any other must be the expected one.
ReadFile(c) ==
    /\ At(c, "file")
    /\ IF Present(c) = ThisFile(c).content
       THEN Update(c, [claim[c] EXCEPT !.at = NextFile(c), !.done = @ + 1])
       ELSE Goto(c, IF Present(c) = ThisFile(c).expected THEN "put" ELSE Failure(c))
    /\ Reads(c)

\* Fault: the head of the last commit is not kept.
WriteFileKeepingHead(c) ==
    /\ At(c, "put")
    /\ WritesFile(c)
    /\ Update(c, [claim[c] EXCEPT !.at = NextFile(c), !.done = @ + 1,
                                  !.effect = TRUE])

WriteFile(c) ==
    /\ At(c, "put")
    /\ WritesFile(c)
    /\ Update(c, [claim[c] EXCEPT !.at = NextFile(c), !.done = @ + 1,
                                  !.effect = TRUE, !.head = Len(Commits(c)) + 1])

FindPullRequest(c) ==
    /\ At(c, "pr")
    /\ IF branch[NameOf(c)].open
       THEN Update(c, [claim[c] EXCEPT !.at = "final", !.pr = branch[NameOf(c)].pr])
       ELSE Goto(c, "open")
    /\ Reads(c)

OpenPullRequest(c) ==
    /\ At(c, "open")
    /\ OpensPullRequest(c)
    /\ Update(c, [claim[c] EXCEPT !.at = "final", !.pr = branch[NameOf(c)].pr + 1])

FinalDiff(c) ==
    /\ At(c, "final")
    /\ Goto(c, IF Confined(c) THEN "candidate" ELSE Failure(c))
    /\ Reads(c)

\* GitHub refuses a write: the branch or the pull request exists already, the
\* blob is another, there is nothing to propose.
Refused(c) ==
    /\ \/ At(c, "create") /\ Exists(c)
       \/ At(c, "put") /\ ~BlobIsExpected(c)
       \/ At(c, "open") /\ ~Proposable(c)
    /\ Goto(c, Failure(c))
    /\ Reads(c)

Fails(c) ==
    /\ faults < MaxFaults
    /\ faults' = faults + 1
    /\ claim' = [claim EXCEPT ![c].at = Failure(c)]
    /\ UNCHANGED << payload, job, base, watch, closes >>

RequestFails(c) ==
    /\ claim[c].at \in Requests
    /\ Fails(c)
    /\ UNCHANGED branch

\* The write is done and its answer does not come back: side_effect_present is
\* what it was.
ReplyLost(c) ==
    /\ \/ At(c, "create") /\ CreatesBranch(c)
       \/ At(c, "put") /\ WritesFile(c)
       \/ At(c, "open") /\ OpensPullRequest(c)
    /\ Fails(c)

Execute(c) ==
    \/ ReadBase(c) \/ ReadBranch(c) \/ CreateBranch(c) \/ CheckDiff(c)
    \/ ReadFile(c) \/ WriteFile(c) \/ FindPullRequest(c) \/ OpenPullRequest(c)
    \/ FinalDiff(c) \/ Refused(c)

-----------------------------------------------------------------------------
(* The scheduler around it, as far as the broker's jobs see it *)

Claimed == {c \in Claims : claim[c].at # "unclaimed"}

Current(j) == << j, job[j].fence >>

\* Every job of a repository writes github:<repository>:pr, so one runs at a
\* time.
ClaimJob(j) ==
    /\ job[j].state = "QUEUED"
    /\ Cardinality(Claimed) < MaxClaims
    /\ \A k \in Jobs : job[k].state # "RUNNING"
    /\ job' = [job EXCEPT ![j].state = "RUNNING", ![j].fence = @ + 1]
    /\ claim' = [claim EXCEPT ![<< j, job[j].fence + 1 >>].at = "base"]
    /\ UNCHANGED << payload, base, branch, watch, faults, closes >>

\* max_attempts is 1: a lapsed claim fails its job, and its worker is not told.
Lapse(j) ==
    /\ job[j].state = "RUNNING"
    /\ job' = [job EXCEPT ![j].state = "FAILED"]
    /\ UNCHANGED << payload, claim, base, branch, watch, faults, closes >>

\* A late handoff is refused.
HandOff(j) ==
    /\ job[j].state = "RUNNING"
    /\ claim[Current(j)].at \in Ends
    /\ job' = [job EXCEPT ![j].state = "WATCH_PENDING"]
    /\ UNCHANGED << payload, claim, base, branch, watch, faults, closes >>

\* The owner revokes and approves again: the next claim has the next fence.  No
\* approval is given for a source that is stale, nor after a cancel.
Reapprove(j) ==
    /\ job[j].state \in {"FAILED", "BLOCKED"}
    /\ job[j].authority # "LOST"
    /\ Cardinality(Claimed) < MaxClaims
    /\ job' = [job EXCEPT ![j].state = "QUEUED", ![j].authority = "HELD"]
    /\ UNCHANGED << payload, claim, base, branch, watch, faults, closes >>

\* A job that was claimed with its authority may lose it before it is reviewed;
\* nothing but ACCEPT looks.
LosesAuthority(j, authority) ==
    /\ job[j].state = "WATCH_PENDING"
    /\ job[j].authority \notin {"LOST", authority}
    /\ job' = [job EXCEPT ![j].authority = authority]
    /\ UNCHANGED << payload, claim, base, branch, watch, faults, closes >>

\* The owner approves a job that waits for its review: its state stays.
ApproveAgain(j) ==
    /\ job[j].state = "WATCH_PENDING"
    /\ job[j].authority = "EXPIRED"
    /\ job' = [job EXCEPT ![j].authority = "HELD"]
    /\ UNCHANGED << payload, claim, base, branch, watch, faults, closes >>

AuthorityMoves(j) ==
    ApproveAgain(j) \/ \E a \in {"EXPIRED", "LOST"} : LosesAuthority(j, a)

-----------------------------------------------------------------------------
(* WATCH: verify_result, one request after the other *)

Idle == [job |-> NoJob, at |-> "idle", done |-> 0]

Reviewed == Current(watch.job)

Expected == claim[Reviewed]

Decide(j, state) ==
    /\ job' = [job EXCEPT ![j].state = state]
    /\ watch' = Idle
    /\ UNCHANGED << payload, claim, base, branch, faults, closes >>

\* A result that is not a whole success is blocked unread.
BlockUnread(j) ==
    /\ watch.at = "idle"
    /\ job[j].state = "WATCH_PENDING"
    /\ claim[Current(j)].at # "candidate"
    /\ Decide(j, "BLOCKED")

StartReview(j) ==
    /\ watch.at = "idle"
    /\ job[j].state = "WATCH_PENDING"
    /\ claim[Current(j)].at = "candidate"
    /\ watch' = [job |-> j, at |-> "diff", done |-> 0]
    /\ UNCHANGED << payload, job, claim, base, branch, faults, closes >>

HeadIsExpected == Len(Commits(Reviewed)) = Expected.head

PullRequestIsOpen ==
    /\ branch[NameOf(Reviewed)].open
    /\ branch[NameOf(Reviewed)].pr = Expected.pr
    /\ HeadIsExpected

FileToRead == Files(Reviewed)[watch.done + 1]

FileIsExpected == HeadTree(Reviewed)[FileToRead.path] = FileToRead.content

ReadBack(request, holds, next) ==
    /\ watch.at = request
    /\ holds
    /\ watch' = next
    /\ UNCHANGED << payload, job, claim, base, branch, faults, closes >>

VerifyStep ==
    \/ ReadBack("diff", Confined(Reviewed), [watch EXCEPT !.at = "head"])
    \/ ReadBack("head", HeadIsExpected, [watch EXCEPT !.at = "pr"])
    \/ ReadBack("pr", PullRequestIsOpen, [watch EXCEPT !.at = "file"])
    \/ /\ watch.at = "file"
       /\ watch.done + 1 < Len(Files(Reviewed))
       /\ ReadBack("file", FileIsExpected, [watch EXCEPT !.done = @ + 1])

ReadBackWhole ==
    /\ watch.at = "file"
    /\ watch.done + 1 = Len(Files(Reviewed))
    /\ FileIsExpected

\* The last file matches: ACCEPT, if the job still has its authority.
Accept ==
    /\ ReadBackWhole
    /\ job[watch.job].authority = "HELD"
    /\ Decide(watch.job, "SUCCEEDED")

\* review() raises: the round is over, the handoff pending as before.
RefuseAccept ==
    /\ ReadBackWhole
    /\ job[watch.job].authority # "HELD"
    /\ watch' = Idle
    /\ UNCHANGED << payload, job, claim, base, branch, faults, closes >>

\* A readback that does not match blocks the result.
Mismatch ==
    \/ watch.at = "diff" /\ ~Confined(Reviewed)
    \/ watch.at = "head" /\ ~HeadIsExpected
    \/ watch.at = "pr" /\ ~PullRequestIsOpen
    \/ watch.at = "file" /\ ~FileIsExpected

\* Fault: the exception is not caught, and ends the round.
BlockByRaising ==
    /\ watch.at # "idle"
    /\ Mismatch
    /\ watch' = Idle
    /\ UNCHANGED << payload, job, claim, base, branch, faults, closes >>

Block ==
    /\ watch.at # "idle"
    /\ Mismatch
    /\ Decide(watch.job, "BLOCKED")

\* A readback that fails blocks as well; a WATCH process that dies begins again.
ReviewFails(j) ==
    /\ watch.job = j
    /\ faults < MaxFaults
    /\ faults' = faults + 1
    /\ watch' = Idle
    /\ \/ job' = [job EXCEPT ![j].state = "BLOCKED"]
       \/ UNCHANGED job
    /\ UNCHANGED << payload, claim, base, branch, closes >>

Review ==
    \/ \E j \in Jobs : BlockUnread(j) \/ StartReview(j)
    \/ VerifyStep \/ Accept \/ RefuseAccept \/ Block

-----------------------------------------------------------------------------
(* People *)

MoveBase ==
    /\ base < MaxBase
    /\ base' = base + 1
    /\ UNCHANGED << payload, job, claim, branch, watch, faults, closes >>

\* Closed or merged; nobody but the broker pushes to a worker branch.
ClosePullRequest(b) ==
    /\ closes < MaxCloses
    /\ branch[b].open
    /\ closes' = closes + 1
    /\ branch' = [branch EXCEPT ![b].open = FALSE]
    /\ UNCHANGED << payload, job, claim, base, watch, faults >>

-----------------------------------------------------------------------------

Next ==
    \/ \E c \in Claims : Execute(c) \/ RequestFails(c) \/ ReplyLost(c)
    \/ \E j \in Jobs : ClaimJob(j) \/ Lapse(j) \/ HandOff(j) \/ Reapprove(j)
    \/ \E j \in Jobs : AuthorityMoves(j)
    \/ Review
    \/ \E j \in Jobs : ReviewFails(j)
    \/ MoveBase
    \/ \E b \in Names : ClosePullRequest(b)

Spec == Init /\ [][Next]_vars

\* Requests are answered or time out, handoffs are written, WATCH runs.
Fairness ==
    /\ \A c \in Claims : WF_vars(Execute(c))
    /\ \A j \in Jobs : WF_vars(ClaimJob(j)) /\ WF_vars(HandOff(j))
    /\ WF_vars(Review)

FairSpec == Spec /\ Fairness

-----------------------------------------------------------------------------
(* Properties *)

\* Every row keeps its shape.
TypeOK ==
    /\ payload \in [Jobs -> Payload]
    /\ job \in [Jobs -> JobRow]
    /\ claim \in [Claims -> ClaimRow]
    /\ base \in Nat
    /\ branch \in [Names -> Branch]
    /\ watch \in [job : Jobs \cup {NoJob}, at : Reading, done : Nat]
    /\ {faults, closes} \subseteq Nat

\* What WATCH accepts is at the head that was attested: that commit has every
\* file of the job, changes nothing else, and was proposed.  The readback takes
\* four kinds of requests while other workers may be writing the same branch.
AcceptedAsAttested ==
    \A j \in Jobs : job[j].state = "SUCCEEDED" =>
        LET c == Current(j)
            t == Commits(c)[claim[c].head].tree
        IN /\ \A i \in DOMAIN Files(c) : t[Files(c)[i].path] = Files(c)[i].content
           /\ Changed(t) \subseteq PathsOf(c)
           /\ branch[NameOf(c)].pr >= claim[c].pr

\* A worker that reports failed_before_side_effect has written no file, whichever
\* write was refused or its reply lost.  That it left no branch either does not
\* hold: NoneLeavesNothing, at the end.
NoneWroteNoFile ==
    \A c \in Claims : At(c, "permanent") =>
        \A k \in DOMAIN Commits(c) :
            Commits(c)[k].by = c => k = 1 /\ Commits(c)[k].tree = BaseTree

\* A file of another is never overwritten on a shared branch: a path changes
\* from its base content once, as long as submissions expect what the base has.
PathsChangeOnce ==
    \A b \in Names : \A k \in DOMAIN branch[b].commits : \A p \in Paths :
        branch[b].commits[k].tree[p] # BaseTree[p] =>
            \A i \in k .. Len(branch[b].commits) :
                branch[b].commits[i].tree[p] = branch[b].commits[k].tree[p]

\* While a result waits for its review the branch stays where it was attested,
\* unless another job has the same slug and fence: its worker may add to it, and
\* a complete result is then blocked.
Sharers(c) == {d \in Claims \ {c} : NameOf(d) = NameOf(c) /\ ~At(d, "unclaimed")}

AttestedStays ==
    \A j \in Jobs :
        /\ job[j].state = "WATCH_PENDING"
        /\ At(Current(j), "candidate")
        /\ Sharers(Current(j)) = {}
        => Len(Commits(Current(j))) = claim[Current(j)].head

\* A candidate that review() does not let WATCH accept.
Refusable(j) ==
    /\ job[j].state = "WATCH_PENDING"
    /\ At(Current(j), "candidate")
    /\ job[j].authority # "HELD"

\* Every handoff is decided, through failing requests, readbacks that do not
\* match, refused decisions and restarts of WATCH, if candidates do not stay
\* without authority: the round ends at such a one each time WATCH comes to it,
\* and what is behind it may wait as well.
HandoffsAreDecided ==
    <>[](\A j \in Jobs : ~Refusable(j)) =>
        \A j \in Jobs : job[j].state = "WATCH_PENDING" ~> job[j].state # "WATCH_PENDING"

-----------------------------------------------------------------------------
(* What the code says of itself and does not do: checked by a run that       *)
(* expects a violation.                                                      *)

\* "All ambiguous failures are handed off as UNCERTAIN_PARTIAL"
\* (five_seat_worker.py:84): who reports failed_before_side_effect has left
\* nothing on GitHub.  A lost reply to POST git/refs leaves the branch.
NoneLeavesNothing ==
    \A c \in Claims : At(c, "permanent") =>
        \A k \in DOMAIN Commits(c) : Commits(c)[k].by # c
=============================================================================
