----------------------------- MODULE MCFiveSeat -----------------------------
(* Instances of FiveSeat for TLC: envelopes, thread names and bounds. *)
EXTENDS FiveSeat, TLC

CONSTANTS w1, w2, c1, c2

Plain ==
    [ concurrency_class |-> "B", mutation_scope |-> {<<"repo">>},
      read_scope |-> {}, resource_scope |-> {}, collision_key |-> "",
      dependencies |-> {}, task |-> "t", worker_kind |-> "CODE",
      approval_required |-> FALSE, owner_gated |-> FALSE, packet |-> FALSE,
      rank |-> 1, max_attempts |-> 2, max_reworks |-> 1 ]

\* One job that needs no approval.
OnePlainJob == 1 :> Plain

\* One job that the owner must approve.
OneGatedJob == 1 :> [Plain EXCEPT !.approval_required = TRUE]

Once == [Plain EXCEPT !.max_attempts = 1, !.max_reworks = 0]

\* The head of the queue waits for a job that is never accepted here; of the two
\* behind it one reads what the other mutates, a packet with a deadline.
WaitingHead ==
    (1 :> [Once EXCEPT !.concurrency_class = "E", !.task = "integrate",
                       !.dependencies = {3}]) @@
    (2 :> [Once EXCEPT !.concurrency_class = "A", !.task = "read", !.rank = 2,
                       !.mutation_scope = {}, !.read_scope = {<<"docs">>}]) @@
    (3 :> [Plain EXCEPT !.concurrency_class = "C", !.task = "write", !.rank = 3,
                        !.mutation_scope = {<<"docs", "site">>}, !.packet = TRUE])

\* A job the owner must approve ranks ahead of one that needs no approval.
GatedFirst ==
    (1 :> [Plain EXCEPT !.task = "t1", !.approval_required = TRUE]) @@
    (2 :> [Plain EXCEPT !.task = "t2", !.rank = 2,
                        !.mutation_scope = {<<"docs">>}])

\* Two jobs that mutate nested paths.
NestedPaths ==
    (1 :> [Plain EXCEPT !.task = "t1"]) @@
    (2 :> [Plain EXCEPT !.task = "t2", !.rank = 2,
                        !.mutation_scope = {<<"repo", "src">>}])

\* Two threads that sign their leases with one owner name, as two processes
\* started with one instance id do.
SharedOwner ==
    (w1 :> "pool") @@ (w2 :> "pool") @@ (c1 :> "watch") @@ (c2 :> "watch")

OwnNames == (w1 :> "w1") @@ (w2 :> "w2") @@ (c1 :> "watch")

\* Of the WATCH threads one signs like the worker.
WatchNames == (w1 :> "w1") @@ (c1 :> "w1") @@ (c2 :> "watch")

AllPairs == Workers \X Jobs
=============================================================================
