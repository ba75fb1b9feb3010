--------------------------- MODULE MCFabricService ---------------------------
(* One task packet for a worker thread, a WATCH thread and a relay. *)
EXTENDS FabricService, TLC

CONSTANTS w1, c1, r1

Packet ==
    1 :> [ concurrency_class |-> "A", mutation_scope |-> {},
           read_scope |-> {<<"specialist">>}, resource_scope |-> {<<"codex">>},
           collision_key |-> "packet", dependencies |-> {}, task |-> "t",
           worker_kind |-> "TASK_PACKET", approval_required |-> FALSE,
           owner_gated |-> FALSE, packet |-> TRUE, rank |-> 1,
           max_attempts |-> 2, max_reworks |-> 1 ]

OwnNames == (w1 :> "w1") @@ (c1 :> "c1")

AllPairs == Workers \X Jobs

WholeAnswers ==
    { [overall |-> "SUCCESS", clean |-> TRUE],
      [overall |-> "SUCCESS", clean |-> FALSE],
      [overall |-> "FAILED_CLOSED", clean |-> FALSE] }
=============================================================================
