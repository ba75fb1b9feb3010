--------------------------- MODULE MCDurableTasks ---------------------------
(* Instances of DurableTasks for TLC: two packets that ask for the same task,
   and one packet that asks the reserve specialist. *)
EXTENDS DurableTasks, TLC

\* p1 asks two specialists and may be tried twice; p2 is the same task again,
\* for one of them, once.
OneContent == "p1" :> {"a"} @@ "p2" :> {"a"}
OtherContent == "p1" :> {"b"} @@ "p2" :> {}
SomePlans == "p1" :> {"codex", "gemini"} @@ "p2" :> {"codex"}
SameTask  == "p1" :> "t" @@ "p2" :> "t"
FewRetries == "p1" :> 1 @@ "p2" :> 0
SameUrgency == "p1" :> 100 @@ "p2" :> 100

\* The background thread of a worker and durable_worker_kick sign alike.
OneName == "w1" :> "worker:0" @@ "w2" :> "worker:0"

\* A reserve packet, which may not be retried, and no second packet.
ReservePlan == "p1" :> {"gemini", "sol"}
ReserveContent == "p1" :> {"a"}
ReserveTask == "p1" :> "t"
NoRetries == "p1" :> 0
ReserveUrgency == "p1" :> 100

NoOldRows == {[k \in Keys |-> NoRow]}

HalfDone ==
    [NoMarks EXCEPT !["codex"] = "SUCCESS", !["gemini"] = "TIMEOUT"]

\* An empty registry, or one with a half-finished result for p1.
OldRows ==
    { [k \in Keys |-> NoRow],
      [k \in Keys |-> IF k = "p1" THEN [result |-> Answer("a", HalfDone), expired |-> FALSE]
                      ELSE NoRow] }

=============================================================================
