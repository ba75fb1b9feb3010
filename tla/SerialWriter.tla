---------------------------- MODULE SerialWriter ----------------------------
(***************************************************************************)
(* What the single canonical writer promises                               *)
(* (docs/SINGLE_CANONICAL_WRITER_V1.md, steps 6 to 10): a write is offered, *)
(* granted by an approver, edited at most once and alone, and closed for    *)
(* good.  How often something is asked, lost or retried does not show here. *)
(***************************************************************************)
CONSTANT Writes

VARIABLE stage

Stages == {"unknown", "offered", "granted", "editing", "closed"}

Init == stage = [w \in Writes |-> "unknown"]

Move(w, from, to) ==
    /\ stage[w] = from
    /\ stage' = [stage EXCEPT ![w] = to]

Offer(w)    == Move(w, "unknown", "offered")
Grant(w)    == Move(w, "offered", "granted")
Withdraw(w) == Move(w, "granted", "closed")
Finish(w)   == Move(w, "editing", "closed")

\* Canonical state has one editor.
Begin(w) ==
    /\ \A v \in Writes : stage[v] # "editing"
    /\ Move(w, "granted", "editing")

Next ==
    \E w \in Writes :
        Offer(w) \/ Grant(w) \/ Withdraw(w) \/ Begin(w) \/ Finish(w)

Spec == Init /\ [][Next]_stage
=============================================================================
