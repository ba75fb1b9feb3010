------------------------------ MODULE JobLedger ------------------------------
(***************************************************************************)
(* What the fabric promises about one job                                  *)
(* (docs/FIVE_SEAT_CONTINUOUS_FABRIC_V1.md, sections 5, 7, 10 and 11): it  *)
(* is run by one claim at a time; a claim delivers once, while it runs the *)
(* job, or never; somebody other than the worker decides once, and on the  *)
(* last delivery only; and the job is done by an ACCEPT alone.  How many   *)
(* workers, seats, retries and leaders it takes does not show here.        *)
(***************************************************************************)
EXTENDS Naturals

CONSTANTS Owners, Decisions

VARIABLES
    stage,      \* "idle", "held" by a claim, or "done"
    term,       \* the number of the claim, or of the one that ended last
    last,       \* the claim of the last delivery, 0 before the first
    delivered,  \* the deliveries: [fence, worker]
    decided     \* the decisions: [fence, decision, owner]

ledger == << stage, term, last, delivered, decided >>

Init ==
    /\ stage = "idle"
    /\ term = 0
    /\ last = 0
    /\ delivered = {}
    /\ decided = {}

Take ==
    /\ stage = "idle"
    /\ stage' = "held"
    /\ term' = term + 1
    /\ UNCHANGED << last, delivered, decided >>

Lose ==
    /\ stage = "held"
    /\ stage' = "idle"
    /\ term' = term + 1
    /\ UNCHANGED << last, delivered, decided >>

Deliver(worker) ==
    /\ stage = "held"
    /\ stage' = "idle"
    /\ term' = term + 1
    /\ last' = term
    /\ delivered' = delivered \cup {[fence |-> term, worker |-> worker]}
    /\ UNCHANGED decided

Decide(decision, owner) ==
    /\ stage = "idle"
    /\ \E d \in delivered : d.fence = last /\ d.worker # owner
    /\ ~\E d \in decided : d.fence = last
    /\ decided' = decided \cup
         {[fence |-> last, decision |-> decision, owner |-> owner]}
    /\ stage' = IF decision = "ACCEPT" THEN "done" ELSE "idle"
    /\ UNCHANGED << term, last, delivered >>

\* A cancel ends the right of whoever held the job before.
Void ==
    /\ stage = "idle"
    /\ term' = term + 1
    /\ UNCHANGED << stage, last, delivered, decided >>

\* The owner's revocation is the one way back from success.
Reopen ==
    /\ stage = "done"
    /\ stage' = "idle"
    /\ UNCHANGED << term, last, delivered, decided >>

Next ==
    \/ Take \/ Lose \/ Void \/ Reopen
    \/ \E worker \in Owners : Deliver(worker)
    \/ \E decision \in Decisions, owner \in Owners : Decide(decision, owner)

Spec == Init /\ [][Next]_ledger
=============================================================================
