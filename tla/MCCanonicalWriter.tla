------------------------- MODULE MCCanonicalWriter -------------------------
(* An instance of CanonicalWriter for TLC. *)
EXTENDS CanonicalWriter, TLC

CONSTANTS r1, r2

\* The second review has the most urgent job.
Urgency == [r \in Reviews |-> IF r = r2 THEN 1 ELSE 2]
=============================================================================
