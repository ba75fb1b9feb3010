-------------------------- MODULE PacketExecution --------------------------
(***************************************************************************)
(* What becomes of one TaskPacket when the bridge executes it once:          *)
(* orchestration.py's execute_task_packet_core with the dispatchers and the   *)
(* registry that reliable_server.py gives it, as operators.  The order in     *)
(* which the specialists are asked is left out: no status depends on it.      *)
(* A conflict between conclusions turns SUCCESS into NEEDS_VALIDATION, which  *)
(* every reader of the result treats alike; it is left out as well.           *)
(***************************************************************************)
EXTENDS Naturals

CONSTANTS
    Hashes,      \* packet hashes
    NoRow        \* no such row in execution_registry

Specialists == {"codex", "gemini", "sol"}

Statuses ==
    { "SUCCESS", "PARTIAL_SUCCESS", "NEEDS_VALIDATION", "POLICY_BLOCKED",
      "FAILED_CLOSED", "INVALID_PACKET", "TIMEOUT", "RATE_LIMITED" }

TransientStatuses == {"TIMEOUT", "RATE_LIMITED"}

SuccessStatuses == {"SUCCESS", "PARTIAL_SUCCESS", "NEEDS_VALIDATION"}

\* A provider answers with a status, breaks the worker contract, asks for what
\* the packet does not allow, or raises.  CircuitOpenError comes from the
\* circuit breaker instead of a call.
Replies ==
    Statuses \cup
    { "malformed", "overreaching", "TimeoutError", "RateLimitError",
      "ProviderUnavailableError", "CircuitOpenError", "Exception" }

-----------------------------------------------------------------------------
(* One specialist *)

\* A provider's failure comes back as a result: the core retries nothing here.
SingleAttempt(reply) ==
    IF reply = "TimeoutError" THEN "TIMEOUT"
    ELSE IF reply \in {"RateLimitError", "ProviderUnavailableError", "CircuitOpenError"}
         THEN "RATE_LIMITED"
         ELSE reply

Normalized(reply) ==
    IF reply = "malformed" THEN "FAILED_CLOSED"
    ELSE IF reply = "overreaching" THEN "POLICY_BLOCKED" ELSE reply

\* What _invoke_with_retries returns for it.
Invoked(reply) ==
    IF reply = "Exception" THEN "FAILED_CLOSED" ELSE Normalized(SingleAttempt(reply))

-----------------------------------------------------------------------------
(* The envelope *)

Unasked == "unasked"

Marks == [Specialists -> Statuses \cup {Unasked}]

NoMarks == [s \in Specialists |-> Unasked]

Asked(marks) == {s \in Specialists : marks[s] # Unasked}

FanIn(marks) ==
    LET Has(status) == \E s \in Asked(marks) : marks[s] = status
    IN  IF Asked(marks) # {} /\ \A s \in Asked(marks) : marks[s] = "SUCCESS" THEN "SUCCESS"
        ELSE IF Has("SUCCESS")        THEN "PARTIAL_SUCCESS"
        ELSE IF Has("POLICY_BLOCKED") THEN "POLICY_BLOCKED"
        ELSE IF Has("RATE_LIMITED")   THEN "RATE_LIMITED"
        ELSE IF Has("TIMEOUT")        THEN "TIMEOUT"
        ELSE "FAILED_CLOSED"

\* A result: whose it is, what each specialist said, and whether it came out
\* of the registry (usage_summary.idempotent_replay).
Result == [overall : Statuses, hash : Hashes, marks : Marks, replay : BOOLEAN]

Answer(h, marks) ==
    [overall |-> FanIn(marks), hash |-> h, marks |-> marks, replay |-> FALSE]

\* A result without any specialist: INVALID_PACKET, FAILED_CLOSED.
Refusal(overall, h) ==
    [overall |-> overall, hash |-> h, marks |-> NoMarks, replay |-> FALSE]

\* Fault: only the packet's own status counts.
TransientOverall(r) == r.overall \in TransientStatuses

\* transient_specialist_statuses: the packet's status, codex's and gemini's.
\* sol's is not looked at.
Transient(r) ==
    \/ r.overall \in TransientStatuses
    \/ \E s \in {"codex", "gemini"} : r.marks[s] \in TransientStatuses

-----------------------------------------------------------------------------
(* execution_registry *)

Row == [result : Result, expired : BOOLEAN]

\* Fault: rows are told apart by their keys only.
KeysTellAll(row, h) == FALSE

\* An unexpired row of another packet.
Conflicts(row, h) == row # NoRow /\ ~row.expired /\ row.result.hash # h

\* An unexpired row that does not conflict is replayed, unless it is transient:
\* such a row is passed over, and stays.
Replayed(row) == row # NoRow /\ ~row.expired /\ ~Transient(row.result)

\* Looking up deletes an expired row.
LookedUp(row) == IF row # NoRow /\ row.expired THEN NoRow ELSE row

\* store() of a cacheable result; a conflict raises instead.
Stored(row, r) ==
    IF Transient(r) THEN row ELSE [result |-> r, expired |-> FALSE]

=============================================================================
