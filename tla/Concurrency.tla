---------------------------- MODULE Concurrency ----------------------------
(***************************************************************************)
(* The admission rules of concurrency.py and the quarantine rule of        *)
(* five_seat_runtime.py, as operators over immutable job envelopes.        *)
(*                                                                         *)
(* A scope entry is the sequence of its path parts: "repo/src/server.py"   *)
(* is <<"repo", "src", "server.py">>.  A resource entry ("key=value") is   *)
(* split at "/" by the same code, so it has the same shape.                *)
(***************************************************************************)
EXTENDS Integers, Sequences, FiniteSets

CONSTANTS
    Jobs,       \* the jobs that may be submitted
    Envelope    \* job -> its immutable execution envelope

Classes == {"A", "B", "C", "D", "E"}

ScopeEntries == Seq(STRING)

EnvelopeType ==
    [ concurrency_class : Classes,
      mutation_scope    : SUBSET ScopeEntries,
      read_scope        : SUBSET ScopeEntries,
      resource_scope    : SUBSET ScopeEntries,
      collision_key     : STRING,          \* "" is no key
      dependencies      : SUBSET Jobs,
      task              : STRING,          \* project, task and assignment type
      worker_kind       : STRING,
      approval_required : BOOLEAN,         \* authority_requires_approval(...)
      owner_gated       : BOOLEAN,         \* authority_class = OWNER_GATED
      packet            : BOOLEAN,         \* worker_kind = TASK_PACKET
      rank              : Nat,             \* place in ORDER BY priority, created_at, job_id
      max_attempts      : Nat \ {0},
      max_reworks       : Nat ]

Class(j)     == Envelope[j].concurrency_class
Mutations(j) == Envelope[j].mutation_scope
Reads(j)     == Envelope[j].read_scope
Resources(j) == Envelope[j].resource_scope

-----------------------------------------------------------------------------
(* Scopes *)

Shortest(a, b) == IF Len(a) <= Len(b) THEN Len(a) ELSE Len(b)

\* Equal entries overlap; so do a path and anything below it.  An entry with
\* no parts ("/") overlaps only an equal one.
EntriesOverlap(a, b) ==
    \/ a = b
    \/ /\ a # << >>
       /\ b # << >>
       /\ \A i \in 1 .. Shortest(a, b) : a[i] = b[i]

ScopesOverlap(left, right) == \E a \in left, b \in right : EntriesOverlap(a, b)

ScopeConflict(j, k) ==
    \/ ScopesOverlap(Mutations(j), Mutations(k))
    \/ ScopesOverlap(Mutations(j), Reads(k))
    \/ ScopesOverlap(Reads(j), Mutations(k))

ResourceConflict(j, k) == ScopesOverlap(Resources(j), Resources(k))

\* A declares no mutation; the mutating classes declare some surface.
ValidScopes(j) ==
    IF Class(j) = "A" THEN Mutations(j) = {}
                      ELSE Mutations(j) \cup Resources(j) # {}

-----------------------------------------------------------------------------
(* Admission *)

\* Fault: a candidate does not ask what the active job reads.
ClassConflictOneWay(candidate, active) ==
    \/ ScopesOverlap(Mutations(candidate), Mutations(active))
    \/ ScopesOverlap(Reads(candidate), Mutations(active))
    \/ ResourceConflict(candidate, active)
    \/ Class(candidate) \in {"C", "D"} /\ Class(active) \in {"C", "D", "E"}
    \/ Class(candidate) = "E"

\* What the candidate's own class forbids beside one active job.
ClassConflict(candidate, active) ==
    \/ /\ Class(candidate) = "A"
       /\ ScopesOverlap(Reads(candidate), Mutations(active))
    \/ /\ Class(candidate) \in {"B", "C", "D"}
       /\ \/ ScopeConflict(candidate, active)
          \/ ResourceConflict(candidate, active)
    \/ /\ Class(candidate) \in {"C", "D"}
       /\ Class(active) \in {"C", "D", "E"}
    \/ Class(candidate) = "E"

ConcurrencyAllowed(candidate, active, completed, unresolved) ==
    /\ ValidScopes(candidate)
    /\ Envelope[candidate].dependencies \subseteq completed
    /\ Class(candidate) = "E" => active = {}
    /\ \A k \in active \ {candidate} :
          /\ ValidScopes(k)
          /\ Class(k) # "E"
          /\ k \notin unresolved
          /\ ~ClassConflict(candidate, k)

DuplicateAssignment(candidate, active) ==
    \E k \in active :
        /\ Envelope[k].task = Envelope[candidate].task
        /\ ScopeConflict(candidate, k) \/ ResourceConflict(candidate, k)

\* The candidate touches the surface of a quarantined job.
QuarantineConflict(candidate, quarantined) ==
    \E k \in quarantined :
        \/ /\ Envelope[candidate].collision_key # ""
           /\ Envelope[candidate].collision_key = Envelope[k].collision_key
        \/ ScopeConflict(candidate, k)
        \/ ResourceConflict(candidate, k)

-----------------------------------------------------------------------------
(* What two jobs running side by side must satisfy, whichever of the two   *)
(* was admitted first: section 8 of the fabric document.                   *)

Serialized == {"C", "D", "E"}

MayOverlapInTime(j, k) ==
    /\ "E" \notin {Class(j), Class(k)}
    /\ ~(Class(j) \in Serialized /\ Class(k) \in Serialized)
    /\ ~ScopeConflict(j, k)
    /\ Class(j) # "A" /\ Class(k) # "A" => ~ResourceConflict(j, k)

\* submit() refuses any other envelope (five_seat_queue.py: 113-149).
ASSUME EnvelopeAssumption ==
    /\ Envelope \in [Jobs -> EnvelopeType]
    /\ \A j \in Jobs : ValidScopes(j)
    /\ \A j, k \in Jobs :
          j # k => Envelope[j].rank # Envelope[k].rank
=============================================================================
