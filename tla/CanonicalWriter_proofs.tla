----------------------- MODULE CanonicalWriter_proofs -----------------------
(***************************************************************************)
(* What holds of the canonical writer for every set of reviews, sessions    *)
(* and processes and every bound: its three tables agree, a write is edited *)
(* once, a lost editor stays out, and together they implement SerialWriter. *)
(***************************************************************************)
EXTENDS CanonicalWriter, FiniteSetTheorems, TLAPS

-----------------------------------------------------------------------------
(* Steps by what they do to the tables *)

\* Sessions keep their tokens or lose them.
TokensKept ==
    \A e \in Editors : tokens'[e] = tokens[e] \/ tokens'[e] = NoWriteToken

\* Nothing but the lease of the claim moves, and never back to life.
Quiet ==
    /\ UNCHANGED << queue, ledger >>
    /\ \/ writer' = writer
       \/ /\ writer.lease = "LIVE"
          /\ \E lease \in {"LIVE", "LAPSED"}, n \in Nat :
                writer' = [writer EXCEPT !.lease = lease, !.renewals = n]
    /\ tokens' \in [Editors -> WriteToken]
    /\ TokensKept

\* An unclaimed write takes a step: enqueued, approved or superseded.
Unclaimed == {"ABSENT", "PENDING_CHATGPT_APPROVAL", "APPROVED"}

Forward ==
    { << "ABSENT", "WATCH_ENQUEUED", "PENDING_CHATGPT_APPROVAL" >>,
      << "PENDING_CHATGPT_APPROVAL", "CANONICAL_APPROVED", "APPROVED" >>,
      << "APPROVED", "SUPERSEDED", "SUPERSEDED" >> }

Advances(r) ==
    /\ \E f \in Forward, n \in Nat, k \in Nat :
          /\ queue[r].state = f[1]
          /\ ledger' = Logged(r, f[2])
          /\ queue' = [queue EXCEPT ![r] = [state |-> f[3], created |-> n, fence |-> k]]
          /\ k <= queue[r].fence
    /\ UNCHANGED << writer, tokens >>

\* A session takes a write.
Takes(e, r) ==
    /\ queue[r].state = "APPROVED"
    /\ InFlight = {}
    /\ writer' = [lease |-> "LIVE", active |-> r, renewals |-> 0,
                  fence |-> writer.fence + 1]
    /\ queue' = [queue EXCEPT ![r] = [state |-> "IN_FLIGHT", created |-> queue[r].created,
                                      fence |-> writer.fence + 1]]
    /\ ledger' = Logged(r, "WRITER_CLAIMED")
    /\ tokens' = [tokens EXCEPT ![e] = [write |-> r, fence |-> writer.fence + 1]]

\* The write in flight is closed.
Closes(outcome) ==
    /\ writer.active # NoReview
    /\ writer' = [lease |-> "NONE", active |-> NoReview, renewals |-> 0,
                  fence |-> writer.fence]
    /\ queue' = [queue EXCEPT ![writer.active] =
                   [state |-> outcome, created |-> @.created, fence |-> @.fence]]
    /\ ledger' = Logged(writer.active, outcome)
    /\ tokens' \in [Editors -> WriteToken]
    /\ TokensKept

\* Places in an order and pieces of a batch are numbers and sets.
LEMMA Counted ==
    ASSUME NEW S, S \subseteq Reviews
    PROVE  1 + Cardinality(S) \in Nat
  <1>1. IsFiniteSet(S)
    BY CanonicalAssumption, FS_Subset
  <1> QED BY <1>1, FS_CardinalityType

\* A new state leaves the other columns of a row.
LEMMA RowWrites ==
    ASSUME NEW row \in QueueRow, NEW state
    PROVE  /\ [row EXCEPT !.state = state] =
                 [state |-> state, created |-> row.created, fence |-> row.fence]
           /\ row.created \in Nat /\ row.fence \in Nat
           /\ \A n \in Nat :
                 [row EXCEPT !.state = state, !.fence = n] =
                    [state |-> state, created |-> row.created, fence |-> n]
  <1>1. row = [state |-> row.state, created |-> row.created, fence |-> row.fence]
    BY DEF QueueRow
  <1>2. row.created \in Nat /\ row.fence \in Nat
    BY DEF QueueRow
  <1> DEFINE R(s, c, f) == [state |-> s, created |-> c, fence |-> f]
  <1>3. [row EXCEPT !.state = state] = R(state, row.created, row.fence)
    BY <1>1
  <1>4. ASSUME NEW n \in Nat
        PROVE  [row EXCEPT !.state = state, !.fence = n] = R(state, row.created, n)
    <2>1. [R(state, row.created, row.fence) EXCEPT !.fence = n]
            = R(state, row.created, n)
      OBVIOUS
    <2> HIDE DEF R
    <2> QED BY <1>3, <2>1
  <1> QED BY <1>2, <1>3, <1>4

LEMMA CallWrites ==
    ASSUME TypeOK, NEW c \in Callers
    PROVE  /\ \A p \in Places : [calls EXCEPT ![c].at = p] \in [Callers -> Call]
           /\ \A B \in SUBSET Reviews :
                 [calls EXCEPT ![c] = Delivering(c, B)] \in [Callers -> Call]
           /\ calls[c].batch \subseteq Reviews
           /\ Idle \in Call /\ Down \in Call
  BY DEF TypeOK, Call, Delivering, Idle, Down, Places

LEMMA TypeInit == Init => TypeOK
  BY CanonicalAssumption
     DEF Init, TypeOK, QueueRow, WriteStates, WriterRow, Events, Call, Idle,
         Places, WriteToken, NoWriteToken

\* The tables that a delivery, a call and a crash leave alone keep their types.
Bookkeeping ==
    /\ version' \in Nat
    /\ accepted' \in [Reviews -> Nat]
    /\ source' \in [Reviews -> Nat]
    /\ calls' \in [Callers -> Call]
    /\ crashes' \in Nat

Tables ==
    \/ Quiet
    \/ \E r \in Reviews : Advances(r)
    \/ \E e \in Editors, r \in Reviews : Takes(e, r)
    \/ \E o \in Ends : Closes(o)

\* Containment closes the write in flight or does nothing.
LEMMA Containment ==
    ASSUME TypeOK, ContainExpired, UNCHANGED tokens
    PROVE  Tables
  <1> USE DEF TypeOK
  <1>1. CASE writer.active # NoReview /\ writer.lease = "LAPSED"
    <2>1. writer' = [lease |-> "NONE", active |-> NoReview, renewals |-> 0,
                     fence |-> writer.fence]
      BY <1>1 DEF ContainExpired, WriterFreed, WriterRow
    <2>2. writer.active \in Reviews
      BY <1>1 DEF WriterRow
    <2>3. queue' = [queue EXCEPT ![writer.active] =
                      [state |-> "QUARANTINED", created |-> @.created,
                       fence |-> @.fence]]
      BY <1>1, <2>2, RowWrites DEF ContainExpired, Contained
    <2>4. Closes("QUARANTINED")
      BY <1>1, <2>1, <2>3 DEF Closes, ContainExpired, TokensKept
    <2> QED BY <2>4 DEF Tables, Ends
  <1>2. CASE ~(writer.active # NoReview /\ writer.lease = "LAPSED")
    BY <1>2 DEF ContainExpired, Tables, Quiet, TokensKept
  <1> QED BY <1>1, <1>2

LEMMA StepKinds == TypeOK /\ [Next]_vars => Bookkeeping /\ Tables
  <1> SUFFICES ASSUME TypeOK, [Next]_vars PROVE Bookkeeping /\ Tables
    OBVIOUS
  <1> USE DEF TypeOK
  <1>quiet. ASSUME UNCHANGED << queue, writer, ledger, tokens >> PROVE Tables
    BY <1>quiet DEF Tables, Quiet, TokensKept
  <1>1. ASSUME NEW v \in 1 .. MaxVersion, SetSharedStateVersion(v)
        PROVE  Bookkeeping /\ Tables
    BY <1>1, <1>quiet, CanonicalAssumption DEF SetSharedStateVersion, Bookkeeping
  <1>2. ASSUME NEW c \in Controllers, NEW r \in Reviews, WatchAccept(c, r)
        PROVE  Bookkeeping /\ Tables
    <2>1. 1 + Cardinality({q \in Reviews : accepted[q] > 0}) \in Nat
      BY Counted
    <2>2. calls' \in [Callers -> Call]
      BY <1>2, CallWrites DEF WatchAccept, Goto, Places, Callers
    <2> QED BY <1>2, <1>quiet, <2>1, <2>2 DEF WatchAccept, Bookkeeping
  <1>3. ASSUME NEW c \in Callers, ReadAccepts(c) PROVE Bookkeeping /\ Tables
    <2>1. Oldest(Undelivered, Limit(c)) \in SUBSET Reviews
      BY DEF Oldest, Undelivered
    <2>2. calls' \in [Callers -> Call]
      BY <1>3, <2>1, CallWrites DEF ReadAccepts
    <2> QED BY <1>3, <1>quiet, <2>2 DEF ReadAccepts, Bookkeeping
  <1>4. ASSUME NEW c \in Callers, NEW r \in Reviews, Deliver(c, r)
        PROVE  Bookkeeping /\ Tables
    <2>1. calls' \in [Callers -> Call]
      <3>1. RestOfBatch(c, r) \in SUBSET Reviews
        BY CallWrites DEF RestOfBatch
      <3> QED BY <1>4, <3>1, CallWrites DEF Deliver
    <2>2. ASSUME ~Enqueues(r) PROVE Tables
      BY <1>4, <2>2, <1>quiet DEF Deliver
    <2>3. ASSUME Enqueues(r) PROVE Tables
      <3>1. 1 + Cardinality({q \in Reviews : queue[q].created > 0}) \in Nat
        BY Counted
      <3>2. queue[r].fence >= 0
        BY DEF QueueRow
      <3>3. Advances(r)
        <4> DEFINE f == << "ABSENT", "WATCH_ENQUEUED", "PENDING_CHATGPT_APPROVAL" >>
        <4>1. /\ queue[r].state = f[1]
              /\ ledger' = Logged(r, f[2])
              /\ queue' = [queue EXCEPT ![r] =
                    [state |-> f[3], fence |-> 0,
                     created |-> 1 + Cardinality({q \in Reviews : queue[q].created > 0})]]
          BY <1>4, <2>3 DEF Deliver, Enqueues, NewRow
        <4>2. f \in Forward /\ 0 \in Nat
          BY DEF Forward
        <4>3. UNCHANGED << writer, tokens >>
          BY <1>4 DEF Deliver
        <4>4. \E n \in Nat, k \in Nat :
                 /\ queue[r].state = f[1]
                 /\ ledger' = Logged(r, f[2])
                 /\ queue' = [queue EXCEPT ![r] =
                                [state |-> f[3], created |-> n, fence |-> k]]
                 /\ k <= queue[r].fence
          BY <3>1, <3>2, <4>1, <4>2
        <4> HIDE DEF f
        <4> QED BY <4>2, <4>3, <4>4 DEF Advances
      <3> QED BY <3>3 DEF Tables
    <2> QED BY <1>4, <2>1, <2>2, <2>3 DEF Deliver, Bookkeeping
  <1>5. ASSUME NEW r \in Reviews, Approve(r) PROVE Bookkeeping /\ Tables
    <2>1. Advances(r)
      <3> DEFINE f == << "PENDING_CHATGPT_APPROVAL", "CANONICAL_APPROVED", "APPROVED" >>
      <3>1. /\ queue[r].state = f[1]
            /\ ledger' = Logged(r, f[2])
            /\ queue' = [queue EXCEPT ![r] =
                  [state |-> f[3], created |-> queue[r].created,
                   fence |-> queue[r].fence]]
        BY <1>5, RowWrites DEF Approve
      <3>2. f \in Forward /\ queue[r].created \in Nat /\ queue[r].fence \in Nat
        BY DEF Forward, QueueRow
      <3>5. queue[r].fence <= queue[r].fence
        BY <3>2
      <3> HIDE DEF f
      <3>3. \E n \in Nat, k \in Nat :
               /\ queue[r].state = f[1]
               /\ ledger' = Logged(r, f[2])
               /\ queue' = [queue EXCEPT ![r] =
                              [state |-> f[3], created |-> n, fence |-> k]]
               /\ k <= queue[r].fence
        BY <3>1, <3>2, <3>5
      <3>4. UNCHANGED << writer, tokens >>
        BY <1>5 DEF Approve
      <3> QED BY <3>2, <3>3, <3>4 DEF Advances
    <2> QED BY <1>5, <2>1 DEF Approve, Bookkeeping, Tables
  <1>6. ASSUME NEW e \in Editors, StartClaim(e) PROVE Bookkeeping /\ Tables
    <2>1. calls' \in [Callers -> Call]
      BY <1>6, CallWrites DEF StartClaim, Goto, Places, Callers
    <2> QED BY <1>6, <2>1, Containment DEF StartClaim, Bookkeeping
  <1>7. ASSUME NEW e \in Editors, NEW r \in Reviews, ClaimWrite(e, r)
        PROVE  Bookkeeping /\ Tables
    <2>1. calls' \in [Callers -> Call]
      BY <1>7, CallWrites DEF ClaimWrite, Goto, Places, Callers
    <2>2. Takes(e, r)
      <3>1. writer.fence + 1 \in Nat
        BY DEF WriterRow
      <3> QED BY <1>7, <3>1, RowWrites
              DEF ClaimWrite, Takes, HeadOfQueue, Approved, WriterIdle, WriterTaken
    <2> QED BY <1>7, <2>1, <2>2 DEF ClaimWrite, Bookkeeping, Tables
  <1>8. ASSUME NEW e \in Editors, NEW r \in Reviews, ClaimSupersedes(e, r)
        PROVE  Bookkeeping /\ Tables
    <2>1. calls' \in [Callers -> Call]
      BY <1>8, CallWrites DEF ClaimSupersedes, Goto, Places, Callers
    <2>2. Advances(r)
      <3> DEFINE f == << "APPROVED", "SUPERSEDED", "SUPERSEDED" >>
      <3>1. /\ queue[r].state = f[1]
            /\ ledger' = Logged(r, f[2])
            /\ queue' = [queue EXCEPT ![r] =
                  [state |-> f[3], created |-> queue[r].created,
                   fence |-> queue[r].fence]]
        BY <1>8, RowWrites DEF ClaimSupersedes, HeadOfQueue, Approved
      <3>2. f \in Forward /\ queue[r].created \in Nat /\ queue[r].fence \in Nat
        BY DEF Forward, QueueRow
      <3>5. queue[r].fence <= queue[r].fence
        BY <3>2
      <3> HIDE DEF f
      <3>3. \E n \in Nat, k \in Nat :
               /\ queue[r].state = f[1]
               /\ ledger' = Logged(r, f[2])
               /\ queue' = [queue EXCEPT ![r] =
                              [state |-> f[3], created |-> n, fence |-> k]]
               /\ k <= queue[r].fence
        BY <3>1, <3>2, <3>5
      <3>4. UNCHANGED << writer, tokens >>
        BY <1>8 DEF ClaimSupersedes
      <3> QED BY <3>2, <3>3, <3>4 DEF Advances
    <2> QED BY <1>8, <2>1, <2>2 DEF ClaimSupersedes, Bookkeeping, Tables
  <1>9. ASSUME NEW e \in Editors, ClaimNothing(e) PROVE Bookkeeping /\ Tables
    BY <1>9, <1>quiet, CallWrites
       DEF ClaimNothing, Bookkeeping, Goto, Places, Callers
  <1>10. ASSUME NEW e \in Editors, ReadTicket(e) PROVE Bookkeeping /\ Tables
    <2>1. calls' \in [Callers -> Call]
      BY <1>10, CallWrites DEF ReadTicket, Goto, Places, Callers
    <2>2. tokens' \in [Editors -> WriteToken] /\ TokensKept
      BY <1>10, NoWriteToken \in WriteToken
         DEF ReadTicket, TokensKept, NoWriteToken, WriteToken
    <2> QED BY <1>10, <2>1, <2>2 DEF ReadTicket, Bookkeeping, Tables, Quiet
  <1>11. ASSUME NEW e \in Editors, Heartbeat(e) PROVE Bookkeeping /\ Tables
    <2>1. writer.lease = "LIVE" /\ writer.renewals + 1 \in Nat
      BY <1>11 DEF Heartbeat, EditorCurrent, WriterRow
    <2> QED BY <1>11, <2>1
            DEF Heartbeat, Renewed, Bookkeeping, Tables, Quiet, TokensKept
  <1>12. ASSUME NEW e \in Editors, NEW o \in Outcomes, Complete(e, o)
         PROVE  Bookkeeping /\ Tables
    <2>1. o \in Ends /\ tokens[e].write = writer.active /\ writer.active \in Reviews
      BY <1>12, CanonicalAssumption DEF Complete, EditorCurrent, Ends
    <2>2. writer' = [lease |-> "NONE", active |-> NoReview, renewals |-> 0,
                     fence |-> writer.fence]
      BY <1>12 DEF Complete, WriterFreed, WriterRow
    <2>3. queue' = [queue EXCEPT ![writer.active] =
                      [state |-> o, created |-> @.created, fence |-> @.fence]]
      BY <1>12, <2>1, RowWrites DEF Complete
    <2>4. tokens' \in [Editors -> WriteToken] /\ TokensKept
      BY <1>12 DEF Complete, TokensKept, NoWriteToken, WriteToken
    <2>5. Closes(o)
      BY <1>12, <2>1, <2>2, <2>3, <2>4, CanonicalAssumption
         DEF Closes, Complete
    <2> QED BY <1>12, <2>1, <2>5 DEF Complete, Bookkeeping, Tables
  <1>13. ASSUME LapseLease PROVE Bookkeeping /\ Tables
    BY <1>13 DEF LapseLease, Bookkeeping, Tables, Quiet, TokensKept, WriterRow
  <1>14. ASSUME NEW c \in Callers, Crash(c) PROVE Bookkeeping /\ Tables
    <2>1. calls' \in [Callers -> Call]
      BY <1>14, CallWrites DEF Crash
    <2>2. tokens' \in [Editors -> WriteToken] /\ TokensKept
      BY <1>14 DEF Crash, TokensKept, NoWriteToken, WriteToken
    <2> QED BY <1>14, <2>1, <2>2 DEF Crash, Bookkeeping, Tables, Quiet
  <1>15. ASSUME NEW c \in Controllers, StartUp(c) PROVE Bookkeeping /\ Tables
    <2>1. calls' \in [Callers -> Call]
      BY <1>15, CallWrites DEF StartUp, Goto, Places, Callers
    <2> QED BY <1>15, <2>1, Containment DEF StartUp, Bookkeeping
  <1>16. CASE UNCHANGED vars
    BY <1>16, <1>quiet DEF vars, Bookkeeping
  <1> QED BY <1>1, <1>2, <1>3, <1>4, <1>5, <1>6, <1>7, <1>8, <1>9, <1>10,
             <1>11, <1>12, <1>13, <1>14, <1>15, <1>16
          DEF Next, EditorStep, ClaimCall, Delivery

-----------------------------------------------------------------------------
(* Types *)

LEMMA LedgerWrites ==
    ASSUME TypeOK, NEW r \in Reviews, NEW event \in Events
    PROVE  Logged(r, event) \in [Reviews -> Seq(Events)]
  <1>1. Append(ledger[r], event) \in Seq(Events)
    BY DEF TypeOK
  <1> QED BY <1>1 DEF Logged, TypeOK

LEMMA TypeNext == TypeOK /\ [Next]_vars => TypeOK'
  <1> SUFFICES ASSUME TypeOK, Bookkeeping, Tables PROVE TypeOK'
    BY StepKinds
  <1> USE DEF TypeOK, Bookkeeping
  <1>1. CASE Quiet
    BY <1>1 DEF Quiet, WriterRow
  <1>2. ASSUME NEW r \in Reviews, Advances(r) PROVE TypeOK'
    <2>1. PICK f \in Forward, n \in Nat, k \in Nat :
             /\ ledger' = Logged(r, f[2])
             /\ queue' = [queue EXCEPT ![r] = [state |-> f[3], created |-> n, fence |-> k]]
      BY <1>2 DEF Advances
    <2>2. f[2] \in Events /\ f[3] \in WriteStates
      BY DEF Forward, Events, WriteStates
    <2>3. [state |-> f[3], created |-> n, fence |-> k] \in QueueRow
      BY <2>2 DEF QueueRow
    <2>4. ledger' \in [Reviews -> Seq(Events)]
      BY <2>1, <2>2, LedgerWrites
    <2> QED BY <1>2, <2>1, <2>3, <2>4 DEF Advances
  <1>3. ASSUME NEW e \in Editors, NEW r \in Reviews, Takes(e, r) PROVE TypeOK'
    <2>1. ledger' \in [Reviews -> Seq(Events)]
      BY <1>3, LedgerWrites DEF Takes, Events
    <2>2. /\ [write |-> r, fence |-> writer.fence + 1] \in WriteToken
          /\ [state |-> "IN_FLIGHT", created |-> queue[r].created,
              fence |-> writer.fence + 1] \in QueueRow
          /\ writer' \in WriterRow
      BY <1>3 DEF Takes, WriteToken, QueueRow, WriterRow, WriteStates
    <2> QED BY <1>3, <2>1, <2>2 DEF Takes
  <1>4. ASSUME NEW o \in Ends, Closes(o) PROVE TypeOK'
    <2>1. writer.active \in Reviews
      BY <1>4 DEF Closes, WriterRow
    <2>2. ledger' \in [Reviews -> Seq(Events)]
      BY <1>4, <2>1, LedgerWrites DEF Closes, Events
    <2>3. [state |-> o, created |-> queue[writer.active].created,
           fence |-> queue[writer.active].fence] \in QueueRow
      BY <2>1 DEF QueueRow, WriteStates
    <2> QED BY <1>4, <2>1, <2>2, <2>3 DEF Closes, WriterRow
  <1> QED BY <1>1, <1>2, <1>3, <1>4 DEF Tables

\* The rows of the writer's tables keep their shape.
THEOREM WriterTypeCorrect == Spec => []TypeOK
  BY TypeInit, TypeNext, PTL DEF Spec

-----------------------------------------------------------------------------
(* The tables agree *)

\* A claim is written once, and nothing follows what closed a write.
UnclaimedBefore ==
    \A r \in Reviews :
        queue[r].state \in Unclaimed =>
            \A i \in DOMAIN ledger[r] :
                ledger[r][i] \in {"WATCH_ENQUEUED", "CANONICAL_APPROVED"}

\* Tokens carry fences the writer has given out, each to one session.
TokensDiffer ==
    /\ \A e \in Editors : tokens[e].fence <= writer.fence
    /\ \A d, e \in Editors :
          /\ tokens[d].write \in Reviews
          /\ tokens[e].write \in Reviews
          /\ tokens[d].fence = tokens[e].fence
          => d = e

WriterInv ==
    /\ TypeOK
    /\ WriterAgreesWithQueue
    /\ LedgerTellsState
    /\ UnclaimedBefore
    /\ EditedOnce
    /\ TokensDiffer

LEMMA WriterInit == Init => WriterInv
  <1> SUFFICES ASSUME Init PROVE WriterInv
    OBVIOUS
  <1>1. \A r \in Reviews : ledger[r] = << >> /\ DOMAIN ledger[r] = {}
    BY DEF Init
  <1> QED BY <1>1, TypeInit, CanonicalAssumption
          DEF Init, WriterInv, WriterAgreesWithQueue, LedgerTellsState,
              UnclaimedBefore, EditedOnce, TokensDiffer, InFlight, NoWriteToken

\* What an appended event is, and where the older ones are.
LEMMA Appended ==
    ASSUME TypeOK, NEW r \in Reviews, NEW event
    PROVE  LET s == Append(ledger[r], event) IN
           /\ Len(s) = Len(ledger[r]) + 1
           /\ s # << >>
           /\ s[Len(s)] = event
           /\ DOMAIN s = 1 .. Len(ledger[r]) + 1
           /\ DOMAIN ledger[r] = 1 .. Len(ledger[r])
           /\ Len(ledger[r]) \in Nat
           /\ \A i \in DOMAIN ledger[r] : s[i] = ledger[r][i]
  <1>1. ledger[r] \in Seq(Events)
    BY DEF TypeOK
  <1>2. ledger[r] \in Seq(Events \cup {event})
    BY <1>1
  <1> QED BY <1>2

\* Tokens that are kept or lost still differ.
LEMMA KeptDiffer ==
    ASSUME TypeOK, TokensDiffer, TokensKept, writer'.fence = writer.fence
    PROVE  TokensDiffer'
  <1>1. NoWriteToken.write \notin Reviews /\ NoWriteToken.fence = 0
    BY CanonicalAssumption DEF NoWriteToken
  <1>2. 0 <= writer.fence
    BY DEF TypeOK, WriterRow
  <1>3. \A e \in Editors : tokens'[e].write \in Reviews => tokens'[e] = tokens[e]
    BY <1>1 DEF TokensKept
  <1>4. \A e \in Editors : tokens'[e].fence <= writer.fence
    BY <1>1, <1>2 DEF TokensKept, TokensDiffer
  <1> QED BY <1>3, <1>4 DEF TokensDiffer

\* Quiet steps keep every invariant,
LEMMA QuietKeeps ==
    ASSUME WriterInv, TypeOK', Quiet
    PROVE  WriterInv'
  <1>1. writer'.active = writer.active /\ writer'.fence = writer.fence
    BY DEF Quiet, WriterInv, TypeOK, WriterRow
  <1>2. writer'.lease = "NONE" <=> writer.lease = "NONE"
    BY DEF Quiet, WriterInv, TypeOK, WriterRow
  <1>3. WriterAgreesWithQueue'
    BY <1>1, <1>2 DEF Quiet, WriterInv, WriterAgreesWithQueue, InFlight
  <1>4. (LedgerTellsState /\ UnclaimedBefore /\ EditedOnce)'
    BY DEF Quiet, WriterInv, LedgerTellsState, UnclaimedBefore, EditedOnce
  <1>5. TokensDiffer'
    <2>1. TokensKept
      BY DEF Quiet
    <2> QED BY <1>1, <2>1, KeptDiffer DEF WriterInv
  <1> QED BY <1>3, <1>4, <1>5 DEF WriterInv

\* and so does any other change that records itself: one write moves from an
\* open state, and its event is the state it moves to.
LEMMA RecordedKeeps ==
    ASSUME WriterInv, TypeOK', NEW r \in Reviews, NEW event \in Events,
           ledger' = Logged(r, event),
           \A q \in Reviews \ {r} : queue'[q] = queue[q],
           queue'[r].state = Told(event),
           queue[r].state \notin Ends \cup {"SUPERSEDED"},
           event = "WRITER_CLAIMED" => queue[r].state \in Unclaimed,
           event \in {"WATCH_ENQUEUED", "CANONICAL_APPROVED"}
              => queue[r].state \in Unclaimed
    PROVE  (LedgerTellsState /\ UnclaimedBefore /\ EditedOnce)'
  <1> USE DEF WriterInv
  <1> DEFINE s == Append(ledger[r], event)
  <1>1. /\ ledger'[r] = s
        /\ \A q \in Reviews \ {r} : ledger'[q] = ledger[q]
    BY DEF Logged, TypeOK
  <1>2. /\ Len(s) = Len(ledger[r]) + 1
        /\ s # << >>
        /\ s[Len(s)] = event
        /\ DOMAIN s = 1 .. Len(ledger[r]) + 1
        /\ DOMAIN ledger[r] = 1 .. Len(ledger[r])
        /\ Len(ledger[r]) \in Nat
        /\ \A i \in DOMAIN ledger[r] : s[i] = ledger[r][i]
    BY Appended
  <1>3. \A i \in DOMAIN ledger[r] : ledger[r][i] \notin Ends \cup {"SUPERSEDED"}
    <2> SUFFICES ASSUME NEW i \in DOMAIN ledger[r],
                        ledger[r][i] \in Ends \cup {"SUPERSEDED"}
                 PROVE  FALSE
      OBVIOUS
    <2>1. i = Len(ledger[r]) /\ ledger[r] # << >>
      BY <1>2 DEF EditedOnce
    <2>2. queue[r].state = Told(ledger[r][i])
      BY <2>1 DEF LedgerTellsState
    <2>3. Told(ledger[r][i]) = ledger[r][i]
      BY DEF Told, Ends
    <2> QED BY <2>2, <2>3
  <1> HIDE DEF s
  <1>4. LedgerTellsState'
    BY <1>1, <1>2 DEF LedgerTellsState
  <1>5. EditedOnce'
    <2>1. \A i \in DOMAIN s : s[i] \in Ends \cup {"SUPERSEDED"} => i = Len(s)
      BY <1>2, <1>3
    <2>2. \A i, j \in DOMAIN s :
             s[i] = "WRITER_CLAIMED" /\ s[j] = "WRITER_CLAIMED" => i = j
      <3>1. CASE event = "WRITER_CLAIMED"
        <4>1. \A i \in DOMAIN ledger[r] : ledger[r][i] # "WRITER_CLAIMED"
          BY <3>1 DEF UnclaimedBefore
        <4> QED BY <1>2, <4>1
      <3>2. CASE event # "WRITER_CLAIMED"
        BY <1>2, <3>2 DEF EditedOnce
      <3> QED BY <3>1, <3>2
    <2> QED BY <1>1, <2>1, <2>2 DEF EditedOnce
  <1>6. UnclaimedBefore'
    <2>1. ASSUME queue'[r].state \in Unclaimed
          PROVE  \A i \in DOMAIN s : s[i] \in {"WATCH_ENQUEUED", "CANONICAL_APPROVED"}
      <3>1. event \in {"WATCH_ENQUEUED", "CANONICAL_APPROVED"}
        BY <2>1 DEF Told, Unclaimed, Events, Ends
      <3>2. \A i \in DOMAIN ledger[r] :
               ledger[r][i] \in {"WATCH_ENQUEUED", "CANONICAL_APPROVED"}
        BY <3>1 DEF UnclaimedBefore
      <3> QED BY <1>2, <3>1, <3>2
    <2> QED BY <1>1, <2>1 DEF UnclaimedBefore
  <1> QED BY <1>4, <1>5, <1>6

\* Moving a write among the unclaimed states leaves the claims,
LEMMA AdvanceKeeps ==
    ASSUME WriterInv, TypeOK', NEW r \in Reviews, Advances(r)
    PROVE  WriterInv'
  <1> USE DEF WriterInv
  <1>1. PICK f \in Forward, n \in Nat, k \in Nat :
           /\ queue[r].state = f[1]
           /\ ledger' = Logged(r, f[2])
           /\ queue' = [queue EXCEPT ![r] = [state |-> f[3], created |-> n, fence |-> k]]
           /\ k <= queue[r].fence
    BY DEF Advances
  <1>2. /\ \A q \in Reviews \ {r} : queue'[q] = queue[q]
        /\ queue'[r].state = f[3] /\ queue'[r].fence = k
    BY <1>1 DEF TypeOK
  <1>3. /\ f[2] \in Events /\ f[3] = Told(f[2])
        /\ f[1] \in Unclaimed /\ f[2] # "WRITER_CLAIMED"
        /\ f[3] # "IN_FLIGHT" /\ f[1] # "IN_FLIGHT"
    BY DEF Forward, Events, Told, Unclaimed
  <1>4. queue[r].state \notin Ends \cup {"SUPERSEDED"}
    BY <1>1, <1>3 DEF Unclaimed, Ends
  <1>5. (LedgerTellsState /\ UnclaimedBefore /\ EditedOnce)'
    BY <1>1, <1>2, <1>3, <1>4, RecordedKeeps
  <1>6. WriterAgreesWithQueue'
    <2>1. InFlight' = InFlight
      BY <1>1, <1>2, <1>3 DEF InFlight
    <2>2. queue'[r].fence <= writer.fence
      <3>1. k \in Nat /\ queue[r].fence \in Nat /\ writer.fence \in Nat
        BY DEF TypeOK, QueueRow, WriterRow
      <3> QED BY <1>1, <1>2, <3>1 DEF WriterAgreesWithQueue
    <2>3. r \notin InFlight
      BY <1>1, <1>3 DEF InFlight
    <2>4. \A q \in Reviews : queue'[q].fence <= writer.fence
      BY <1>2, <2>2 DEF WriterAgreesWithQueue
    <2>5. \A q \in InFlight : queue'[q].fence = writer.fence
      BY <1>2, <2>3 DEF WriterAgreesWithQueue, InFlight
    <2> QED BY <2>1, <2>4, <2>5 DEF Advances, WriterAgreesWithQueue
  <1>7. TokensDiffer'
    BY DEF Advances, TokensDiffer
  <1> QED BY <1>5, <1>6, <1>7

\* a claim is the only write in flight, under a fence nobody had,
LEMMA TakeKeeps ==
    ASSUME WriterInv, TypeOK', NEW e \in Editors, NEW r \in Reviews, Takes(e, r)
    PROVE  WriterInv'
  <1> USE DEF WriterInv
  <1>1. /\ \A q \in Reviews \ {r} : queue'[q] = queue[q]
        /\ queue'[r].state = "IN_FLIGHT" /\ queue'[r].fence = writer.fence + 1
        /\ writer'.active = r /\ writer'.lease = "LIVE"
        /\ writer'.fence = writer.fence + 1
        /\ writer.fence \in Nat
    BY DEF Takes, TypeOK, WriterRow
  <1>2. (LedgerTellsState /\ UnclaimedBefore /\ EditedOnce)'
    <2>1. queue[r].state \in Unclaimed \ (Ends \cup {"SUPERSEDED"})
      BY DEF Takes, Unclaimed, Ends
    <2>2. ledger' = Logged(r, "WRITER_CLAIMED") /\ "WRITER_CLAIMED" \in Events
      BY DEF Takes, Events
    <2>3. Told("WRITER_CLAIMED") = "IN_FLIGHT"
      BY DEF Told
    <2> QED BY <1>1, <2>1, <2>2, <2>3, RecordedKeeps
  <1>3. WriterAgreesWithQueue'
    <2>1. InFlight' = {r}
      BY <1>1 DEF Takes, InFlight
    <2>2. \A q \in Reviews : queue'[q].fence <= writer'.fence
      <3>1. \A q \in Reviews : queue[q].fence \in Nat
        BY DEF TypeOK, QueueRow
      <3>2. \A q \in Reviews : queue[q].fence <= writer.fence
        BY DEF WriterAgreesWithQueue
      <3>3. \A q \in Reviews : queue[q].fence <= writer.fence + 1
        BY <1>1, <3>1, <3>2
      <3> QED BY <1>1, <3>3
    <2> QED BY <1>1, <2>1, <2>2, CanonicalAssumption DEF WriterAgreesWithQueue
  <1>4. TokensDiffer'
    <2>1. \A d \in Editors : tokens[d].fence \in Nat /\ tokens[d].fence <= writer.fence
      BY DEF TypeOK, WriteToken, TokensDiffer
    <2>2. /\ tokens'[e].fence = writer.fence + 1
          /\ \A d \in Editors \ {e} : tokens'[d] = tokens[d]
      BY DEF Takes, TypeOK
    <2>3. \A d \in Editors \ {e} : tokens'[d].fence < writer.fence + 1
      BY <1>1, <2>1, <2>2
    <2>4. \A d \in Editors : tokens'[d].fence <= writer'.fence
      BY <1>1, <2>1, <2>2
    <2>5. \A d \in Editors \ {e} : tokens'[d].fence # tokens'[e].fence
      BY <1>1, <2>1, <2>2, <2>3
    <2> QED BY <2>2, <2>4, <2>5 DEF TokensDiffer
  <1> QED BY <1>2, <1>3, <1>4

\* and closing it leaves no write in flight.
LEMMA CloseKeeps ==
    ASSUME WriterInv, TypeOK', NEW o \in Ends, Closes(o)
    PROVE  WriterInv'
  <1> USE DEF WriterInv
  <1> DEFINE r == writer.active
  <1>1. r \in Reviews /\ r # NoReview
    BY DEF Closes, TypeOK, WriterRow
  <1>2. InFlight = {r} /\ queue[r].state = "IN_FLIGHT"
    BY <1>1 DEF WriterAgreesWithQueue, InFlight
  <1> HIDE DEF r
  <1>3. /\ \A q \in Reviews \ {r} : queue'[q] = queue[q]
        /\ queue'[r].state = o /\ queue'[r].fence = queue[r].fence
        /\ writer'.active = NoReview /\ writer'.lease = "NONE"
        /\ writer'.fence = writer.fence
    BY <1>1 DEF Closes, TypeOK, r
  <1>4. (LedgerTellsState /\ UnclaimedBefore /\ EditedOnce)'
    <2>1. ledger' = Logged(r, o) /\ o \in Events /\ Told(o) = o
      BY DEF Closes, Events, Told, Ends, r
    <2>2. o \notin {"WRITER_CLAIMED", "WATCH_ENQUEUED", "CANONICAL_APPROVED"}
      BY DEF Ends
    <2>3. queue[r].state \notin Ends \cup {"SUPERSEDED"}
      BY <1>2 DEF Ends
    <2> QED BY <1>1, <1>3, <2>1, <2>2, <2>3, RecordedKeeps
  <1>5. WriterAgreesWithQueue'
    <2>1. InFlight' = {}
      BY <1>2, <1>3 DEF InFlight, Ends
    <2> QED BY <1>1, <1>3, <2>1 DEF WriterAgreesWithQueue
  <1>6. TokensDiffer'
    <2>1. TokensKept
      BY DEF Closes
    <2> QED BY <1>3, <2>1, KeptDiffer
  <1> QED BY <1>4, <1>5, <1>6

LEMMA WriterNext == WriterInv /\ [Next]_vars => WriterInv'
  BY StepKinds, TypeNext, QuietKeeps, AdvanceKeeps, TakeKeeps, CloseKeeps
     DEF Tables, WriterInv

LEMMA WriterHolds == Spec => []WriterInv
  BY WriterInit, WriterNext, PTL DEF Spec

\* The state row and the queue agree on the one claim there is, whatever lapsed,
\* was contained or was lost.
THEOREM WriterAgrees == Spec => []WriterAgreesWithQueue
  BY WriterHolds, PTL DEF WriterInv

\* Replaying the ledger gives the queue.
THEOREM LedgerIsComplete == Spec => []LedgerTellsState
  BY WriterHolds, PTL DEF WriterInv

\* No write is claimed twice, so an uncertain edit is never repeated.
THEOREM NoSecondEdit == Spec => []EditedOnce
  BY WriterHolds, PTL DEF WriterInv

\* Two sessions under the one writer identity are never both current.
THEOREM OneEditor == Spec => []EditorsAreExclusive
  <1>1. WriterInv => EditorsAreExclusive
    BY DEF WriterInv, EditorsAreExclusive, EditorCurrent, TokensDiffer
  <1> QED BY <1>1, WriterHolds, PTL

-----------------------------------------------------------------------------
(* Fencing *)

LEMMA NothingReadmits ==
    ASSUME WriterInv, TypeOK', Tables, NEW e \in Editors,
           tokens[e].write \in Reviews, tokens'[e] = tokens[e],
           EditorCurrent(e)'
    PROVE  EditorCurrent(e)
  <1> USE DEF WriterInv
  <1> DEFINE t == tokens[e]
  <1>1. /\ writer'.active = t.write /\ writer'.fence = t.fence
        /\ writer'.lease = "LIVE" /\ queue'[t.write].state = "IN_FLIGHT"
    BY DEF EditorCurrent
  <1>2. CASE Quiet
    BY <1>1, <1>2 DEF Quiet, EditorCurrent, TypeOK, WriterRow
  <1>3. ASSUME NEW r \in Reviews, Advances(r) PROVE EditorCurrent(e)
    <2>1. PICK f \in Forward, n \in Nat, k \in Nat :
             queue' = [queue EXCEPT ![r] = [state |-> f[3], created |-> n, fence |-> k]]
      BY <1>3 DEF Advances
    <2>2. f[3] # "IN_FLIGHT"
      BY DEF Forward
    <2>3. queue'[t.write] = queue[t.write]
      BY <1>1, <2>1, <2>2 DEF TypeOK
    <2> QED BY <1>1, <1>3, <2>3 DEF Advances, EditorCurrent
  <1>4. ASSUME NEW d \in Editors, NEW r \in Reviews, Takes(d, r) PROVE FALSE
    <2>1. writer'.fence = writer.fence + 1 /\ writer.fence \in Nat
      BY <1>4 DEF Takes, TypeOK, WriterRow
    <2>2. t.fence \in Nat /\ t.fence <= writer.fence
      BY DEF TypeOK, WriteToken, TokensDiffer
    <2> QED BY <1>1, <2>1, <2>2
  <1>5. ASSUME NEW o \in Ends, Closes(o) PROVE FALSE
    BY <1>1, <1>5 DEF Closes
  <1> QED BY <1>2, <1>3, <1>4, <1>5 DEF Tables

\* An editor that lost its write never gets back in.
THEOREM EditorsStayFenced == Spec => EditorsFencedForever
  <1>1. /\ WriterInv /\ WriterInv' /\ [Next]_vars
        => [\A e \in Editors :
              /\ tokens[e].write \in Reviews
              /\ tokens'[e] = tokens[e]
              /\ ~EditorCurrent(e)
              => ~EditorCurrent(e)']_vars
    BY StepKinds, NothingReadmits DEF WriterInv
  <1> QED BY <1>1, WriterHolds, PTL DEF Spec, EditorsFencedForever

-----------------------------------------------------------------------------
(* Refinement *)

LEMMA SerialInit == Init => Serial!Init
  BY DEF Init, Serial!Init, Stage

LEMMA SerialNext ==
    ASSUME WriterInv, TypeOK', Tables
    PROVE  [Serial!Next]_([r \in Reviews |-> Stage(r)])
  <1> USE DEF WriterInv
  <1> DEFINE stage == [r \in Reviews |-> Stage(r)]
  <1>0. ASSUME NEW r \in Reviews, NEW b,
               \A q \in Reviews \ {r} : queue'[q] = queue[q],
               Stage(r)' = b
        PROVE  stage' = [stage EXCEPT ![r] = b]
    BY <1>0 DEF Stage
  <1>1. CASE Quiet
    BY <1>1 DEF Quiet, Stage
  <1>2. ASSUME NEW r \in Reviews, Advances(r) PROVE Serial!Next
    <2>1. PICK f \in Forward, n \in Nat, k \in Nat :
             /\ queue[r].state = f[1]
             /\ queue' = [queue EXCEPT ![r] = [state |-> f[3], created |-> n, fence |-> k]]
      BY <1>2 DEF Advances
    <2>2. /\ \A q \in Reviews \ {r} : queue'[q] = queue[q]
          /\ queue'[r].state = f[3]
      BY <2>1 DEF TypeOK
    <2>3. \/ Stage(r) = "unknown" /\ Stage(r)' = "offered"
          \/ Stage(r) = "offered" /\ Stage(r)' = "granted"
          \/ Stage(r) = "granted" /\ Stage(r)' = "closed"
      BY <2>1, <2>2 DEF Forward, Stage
    <2> QED BY <1>0, <2>2, <2>3
            DEF Serial!Next, Serial!Offer, Serial!Grant, Serial!Withdraw,
                Serial!Move
  <1>3. ASSUME NEW e \in Editors, NEW r \in Reviews, Takes(e, r)
        PROVE  Serial!Next
    <2>1. /\ \A q \in Reviews \ {r} : queue'[q] = queue[q]
          /\ queue'[r].state = "IN_FLIGHT" /\ queue[r].state = "APPROVED"
      BY <1>3 DEF Takes, TypeOK
    <2>2. Stage(r) = "granted" /\ Stage(r)' = "editing"
      BY <2>1 DEF Stage
    <2>3. \A q \in Reviews : Stage(q) # "editing"
      BY <1>3 DEF Takes, InFlight, Stage
    <2> QED BY <1>0, <2>1, <2>2, <2>3 DEF Serial!Next, Serial!Begin, Serial!Move
  <1>4. ASSUME NEW o \in Ends, Closes(o) PROVE Serial!Next
    <2>1. PICK r \in Reviews : r = writer.active /\ queue[r].state = "IN_FLIGHT"
      BY <1>4 DEF Closes, TypeOK, WriterRow, WriterAgreesWithQueue, InFlight
    <2>2. /\ \A q \in Reviews \ {r} : queue'[q] = queue[q]
          /\ queue'[r].state = o
      BY <1>4, <2>1 DEF Closes, TypeOK
    <2>3. Stage(r) = "editing" /\ Stage(r)' = "closed"
      BY <2>1, <2>2 DEF Stage, Ends
    <2> QED BY <1>0, <2>1, <2>2, <2>3 DEF Serial!Next, Serial!Finish, Serial!Move
  <1> QED BY <1>1, <1>2, <1>3, <1>4 DEF Tables

\* The three tables, the calls on them, crashes and time implement the serial
\* writer.
THEOREM ImplementsSerial == Spec => ImplementsSerialWriter
  <1>1. WriterInv /\ WriterInv' /\ [Next]_vars
           => [Serial!Next]_([r \in Reviews |-> Stage(r)])
    BY StepKinds, SerialNext DEF WriterInv
  <1> QED BY <1>1, SerialInit, WriterHolds, PTL
          DEF Spec, ImplementsSerialWriter, Serial!Spec
=============================================================================
