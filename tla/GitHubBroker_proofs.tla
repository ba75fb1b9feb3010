------------------------- MODULE GitHubBroker_proofs -------------------------
(***************************************************************************)
(* Theorems about GitHubBroker.  The invariant follows a claim through the  *)
(* requests of execute(): what it knows at each of them about the commits   *)
(* of its branch.  Others may act between two requests, but whatever they   *)
(* do only adds commits to the end of a branch.                             *)
(***************************************************************************)
EXTENDS GitHubBroker, TLAPS, FiniteSetTheorems

\* Before the branch is made or found, and from there to the handoff.
Before  == {"unclaimed", "base", "branch", "create"}
Working == {"diff", "file", "put", "pr", "open", "final", "candidate"}

\* What path holds after the k-th commit of the branch of a claim.
Holds(c, k, path) == Commits(c)[k].tree[path]

Has(c, k, i) == Holds(c, k, Files(c)[i].path) = Files(c)[i].content

\* The row of a claim: its effect flag and how many files are behind it.
RowOK(c) ==
    /\ At(c, "unclaimed") <=> c[2] > job[c[1]].fence
    /\ claim[c].at \in Before \cup {"permanent"} => ~claim[c].effect
    /\ claim[c].at \in Working \cup {"uncertain"} => claim[c].effect
    /\ claim[c].at \in Before \cup {"diff"} => claim[c].done = 0
    /\ claim[c].at \in {"file", "put"} => claim[c].done < Len(Files(c))
    /\ claim[c].at \in {"pr", "open", "final", "candidate"} =>
          claim[c].done = Len(Files(c))

\* The branch of a claim, as the claim knows it.
BranchOK(c) ==
    /\ claim[c].at \in Before => \A k \in DOMAIN Commits(c) : Commits(c)[k].by # c
    /\ At(c, "permanent") =>
          \A k \in DOMAIN Commits(c) :
              Commits(c)[k].by = c => k = 1 /\ Commits(c)[k].tree = BaseTree
    /\ claim[c].at \in Working => claim[c].head \in DOMAIN Commits(c)
    /\ claim[c].at \in Working /\ Sharers(c) = {} =>
          claim[c].head = Len(Commits(c))
    /\ claim[c].at \in Working =>
          \A i \in 1 .. claim[c].done : \E k \in DOMAIN Commits(c) : Has(c, k, i)
    /\ claim[c].at \in {"final", "candidate"} =>
          claim[c].pr <= branch[NameOf(c)].pr

JobOK(j) ==
    /\ job[j].fence <= MaxClaims
    /\ job[j].state \in {"WATCH_PENDING", "SUCCEEDED"} =>
          job[j].fence >= 1 /\ claim[Current(j)].at \in Ends
    /\ job[j].state = "RUNNING" => job[j].fence >= 1

BrokerInv ==
    /\ TypeOK
    /\ payload \in Submissions
    /\ IsFiniteSet(Claimed)
    /\ \A c \in Claims : RowOK(c) /\ BranchOK(c)
    /\ \A j \in Jobs : JobOK(j)

-----------------------------------------------------------------------------
(* Types *)

LEMMA NameType ==
    ASSUME TypeOK, NEW c \in Claims
    PROVE  /\ NameOf(c) \in Names
           /\ c[1] \in Jobs /\ c[2] \in 1 .. MaxClaims /\ c = << c[1], c[2] >>
           /\ Files(c) \in Seq(File) /\ payload[c[1]] \in Payload
           /\ Commits(c) \in Seq(Commit) /\ branch[NameOf(c)] \in Branch
<1>1. c[1] \in Jobs /\ c[2] \in 1 .. MaxClaims /\ c = << c[1], c[2] >>
  BY DEF Claims
<1>2. payload[c[1]] \in Payload
  BY <1>1 DEF TypeOK
<1>3. payload[c[1]].slug \in Slugs /\ Files(c) \in Seq(File)
  BY <1>2 DEF Payload, Files
<1>4. NameOf(c) \in Names
  BY <1>1, <1>3 DEF NameOf, Names
<1>5. branch[NameOf(c)] \in Branch
  BY <1>4 DEF TypeOK
<1> QED  BY <1>1, <1>2, <1>3, <1>4, <1>5 DEF Commits, Branch

LEMMA HeadType ==
    ASSUME TypeOK, NEW c \in Claims, Exists(c)
    PROVE  HeadTree(c) \in Tree /\ Len(Commits(c)) \in DOMAIN Commits(c)
           /\ Len(Commits(c)) >= 1
<1>1. Commits(c) \in Seq(Commit) /\ Commits(c) # << >>
  BY NameType DEF Exists
<1>2. Len(Commits(c)) \in DOMAIN Commits(c) /\ Len(Commits(c)) >= 1
  BY <1>1
<1>3. Commits(c)[Len(Commits(c))] \in Commit
  BY <1>1, <1>2
<1> QED  BY <1>2, <1>3 DEF HeadTree, Commit

\* A request of a claim writes its row and no other.
LEMMA UpdateEffect ==
    ASSUME TypeOK, NEW c \in Claims, NEW row \in ClaimRow, Update(c, row)
    PROVE  /\ claim' \in [Claims -> ClaimRow]
           /\ claim'[c] = row
           /\ \A d \in Claims \ {c} : claim'[d] = claim[d]
BY DEF TypeOK, Update

LEMMA CreateEffect ==
    ASSUME TypeOK, NEW c \in Claims, CreatesBranch(c)
    PROVE  /\ branch' \in [Names -> Branch]
           /\ \A b \in Names \ {NameOf(c)} : branch'[b] = branch[b]
           /\ branch[NameOf(c)].commits = << >>
           /\ branch'[NameOf(c)].commits = << [tree |-> BaseTree, by |-> c] >>
           /\ branch'[NameOf(c)].pr = branch[NameOf(c)].pr
<1>1. [tree |-> BaseTree, by |-> c] \in Commit
  BY BrokerAssumption DEF Commit
<1>2. job[c[1]].base \in Nat
  BY NameType DEF TypeOK, JobRow
<1>3. << [tree |-> BaseTree, by |-> c] >> \in Seq(Commit)
  BY <1>1
<1>4. branch[NameOf(c)] \in Branch
  BY NameType
<1> QED  BY <1>2, <1>3, <1>4, NameType DEF TypeOK, CreatesBranch, Branch, Exists, Commits

Written(c) == [ tree |-> [HeadTree(c) EXCEPT ![ThisFile(c).path] = ThisFile(c).content],
                by   |-> c ]

LEMMA WriteEffect ==
    ASSUME TypeOK, NEW c \in Claims, Exists(c), claim[c].done < Len(Files(c)),
           WritesFile(c)
    PROVE  /\ branch' \in [Names -> Branch]
           /\ \A b \in Names \ {NameOf(c)} : branch'[b] = branch[b]
           /\ branch'[NameOf(c)].commits = Append(Commits(c), Written(c))
           /\ branch'[NameOf(c)].pr = branch[NameOf(c)].pr
           /\ Written(c) \in Commit
           /\ ThisFile(c) \in File /\ claim[c].done + 1 \in DOMAIN Files(c)
<1>1. claim[c].done + 1 \in DOMAIN Files(c) /\ ThisFile(c) \in File
  BY NameType DEF TypeOK, ClaimRow, ThisFile
<1>2. Written(c) \in Commit
  BY <1>1, HeadType DEF Written, Commit, Tree, File
<1>3. Append(Commits(c), Written(c)) \in Seq(Commit)
  BY <1>2, NameType
<1>4. branch[NameOf(c)] \in Branch
  BY NameType
<1>5. branch' = [branch EXCEPT ![NameOf(c)].commits = Append(Commits(c), Written(c))]
  BY NameType DEF WritesFile, Written, Commits, TypeOK
<1> QED  BY <1>1, <1>2, <1>3, <1>4, <1>5, NameType DEF TypeOK, Branch

LEMMA OpenEffect ==
    ASSUME TypeOK, NEW c \in Claims, OpensPullRequest(c)
    PROVE  /\ branch' \in [Names -> Branch]
           /\ \A b \in Names : branch'[b].commits = branch[b].commits
           /\ \A b \in Names \ {NameOf(c)} : branch'[b] = branch[b]
           /\ branch'[NameOf(c)].pr = branch[NameOf(c)].pr + 1
<1> DEFINE b0  == NameOf(c)
           row == [branch[b0] EXCEPT !.open = TRUE, !.pr = branch[b0].pr + 1]
<1>1. b0 \in Names /\ branch[b0] \in Branch /\ branch \in [Names -> Branch]
  BY NameType DEF TypeOK
<1>2. branch' = [branch EXCEPT ![b0].open = TRUE, ![b0].pr = branch[b0].pr + 1]
  BY DEF OpensPullRequest
<1> HIDE DEF b0
<1>3. row \in Branch /\ row.commits = branch[b0].commits /\ row.pr = branch[b0].pr + 1
  <2>1. branch[b0].pr + 1 \in Nat /\ branch[b0].commits \in Seq(Commit) /\ branch[b0].base \in Nat
    BY <1>1 DEF Branch
  <2> QED  BY <1>1, <2>1 DEF Branch
<1>4. branch' = [branch EXCEPT ![b0] = row]
  BY <1>1, <1>2 DEF Branch
<1> HIDE DEF row
<1> QED  BY <1>1, <1>3, <1>4 DEF b0

-----------------------------------------------------------------------------
(* What a request does to branches: it adds commits of its claim at the end *)

Adds(c) ==
    /\ branch' \in [Names -> Branch]
    /\ \A b \in Names :
          /\ branch[b].pr <= branch'[b].pr
          /\ Len(branch[b].commits) <= Len(branch'[b].commits)
          /\ \A k \in DOMAIN branch[b].commits :
                branch'[b].commits[k] = branch[b].commits[k]
          /\ \A k \in DOMAIN branch'[b].commits :
                \/ k \in DOMAIN branch[b].commits
                \/ b = NameOf(c) /\ branch'[b].commits[k].by = c

LEMMA BranchType ==
    ASSUME TypeOK, NEW b \in Names
    PROVE  branch[b].commits \in Seq(Commit) /\ branch[b].pr \in Nat
BY DEF TypeOK, Branch

LEMMA KeepAdds ==
    ASSUME TypeOK, NEW c \in Claims, UNCHANGED branch
    PROVE  Adds(c)
BY BranchType DEF Adds, TypeOK

LEMMA CreateAdds ==
    ASSUME TypeOK, NEW c \in Claims, CreatesBranch(c)
    PROVE  Adds(c)
<1> SUFFICES ASSUME NEW b \in Names
             PROVE  /\ branch[b].pr <= branch'[b].pr
                    /\ Len(branch[b].commits) <= Len(branch'[b].commits)
                    /\ \A k \in DOMAIN branch[b].commits :
                          branch'[b].commits[k] = branch[b].commits[k]
                    /\ \A k \in DOMAIN branch'[b].commits :
                          \/ k \in DOMAIN branch[b].commits
                          \/ b = NameOf(c) /\ branch'[b].commits[k].by = c
  BY CreateEffect DEF Adds
<1>1. CASE b # NameOf(c)
  <2>1. branch'[b] = branch[b]
    BY <1>1, CreateEffect
  <2> QED  BY <1>1, <2>1, BranchType
<1>2. CASE b = NameOf(c)
  <2>1. /\ branch[b].commits = << >>
        /\ branch'[b].commits = << [tree |-> BaseTree, by |-> c] >>
        /\ branch'[b].pr = branch[b].pr
    BY <1>2, CreateEffect
  <2> QED  BY <1>2, <2>1, BranchType
<1> QED  BY <1>1, <1>2

LEMMA WriteAdds ==
    ASSUME TypeOK, NEW c \in Claims, Exists(c), claim[c].done < Len(Files(c)),
           WritesFile(c)
    PROVE  Adds(c)
<1> SUFFICES ASSUME NEW b \in Names
             PROVE  /\ branch[b].pr <= branch'[b].pr
                    /\ Len(branch[b].commits) <= Len(branch'[b].commits)
                    /\ \A k \in DOMAIN branch[b].commits :
                          branch'[b].commits[k] = branch[b].commits[k]
                    /\ \A k \in DOMAIN branch'[b].commits :
                          \/ k \in DOMAIN branch[b].commits
                          \/ b = NameOf(c) /\ branch'[b].commits[k].by = c
  BY WriteEffect DEF Adds
<1>1. CASE b # NameOf(c)
  BY <1>1, WriteEffect, BranchType
<1>2. CASE b = NameOf(c)
  <2>1. /\ branch'[b].commits = Append(branch[b].commits, Written(c))
        /\ branch'[b].pr = branch[b].pr
        /\ Written(c).by = c
    BY <1>2, WriteEffect DEF Commits, Written
  <2> HIDE DEF Written
  <2>2. /\ Len(branch'[b].commits) = Len(branch[b].commits) + 1
        /\ \A k \in DOMAIN branch[b].commits :
              branch'[b].commits[k] = branch[b].commits[k]
        /\ branch'[b].commits[Len(branch[b].commits) + 1] = Written(c)
        /\ \A k \in DOMAIN branch'[b].commits :
              k \in DOMAIN branch[b].commits \/ k = Len(branch[b].commits) + 1
    BY <2>1, BranchType, WriteEffect
  <2> QED  BY <1>2, <2>1, <2>2, BranchType
<1> QED  BY <1>1, <1>2

LEMMA OpenAdds ==
    ASSUME TypeOK, NEW c \in Claims, OpensPullRequest(c)
    PROVE  Adds(c)
<1>1. \A b \in Names : branch[b].pr <= branch'[b].pr
  <2> TAKE b \in Names
  <2>1. branch'[b].pr = branch[b].pr \/ branch'[b].pr = branch[b].pr + 1
    BY OpenEffect
  <2> QED  BY <2>1, BranchType
<1>2. \A b \in Names : branch'[b].commits = branch[b].commits
  BY OpenEffect
<1> QED  BY <1>1, <1>2, OpenEffect, BranchType DEF Adds

-----------------------------------------------------------------------------
(* A request of a claim *)

Works(c) == Execute(c) \/ RequestFails(c) \/ ReplyLost(c)

\* What every request of c leaves alone, and that c is a claim that runs.
Local(c) ==
    /\ claim' \in [Claims -> ClaimRow]
    /\ \A d \in Claims \ {c} : claim'[d] = claim[d]
    /\ claim[c].at \in Requests
    /\ claim'[c].at # "unclaimed"
    /\ UNCHANGED << payload, job, base, watch, closes >>
    /\ faults' \in Nat
    /\ Adds(c)

\* Requests that only move on to another place.
LEMMA GotoLocal ==
    ASSUME TypeOK, NEW c \in Claims, claim[c].at \in Requests,
           NEW place \in Requests \cup Ends, Goto(c, place), Adds(c)
    PROVE  /\ Local(c)
           /\ claim'[c] = [claim[c] EXCEPT !.at = place]
<1>1. [claim[c] EXCEPT !.at = place] \in ClaimRow
  BY DEF TypeOK, ClaimRow
<1>2. place # "unclaimed"
  BY DEF Requests, Ends
<1>3. [claim[c] EXCEPT !.at = place].at = place
  BY DEF TypeOK, ClaimRow
<1>4. Update(c, [claim[c] EXCEPT !.at = place])
  BY DEF Goto
<1>5. UNCHANGED << payload, job, base, watch, closes >> /\ faults' \in Nat
  BY <1>4 DEF Update, TypeOK
<1> QED  BY <1>1, <1>2, <1>3, <1>4, <1>5, UpdateEffect DEF Local

LEMMA FailureType ==
    ASSUME TypeOK, NEW c \in Claims
    PROVE  Failure(c) \in Ends /\ Failure(c) # "candidate"
BY DEF Failure, Ends

LEMMA FailsLocal ==
    ASSUME TypeOK, NEW c \in Claims, claim[c].at \in Requests, Fails(c), Adds(c)
    PROVE  /\ Local(c)
           /\ claim'[c] = [claim[c] EXCEPT !.at = Failure(c)]
<1>1. [claim[c] EXCEPT !.at = Failure(c)] \in ClaimRow
  BY FailureType DEF TypeOK, ClaimRow
<1>2. claim' = [claim EXCEPT ![c] = [claim[c] EXCEPT !.at = Failure(c)]]
  BY DEF Fails, TypeOK
<1>3. [claim[c] EXCEPT !.at = Failure(c)].at = Failure(c)
  BY DEF TypeOK, ClaimRow
<1>4. faults' \in Nat
  BY DEF Fails, TypeOK
<1> QED
  BY <1>1, <1>2, <1>3, <1>4, FailureType DEF Local, Fails, TypeOK, Ends

-----------------------------------------------------------------------------
(* Other claims than the one that moves *)

LEMMA OthersKeep ==
    ASSUME BrokerInv, NEW c \in Claims, NEW d \in Claims, d # c, Local(c)
    PROVE  RowOK(d)' /\ BranchOK(d)'
<1>1. /\ claim'[d] = claim[d] /\ payload' = payload /\ job' = job
      /\ RowOK(d) /\ BranchOK(d) /\ TypeOK
  BY DEF Local, BrokerInv
<1>2. /\ NameOf(d) \in Names /\ NameOf(d)' = NameOf(d) /\ Files(d)' = Files(d)
      /\ Commits(d) \in Seq(Commit)
  BY <1>1, NameType DEF NameOf, Files
<1>3. RowOK(d)'
  BY <1>1, <1>2 DEF RowOK, At
<1>4. /\ Commits(d)' \in Seq(Commit)
      /\ Len(Commits(d)) <= Len(Commits(d)')
      /\ \A k \in DOMAIN Commits(d) : Commits(d)'[k] = Commits(d)[k]
      /\ \A k \in DOMAIN Commits(d)' :
            \/ k \in DOMAIN Commits(d)
            \/ NameOf(d) = NameOf(c) /\ Commits(d)'[k].by = c
      /\ branch[NameOf(d)].pr <= branch'[NameOf(d)].pr
      /\ branch[NameOf(d)].pr \in Nat /\ branch'[NameOf(d)].pr \in Nat
  BY <1>1, <1>2 DEF Local, Adds, Commits, TypeOK, Branch
<1>5. DOMAIN Commits(d) \subseteq DOMAIN Commits(d)'
  BY <1>2, <1>4
<1>6. Sharers(d)' = Sharers(d)
  <2>1. \A e \in Claims : NameOf(e)' = NameOf(e)
    BY <1>1 DEF NameOf
  <2>2. \A e \in Claims : At(e, "unclaimed")' <=> At(e, "unclaimed")
    BY DEF Local, At, Requests
  <2> QED  BY <2>1, <2>2 DEF Sharers
<1>7. NameOf(c) = NameOf(d) => c \in Sharers(d)
  BY DEF Sharers, Local, At, Requests
<1>8. Sharers(d) = {} => Len(Commits(d)') = Len(Commits(d))
  <2> SUFFICES ASSUME Sharers(d) = {}, Len(Commits(d)') # Len(Commits(d))
               PROVE  FALSE
    OBVIOUS
  <2>1. Len(Commits(d)') \in DOMAIN Commits(d)' /\ Len(Commits(d)') \notin DOMAIN Commits(d)
    BY <1>2, <1>4
  <2> QED  BY <1>4, <1>7, <2>1
<1>9. claim'[d].at = claim[d].at /\ claim'[d].head = claim[d].head
      /\ claim'[d].done = claim[d].done /\ claim'[d].pr = claim[d].pr
      /\ claim[d].head \in Nat /\ claim[d].done \in Nat /\ claim[d].pr \in Nat
  BY <1>1 DEF TypeOK, ClaimRow
<1>10. ASSUME claim[d].at \in Before
       PROVE  \A k \in DOMAIN Commits(d)' : Commits(d)'[k].by # d
  BY <1>1, <1>4, <1>10 DEF BranchOK
<1>11. ASSUME At(d, "permanent")
       PROVE  \A k \in DOMAIN Commits(d)' :
                  Commits(d)'[k].by = d => k = 1 /\ Commits(d)'[k].tree = BaseTree
  BY <1>1, <1>4, <1>11 DEF BranchOK
<1>12. ASSUME claim[d].at \in Working
       PROVE  \A i \in 1 .. claim[d].done : \E k \in DOMAIN Commits(d)' : Has(d, k, i)'
  <2> SUFFICES ASSUME NEW i \in 1 .. claim[d].done
               PROVE  \E k \in DOMAIN Commits(d)' : Has(d, k, i)'
    OBVIOUS
  <2>1. PICK k \in DOMAIN Commits(d) : Has(d, k, i)
    BY <1>1, <1>12 DEF BranchOK
  <2>2. Has(d, k, i)'
    BY <1>2, <1>4, <2>1 DEF Has, Holds
  <2> QED  BY <1>5, <2>1, <2>2
<1>13. BranchOK(d)'
  BY <1>1, <1>2, <1>4, <1>5, <1>6, <1>8, <1>9, <1>10, <1>11, <1>12 DEF BranchOK, At
<1> QED  BY <1>3, <1>13

-----------------------------------------------------------------------------
(* The claim that moves *)

LEMMA OwnBase ==
    ASSUME BrokerInv, NEW c \in Claims, Local(c)
    PROVE  /\ TypeOK /\ RowOK(c) /\ BranchOK(c)
           /\ NameOf(c)' = NameOf(c) /\ Files(c)' = Files(c) /\ job' = job
           /\ NameOf(c) \in Names
           /\ Commits(c) \in Seq(Commit) /\ Commits(c)' \in Seq(Commit)
           /\ Len(Commits(c)) <= Len(Commits(c)')
           /\ DOMAIN Commits(c) \subseteq DOMAIN Commits(c)'
           /\ \A k \in DOMAIN Commits(c) : Commits(c)'[k] = Commits(c)[k]
           /\ \A k \in DOMAIN Commits(c), i \in DOMAIN Files(c) :
                 Has(c, k, i) => Has(c, k, i)'
           /\ branch[NameOf(c)].pr <= branch'[NameOf(c)].pr
           /\ branch[NameOf(c)].pr \in Nat /\ branch'[NameOf(c)].pr \in Nat
           /\ Sharers(c)' = Sharers(c)
           /\ claim[c] \in ClaimRow /\ claim'[c] \in ClaimRow
           /\ Len(Files(c)) \in Nat /\ Len(Files(c)) >= 1
           /\ Files(c) \in Seq(File)
<1>1. /\ payload' = payload /\ job' = job /\ TypeOK /\ RowOK(c) /\ BranchOK(c)
      /\ payload \in Submissions
  BY DEF Local, BrokerInv
<1>2. /\ NameOf(c) \in Names /\ NameOf(c)' = NameOf(c) /\ Files(c)' = Files(c)
      /\ Commits(c) \in Seq(Commit) /\ Files(c) \in Seq(File) /\ c[1] \in Jobs
  BY <1>1, NameType DEF NameOf, Files
<1>3. /\ Commits(c)' \in Seq(Commit)
      /\ Len(Commits(c)) <= Len(Commits(c)')
      /\ \A k \in DOMAIN Commits(c) : Commits(c)'[k] = Commits(c)[k]
      /\ branch[NameOf(c)].pr <= branch'[NameOf(c)].pr
      /\ branch[NameOf(c)].pr \in Nat /\ branch'[NameOf(c)].pr \in Nat
  BY <1>1, <1>2 DEF Local, Adds, Commits, TypeOK, Branch
<1>4. DOMAIN Commits(c) \subseteq DOMAIN Commits(c)'
  BY <1>2, <1>3
<1>5. ASSUME NEW k \in DOMAIN Commits(c), NEW i \in DOMAIN Files(c), Has(c, k, i)
      PROVE  Has(c, k, i)'
  BY <1>2, <1>3, <1>5 DEF Has, Holds
<1>6. Sharers(c)' = Sharers(c)
  <2>1. \A e \in Claims : NameOf(e)' = NameOf(e)
    BY <1>1 DEF NameOf
  <2>2. \A e \in Claims : At(e, "unclaimed")' <=> At(e, "unclaimed")
    BY DEF Local, At, Requests
  <2> QED  BY <2>1, <2>2 DEF Sharers
<1>7. Files(c) # << >>
  BY <1>1, <1>2, BrokerAssumption DEF Files
<1>8. Len(Files(c)) \in Nat /\ Len(Files(c)) >= 1
  BY <1>2, <1>7
<1>9. claim[c] \in ClaimRow /\ claim'[c] \in ClaimRow
  BY <1>1 DEF TypeOK, Local
<1> QED  BY <1>1, <1>2, <1>3, <1>4, <1>5, <1>6, <1>8, <1>9

\* A claim that fails: whatever the failed request did is its first commit, or
\* the claim reports that it cannot tell.
LEMMA FailureOK ==
    ASSUME BrokerInv, NEW c \in Claims, Local(c),
           claim'[c] = [claim[c] EXCEPT !.at = Failure(c)],
           ~claim[c].effect =>
               \/ Commits(c)' = Commits(c)
               \/ Commits(c)' = << [tree |-> BaseTree, by |-> c] >>
    PROVE  RowOK(c)' /\ BranchOK(c)'
<1>1. claim'[c].at = Failure(c) /\ claim'[c].effect = claim[c].effect
  BY OwnBase DEF ClaimRow
<1>2. RowOK(c) /\ BranchOK(c) /\ job' = job /\ claim[c].at \in Requests /\ claim[c].effect \in BOOLEAN
  BY OwnBase DEF Local, ClaimRow
<1>3. c[2] <= job[c[1]].fence
  <2>1. c[2] \in Nat /\ job[c[1]].fence \in Nat
    BY NameType DEF BrokerInv, TypeOK, JobRow
  <2> QED  BY <1>2, <2>1 DEF RowOK, At, Requests
<1>4. RowOK(c)'
  <2>1. c[2] \in Nat /\ job[c[1]].fence \in Nat
    BY NameType DEF BrokerInv, TypeOK, JobRow
  <2> QED  BY <1>1, <1>2, <1>3, <2>1 DEF RowOK, At, Failure, Before, Working
<1>5. CASE claim[c].effect
  BY <1>1, <1>4, <1>5 DEF BranchOK, At, Failure, Before, Working
<1>6. CASE ~claim[c].effect
  <2>1. claim[c].at \in Before
    BY <1>2, <1>6 DEF RowOK, Requests, Working, Before
  <2>2. claim'[c].at = "permanent"
    BY <1>1, <1>6 DEF Failure
  <2>3. \A k \in DOMAIN Commits(c) : Commits(c)[k].by # c
    BY <1>2, <2>1 DEF BranchOK
  <2>4. ASSUME NEW k \in DOMAIN Commits(c)', Commits(c)'[k].by = c
        PROVE  k = 1 /\ Commits(c)'[k].tree = BaseTree
    BY <1>6, <2>3, <2>4
  <2> QED  BY <1>4, <2>2, <2>4 DEF BranchOK, At, Before, Working
<1> QED  BY <1>2, <1>5, <1>6

\* A move between two requests that writes nothing and keeps the file count.
LEMMA StaysOK ==
    ASSUME BrokerInv, NEW c \in Claims, Local(c), UNCHANGED branch,
           \/ claim[c].at = "base" /\ claim'[c].at = "branch"
           \/ claim[c].at = "branch" /\ claim'[c].at = "create"
           \/ claim[c].at = "diff" /\ claim'[c].at = "file"
           \/ claim[c].at = "file" /\ claim'[c].at = "put"
           \/ claim[c].at = "pr" /\ claim'[c].at = "open"
           \/ claim[c].at = "final" /\ claim'[c].at = "candidate",
           claim'[c].effect = claim[c].effect, claim'[c].done = claim[c].done,
           claim'[c].head = claim[c].head, claim'[c].pr = claim[c].pr
    PROVE  RowOK(c)' /\ BranchOK(c)'
<1>1. RowOK(c) /\ BranchOK(c) /\ job' = job /\ Files(c)' = Files(c) /\ NameOf(c)' = NameOf(c)
      /\ Sharers(c)' = Sharers(c) /\ Len(Files(c)) >= 1 /\ Len(Files(c)) \in Nat
      /\ claim[c].done \in Nat
  BY OwnBase DEF ClaimRow
<1>2. Commits(c)' = Commits(c) /\ branch' = branch
  BY <1>1 DEF Commits
<1>3. c[2] \in Nat /\ job[c[1]].fence \in Nat
  BY NameType DEF BrokerInv, TypeOK, JobRow
<1>4. RowOK(c)'
  BY <1>1, <1>3 DEF RowOK, At, Before, Working
<1>5. \A k, i : Has(c, k, i)' <=> Has(c, k, i)
  BY <1>1, <1>2 DEF Has, Holds
<1>6. BranchOK(c)'
  BY <1>1, <1>2, <1>5 DEF BranchOK, At, Before, Working
<1> QED  BY <1>4, <1>6

-----------------------------------------------------------------------------
(* The requests, one by one *)

OwnOK(c) == Local(c) /\ RowOK(c)' /\ BranchOK(c)'

LEMMA GotoOK ==
    ASSUME BrokerInv, NEW c \in Claims, claim[c].at \in Requests,
           NEW place \in Requests \cup Ends, Goto(c, place), UNCHANGED branch,
           \/ claim[c].at = "base" /\ place = "branch"
           \/ claim[c].at = "branch" /\ place = "create"
           \/ claim[c].at = "diff" /\ place = "file"
           \/ claim[c].at = "file" /\ place = "put"
           \/ claim[c].at = "pr" /\ place = "open"
           \/ claim[c].at = "final" /\ place = "candidate"
    PROVE  OwnOK(c)
<1>1. Local(c) /\ claim'[c] = [claim[c] EXCEPT !.at = place]
  BY GotoLocal, KeepAdds DEF BrokerInv
<1>2. claim[c] \in ClaimRow
  BY DEF BrokerInv, TypeOK
<1>3. /\ claim'[c].at = place /\ claim'[c].effect = claim[c].effect
      /\ claim'[c].done = claim[c].done /\ claim'[c].head = claim[c].head
      /\ claim'[c].pr = claim[c].pr
  BY <1>1, <1>2 DEF ClaimRow
<1> QED  BY <1>1, <1>3, StaysOK DEF OwnOK

LEMMA GotoFailureOK ==
    ASSUME BrokerInv, NEW c \in Claims, claim[c].at \in Requests,
           Goto(c, Failure(c)), UNCHANGED branch
    PROVE  OwnOK(c)
<1>1. Local(c) /\ claim'[c] = [claim[c] EXCEPT !.at = Failure(c)]
  BY GotoLocal, KeepAdds, FailureType DEF BrokerInv
<1>2. Commits(c)' = Commits(c)
  BY <1>1, OwnBase DEF Commits
<1> QED  BY <1>1, <1>2, FailureOK DEF OwnOK

LEMMA ReadBaseOK ==
    ASSUME BrokerInv, NEW c \in Claims, ReadBase(c)
    PROVE  OwnOK(c)
<1>1. claim[c].at = "base" /\ claim[c].at \in Requests /\ UNCHANGED branch
  BY DEF ReadBase, At, Requests, Reads
<1>2. Goto(c, "branch") \/ Goto(c, Failure(c))
  BY DEF ReadBase
<1> QED  BY <1>1, <1>2, GotoOK, GotoFailureOK DEF Requests

LEMMA CheckDiffOK ==
    ASSUME BrokerInv, NEW c \in Claims, CheckDiff(c)
    PROVE  OwnOK(c)
<1>1. claim[c].at = "diff" /\ claim[c].at \in Requests /\ UNCHANGED branch
  BY DEF CheckDiff, At, Requests, Reads
<1>2. Goto(c, "file") \/ Goto(c, Failure(c))
  BY DEF CheckDiff
<1> QED  BY <1>1, <1>2, GotoOK, GotoFailureOK DEF Requests

LEMMA FinalDiffOK ==
    ASSUME BrokerInv, NEW c \in Claims, FinalDiff(c)
    PROVE  OwnOK(c)
<1>1. claim[c].at = "final" /\ claim[c].at \in Requests /\ UNCHANGED branch
  BY DEF FinalDiff, At, Requests, Reads
<1>2. Goto(c, "candidate") \/ Goto(c, Failure(c))
  BY DEF FinalDiff
<1> QED  BY <1>1, <1>2, GotoOK, GotoFailureOK DEF Ends

LEMMA RefusedOK ==
    ASSUME BrokerInv, NEW c \in Claims, Refused(c)
    PROVE  OwnOK(c)
<1>1. claim[c].at \in Requests /\ UNCHANGED branch /\ Goto(c, Failure(c))
  BY DEF Refused, At, Requests, Reads
<1> QED  BY <1>1, GotoFailureOK

\* Requests that write a row of their own.
LEMMA UpdateLocal ==
    ASSUME TypeOK, NEW c \in Claims, NEW row \in ClaimRow, Update(c, row),
           claim[c].at \in Requests, row.at # "unclaimed", Adds(c)
    PROVE  Local(c) /\ claim'[c] = row
<1>1. UNCHANGED << payload, job, base, watch, closes >> /\ faults' \in Nat
  BY DEF Update, TypeOK
<1> QED  BY <1>1, UpdateEffect DEF Local

LEMMA ReadBranchOK ==
    ASSUME BrokerInv, NEW c \in Claims, ReadBranch(c)
    PROVE  OwnOK(c)
<1>1. claim[c].at = "branch" /\ claim[c].at \in Requests /\ UNCHANGED branch /\ TypeOK
  BY DEF ReadBranch, At, Requests, Reads, BrokerInv
<1>2. CASE ~Exists(c)
  <2>1. Goto(c, "create")
    BY <1>2 DEF ReadBranch
  <2> QED  BY <1>1, <2>1, GotoOK DEF Requests
<1>3. CASE Exists(c)
  <2> DEFINE row == [claim[c] EXCEPT !.at = "diff", !.effect = TRUE,
                                     !.head = Len(Commits(c))]
  <2>1. Update(c, row)
    BY <1>3 DEF ReadBranch
  <2>2. Len(Commits(c)) \in DOMAIN Commits(c) /\ Len(Commits(c)) \in Nat /\ claim[c] \in ClaimRow
    BY <1>1, <1>3, HeadType, NameType DEF TypeOK
  <2>3. /\ row \in ClaimRow /\ row.at = "diff" /\ row.effect = TRUE
        /\ row.head = Len(Commits(c)) /\ row.done = claim[c].done
    BY <2>2 DEF ClaimRow, Requests
  <2> HIDE DEF row
  <2>4. Local(c) /\ claim'[c] = row
    BY <1>1, <2>1, <2>3, UpdateLocal, KeepAdds
  <2>5. /\ RowOK(c) /\ BranchOK(c) /\ job' = job /\ Files(c)' = Files(c)
        /\ NameOf(c)' = NameOf(c) /\ Sharers(c)' = Sharers(c) /\ claim[c].done \in Nat
        /\ Len(Files(c)) \in Nat
    BY <2>4, OwnBase DEF ClaimRow
  <2>6. Commits(c)' = Commits(c) /\ branch' = branch
    BY <1>1, <2>5 DEF Commits
  <2>7. c[2] \in Nat /\ job[c[1]].fence \in Nat
    BY NameType DEF BrokerInv, TypeOK, JobRow
  <2>8. claim[c].done = 0
    BY <1>1, <2>5 DEF RowOK, Before
  <2>9. RowOK(c)'
    BY <1>1, <2>3, <2>4, <2>5, <2>7, <2>8 DEF RowOK, At, Before, Working
  <2>10. BranchOK(c)'
    BY <2>2, <2>3, <2>4, <2>5, <2>6, <2>8 DEF BranchOK, At, Before, Working
  <2> QED  BY <2>4, <2>9, <2>10 DEF OwnOK
<1> QED  BY <1>2, <1>3

LEMMA CreateBranchOK ==
    ASSUME BrokerInv, NEW c \in Claims, CreateBranch(c)
    PROVE  OwnOK(c)
<1>1. claim[c].at = "create" /\ claim[c].at \in Requests /\ CreatesBranch(c) /\ TypeOK
  BY DEF CreateBranch, At, Requests, BrokerInv
<1> DEFINE row == [claim[c] EXCEPT !.at = "file", !.effect = TRUE, !.head = 1]
<1>2. Update(c, row)
  BY DEF CreateBranch
<1>3. claim[c] \in ClaimRow
  BY <1>1 DEF TypeOK
<1>4. /\ row \in ClaimRow /\ row.at = "file" /\ row.effect = TRUE
      /\ row.head = 1 /\ row.done = claim[c].done
  BY <1>3 DEF ClaimRow, Requests
<1> HIDE DEF row
<1>5. Local(c) /\ claim'[c] = row
  BY <1>1, <1>2, <1>4, UpdateLocal, CreateAdds
<1>6. /\ RowOK(c) /\ job' = job /\ Files(c)' = Files(c)
      /\ NameOf(c)' = NameOf(c) /\ Sharers(c)' = Sharers(c) /\ claim[c].done \in Nat
      /\ Len(Files(c)) \in Nat /\ Len(Files(c)) >= 1
  BY <1>5, OwnBase DEF ClaimRow
<1>7. Commits(c)' = << [tree |-> BaseTree, by |-> c] >>
  BY <1>1, <1>6, CreateEffect DEF Commits
<1>8. Len(Commits(c)') = 1 /\ 1 \in DOMAIN Commits(c)'
  BY <1>7
<1>9. c[2] \in Nat /\ job[c[1]].fence \in Nat
  BY NameType DEF BrokerInv, TypeOK, JobRow
<1>10. claim[c].done = 0
  BY <1>1, <1>6 DEF RowOK, Before
<1>11. RowOK(c)'
  BY <1>1, <1>4, <1>5, <1>6, <1>9, <1>10 DEF RowOK, At, Before, Working
<1>12. BranchOK(c)'
  BY <1>4, <1>5, <1>8, <1>10 DEF BranchOK, At, Before, Working
<1> QED  BY <1>5, <1>11, <1>12 DEF OwnOK

\* The next place after a file, and the files behind it.
LEMMA FilesBehind ==
    ASSUME BrokerInv, NEW c \in Claims, Local(c), claim[c].at \in {"file", "put"},
           claim'[c].at = NextFile(c), claim'[c].done = claim[c].done + 1,
           claim'[c].effect = TRUE,
           claim'[c].head \in DOMAIN Commits(c)',
           Sharers(c) = {} => claim'[c].head = Len(Commits(c)'),
           NEW n, n = claim[c].done + 1,
           \E k \in DOMAIN Commits(c)' : Has(c, k, n)'
    PROVE  RowOK(c)' /\ BranchOK(c)'
<1>1. /\ RowOK(c) /\ BranchOK(c) /\ job' = job /\ Files(c)' = Files(c)
      /\ Sharers(c)' = Sharers(c) /\ claim[c].done \in Nat
      /\ Len(Files(c)) \in Nat /\ Files(c) \in Seq(File)
      /\ DOMAIN Commits(c) \subseteq DOMAIN Commits(c)'
      /\ \A k \in DOMAIN Commits(c), i \in DOMAIN Files(c) :
            Has(c, k, i) => Has(c, k, i)'
  BY OwnBase DEF ClaimRow
<1>2. c[2] \in Nat /\ job[c[1]].fence \in Nat
  BY NameType DEF BrokerInv, TypeOK, JobRow
<1>3. claim[c].done < Len(Files(c)) /\ claim[c].at \in Working
  BY <1>1 DEF RowOK, Working
<1>4. claim'[c].at \in {"pr", "file"}
      /\ (claim'[c].at = "pr" => claim'[c].done = Len(Files(c)))
      /\ (claim'[c].at = "file" => claim'[c].done < Len(Files(c)))
  BY <1>1, <1>3 DEF NextFile
<1>5. RowOK(c)'
  BY <1>1, <1>2, <1>3, <1>4 DEF RowOK, At, Before, Working, Local
<1>6. ASSUME NEW i \in 1 .. claim'[c].done
      PROVE  \E k \in DOMAIN Commits(c)' : Has(c, k, i)'
  <2>1. CASE i = n
    BY <2>1
  <2>2. CASE i # n
    <3>1. i \in 1 .. claim[c].done /\ i \in DOMAIN Files(c)
      BY <1>1, <1>3, <2>2
    <3>2. PICK k \in DOMAIN Commits(c) : Has(c, k, i)
      BY <1>1, <1>3, <3>1 DEF BranchOK
    <3> QED  BY <1>1, <3>1, <3>2
  <2> QED  BY <2>1, <2>2
<1>7. BranchOK(c)'
  BY <1>1, <1>4, <1>6 DEF BranchOK, At, Before, Working
<1> QED  BY <1>5, <1>7

LEMMA ReadFileOK ==
    ASSUME BrokerInv, NEW c \in Claims, ReadFile(c)
    PROVE  OwnOK(c)
<1>1. claim[c].at = "file" /\ claim[c].at \in Requests /\ UNCHANGED branch /\ TypeOK
  BY DEF ReadFile, At, Requests, Reads, BrokerInv
<1>2. CASE Present(c) # ThisFile(c).content
  <2>1. Goto(c, "put") \/ Goto(c, Failure(c))
    BY <1>2 DEF ReadFile
  <2> QED  BY <1>1, <2>1, GotoOK, GotoFailureOK DEF Requests
<1>3. CASE Present(c) = ThisFile(c).content
  <2> DEFINE row == [claim[c] EXCEPT !.at = NextFile(c), !.done = claim[c].done + 1]
  <2>1. Update(c, row)
    BY <1>3 DEF ReadFile
  <2>2. claim[c] \in ClaimRow /\ claim[c].done + 1 \in Nat /\ NextFile(c) \in {"pr", "file"}
    BY <1>1 DEF TypeOK, ClaimRow, NextFile
  <2>3. /\ row \in ClaimRow /\ row.at = NextFile(c) /\ row.effect = claim[c].effect
        /\ row.head = claim[c].head /\ row.done = claim[c].done + 1
    BY <2>2 DEF ClaimRow, Requests
  <2> HIDE DEF row
  <2>4. Local(c) /\ claim'[c] = row
    BY <1>1, <2>1, <2>2, <2>3, UpdateLocal, KeepAdds
  <2>5. /\ RowOK(c) /\ BranchOK(c) /\ Files(c)' = Files(c) /\ Sharers(c)' = Sharers(c)
        /\ NameOf(c)' = NameOf(c) /\ Commits(c) \in Seq(Commit)
    BY <2>4, OwnBase
  <2>6. Commits(c)' = Commits(c)
    BY <1>1, <2>5 DEF Commits
  <2>7. claim[c].effect = TRUE /\ claim[c].head \in DOMAIN Commits(c)
        /\ (Sharers(c) = {} => claim[c].head = Len(Commits(c)))
    BY <1>1, <2>2, <2>5 DEF RowOK, BranchOK, Working, ClaimRow
  <2>8. Len(Commits(c)) \in DOMAIN Commits(c)
    BY <2>5, <2>7
  <2>9. Has(c, Len(Commits(c)), claim[c].done + 1)
    BY <1>3 DEF Has, Holds, Present, HeadTree, ThisFile
  <2>10. \A n : n = claim[c].done + 1 => \E k \in DOMAIN Commits(c)' : Has(c, k, n)'
    <3>1. \A k, i : Has(c, k, i)' <=> Has(c, k, i)
      BY <2>5, <2>6 DEF Has, Holds
    <3> QED  BY <2>6, <2>8, <2>9, <3>1
  <2>11. RowOK(c)' /\ BranchOK(c)'
    BY <1>1, <2>3, <2>4, <2>6, <2>7, <2>10, FilesBehind
  <2> QED  BY <2>4, <2>11 DEF OwnOK
<1> QED  BY <1>2, <1>3

LEMMA PutHasBranch ==
    ASSUME BrokerInv, NEW c \in Claims, claim[c].at = "put"
    PROVE  Exists(c) /\ claim[c].done < Len(Files(c)) /\ claim[c].effect
<1>1. RowOK(c) /\ BranchOK(c) /\ Commits(c) \in Seq(Commit)
  BY NameType DEF BrokerInv
<1> QED  BY <1>1 DEF RowOK, BranchOK, Working, Exists

LEMMA WriteFileOK ==
    ASSUME BrokerInv, NEW c \in Claims, WriteFile(c)
    PROVE  OwnOK(c)
<1>1. claim[c].at = "put" /\ claim[c].at \in Requests /\ WritesFile(c) /\ TypeOK
  BY DEF WriteFile, At, Requests, BrokerInv
<1>2. Exists(c) /\ claim[c].done < Len(Files(c))
  BY <1>1, PutHasBranch
<1> DEFINE row == [claim[c] EXCEPT !.at = NextFile(c), !.done = claim[c].done + 1,
                                   !.effect = TRUE, !.head = Len(Commits(c)) + 1]
<1>3. Update(c, row)
  BY DEF WriteFile
<1>4. Commits(c) \in Seq(Commit) /\ Len(Commits(c)) + 1 \in Nat
  BY <1>1, NameType
<1>5. claim[c] \in ClaimRow /\ claim[c].done + 1 \in Nat /\ NextFile(c) \in {"pr", "file"}
  BY <1>1 DEF TypeOK, ClaimRow, NextFile
<1>6. /\ row \in ClaimRow /\ row.at = NextFile(c) /\ row.effect = TRUE
      /\ row.head = Len(Commits(c)) + 1 /\ row.done = claim[c].done + 1
  BY <1>4, <1>5 DEF ClaimRow, Requests
<1> HIDE DEF row
<1>7. Local(c) /\ claim'[c] = row
  BY <1>1, <1>2, <1>3, <1>5, <1>6, UpdateLocal, WriteAdds
<1>8. Files(c)' = Files(c) /\ NameOf(c)' = NameOf(c)
  BY <1>7, OwnBase
<1>9. Commits(c)' = Append(Commits(c), Written(c))
  BY <1>1, <1>2, <1>8, WriteEffect DEF Commits
<1>10. Written(c) \in Commit /\ ThisFile(c) \in File
  BY <1>1, <1>2, WriteEffect
<1>11. Written(c).tree[ThisFile(c).path] = ThisFile(c).content
  BY <1>1, <1>2, <1>10, HeadType DEF Written, File, Tree
<1>12. ASSUME NEW m, m = Len(Commits(c)) + 1
       PROVE  /\ m \in DOMAIN Commits(c)' /\ Len(Commits(c)') = m
              /\ Commits(c)'[m] = Written(c)
  BY <1>4, <1>9, <1>10, <1>12
<1>13. ASSUME NEW m, m = Len(Commits(c)) + 1, NEW n, n = claim[c].done + 1
       PROVE  Has(c, m, n)'
  <2>1. Files(c)'[n] = ThisFile(c) /\ Commits(c)'[m].tree = Written(c).tree
    BY <1>8, <1>12, <1>13 DEF ThisFile
  <2> HIDE DEF Written
  <2> QED  BY <1>11, <2>1 DEF Has, Holds
<1>14. RowOK(c)' /\ BranchOK(c)'
  <2>1. PICK m : m = Len(Commits(c)) + 1
    OBVIOUS
  <2>2. PICK n : n = claim[c].done + 1
    OBVIOUS
  <2>3. m \in DOMAIN Commits(c)' /\ Len(Commits(c)') = m /\ claim'[c].head = m
    BY <1>6, <1>7, <1>12, <2>1
  <2>4. \E k \in DOMAIN Commits(c)' : Has(c, k, n)'
    BY <1>13, <2>1, <2>2, <2>3
  <2>5. claim'[c].at = NextFile(c) /\ claim'[c].done = claim[c].done + 1 /\ claim'[c].effect = TRUE
    BY <1>6, <1>7
  <2> QED  BY <1>1, <1>7, <2>2, <2>3, <2>4, <2>5, FilesBehind
<1> QED  BY <1>7, <1>14 DEF OwnOK

\* The pull request of a claim is the latest of its branch or an older one.
LEMMA ProposedOK ==
    ASSUME BrokerInv, NEW c \in Claims, claim[c].at \in {"pr", "open"},
           NEW row \in ClaimRow, Update(c, row), Adds(c),
           row.at = "final", row.effect = claim[c].effect, row.done = claim[c].done,
           row.head = claim[c].head,
           branch'[NameOf(c)].commits = branch[NameOf(c)].commits,
           row.pr <= branch'[NameOf(c)].pr
    PROVE  OwnOK(c)
<1>1. Local(c) /\ claim'[c] = row
  BY UpdateLocal DEF BrokerInv, Requests
<1>2. /\ RowOK(c) /\ BranchOK(c) /\ Files(c)' = Files(c) /\ Sharers(c)' = Sharers(c)
      /\ NameOf(c)' = NameOf(c) /\ job' = job
  BY <1>1, OwnBase
<1>3. Commits(c)' = Commits(c) /\ branch[NameOf(c)]' = branch'[NameOf(c)]
  BY <1>2 DEF Commits
<1>4. c[2] \in Nat /\ job[c[1]].fence \in Nat
  BY NameType DEF BrokerInv, TypeOK, JobRow
<1>5. RowOK(c)'
  BY <1>1, <1>2, <1>4 DEF RowOK, At, Before, Working
<1>6. \A k, i : Has(c, k, i)' <=> Has(c, k, i)
  BY <1>2, <1>3 DEF Has, Holds
<1>7. BranchOK(c)'
  BY <1>1, <1>2, <1>3, <1>6 DEF BranchOK, At, Before, Working
<1> QED  BY <1>1, <1>5, <1>7 DEF OwnOK

LEMMA FindPullRequestOK ==
    ASSUME BrokerInv, NEW c \in Claims, FindPullRequest(c)
    PROVE  OwnOK(c)
<1>1. claim[c].at = "pr" /\ claim[c].at \in Requests /\ UNCHANGED branch /\ TypeOK
  BY DEF FindPullRequest, At, Requests, Reads, BrokerInv
<1>2. CASE ~branch[NameOf(c)].open
  <2>1. Goto(c, "open")
    BY <1>2 DEF FindPullRequest
  <2> QED  BY <1>1, <2>1, GotoOK DEF Requests
<1>3. CASE branch[NameOf(c)].open
  <2> DEFINE row == [claim[c] EXCEPT !.at = "final", !.pr = branch[NameOf(c)].pr]
  <2>1. Update(c, row)
    BY <1>3 DEF FindPullRequest
  <2>2. claim[c] \in ClaimRow /\ branch[NameOf(c)].pr \in Nat
    BY <1>1, NameType DEF TypeOK, Branch
  <2>3. /\ row \in ClaimRow /\ row.at = "final" /\ row.effect = claim[c].effect
        /\ row.head = claim[c].head /\ row.done = claim[c].done
        /\ row.pr = branch[NameOf(c)].pr
    BY <2>2 DEF ClaimRow, Requests
  <2> HIDE DEF row
  <2> QED  BY <1>1, <2>1, <2>2, <2>3, KeepAdds, ProposedOK
<1> QED  BY <1>2, <1>3

LEMMA OpenPullRequestOK ==
    ASSUME BrokerInv, NEW c \in Claims, OpenPullRequest(c)
    PROVE  OwnOK(c)
<1>1. claim[c].at = "open" /\ OpensPullRequest(c) /\ TypeOK
  BY DEF OpenPullRequest, At, BrokerInv
<1> DEFINE row == [claim[c] EXCEPT !.at = "final", !.pr = branch[NameOf(c)].pr + 1]
<1>2. Update(c, row)
  BY DEF OpenPullRequest
<1>3. claim[c] \in ClaimRow /\ branch[NameOf(c)].pr \in Nat /\ branch[NameOf(c)].pr + 1 \in Nat
  BY <1>1, NameType DEF TypeOK, Branch
<1>4. /\ row \in ClaimRow /\ row.at = "final" /\ row.effect = claim[c].effect
      /\ row.head = claim[c].head /\ row.done = claim[c].done
      /\ row.pr = branch[NameOf(c)].pr + 1
  BY <1>3 DEF ClaimRow, Requests
<1> HIDE DEF row
<1>5. /\ branch'[NameOf(c)].commits = branch[NameOf(c)].commits
      /\ branch'[NameOf(c)].pr = branch[NameOf(c)].pr + 1
  BY <1>1, OpenEffect, NameType
<1> QED  BY <1>1, <1>2, <1>3, <1>4, <1>5, OpenAdds, ProposedOK

LEMMA RequestFailsOK ==
    ASSUME BrokerInv, NEW c \in Claims, RequestFails(c)
    PROVE  OwnOK(c)
<1>1. claim[c].at \in Requests /\ Fails(c) /\ UNCHANGED branch
  BY DEF RequestFails
<1>2. Local(c) /\ claim'[c] = [claim[c] EXCEPT !.at = Failure(c)]
  BY <1>1, FailsLocal, KeepAdds DEF BrokerInv
<1>3. Commits(c)' = Commits(c)
  BY <1>1, <1>2, OwnBase DEF Commits
<1> QED  BY <1>2, <1>3, FailureOK DEF OwnOK

LEMMA ReplyLostOK ==
    ASSUME BrokerInv, NEW c \in Claims, ReplyLost(c)
    PROVE  OwnOK(c)
<1>1. Fails(c) /\ TypeOK /\ RowOK(c)
  BY DEF ReplyLost, BrokerInv
<1>2. CASE At(c, "create") /\ CreatesBranch(c)
  <2>1. Local(c) /\ claim'[c] = [claim[c] EXCEPT !.at = Failure(c)]
    BY <1>1, <1>2, FailsLocal, CreateAdds DEF At, Requests
  <2>2. Commits(c)' = << [tree |-> BaseTree, by |-> c] >>
    BY <1>1, <1>2, <2>1, OwnBase, CreateEffect DEF Commits
  <2> QED  BY <2>1, <2>2, FailureOK DEF OwnOK
<1>3. CASE At(c, "put") /\ WritesFile(c)
  <2>1. Exists(c) /\ claim[c].done < Len(Files(c)) /\ claim[c].effect
    BY <1>3, PutHasBranch DEF At
  <2>2. Local(c) /\ claim'[c] = [claim[c] EXCEPT !.at = Failure(c)]
    BY <1>1, <1>3, <2>1, FailsLocal, WriteAdds DEF At, Requests
  <2> QED  BY <2>1, <2>2, FailureOK DEF OwnOK
<1>4. CASE At(c, "open") /\ OpensPullRequest(c)
  <2>1. claim[c].effect
    BY <1>1, <1>4 DEF RowOK, At, Working
  <2>2. Local(c) /\ claim'[c] = [claim[c] EXCEPT !.at = Failure(c)]
    BY <1>1, <1>4, FailsLocal, OpenAdds DEF At, Requests
  <2> QED  BY <2>1, <2>2, FailureOK DEF OwnOK
<1> QED  BY <1>2, <1>3, <1>4 DEF ReplyLost

LEMMA WorksOK ==
    ASSUME BrokerInv, NEW c \in Claims, Works(c)
    PROVE  OwnOK(c)
BY ReadBaseOK, ReadBranchOK, CreateBranchOK, CheckDiffOK, ReadFileOK, WriteFileOK,
   FindPullRequestOK, OpenPullRequestOK, FinalDiffOK, RefusedOK, RequestFailsOK,
   ReplyLostOK
   DEF Works, Execute

-----------------------------------------------------------------------------
(* The invariant *)

LEMMA CurrentType ==
    ASSUME BrokerInv, NEW j \in Jobs, job[j].fence >= 1
    PROVE  Current(j) \in Claims
<1>1. job[j].fence \in Nat /\ job[j].fence <= MaxClaims
  BY DEF BrokerInv, TypeOK, JobRow, JobOK
<1>2. MaxClaims \in Nat
  BY BrokerAssumption
<1> QED  BY <1>1, <1>2 DEF Current, Claims

LEMMA WorksKeep ==
    ASSUME BrokerInv, NEW c \in Claims, Works(c)
    PROVE  BrokerInv'
<1>1. OwnOK(c)
  BY WorksOK
<1>2. Local(c)
  BY <1>1 DEF OwnOK
<1>3. TypeOK'
  BY <1>2 DEF BrokerInv, TypeOK, Local, Adds
<1>4. payload' \in Submissions
  BY <1>2 DEF BrokerInv, Local
<1>5. Claimed' = Claimed
  BY <1>2 DEF Claimed, Local, Requests
<1>6. \A d \in Claims : RowOK(d)' /\ BranchOK(d)'
  BY <1>1, <1>2, OthersKeep DEF OwnOK
<1>7. ASSUME NEW j \in Jobs
      PROVE  JobOK(j)'
  <2>1. JobOK(j) /\ job' = job /\ Current(j)' = Current(j)
    BY <1>2 DEF BrokerInv, Local, Current
  <2>2. ASSUME job[j].state \in {"WATCH_PENDING", "SUCCEEDED"}
        PROVE  claim'[Current(j)].at \in Ends
    <3>1. job[j].fence >= 1 /\ claim[Current(j)].at \in Ends
      BY <2>1, <2>2 DEF JobOK
    <3>2. Current(j) \in Claims /\ Current(j) # c
      BY <1>2, <3>1, CurrentType DEF Local, Requests, Ends
    <3> QED  BY <1>2, <3>1, <3>2 DEF Local
  <2> QED  BY <2>1, <2>2 DEF JobOK
<1> QED  BY <1>3, <1>4, <1>5, <1>6, <1>7 DEF BrokerInv

\* Steps of the scheduler, of WATCH and of people that move no claim: a job keeps
\* its fence, and may be handed off once its claim has ended.
Elsewhere ==
    /\ UNCHANGED << payload, claim >>
    /\ TypeOK'
    /\ \A b \in Names : /\ branch'[b].commits = branch[b].commits
                        /\ branch'[b].pr = branch[b].pr
    /\ \A j \in Jobs :
          /\ job'[j].fence = job[j].fence
          /\ job'[j].state \in {"WATCH_PENDING", "SUCCEEDED"} =>
                \/ job[j].state \in {"WATCH_PENDING", "SUCCEEDED"}
                \/ job[j].state = "RUNNING" /\ claim[Current(j)].at \in Ends
          /\ job'[j].state = "RUNNING" => job[j].state = "RUNNING"

LEMMA ElsewhereKeeps ==
    ASSUME BrokerInv, Elsewhere
    PROVE  BrokerInv'
<1>1. TypeOK' /\ payload' \in Submissions /\ Claimed' = Claimed
  BY DEF BrokerInv, Elsewhere, Claimed
<1>2. ASSUME NEW d \in Claims
      PROVE  RowOK(d)' /\ BranchOK(d)'
  <2>1. /\ RowOK(d) /\ BranchOK(d) /\ d[1] \in Jobs /\ NameOf(d) \in Names
        /\ claim' = claim /\ payload' = payload
    BY NameType DEF BrokerInv, Elsewhere
  <2>2. /\ NameOf(d)' = NameOf(d) /\ Files(d)' = Files(d) /\ Sharers(d)' = Sharers(d)
        /\ job'[d[1]].fence = job[d[1]].fence
    BY <2>1 DEF NameOf, Files, Sharers, At, Elsewhere
  <2>3. Commits(d)' = Commits(d) /\ branch'[NameOf(d)].pr = branch[NameOf(d)].pr
    BY <2>1, <2>2 DEF Commits, Elsewhere
  <2>4. \A k, i : Has(d, k, i)' <=> Has(d, k, i)
    BY <2>2, <2>3 DEF Has, Holds
  <2>5. RowOK(d)'
    BY <2>1, <2>2 DEF RowOK, At
  <2>6. BranchOK(d)'
    BY <2>1, <2>2, <2>3, <2>4 DEF BranchOK, At
  <2> QED  BY <2>5, <2>6
<1>3. ASSUME NEW j \in Jobs
      PROVE  JobOK(j)'
  <2>1. JobOK(j) /\ Current(j)' = Current(j) /\ claim' = claim
    BY DEF BrokerInv, Elsewhere, Current
  <2> QED  BY <2>1 DEF JobOK, Elsewhere
<1> QED  BY <1>1, <1>2, <1>3 DEF BrokerInv

-----------------------------------------------------------------------------
(* A new claim *)

\* A job has claimed as often as its fence says, and all claims of all jobs are
\* bounded together.
LEMMA FenceBelowBound ==
    ASSUME BrokerInv, NEW j \in Jobs, Cardinality(Claimed) < MaxClaims
    PROVE  job[j].fence + 1 <= MaxClaims
<1> DEFINE n == job[j].fence
           f == [k \in 1 .. n |-> << j, k >>]
<1>1. n \in Nat /\ n <= MaxClaims /\ MaxClaims \in Nat
  BY BrokerAssumption DEF BrokerInv, TypeOK, JobRow, JobOK
<1>2. ASSUME NEW k \in 1 .. n
      PROVE  << j, k >> \in Claimed
  <2>1. << j, k >> \in Claims
    BY <1>1 DEF Claims
  <2>2. RowOK(<< j, k >>)
    BY <2>1 DEF BrokerInv
  <2>3. ~At(<< j, k >>, "unclaimed")
    BY <1>1, <2>2 DEF RowOK
  <2> QED  BY <2>1, <2>3 DEF Claimed, At
<1> HIDE DEF n
<1>3. f \in Injection(1 .. n, Claimed)
  BY <1>2 DEF Injection, IsInjective
<1>4. Cardinality(1 .. n) <= Cardinality(Claimed) /\ Cardinality(Claimed) \in Nat
  <2>1. IsFiniteSet(Claimed)
    BY DEF BrokerInv
  <2> HIDE DEF f
  <2> QED  BY <1>3, <2>1, FS_Injection, FS_CardinalityType
<1>5. Cardinality(1 .. n) = n
  BY <1>1, FS_Interval
<1> QED  BY <1>1, <1>4, <1>5 DEF n

LEMMA ClaimJobKeeps ==
    ASSUME BrokerInv, NEW j \in Jobs, ClaimJob(j)
    PROVE  BrokerInv'
<1> DEFINE n  == job[j].fence + 1
           c  == << j, n >>
           cr == [claim[c] EXCEPT !.at = "base"]
           jr == [job[j] EXCEPT !.state = "RUNNING", !.fence = n]
<1>1. /\ TypeOK /\ job[j] \in JobRow /\ job[j].fence \in Nat
      /\ JobOK(j) /\ n \in Nat /\ n >= 1
  BY DEF BrokerInv, TypeOK, JobRow
<1>2. n <= MaxClaims
  BY FenceBelowBound DEF ClaimJob
<1>3. c \in Claims /\ MaxClaims \in Nat
  BY <1>1, <1>2, BrokerAssumption DEF Claims
<1>4. /\ jr \in JobRow /\ jr.state = "RUNNING" /\ jr.fence = n
  BY <1>1 DEF JobRow, JobStates
<1>5. job' = [job EXCEPT ![j] = jr]
  BY <1>1 DEF ClaimJob, TypeOK
<1>6. claim[c] \in ClaimRow
  BY <1>1, <1>3 DEF TypeOK
<1>7. /\ cr \in ClaimRow /\ cr.at = "base" /\ cr.effect = claim[c].effect
      /\ cr.done = claim[c].done
  BY <1>6 DEF ClaimRow, Requests
<1>8. claim' = [claim EXCEPT ![c] = cr]
  BY <1>1 DEF ClaimJob, TypeOK
<1>9. UNCHANGED << payload, base, branch, watch, faults, closes >>
  BY DEF ClaimJob
<1>10. RowOK(c) /\ BranchOK(c)
  BY <1>3 DEF BrokerInv
<1>11. claim[c].at = "unclaimed"
  BY <1>1, <1>10 DEF RowOK, At
<1> HIDE DEF cr, jr
<1>12. /\ job'[j] = jr /\ \A i \in Jobs \ {j} : job'[i] = job[i]
       /\ claim'[c] = cr /\ \A d \in Claims \ {c} : claim'[d] = claim[d]
       /\ job' \in [Jobs -> JobRow] /\ claim' \in [Claims -> ClaimRow]
  BY <1>1, <1>3, <1>4, <1>5, <1>7, <1>8 DEF TypeOK
<1>13. TypeOK' /\ payload' \in Submissions
  BY <1>1, <1>9, <1>12 DEF TypeOK, BrokerInv
<1>14. IsFiniteSet(Claimed')
  <2>1. Claimed' \subseteq Claimed \cup {c}
    BY <1>12 DEF Claimed
  <2>2. IsFiniteSet(Claimed \cup {c})
    BY FS_AddElement DEF BrokerInv
  <2> QED  BY <2>1, <2>2, FS_Subset
<1>15. ASSUME NEW d \in Claims
       PROVE  RowOK(d)' /\ BranchOK(d)'
  <2>1. /\ RowOK(d) /\ BranchOK(d) /\ Commits(d)' = Commits(d)
        /\ Files(d)' = Files(d) /\ NameOf(d)' = NameOf(d)
        /\ branch' = branch /\ d = << d[1], d[2] >> /\ d[1] \in Jobs /\ d[2] \in Nat
    <3>1. RowOK(d) /\ BranchOK(d)
      BY DEF BrokerInv
    <3>2. d = << d[1], d[2] >> /\ d[1] \in Jobs /\ d[2] \in Nat
      BY <1>1, <1>3, NameType
    <3>3. Files(d)' = Files(d) /\ NameOf(d)' = NameOf(d)
      BY <1>9 DEF Files, NameOf
    <3>4. Commits(d)' = Commits(d) /\ branch' = branch
      BY <1>9, <3>3 DEF Commits
    <3> QED  BY <3>1, <3>2, <3>3, <3>4
  <2>2. \A k, i : Has(d, k, i)' <=> Has(d, k, i)
    BY <2>1 DEF Has, Holds
  <2>3. CASE d = c
    <3>1. c[1] = j /\ c[2] = n
      OBVIOUS
    <3>2. /\ claim'[d].at = "base" /\ claim'[d].effect = claim[d].effect
          /\ claim'[d].done = claim[d].done /\ job'[d[1]].fence = n /\ d[2] = n
      BY <1>4, <1>7, <1>12, <2>3, <3>1
    <3> HIDE DEF c, n
    <3>3. RowOK(d)'
      BY <1>1, <1>11, <2>1, <2>3, <3>2 DEF RowOK, At, Before, Working
    <3>4. BranchOK(d)'
      BY <1>11, <2>1, <2>3, <3>2 DEF BranchOK, At, Before, Working
    <3> QED  BY <3>3, <3>4
  <2>4. CASE d # c
    <3>1. claim'[d] = claim[d]
      BY <1>12, <2>4
    <3>2. d[2] > job'[d[1]].fence <=> d[2] > job[d[1]].fence
      <4>1. CASE d[1] # j
        BY <1>12, <2>1, <4>1
      <4>2. CASE d[1] = j
        <5>1. d[2] # n
          BY <2>1, <2>4, <4>2
        <5>2. job'[d[1]].fence = n
          BY <1>4, <1>12, <4>2
        <5> QED  BY <1>1, <2>1, <4>2, <5>1, <5>2
      <4> QED  BY <4>1, <4>2
    <3>3. Sharers(d) \subseteq Sharers(d)'
      <4>1. \A e \in Claims : NameOf(e)' = NameOf(e)
        BY <1>9 DEF NameOf
      <4>2. \A e \in Claims : ~At(e, "unclaimed") => ~At(e, "unclaimed")'
        BY <1>7, <1>12 DEF At
      <4> QED  BY <4>1, <4>2 DEF Sharers
    <3> HIDE DEF c, n
    <3>4. RowOK(d)'
      BY <2>1, <3>1, <3>2 DEF RowOK, At
    <3>5. BranchOK(d)'
      BY <2>1, <2>2, <3>1, <3>3 DEF BranchOK, At
    <3> QED  BY <3>4, <3>5
  <2> QED  BY <2>3, <2>4
<1>16. ASSUME NEW i \in Jobs
       PROVE  JobOK(i)'
  <2>1. CASE i = j
    BY <1>1, <1>2, <1>4, <1>12, <2>1 DEF JobOK
  <2>2. CASE i # j
    <3>1. JobOK(i) /\ job'[i] = job[i] /\ Current(i)' = Current(i)
      BY <1>12, <2>2 DEF BrokerInv, Current
    <3>2. ASSUME job[i].state \in {"WATCH_PENDING", "SUCCEEDED"}
          PROVE  claim'[Current(i)].at \in Ends
      <4>1. Current(i) \in Claims /\ claim[Current(i)].at \in Ends
        BY <3>1, <3>2, CurrentType DEF JobOK
      <4>2. Current(i) # c
        BY <2>2 DEF Current
      <4> QED  BY <1>12, <4>1, <4>2
    <3> HIDE DEF c, n
    <3> QED  BY <3>1, <3>2 DEF JobOK
  <2> QED  BY <2>1, <2>2
<1> QED  BY <1>13, <1>14, <1>15, <1>16 DEF BrokerInv

-----------------------------------------------------------------------------
(* Everything else *)

\* Job j gets this state and this authority; its fence and the other jobs stay.
Moves(j, state, authority) ==
    job' = [job EXCEPT ![j].state = state, ![j].authority = authority]

LEMMA MovesType ==
    ASSUME TypeOK, NEW j \in Jobs, NEW state \in JobStates, NEW a \in Authority,
           Moves(j, state, a)
    PROVE  /\ job' \in [Jobs -> JobRow]
           /\ job'[j].state = state
           /\ job'[j].fence = job[j].fence
           /\ \A i \in Jobs \ {j} : job'[i] = job[i]
<1> DEFINE row == [job[j] EXCEPT !.state = state, !.authority = a]
<1>1. row \in JobRow /\ row.state = state /\ row.fence = job[j].fence
  BY DEF TypeOK, JobRow
<1>2. job' = [job EXCEPT ![j] = row]
  BY DEF TypeOK, Moves
<1> HIDE DEF row
<1> QED  BY <1>1, <1>2 DEF TypeOK

\* A change of the state alone, and of the authority alone.
LEMMA StateMoves ==
    ASSUME TypeOK, NEW j \in Jobs, NEW state, job' = [job EXCEPT ![j].state = state]
    PROVE  Moves(j, state, job[j].authority) /\ job[j].authority \in Authority
BY DEF Moves, TypeOK, JobRow

LEMMA AuthorityAlone ==
    ASSUME TypeOK, NEW j \in Jobs, AuthorityMoves(j)
    PROVE  /\ job[j].state = "WATCH_PENDING"
           /\ \E a \in Authority : Moves(j, "WATCH_PENDING", a)
           /\ UNCHANGED << payload, claim, base, branch, watch, faults, closes >>
<1>1. PICK a \in Authority : job' = [job EXCEPT ![j].authority = a]
  BY DEF AuthorityMoves, ApproveAgain, LosesAuthority, Authority
<1>2. /\ job[j].state = "WATCH_PENDING"
      /\ UNCHANGED << payload, claim, base, branch, watch, faults, closes >>
  BY DEF AuthorityMoves, ApproveAgain, LosesAuthority
<1>3. Moves(j, "WATCH_PENDING", a)
  BY <1>1, <1>2 DEF Moves, TypeOK, JobRow
<1> QED  BY <1>2, <1>3

\* A job moves to a state that needs no claim, or from review to SUCCEEDED.
LEMMA JobElsewhere ==
    ASSUME BrokerInv, NEW j \in Jobs, NEW state \in JobStates, NEW a \in Authority,
           Moves(j, state, a),
           UNCHANGED << payload, claim, base, branch, closes >>,
           watch' \in [job : Jobs \cup {NoJob}, at : Reading, done : Nat],
           faults' \in Nat,
           state # "RUNNING",
           state \in {"WATCH_PENDING", "SUCCEEDED"} =>
               \/ job[j].state = "WATCH_PENDING"
               \/ job[j].state = "RUNNING" /\ claim[Current(j)].at \in Ends
    PROVE  BrokerInv'
<1>1. TypeOK'
  BY MovesType DEF BrokerInv, TypeOK
<1>2. Elsewhere
  BY <1>1, MovesType DEF BrokerInv, Elsewhere
<1> QED  BY <1>2, ElsewhereKeeps

LEMMA WatchElsewhere ==
    ASSUME BrokerInv, UNCHANGED << payload, job, claim, base, branch, closes >>,
           watch' \in [job : Jobs \cup {NoJob}, at : Reading, done : Nat],
           faults' \in Nat
    PROVE  BrokerInv'
<1>1. TypeOK'
  BY DEF BrokerInv, TypeOK
<1>2. Elsewhere
  BY <1>1 DEF Elsewhere
<1> QED  BY <1>2, ElsewhereKeeps

-----------------------------------------------------------------------------
(* The review in progress *)

\* WATCH reads for a complete result that still waits for its review.
WatchInv ==
    watch.at # "idle" =>
        /\ watch.job \in Jobs
        /\ job[watch.job].state = "WATCH_PENDING"
        /\ At(Current(watch.job), "candidate")

IInv == BrokerInv /\ WatchInv

LEMMA IdleKeeps ==
    ASSUME watch' = Idle
    PROVE  WatchInv'
BY DEF WatchInv, Idle

LEMMA IdleType ==
    /\ Idle \in [job : Jobs \cup {NoJob}, at : Reading, done : Nat]
    /\ Idle.at = "idle"
BY DEF Idle, Reading

\* A step that leaves the review alone, and state and claim of the job it is about.
LEMMA ReviewKeeps ==
    ASSUME WatchInv, UNCHANGED watch,
           watch.at # "idle" =>
               /\ job'[watch.job].state = job[watch.job].state
               /\ job'[watch.job].fence = job[watch.job].fence
               /\ claim'[Current(watch.job)] = claim[Current(watch.job)]
    PROVE  WatchInv'
<1> SUFFICES ASSUME watch.at # "idle"
             PROVE  /\ watch.job \in Jobs
                    /\ job'[watch.job].state = "WATCH_PENDING"
                    /\ At(Current(watch.job), "candidate")'
  BY DEF WatchInv
<1>1. Current(watch.job)' = Current(watch.job)
  BY DEF Current
<1> QED  BY <1>1 DEF WatchInv, At

LEMMA WorksKeepReview ==
    ASSUME IInv, NEW c \in Claims, Works(c)
    PROVE  WatchInv'
<1>1. Local(c)
  BY WorksOK DEF IInv, OwnOK
<1>2. ASSUME watch.at # "idle"
      PROVE  claim'[Current(watch.job)] = claim[Current(watch.job)]
  <2>1. /\ watch.job \in Jobs /\ job[watch.job].state = "WATCH_PENDING"
        /\ At(Current(watch.job), "candidate")
    BY <1>2 DEF IInv, WatchInv
  <2>2. Current(watch.job) \in Claims
    BY <2>1, CurrentType DEF IInv, BrokerInv, JobOK
  <2>3. Current(watch.job) # c
    BY <1>1, <2>1 DEF Local, At, Requests
  <2> QED  BY <1>1, <2>2, <2>3 DEF Local
<1>3. UNCHANGED << watch, job >>
  BY <1>1 DEF Local
<1> QED  BY <1>2, <1>3, ReviewKeeps DEF IInv

\* A step of the scheduler for a job that is not under review.
LEMMA SchedulerKeepsReview ==
    ASSUME IInv, NEW j \in Jobs, job[j].state # "WATCH_PENDING", UNCHANGED watch,
           \A i \in Jobs \ {j} : /\ job'[i] = job[i]
                                 /\ claim'[Current(i)] = claim[Current(i)]
    PROVE  WatchInv'
BY ReviewKeeps DEF IInv, WatchInv

LEMMA ClaimJobKeepsReview ==
    ASSUME IInv, NEW j \in Jobs, ClaimJob(j)
    PROVE  WatchInv'
<1>1. \A i \in Jobs \ {j} : Current(i) # << j, job[j].fence + 1 >>
  BY DEF Current
<1>2. /\ job[j].state = "QUEUED" /\ UNCHANGED watch
      /\ job' = [job EXCEPT ![j].state = "RUNNING", ![j].fence = @ + 1]
      /\ claim' = [claim EXCEPT ![<< j, job[j].fence + 1 >>].at = "base"]
  BY DEF ClaimJob
<1>3. job \in [Jobs -> JobRow] /\ claim \in [Claims -> ClaimRow]
  BY DEF IInv, BrokerInv, TypeOK
<1>4. \A i \in Jobs \ {j} : job'[i] = job[i]
  BY <1>2, <1>3
<1>5. ASSUME watch.at # "idle"
      PROVE  /\ watch.job # j /\ Current(watch.job) \in Claims
             /\ claim'[Current(watch.job)] = claim[Current(watch.job)]
             /\ job'[watch.job] = job[watch.job]
  <2>1. watch.job \in Jobs /\ job[watch.job].state = "WATCH_PENDING"
    BY <1>5 DEF IInv, WatchInv
  <2>2. watch.job # j
    BY <1>2, <2>1
  <2>3. Current(watch.job) \in Claims
    BY <2>1, CurrentType DEF IInv, BrokerInv, JobOK
  <2>4. Current(watch.job) # << j, job[j].fence + 1 >>
    BY <1>1, <2>1, <2>2
  <2>5. claim'[Current(watch.job)] = claim[Current(watch.job)]
    BY <1>2, <1>3, <2>3, <2>4
  <2> QED  BY <1>4, <2>1, <2>2, <2>3, <2>5
<1> QED  BY <1>2, <1>5, ReviewKeeps DEF IInv

-----------------------------------------------------------------------------
(* Every step *)

LEMMA SchedulerKeeps ==
    ASSUME IInv, NEW j \in Jobs,
           ClaimJob(j) \/ Lapse(j) \/ HandOff(j) \/ Reapprove(j) \/ AuthorityMoves(j)
    PROVE  IInv'
<1>1. BrokerInv /\ TypeOK
  BY DEF IInv, BrokerInv
<1>2. /\ watch \in [job : Jobs \cup {NoJob}, at : Reading, done : Nat]
      /\ faults \in Nat /\ job \in [Jobs -> JobRow]
  BY <1>1 DEF TypeOK
<1>3. CASE ClaimJob(j)
  BY <1>1, <1>3, ClaimJobKeeps, ClaimJobKeepsReview DEF IInv
<1>4. CASE Lapse(j)
  <2>1. /\ job[j].state = "RUNNING" /\ job' = [job EXCEPT ![j].state = "FAILED"]
        /\ UNCHANGED << payload, claim, base, branch, watch, faults, closes >>
    BY <1>4 DEF Lapse
  <2>2. Moves(j, "FAILED", job[j].authority) /\ job[j].authority \in Authority
    BY <1>1, <2>1, StateMoves
  <2>3. BrokerInv'
    BY <1>1, <1>2, <2>1, <2>2, JobElsewhere DEF JobStates
  <2>4. WatchInv'
    BY <1>2, <2>1, SchedulerKeepsReview
  <2> QED  BY <2>3, <2>4 DEF IInv
<1>5. CASE HandOff(j)
  <2>1. /\ job[j].state = "RUNNING" /\ job' = [job EXCEPT ![j].state = "WATCH_PENDING"]
        /\ claim[Current(j)].at \in Ends
        /\ UNCHANGED << payload, claim, base, branch, watch, faults, closes >>
    BY <1>5 DEF HandOff
  <2>2. Moves(j, "WATCH_PENDING", job[j].authority) /\ job[j].authority \in Authority
    BY <1>1, <2>1, StateMoves
  <2>3. BrokerInv'
    BY <1>1, <1>2, <2>1, <2>2, JobElsewhere DEF JobStates
  <2>4. WatchInv'
    BY <1>2, <2>1, SchedulerKeepsReview
  <2> QED  BY <2>3, <2>4 DEF IInv
<1>6. CASE Reapprove(j)
  <2>1. /\ job[j].state # "WATCH_PENDING" /\ Moves(j, "QUEUED", "HELD")
        /\ UNCHANGED << payload, claim, base, branch, watch, faults, closes >>
    BY <1>6 DEF Reapprove, Moves
  <2>2. BrokerInv'
    BY <1>1, <1>2, <2>1, JobElsewhere DEF JobStates, Authority
  <2>3. \A i \in Jobs \ {j} : job'[i] = job[i]
    BY <1>1, <2>1, MovesType DEF JobStates, Authority
  <2>4. WatchInv'
    BY <2>1, <2>3, SchedulerKeepsReview
  <2> QED  BY <2>2, <2>4 DEF IInv
<1>7. CASE AuthorityMoves(j)
  <2>1. /\ job[j].state = "WATCH_PENDING"
        /\ UNCHANGED << payload, claim, base, branch, watch, faults, closes >>
    BY <1>1, <1>7, AuthorityAlone
  <2>2. PICK a \in Authority : Moves(j, "WATCH_PENDING", a)
    BY <1>1, <1>7, AuthorityAlone
  <2>3. BrokerInv'
    BY <1>1, <1>2, <2>1, <2>2, JobElsewhere DEF JobStates
  <2>4. \A i \in Jobs : job'[i].state = job[i].state /\ job'[i].fence = job[i].fence
    BY <1>1, <2>1, <2>2, MovesType DEF JobStates
  <2>5. WatchInv'
    BY <2>1, <2>4, ReviewKeeps DEF IInv, WatchInv
  <2> QED  BY <2>3, <2>5 DEF IInv
<1> QED  BY <1>3, <1>4, <1>5, <1>6, <1>7

\* A decision on a job that waits for review.
LEMMA DecideKeeps ==
    ASSUME IInv, NEW j \in Jobs, job[j].state = "WATCH_PENDING",
           NEW state \in {"BLOCKED", "SUCCEEDED"}, Decide(j, state)
    PROVE  IInv'
<1>1. /\ job' = [job EXCEPT ![j].state = state] /\ watch' = Idle
      /\ UNCHANGED << payload, claim, base, branch, faults, closes >>
  BY DEF Decide
<1>2. BrokerInv /\ TypeOK /\ faults \in Nat
  BY DEF IInv, BrokerInv, TypeOK
<1>3. Moves(j, state, job[j].authority) /\ job[j].authority \in Authority
  BY <1>1, <1>2, StateMoves
<1>4. BrokerInv'
  BY <1>1, <1>2, <1>3, JobElsewhere, IdleType DEF JobStates
<1> QED  BY <1>1, <1>4, IdleKeeps DEF IInv

LEMMA ReadBackKeeps ==
    ASSUME IInv, watch.at # "idle",
           watch' \in [job : Jobs \cup {NoJob}, at : Reading, done : Nat],
           watch'.job = watch.job,
           UNCHANGED << payload, job, claim, base, branch, faults, closes >>
    PROVE  IInv'
<1>1. BrokerInv /\ faults \in Nat
  BY DEF IInv, BrokerInv, TypeOK
<1>2. BrokerInv'
  BY <1>1, WatchElsewhere
<1>3. Current(watch.job)' = Current(watch.job)
  BY DEF Current
<1>4. WatchInv'
  BY <1>3 DEF IInv, WatchInv, At
<1> QED  BY <1>2, <1>4 DEF IInv

LEMMA ReviewStepKeeps ==
    ASSUME IInv, Review
    PROVE  IInv'
<1>1. /\ BrokerInv /\ WatchInv /\ faults \in Nat
      /\ watch \in [job : Jobs \cup {NoJob}, at : Reading, done : Nat]
  BY DEF IInv, BrokerInv, TypeOK
<1>2. ASSUME NEW j \in Jobs, BlockUnread(j)
      PROVE  IInv'
  BY <1>2, DecideKeeps DEF BlockUnread
<1>3. ASSUME NEW j \in Jobs, StartReview(j)
      PROVE  IInv'
  <2>1. /\ job[j].state = "WATCH_PENDING" /\ claim[Current(j)].at = "candidate"
        /\ watch' = [job |-> j, at |-> "diff", done |-> 0]
        /\ UNCHANGED << payload, job, claim, base, branch, faults, closes >>
    BY <1>3 DEF StartReview
  <2>2. watch' \in [job : Jobs \cup {NoJob}, at : Reading, done : Nat] /\ watch'.job = j
    BY <2>1 DEF Reading
  <2>3. BrokerInv'
    BY <1>1, <2>1, <2>2, WatchElsewhere
  <2>4. Current(j)' = Current(j)
    BY <2>1 DEF Current
  <2>5. WatchInv'
    BY <2>1, <2>2, <2>4 DEF WatchInv, At
  <2> QED  BY <2>3, <2>5 DEF IInv
<1>4. CASE VerifyStep
  <2>1. /\ watch.at # "idle"
        /\ UNCHANGED << payload, job, claim, base, branch, faults, closes >>
        /\ \/ watch' = [watch EXCEPT !.at = "head"]
           \/ watch' = [watch EXCEPT !.at = "pr"]
           \/ watch' = [watch EXCEPT !.at = "file"]
           \/ watch' = [watch EXCEPT !.done = @ + 1]
    BY <1>4 DEF VerifyStep, ReadBack
  <2>2. /\ watch' \in [job : Jobs \cup {NoJob}, at : Reading, done : Nat]
        /\ watch'.job = watch.job
    BY <1>1, <2>1 DEF Reading
  <2> QED  BY <2>1, <2>2, ReadBackKeeps
<1>5. CASE Accept
  BY <1>1, <1>5, DecideKeeps DEF Accept, ReadBackWhole, WatchInv
<1>6. CASE Block
  BY <1>1, <1>6, DecideKeeps DEF Block, WatchInv
<1>7. CASE RefuseAccept
  <2>1. watch' = Idle /\ UNCHANGED << payload, job, claim, base, branch, faults, closes >>
    BY <1>7 DEF RefuseAccept
  <2>2. BrokerInv'
    BY <1>1, <2>1, IdleType, WatchElsewhere
  <2> QED  BY <2>1, <2>2, IdleKeeps DEF IInv
<1> QED  BY <1>2, <1>3, <1>4, <1>5, <1>6, <1>7 DEF Review

LEMMA ReviewFailsKeeps ==
    ASSUME IInv, NEW j \in Jobs, ReviewFails(j)
    PROVE  IInv'
<1>1. BrokerInv /\ TypeOK /\ faults \in Nat
  BY DEF IInv, BrokerInv, TypeOK
<1>2. /\ watch' = Idle /\ faults' \in Nat
      /\ UNCHANGED << payload, claim, base, branch, closes >>
  BY <1>1 DEF ReviewFails
<1>3. CASE job' = [job EXCEPT ![j].state = "BLOCKED"]
  <2>1. job[j].authority \in Authority /\ Moves(j, "BLOCKED", job[j].authority)
    BY <1>1, <1>3, StateMoves
  <2>2. BrokerInv'
    BY <1>1, <1>2, <2>1, IdleType, JobElsewhere DEF JobStates
  <2> QED  BY <1>2, <2>2, IdleKeeps DEF IInv
<1>4. CASE UNCHANGED job
  <2>1. BrokerInv'
    BY <1>1, <1>2, <1>4, IdleType, WatchElsewhere
  <2> QED  BY <1>2, <2>1, IdleKeeps DEF IInv
<1> QED  BY <1>3, <1>4 DEF ReviewFails

LEMMA PeopleKeep ==
    ASSUME IInv, MoveBase \/ \E b \in Names : ClosePullRequest(b)
    PROVE  IInv'
<1>1. BrokerInv /\ TypeOK /\ WatchInv
  BY DEF IInv, BrokerInv
<1>2. UNCHANGED << payload, job, claim, watch >>
  BY DEF MoveBase, ClosePullRequest
<1>3. /\ branch' \in [Names -> Branch]
      /\ \A b \in Names : /\ branch'[b].commits = branch[b].commits
                          /\ branch'[b].pr = branch[b].pr
  <2>1. CASE MoveBase
    BY <1>1, <2>1 DEF MoveBase, TypeOK
  <2>2. ASSUME NEW b \in Names, ClosePullRequest(b)
        PROVE  <1>3
    <3>1. branch \in [Names -> Branch] /\ branch' = [branch EXCEPT ![b].open = FALSE]
      BY <1>1, <2>2 DEF ClosePullRequest, TypeOK
    <3>2. branch[b] \in Branch
      BY <3>1
    <3>3. /\ [branch[b] EXCEPT !.open = FALSE] \in Branch
          /\ [branch[b] EXCEPT !.open = FALSE].commits = branch[b].commits
          /\ [branch[b] EXCEPT !.open = FALSE].pr = branch[b].pr
      BY <3>2 DEF Branch
    <3> QED  BY <3>1, <3>3
  <2> QED  BY <2>1, <2>2
<1>4. TypeOK'
  <2>1. base' \in Nat /\ {faults', closes'} \subseteq Nat
    BY <1>1 DEF TypeOK, MoveBase, ClosePullRequest
  <2> QED  BY <1>1, <1>2, <1>3, <2>1 DEF TypeOK
<1>5. Elsewhere
  BY <1>2, <1>3, <1>4 DEF Elsewhere
<1>6. WatchInv'
  BY <1>1, <1>2, ReviewKeeps
<1> QED  BY <1>1, <1>5, <1>6, ElsewhereKeeps DEF IInv

LEMMA NextKeeps ==
    ASSUME IInv, [Next]_vars
    PROVE  IInv'
<1>1. ASSUME NEW c \in Claims, Works(c)
      PROVE  IInv'
  BY <1>1, WorksKeep, WorksKeepReview DEF IInv
<1>2. CASE UNCHANGED vars
  <2>1. BrokerInv /\ WatchInv /\ TypeOK /\ UNCHANGED << payload, claim, branch, job, watch >>
    BY <1>2 DEF IInv, BrokerInv, vars
  <2>2. TypeOK'
    BY <1>2, <2>1 DEF TypeOK, vars
  <2>3. Elsewhere
    BY <2>1, <2>2 DEF Elsewhere
  <2>4. WatchInv'
    BY <2>1, ReviewKeeps
  <2> QED  BY <2>1, <2>3, <2>4, ElsewhereKeeps DEF IInv
<1> QED
  BY <1>1, <1>2, SchedulerKeeps, ReviewStepKeeps, ReviewFailsKeeps, PeopleKeep
     DEF Next, Works

LEMMA InitOK ==
    ASSUME Init
    PROVE  IInv
<1>1. /\ payload \in Submissions
      /\ \A j \in Jobs : job[j] = [state |-> "QUEUED", fence |-> 0, base |-> 1,
                                     authority |-> "HELD"]
      /\ \A c \in Claims : claim[c] = [at |-> "unclaimed", effect |-> FALSE,
                                       head |-> 0, pr |-> 0, done |-> 0]
      /\ \A b \in Names : branch[b].commits = << >>
      /\ watch.at = "idle"
  BY DEF Init
<1>2. TypeOK
  <2>1. payload \in [Jobs -> Payload]
    BY <1>1, BrokerAssumption
  <2>2. job \in [Jobs -> JobRow]
    BY DEF Init, JobRow, JobStates, Authority
  <2>3. claim \in [Claims -> ClaimRow]
    BY DEF Init, ClaimRow
  <2>4. branch \in [Names -> Branch]
    <3>1. << >> \in Seq(Commit)
      OBVIOUS
    <3> QED  BY <3>1 DEF Init, Branch
  <2>5. watch \in [job : Jobs \cup {NoJob}, at : Reading, done : Nat]
    BY DEF Init, Reading
  <2> QED  BY <2>1, <2>2, <2>3, <2>4, <2>5 DEF TypeOK, Init
<1>3. IsFiniteSet(Claimed)
  <2>1. Claimed = {}
    BY <1>1 DEF Claimed
  <2> QED  BY <2>1, FS_EmptySet
<1>4. ASSUME NEW c \in Claims
      PROVE  RowOK(c) /\ BranchOK(c)
  <2>1. /\ claim[c].at = "unclaimed" /\ claim[c].effect = FALSE /\ claim[c].done = 0
    BY <1>1
  <2>2. c[1] \in Jobs /\ c[2] \in 1 .. MaxClaims /\ NameOf(c) \in Names /\ MaxClaims \in Nat
    BY <1>2, NameType, BrokerAssumption
  <2>3. job[c[1]].fence = 0 /\ c[2] > 0 /\ Commits(c) = << >>
    BY <1>1, <2>2 DEF Commits
  <2>4. RowOK(c)
    BY <2>1, <2>3 DEF RowOK, At, Before, Working
  <2>5. BranchOK(c)
    BY <2>1, <2>3 DEF BranchOK, At, Before, Working
  <2> QED  BY <2>4, <2>5
<1>5. \A j \in Jobs : JobOK(j)
  BY <1>1, BrokerAssumption DEF JobOK
<1> QED  BY <1>1, <1>2, <1>3, <1>4, <1>5 DEF IInv, BrokerInv, WatchInv

\* The invariant holds of every behaviour.
THEOREM BrokerInvariant == Spec => []IInv
<1>1. Init => IInv
  BY InitOK
<1>2. IInv /\ [Next]_vars => IInv'
  BY NextKeeps
<1> QED  BY <1>1, <1>2, PTL DEF Spec

\* Jobs, claims, branches and the review keep their shape, whatever the broker's
\* requests, GitHub's answers and the people do.
THEOREM BrokerTypeCorrect == Spec => []TypeOK
<1>1. IInv => TypeOK
  BY DEF IInv, BrokerInv
<1> QED  BY <1>1, BrokerInvariant, PTL

\* A worker that reports failed_before_side_effect has written no file, at any
\* number of jobs, claims and lost answers.
THEOREM NothingReportedNoFileWritten == Spec => []NoneWroteNoFile
<1>1. IInv => NoneWroteNoFile
  BY DEF IInv, BrokerInv, BranchOK, NoneWroteNoFile
<1> QED  BY <1>1, BrokerInvariant, PTL

\* A branch that no other claim shares stays at the attested head until WATCH
\* has decided.
THEOREM AttestedUntilDecided == Spec => []AttestedStays
<1>1. ASSUME IInv, NEW j \in Jobs, job[j].state = "WATCH_PENDING",
             At(Current(j), "candidate"), Sharers(Current(j)) = {}
      PROVE  Len(Commits(Current(j))) = claim[Current(j)].head
  <2>1. BrokerInv /\ job[j].fence >= 1
    BY <1>1 DEF IInv, BrokerInv, JobOK
  <2>2. Current(j) \in Claims
    BY <2>1, CurrentType
  <2>3. BranchOK(Current(j))
    BY <2>1, <2>2 DEF BrokerInv
  <2> QED  BY <1>1, <2>3 DEF BranchOK, At, Working
<1>2. IInv => AttestedStays
  BY <1>1 DEF AttestedStays
<1> QED  BY <1>2, BrokerInvariant, PTL

-----------------------------------------------------------------------------
(* What is accepted.  A submission names, for every file, the blob it expects  *)
(* to replace; whoever wrote it read that from the base branch.  The code does *)
(* not look: it compares with what the worker branch holds.                    *)

AgainstBase ==
    \A s \in Submissions, j \in Jobs : \A i \in DOMAIN s[j].files :
        s[j].files[i].expected = BaseTree[s[j].files[i].path]

\* The commits of a branch stay, get their first, or get one more.
LEMMA CommitsStep ==
    ASSUME IInv, [Next]_vars, NEW b \in Names
    PROVE  \/ branch'[b].commits = branch[b].commits
           \/ \E c \in Claims : CreatesBranch(c) /\ NameOf(c) = b
           \/ \E c \in Claims : /\ NameOf(c) = b /\ Exists(c) /\ WritesFile(c)
                                /\ claim[c].done < Len(Files(c))
<1>1. TypeOK /\ BrokerInv /\ branch \in [Names -> Branch]
  BY DEF IInv, BrokerInv, TypeOK
<1>2. ASSUME NEW c \in Claims, CreatesBranch(c), NameOf(c) # b
      PROVE  branch'[b].commits = branch[b].commits
  BY <1>1, <1>2, CreateEffect
<1>3. ASSUME NEW c \in Claims, WritesFile(c), At(c, "put")
      PROVE  /\ Exists(c) /\ claim[c].done < Len(Files(c))
             /\ NameOf(c) # b => branch'[b].commits = branch[b].commits
  <2>1. Exists(c) /\ claim[c].done < Len(Files(c))
    BY <1>1, <1>3, PutHasBranch DEF At
  <2> QED  BY <1>1, <1>3, <2>1, WriteEffect
<1>4. ASSUME NEW c \in Claims, OpensPullRequest(c)
      PROVE  branch'[b].commits = branch[b].commits
  BY <1>1, <1>4, OpenEffect
<1>5. ASSUME NEW c \in Claims, Works(c)
      PROVE  \/ UNCHANGED branch
             \/ CreatesBranch(c)
             \/ WritesFile(c) /\ At(c, "put")
             \/ OpensPullRequest(c)
  BY <1>5 DEF Works, Execute, ReadBase, ReadBranch, CreateBranch, CheckDiff, ReadFile,
     WriteFile, FindPullRequest, OpenPullRequest, FinalDiff, Refused, RequestFails,
     ReplyLost, Reads
<1>6. ASSUME NEW d \in Names, ClosePullRequest(d)
      PROVE  branch'[b].commits = branch[b].commits
  <2>1. branch' = [branch EXCEPT ![d].open = FALSE] /\ branch[b] \in Branch
    BY <1>1, <1>6 DEF ClosePullRequest
  <2> QED  BY <1>1, <2>1 DEF Branch
<1>7. \/ \E c \in Claims : Works(c)
      \/ \E d \in Names : ClosePullRequest(d)
      \/ UNCHANGED branch
  BY DEF Next, Works, ClaimJob, Lapse, HandOff, Reapprove, AuthorityMoves, LosesAuthority,
     ApproveAgain, Review, BlockUnread,
     StartReview, VerifyStep, ReadBack, Accept, RefuseAccept, Block, ReviewFails, Decide, MoveBase, vars
<1> QED  BY <1>2, <1>3, <1>4, <1>5, <1>6, <1>7

LEMMA ChangeOnceKeeps ==
    ASSUME AgainstBase, IInv, PathsChangeOnce, [Next]_vars
    PROVE  PathsChangeOnce'
<1>1. TypeOK /\ BrokerInv /\ payload \in Submissions
  BY DEF IInv, BrokerInv
<1> SUFFICES ASSUME NEW b \in Names, NEW k \in DOMAIN branch'[b].commits,
                    NEW path \in Paths,
                    branch'[b].commits[k].tree[path] # BaseTree[path],
                    NEW i \in k .. Len(branch'[b].commits)
             PROVE  branch'[b].commits[i].tree[path] = branch'[b].commits[k].tree[path]
  BY DEF PathsChangeOnce
<1>2. branch[b].commits \in Seq(Commit)
  BY <1>1, BranchType
<1>3. CASE branch'[b].commits = branch[b].commits
  BY <1>3 DEF PathsChangeOnce
<1>4. ASSUME NEW c \in Claims, CreatesBranch(c), NameOf(c) = b
      PROVE  FALSE
  <2>1. branch'[b].commits = << [tree |-> BaseTree, by |-> c] >>
    BY <1>1, <1>4, CreateEffect
  <2> QED  BY <2>1
<1>5. ASSUME NEW c \in Claims, NameOf(c) = b, Exists(c), WritesFile(c),
             claim[c].done < Len(Files(c))
      PROVE  branch'[b].commits[i].tree[path] = branch'[b].commits[k].tree[path]
  <2> DEFINE n == Len(branch[b].commits)
  <2>1. /\ branch'[b].commits = Append(branch[b].commits, Written(c))
        /\ Written(c) \in Commit /\ ThisFile(c) \in File
        /\ claim[c].done + 1 \in DOMAIN Files(c)
    BY <1>1, <1>5, WriteEffect DEF Commits
  <2>2. /\ HeadTree(c) \in Tree /\ HeadTree(c) = branch[b].commits[n].tree
        /\ n \in DOMAIN branch[b].commits /\ n \in Nat
    BY <1>1, <1>2, <1>5, HeadType DEF HeadTree, Commits
  <2>3. ThisFile(c).expected = BaseTree[ThisFile(c).path]
    BY <1>1, <2>1, NameType DEF AgainstBase, ThisFile, Files
  <2>4. HeadTree(c)[ThisFile(c).path] = BaseTree[ThisFile(c).path]
    BY <1>5, <2>3 DEF WritesFile, BlobIsExpected
  <2>5. path # ThisFile(c).path => Written(c).tree[path] = HeadTree(c)[path]
    BY <2>1, <2>2 DEF Written, Tree, File
  <2> HIDE DEF Written
  <2>6. /\ \A m \in 1 .. n : branch'[b].commits[m] = branch[b].commits[m]
        /\ branch'[b].commits[n + 1] = Written(c)
        /\ Len(branch'[b].commits) = n + 1
        /\ DOMAIN branch'[b].commits = 1 .. n + 1
        /\ DOMAIN branch[b].commits = 1 .. n
    BY <1>2, <2>1
  <2> HIDE DEF n
  <2>7. k \in 1 .. n + 1 /\ i \in k .. n + 1
    BY <2>6
  <2>8. CASE i = k
    BY <2>8
  <2>9. CASE i # k
    <3>1. k \in 1 .. n /\ k <= n
      BY <2>2, <2>7, <2>9
    <3>2. branch[b].commits[k].tree[path] # BaseTree[path]
      BY <2>6, <3>1
    <3>3. \A m \in k .. n : branch[b].commits[m].tree[path] = branch[b].commits[k].tree[path]
      BY <2>6, <3>1, <3>2 DEF PathsChangeOnce, n
    <3>4. CASE i <= n
      <4>1. i \in 1 .. n /\ i \in k .. n
        BY <2>2, <2>7, <3>1, <3>4
      <4> QED  BY <2>6, <3>1, <3>3, <4>1
    <3>5. CASE i = n + 1
      <4>1. HeadTree(c)[path] = branch[b].commits[k].tree[path]
        BY <2>2, <3>1, <3>3
      <4>2. path # ThisFile(c).path
        BY <2>4, <3>2, <4>1
      <4> QED  BY <2>5, <2>6, <3>1, <3>5, <4>1, <4>2
    <3>6. i <= n \/ i = n + 1
      BY <2>2, <2>7
    <3> QED  BY <3>4, <3>5, <3>6
  <2> QED  BY <2>8, <2>9
<1> QED  BY <1>3, <1>4, <1>5, CommitsStep

\* A file of another is not overwritten on a shared branch: each path changes
\* from its base content once, when submissions expect what the base has.
THEOREM FilesChangeOnce ==
    ASSUME AgainstBase
    PROVE  Spec => []PathsChangeOnce
<1>1. Init => IInv /\ PathsChangeOnce
  <2>1. Init => PathsChangeOnce
    BY DEF Init, PathsChangeOnce
  <2> QED  BY <2>1, InitOK
<1>2. IInv /\ PathsChangeOnce /\ [Next]_vars => (IInv /\ PathsChangeOnce)'
  BY NextKeeps, ChangeOnceKeeps
<1> QED  BY <1>1, <1>2, PTL DEF Spec

-----------------------------------------------------------------------------
(* The attested commit of a complete claim, while others write the branch *)

AttestedTree(c) == Commits(c)[claim[c].head].tree

\* Every file had its content by then, and nothing else has changed.
Sound(c) ==
    /\ \A i \in DOMAIN Files(c) : \E k \in 1 .. claim[c].head : Has(c, k, i)
    /\ Changed(AttestedTree(c)) \subseteq PathsOf(c)

\* The first n files have their content there.
Kept(c, n) == \A i \in 1 .. n : Has(c, claim[c].head, i)

\* What a review that came to `at' knows.
ReadSoFar(c, at, done) ==
    /\ at = "head" /\ Len(Commits(c)) = claim[c].head =>
          Changed(AttestedTree(c)) \subseteq PathsOf(c)
    /\ at \in {"pr", "file"} => Sound(c)
    /\ at = "file" => done < Len(Files(c)) /\ Kept(c, done)
    /\ at # "file" => done = 0

AcceptedOK(j) ==
    job[j].state = "SUCCEEDED" =>
        /\ At(Current(j), "candidate")
        /\ Sound(Current(j))
        /\ Kept(Current(j), Len(Files(Current(j))))

VerifyInv ==
    /\ watch.at # "idle" => ReadSoFar(Reviewed, watch.at, watch.done)
    /\ \A j \in Jobs : AcceptedOK(j)

\* A complete claim does not move, and its branch only grows.
Grows(c) ==
    /\ payload' = payload /\ claim'[c] = claim[c]
    /\ Len(Commits(c)) <= Len(Commits(c)')
    /\ \A k \in DOMAIN Commits(c) : Commits(c)'[k] = Commits(c)[k]

LEMMA CandidateType ==
    ASSUME IInv, NEW c \in Claims, At(c, "candidate")
    PROVE  /\ claim[c].head \in Nat /\ claim[c].head \in 1 .. Len(Commits(c))
           /\ DOMAIN Commits(c) = 1 .. Len(Commits(c)) /\ Len(Commits(c)) \in Nat
           /\ claim[c].done = Len(Files(c))
           /\ DOMAIN Files(c) = 1 .. Len(Files(c)) /\ Len(Files(c)) \in Nat
           /\ \A i \in DOMAIN Files(c) : \E k \in DOMAIN Commits(c) : Has(c, k, i)
           /\ Commits(c) \in Seq(Commit) /\ Files(c) \in Seq(File)
<1>1. RowOK(c) /\ BranchOK(c) /\ Commits(c) \in Seq(Commit) /\ Files(c) \in Seq(File)
  BY NameType DEF IInv, BrokerInv
<1>2. claim[c].head \in DOMAIN Commits(c) /\ claim[c].done = Len(Files(c))
      /\ \A i \in 1 .. claim[c].done : \E k \in DOMAIN Commits(c) : Has(c, k, i)
  BY <1>1 DEF RowOK, BranchOK, At, Working
<1> QED  BY <1>1, <1>2

LEMMA StepGrows ==
    ASSUME IInv, [Next]_vars, NEW c \in Claims, At(c, "candidate")
    PROVE  Grows(c)
<1>1. TypeOK /\ BrokerInv /\ NameOf(c) \in Names /\ Commits(c) \in Seq(Commit)
  BY NameType DEF IInv, BrokerInv
<1>2. payload' = payload
  <2>1. ASSUME NEW d \in Claims, Works(d)
        PROVE  payload' = payload
    BY <1>1, <2>1, WorksOK DEF OwnOK, Local
  <2> QED
    BY <2>1 DEF Next, Works, ClaimJob, Lapse, HandOff, Reapprove, AuthorityMoves, LosesAuthority,
     ApproveAgain, Review, BlockUnread,
       StartReview, VerifyStep, ReadBack, Accept, RefuseAccept, Block, ReviewFails, Decide, MoveBase,
       ClosePullRequest, vars
<1>3. claim'[c] = claim[c]
  <2>1. ASSUME NEW d \in Claims, Works(d)
        PROVE  claim'[c] = claim[c]
    <3>1. Local(d)
      BY <1>1, <2>1, WorksOK DEF OwnOK
    <3> QED  BY <3>1 DEF Local, At, Requests
  <2>2. ASSUME NEW j \in Jobs, ClaimJob(j)
        PROVE  claim'[c] = claim[c]
    <3>1. << j, job[j].fence + 1 >> \in Claims => RowOK(<< j, job[j].fence + 1 >>)
      BY <1>1 DEF BrokerInv
    <3>2. job[j].fence \in Nat
      BY <1>1 DEF TypeOK, JobRow
    <3>3. << j, job[j].fence + 1 >> # c
      BY <3>1, <3>2 DEF RowOK, At
    <3> QED  BY <1>1, <2>2, <3>3 DEF ClaimJob, TypeOK
  <2> QED
    BY <2>1, <2>2 DEF Next, Works, Lapse, HandOff, Reapprove, AuthorityMoves, LosesAuthority,
     ApproveAgain, Review, BlockUnread,
       StartReview, VerifyStep, ReadBack, Accept, RefuseAccept, Block, ReviewFails, Decide, MoveBase,
       ClosePullRequest, vars
<1>4. Commits(c)' = branch'[NameOf(c)].commits
  BY <1>2 DEF Commits, NameOf
<1>5. CASE branch'[NameOf(c)].commits = branch[NameOf(c)].commits
  BY <1>1, <1>2, <1>3, <1>4, <1>5 DEF Grows, Commits
<1>6. ASSUME NEW d \in Claims, CreatesBranch(d), NameOf(d) = NameOf(c)
      PROVE  Grows(c)
  <2>1. Adds(d)
    BY <1>1, <1>6, CreateAdds
  <2> QED  BY <1>1, <1>2, <1>3, <1>4, <2>1 DEF Grows, Adds, Commits
<1>7. ASSUME NEW d \in Claims, NameOf(d) = NameOf(c), Exists(d), WritesFile(d),
             claim[d].done < Len(Files(d))
      PROVE  Grows(c)
  <2>1. Adds(d)
    BY <1>1, <1>7, WriteAdds
  <2> QED  BY <1>1, <1>2, <1>3, <1>4, <2>1 DEF Grows, Adds, Commits
<1> QED  BY <1>1, <1>5, <1>6, <1>7, CommitsStep

\* What was true of the attested commit stays true of it.
LEMMA GrowsKeeps ==
    ASSUME IInv, NEW c \in Claims, At(c, "candidate"), Grows(c)
    PROVE  /\ At(c, "candidate")'
           /\ Sound(c) => Sound(c)'
           /\ \A n \in 0 .. Len(Files(c)) : Kept(c, n) => Kept(c, n)'
           /\ Changed(AttestedTree(c)) \subseteq PathsOf(c) =>
                (Changed(AttestedTree(c)) \subseteq PathsOf(c))'
           /\ Files(c)' = Files(c)
<1>1. /\ claim'[c] = claim[c] /\ Files(c)' = Files(c) /\ PathsOf(c)' = PathsOf(c)
  BY DEF Grows, Files, PathsOf
<1>2. /\ claim[c].head \in DOMAIN Commits(c)
      /\ \A k \in 1 .. claim[c].head : k \in DOMAIN Commits(c)
      /\ DOMAIN Files(c) = 1 .. Len(Files(c)) /\ Len(Files(c)) \in Nat
  BY CandidateType
<1>3. AttestedTree(c)' = AttestedTree(c)
  BY <1>1, <1>2 DEF Grows, AttestedTree
<1>4. ASSUME NEW k \in 1 .. claim[c].head, NEW i \in DOMAIN Files(c), Has(c, k, i)
      PROVE  Has(c, k, i)'
  BY <1>1, <1>2, <1>4 DEF Grows, Has, Holds
<1>5. Changed(AttestedTree(c))' = Changed(AttestedTree(c))
  BY <1>3 DEF Changed
<1>6. ASSUME Sound(c)
      PROVE  Sound(c)'
  BY <1>1, <1>4, <1>5, <1>6 DEF Sound
<1>7. ASSUME NEW n \in 0 .. Len(Files(c)), Kept(c, n)
      PROVE  Kept(c, n)'
  <2>1. claim[c].head \in 1 .. claim[c].head
    BY CandidateType
  <2>2. \A i \in 1 .. n : i \in DOMAIN Files(c)
    BY <1>2
  <2>3. \A i \in 1 .. n : Has(c, claim[c].head, i)
    BY <1>7 DEF Kept
  <2>4. \A i \in 1 .. n : claim'[c].head = claim[c].head /\ Has(c, claim[c].head, i)
    BY <1>1, <2>3
  <2>5. PICK h : h = claim[c].head
    OBVIOUS
  <2>6. \A i \in 1 .. n : Has(c, h, i)'
    BY <1>4, <2>1, <2>2, <2>3, <2>5
  <2>7. claim'[c].head = h
    BY <1>1, <2>5
  <2> QED  BY <2>6, <2>7 DEF Kept
<1>8. At(c, "candidate")'
  BY <1>1 DEF At
<1> QED  BY <1>1, <1>5, <1>6, <1>7, <1>8

LEMMA ReadGrows ==
    ASSUME IInv, NEW c \in Claims, At(c, "candidate"), Grows(c), NEW at, NEW done \in Nat,
           ReadSoFar(c, at, done)
    PROVE  ReadSoFar(c, at, done)'
<1>1. /\ Sound(c) => Sound(c)'
      /\ \A n \in 0 .. Len(Files(c)) : Kept(c, n) => Kept(c, n)'
      /\ Changed(AttestedTree(c)) \subseteq PathsOf(c) =>
           (Changed(AttestedTree(c)) \subseteq PathsOf(c))'
      /\ Files(c)' = Files(c)
  BY GrowsKeeps
<1>2. ASSUME at = "head", Len(Commits(c)') = claim'[c].head
      PROVE  (Changed(AttestedTree(c)) \subseteq PathsOf(c))'
  <2>1. Len(Commits(c)) = claim[c].head
    <3>1. claim'[c].head = claim[c].head /\ Len(Commits(c)) <= Len(Commits(c)')
      BY DEF Grows
    <3>2. claim[c].head \in Nat /\ claim[c].head <= Len(Commits(c)) /\ Len(Commits(c)) \in Nat
      BY CandidateType
    <3> QED  BY <1>2, <3>1, <3>2
  <2> QED  BY <1>1, <1>2, <2>1 DEF ReadSoFar
<1>3. ASSUME at = "file"
      PROVE  (done < Len(Files(c)) /\ Kept(c, done))'
  <2>1. done < Len(Files(c)) /\ Kept(c, done) /\ Len(Files(c)) \in Nat
    BY <1>3, CandidateType DEF ReadSoFar
  <2> QED  BY <1>1, <2>1
<1> QED  BY <1>1, <1>2, <1>3 DEF ReadSoFar

\* A file that is read back as it should be is so in the attested commit.
LEMMA ReadBackHolds ==
    ASSUME IInv, PathsChangeOnce, NEW c \in Claims, At(c, "candidate"), Sound(c),
           NEW n \in DOMAIN Files(c),
           HeadTree(c)[Files(c)[n].path] = Files(c)[n].content
    PROVE  Has(c, claim[c].head, n)
<1> DEFINE h    == claim[c].head
           last == Len(Commits(c))
           path == Files(c)[n].path
<1>1. h \in Nat /\ last \in Nat /\ h \in 1 .. last /\ DOMAIN Commits(c) = 1 .. last
  BY CandidateType
<1>2. PICK k \in 1 .. h : Has(c, k, n)
  BY DEF Sound
<1>3. path \in Paths
  <2>1. Files(c)[n] \in File
    BY CandidateType
  <2> QED  BY <2>1 DEF File
<1>4. \A m \in DOMAIN Commits(c) : Commits(c)[m].tree[path] # BaseTree[path] =>
          \A i \in m .. last : Commits(c)[i].tree[path] = Commits(c)[m].tree[path]
  <2>1. NameOf(c) \in Names
    BY NameType DEF IInv, BrokerInv
  <2> QED  BY <1>3, <2>1 DEF PathsChangeOnce, Commits
<1>5. Commits(c)[last].tree[path] = Files(c)[n].content
  BY DEF HeadTree
<1>6. Commits(c)[k].tree[path] = Files(c)[n].content
  BY <1>2 DEF Has, Holds
<1> HIDE DEF h, last, path
<1>7. k \in 1 .. last /\ h \in k .. last /\ last \in h .. last
  BY <1>1, <1>2
<1>8. Commits(c)[h].tree[path] = Files(c)[n].content
  <2>1. CASE Commits(c)[k].tree[path] # BaseTree[path]
    BY <1>1, <1>4, <1>6, <1>7, <2>1
  <2>2. CASE Commits(c)[k].tree[path] = BaseTree[path]
    <3>1. CASE Commits(c)[h].tree[path] = BaseTree[path]
      BY <1>6, <2>2, <3>1
    <3>2. CASE Commits(c)[h].tree[path] # BaseTree[path]
      BY <1>1, <1>4, <1>5, <1>7, <3>2
    <3> QED  BY <3>1, <3>2
  <2> QED  BY <2>1, <2>2
<1> QED  BY <1>8 DEF Has, Holds, h, path

\* The claim under review.
LEMMA ReviewedType ==
    ASSUME IInv, watch.at # "idle"
    PROVE  /\ Reviewed \in Claims /\ At(Reviewed, "candidate")
           /\ watch.job \in Jobs /\ watch.done \in Nat /\ Len(Files(Reviewed)) >= 1
<1>1. /\ watch.job \in Jobs /\ job[watch.job].state = "WATCH_PENDING"
      /\ At(Reviewed, "candidate") /\ BrokerInv /\ TypeOK /\ payload \in Submissions
  BY DEF IInv, WatchInv, Reviewed, BrokerInv
<1>2. Reviewed \in Claims
  BY <1>1, CurrentType DEF BrokerInv, JobOK, Reviewed
<1>3. watch.done \in Nat
  BY <1>1 DEF TypeOK
<1>4. Files(Reviewed) # << >> /\ Files(Reviewed) \in Seq(File)
  BY <1>1, <1>2, NameType, BrokerAssumption DEF Files
<1>5. Len(Files(Reviewed)) >= 1
  BY <1>4
<1> QED  BY <1>1, <1>2, <1>3, <1>5

\* An accepted job stays as it was accepted.
LEMMA AcceptedStays ==
    ASSUME IInv, [Next]_vars, NEW j \in Jobs, AcceptedOK(j),
           job'[j].state = "SUCCEEDED" =>
               job[j].state = "SUCCEEDED" /\ job'[j].fence = job[j].fence
    PROVE  AcceptedOK(j)'
<1> SUFFICES ASSUME job'[j].state = "SUCCEEDED"
             PROVE  (/\ At(Current(j), "candidate")
                     /\ Sound(Current(j))
                     /\ Kept(Current(j), Len(Files(Current(j)))))'
  BY DEF AcceptedOK
<1>1. PICK c : c = Current(j)
  OBVIOUS
<1>2. Current(j)' = c
  BY <1>1 DEF Current
<1>3. c \in Claims /\ At(c, "candidate") /\ Sound(c) /\ Kept(c, Len(Files(c)))
  BY <1>1, CurrentType DEF AcceptedOK, IInv, BrokerInv, JobOK
<1>4. Len(Files(c)) \in 0 .. Len(Files(c))
  BY <1>3, CandidateType
<1>5. PICK n : n = Len(Files(c))
  OBVIOUS
<1>6. Kept(c, n)'
  BY <1>3, <1>4, <1>5, StepGrows, GrowsKeeps
<1>7. At(c, "candidate")' /\ Sound(c)' /\ Files(c)' = Files(c)
  BY <1>3, StepGrows, GrowsKeeps
<1>8. Kept(c, Len(Files(c)))'
  BY <1>5, <1>6, <1>7
<1> QED  BY <1>2, <1>7, <1>8

\* Steps that leave the review where it is.
LEMMA ReadingStays ==
    ASSUME IInv, [Next]_vars, UNCHANGED watch, VerifyInv,
           watch.at # "idle" => job'[watch.job].fence = job[watch.job].fence
    PROVE  (watch.at # "idle" => ReadSoFar(Reviewed, watch.at, watch.done))'
<1> SUFFICES ASSUME watch.at # "idle"
             PROVE  ReadSoFar(Reviewed, watch.at, watch.done)'
  OBVIOUS
<1>1. PICK c, at, done : c = Reviewed /\ at = watch.at /\ done = watch.done
  OBVIOUS
<1>2. Reviewed' = c /\ watch'.at = at /\ watch'.done = done
  BY <1>1 DEF Reviewed, Current
<1>3. c \in Claims /\ At(c, "candidate") /\ done \in Nat /\ ReadSoFar(c, at, done)
  BY <1>1, ReviewedType DEF VerifyInv
<1>4. ReadSoFar(c, at, done)'
  BY <1>3, StepGrows, ReadGrows
<1> QED  BY <1>2, <1>4

\* Neither the scheduler nor a worker nor people accept a job.
LEMMA WorkersKeepVerified ==
    ASSUME IInv, VerifyInv, [Next]_vars, NEW c \in Claims, Works(c)
    PROVE  VerifyInv'
<1>1. UNCHANGED << watch, job >>
  BY WorksOK DEF IInv, OwnOK, Local
<1> QED  BY <1>1, ReadingStays, AcceptedStays DEF VerifyInv

LEMMA SchedulerKeepsVerified ==
    ASSUME IInv, VerifyInv, [Next]_vars, NEW j \in Jobs,
           ClaimJob(j) \/ Lapse(j) \/ HandOff(j) \/ Reapprove(j)
    PROVE  VerifyInv'
<1>1. job \in [Jobs -> JobRow] /\ UNCHANGED watch
  BY DEF IInv, BrokerInv, TypeOK, ClaimJob, Lapse, HandOff, Reapprove
<1>2. /\ job'[j].state # "SUCCEEDED" /\ job[j].state # "WATCH_PENDING"
      /\ \A i \in Jobs \ {j} : job'[i] = job[i]
  BY <1>1 DEF ClaimJob, Lapse, HandOff, Reapprove, JobRow
<1>3. watch.at # "idle" => watch.job \in Jobs /\ watch.job # j
  BY <1>2 DEF IInv, WatchInv
<1>4. \A i \in Jobs : AcceptedOK(i)'
  <2> TAKE i \in Jobs
  <2>1. AcceptedOK(i)
    BY DEF VerifyInv
  <2> QED  BY <1>2, <2>1, AcceptedStays
<1>5. (watch.at # "idle" => ReadSoFar(Reviewed, watch.at, watch.done))'
  BY <1>1, <1>2, <1>3, ReadingStays
<1> QED  BY <1>4, <1>5 DEF VerifyInv

\* A loss or a return of authority moves neither state nor fence.
LEMMA AuthorityKeepsVerified ==
    ASSUME IInv, VerifyInv, [Next]_vars, NEW j \in Jobs, AuthorityMoves(j)
    PROVE  VerifyInv'
<1>1. TypeOK
  BY DEF IInv, BrokerInv
<1>2. /\ job[j].state = "WATCH_PENDING" /\ UNCHANGED watch
      /\ \E a \in Authority : Moves(j, "WATCH_PENDING", a)
  BY <1>1, AuthorityAlone
<1>3. \A i \in Jobs : job'[i].state = job[i].state /\ job'[i].fence = job[i].fence
  BY <1>1, <1>2, MovesType DEF JobStates
<1>4. \A i \in Jobs : AcceptedOK(i)'
  BY <1>3, AcceptedStays DEF VerifyInv
<1>5. watch.at # "idle" => watch.job \in Jobs
  BY DEF IInv, WatchInv
<1>6. (watch.at # "idle" => ReadSoFar(Reviewed, watch.at, watch.done))'
  BY <1>2, <1>3, <1>5, ReadingStays
<1> QED  BY <1>4, <1>6 DEF VerifyInv

\* A review that ends without a decision to accept.
LEMMA IdleKeepsVerified ==
    ASSUME IInv, VerifyInv, [Next]_vars, watch' = Idle,
           \A i \in Jobs : job'[i].state = "SUCCEEDED" =>
               job[i].state = "SUCCEEDED" /\ job'[i].fence = job[i].fence
    PROVE  VerifyInv'
BY AcceptedStays, IdleType DEF VerifyInv

\* A readback that matches leads to the next one.
LEMMA VerifyStepReads ==
    ASSUME IInv, PathsChangeOnce, VerifyInv, VerifyStep,
           NEW c, c = Reviewed, NEW at, at = watch'.at, NEW done, done = watch'.done
    PROVE  done \in Nat /\ watch'.job = watch.job /\ ReadSoFar(c, at, done)
<1>1. /\ watch.at # "idle"
      /\ watch \in [job : Jobs \cup {NoJob}, at : Reading, done : Nat]
  BY DEF VerifyStep, ReadBack, IInv, BrokerInv, TypeOK
<1>2. /\ c \in Claims /\ At(c, "candidate") /\ watch.done \in Nat /\ Len(Files(c)) >= 1
      /\ ReadSoFar(c, watch.at, watch.done)
  BY <1>1, ReviewedType DEF VerifyInv
<1>3. /\ claim[c].head \in 1 .. Len(Commits(c)) /\ DOMAIN Commits(c) = 1 .. Len(Commits(c))
      /\ Len(Files(c)) \in Nat /\ DOMAIN Files(c) = 1 .. Len(Files(c))
      /\ \A i \in DOMAIN Files(c) : \E k \in DOMAIN Commits(c) : Has(c, k, i)
  BY <1>2, CandidateType
<1>4. CASE watch.at = "diff" /\ Confined(Reviewed) /\ watch' = [watch EXCEPT !.at = "head"]
  <2>1. at = "head" /\ done = 0 /\ watch'.job = watch.job
    BY <1>1, <1>2, <1>4 DEF ReadSoFar
  <2>2. Len(Commits(c)) = claim[c].head => Changed(AttestedTree(c)) \subseteq PathsOf(c)
    BY <1>4 DEF Confined, HeadTree, AttestedTree
  <2> QED  BY <2>1, <2>2 DEF ReadSoFar
<1>5. CASE watch.at = "head" /\ HeadIsExpected /\ watch' = [watch EXCEPT !.at = "pr"]
  <2>1. at = "pr" /\ done = 0 /\ watch'.job = watch.job
    BY <1>1, <1>2, <1>5 DEF ReadSoFar
  <2>2. Len(Commits(c)) = claim[c].head
    BY <1>5 DEF HeadIsExpected, Expected
  <2>3. Sound(c)
    BY <1>2, <1>3, <1>5, <2>2 DEF Sound, ReadSoFar
  <2> QED  BY <2>1, <2>3 DEF ReadSoFar
<1>6. CASE watch.at = "pr" /\ watch' = [watch EXCEPT !.at = "file"]
  <2>1. at = "file" /\ done = 0 /\ watch'.job = watch.job /\ Sound(c)
    BY <1>1, <1>2, <1>6 DEF ReadSoFar
  <2>2. done < Len(Files(c)) /\ Kept(c, done)
    BY <1>2, <1>3, <2>1 DEF Kept
  <2> QED  BY <2>1, <2>2 DEF ReadSoFar
<1>7. CASE /\ watch.at = "file" /\ watch.done + 1 < Len(Files(Reviewed)) /\ FileIsExpected
           /\ watch' = [watch EXCEPT !.done = @ + 1]
  <2>1. at = "file" /\ done = watch.done + 1 /\ done \in Nat /\ watch'.job = watch.job
        /\ Sound(c) /\ Kept(c, watch.done) /\ done < Len(Files(c))
    BY <1>1, <1>2, <1>7 DEF ReadSoFar
  <2>2. done \in DOMAIN Files(c)
    BY <1>2, <1>3, <2>1
  <2>3. HeadTree(c)[Files(c)[done].path] = Files(c)[done].content
    BY <1>7, <2>1 DEF FileIsExpected, FileToRead
  <2>4. Has(c, claim[c].head, done)
    BY <1>2, <2>1, <2>2, <2>3, ReadBackHolds
  <2>5. Kept(c, done)
    <3>1. \A i \in 1 .. done : i = done \/ i \in 1 .. watch.done
      BY <1>2, <2>1
    <3> QED  BY <2>1, <2>4, <3>1 DEF Kept
  <2> QED  BY <2>1, <2>5 DEF ReadSoFar
<1> QED  BY <1>4, <1>5, <1>6, <1>7 DEF VerifyStep, ReadBack

\* The last file makes the commit whole.
LEMMA AcceptIsWhole ==
    ASSUME IInv, PathsChangeOnce, VerifyInv, Accept
    PROVE  /\ Reviewed \in Claims /\ At(Reviewed, "candidate") /\ Sound(Reviewed)
           /\ Kept(Reviewed, Len(Files(Reviewed)))
<1>1. /\ watch.at = "file" /\ watch.done + 1 = Len(Files(Reviewed)) /\ FileIsExpected
  BY DEF Accept, ReadBackWhole
<1>2. PICK c : c = Reviewed
  OBVIOUS
<1>3. /\ c \in Claims /\ At(c, "candidate") /\ watch.done \in Nat
      /\ Sound(c) /\ Kept(c, watch.done)
  BY <1>1, <1>2, ReviewedType DEF VerifyInv, ReadSoFar
<1>4. PICK n : n = watch.done + 1
  OBVIOUS
<1>5. n = Len(Files(c)) /\ n \in DOMAIN Files(c)
  <2>1. DOMAIN Files(c) = 1 .. Len(Files(c))
    BY <1>3, CandidateType
  <2> QED  BY <1>1, <1>2, <1>3, <1>4, <2>1
<1>6. HeadTree(c)[Files(c)[n].path] = Files(c)[n].content
  BY <1>1, <1>2, <1>4 DEF FileIsExpected, FileToRead
<1>7. Has(c, claim[c].head, n)
  BY <1>3, <1>5, <1>6, ReadBackHolds
<1>8. Kept(c, n)
  <2>1. \A i \in 1 .. n : i = n \/ i \in 1 .. watch.done
    BY <1>3, <1>4
  <2> QED  BY <1>3, <1>7, <2>1 DEF Kept
<1> QED  BY <1>2, <1>3, <1>5, <1>8

LEMMA AcceptKeepsVerified ==
    ASSUME IInv, PathsChangeOnce, VerifyInv, [Next]_vars, Accept
    PROVE  VerifyInv'
<1>1. /\ watch.at # "idle" /\ Decide(watch.job, "SUCCEEDED") /\ watch.job \in Jobs
      /\ job \in [Jobs -> JobRow]
  BY ReviewedType DEF Accept, ReadBackWhole, IInv, BrokerInv, TypeOK
<1>2. /\ watch' = Idle /\ job' = [job EXCEPT ![watch.job].state = "SUCCEEDED"]
  BY <1>1 DEF Decide
<1>3. /\ \A i \in Jobs : job'[i].fence = job[i].fence
      /\ \A i \in Jobs \ {watch.job} : job'[i] = job[i]
  BY <1>1, <1>2 DEF JobRow
<1>4. ASSUME NEW i \in Jobs, i # watch.job
      PROVE  AcceptedOK(i)'
  BY <1>3, <1>4, AcceptedStays DEF VerifyInv
<1>5. ASSUME NEW i \in Jobs, i = watch.job
      PROVE  AcceptedOK(i)'
  <2>1. PICK c, n : c = Reviewed /\ n = Len(Files(c))
    OBVIOUS
  <2>2. /\ c \in Claims /\ At(c, "candidate") /\ Sound(c) /\ Kept(c, n)
    BY <2>1, AcceptIsWhole
  <2>3. n \in 0 .. Len(Files(c))
    BY <2>1, <2>2, CandidateType
  <2>4. At(c, "candidate")' /\ Sound(c)' /\ Kept(c, n)' /\ Files(c)' = Files(c)
    BY <2>2, <2>3, StepGrows, GrowsKeeps
  <2>5. Current(i)' = c
    BY <1>3, <1>5, <2>1 DEF Current, Reviewed
  <2>6. Kept(c, Len(Files(c)))'
    BY <2>1, <2>4
  <2> QED  BY <2>4, <2>5, <2>6 DEF AcceptedOK
<1>6. watch'.at = "idle"
  BY <1>2, IdleType
<1> QED  BY <1>4, <1>5, <1>6 DEF VerifyInv

LEMMA ReviewKeepsVerified ==
    ASSUME IInv, PathsChangeOnce, VerifyInv, [Next]_vars, Review
    PROVE  VerifyInv'
<1>1. job \in [Jobs -> JobRow]
  BY DEF IInv, BrokerInv, TypeOK
<1>2. ASSUME NEW j \in Jobs, Decide(j, "BLOCKED")
      PROVE  VerifyInv'
  <2>1. watch' = Idle /\ job' = [job EXCEPT ![j].state = "BLOCKED"]
    BY <1>2 DEF Decide
  <2>2. \A i \in Jobs : job'[i].state = "SUCCEEDED" => job'[i] = job[i]
    BY <1>1, <2>1 DEF JobRow
  <2> QED  BY <2>1, <2>2, IdleKeepsVerified
<1>3. CASE \E j \in Jobs : BlockUnread(j)
  BY <1>2, <1>3 DEF BlockUnread
<1>4. CASE Block
  <2>1. watch.job \in Jobs
    BY <1>4, ReviewedType DEF Block
  <2> QED  BY <1>2, <1>4, <2>1 DEF Block
<1>5. CASE Accept
  BY <1>5, AcceptKeepsVerified
<1>6. ASSUME UNCHANGED job
      PROVE  \A i \in Jobs : AcceptedOK(i)'
  BY <1>6, AcceptedStays DEF VerifyInv
<1>7. CASE \E j \in Jobs : StartReview(j)
  <2>1. PICK j \in Jobs : StartReview(j)
    BY <1>7
  <2>2. watch' = [job |-> j, at |-> "diff", done |-> 0] /\ UNCHANGED job
    BY <2>1 DEF StartReview
  <2>3. watch'.at = "diff" /\ watch'.done = 0
    BY <2>2
  <2>4. ReadSoFar(Reviewed, watch.at, watch.done)'
    BY <2>3 DEF ReadSoFar
  <2> QED  BY <1>6, <2>2, <2>4 DEF VerifyInv
<1>8. CASE VerifyStep
  <2>1. PICK c, at, done : c = Reviewed /\ at = watch'.at /\ done = watch'.done
    OBVIOUS
  <2>2. done \in Nat /\ watch'.job = watch.job /\ ReadSoFar(c, at, done)
    BY <1>8, <2>1, VerifyStepReads
  <2>3. watch.at # "idle" /\ UNCHANGED job
    BY <1>8 DEF VerifyStep, ReadBack
  <2>4. c \in Claims /\ At(c, "candidate")
    BY <2>1, <2>3, ReviewedType
  <2>5. ReadSoFar(c, at, done)'
    BY <2>2, <2>4, StepGrows, ReadGrows
  <2>6. Reviewed' = c
    BY <2>1, <2>2, <2>3 DEF Reviewed, Current
  <2>7. ReadSoFar(Reviewed, watch.at, watch.done)'
    BY <2>1, <2>5, <2>6
  <2> QED  BY <1>6, <2>3, <2>7 DEF VerifyInv
<1>9. CASE RefuseAccept
  BY <1>9, IdleKeepsVerified DEF RefuseAccept
<1> QED  BY <1>3, <1>4, <1>5, <1>7, <1>8, <1>9 DEF Review

LEMMA NextKeepsVerified ==
    ASSUME IInv, PathsChangeOnce, VerifyInv, [Next]_vars
    PROVE  VerifyInv'
<1>1. job \in [Jobs -> JobRow]
  BY DEF IInv, BrokerInv, TypeOK
<1>2. ASSUME UNCHANGED << watch, job >>
      PROVE  VerifyInv'
  BY <1>2, ReadingStays, AcceptedStays DEF VerifyInv
<1>3. CASE (\E b \in Names : ClosePullRequest(b)) \/ MoveBase \/ UNCHANGED vars
  BY <1>2, <1>3 DEF ClosePullRequest, MoveBase, vars
<1>4. ASSUME NEW j \in Jobs, ReviewFails(j)
      PROVE  VerifyInv'
  <2>1. watch' = Idle /\ (UNCHANGED job \/ job' = [job EXCEPT ![j].state = "BLOCKED"])
    BY <1>4 DEF ReviewFails
  <2>2. \A i \in Jobs : job'[i].state = "SUCCEEDED" => job'[i] = job[i]
    BY <1>1, <2>1 DEF JobRow
  <2> QED  BY <2>1, <2>2, IdleKeepsVerified
<1>5. CASE \E c \in Claims : Works(c)
  BY <1>5, WorkersKeepVerified
<1> QED
  BY <1>3, <1>4, <1>5, SchedulerKeepsVerified, AuthorityKeepsVerified, ReviewKeepsVerified
     DEF Next, Works

\* What WATCH accepts is at the head that was attested: that commit has every file
\* of the job, changes nothing else and was proposed, whoever else writes the
\* branch between the requests of the readback, when submissions expect what the
\* base has.
THEOREM AcceptanceIsAttested ==
    ASSUME AgainstBase
    PROVE  Spec => []AcceptedAsAttested
<1> DEFINE Inv == IInv /\ PathsChangeOnce /\ VerifyInv
<1>1. Init => Inv
  <2> SUFFICES ASSUME Init
               PROVE  Inv
    OBVIOUS
  <2>1. IInv
    BY InitOK
  <2>2. PathsChangeOnce
    BY DEF Init, PathsChangeOnce
  <2>3. watch.at = "idle" /\ \A j \in Jobs : job[j].state = "QUEUED"
    BY DEF Init
  <2>4. VerifyInv
    BY <2>3 DEF VerifyInv, AcceptedOK
  <2> QED  BY <2>1, <2>2, <2>4
<1>2. Inv /\ [Next]_vars => Inv'
  BY NextKeeps, ChangeOnceKeeps, NextKeepsVerified
<1>3. ASSUME Inv, NEW j \in Jobs, job[j].state = "SUCCEEDED", NEW c, c = Current(j)
      PROVE  /\ \A i \in DOMAIN Files(c) : AttestedTree(c)[Files(c)[i].path] = Files(c)[i].content
             /\ Changed(AttestedTree(c)) \subseteq PathsOf(c)
             /\ branch[NameOf(c)].pr >= claim[c].pr
  <2>1. c \in Claims /\ At(c, "candidate") /\ Sound(c) /\ Kept(c, Len(Files(c)))
    BY <1>3, CurrentType DEF VerifyInv, AcceptedOK, IInv, BrokerInv, JobOK
  <2>2. DOMAIN Files(c) = 1 .. Len(Files(c))
    BY <1>3, <2>1, CandidateType
  <2>3. \A i \in DOMAIN Files(c) : AttestedTree(c)[Files(c)[i].path] = Files(c)[i].content
    BY <2>1, <2>2 DEF Kept, Has, Holds, AttestedTree
  <2>4. BranchOK(c) /\ claim[c] \in ClaimRow /\ branch[NameOf(c)].pr \in Nat
    BY <1>3, <2>1, NameType DEF IInv, BrokerInv, TypeOK, Branch
  <2>5. branch[NameOf(c)].pr >= claim[c].pr
    BY <2>1, <2>4 DEF BranchOK, At, ClaimRow
  <2> QED  BY <2>1, <2>3, <2>5 DEF Sound
<1>4. Inv => AcceptedAsAttested
  BY <1>3 DEF AcceptedAsAttested, AttestedTree
<1> HIDE DEF Inv
<1> QED  BY <1>1, <1>2, <1>4, PTL DEF Spec
=============================================================================
