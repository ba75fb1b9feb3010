--------------------------- MODULE MCGitHubBroker ---------------------------
(* An instance of GitHubBroker for TLC. *)
EXTENDS GitHubBroker, TLC

CONSTANTS p, q, x, y, j1, j2

\* p is a file of the base, q is new.
Tip == [f \in Paths |-> IF f = p THEN x ELSE NoFile]

Change(path, content) ==
    [path |-> path, content |-> content,
     expected |-> IF path = p THEN x ELSE NoFile]

Small == [slug |-> "s", files |-> << Change(p, y) >>]

Large == [slug |-> "s", files |-> << Change(p, y), Change(q, x) >>]

Other == [slug |-> "s", files |-> << Change(q, y), Change(p, y) >>]

\* All under one slug: a small change and a larger one that contains it, and two
\* that contradict each other.
Offers ==
    { [j \in Jobs |-> IF j = j1 THEN Small ELSE Large],
      [j \in Jobs |-> IF j = j1 THEN Large ELSE Other] }
=============================================================================
