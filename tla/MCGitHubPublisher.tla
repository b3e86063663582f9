------------------------- MODULE MCGitHubPublisher -------------------------
(***************************************************************************)
(* Instances of GitHubPublisher for TLC.                                   *)
(***************************************************************************)
EXTENDS GitHubPublisher, TLC

CONSTANTS p1, p2, b1, b2, other

\* The versions of the calls, and those committed by hand.
ContentOf == [p \in Publishers |-> IF p = p1 THEN b1 ELSE b2]

AllFaults == (Status \ {"ok", "missing"}) \cup {"lost", "unsafe"}
============================================================================
