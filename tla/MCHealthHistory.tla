-------------------------- MODULE MCHealthHistory --------------------------
(***************************************************************************)
(* Instances of HealthHistory for TLC.                                     *)
(***************************************************************************)
EXTENDS HealthHistory, TLC

CONSTANTS r1, r2, r3, c1, c2, c3, s1

OneSource == [c \in Configs |-> s1]

RunSymmetry == Permutations(Runs)

\* The fast-track run differs from the full ones.
FullRunSymmetry ==
    Permutations(Runs \ FastTrack) \cup Permutations(Configs)
============================================================================
