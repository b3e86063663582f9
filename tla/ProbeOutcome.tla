---------------------------- MODULE ProbeOutcome ----------------------------
(***************************************************************************)
(* What a validator of src/src/validators promises its caller: a verdict   *)
(* for each config it was given and the list of those it found alive.      *)
(* ProbeStage.tla shows that the four validators keep this promise;        *)
(* ListValidation.tla relies on it.                                        *)
(***************************************************************************)
EXTENDS Naturals, FiniteSets

\* Config.is_alive: True, False and None.
Verdict == {"pass", "fail", "none"}

\* What a validator may deliver for `cfgs` when asked for at most `cap` live
\* ones, 0 for all: it returns only configs that passed, never more than `cap`,
\* and leaves one that passed out only once `cap` is reached.
Deliveries(cfgs, cap) ==
    {d \in [verdict : [cfgs -> Verdict], out : SUBSET cfgs] :
        LET passed == {c \in cfgs : d.verdict[c] = "pass"}
        IN  /\ d.out \subseteq passed
            /\ cap > 0 => Cardinality(d.out) <= cap
            /\ d.out # passed => cap > 0 /\ Cardinality(d.out) = cap}
=============================================================================
