--------------------------- MODULE SourceReports ---------------------------
(***************************************************************************)
(* What SourceManager.fetch_all promises its caller, without a request:    *)
(* every enabled source is reported once, as a failure or with at least    *)
(* one and at most max_files files, whatever happens to the others, and    *)
(* the reports are returned together.                                      *)
(***************************************************************************)
EXTENDS Integers

CONSTANTS Sources, MaxFiles

VARIABLES
    outcome,   \* files of each source; Failed, or NotYet while it is fetched
    returned

absVars == <<outcome, returned>>

NotYet == -1
Failed == 0

Init ==
    /\ outcome = [s \in Sources |-> NotYet]
    /\ returned = FALSE

Report(s) ==
    /\ outcome[s] = NotYet
    /\ \E o \in {Failed} \cup (1 .. MaxFiles[s]) : outcome' = [outcome EXCEPT ![s] = o]
    /\ UNCHANGED returned

Return ==
    /\ ~ returned
    /\ \A s \in Sources : outcome[s] # NotYet
    /\ returned' = TRUE
    /\ UNCHANGED outcome

Next == Return \/ \E s \in Sources : Report(s)

Spec == Init /\ [][Next]_absVars /\ WF_absVars(Next)
=============================================================================
