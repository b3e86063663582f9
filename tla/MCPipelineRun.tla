--------------------------- MODULE MCPipelineRun ---------------------------
(***************************************************************************)
(* Instances of PipelineRun for TLC.                                       *)
(***************************************************************************)
EXTENDS PipelineRun

CONSTANTS combined, clash, mix, blacklist, germany

\* One run with every kind of file.
Everything ==
    [clash |-> clash, slices |-> <<mix, blacklist>>, locations |-> <<germany>>,
     publishes |-> TRUE, continuous |-> FALSE, unverified |-> FALSE,
     diskMayFail |-> TRUE, runs |-> 1]

\* Two runs of the loop, two files, restarts on a fresh checkout or on the files
\* left.
Loop ==
    [clash |-> None, slices |-> <<blacklist>>, locations |-> <<>>,
     publishes |-> TRUE, continuous |-> TRUE, unverified |-> TRUE,
     diskMayFail |-> TRUE, runs |-> 2]

\* Files are written and not published.
Unpublished == [Everything EXCEPT !.publishes = FALSE]

AllSetups == {Everything, Loop, Unpublished}
============================================================================
