---------------------------- MODULE PipelineRun ----------------------------
(***************************************************************************)
(* The end of a pipeline run and the loop around it (scheduler/runner.py,  *)
(* scheduler/stages/write.py and main.py under src/src): a run writes its  *)
(* subscription files and its metadata, decides which of them may replace  *)
(* the published copies, publishes them one by one, and turns the outcome  *)
(* into a summary, a report and an exit code.  Any step may fail, a raised *)
(* error ends the run, and the process may die at any point; the next run  *)
(* starts from the files left behind or from a fresh checkout.             *)
(* What GitHubPublisher does with one file is the subject of               *)
(* GitHubPublisher.tla; here it returns True or False, or raises.          *)
(***************************************************************************)
EXTENDS Naturals, Sequences, SequencesExt

CONSTANTS
    Combined,       \* publisher.output_file
    Summary,        \* publisher.status_output_file
    Stats,          \* the trend history and its badge
    None,
    Setups,         \* the settings under which runs are considered
    MinPublish,     \* publisher.min_publish_configs
    MaxBackoff,     \* _CONTINUOUS_BACKOFF_MAX / _CONTINUOUS_BACKOFF_START
    MaxConfigs,     \* bound on the configs of a file
    MaxRuns         \* bound on the runs of any setup

VARIABLES
    setup         \* the settings of these runs, those below

\* publisher.clash_output_file, or None.
Clash == setup.clash

\* The mix file and the split files.
Slices == setup.slices

\* The per-country files that may exist.
Locations == setup.locations

\* --publish and --continuous.
Publishes == setup.publishes
Continuous == setup.continuous

\* Whether dead configs reach the writers: all validators off, or
\* validator.fail_open_on_low_alive.
Unverified == setup.unverified

\* Whether writing a file can fail.
DiskMayFail == setup.diskMayFail

SliceSet == ToSet(Slices)
LocationSet == ToSet(Locations)
ClashSet == {Clash} \ {None}
Configured == {Combined} \cup SliceSet
Subscriptions == Configured \cup ClashSet \cup LocationSet
Contents == Subscriptions \cup {Stats}

ASSUME FilesAssumption ==
    /\ MinPublish \in Nat /\ MaxConfigs \in Nat /\ MaxRuns \in Nat
    /\ MaxBackoff \in Nat \ {0}
    /\ Summary # None /\ None \notin 0 .. MaxConfigs
    /\ \A s \in Setups :
          LET slices == ToSet(s.slices)
              places == ToSet(s.locations)
              files  == {Combined, s.clash, Stats} \cup slices \cup places
          IN  /\ {s.publishes, s.continuous, s.unverified, s.diskMayFail}
                   \subseteq BOOLEAN
              /\ s.runs \in 0 .. MaxRuns
              /\ Summary \notin files
              /\ None \notin files \ {s.clash}
              /\ Combined \notin slices \cup places \cup {s.clash, Stats}
              /\ slices \cap (places \cup {s.clash, Stats}) = {}
              /\ s.clash \notin places \cup {Stats}
              /\ Stats \notin places

VARIABLES
    pc,           \* where the process is
    run,          \* runs begun
    status,       \* what the run will report
    local,        \* the local files; None for one that does not exist
    repo,         \* their published copies
    made,         \* the count the write of the combined file returned
    registered,   \* PipelineRunner._empty_output_files
    counted,      \* the counts in _output_stats, None for a file without one
    fallback,     \* output_stats["_fallback_paths"]
    retired,      \* what _write_location_outputs returned
    brokenClash,  \* the write of the Clash file raised
    withheld,     \* PipelineRunner._publish_floor_applied
    localSummary, \* the run summary on disk
    repoSummary,  \* its published copy
    hasSummary,   \* PipelineRunner._last_summary_path is set
    due,          \* targets still to be published
    allOk,        \* all_ok
    publishOk,    \* PipelineRunner._publish_ok
    exit,         \* exit code of the last run
    backoff,      \* backoff, in units of _CONTINUOUS_BACKOFF_START
    reported      \* history: the summary the report of the last run read

fileVars == <<local, made, registered, counted, fallback, retired, brokenClash>>
repoVars == <<repo, repoSummary>>
summaryVars == <<localSummary, hasSummary>>
publishVars == <<due, allOk, publishOk, withheld>>
loopVars == <<exit, backoff, reported>>
vars == <<setup, pc, run, status, fileVars, repoVars, summaryVars, publishVars,
          loopVars>>

\* The version of a file: the run that wrote it, the configs a client finds in
\* it, and whether it is the plain-text fallback.
Version == [run : 0 .. MaxRuns, count : 0 .. MaxConfigs, plain : BOOLEAN]

\* How a run ends without configs: before the validators or after them.
EmptyStatus == {"no_sources", "no_live_configs"}
RunStatus == EmptyStatus \cup {"ok", "validation_disabled"}

SummaryRecord == [run : 0 .. MaxRuns, status : RunStatus \cup {"publish_failed"},
                  floor : SUBSET Subscriptions]

TypeOK ==
    /\ setup \in Setups
    /\ pc \in {"idle", "running", "written", "recorded", "publishing", "ended",
               "stopped"}
    /\ run \in 0 .. MaxRuns
    /\ status \in RunStatus
    /\ local \in [Contents -> Version \cup {None}]
    /\ repo \in [Contents -> Version \cup {None}]
    /\ made \in 0 .. MaxConfigs
    /\ registered \subseteq SliceSet
    /\ counted \in [Subscriptions -> (0 .. MaxConfigs) \cup {None}]
    /\ fallback \subseteq Subscriptions \ ClashSet
    /\ retired \subseteq LocationSet
    /\ brokenClash \in BOOLEAN
    /\ withheld \subseteq Subscriptions \ {Combined}
    /\ {localSummary, repoSummary, reported} \subseteq SummaryRecord \cup {None}
    /\ {hasSummary, allOk, publishOk} \subseteq BOOLEAN
    /\ due \subseteq Contents \cup {Summary}
    /\ exit \in {0, 1, 3, 130}
    /\ backoff \in 1 .. MaxBackoff

\* The repository holds a working subscription, checked out here; not every
\* country has a file.
Init ==
    /\ setup \in Setups
    /\ pc = "idle" /\ run = 0 /\ status = "ok"
    /\ \E absent \in SUBSET LocationSet :
          local = [f \in Contents |->
                     IF f \in absent THEN None
                     ELSE [run |-> 0, count |-> MaxConfigs, plain |-> FALSE]]
    /\ repo = local
    /\ made = 0 /\ registered = {} /\ retired = {} /\ brokenClash = FALSE
    /\ counted = [f \in Subscriptions |-> None] /\ fallback = {}
    /\ withheld = {}
    /\ localSummary = [run |-> 0, status |-> "ok", floor |-> {}]
    /\ repoSummary = localSummary
    /\ hasSummary = FALSE
    /\ due = {} /\ allOk = TRUE /\ publishOk = FALSE
    /\ exit = 0 /\ backoff = 1
    /\ reported = None
----------------------------------------------------------------------------
(* Writing.                                                                *)

\* A new PipelineRunner starts: nothing of the previous run's state is left.
Begin ==
    /\ pc = "idle" /\ run < setup.runs
    /\ pc' = "running"
    /\ run' = run + 1
    /\ registered' = {} /\ retired' = {} /\ brokenClash' = FALSE /\ made' = 0
    /\ counted' = [f \in Subscriptions |-> None] /\ fallback' = {}
    /\ withheld' = {} /\ due' = {}
    /\ allOk' = TRUE /\ publishOk' = FALSE
    /\ hasSummary' = FALSE
    /\ reported' = None
    /\ UNCHANGED <<status, local, repoVars, localSummary, exit, backoff>>

\* A mutant: the files of countries that are gone are left as they are.
NoneRetired(texts) == texts \cap LocationSet

\* The location files a run writes: those of its countries, and, emptied, every
\* other one it finds.
LocationsOf(texts) ==
    (texts \cap LocationSet) \cup {l \in LocationSet : local[l] # None}

\* The files of a run with `counts`.  Those in `broken` fell back to plain links
\* because write_subscription failed; those in `lost` could not be written at
\* all, and a location file is removed before it is written.
Write(counts, broken, lost) ==
    LET texts == DOMAIN counts
        wrote == texts \cup LocationsOf(texts)
        count(f) == IF f \in texts THEN counts[f] ELSE 0
    IN  /\ broken \subseteq wrote \ ClashSet
        /\ local' = [f \in Contents |->
                       IF f \in wrote \ lost
                         THEN [run |-> run, count |-> count(f), plain |-> f \in broken]
                       ELSE IF f \in lost \cap LocationSet THEN None
                       ELSE local[f]]
        /\ counted' = [f \in Subscriptions |->
                         IF f \in wrote THEN count(f) ELSE None]
        /\ fallback' = broken
        /\ retired' = wrote \cap LocationSet

\* At most one text file of a run breaks.
Breakable == {{}} \cup {{f} : f \in IF DiskMayFail THEN Subscriptions ELSE {}}
Losable(broken) == SUBSET (broken \cup IF DiskMayFail THEN ClashSet ELSE {})

\* _finish_empty_run: every subscription file becomes a placeholder.  The
\* registration of the combined file is lost to the reset that follows it.
FinishEmptyRun ==
    /\ pc = "running"
    /\ status' \in EmptyStatus
    /\ \E broken \in Breakable : \E lost \in Losable(broken) :
          Write([f \in Configured \cup ClashSet |-> 0], broken, lost)
    /\ made' = 0
    /\ registered' = SliceSet
    /\ pc' = "written"
    /\ UNCHANGED <<run, repoVars, brokenClash, summaryVars, publishVars, loopVars>>

\* What _write_output returns for the combined file: nothing if it was lost;
\* the fallback counts dead configs too.
Returned(count, broken, lost) ==
    IF Combined \in lost THEN {0}
    ELSE IF Combined \in broken /\ Unverified THEN count .. MaxConfigs
    ELSE {count}

\* The outputs of a run that ended with configs.  A slice without configs is
\* registered as empty, one with only dead configs is not (the writer drops
\* them).  A Clash file that could not be written is emptied, if it can be.
WriteOutputs ==
    /\ pc = "running"
    /\ \E live \in SUBSET LocationSet :
       \E counts \in [Configured \cup ClashSet \cup live -> 0 .. MaxConfigs],
          broken \in Breakable :
       \E lost \in Losable(broken) :
          /\ \A f \in live \cup {Combined} : counts[f] > 0 \/ Unverified
          /\ Write(counts, broken, lost)
          /\ \E dead \in SUBSET {f \in SliceSet : counts[f] = 0} :
                /\ dead # {} => Unverified
                /\ registered' = {f \in SliceSet : counts[f] = 0} \ dead
          /\ made' \in Returned(counts[Combined], broken, lost)
          /\ status' \in IF counts[Combined] = 0
                         THEN {"ok", "validation_disabled"} ELSE {"ok"}
          /\ brokenClash' \in IF DiskMayFail /\ \A c \in ClashSet : counts[c] = 0
                              THEN BOOLEAN ELSE {FALSE}
          /\ brokenClash' => Clash # None
          /\ lost \cap ClashSet # {} => brokenClash'
    /\ pc' = "written"
    /\ UNCHANGED <<run, repoVars, summaryVars, publishVars, loopVars>>

\* The summary and the trend files; a run that never reached the validators
\* leaves no trend entry.
WriteMetadata ==
    /\ pc = "written"
    /\ \/ /\ localSummary' = [run |-> run, status |-> status, floor |-> withheld]
          /\ hasSummary' = TRUE
       \/ DiskMayFail /\ UNCHANGED summaryVars
    /\ \/ /\ status # "no_sources"
          /\ local' = [local EXCEPT ![Stats] =
                         [run |-> run, count |-> 0, plain |-> FALSE]]
       \/ (status = "no_sources" \/ DiskMayFail) /\ UNCHANGED local
    /\ pc' = "recorded"
    /\ UNCHANGED <<run, status, made, registered, counted, fallback, retired,
                   brokenClash, repoVars, publishVars, loopVars>>
----------------------------------------------------------------------------
(* Choosing what to publish.                                               *)

Wrote(f) == local[f] # None /\ local[f].run = run
EmptyRun == status \in EmptyStatus

\* The files of the run that are handed to the publisher.
OutputFiles ==
    Configured \cup retired \cup {s \in {Summary} : hasSummary}
      \cup {c \in ClashSet : ~ brokenClash} \cup {s \in {Stats} : Wrote(s)}

\* Too few configs: the subscriptions published before are kept.
BelowFloor == MinPublish > 0 /\ (EmptyRun \/ made < MinPublish)

\* _filter_empty_subscription_slices.
EmptySlices == registered

\* A mutant: the floor looks at the slices only.
NearEmptySlices(chosen) ==
    {f \in chosen \cap SliceSet :
        counted[f] # None /\ counted[f] \in 1 .. MinPublish - 1}

\* _filter_below_floor_subscription_slices.
NearEmpty(chosen) ==
    {f \in chosen \cap (SliceSet \cup ClashSet \cup LocationSet) :
        counted[f] # None /\ counted[f] \in 1 .. MinPublish - 1}

\* _publish_files up to its first request.
Selected ==
    LET kept == IF BelowFloor THEN OutputFiles \ Subscriptions ELSE OutputFiles
        full == IF MinPublish > 0 THEN kept \ EmptySlices ELSE kept
    IN  [chosen |-> full, scarce |-> NearEmpty(full)]

\* Publication order.
Order ==
    LET subscriptions == <<Combined>> \o SetToSeq(ClashSet) \o Slices \o Locations
    IN  IF EmptyRun
        THEN <<Combined>> \o Slices \o Locations \o SetToSeq(ClashSet)
               \o <<Stats, Summary>>
        ELSE subscriptions \o <<Summary, Stats>>

Rank(f) == CHOOSE i \in DOMAIN Order : Order[i] = f

Select ==
    /\ pc = "recorded"
    /\ IF Publishes
       THEN /\ withheld' = Selected.scarce
            /\ due' = (Selected.chosen \ Selected.scarce) \ fallback
            /\ allOk' = TRUE
            /\ pc' = "publishing"
       ELSE pc' = "ended" /\ UNCHANGED <<withheld, due, allOk>>
    /\ UNCHANGED <<run, status, fileVars, repoVars, summaryVars, publishOk>>
    /\ UNCHANGED <<backoff, reported, exit>>
----------------------------------------------------------------------------
(* Publishing.                                                             *)

\* The next file of the batch.
IsNext(f) == f \in due /\ \A g \in due : Rank(f) <= Rank(g)

\* The published copy of `f` becomes the local one.
Replace(f) ==
    IF f = Summary
    THEN repoSummary' = localSummary /\ UNCHANGED repo
    ELSE repo' = [repo EXCEPT ![f] = local[f]] /\ UNCHANGED repoSummary

\* A file that is not there cannot be read for publication.
Readable(f) == f \in {Summary} \cup {g \in Contents : local[g] # None}

\* publish_file returned True.
PublishOne ==
    /\ pc = "publishing"
    /\ \E f \in due : IsNext(f) /\ Readable(f) /\ Replace(f) /\ due' = due \ {f}
    /\ UNCHANGED <<pc, run, status, fileVars, summaryVars, allOk, publishOk,
                   withheld, loopVars>>

\* What a call that failed leaves: the commit may have been made all the same.
MayReplace(f) == (Readable(f) /\ Replace(f)) \/ UNCHANGED repoVars

\* It returned False, or the file could not be read.
FailOne ==
    /\ pc = "publishing"
    /\ \E f \in due : IsNext(f) /\ MayReplace(f) /\ due' = due \ {f}
    /\ allOk' = FALSE
    /\ UNCHANGED <<pc, run, status, fileVars, summaryVars, publishOk, withheld,
                   loopVars>>

\* A mutant: giving up on the rest is no failure.
AbortIsFine == allOk

\* all_ok once a GitHubPublishError has ended the batch.
AbortedOk == FALSE

AbortBatch ==
    /\ pc = "publishing"
    /\ \E f \in due : IsNext(f) /\ MayReplace(f)
    /\ due' = {}
    /\ allOk' = AbortedOk
    /\ UNCHANGED <<pc, run, status, fileVars, summaryVars, publishOk, withheld,
                   loopVars>>

\* EXIT_PUBLISH_FAILED is 3.
ExitCode(ok) == IF Publishes /\ ~ ok THEN 3 ELSE 0

\* The batch is over; a failure corrects the local summary.
FinishPublish ==
    /\ pc = "publishing" /\ due = {}
    /\ publishOk' = allOk
    /\ \/ /\ ~ allOk /\ hasSummary
          /\ localSummary' = [localSummary EXCEPT !.status = "publish_failed"]
       \/ /\ allOk \/ ~ hasSummary \/ DiskMayFail
          /\ UNCHANGED localSummary
    /\ pc' = "ended"
    /\ UNCHANGED <<run, status, fileVars, repoVars, hasSummary, due, allOk,
                   withheld, loopVars>>
----------------------------------------------------------------------------
(* The process.                                                            *)

\* A mutant: the report reads the configured file, whoever wrote it.
ConfiguredSummary == localSummary

\* _status_summary_file: only a summary this run wrote is reported.
SummaryToReport == IF hasSummary THEN localSummary ELSE None

\* A mutant: the pause has no bound.
PauseUnbounded(productive) ==
    /\ pc' = IF Continuous THEN "idle" ELSE "stopped"
    /\ backoff' = IF ~ Continuous \/ productive THEN 1 ELSE 2 * backoff

\* The loop waits before the next run, longer after each unproductive one.
Pause(productive) ==
    /\ pc' = IF Continuous THEN "idle" ELSE "stopped"
    /\ backoff' = IF ~ Continuous \/ productive THEN 1
                  ELSE IF 2 * backoff < MaxBackoff THEN 2 * backoff
                                                   ELSE MaxBackoff

\* _run_once and single_run return.
EndRun ==
    /\ pc = "ended"
    /\ exit' = ExitCode(publishOk)
    /\ reported' = SummaryToReport
    /\ Pause(exit' = 0 /\ ~ EmptyRun /\ made > 0)
    /\ UNCHANGED <<run, status, fileVars, repoVars, summaryVars, publishVars>>

\* An error nobody handles: bad settings, no source list, a stage that raises,
\* or a ValueError of the publisher, which it raises for a host it cannot
\* vouch for before any file of the batch.
Crash ==
    /\ pc \in {"running", "publishing"}
    /\ exit' = 1
    /\ reported' = None
    /\ Pause(FALSE)
    /\ UNCHANGED <<run, status, fileVars, repoVars, summaryVars, publishVars>>

\* The process is interrupted or killed; while it writes, location files may be
\* removed and not written again yet.
Die ==
    /\ pc \notin {"idle", "stopped"}
    /\ pc' = "stopped"
    /\ exit' = 130
    /\ \E gone \in SUBSET IF pc = "running" THEN LocationSet ELSE {} :
          local' = [f \in Contents |-> IF f \in gone THEN None ELSE local[f]]
    /\ UNCHANGED <<run, status, made, registered, counted, fallback, retired,
                   brokenClash, repoVars, summaryVars, publishVars, backoff,
                   reported>>

\* The next process, on the files left behind or on a fresh checkout.
Relaunch ==
    /\ pc = "stopped" /\ run < setup.runs
    /\ pc' = "idle"
    /\ backoff' = 1
    /\ \/ UNCHANGED <<local, localSummary>>
       \/ local' = repo /\ localSummary' = repoSummary
    /\ UNCHANGED <<run, status, made, registered, counted, fallback, retired,
                   brokenClash, repoVars, hasSummary, publishVars, exit,
                   reported>>

Next ==
    /\ \/ Begin \/ FinishEmptyRun \/ WriteOutputs \/ WriteMetadata \/ Select
       \/ PublishOne \/ FailOne \/ AbortBatch \/ FinishPublish
       \/ EndRun \/ Crash \/ Die \/ Relaunch
    /\ UNCHANGED setup

Spec == Init /\ [][Next]_vars
----------------------------------------------------------------------------
(* Properties.                                                             *)

\* A published copy that a run replaces gets either a full subscription or, of
\* the Clash and location files, one that is meant to be empty; never a
\* near-empty one, an empty combined file or slice, or the plain fallback.  The
\* slices are exempt when dead configs reach the writers: one with dead configs
\* only is published empty.
WorkingFileKept ==
    [][\A f \in Subscriptions :
          repo'[f] # repo[f] =>
             /\ ~ repo'[f].plain
             /\ MinPublish > 0 =>
                   \/ repo'[f].count >= MinPublish
                   \/ f \notin Configured /\ repo'[f].count = 0
                   \/ f \in SliceSet /\ Unverified]_vars

\* A run asked to publish that exits with 0 has published all it wrote, save
\* what a floor, the fallback or a failed Clash file held back.
GreenMeansPublished ==
    pc \in {"idle", "stopped"} /\ run > 0 /\ exit = 0 /\ Publishes =>
       /\ hasSummary => repoSummary = localSummary
       /\ \A f \in Subscriptions :
             Wrote(f) =>
                \/ repo[f] = local[f]
                \/ local[f].plain
                \/ local[f].count < MinPublish
                \/ made < MinPublish
                \/ f = Clash /\ brokenClash

\* Once a run has published its subscriptions, no location file of an earlier
\* run goes on offering configs to clients: the file of a country that is gone
\* was emptied, save for one a floor or the fallback held back.
LocationsAreCurrent ==
    pc \in {"idle", "stopped"} /\ run > 0 /\ exit = 0 /\ Publishes
       /\ ~ EmptyRun /\ made >= MinPublish =>
       \A l \in LocationSet :
          repo[l] # None /\ repo[l].run < run =>
             repo[l].count = 0 \/ l \in withheld \cup fallback

\* The report of a run never shows the numbers of an earlier one.
ReportIsOfThisRun == reported # None => reported.run = run
============================================================================
